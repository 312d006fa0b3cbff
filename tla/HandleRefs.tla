------------------------------ MODULE HandleRefs ------------------------------
(***************************************************************************)
(* Who owns a reference to a Python object, and what the object's counter  *)
(* says.  The owners on the C++ side are PyObjectRefs: the member ref of   *)
(* each PythonProxyHandle and the locals of PythonProxyHandle::call().     *)
(* Between two steps of a thread the lock may change hands (Bridge says    *)
(* where); within a step the counters change under the lock, but for the   *)
(* increment by which ProxyToPyObject returns an object to Python, which   *)
(* is a load and a store.                                                  *)
(***************************************************************************)
EXTENDS Integers, FiniteSets

CONSTANTS
  Threads,
  Objects,  (* Python objects, each a piece of memory                         *)
  Slots,    (* references that Python code owns: variables, container items   *)
  Handles,  (* PythonProxyHandles                                             *)
  Vars,     (* Pothos::Proxy variables of C++ code                            *)
  UserOf,   (* the thread that assigns each variable                          *)
  None      (* no object, or no handle                                        *)

(* The PyObjectRefs among the locals of call(), one set for each thread; temp *)
(* is the one that ends with the expression it is made in.                    *)
Locals == {"attrObj", "argsObj", "result", "temp"} \X Threads

Owners == Slots \cup Handles \cup Locals

(* What shares a handle: a variable; a thread, for the shared_ptr that        *)
(* getHandle() gave the function it runs; and x, the proxy that is a local of *)
(* call().                                                                    *)
Boxes == {"x"} \X Threads
Sharers == Vars \cup Threads \cup Boxes

ASSUME RefsAssumption ==
  /\ None \notin Objects \cup Handles
  /\ IsFiniteSet(Owners)
  /\ Slots \cap Handles = {} /\ (Slots \cup Handles) \cap Locals = {}
  /\ Vars \cap Threads = {} /\ (Vars \cup Threads) \cap Boxes = {}
  /\ UserOf \in [Vars -> Threads]

VARIABLES
  rc,    (* per object, ob_refcnt                                             *)
  alive, (* per object, FALSE when its memory was given back                  *)
  own,   (* per owner, the object it has a reference to, or None              *)
  hold,  (* per sharer, the handle it shares, or None                         *)
  dying, (* per thread, the handle it destroys, or None                       *)
  pc,    (* per thread, the step of call() or ProxyToPyObject() it is at      *)
  seen,  (* per thread that increments unlocked, the count that it loaded     *)
  torn   (* history: objects that lost an update of their count               *)

vars == <<rc, alive, own, hold, dying, pc, seen, torn>>

(* The steps of call() for a field accessor, and those on a result that is    *)
(* a PothosProxy.                                                             *)
Accessing == {"accessing", "setting", "fetched", "emptied", "assigned",
              "accessed", "answered"}
Unboxing == {"boxed", "unboxing", "unboxed", "converted"}

Steps == {"idle", "located", "gotArg", "pushed", "returned", "wrapped",
          "dropHandles", "dropArgs", "dropAttr", "storing"}
         \cup Accessing \cup Unboxing

Held(h) == \E x \in Sharers : hold[x] = h
OwnersOf(o) == {k \in Owners : own[k] = o}
ObjectOf(x) == own[hold[x]]
InPython == {own[s] : s \in Slots} \ {None}

Init ==
  /\ rc = [o \in Objects |-> 0]
  /\ alive = [o \in Objects |-> FALSE]
  /\ own = [k \in Owners |-> None]
  /\ hold = [x \in Sharers |-> None]
  /\ dying = [t \in Threads |-> None]
  /\ pc = [t \in Threads |-> "idle"]
  /\ seen = [t \in Threads |-> 0]
  /\ torn = {}

-----------------------------------------------------------------------------
(* Owners and the counter.                                                  *)

(* Owner k gets a reference to o, and n is added to the counter.            *)
Share(k, o, n) ==
  /\ own[k] = None
  /\ own' = [own EXCEPT ![k] = o]
  /\ rc' = [rc EXCEPT ![o] = @ + n]
  /\ UNCHANGED <<alive, torn>>

(* Owner k gets a reference to an object the interpreter makes, and n counts. *)
(* An object that lost an update and its last owner is forgotten.           *)
Make(k, o, n) ==
  /\ own[k] = None
  /\ IF o \in torn THEN OwnersOf(o) = {} ELSE ~alive[o]
  /\ torn' = torn \ {o}
  /\ own' = [own EXCEPT ![k] = o]
  /\ rc' = [rc EXCEPT ![o] = n]
  /\ alive' = [alive EXCEPT ![o] = TRUE]

(* ~PyObjectRef() and Python's own Py_XDECREF.                              *)
Drop(k) ==
  /\ IF own[k] = None
       THEN UNCHANGED <<rc, alive, own>>
       ELSE /\ own' = [own EXCEPT ![k] = None]
            /\ rc' = [rc EXCEPT ![own[k]] = @ - 1]
            /\ alive' = [alive EXCEPT ![own[k]] = @ /\ rc[own[k]] # 1]
  /\ UNCHANGED torn

(* What PythonProxyHandle(env, obj, borrowed) adds to the counter: the      *)
(* temporary counts a borrowed reference, the assignment to ref counts one  *)
(* more, the end of the temporary one less.                                 *)
HandleCounts(borrowed) == (IF borrowed THEN 1 ELSE 0) + 1 - 1

(* A sharer lets go of its handle; the last one makes thread t destroy it.  *)
BugLetGo(t, x) ==         (* every one does                                  *)
  /\ hold' = [hold EXCEPT ![x] = None]
  /\ dying' = [dying EXCEPT ![t] = hold[x]]

LetGo(t, x) ==
  /\ hold' = [hold EXCEPT ![x] = None]
  /\ dying' = [dying EXCEPT ![t] =
       IF \E y \in Sharers \ {x} : hold[y] = hold[x] THEN None ELSE hold[x]]

Hold(x, h) == hold[x] = None /\ hold' = [hold EXCEPT ![x] = h]
Mine(t, v) == UserOf[v] = t /\ hold[v] # None
Goes(t, p, q) == dying[t] = None /\ pc[t] = p /\ pc' = [pc EXCEPT ![t] = q]

-----------------------------------------------------------------------------
(* Python code, on any thread that has the lock.                            *)

PyNew(s, o) ==
  /\ Make(s, o, 1)
  /\ UNCHANGED <<hold, dying, pc, seen>>

PyCopy(s, o) ==
  /\ Share(s, o, 1)
  /\ UNCHANGED <<hold, dying, pc, seen>>

PyDrop(s) ==
  /\ own[s] # None /\ Drop(s)
  /\ UNCHANGED <<hold, dying, pc, seen>>

-----------------------------------------------------------------------------
(* Proxies: handles, and the variables that share them.                     *)

(* PyObjectToProxy(): a handle for a reference borrowed from Python.        *)
WrapBorrowed(t, v, h, o) ==
  /\ Goes(t, "idle", "idle") /\ UserOf[v] = t
  /\ Share(h, o, HandleCounts(TRUE)) /\ Hold(v, h)
  /\ UNCHANGED <<dying, seen>>

(* A converter: a handle for an object it made, makeHandle(obj, REF_NEW).   *)
WrapNew(t, v, h, o) ==
  /\ Goes(t, "idle", "idle") /\ UserOf[v] = t
  /\ Make(h, o, 1 + HandleCounts(FALSE)) /\ Hold(v, h)
  /\ UNCHANGED <<dying, seen>>

CopyProxy(t, v, w) ==
  /\ Goes(t, "idle", "idle") /\ UserOf[w] = t
  /\ hold[v] # None /\ Hold(w, hold[v])
  /\ UNCHANGED <<rc, alive, own, dying, seen, torn>>

DropProxy(t, v) ==
  /\ Goes(t, "idle", "idle") /\ Mine(t, v)
  /\ LetGo(t, v)
  /\ UNCHANGED <<rc, alive, own, seen, torn>>

(* ~PythonProxyHandle(), when the thread has the lock again.                *)
Destroy(t) ==
  /\ dying[t] # None /\ dying' = [dying EXCEPT ![t] = None]
  /\ Drop(dying[t])
  /\ UNCHANGED <<hold, pc, seen>>

-----------------------------------------------------------------------------
(* ProxyToPyObject(): newRef() runs within a PyThreadStateLock, so other     *)
(* threads change the counter between its load and its store.  Nothing more  *)
(* is returned until an object that lost an update is gone: a bound.         *)

Load(t, o) ==
  /\ torn = {}
  /\ seen' = [seen EXCEPT ![t] = rc[o]]

Store(t, k, o) ==
  /\ own[k] = None
  /\ own' = [own EXCEPT ![k] = o]
  /\ rc' = [rc EXCEPT ![o] = seen[t] + 1]
  /\ torn' = IF rc[o] = seen[t] THEN torn ELSE torn \cup {o}
  /\ seen' = [seen EXCEPT ![t] = 0]
  /\ UNCHANGED alive

ReturnLoad(t, v) ==
  /\ Goes(t, "idle", "storing") /\ Mine(t, v)
  /\ Hold(t, hold[v]) /\ Load(t, ObjectOf(v))
  /\ UNCHANGED <<rc, alive, own, dying, torn>>

(* ... and Python owns the reference.                                        *)
ReturnStore(t, s) ==
  /\ Goes(t, "storing", "idle")
  /\ Store(t, s, ObjectOf(t)) /\ LetGo(t, t)

-----------------------------------------------------------------------------
(* PythonProxyHandle::call(), on the object of a variable of t.              *)

(* The callable is the object itself or one of its attributes, which Python  *)
(* owns.  A call is made only with a variable left for its answer: a bound.  *)
CallLocate(t, v, o) ==
  /\ Goes(t, "idle", "located") /\ Mine(t, v)
  /\ \E w \in Vars : UserOf[w] = t /\ hold[w] = None
  /\ o = ObjectOf(v) \/ o \in InPython
  /\ Share(<<"attrObj", t>>, o, 1)
  /\ UNCHANGED <<hold, dying, seen>>

(* It is no callable: its value is the answer.                               *)
CallField(t, v, h) ==
  /\ Goes(t, "located", "dropAttr") /\ UserOf[v] = t
  /\ Share(h, own[<<"attrObj", t>>], HandleCounts(TRUE)) /\ Hold(v, h)
  /\ UNCHANGED <<dying, seen>>

(* getHandle(args[i]), into argHandles or as the value of set:, for an       *)
(* argument that is a handle ...                                             *)
CallShareArg(t, w) ==
  /\ Goes(t, "located", "gotArg") \/ Goes(t, "accessing", "setting")
  /\ Mine(t, w)
  /\ Hold(t, hold[w])
  /\ UNCHANGED <<rc, alive, own, dying, seen, torn>>

(* ... and for one of another environment, converted for this call.          *)
CallConvertArg(t, h, o) ==
  /\ Goes(t, "located", "gotArg") \/ Goes(t, "accessing", "setting")
  /\ Make(h, o, 1 + HandleCounts(FALSE)) /\ Hold(t, h)
  /\ UNCHANGED <<dying, seen>>

(* PyTuple_SetItem() steals the reference: it is given a newRef().           *)
BugCallPushArg(t) ==      (* ... ref.obj                                     *)
  /\ Goes(t, "gotArg", "pushed")
  /\ Share(<<"argsObj", t>>, ObjectOf(t), 0)
  /\ UNCHANGED <<hold, dying, seen>>

CallPushArg(t) ==
  /\ Goes(t, "gotArg", "pushed")
  /\ Share(<<"argsObj", t>>, ObjectOf(t), 1)
  /\ UNCHANGED <<hold, dying, seen>>

CallNoArgs(t) ==
  /\ Goes(t, "located", "pushed")
  /\ UNCHANGED <<rc, alive, own, hold, dying, seen, torn>>

(* The callee returns a new reference, to an object it made or one it knew.  *)
CallReturn(t, o) ==
  /\ Goes(t, "pushed", "returned")
  /\ \/ Make(<<"result", t>>, o, 1)
     \/ /\ o \in InPython \cup {own[<<"attrObj", t>>], own[<<"argsObj", t>>]}
        /\ Share(<<"result", t>>, o, 1)
  /\ UNCHANGED <<hold, dying, seen>>

(* PyObject_SetAttrString() or the callee may keep the argument.             *)
KeepArg(t, s, o) ==
  /\ \/ Goes(t, "setting", "setting") /\ o = ObjectOf(t)
     \/ Goes(t, "pushed", "pushed") /\ o = own[<<"argsObj", t>>]
  /\ Share(s, o, 1)
  /\ UNCHANGED <<hold, dying, seen>>

(* The object is not callable, the conversion of an argument or the callee   *)
(* fails: call() throws.                                                     *)
CallRaise(t) ==
  /\ Goes(t, "located", "dropHandles") \/ Goes(t, "pushed", "dropHandles")
  /\ UNCHANGED <<rc, alive, own, hold, dying, seen, torn>>

(* makeHandle(result): REF_BORROWED, for the PyObjectRef keeps its own.      *)
BugCallWrap(t, v, h) ==   (* REF_NEW                                         *)
  /\ Goes(t, "returned", "wrapped") \/ Goes(t, "accessed", "answered")
  /\ UserOf[v] = t
  /\ Share(h, own[<<"result", t>>], HandleCounts(FALSE)) /\ Hold(v, h)
  /\ UNCHANGED <<dying, seen>>

CallWrap(t, v, h) ==
  /\ Goes(t, "returned", "wrapped") \/ Goes(t, "accessed", "answered")
  /\ UserOf[v] = t
  /\ Share(h, own[<<"result", t>>], HandleCounts(TRUE)) /\ Hold(v, h)
  /\ UNCHANGED <<dying, seen>>

(* x is the result.  When it is a PothosProxy, the answer is the proxy in    *)
(* it, of another environment: convertPyProxyToProxy() gets a reference from *)
(* ProxyToPyObject(), copies the proxy and gives the reference up.           *)
CallBox(t, h) ==
  /\ Goes(t, "returned", "boxed")
  /\ Share(h, own[<<"result", t>>], HandleCounts(TRUE)) /\ Hold(<<"x", t>>, h)
  /\ UNCHANGED <<dying, seen>>

UnboxLoad(t) ==
  /\ Goes(t, "boxed", "unboxing")
  /\ Load(t, ObjectOf(<<"x", t>>))
  /\ UNCHANGED <<rc, alive, own, hold, dying, torn>>

UnboxStore(t) ==
  /\ Goes(t, "unboxing", "unboxed")
  /\ Store(t, <<"temp", t>>, ObjectOf(<<"x", t>>))
  /\ UNCHANGED <<hold, dying>>

(* ... also when getClassName() or the conversion throws.                    *)
DropBox(t) ==
  /\ Goes(t, "converted", "wrapped") \/ Goes(t, "boxed", "wrapped")
  /\ LetGo(t, <<"x", t>>)
  /\ UNCHANGED <<rc, alive, own, seen, torn>>

DropTemp(t) ==
  /\ Goes(t, "unboxed", "converted") \/ Goes(t, "assigned", "accessed")
  /\ Drop(<<"temp", t>>)
  /\ UNCHANGED <<hold, dying, seen>>

(* The locals end in the reverse of the order they were declared in.         *)
DropResult(t) ==
  /\ Goes(t, "wrapped", "dropHandles")
  /\ Drop(<<"result", t>>)
  /\ UNCHANGED <<hold, dying, seen>>

DropArgHandles(t) ==
  /\ Goes(t, "dropHandles", "dropArgs") \/ Goes(t, "setting", "accessed")
  /\ LetGo(t, t)
  /\ UNCHANGED <<rc, alive, own, seen, torn>>

DropArgs(t) ==
  /\ Goes(t, "dropArgs", "dropAttr")
  /\ Drop(<<"argsObj", t>>)
  /\ UNCHANGED <<hold, dying, seen>>

BugDropAttr(t) ==         (* attrObj a plain PyObject pointer                *)
  /\ Goes(t, "dropAttr", "idle")
  /\ UNCHANGED <<rc, alive, own, hold, dying, seen, torn>>

DropAttr(t) ==
  /\ Goes(t, "dropAttr", "idle")
  /\ Drop(<<"attrObj", t>>)
  /\ UNCHANGED <<hold, dying, seen>>

-----------------------------------------------------------------------------
(* The accessors "set:..." and "get:..." of call().                          *)

(* result is None, an object of Python's, until an attribute is its value.   *)
AccessStart(t, v, o) ==
  /\ Goes(t, "idle", "accessing") /\ Mine(t, v)
  /\ \E w \in Vars : UserOf[w] = t /\ hold[w] = None
  /\ o \in InPython /\ Share(<<"result", t>>, o, 1)
  /\ UNCHANGED <<hold, dying, seen>>

AccessGet(t, o) ==
  /\ Goes(t, "accessing", "fetched")
  /\ \/ Make(<<"temp", t>>, o, 1)
     \/ o \in InPython /\ Share(<<"temp", t>>, o, 1)
  /\ UNCHANGED <<hold, dying, seen>>

(* operator=() drops the reference it had, and counts one for the new object *)
(* before the temporary ends.                                                *)
AccessEmpty(t) ==
  /\ Goes(t, "fetched", "emptied")
  /\ Drop(<<"result", t>>)
  /\ UNCHANGED <<hold, dying, seen>>

AccessAssign(t) ==
  /\ Goes(t, "emptied", "assigned")
  /\ Share(<<"result", t>>, own[<<"temp", t>>], 1)
  /\ UNCHANGED <<hold, dying, seen>>

(* After the answer, or by a throw: an unknown operation, the conversion of  *)
(* the value fails, there is no such attribute, or it cannot be set.         *)
AccessEnd(t) ==
  /\ \E p \in {"accessing", "accessed", "answered"} : Goes(t, p, "idle")
  /\ Drop(<<"result", t>>)
  /\ UNCHANGED <<hold, dying, seen>>

-----------------------------------------------------------------------------
PyStep == \E s \in Slots :
            \/ \E o \in Objects : PyNew(s, o)
            \/ \E o \in InPython : PyCopy(s, o)
            \/ PyDrop(s)

ProxyStep(t) ==
  \/ \E v \in Vars, h \in Handles :
       \/ \E o \in InPython : WrapBorrowed(t, v, h, o)
       \/ \E o \in Objects : WrapNew(t, v, h, o)
  \/ \E v, w \in Vars : CopyProxy(t, v, w)
  \/ \E v \in Vars : DropProxy(t, v) \/ ReturnLoad(t, v)
  \/ \E s \in Slots : ReturnStore(t, s)
  \/ Destroy(t)

CallStep(t) ==
  \/ \E v \in Vars :
       \/ \E o \in Objects : CallLocate(t, v, o) \/ AccessStart(t, v, o)
       \/ CallShareArg(t, v)
       \/ \E h \in Handles : CallField(t, v, h) \/ CallWrap(t, v, h)
  \/ \E o \in Objects :
       \/ \E h \in Handles : CallConvertArg(t, h, o)
       \/ \E s \in Slots : KeepArg(t, s, o)
       \/ CallReturn(t, o) \/ AccessGet(t, o)
  \/ CallPushArg(t) \/ CallNoArgs(t) \/ CallRaise(t)
  \/ \E h \in Handles : CallBox(t, h)
  \/ UnboxLoad(t) \/ UnboxStore(t) \/ DropBox(t) \/ DropTemp(t)
  \/ DropResult(t) \/ DropArgHandles(t) \/ DropArgs(t) \/ DropAttr(t)
  \/ AccessEmpty(t) \/ AccessAssign(t) \/ AccessEnd(t)

Next == PyStep \/ \E t \in Threads : ProxyStep(t) \/ CallStep(t)

Spec == Init /\ [][Next]_vars

-----------------------------------------------------------------------------
(* Properties.                                                              *)

(* The state has its types; a counter that lost no update is not negative.   *)
TypeOK ==
  /\ rc \in [Objects -> Int] /\ \A o \in Objects \ torn : rc[o] >= 0
  /\ alive \in [Objects -> BOOLEAN]
  /\ own \in [Owners -> Objects \cup {None}]
  /\ hold \in [Sharers -> Handles \cup {None}]
  /\ dying \in [Threads -> Handles \cup {None}]
  /\ pc \in [Threads -> Steps]
  /\ seen \in [Threads -> Int]
  /\ torn \subseteq Objects

(* An object whose updates all took effect counts exactly its owners, along  *)
(* every path through makeHandle(), call() with its accessors, its answers   *)
(* and its exceptions, and the destructors, whatever other threads do in     *)
(* between.  It says nothing of an object that lost an update to the         *)
(* unlocked increment.                                                       *)
CountExact ==
  \A o \in Objects \ torn : rc[o] = Cardinality(OwnersOf(o))

(* No owner is left with freed memory, and no object outlives its last       *)
(* owner: neither a use after free nor a leak.                               *)
AliveWhileOwned ==
  \A o \in Objects \ torn : alive[o] <=> OwnersOf(o) # {}

(* A handle has its reference for as long as somebody shares it, and while   *)
(* the one thread that let go of it last is destroying it; no longer.        *)
HandleLifetime ==
  /\ \A x \in Sharers : hold[x] # None => own[hold[x]] # None
  /\ \A h \in Handles : own[h] # None => Held(h) \/ \E t \in Threads : dying[t] = h
  /\ \A t \in Threads : dying[t] # None =>
       /\ own[dying[t]] # None /\ ~Held(dying[t])
       /\ \A u \in Threads \ {t} : dying[u] # dying[t]

(* However a call ends, by a field, an accessor, a result, the proxy in a    *)
(* result or an exception, the thread has no reference and shares no handle  *)
(* through it afterwards; and it has the callable, the arguments, the        *)
(* temporaries and the result for as long as it uses them.                   *)
Balanced(t) ==
  /\ own[<<"attrObj", t>>] # None <=> pc[t] \notin {"idle", "storing"} \cup Accessing
  /\ own[<<"result", t>>] # None
       <=> pc[t] \in ({"returned", "wrapped"} \cup Unboxing \cup Accessing)
                        \ {"emptied"}
  /\ own[<<"temp", t>>] # None <=> pc[t] \in {"fetched", "emptied", "assigned", "unboxed"}
  /\ pc[t] \in {"idle", "storing", "located", "gotArg", "dropAttr"} \cup Accessing
       => own[<<"argsObj", t>>] = None
  /\ pc[t] \in ({"idle", "located", "dropArgs", "dropAttr"} \cup Accessing) \ {"setting"}
       => hold[t] = None
  /\ pc[t] \in {"gotArg", "storing", "setting"} => hold[t] # None
  /\ hold[<<"x", t>>] # None <=> pc[t] \in Unboxing

CallBalanced == \A t \in Threads : Balanced(t)
=============================================================================
