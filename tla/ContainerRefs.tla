----------------------------- MODULE ContainerRefs -----------------------------
(***************************************************************************)
(* Who owns the elements of a container while it is converted              *)
(* (PythonConvert.cpp, FrameworkTypes.cpp).  A Python container that the   *)
(* script can reach goes to C++ and a C++ container comes back as a new    *)
(* Python one.  Inserting an element runs its hash and comparison, which   *)
(* are Python code, so the script's threads run between the elements.      *)
(*                                                                         *)
(* With each object goes another that is its value if the container is a   *)
(* dict: the script puts the two in and takes them out together.  In other *)
(* containers nothing is read of the values, which are counted along.      *)
(***************************************************************************)
EXTENDS Naturals, FiniteSets, FiniteSetsExt

CONSTANTS
  Objs,       (* objects that may be elements                                *)
  Alike,      (* objects none of which is equal to, less or greater than     *)
              (* another: compareTo() takes them for one                     *)
  Faulty,     (* objects whose comparison with another may raise an exception*)
  Unhashable, (* objects that a Python set or dict refuses                   *)
  NoObj

ASSUME ContainerAssumption ==
  Alike \cup Faulty \cup Unhashable \subseteq Objs /\ NoObj \notin Objs

VARIABLES
  rc,      (* the reference count of each object                             *)
  vrc,     (* the reference count of the value that goes with the object     *)
  script,  (* the objects that the script has variables for                  *)
  box,     (* the elements of the Python container                           *)
  conv,    (* the conversion: [kind, at]                                     *)
  todo,    (* the elements that the loop has still to handle                 *)
  copy,    (* the elements of the private copy that is iterated              *)
  cur,     (* the object of the handle that is being inserted, or NoObj      *)
  native,  (* the objects that the C++ container has handles on              *)
  values,  (* the objects whose values it has handles on                     *)
  fresh,   (* the elements of the new Python container                       *)
  taken,   (* what the container held when its conversion began              *)
  leaked   (* the elements of copies that are never released                 *)

scriptVars == <<script, box>>
loopVars == <<todo, copy, cur>>
counts == <<rc, vrc>>
nativeVars == <<native, values>>
crVars == <<counts, scriptVars, conv, loopVars, nativeVars, fresh, taken, leaked>>

Is(at) == conv.at = at
Step(at) == conv' = [conv EXCEPT !.at = at]
One(S, o) == IF o \in S THEN 1 ELSE 0
Plus(S) ==
  /\ rc' = [o \in Objs |-> rc[o] + One(S, o)]
  /\ vrc' = [o \in Objs |-> vrc[o] + One(S, o)]
Release(S, V) ==   (* references on the objects of S, and on the values of V  *)
  /\ rc' = [o \in Objs |-> rc[o] - One(S, o)]
  /\ vrc' = [o \in Objs |-> vrc[o] - One(V, o)]
Minus(S) == Release(S, S)

(* At first the script has a variable for each object and for its value.     *)
CRInit ==
  /\ script = Objs /\ box = {} /\ native = {} /\ values = {}
  /\ rc = [o \in Objs |-> 1] /\ vrc = rc
  /\ conv = [kind |-> "list", at |-> "idle"]
  /\ todo = {} /\ copy = {} /\ fresh = {} /\ taken = {} /\ leaked = {}
  /\ cur = NoObj

(* A conversion begins with a Python container of the elements b, or with a  *)
(* C++ container of proxies of the elements n and of their values.           *)
BeginWith(b, n, at) ==
  /\ script' = Objs /\ box' = b /\ native' = n /\ values' = n
  /\ rc' = [o \in Objs |-> 1 + One(b, o) + One(n, o)] /\ vrc' = rc'
  /\ conv' = [kind |-> "list", at |-> at]
  /\ todo' = {} /\ copy' = {} /\ fresh' = {} /\ taken' = {} /\ leaked' = {}
  /\ cur' = NoObj
BeginResult == \E b \in SUBSET Objs : BeginWith(b, {}, "idle")
BeginArgs == \E n \in SUBSET Objs : BeginWith({}, n, "given")
Quiet == BeginWith({}, {}, "idle")

-----------------------------------------------------------------------------
(* The script's other threads.                                              *)

Forget(o) ==
  /\ o \in script
  /\ script' = script \ {o}
  /\ Minus({o})
  /\ UNCHANGED box

Recall(o) ==     (* a variable for an element *)
  /\ o \in box \ script
  /\ script' = script \cup {o}
  /\ Plus({o})
  /\ UNCHANGED box

Put(o) ==
  /\ o \in script \ box
  /\ box' = box \cup {o}
  /\ Plus({o})
  /\ UNCHANGED script

TakeOut(o) ==
  /\ o \in box
  /\ box' = box \ {o}
  /\ Minus({o})
  /\ UNCHANGED script

MeanwhileStep ==
  /\ \E o \in Objs : Forget(o) \/ Recall(o) \/ Put(o) \/ TakeOut(o)
  /\ UNCHANGED <<conv, loopVars, nativeVars, fresh, taken, leaked>>

-----------------------------------------------------------------------------
(* To C++.  Tuples and lists run no Python code; every handle takes a        *)
(* reference of its own.                                                     *)

AllAtOnce(kind) ==
  /\ Is("idle")
  /\ conv' = [kind |-> kind, at |-> "native"]
  /\ native' = box /\ values' = box /\ taken' = box
  /\ UNCHANGED <<scriptVars, loopVars, fresh, leaked>>

TupleToVector == AllAtOnce("tuple") /\ Plus(box)
BugListToVector == AllAtOnce("list") /\ UNCHANGED counts  (* no reference is taken *)
ListToVector == AllAtOnce("list") /\ Plus(box)

(* The chunk's memory is that of a numpy array, which its handle keeps.      *)
ArrayToChunk ==
  /\ Is("idle")
  /\ conv' = [kind |-> "chunk", at |-> "native"]
  /\ \E o \in script : native' = {o} /\ values' = {o} /\ taken' = {o} /\ Plus({o})
  /\ UNCHANGED <<scriptVars, loopVars, fresh, leaked>>

(* PySet_New(obj) and PyDict_Items(obj) own the elements that they copy.     *)
CopyOf(kind) ==
  /\ Is("idle") /\ box \cap Unhashable = {}
  /\ conv' = [kind |-> kind, at |-> "next"]
  /\ todo' = box /\ copy' = box /\ taken' = box
  /\ Plus(box)
  /\ UNCHANGED <<scriptVars, cur, nativeVars, fresh, leaked>>
CopySet == CopyOf("set")
CopyItems == CopyOf("dict")

TakeNext(kind, o) ==
  /\ Is("next") /\ conv.kind = kind
  /\ cur' = o
  /\ Step("insert")
  /\ UNCHANGED <<scriptVars, nativeVars, fresh, taken, leaked>>

BugPopElement ==   (* the set itself is iterated, not a copy                  *)
  \E o \in box \ native :
    /\ TakeNext("set", o)
    /\ todo' = box \ (native \cup {o})
    /\ copy' = copy \ {o}
    /\ IF o \in copy THEN UNCHANGED counts ELSE Plus({o})

(* A popped element's reference goes to the handle.                          *)
PopElement ==
  \E o \in todo :
    /\ TakeNext("set", o)
    /\ todo' = todo \ {o} /\ copy' = copy \ {o}
    /\ UNCHANGED counts

(* A key and its value stay in the list of items, and the two handles take   *)
(* references of their own.                                                  *)
NextItem ==
  \E o \in todo :
    /\ TakeNext("dict", o)
    /\ todo' = todo \ {o} /\ UNCHANGED copy
    /\ Plus({o})

(* The C++ container has an element that compares as equal.                  *)
There == cur \in Alike /\ native \cap Alike # {}

BugInsert ==   (* the handle of an element that is there is not dropped       *)
  /\ Is("insert")
  /\ native' = IF There THEN native ELSE native \cup {cur}
  /\ values' = IF There THEN values ELSE values \cup {cur}
  /\ UNCHANGED counts
  /\ cur' = NoObj
  /\ Step("next")
  /\ UNCHANGED <<scriptVars, todo, copy, fresh, taken, leaked>>

(* insert() keeps the element that is there and drops the new handle;        *)
(* operator[] keeps the key that is there, and its value gives way to the    *)
(* new one.                                                                  *)
Insert ==
  /\ Is("insert")
  /\ \/ /\ ~There
        /\ native' = native \cup {cur} /\ values' = values \cup {cur}
        /\ UNCHANGED counts
     \/ /\ There /\ conv.kind = "set"
        /\ Minus({cur})
        /\ UNCHANGED nativeVars
     \/ /\ There /\ conv.kind = "dict"
        /\ values' = (values \ Alike) \cup {cur}
        /\ Release({cur}, values \cap Alike)
        /\ UNCHANGED native
  /\ cur' = NoObj
  /\ Step("next")
  /\ UNCHANGED <<scriptVars, todo, copy, fresh, taken, leaked>>

(* An exception of the comparison with an element that is there releases the *)
(* handles, and the list of items, which a PyObjectRef holds; the copy of a  *)
(* set is just a pointer.                                                    *)
InsertRaises ==
  /\ Is("insert")
  /\ native # {} /\ (native \cup {cur}) \cap Faulty # {}
  /\ LET items == IF conv.kind = "dict" THEN copy ELSE {}
     IN  /\ rc' = [o \in Objs |-> rc[o] - One(native \cup {cur}, o) - One(items, o)]
         /\ vrc' = [o \in Objs |-> vrc[o] - One(values \cup {cur}, o) - One(items, o)]
  /\ leaked' = IF conv.kind = "set" THEN copy ELSE leaked
  /\ native' = {} /\ values' = {} /\ todo' = {} /\ copy' = {} /\ cur' = NoObj /\ taken' = {}
  /\ Step("raised")
  /\ UNCHANGED <<scriptVars, fresh>>

(* The copy of a set is empty by now and what is left of it has no elements. *)
EndToNative ==
  /\ Is("next") /\ todo = {}
  /\ Minus(copy)
  /\ copy' = {}
  /\ Step("native")
  /\ UNCHANGED <<scriptVars, todo, cur, nativeVars, fresh, taken, leaked>>

-----------------------------------------------------------------------------
(* To Python.  C++ code may put the proxies into a container of another      *)
(* kind.  They are proxies of this environment: an entry of another would be *)
(* converted by getHandle(), and convertSetToPySet() would use the result    *)
(* after its handle is gone.                                                 *)

BeginToPython ==
  /\ Is("given")
  /\ \E k \in {"list", "set", "dict"} : conv' = [kind |-> k, at |-> "add"]
  /\ todo' = native
  /\ UNCHANGED <<counts, scriptVars, copy, cur, nativeVars, fresh, taken, leaked>>

Add(kind, o) ==
  /\ Is("add") /\ conv.kind = kind
  /\ todo' = todo \ {o}
  /\ UNCHANGED <<scriptVars, conv, copy, cur, nativeVars, taken, leaked>>

BugListSetItem ==   (* the list gets a reference that is not its own          *)
  \E o \in todo : Add("list", o) /\ fresh' = fresh \cup {o} /\ UNCHANGED counts

(* PyList_SetItem steals the new reference it is given.                      *)
ListSetItem ==
  \E o \in todo : Add("list", o) /\ fresh' = fresh \cup {o} /\ Plus({o})

(* PySet_Add and PyDict_SetItem take a reference of their own, or fail, at   *)
(* which nobody looks.                                                       *)
TakeOrFail(o) ==
  IF o \in Unhashable THEN UNCHANGED <<counts, fresh>>
                      ELSE fresh' = fresh \cup {o} /\ Plus({o})
SetAdd == \E o \in todo : Add("set", o) /\ TakeOrFail(o)
DictSetItem == \E o \in todo : Add("dict", o) /\ TakeOrFail(o)

(* The new container takes the place of the old one, and the C++ container   *)
(* with its handles goes.                                                    *)
EndToPython ==
  /\ Is("add") /\ todo = {}
  /\ rc' = [o \in Objs |-> rc[o] - One(box, o) - One(native, o)]
  /\ vrc' = [o \in Objs |-> vrc[o] - One(box, o) - One(values, o)]
  /\ box' = fresh
  /\ native' = {} /\ values' = {} /\ fresh' = {}
  /\ Step("done")
  /\ UNCHANGED <<script, loopVars, taken, leaked>>

ToNativeStep ==
  \/ TupleToVector \/ ListToVector \/ ArrayToChunk \/ CopySet \/ CopyItems
  \/ PopElement \/ NextItem \/ Insert \/ InsertRaises \/ EndToNative
ToPythonStep == BeginToPython \/ ListSetItem \/ SetAdd \/ DictSetItem \/ EndToPython

-----------------------------------------------------------------------------
CRTypeOK ==
  /\ rc \in [Objs -> Nat] /\ vrc \in [Objs -> Nat]
  /\ script \subseteq Objs /\ box \subseteq Objs
  /\ conv \in [kind : {"tuple", "list", "set", "dict", "chunk"},
            at : {"idle", "next", "insert", "raised", "native", "given", "add", "done"}]
  /\ todo \subseteq Objs /\ copy \subseteq Objs /\ native \subseteq Objs /\ values \subseteq Objs
  /\ fresh \subseteq Objs /\ taken \subseteq Objs /\ leaked \subseteq Objs
  /\ cur \in Objs \cup {NoObj}

(* Every count is the number of those that own the object: variables, the    *)
(* elements of containers and of copies, and handles.  So it is with values. *)
CountsBalance == \A o \in Objs :
  LET both == One(script, o) + One(box, o) + One(copy, o) + (IF cur = o THEN 1 ELSE 0)
                + One(fresh, o) + One(leaked, o)
  IN  rc[o] = both + One(native, o) /\ vrc[o] = both + One(values, o)

(* Whatever the conversion has still to look at is alive, although the       *)
(* script may change the container and forget the elements meanwhile.        *)
AliveWhileConverted ==
  LET both == todo \cup ({cur} \ {NoObj}) \cup fresh
  IN  /\ \A o \in both \cup native : rc[o] > 0
      /\ \A o \in both \cup values : vrc[o] > 0

(* The C++ container has what the Python container held at one moment, but   *)
(* for elements that compareTo() takes for others.  In a map, one key stands *)
(* for these, and has the value of one of them, not always its own           *)
(* (PythonConvert.cpp:498); every other key has its own value.               *)
Snapshot == Is("native") =>
  /\ native \subseteq taken
  /\ \A o \in taken \ native : o \in Alike /\ native \cap Alike # {}
  /\ values \subseteq taken /\ values \ Alike = native \ Alike
  /\ IF conv.kind = "dict"
     THEN native \cap Alike # {} => \E k, v \in Alike :
            native \cap Alike = {k} /\ values \cap Alike = {v}
     ELSE values = native
================================================================================
