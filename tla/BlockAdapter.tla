----------------------------- MODULE BlockAdapter -----------------------------
(***************************************************************************)
(* A Python block and the native block that stands for it in a topology    *)
(* (Pothos/Block.py, PythonBlock.cpp): who keeps which of them alive, and  *)
(* how a call finds the one that answers it.  The Python block owns the    *)
(* native one, which has a weak reference to it; names that a side does    *)
(* not define go to the other.                                             *)
(***************************************************************************)
EXTENDS Naturals, FiniteSets, SequencesExt

CONSTANTS
  Script,         (* a thread that runs the script                           *)
  Worker,         (* the thread of the topology that runs the block          *)
  Names,          (* names of methods                                        *)
  PyNames,        (* those that the Python class defines                     *)
  NativeNames,    (* those that the native class answers itself              *)
  RecursionLimit  (* bound: CPython's limit, in frames                       *)

Threads == {Script, Worker}

ASSUME AdapterAssumption ==
  /\ Script # Worker
  /\ PyNames \cup NativeNames \subseteq Names /\ "work" \in PyNames
  /\ "_setPyBlock" \notin Names   (* only the constructor calls it          *)
  /\ RecursionLimit \in Nat

VARIABLES
  py,      (* the Python block: "none", "new" in its constructor, "live" or  *)
           (* "dead"                                                         *)
  nat,     (* the native block: "none", "live" or "dead"                     *)
  link,    (* the native block's _block: "none", "weak" or "strong"          *)
  pyVar,   (* a variable of the script has the Python block                  *)
  topo,    (* the topology has the native block                              *)
  stack,   (* per thread, its calls: [fn, name, at]                          *)
  failing, (* per thread, TRUE while an exception unwinds them               *)
  crash    (* "no", or how the process ended                                 *)

baVars == <<py, nat, link, pyVar, topo, stack, failing, crash>>

(* fn: "work", PythonBlock::work() and its like; "opaque", its               *)
(* opaqueCallHandler(); "method", a method of the Python class; "forward",   *)
(* the lambda of __getattr__.                                                *)
Call(fn, name) == [fn |-> fn, name |-> name, at |-> "begin"]
Top(t) == Last(stack[t])
TopIs(t, fns, at) ==
  /\ crash = "no" /\ ~failing[t] /\ stack[t] # <<>>
  /\ Top(t).fn \in fns /\ Top(t).at = at
Frames(s) == UNION {ToSet(s[t]) : t \in Threads}

BugKeepPy == {"method"}   (* the lambda has the native block, not self         *)
(* The calls that own the Python block: a bound method, and the lambda's     *)
(* closure; and those that own the native one.                               *)
KeepPy == {"method", "forward"}
KeepNative == {"work", "opaque", "forward"}

(* The blocks whose last owner goes are destroyed; the Python block releases *)
(* the native one.  "self" is the variable of a constructor that runs.       *)
Settle(var, top, s) ==
  /\ py' = IF py = "live" /\ ~var /\ ~(link = "strong" /\ nat = "live")
              /\ \A c \in Frames(s) : c.fn \notin KeepPy
           THEN "dead" ELSE py
  /\ nat' = IF nat = "live" /\ ~top /\ py' \notin {"new", "live"}
               /\ \A c \in Frames(s) : c.fn \notin KeepNative
            THEN "dead" ELSE nat
  /\ pyVar' = var /\ topo' = top /\ stack' = s

(* The calls s, the innermost of which goes on at next.                      *)
Continued(s, next) ==
  IF s = <<>> THEN <<>> ELSE Append(Front(s), [Last(s) EXCEPT !.at = next])
Push(t, c) == Settle(pyVar, topo, [stack EXCEPT ![t] = Append(@, c)])
Pop(t) == Settle(pyVar, topo, [stack EXCEPT ![t] = Front(@)])
To(t, at) == Settle(pyVar, topo, [stack EXCEPT ![t] = Continued(@, at)])

BAInit ==
  /\ py = "none" /\ nat = "none" /\ link = "none"
  /\ pyVar = FALSE /\ topo = FALSE
  /\ stack = [t \in Threads |-> <<>>] /\ failing = [t \in Threads |-> FALSE]
  /\ crash = "no"

-----------------------------------------------------------------------------
(* Block.__init__(): the native block is made, and a call of _setPyBlock      *)
(* gives it a weak reference, for which opaqueCallHandler() goes to the base *)
(* class.                                                                    *)

MakeNative ==
  /\ py = "none"
  /\ py' = "new" /\ nat' = "live"
  /\ stack' = [stack EXCEPT ![Script] = <<Call("opaque", "_setPyBlock")>>]
  /\ UNCHANGED <<link, pyVar, topo, failing, crash>>

BugSetPyBlock ==   (* the native block owns the Python block                  *)
  /\ TopIs(Script, {"opaque"}, "begin") /\ Top(Script).name = "_setPyBlock"
  /\ link' = "strong" /\ py' = "live" /\ pyVar' = TRUE
  /\ stack' = [stack EXCEPT ![Script] = <<>>]
  /\ UNCHANGED <<nat, topo, failing, crash>>

SetPyBlock ==
  /\ TopIs(Script, {"opaque"}, "begin") /\ Top(Script).name = "_setPyBlock"
  /\ link' = "weak" /\ py' = "live" /\ pyVar' = TRUE
  /\ stack' = [stack EXCEPT ![Script] = <<>>]
  /\ UNCHANGED <<nat, topo, failing, crash>>

-----------------------------------------------------------------------------
(* The script and the topology.                                              *)

(* getInternalBlock()                                                        *)
Join ==
  /\ crash = "no"
  /\ pyVar /\ ~topo
  /\ Settle(pyVar, TRUE, stack)
  /\ UNCHANGED <<link, failing, crash>>

(* The topology lets a block go when it does not run.                        *)
Leave ==
  /\ crash = "no"
  /\ topo /\ stack[Worker] = <<>>
  /\ Settle(pyVar, FALSE, stack)
  /\ UNCHANGED <<link, failing, crash>>

(* Any thread of the script may drop the variable, in a call or not.         *)
Forsake ==
  /\ crash = "no"
  /\ pyVar
  /\ Settle(FALSE, topo, stack)
  /\ UNCHANGED <<link, failing, crash>>

(* work(), activate(), deactivate(), propagateLabels()                       *)
CallWork ==
  /\ crash = "no"
  /\ topo /\ stack[Worker] = <<>>
  /\ Push(Worker, Call("work", "work"))
  /\ UNCHANGED <<link, failing, crash>>

(* A call by name, of a slot for instance.                                   *)
CallSlot(n) ==
  /\ crash = "no"
  /\ topo /\ stack[Worker] = <<>> /\ n \notin NativeNames
  /\ Push(Worker, Call("opaque", n))
  /\ UNCHANGED <<link, failing, crash>>

-----------------------------------------------------------------------------
(* An attribute of a Python block: its class has it, or __getattr__ makes a  *)
(* function that asks the native block.  A Python call beyond the limit      *)
(* raises RecursionError.  The caller goes on at next.                       *)

CallPython(t, n, next) ==
  IF Len(stack[t]) >= RecursionLimit
  THEN failing' = [failing EXCEPT ![t] = TRUE] /\ UNCHANGED <<py, nat, pyVar, topo, stack>>
  ELSE /\ Settle(pyVar, topo, [stack EXCEPT ![t] =
            Continued(@, next) \o <<Call(IF n \in PyNames THEN "method" ELSE "forward", n)>>])
       /\ UNCHANGED failing

CallFromScript(n) ==
  /\ crash = "no"
  /\ pyVar /\ stack[Script] = <<>>
  /\ CallPython(Script, n, "end")
  /\ UNCHANGED <<link, crash>>

(* A method calls another one, once.                                         *)
CallSelf(t, n) ==
  /\ TopIs(t, {"method"}, "begin")
  /\ CallPython(t, n, "end")
  /\ UNCHANGED <<link, crash>>

(* opaqueCallHandler(): without a block it throws a string, which nothing    *)
(* catches; then the arguments become Python objects.                        *)
WithBlock(t) ==
  /\ crash' = IF link = "none" THEN "string" ELSE "no"
  /\ IF link = "none" THEN UNCHANGED <<py, nat, pyVar, topo, stack>> ELSE To(t, "call")
  /\ UNCHANGED <<link, failing>>
BugConvertArgs(t) == TopIs(t, {"opaque"}, "begin") /\ WithBlock(t)  (* _setPyBlock too *)
ConvertArgs(t) ==
  /\ TopIs(t, {"opaque"}, "begin") /\ Top(t).name # "_setPyBlock"
  /\ WithBlock(t)

(* _block.call(name): a weak reference whose block is gone has no            *)
(* attributes, and the message about that is made of str() of it, which is   *)
(* null.                                                                     *)
AskPython(t) ==
  /\ TopIs(t, {"work"}, "begin") \/ TopIs(t, {"opaque"}, "call")
  /\ crash' = IF py = "dead" THEN "null" ELSE "no"
  /\ IF py # "dead"
     THEN CallPython(t, Top(t).name, IF Top(t).fn = "work" THEN "end" ELSE "result")
     ELSE UNCHANGED <<py, nat, pyVar, topo, stack, failing>>
  /\ UNCHANGED link

ConvertResult(t) ==
  /\ TopIs(t, {"opaque"}, "result")
  /\ To(t, "end")
  /\ UNCHANGED <<link, failing, crash>>

ResultRaises(t) ==
  /\ TopIs(t, {"opaque"}, "result")
  /\ failing' = [failing EXCEPT ![t] = TRUE]
  /\ UNCHANGED <<py, nat, link, pyVar, topo, stack, crash>>

(* self._block.call(name, *args)                                             *)
AskNative(t) ==
  /\ TopIs(t, {"forward"}, "begin")
  /\ IF Top(t).name \in NativeNames THEN To(t, "end")
     ELSE Settle(pyVar, topo, [stack EXCEPT ![t] =
            Continued(@, "end") \o <<Call("opaque", Top(t).name)>>])
  /\ UNCHANGED <<link, failing, crash>>

Return(t) ==
  /\ \/ TopIs(t, {"work", "opaque", "forward", "method"}, "end")
     \/ TopIs(t, {"method"}, "begin")
  /\ Pop(t)
  /\ UNCHANGED <<link, failing, crash>>

(* An exception leaves all calls of the thread.                              *)
Unwind(t) ==
  /\ crash = "no" /\ failing[t]
  /\ IF stack[t] = <<>>
     THEN failing' = [failing EXCEPT ![t] = FALSE] /\ UNCHANGED <<py, nat, pyVar, topo, stack>>
     ELSE Pop(t) /\ UNCHANGED failing
  /\ UNCHANGED <<link, crash>>

ScriptStep ==
  \/ MakeNative \/ SetPyBlock \/ Join \/ Leave \/ Forsake
  \/ \E n \in Names : CallFromScript(n)

CallStep(t) ==
  \/ AskPython(t) \/ AskNative(t) \/ Return(t) \/ Unwind(t)
  \/ \E n \in Names : CallSelf(t, n)

TopologyStep == CallWork \/ \E n \in Names : CallSlot(n)

-----------------------------------------------------------------------------
BATypeOK ==
  /\ py \in {"none", "new", "live", "dead"} /\ nat \in {"none", "live", "dead"}
  /\ link \in {"none", "weak", "strong"}
  /\ pyVar \in BOOLEAN /\ topo \in BOOLEAN
  /\ \A t \in Threads : Len(stack[t]) <= RecursionLimit + 1
  /\ \A c \in Frames(stack) :
       /\ c.fn \in {"work", "opaque", "method", "forward"}
       /\ c.name \in Names \cup {"_setPyBlock"}
       /\ c.at \in {"begin", "call", "result", "end"}
  /\ failing \in [Threads -> BOOLEAN]
  /\ crash \in {"no", "string", "null"}

(* While Python code of the block runs, both blocks are there, whatever the  *)
(* script and the topology drop meanwhile; so a call that came in through    *)
(* the Python block never finds it gone (PythonHandle.cpp:119).              *)
LiveDuringCalls == \A c \in Frames(stack) :
  nat = "live" /\ (c.fn \in {"method", "forward"} => py = "live")

(* Nothing but the variable of the script, the topology and running calls    *)
(* keeps the blocks: they do not keep each other (Block.py:14).              *)
BlocksFreed ==
  ~pyVar /\ ~topo /\ Frames(stack) = {} => py # "live" /\ nat # "live"

(* A call ends the process only if the topology runs a block whose Python    *)
(* object the script has let go; constructing a block never does.            *)
DiesOnlyForsaken ==
  crash # "no" => crash = "null" /\ py = "dead" /\ ~pyVar /\ topo
===============================================================================
