------------------------------ MODULE BlockCalls ------------------------------
(***************************************************************************)
(* A topology calls a Python block with data: BlockAdapter's calls, in     *)
(* which opaqueCallHandler() converts containers as ContainerRefs does,    *)
(* before the call and after it (PythonBlock.cpp:50-62).                   *)
(***************************************************************************)
EXTENDS BlockAdapter, ContainerRefs

VARIABLE data  (* what the worker converts: "none", "args" or "result"       *)

vars == <<baVars, crVars, data>>

Init == BAInit /\ CRInit /\ data = "none"

(* The script's thread is in Python code of its own meanwhile.               *)
StartData(what) ==
  /\ data = "none" /\ stack[Script] = <<>>
  /\ TopIs(Worker, {"opaque"}, IF what = "args" THEN "begin" ELSE "result")
  /\ data' = what
  /\ IF what = "args" THEN BeginArgs ELSE BeginResult
  /\ UNCHANGED baVars

DataStep ==
  /\ \/ data = "args" /\ ToPythonStep
     \/ data = "result" /\ ToNativeStep
     \/ data # "none" /\ MeanwhileStep
  /\ UNCHANGED <<baVars, data>>

(* The conversion is over: the call goes on, or is left by an exception.     *)
EndData ==
  /\ \/ data = "args" /\ Is("done") /\ ConvertArgs(Worker)
     \/ data = "result" /\ Is("native") /\ ConvertResult(Worker)
     \/ data = "result" /\ Is("raised") /\ ResultRaises(Worker)
  /\ data' = "none" /\ Quiet

(* While the worker converts, nothing happens to the blocks but that they    *)
(* lose an owner.  A call of the script reaches opaqueCallHandler() with a   *)
(* name that the Python class lacks, and never gets a result to convert: it  *)
(* goes to and fro until RecursionError.                                     *)
Next ==
  \/ (\E what \in {"args", "result"} : StartData(what)) \/ DataStep \/ EndData
  \/ /\ \/ data # "none" /\ Forsake
        \/ data = "none" /\
             \/ ScriptStep \/ TopologyStep
             \/ ConvertArgs(Script)
             \/ \E t \in Threads : CallStep(t)
     /\ UNCHANGED <<crVars, data>>

Spec == Init /\ [][Next]_vars

-----------------------------------------------------------------------------
TypeOK ==
  /\ BATypeOK /\ CRTypeOK
  /\ data \in {"none", "args", "result"}
  /\ data # "none" => TopIs(Worker, {"opaque"}, IF data = "args" THEN "begin" ELSE "result")
===============================================================================
