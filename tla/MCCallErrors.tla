---------------------------- MODULE MCCallErrors ----------------------------
(* Stacks of up to four calls within each other.                            *)
EXTENDS CallErrors

(* The operations that report a failure.                                    *)
ReportingOps == {"call", "get", "set", "compare", "find"}
CatchingOps == {"call", "getattr"}

Text == {"text"}
AnyText == {"text", "blank"}

(* A missing method is called by the outermost C++ code, of a thread of the  *)
(* framework or of any thread.                                              *)
InWorker == [own \in BOOLEAN |-> IF own THEN {} ELSE {1}]
InAny == [own \in BOOLEAN |-> {1}]
=============================================================================
