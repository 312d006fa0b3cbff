------------------------------- MODULE MCBridge -------------------------------
(* Instances of Bridge: a Python script, or a C++ program that embeds the    *)
(* interpreter, with a worker of the framework.                              *)
EXTENDS Bridge

(* Everything that the module's types offer to Python code; getClassName's   *)
(* code is toString's.                                                       *)
ModuleCalls == ModuleFunctions \ {"Proxy_getClassName"}

OneCall == {"Proxy_call"}

(* A call whose native method may wait for a worker.                         *)
WaitingCall == {"ProxyCall_call"}
BlockCalls == {"handleCall"}
=============================================================================
