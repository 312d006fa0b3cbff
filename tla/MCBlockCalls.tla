----------------------------- MODULE MCBlockCalls -----------------------------
(* One block, of whose methods the Python class defines one and the native   *)
(* class another; containers of three objects, two of which compareTo()      *)
(* takes for one, one cannot be compared and one cannot be hashed.           *)
EXTENDS BlockCalls
===============================================================================
