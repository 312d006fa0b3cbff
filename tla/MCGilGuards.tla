----------------------------- MODULE MCGilGuards -----------------------------
(* Instance of GilGuards: one thread of each kind.                           *)
EXTENDS GilGuards
=============================================================================
