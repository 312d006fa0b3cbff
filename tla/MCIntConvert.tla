---------------------------- MODULE MCIntConvert ----------------------------
(* Types of 2, 3, 4 and 5 bits in the place of 8, 16, 32 and 64; long is as  *)
(* wide as long long, as on Unix.                                           *)
EXTENDS IntConvert

HalfUnix == [char |-> 2, short |-> 4, int |-> 8, long |-> 16, llong |-> 16]

(* The vectors whose elements fit, and all vectors there is a converter for. *)
FittingVectors == {"sshort", "ushort", "sint", "uint", "slong", "sllong"}
AllVectors     == FittingVectors \cup {"ulong", "ullong"}

Ints64 == -16 .. 31
=============================================================================
