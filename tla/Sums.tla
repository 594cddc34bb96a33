-------------------------------- MODULE Sums --------------------------------
(***************************************************************************)
(* The loops of checksum() (include/mbot/messages.hpp) and of the size     *)
(* functions (include/rix/msg/serialization.hpp): a sum over a sequence.   *)
(***************************************************************************)
EXTENDS Integers, Sequences

SumOf(s) ==
  LET sum[n \in 0 .. Len(s)] == IF n = 0 THEN 0 ELSE sum[n - 1] + s[n]
  IN sum[Len(s)]
=============================================================================
