--------------------------- MODULE MCApplyDispatch ---------------------------
(* A Worker result, a scheduled stage and a stage without a lease, whose   *)
(* applications stop, are retried and meet each other, the operators'      *)
(* decisions and another Supervisor event.                                 *)
EXTENDS ApplyDispatch

CONSTANTS a1, r1, c1

(* A Worker result is a pair of events, a packet has one.                  *)
Sizes == [a \in App |-> IF a \in Packets THEN 1 ELSE 2]
=============================================================================
