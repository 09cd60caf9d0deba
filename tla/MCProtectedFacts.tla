---------------------------- MODULE MCProtectedFacts ----------------------------
(* A small instance of ProtectedFacts.                                     *)
EXTENDS ProtectedFacts

CONSTANTS o1, o2     \* the observations
================================================================================
