--------------------------- MODULE MCScopedAttempt ---------------------------
(***************************************************************************)
(* Instances of ScopedAttempt: two dispatchers and two attempts that refer *)
(* to one authority record; one dispatcher with one attempt.               *)
(***************************************************************************)
EXTENDS ScopedAttempt
CONSTANT auth

OneAuthority == [a \in Attempts |-> auth]
==============================================================================
