--------------------------- MODULE MCGithubEffects ---------------------------
(* Instance of GithubEffects: the audited heads are the first commit, and  *)
(* the repair of it.                                                       *)
EXTENDS GithubEffects, TLC

CONSTANTS c1, c2, p1, t1, t2

FirstAudited == [t \in Task |-> IF t = t1 THEN 1 ELSE 2]
=============================================================================
