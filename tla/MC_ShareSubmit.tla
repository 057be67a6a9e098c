--------------------------- MODULE MC_ShareSubmit ---------------------------
(* Three templates: t1 at height 1, then t2 and t3 both at height 2, two   *)
(* competing tips the node may switch between.  A history of 2 (8 in the  *)
(* code) and three jobs, so a job is evicted; one nonce, so a share is     *)
(* resubmitted only as itself.                                             *)
EXTENDS ShareSubmit

CONSTANTS t1, t2, t3

MCTemplates == {t1, t2, t3}
MCHeight == [t \in MCTemplates |-> IF t = t1 THEN 1 ELSE 2]
=============================================================================
