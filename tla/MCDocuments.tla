---------------------------- MODULE MCDocuments ----------------------------
(* Documents with two requests at a time.                                  *)
EXTENDS Documents, TLC

CONSTANTS r1, r2

MCRequests == {r1, r2}
MCTypes == {"quote", "work_order"}
MCTargets == {"sale", "invoice"}
MCForms == {"form"}

Symmetry == Permutations(MCRequests)
=============================================================================
