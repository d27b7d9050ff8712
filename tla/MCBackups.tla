----------------------------- MODULE MCBackups -----------------------------
(* Backups with two request threads beside the scheduler.                  *)
EXTENDS Backups

CONSTANTS r1, r2

MCRequests == {r1, r2}
=============================================================================
