----------------------------- MODULE MCCashRaces ----------------------------
(***************************************************************************)
(* Small instances of CashRaces for TLC: two requests at a time.           *)
(***************************************************************************)
EXTENDS CashRaces, TLC

CONSTANTS w1, w2, s1, s2, h1, h2, x1, f1, g1, g2

\* Threads and the ids of rows are interchangeable.
Symmetry == Permutations(Worker) \cup Permutations(Shift) \cup Permutations(Seller)
            \cup Permutations(Register)
=============================================================================
