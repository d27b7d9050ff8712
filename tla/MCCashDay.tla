----------------------------- MODULE MCCashDay -----------------------------
(***************************************************************************)
(* Small instances of CashDay for TLC.                                     *)
(***************************************************************************)
EXTENDS CashDay, TLC

CONSTANTS s1, s2, h1, h2, x1, x2, f1, f2, g1

\* Rows are interchangeable, and so are the sellers.
Symmetry == Permutations(Shift) \cup Permutations(Sale)
            \cup Permutations(Refund) \cup Permutations(Seller)
=============================================================================
