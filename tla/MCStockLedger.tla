---------------------------- MODULE MCStockLedger ---------------------------
(***************************************************************************)
(* Small instances of StockLedger for TLC: the rows of the notes and what  *)
(* is on them.                                                             *)
(***************************************************************************)
EXTENDS StockLedger, TLC

CONSTANTS milk, r1, n1, i1, i2, c1

\* Two rows of one note.
TwoRowsOneNote == i1 :> n1 @@ i2 :> n1
OneProduct     == [x \in SaleRow |-> milk]

TwoLocations == {1, 2}
=============================================================================
