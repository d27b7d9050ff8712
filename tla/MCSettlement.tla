---------------------------- MODULE MCSettlement ----------------------------
(* Settlement with baskets whose lines do not divide by their quantities.  *)
EXTENDS Settlement

CONSTANTS r1, r2

MCBaskets ==
  { <<[quantity |-> 3, total |-> 10, cost |-> 5, stock |-> TRUE, rate |-> 24]>>,
    <<[quantity |-> 4, total |-> 2, cost |-> 3, stock |-> TRUE, rate |-> 24],
      [quantity |-> 2, total |-> 5, cost |-> 0, stock |-> FALSE, rate |-> 24]>>,
    <<[quantity |-> 1, total |-> 0, cost |-> 0, stock |-> FALSE, rate |-> 24]>>,
    <<[quantity |-> 1, total |-> 7, cost |-> 0, stock |-> FALSE, rate |-> 14],
      [quantity |-> 2, total |-> 1, cost |-> 2, stock |-> TRUE, rate |-> 24]>> }
MCAmounts == {1, 4}
MCRequests == {r1, r2}
=============================================================================
