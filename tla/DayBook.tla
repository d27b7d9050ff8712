------------------------------ MODULE DayBook ------------------------------
(***************************************************************************)
(* What the daily closing promises: every business date has a book of      *)
(* figures.  Figures are recorded on one date at a time and only while     *)
(* its book is not closed; closing archives the book as it stands under    *)
(* the next version number, and no archived version is ever touched.       *)
(***************************************************************************)
EXTENDS Naturals, Sequences

CONSTANT Date

VARIABLES book,     \* the figures of each date
          state,    \* "none", "closed" or "reopened"
          archive   \* the versions archived so far

vars == <<book, state, archive>>

Closed(d) == state[d] = "closed"

Record(d) ==
  /\ ~Closed(d)
  /\ \A e \in Date \ {d} : book'[e] = book[e]
  /\ UNCHANGED <<state, archive>>

Close(d) ==
  /\ ~Closed(d)
  /\ state' = [state EXCEPT ![d] = "closed"]
  /\ archive' = [archive EXCEPT ![d] =
                   Append(@, [version |-> Len(@) + 1, figures |-> book[d]])]
  /\ UNCHANGED book

Reopen(d) ==
  /\ Closed(d)
  /\ state' = [state EXCEPT ![d] = "reopened"]
  /\ UNCHANGED <<book, archive>>

Init == /\ state   = [d \in Date |-> "none"]
        /\ archive = [d \in Date |-> <<>>]

Next == \E d \in Date : Record(d) \/ Close(d) \/ Reopen(d)

Spec == Init /\ [][Next]_vars
=============================================================================
