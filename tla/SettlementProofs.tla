-------------------------- MODULE SettlementProofs --------------------------
(***************************************************************************)
(* What refunds keep for every basket and every order of requests: lines   *)
(* refunded in parts add up, returned goods come back at their cost, the   *)
(* sale's status follows the refunds, and no unpaid invoice is forgotten.  *)
(***************************************************************************)
EXTENDS Settlement, TotalTheorems

-----------------------------------------------------------------------------
(* Rounding.                                                               *)

LEMMA Division ==
  ASSUME NEW x \in Nat, NEW y \in Nat \ {0}
  PROVE  x \div y \in Nat /\ y * (x \div y) <= x /\ x < y * (x \div y) + y
  BY SMTT(20)

\* A rounded amount is at most half a cent off.
LEMMA MoneyRounds ==
  ASSUME NEW a \in Nat, NEW b \in Nat \ {0}
  PROVE  /\ Money(a, b) \in Nat
         /\ 2 * (b * Money(a, b)) <= 2 * a + b
         /\ 2 * a < 2 * (b * Money(a, b)) + b
<1> DEFINE x == 2 * a + b
           y == 2 * b
<1>1. x \in Nat /\ y \in Nat \ {0}
  OBVIOUS
<1>2. x \div y \in Nat /\ y * (x \div y) <= x /\ x < y * (x \div y) + y
  BY <1>1, Division
<1>3. Money(a, b) = x \div y
  BY DEF Money
<1> HIDE DEF x, y
<1>4. Money(a, b) \in Nat /\ y * Money(a, b) <= x /\ x < y * Money(a, b) + y
  BY <1>2, <1>3
<1>5. \A m \in Nat : (2 * b) * m = 2 * (b * m)
  OBVIOUS
<1> QED BY <1>4, <1>5 DEF x, y

\* The share of a part of a line in its cost is at most its cost.
LEMMA MoneyWithin ==
  ASSUME NEW c \in Nat, NEW q \in Nat \ {0}, NEW r \in Nat, r <= q
  PROVE  Money(c * r, q) \in 0..c
<1> DEFINE m == Money(c * r, q)
<1>1. c * r \in Nat /\ c * q \in Nat
  OBVIOUS
<1>2. m \in Nat /\ 2 * (q * m) <= 2 * (c * r) + q
  BY <1>1, MoneyRounds
<1>3. c * r <= c * q
  OBVIOUS
<1>4. ASSUME m >= c + 1 PROVE FALSE
  <2> HIDE DEF m
  <2>1. q * m >= q * (c + 1)
    BY <1>2, <1>4
  <2>2. q * (c + 1) = c * q + q
    OBVIOUS
  <2> QED BY <2>1, <2>2, <1>1, <1>2, <1>3
<1> QED BY <1>2, <1>4

\* The share of no part is nothing.
LEMMA MoneyOfNothing ==
  ASSUME NEW c \in Nat, NEW q \in Nat \ {0}
  PROVE  Money(c * 0, q) = 0
<1>1. Money(0, q) \in Nat /\ 2 * (q * Money(0, q)) <= q
  BY MoneyRounds
<1>2. ASSUME NEW m \in Nat, m >= 1, 2 * (q * m) <= q PROVE FALSE
  <2>1. q * m >= q
    BY <1>2
  <2>2. q * m \in Nat
    OBVIOUS
  <2> QED BY <1>2, <2>1, <2>2
<1>3. Money(0, q) = 0
  BY <1>1, <1>2
<1> QED BY <1>3
-----------------------------------------------------------------------------
(* Lines and what became of them.                                          *)

LEMMA LinesTyped ==
  ASSUME TypeOK
  PROVE  /\ lines \in Seq(Line)
         /\ IsFiniteSet(DOMAIN lines)
         /\ \A i \in DOMAIN lines :
              /\ lines[i].quantity \in Nat \ {0} /\ lines[i].total \in Nat
              /\ lines[i].cost \in Nat /\ lines[i].stock \in BOOLEAN
<1>1. lines \in Seq(Line)
  BY BasketsAssumption DEF TypeOK
<1>2. DOMAIN lines = 1..Len(lines) /\ Len(lines) \in Nat
  BY <1>1
<1>3. IsFiniteSet(DOMAIN lines)
  BY <1>2, FS_Interval
<1>4. \A i \in DOMAIN lines : lines[i] \in Line
  BY <1>1
<1> QED BY <1>1, <1>3, <1>4 DEF Line

LEMMA BackTyped ==
  ASSUME TypeOK
  PROVE  /\ DOMAIN back = DOMAIN lines
         /\ \A i \in DOMAIN lines :
              /\ back[i] \in Back
              /\ back[i].quantity \in Nat /\ back[i].gross \in Nat
              /\ back[i].restocked \in Nat /\ back[i].cost \in Nat
<1>1. \A i \in DOMAIN lines : back[i] \in Back
  BY DEF TypeOK
<1> QED BY <1>1 DEF TypeOK, Back

LEMMA SaleTotalNat ==
  ASSUME TypeOK
  PROVE  SaleTotal \in Nat
<1> DEFINE f == [i \in DOMAIN lines |-> lines[i].total]
<1>1. IsFiniteSet(DOMAIN lines) /\ \A i \in DOMAIN lines : f[i] \in Nat
  BY LinesTyped
<1>2. Total(DOMAIN lines, f) \in Nat
  BY <1>1, TotalNat
<1> QED BY <1>2 DEF SaleTotal, TotalOf

\* What a part of a line costs the shop: all that is left, or the rounded share.
LEMMA GrossTyped ==
  ASSUME TypeOK, NEW i \in DOMAIN lines, NEW q \in 1..lines[i].quantity
  PROVE  /\ RefundGross(i, q) \in Int
         /\ q = RemainingQuantity(i) => RefundGross(i, q) = lines[i].total - back[i].gross
         /\ q # RemainingQuantity(i) =>
              RefundGross(i, q) = Money(lines[i].total * q, lines[i].quantity)
<1>1. lines[i].quantity \in Nat \ {0} /\ lines[i].total \in Nat /\ back[i].gross \in Nat
  BY LinesTyped, BackTyped
<1>2. q \in Nat /\ lines[i].total * q \in Nat
  BY <1>1
<1>3. Money(lines[i].total * q, lines[i].quantity) \in Nat
  BY <1>1, <1>2, MoneyRounds
<1> QED BY <1>1, <1>3 DEF RefundGross

\* The record of a line after a part of it was refunded.
LEMMA LineAfter ==
  ASSUME TypeOK, NEW i \in DOMAIN lines, NEW q \in 1..lines[i].quantity,
         NEW restock \in BOOLEAN, AddLineRefund(i, q, restock)
  PROVE  /\ q \in Nat \ {0}
         /\ back[i].quantity + q <= lines[i].quantity
         /\ lines' = lines
         /\ DOMAIN back' = DOMAIN lines
         /\ \A j \in DOMAIN lines \ {i} : back'[j] = back[j]
         /\ back'[i].quantity = back[i].quantity + q
         /\ back'[i].gross = back[i].gross + RefundGross(i, q)
         /\ restock => /\ lines[i].stock
                       /\ back'[i].restocked = back[i].restocked + q
                       /\ back'[i].cost = Money(lines[i].cost * (back[i].restocked + q),
                                                lines[i].quantity)
         /\ ~restock => /\ back'[i].restocked = back[i].restocked
                        /\ back'[i].cost = back[i].cost
         /\ back'[i] \in Back
<1>1. /\ lines[i].quantity \in Nat \ {0} /\ lines[i].cost \in Nat /\ lines[i].total \in Nat
      /\ back[i].quantity \in Nat /\ back[i].gross \in Nat
      /\ back[i].restocked \in Nat /\ back[i].cost \in Nat
      /\ DOMAIN back = DOMAIN lines
  BY LinesTyped, BackTyped
<1>2. q \in Nat \ {0} /\ q <= RemainingQuantity(i)
  BY <1>1 DEF AddLineRefund
<1>3. back[i].quantity + q <= lines[i].quantity
  BY <1>1, <1>2 DEF RemainingQuantity
<1>4. back' = [back EXCEPT ![i] =
         [quantity  |-> back[i].quantity + q,
          gross     |-> back[i].gross + RefundGross(i, q),
          restocked |-> back[i].restocked + (IF restock THEN q ELSE 0),
          cost      |-> back[i].cost + (IF restock THEN ReturnCost(i, q) ELSE 0)]]
  BY DEF AddLineRefund
<1>5. /\ back'[i].quantity = back[i].quantity + q
      /\ back'[i].gross = back[i].gross + RefundGross(i, q)
      /\ back'[i].restocked = back[i].restocked + (IF restock THEN q ELSE 0)
      /\ back'[i].cost = back[i].cost + (IF restock THEN ReturnCost(i, q) ELSE 0)
      /\ back'[i] = [quantity |-> back'[i].quantity, gross |-> back'[i].gross,
                     restocked |-> back'[i].restocked, cost |-> back'[i].cost]
  BY <1>1, <1>4
<1> DEFINE m == Money(lines[i].cost * (back[i].restocked + q), lines[i].quantity)
<1>6. lines[i].cost * (back[i].restocked + q) \in Nat
  BY <1>1, <1>2
<1>7. m \in Nat
  BY <1>1, <1>6, MoneyRounds
<1>8. ReturnCost(i, q) = m - back[i].cost
  BY DEF ReturnCost
<1> HIDE DEF m
<1>9. restock => back'[i].restocked = back[i].restocked + q /\ back'[i].cost = m
  BY <1>1, <1>5, <1>7, <1>8
<1>10. ~restock => back'[i].restocked = back[i].restocked /\ back'[i].cost = back[i].cost
  BY <1>1, <1>5
<1>11. RefundGross(i, q) \in Int /\ RefundGross(i, q) > 0
  BY GrossTyped DEF AddLineRefund
<1>12. back'[i] \in Back
  BY <1>1, <1>2, <1>5, <1>7, <1>9, <1>10, <1>11 DEF Back
<1>13. lines' = lines /\ (restock => lines[i].stock)
  BY DEF AddLineRefund
<1> QED BY <1>1, <1>2, <1>3, <1>4, <1>5, <1>9, <1>10, <1>12, <1>13 DEF m
-----------------------------------------------------------------------------
(* Types.                                                                  *)

\* Only three requests touch the lines and the refunds.
LEMMA RefundingSteps ==
  ASSUME Next
  PROVE  \/ \E b \in Baskets, invoice \in BOOLEAN : Finalize(b, invoice)
         \/ \E a \in Amounts \cup {RemainingAmount} : AddRefund(a)
         \/ \E i \in DOMAIN lines : \E q \in 1..lines[i].quantity, restock \in BOOLEAN :
              AddLineRefund(i, q, restock)
         \/ UNCHANGED refunding
  BY DEF Next, TransferToInvoicing, ConfirmPaid, ConfirmUnpaid, ReminderSent, AskUpdate,
         Commit, NextDay

\* What TypeOK says of the lines and their refunds, and of the follow-up.
RefundsTyped ==
  /\ lines \in Baskets \cup {<<>>}
  /\ back \in [DOMAIN lines -> Back]
  /\ \A i \in DOMAIN lines :
       /\ back[i].restocked <= back[i].quantity
       /\ back[i].quantity <= lines[i].quantity
       /\ back[i].cost <= lines[i].cost
       /\ ~lines[i].stock => back[i].restocked = 0
  /\ refunded \in Nat
  /\ status \in {"completed", "partially_refunded", "refunded"}

FollowUpTyped ==
  /\ settlement \in Settlements
  /\ due \in Dates \cup {NoDate} /\ followUp \in Dates \cup {NoDate}
  /\ today \in 1..Horizon /\ events \in 0..MaxEvents
  /\ task \in [Requests -> Update]

LEMMA TypeParts == TypeOK <=> RefundsTyped /\ FollowUpTyped
  BY DEF TypeOK, RefundsTyped, FollowUpTyped

LEMMA RefundsTypedStep ==
  ASSUME TypeOK, Next
  PROVE  RefundsTyped'
<1>1. ASSUME NEW b \in Baskets, NEW invoice \in BOOLEAN, Finalize(b, invoice)
      PROVE  RefundsTyped'
  <2>1. /\ lines' = b /\ back' = [i \in DOMAIN b |-> NothingBack]
        /\ refunded' = refunded /\ status' = status
    BY <1>1 DEF Finalize
  <2>2. b \in Seq(Line)
    BY BasketsAssumption
  <2>3. \A i \in DOMAIN b : b[i].quantity \in Nat /\ b[i].cost \in Nat
    <3>1. \A i \in DOMAIN b : b[i] \in Line
      BY <2>2
    <3> QED BY <3>1 DEF Line
  <2>4. NothingBack \in Back
    BY DEF NothingBack, Back
  <2>5. \A i \in DOMAIN b : back'[i] = NothingBack
    BY <2>1
  <2> QED BY <2>1, <2>3, <2>4, <2>5 DEF RefundsTyped, TypeOK, NothingBack
<1>2. ASSUME NEW a \in Amounts \cup {RemainingAmount}, AddRefund(a)
      PROVE  RefundsTyped'
  <2>1. a \in Nat
    BY <1>2, AmountsAssumption, SaleTotalNat DEF RemainingAmount, AddRefund, TypeOK
  <2>2. lines' = lines /\ back' = back /\ refunded' = refunded + a
    BY <1>2 DEF AddRefund
  <2>3. status' \in {"partially_refunded", "refunded"}
    BY <1>2 DEF AddRefund, StatusFor
  <2> QED BY <2>1, <2>2, <2>3 DEF RefundsTyped, TypeOK
<1>3. ASSUME NEW i \in DOMAIN lines, NEW q \in 1..lines[i].quantity,
             NEW restock \in BOOLEAN, AddLineRefund(i, q, restock)
      PROVE  RefundsTyped'
  <2>1. /\ lines[i].quantity \in Nat \ {0} /\ lines[i].cost \in Nat
        /\ back[i].quantity \in Nat /\ back[i].restocked \in Nat
    BY LinesTyped, BackTyped
  <2>2. refunded' \in Nat
    BY <1>3, GrossTyped DEF AddLineRefund, TypeOK
  <2>3. status' \in {"partially_refunded", "refunded"}
    BY <1>3 DEF AddLineRefund, StatusFor
  <2>4. back'[i].restocked <= back'[i].quantity
    BY <1>3, <2>1, LineAfter DEF TypeOK
  <2>5. back'[i].quantity <= lines[i].quantity
    BY <1>3, LineAfter
  <2>6. back'[i].cost <= lines[i].cost
    <3>1. CASE restock
      <4>1. back[i].restocked + q \in Nat /\ back[i].restocked + q <= lines[i].quantity
        BY <1>3, <2>1, LineAfter DEF TypeOK
      <4> DEFINE r == back[i].restocked + q
      <4>2. Money(lines[i].cost * r, lines[i].quantity) \in 0..lines[i].cost
        <5> HIDE DEF r
        <5>1. r \in Nat /\ r <= lines[i].quantity
          BY <4>1 DEF r
        <5> QED BY <2>1, <5>1, MoneyWithin
      <4>3. back'[i].cost = Money(lines[i].cost * r, lines[i].quantity)
        BY <1>3, <3>1, LineAfter
      <4> QED BY <2>1, <4>2, <4>3
    <3>2. CASE ~restock
      BY <1>3, <3>2, LineAfter DEF TypeOK
    <3> QED BY <3>1, <3>2
  <2>7. ~lines[i].stock => back'[i].restocked = 0
    BY <1>3, LineAfter DEF TypeOK
  <2>8. back' \in [DOMAIN lines -> Back]
    <3>1. \A j \in DOMAIN lines : back'[j] \in Back
      BY <1>3, LineAfter, BackTyped
    <3>2. DOMAIN back' = DOMAIN lines /\ back' = [j \in DOMAIN back' |-> back'[j]]
      BY <1>3, BackTyped DEF AddLineRefund
    <3> QED BY <3>1, <3>2
  <2>9. lines' = lines /\ \A j \in DOMAIN lines \ {i} : back'[j] = back[j]
    BY <1>3, LineAfter
  <2> QED BY <2>2, <2>3, <2>4, <2>5, <2>6, <2>7, <2>8, <2>9 DEF RefundsTyped, TypeOK
<1>4. ASSUME UNCHANGED refunding PROVE RefundsTyped'
  BY <1>4 DEF RefundsTyped, TypeOK, refunding
<1> QED BY <1>1, <1>2, <1>3, <1>4, RefundingSteps

LEMMA FollowUpTypedStep ==
  ASSUME TypeOK, Next
  PROVE  FollowUpTyped'
<1> USE DEF FollowUpTyped, TypeOK
<1>1. ASSUME NEW b \in Baskets, NEW invoice \in BOOLEAN, Finalize(b, invoice)
      PROVE  FollowUpTyped'
  <2>1. ASSUME NEW total, NEW paid PROVE settlement_status_for(total, paid, invoice) \in Settlements
    BY DEF settlement_status_for, Settlements, INVOICE_ACTIVE_STATUSES
  <2> QED BY <1>1, <2>1 DEF Finalize
<1>2. ASSUME NEW a, AddRefund(a) PROVE FollowUpTyped'
  BY <1>2, HorizonAssumption DEF AddRefund, Ask, invoicing
<1>3. ASSUME NEW i, NEW q, NEW restock, AddLineRefund(i, q, restock) PROVE FollowUpTyped'
  BY <1>3, HorizonAssumption DEF AddLineRefund, Ask, invoicing
<1>4. ASSUME NEW r \in Requests, NEW new \in Settlements, NEW clear \in BOOLEAN,
             NEW newDue \in Dates \cup {NoDate}, NEW newFollowUp \in Dates \cup {NoDate},
             AskUpdate(r, new, newDue, newFollowUp, clear)
      PROVE  FollowUpTyped'
  <2>1. [settlement |-> IF new = settlement THEN Same ELSE new,
         due        |-> IF newDue = due THEN NoDate ELSE newDue,
         followUp   |-> newFollowUp,
         clear      |-> clear /\ followUp # NoDate] \in Update
    BY DEF Update
  <2>2. task' \in [Requests -> Update]
    BY <1>4, <2>1 DEF AskUpdate
  <2> QED BY <1>4, <2>2, HorizonAssumption DEF AskUpdate, Ask
<1>5. ASSUME NEW r \in Requests, Commit(r) PROVE FollowUpTyped'
  <2>1. task[r] \in Update /\ Idle \in Update
    BY DEF Update, Idle
  <2> QED BY <1>5, <2>1 DEF Commit, Update
<1>6. ASSUME NextDay PROVE FollowUpTyped'
  BY <1>6, HorizonAssumption DEF NextDay, invoicing
<1>7. {"transferred_to_invoicing", "paid", "unpaid", "reminder_sent"} \subseteq Settlements
  BY DEF Settlements, INVOICE_ACTIVE_STATUSES
<1>8. ASSUME NEW r \in Requests, NEW d \in Dates,
             TransferToInvoicing(r, d) \/ ConfirmUnpaid(r, d) \/ ReminderSent(r, d)
      PROVE  FollowUpTyped'
  BY <1>4, <1>7, <1>8 DEF TransferToInvoicing, ConfirmUnpaid, ReminderSent
<1>9. ASSUME NEW r \in Requests, ConfirmPaid(r) PROVE FollowUpTyped'
  BY <1>4, <1>7, <1>9 DEF ConfirmPaid
<1> QED BY <1>1, <1>2, <1>3, <1>5, <1>6, <1>8, <1>9 DEF Next

\* Every step keeps the types; nothing refunded or returned exceeds what was sold.
THEOREM TypeCorrect == Spec => []TypeOK
<1>1. Init => TypeOK
  <2> SUFFICES ASSUME Init PROVE TypeOK
    OBVIOUS
  <2>1. RefundsTyped
    BY DEF Init, RefundsTyped
  <2>2. Idle \in Update
    BY DEF Idle, Update
  <2>3. FollowUpTyped
    BY <2>2, HorizonAssumption DEF Init, FollowUpTyped, Settlements
  <2> QED BY <2>1, <2>3, TypeParts
<1>2. TypeOK /\ [Next]_vars => TypeOK'
  <2> SUFFICES ASSUME TypeOK, [Next]_vars PROVE TypeOK'
    OBVIOUS
  <2>1. CASE Next
    <3>1. RefundsTyped' /\ FollowUpTyped'
      BY <2>1, RefundsTypedStep, FollowUpTypedStep
    <3> QED BY <3>1 DEF RefundsTyped, FollowUpTyped, TypeOK
  <2>2. CASE UNCHANGED vars
    BY <2>2 DEF vars, TypeOK
  <2> QED BY <2>1, <2>2
<1> QED BY <1>1, <1>2, PTL DEF Spec
-----------------------------------------------------------------------------
(* Goods that return.                                                      *)

LEMMA RestockedStep ==
  ASSUME TypeOK, RestockedAtCost, Next
  PROVE  RestockedAtCost'
<1>1. ASSUME NEW b \in Baskets, NEW invoice \in BOOLEAN, Finalize(b, invoice)
      PROVE  RestockedAtCost'
  <2>1. lines' = b /\ back' = [i \in DOMAIN b |-> NothingBack]
    BY <1>1 DEF Finalize
  <2>2. ASSUME NEW i \in DOMAIN b
        PROVE  Money(b[i].cost * 0, b[i].quantity) = 0
    <3>1. b[i] \in Line
      BY BasketsAssumption
    <3>2. b[i].cost \in Nat /\ b[i].quantity \in Nat \ {0}
      BY <3>1 DEF Line
    <3> QED BY <3>2, MoneyOfNothing
  <2> QED BY <2>1, <2>2 DEF RestockedAtCost, NothingBack
<1>2. ASSUME NEW a, AddRefund(a) PROVE RestockedAtCost'
  BY <1>2 DEF AddRefund, RestockedAtCost
<1>3. ASSUME NEW i \in DOMAIN lines, NEW q \in 1..lines[i].quantity,
             NEW restock \in BOOLEAN, AddLineRefund(i, q, restock)
      PROVE  RestockedAtCost'
  <2>1. /\ lines' = lines /\ DOMAIN back' = DOMAIN back /\ i \in DOMAIN back
        /\ \A j \in DOMAIN back \ {i} : back'[j] = back[j]
    BY <1>3, LineAfter, BackTyped
  <2>2. back'[i].cost = Money(lines[i].cost * back'[i].restocked, lines[i].quantity)
    <3>1. CASE restock
      BY <1>3, <3>1, LineAfter
    <3>2. CASE ~restock
      BY <1>3, <2>1, <3>2, LineAfter DEF RestockedAtCost
    <3> QED BY <3>1, <3>2
  <2> QED BY <2>1, <2>2 DEF RestockedAtCost
<1>4. ASSUME UNCHANGED refunding PROVE RestockedAtCost'
  BY <1>4 DEF RestockedAtCost, refunding
<1> QED BY <1>1, <1>2, <1>3, <1>4, RefundingSteps

\* Units that return in any parts bring back the rounded share of the line's cost that
\* all of them are due (add_line_refund).
THEOREM ReturnedCostIsExact == Spec => []RestockedAtCost
<1>1. Init => RestockedAtCost
  BY DEF Init, RestockedAtCost
<1>2. TypeOK /\ RestockedAtCost /\ [Next]_vars => RestockedAtCost'
  <2> SUFFICES ASSUME TypeOK, RestockedAtCost, [Next]_vars PROVE RestockedAtCost'
    OBVIOUS
  <2>1. CASE Next
    BY <2>1, RestockedStep
  <2>2. CASE UNCHANGED vars
    BY <2>2 DEF vars, RestockedAtCost
  <2> QED BY <2>1, <2>2
<1> QED BY <1>1, <1>2, TypeCorrect, PTL DEF Spec
-----------------------------------------------------------------------------
(* Lines refunded in parts.                                                *)

\* One more part, rounded, is at most half a cent further off.
LEMMA PartRounds ==
  ASSUME NEW n \in Nat, NEW g \in Nat, NEW total \in Nat, NEW all \in Nat \ {0},
         NEW q \in Nat \ {0}, NEW m \in Nat,
         2 * (g * all - total * n) \in (-(n * all))..(n * all),
         2 * (all * m) <= 2 * (total * q) + all,
         2 * (total * q) < 2 * (all * m) + all
  PROVE  2 * ((g + m) * all - total * (n + q)) \in (-((n + q) * all))..((n + q) * all)
<1> DEFINE ga == g * all
           am == all * m
           tn == total * n
           tq == total * q
           na == n * all
           qa == q * all
<1>1. (g + m) * all = ga + am /\ total * (n + q) = tn + tq /\ (n + q) * all = na + qa
  OBVIOUS
<1>2. ga \in Int /\ am \in Int /\ tn \in Int /\ tq \in Int /\ na \in Int /\ qa \in Int
  OBVIOUS
<1>3. all <= qa
  OBVIOUS
<1>4. 2 * (ga - tn) \in (-na)..na /\ 2 * am <= 2 * tq + all /\ 2 * tq < 2 * am + all
  OBVIOUS
<1> HIDE DEF ga, am, tn, tq, na, qa
<1>5. 2 * ((ga + am) - (tn + tq)) \in (-(na + qa))..(na + qa)
  BY <1>2, <1>3, <1>4
<1> QED BY <1>1, <1>5

LEMMA AddUpStep ==
  ASSUME TypeOK, LineRefundsAddUp, Next
  PROVE  LineRefundsAddUp'
<1>1. ASSUME NEW b \in Baskets, NEW invoice \in BOOLEAN, Finalize(b, invoice)
      PROVE  LineRefundsAddUp'
  <2>1. lines' = b /\ back' = [i \in DOMAIN b |-> NothingBack]
    BY <1>1 DEF Finalize
  <2>2. ASSUME NEW i \in DOMAIN b
        PROVE  /\ b[i].quantity # 0
               /\ 2 * (0 * b[i].quantity - b[i].total * 0)
                    \in (-(0 * b[i].quantity))..(0 * b[i].quantity)
    <3>1. b[i] \in Line
      BY BasketsAssumption
    <3>2. b[i].total \in Nat /\ b[i].quantity \in Nat \ {0}
      BY <3>1 DEF Line
    <3> QED BY <3>2
  <2> QED BY <2>1, <2>2 DEF LineRefundsAddUp, NothingBack
<1>2. ASSUME NEW a, AddRefund(a) PROVE LineRefundsAddUp'
  BY <1>2 DEF AddRefund, LineRefundsAddUp
<1>3. ASSUME NEW i \in DOMAIN lines, NEW q \in 1..lines[i].quantity,
             NEW restock \in BOOLEAN, AddLineRefund(i, q, restock)
      PROVE  LineRefundsAddUp'
  <2> DEFINE all == lines[i].quantity
             total == lines[i].total
             n == back[i].quantity
             g == back[i].gross
  <2>1. /\ lines' = lines /\ DOMAIN back' = DOMAIN back /\ i \in DOMAIN back
        /\ \A j \in DOMAIN back \ {i} : back'[j] = back[j]
    BY <1>3, LineAfter, BackTyped
  <2>2. all \in Nat \ {0} /\ total \in Nat /\ n \in Nat /\ g \in Nat
    BY LinesTyped, BackTyped
  <2>3. /\ q \in Nat \ {0} /\ n + q <= all
        /\ back'[i].quantity = n + q /\ back'[i].gross = g + RefundGross(i, q)
    BY <1>3, LineAfter
  <2>4. q = RemainingQuantity(i) <=> n + q = all
    BY <2>2, <2>3 DEF RemainingQuantity
  <2>5. n + q = all => back'[i].gross = total
    BY <2>2, <2>3, <2>4, GrossTyped
  <2>6. ASSUME n + q # all
        PROVE  2 * (back'[i].gross * all - total * (n + q))
                 \in (-((n + q) * all))..((n + q) * all)
    <3>1. 2 * (g * all - total * n) \in (-(n * all))..(n * all)
      <4>1. n # all
        BY <2>2, <2>3
      <4> QED BY <2>1, <4>1 DEF LineRefundsAddUp
    <3> DEFINE m == Money(total * q, all)
    <3>2. back'[i].gross = g + m
      BY <2>3, <2>4, <2>6, GrossTyped
    <3> HIDE DEF all, total, n, g
    <3>3. total * q \in Nat
      BY <2>2, <2>3
    <3>4. /\ m \in Nat
          /\ 2 * (all * m) <= 2 * (total * q) + all
          /\ 2 * (total * q) < 2 * (all * m) + all
      BY <2>2, <3>3, MoneyRounds
    <3> HIDE DEF m
    <3> QED BY <2>2, <2>3, <3>1, <3>2, <3>4, PartRounds
  <2>7. ASSUME NEW j \in DOMAIN back'
        PROVE  LET l == lines'[j]
                   off == 2 * (back'[j].gross * l.quantity - l.total * back'[j].quantity)
               IN  IF back'[j].quantity = l.quantity
                   THEN back'[j].gross = l.total
                   ELSE off \in (-(back'[j].quantity * l.quantity))
                                  ..(back'[j].quantity * l.quantity)
    <3>1. CASE j = i
      BY <2>1, <2>3, <2>5, <2>6, <3>1
    <3>2. CASE j # i
      BY <2>1, <3>2 DEF LineRefundsAddUp
    <3> QED BY <3>1, <3>2
  <2> QED BY <2>7 DEF LineRefundsAddUp
<1>4. ASSUME UNCHANGED refunding PROVE LineRefundsAddUp'
  BY <1>4 DEF LineRefundsAddUp, refunding
<1> QED BY <1>1, <1>2, <1>3, <1>4, RefundingSteps

\* A line of any price and quantity, refunded in any parts beside refunds by amount, is
\* refunded to the cent once all of it is, and never further off than half a cent a unit
\* (add_line_refund).
THEOREM LinesRefundedExactly == Spec => []LineRefundsAddUp
<1>1. Init => LineRefundsAddUp
  BY DEF Init, LineRefundsAddUp
<1>2. TypeOK /\ LineRefundsAddUp /\ [Next]_vars => LineRefundsAddUp'
  <2> SUFFICES ASSUME TypeOK, LineRefundsAddUp, [Next]_vars PROVE LineRefundsAddUp'
    OBVIOUS
  <2>1. CASE Next
    BY <2>1, AddUpStep
  <2>2. CASE UNCHANGED vars
    BY <2>2 DEF vars, LineRefundsAddUp
  <2> QED BY <2>1, <2>2
<1> QED BY <1>1, <1>2, TypeCorrect, PTL DEF Spec
-----------------------------------------------------------------------------
(* The sale's total and status.                                            *)

LEMMA NothingTotals ==
  ASSUME lines = <<>>, back = <<>>
  PROVE  SaleTotal = 0 /\ RefundedByLine = 0
<1>1. DOMAIN <<>> = {}
  OBVIOUS
<1> QED BY <1>1, TotalEmpty DEF SaleTotal, TotalOf, RefundedByLine

LEMMA StatusStep ==
  ASSUME TypeOK, StatusFollowsRefunds, Next
  PROVE  StatusFollowsRefunds'
<1>0. SaleTotal \in Nat /\ refunded \in Nat /\ refunded <= SaleTotal
  BY SaleTotalNat DEF TypeOK, StatusFollowsRefunds
<1>1. ASSUME NEW b \in Baskets, NEW invoice \in BOOLEAN, Finalize(b, invoice)
      PROVE  StatusFollowsRefunds'
  <2>1. /\ lines = <<>> /\ lines' = b /\ back' = [i \in DOMAIN b |-> NothingBack]
        /\ refunded' = refunded /\ status' = status
    BY <1>1 DEF Finalize, Finalized
  <2>2. SaleTotal = 0
    <3>1. DOMAIN <<>> = {}
      OBVIOUS
    <3> QED BY <2>1, <3>1, TotalEmpty DEF SaleTotal, TotalOf
  <2>3. refunded = 0
    BY <1>0, <2>2
  <2>4. RefundedByLine' = 0
    <3> DEFINE f == [i \in DOMAIN back' |-> back'[i].gross]
    <3>1. \A i \in DOMAIN back' : f[i] = 0
      BY <2>1 DEF NothingBack
    <3>2. Total(DOMAIN back', f) = 0
      BY <3>1, TotalZero
    <3> QED BY <3>2 DEF RefundedByLine
  <2>5. SaleTotal' \in Nat
    <3>1. lines' \in Seq(Line)
      BY <2>1, BasketsAssumption
    <3>2. IsFiniteSet(DOMAIN lines')
      BY <3>1, FS_Interval
    <3>3. \A i \in DOMAIN lines' : lines'[i].total \in Nat
      <4>1. \A i \in DOMAIN lines' : lines'[i] \in Line
        BY <3>1
      <4> QED BY <4>1 DEF Line
    <3> DEFINE f == [i \in DOMAIN lines' |-> lines'[i].total]
    <3>4. \A i \in DOMAIN lines' : f[i] \in Nat
      BY <3>3
    <3>5. Total(DOMAIN lines', f) \in Nat
      BY <3>2, <3>4, TotalNat
    <3> QED BY <3>5 DEF SaleTotal, TotalOf
  <2>6. status = "completed"
    BY <2>3 DEF StatusFollowsRefunds
  <2> QED BY <2>1, <2>3, <2>4, <2>5, <2>6 DEF StatusFollowsRefunds
<1>2. ASSUME NEW a \in Amounts \cup {RemainingAmount}, AddRefund(a)
      PROVE  StatusFollowsRefunds'
  <2>1. a \in Nat \ {0} /\ refunded + a <= SaleTotal
    BY <1>0, <1>2, AmountsAssumption DEF RemainingAmount, AddRefund
  <2>2. /\ SaleTotal' = SaleTotal /\ RefundedByLine' = RefundedByLine
        /\ refunded' = refunded + a /\ status' = StatusFor(refunded + a)
    BY <1>2 DEF AddRefund, SaleTotal, RefundedByLine
  <2>3. RefundedByLine \in Nat
    <3> DEFINE f == [i \in DOMAIN back |-> back[i].gross]
    <3>1. IsFiniteSet(DOMAIN back) /\ \A i \in DOMAIN back : f[i] \in Nat
      BY LinesTyped, BackTyped
    <3>2. Total(DOMAIN back, f) \in Nat
      BY <3>1, TotalNat
    <3> QED BY <3>2 DEF RefundedByLine
  <2>4. status' = IF refunded' < SaleTotal' THEN "partially_refunded" ELSE "refunded"
    BY <2>2 DEF StatusFor
  <2> QED BY <1>0, <2>1, <2>2, <2>3, <2>4 DEF StatusFollowsRefunds, StatusFor
<1>3. ASSUME NEW i \in DOMAIN lines, NEW q \in 1..lines[i].quantity,
             NEW restock \in BOOLEAN, AddLineRefund(i, q, restock)
      PROVE  StatusFollowsRefunds'
  <2> DEFINE f == [j \in DOMAIN back |-> back[j].gross]
             h == [j \in DOMAIN back' |-> back'[j].gross]
             m == RefundGross(i, q)
  <2>1. m \in Nat \ {0} /\ refunded + m <= SaleTotal
    BY <1>0, <1>3, GrossTyped DEF RemainingAmount, AddLineRefund
  <2>2. /\ SaleTotal' = SaleTotal
        /\ refunded' = refunded + m /\ status' = StatusFor(refunded + m)
    BY <1>3 DEF AddLineRefund, SaleTotal
  <2>3. IsFiniteSet(DOMAIN back) /\ \A j \in DOMAIN back : f[j] \in Nat
    BY LinesTyped, BackTyped
  <2>4. /\ DOMAIN back' = DOMAIN back /\ i \in DOMAIN back
        /\ h[i] = f[i] + m
        /\ \A j \in DOMAIN back \ {i} : h[j] = f[j]
    BY <1>3, LineAfter, BackTyped
  <2> HIDE DEF m
  <2>5. Total(DOMAIN back, h) = Total(DOMAIN back, f) + m
    <3> HIDE DEF f, h
    <3> QED BY <2>1, <2>3, <2>4, TotalGrowsAt
  <2>6. RefundedByLine = Total(DOMAIN back, f) /\ RefundedByLine' = Total(DOMAIN back, h)
    BY <2>4 DEF RefundedByLine
  <2>7. Total(DOMAIN back, f) \in Nat
    BY <2>3, TotalNat
  <2>8. RefundedByLine' = RefundedByLine + m /\ RefundedByLine \in Nat
    BY <2>5, <2>6, <2>7
  <2>9. status' = IF refunded' < SaleTotal' THEN "partially_refunded" ELSE "refunded"
    BY <2>2 DEF StatusFor
  <2> QED BY <1>0, <2>1, <2>2, <2>8, <2>9 DEF StatusFollowsRefunds, StatusFor
<1>4. ASSUME UNCHANGED refunding PROVE StatusFollowsRefunds'
  BY <1>4 DEF StatusFollowsRefunds, refunding, SaleTotal, RefundedByLine, StatusFor
<1> QED BY <1>1, <1>2, <1>3, <1>4, RefundingSteps

\* Refunds by line and by amount never exceed the sale, and its status says what they
\* come to (add_refund, add_line_refund).
THEOREM StatusCorrect == Spec => []StatusFollowsRefunds
<1>1. Init => StatusFollowsRefunds
  BY NothingTotals DEF Init, StatusFollowsRefunds
<1>2. TypeOK /\ StatusFollowsRefunds /\ [Next]_vars => StatusFollowsRefunds'
  <2> SUFFICES ASSUME TypeOK, StatusFollowsRefunds, [Next]_vars PROVE StatusFollowsRefunds'
    OBVIOUS
  <2>1. CASE Next
    BY <2>1, StatusStep
  <2>2. CASE UNCHANGED vars
    BY <2>2 DEF vars, StatusFollowsRefunds, SaleTotal, TotalOf, RefundedByLine, StatusFor
  <2> QED BY <2>1, <2>2
<1> QED BY <1>1, <1>2, TypeCorrect, PTL DEF Spec
-----------------------------------------------------------------------------
(* The follow-up of the invoice.                                           *)

\* Nothing is dated and no request is under way.
AtRest == ~Dated /\ \A r \in Requests : task[r] = Idle

\* What a request is about to commit, whatever became of the sale since it read it: a
\* status that looks at a date comes with the date, unless the sale has it for good.
Sent(r) ==
  LET t == task[r]
  IN  /\ t.settlement \in {Same, "paid", "transferred_to_invoicing", "unpaid", "reminder_sent"}
      /\ t.clear => t.settlement = "paid"
      /\ t.settlement \in {"unpaid", "reminder_sent"} => t.followUp # NoDate
      /\ t.settlement = "transferred_to_invoicing" => t.due # NoDate \/ due # NoDate
      /\ t.settlement = Same /\ t.due # NoDate => due # NoDate

\* A sale that was handed over has its due date, and one that was also asked about since
\* has the date to ask again; a sale without an invoice has neither.
Chased ==
  /\ settlement = "partially_paid" \/ ~Finalized => AtRest
  /\ settlement = "transferred_to_invoicing" => due # NoDate
  /\ settlement \in {"unpaid", "reminder_sent"} /\ due # NoDate => followUp # NoDate
  /\ \A r \in Requests : Sent(r)

LEMMA IdleSent ==
  ASSUME NEW r \in Requests, task[r] = Idle
  PROVE  Sent(r)
  BY DEF Sent, Idle, Same

\* A request that has read the sale.
LEMMA AskChased ==
  ASSUME FollowUpTyped, Chased, NEW r \in Requests, NEW new, NEW clear \in BOOLEAN,
         NEW newDue \in Dates \cup {NoDate}, NEW newFollowUp \in Dates \cup {NoDate},
         AskUpdate(r, new, newDue, newFollowUp, clear),
         new \in {"paid", "transferred_to_invoicing", "unpaid", "reminder_sent"},
         clear => new = "paid",
         new \in {"unpaid", "reminder_sent"} => newFollowUp # NoDate /\ newDue = NoDate,
         new = "paid" => newDue = NoDate,
         new = "transferred_to_invoicing" => newDue # NoDate
  PROVE  Chased'
<1>1. /\ settlement' = settlement /\ due' = due /\ followUp' = followUp /\ lines' = lines
      /\ settlement \in INVOICE_ACTIVE_STATUSES /\ Finalized
  BY DEF AskUpdate, Ask, RequireInvoiceSale, refunding
<1>2. settlement # "partially_paid" /\ settlement # "paid" /\ settlement # Same
  BY <1>1 DEF INVOICE_ACTIVE_STATUSES, Same
<1>3. \A s \in Requests \ {r} : task'[s] = task[s]
  BY DEF AskUpdate, FollowUpTyped
<1>4. task'[r] = [settlement |-> IF new = settlement THEN Same ELSE new,
                  due        |-> IF newDue = due THEN NoDate ELSE newDue,
                  followUp   |-> newFollowUp,
                  clear      |-> clear /\ followUp # NoDate]
  BY DEF AskUpdate, FollowUpTyped
<1>5. /\ task'[r].settlement = IF new = settlement THEN Same ELSE new
      /\ task'[r].due = IF newDue = due THEN NoDate ELSE newDue
      /\ task'[r].followUp = newFollowUp
      /\ task'[r].clear => clear
  BY <1>4
<1>6. Sent(r)'
  BY <1>1, <1>2, <1>5 DEF Sent, Chased, Same
<1>7. \A s \in Requests \ {r} : Sent(s)'
  BY <1>1, <1>3 DEF Sent, Chased
<1> QED BY <1>1, <1>2, <1>6, <1>7 DEF Chased, Finalized

\* A request that writes, over whatever the others have written since it read.
LEMMA CommitChased ==
  ASSUME FollowUpTyped, Chased, NEW r \in Requests, Commit(r)
  PROVE  Chased'
<1>1. /\ task[r] # Idle /\ lines' = lines
      /\ settlement' = IF task[r].settlement = Same THEN settlement ELSE task[r].settlement
      /\ due' = IF task[r].due = NoDate THEN due ELSE task[r].due
      /\ followUp' = IF task[r].followUp # NoDate THEN task[r].followUp
                     ELSE IF task[r].clear THEN NoDate ELSE followUp
  BY DEF Commit, refunding
<1>2. Sent(r) /\ ~AtRest
  BY <1>1 DEF Chased, AtRest
<1>3. task'[r] = Idle /\ \A s \in Requests \ {r} : task'[s] = task[s]
  BY DEF Commit, FollowUpTyped
<1>4. due # NoDate => due' # NoDate
  BY <1>1
<1>5. Sent(r)'
  BY <1>3 DEF Sent, Idle, Same
<1>6. \A s \in Requests \ {r} : Sent(s)'
  BY <1>3, <1>4 DEF Sent, Chased
<1>7. ~(settlement' = "partially_paid" \/ ~Finalized')
  BY <1>1, <1>2 DEF Chased, Sent, Finalized
<1>8. settlement' = "transferred_to_invoicing" => due' # NoDate
  BY <1>1, <1>2 DEF Chased, Sent
<1>9. settlement' \in {"unpaid", "reminder_sent"} /\ due' # NoDate => followUp' # NoDate
  <2> SUFFICES ASSUME settlement' \in {"unpaid", "reminder_sent"}, due' # NoDate
               PROVE  followUp' # NoDate
    OBVIOUS
  <2>1. ~task[r].clear
    BY <1>1, <1>2 DEF Sent, Same
  <2>2. CASE task[r].settlement = Same
    BY <1>1, <1>2, <2>1, <2>2 DEF Sent, Chased
  <2>3. CASE task[r].settlement # Same
    BY <1>1, <1>2, <2>3 DEF Sent
  <2> QED BY <2>2, <2>3
<1> QED BY <1>5, <1>6, <1>7, <1>8, <1>9 DEF Chased

LEMMA ChasedStep ==
  ASSUME TypeOK, Chased, Next
  PROVE  Chased'
<1>0. FollowUpTyped
  BY TypeParts
<1>1. ASSUME NEW b \in Baskets, NEW invoice \in BOOLEAN, Finalize(b, invoice)
      PROVE  Chased'
  <2>1. /\ AtRest /\ due' = due /\ followUp' = followUp /\ task' = task
    BY <1>1 DEF Finalize, Chased
  <2>2. AtRest'
    BY <2>1 DEF AtRest, Dated
  <2>3. settlement' # "transferred_to_invoicing"
    <3>1. ASSUME NEW total, NEW paid
          PROVE  settlement_status_for(total, paid, invoice) # "transferred_to_invoicing"
      BY DEF settlement_status_for
    <3> QED BY <1>1, <3>1 DEF Finalize
  <2>4. \A r \in Requests : Sent(r)'
    BY <2>2 DEF AtRest, Sent, Idle, Same
  <2> QED BY <2>2, <2>3, <2>4 DEF Chased, AtRest, Dated
<1>2. ASSUME lines' = lines, UNCHANGED invoicing PROVE Chased'
  BY <1>2 DEF Chased, AtRest, Dated, Finalized, Sent, invoicing
<1>3. ASSUME NEW a, AddRefund(a) PROVE Chased'
  BY <1>2, <1>3 DEF AddRefund
<1>4. ASSUME NEW i, NEW q, NEW restock, AddLineRefund(i, q, restock) PROVE Chased'
  BY <1>2, <1>4 DEF AddLineRefund
<1>5. ASSUME NextDay PROVE Chased'
  BY <1>2, <1>5 DEF NextDay, refunding
<1>6. ASSUME NEW r \in Requests, NEW d \in Dates, TransferToInvoicing(r, d) PROVE Chased'
  <2>1. AskUpdate(r, "transferred_to_invoicing", d, NoDate, FALSE)
    BY <1>6 DEF TransferToInvoicing
  <2>2. d \in Dates \cup {NoDate} /\ d # NoDate /\ NoDate \in Dates \cup {NoDate}
    BY HorizonAssumption DEF Dates, NoDate
  <2> QED BY <1>0, <2>1, <2>2, AskChased
<1>7. ASSUME NEW r \in Requests, NEW d \in Dates, ConfirmUnpaid(r, d) PROVE Chased'
  <2>1. AskUpdate(r, "unpaid", NoDate, d, FALSE)
    BY <1>7 DEF ConfirmUnpaid
  <2>2. d \in Dates \cup {NoDate} /\ d # NoDate /\ NoDate \in Dates \cup {NoDate}
    BY HorizonAssumption DEF Dates, NoDate
  <2> QED BY <1>0, <2>1, <2>2, AskChased
<1>8. ASSUME NEW r \in Requests, NEW d \in Dates, ReminderSent(r, d) PROVE Chased'
  <2>1. AskUpdate(r, "reminder_sent", NoDate, d, FALSE)
    BY <1>8 DEF ReminderSent
  <2>2. d \in Dates \cup {NoDate} /\ d # NoDate /\ NoDate \in Dates \cup {NoDate}
    BY HorizonAssumption DEF Dates, NoDate
  <2> QED BY <1>0, <2>1, <2>2, AskChased
<1>9. ASSUME NEW r \in Requests, ConfirmPaid(r) PROVE Chased'
  <2>1. AskUpdate(r, "paid", NoDate, NoDate, TRUE) /\ NoDate \in Dates \cup {NoDate}
    BY <1>9 DEF ConfirmPaid
  <2> QED BY <1>0, <2>1, AskChased
<1>10. ASSUME NEW r \in Requests, Commit(r) PROVE Chased'
  BY <1>0, <1>10, CommitChased
<1> QED BY <1>1, <1>3, <1>4, <1>5, <1>6, <1>7, <1>8, <1>9, <1>10 DEF Next

\* An unpaid invoice whose dates have passed alerts, whatever its status.
LEMMA PassedAlerts ==
  ASSUME TypeOK, Chased
  PROVE  PassedDateAlerts
<1> SUFFICES ASSUME settlement # "paid", Dated, due < today, followUp <= today
             PROVE  Alerted /\ ActionRequired
  BY DEF PassedDateAlerts
<1>1. settlement \in INVOICE_ACTIVE_STATUSES
  BY DEF Chased, AtRest, TypeOK, Settlements
<1>2. CASE followUp # NoDate
  <2>1. invoice_follow_up_status = "reminder_due"
    BY <1>2 DEF invoice_follow_up_status
  <2> QED BY <1>1, <2>1 DEF Alerted, ActionRequired
<1>3. CASE followUp = NoDate
  <2>1. due # NoDate /\ settlement \notin {"unpaid", "reminder_sent"}
    BY <1>3 DEF Dated, Chased
  <2>2. settlement \in {"transferred_to_invoicing", "awaiting_invoice",
                        "partially_paid_awaiting_invoice"}
    BY <1>1, <2>1 DEF INVOICE_ACTIVE_STATUSES
  <2>3. invoice_follow_up_status = "payment_check_due"
    BY <1>3, <2>1, <2>2 DEF invoice_follow_up_status
  <2> QED BY <1>1, <2>3 DEF Alerted, ActionRequired
<1> QED BY <1>2, <1>3

\* However many requests overlap, an invoice that is not paid and whose dates have
\* passed is in the alerts and in the view the queue opens with
\* (invoice_follow_up_status, invoice_sale_matches_view).
THEOREM NoInvoiceForgotten == Spec => []PassedDateAlerts
<1>1. Init => Chased
  BY IdleSent DEF Init, Chased, AtRest, Dated, Sent, Idle
<1>2. TypeOK /\ Chased /\ [Next]_vars => Chased'
  <2> SUFFICES ASSUME TypeOK, Chased, [Next]_vars PROVE Chased'
    OBVIOUS
  <2>1. CASE Next
    BY <2>1, ChasedStep
  <2>2. CASE UNCHANGED vars
    BY <2>2 DEF vars, Chased, AtRest, Dated, Finalized, Sent
  <2> QED BY <2>1, <2>2
<1>3. TypeOK /\ Chased => PassedDateAlerts
  BY PassedAlerts
<1> QED BY <1>1, <1>2, <1>3, TypeCorrect, PTL DEF Spec
=============================================================================
