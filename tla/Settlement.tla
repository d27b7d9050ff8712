----------------------------- MODULE Settlement -----------------------------
(***************************************************************************)
(* One sale after it is recorded: its refunds, by amount or by line, with  *)
(* the goods that come back, and the follow-up of its invoice.             *)
(*                                                                         *)
(* Money is in whole cents; quantities are whole units.  The four requests *)
(* of the follow-up may overlap.  Each decides, from what it read, which   *)
(* columns its UPDATE carries: the ORM leaves out a column whose new value *)
(* equals the one it read, except a date and time, which is read without   *)
(* a zone, written with UTC and so never equal.  The other requests run    *)
(* one at a time (CashRaces has overlapping refunds).  Shifts, users, the  *)
(* amounts of VAT and the amount confirmed as received are left out.       *)
(***************************************************************************)
EXTENDS Integers, Sequences, Totals

CONSTANTS Baskets,    \* what a sale can consist of: sequences of Line
          Amounts,    \* amounts of a payment or a refund typed by a user
          Requests,   \* requests of the follow-up that can overlap
          Horizon,    \* bound: the last day
          MaxEvents   \* bound: requests for the sale

Line == [quantity : Nat \ {0}, total : Nat, cost : Nat, stock : BOOLEAN, rate : Nat]

ASSUME BasketsAssumption == \A b \in Baskets : b \in Seq(Line) /\ b # <<>>
ASSUME AmountsAssumption == Amounts \subseteq Nat \ {0}
ASSUME HorizonAssumption == Horizon \in Nat \ {0} /\ MaxEvents \in Nat

VARIABLES
  lines,       \* sale.lines (none before the sale)
  back,        \* per line what its refund_lines add up to
  refunded,    \* what all its refunds add up to
  status,      \* sale.status
  settlement,  \* sale.settlement_status
  due,         \* sale.due_date
  followUp,    \* sale.next_follow_up_at
  today,
  task,        \* the UPDATE each request is about to commit (Idle is none)
  events

refunding == <<lines, back, refunded, status>>
invoicing == <<settlement, due, followUp, task>>
vars == <<lines, back, refunded, status, settlement, due, followUp, today, task, events>>

Dates == 1..(Horizon - 1)   \* dates users enter
NoDate == 0
Same == "same"              \* a column the UPDATE leaves out
Idle == [settlement |-> Same, due |-> NoDate, followUp |-> NoDate, clear |-> FALSE]

INVOICE_ACTIVE_STATUSES ==
  {"awaiting_invoice", "partially_paid_awaiting_invoice", "transferred_to_invoicing",
   "unpaid", "reminder_sent"}
Settlements == INVOICE_ACTIVE_STATUSES \cup {"paid", "partially_paid"}

Back == [quantity : Nat, gross : Nat, restocked : Nat, cost : Nat]
NothingBack == [quantity |-> 0, gross |-> 0, restocked |-> 0, cost |-> 0]
Update == [settlement : Settlements \cup {Same},
           due : Dates \cup {NoDate}, followUp : Dates \cup {NoDate}, clear : BOOLEAN]

Init ==
  /\ lines = <<>> /\ back = <<>> /\ refunded = 0
  /\ status = "completed" /\ settlement = "paid"
  /\ due = NoDate /\ followUp = NoDate /\ today = 1
  /\ task = [r \in Requests |-> Idle] /\ events = 0
-----------------------------------------------------------------------------
\* money(a / b): to the cent, a half up.
Money(a, b) == (2 * a + b) \div (2 * b)

TotalOf(basket) == Total(DOMAIN basket, [i \in DOMAIN basket |-> basket[i].total])
SaleTotal == TotalOf(lines)
RefundedByLine == Total(DOMAIN back, [i \in DOMAIN back |-> back[i].gross])

\* Mutant: refunds by amount do not count.
RemainingOfLines == SaleTotal - RefundedByLine

RemainingAmount == SaleTotal - refunded

settlement_status_for(total, paid, invoice) ==
  CASE paid = total /\ total > 0 -> "paid"
    [] paid = 0 /\ invoice       -> "awaiting_invoice"
    [] paid > 0 /\ invoice       -> "partially_paid_awaiting_invoice"
    [] paid > 0                  -> "partially_paid"
    [] OTHER                     -> "unpaid"

Finalized == lines # <<>>

\* A sale, paid in part, in full or not at all, with or without an invoice.
Finalize(basket, invoice) ==
  /\ ~Finalized
  /\ lines' = basket
  /\ back' = [i \in DOMAIN basket |-> NothingBack]
  /\ LET total == TotalOf(basket)
     IN  \E paid \in {a \in Amounts \cup {0, total} : a <= total} :
           settlement' = settlement_status_for(total, paid, invoice)
  /\ UNCHANGED <<refunded, status, due, followUp, today, task, events>>

Ask == Finalized /\ events < MaxEvents /\ events' = events + 1
-----------------------------------------------------------------------------
StatusFor(amount) == IF amount < SaleTotal THEN "partially_refunded" ELSE "refunded"

\* Part of the sale's price; an empty form means all that is left.
AddRefund(amount) ==
  /\ Ask
  /\ amount > 0
  /\ amount <= RemainingAmount
  /\ \A i, j \in DOMAIN lines : lines[i].rate = lines[j].rate
  /\ refunded' = refunded + amount
  /\ status' = StatusFor(refunded + amount)
  /\ UNCHANGED <<lines, back, today>> /\ UNCHANGED invoicing

\* Mutant: only units that came back to the shelf count.
RemainingNotRestocked(i) == lines[i].quantity - back[i].restocked

RemainingQuantity(i) == lines[i].quantity - back[i].quantity

\* Mutant: the last part is rounded like the others.
ShareGross(i, q) == Money(lines[i].total * q, lines[i].quantity)

\* What the customer gets for q units of line i: the last unit settles the line.
RefundGross(i, q) ==
  IF q = RemainingQuantity(i)
  THEN lines[i].total - back[i].gross
  ELSE Money(lines[i].total * q, lines[i].quantity)

\* Mutant: each part is rounded by itself.
ShareCost(i, q) == Money(lines[i].cost * q, lines[i].quantity)

\* The cost at which q units return to the shelf.
ReturnCost(i, q) ==
  Money(lines[i].cost * (back[i].restocked + q), lines[i].quantity) - back[i].cost

AddLineRefund(i, q, restock) ==
  /\ Ask
  /\ q <= RemainingQuantity(i)
  /\ RefundGross(i, q) > 0
  /\ RefundGross(i, q) <= RemainingAmount
  /\ restock => lines[i].stock
  /\ back' = [back EXCEPT ![i] =
       [quantity  |-> @.quantity + q,
        gross     |-> @.gross + RefundGross(i, q),
        restocked |-> @.restocked + (IF restock THEN q ELSE 0),
        cost      |-> @.cost + (IF restock THEN ReturnCost(i, q) ELSE 0)]]
  /\ refunded' = refunded + RefundGross(i, q)
  /\ status' = StatusFor(refunded + RefundGross(i, q))
  /\ UNCHANGED <<lines, today>> /\ UNCHANGED invoicing
-----------------------------------------------------------------------------
\* "payment_check_due", "reminder_due" and "cancelled" are never stored, and a
\* sale labelled "invoice" has one of the active statuses until it is paid.
RequireInvoiceSale == settlement \in INVOICE_ACTIVE_STATUSES

\* Mutant: a follow-up date equal to the one read is left out too.
AskChangedColumns(r, new, newDue, newFollowUp, clear) ==
  /\ Ask
  /\ RequireInvoiceSale
  /\ task' = [task EXCEPT ![r] =
       [settlement |-> IF new = settlement THEN Same ELSE new,
        due        |-> IF newDue = due THEN NoDate ELSE newDue,
        followUp   |-> IF newFollowUp = followUp THEN NoDate ELSE newFollowUp,
        clear      |-> clear /\ followUp # NoDate]]
  /\ task[r] = Idle
  /\ UNCHANGED <<settlement, due, followUp, today>> /\ UNCHANGED refunding

\* The UPDATE a request commits after it read the sale.
AskUpdate(r, new, newDue, newFollowUp, clear) ==
  /\ Ask
  /\ RequireInvoiceSale
  /\ task[r] = Idle
  /\ task' = [task EXCEPT ![r] =
       [settlement |-> IF new = settlement THEN Same ELSE new,
        due        |-> IF newDue = due THEN NoDate ELSE newDue,
        followUp   |-> newFollowUp,
        clear      |-> clear /\ followUp # NoDate]]
  /\ UNCHANGED <<settlement, due, followUp, today>> /\ UNCHANGED refunding

TransferToInvoicing(r, d) == AskUpdate(r, "transferred_to_invoicing", d, NoDate, FALSE)
ConfirmPaid(r)            == AskUpdate(r, "paid", NoDate, NoDate, TRUE)
ConfirmUnpaid(r, d)       == AskUpdate(r, "unpaid", NoDate, d, FALSE)
ReminderSent(r, d)        == AskUpdate(r, "reminder_sent", NoDate, d, FALSE)

Commit(r) ==
  /\ task[r] # Idle
  /\ settlement' = IF task[r].settlement = Same THEN settlement ELSE task[r].settlement
  /\ due' = IF task[r].due = NoDate THEN due ELSE task[r].due
  /\ followUp' = IF task[r].followUp # NoDate THEN task[r].followUp
                 ELSE IF task[r].clear THEN NoDate ELSE followUp
  /\ task' = [task EXCEPT ![r] = Idle]
  /\ UNCHANGED <<today, events>> /\ UNCHANGED refunding

NextDay ==
  /\ today < Horizon
  /\ today' = today + 1
  /\ UNCHANGED <<events>> /\ UNCHANGED refunding /\ UNCHANGED invoicing

Next ==
  \/ \E b \in Baskets, invoice \in BOOLEAN : Finalize(b, invoice)
  \/ \E a \in Amounts \cup {RemainingAmount} : AddRefund(a)
  \/ \E i \in DOMAIN lines : \E q \in 1..lines[i].quantity, restock \in BOOLEAN :
       AddLineRefund(i, q, restock)
  \/ \E r \in Requests, d \in Dates :
       TransferToInvoicing(r, d) \/ ConfirmUnpaid(r, d) \/ ReminderSent(r, d)
  \/ \E r \in Requests : ConfirmPaid(r) \/ Commit(r)
  \/ NextDay

Spec == Init /\ [][Next]_vars /\ WF_vars(NextDay)
-----------------------------------------------------------------------------
DerivedStatuses == Settlements \cup {"reminder_due", "payment_check_due"}

invoice_follow_up_status ==
  CASE settlement = "paid" -> "paid"
    [] settlement # "paid" /\ followUp # NoDate /\ followUp <= today -> "reminder_due"
    [] /\ settlement # "paid" /\ ~(followUp # NoDate /\ followUp <= today)
       /\ due # NoDate /\ due < today
       /\ settlement \in {"transferred_to_invoicing", "awaiting_invoice",
                          "partially_paid_awaiting_invoice"} -> "payment_check_due"
    [] OTHER -> settlement

\* invoice_follow_up_alerts lists the sale.
Alerted ==
  /\ settlement \in INVOICE_ACTIVE_STATUSES
  /\ invoice_follow_up_status \in {"payment_check_due", "reminder_due"}

classify_invoice_sale ==
  LET derived == invoice_follow_up_status
  IN  CASE derived = "paid" -> "paid"
        [] derived \in {"payment_check_due", "reminder_due", "unpaid", "reminder_sent"} -> "unpaid"
        [] derived = "transferred_to_invoicing" -> "transferred"
        [] OTHER -> "waiting_transfer"

\* The view the invoice queue opens with shows the sale.
ActionRequired ==
  \/ classify_invoice_sale \in {"waiting_transfer", "unpaid"}
  \/ invoice_follow_up_status \in {"payment_check_due", "reminder_due"}
-----------------------------------------------------------------------------
TypeOK ==
  /\ lines \in Baskets \cup {<<>>}
  /\ back \in [DOMAIN lines -> Back]
  /\ \A i \in DOMAIN lines :
       /\ back[i].restocked <= back[i].quantity
       /\ back[i].quantity <= lines[i].quantity
       /\ back[i].cost <= lines[i].cost
       /\ ~lines[i].stock => back[i].restocked = 0
  /\ refunded \in Nat
  /\ status \in {"completed", "partially_refunded", "refunded"}
  /\ settlement \in Settlements
  /\ due \in Dates \cup {NoDate} /\ followUp \in Dates \cup {NoDate}
  /\ today \in 1..Horizon /\ events \in 0..MaxEvents
  /\ task \in [Requests -> Update]

\* A line refunded unit by unit, or in any parts, beside refunds by amount: when all of
\* it is refunded the customer has had its price to the cent, and before that at most
\* half a cent per refunded unit more or less than its share (add_line_refund).
LineRefundsAddUp ==
  \A i \in DOMAIN back :
    LET l == lines[i]
        off == 2 * (back[i].gross * l.quantity - l.total * back[i].quantity)
    IN  IF back[i].quantity = l.quantity
        THEN back[i].gross = l.total
        ELSE off \in (-(back[i].quantity * l.quantity))..(back[i].quantity * l.quantity)

\* Units that return to the shelf bring back the rounded share of the line's cost that
\* all units returned so far are due, whatever was refunded without them in between.
RestockedAtCost ==
  \A i \in DOMAIN back :
    back[i].cost = Money(lines[i].cost * back[i].restocked, lines[i].quantity)

\* Refunds by line and by amount draw on one total, and the status says how much of it
\* is gone (add_refund, add_line_refund, remaining_refundable_amount).
StatusFollowsRefunds ==
  /\ RefundedByLine <= refunded /\ refunded <= SaleTotal
  /\ status = IF refunded = 0 THEN "completed" ELSE StatusFor(refunded)

Dated == due # NoDate \/ followUp # NoDate

\* Once the dates of an invoice that is not paid have passed, it is in the alerts and in
\* the view that the queue opens with: no overlap of requests leaves it with a status
\* that looks at a date it has not got (invoice_follow_up_status).
PassedDateAlerts ==
  settlement # "paid" /\ Dated /\ due < today /\ followUp <= today
    => Alerted /\ ActionRequired

\* An invoice that was handed over, or asked about, and is not confirmed as paid comes to
\* the alerts and to the view that the invoice queue opens with, whatever requests
\* overlap and whoever writes last (invoice_follow_up_alerts, invoice_sale_matches_view).
InvoiceIsFollowedUp ==
  (settlement # "paid" /\ Dated)
    ~> (settlement = "paid" \/ (Alerted /\ ActionRequired))
=============================================================================
