------------------------------ MODULE CashDay ------------------------------
(***************************************************************************)
(* The business day of sales_service.py: cashier shifts with their cash,   *)
(* sales and refunds recorded with or without a shift, cash movements,     *)
(* daily closings with their versioned snapshots, reopening, and the       *)
(* correction of a sale's credited seller.                                 *)
(*                                                                         *)
(* Every request is stated in two parts, what it checks and what it then   *)
(* stores, because the services read first and write afterwards.  Here a   *)
(* request is one step; CashRaces lets requests overlap.                   *)
(*                                                                         *)
(* Amounts are whole units.  VAT, discounts, counted cash, notes and users'*)
(* roles are left out; a payment is cash or not.  Payments of an external  *)
(* invoice are no cash and change no figure kept here.                     *)
(***************************************************************************)
EXTENDS Integers, FiniteSets, Sequences, Totals

CONSTANTS Seller, Register, Shift, NoShift, Sale, Refund,
          Date,          \* business dates, day numbers from 1
          Price,         \* what a sale can come to
          Amount,        \* amounts of a refund or a cash movement
          StartingCash,  \* the cash a shift can begin with
          ShiftRequired, \* the setting require_cashier_shift
          MaxClosings,   \* bound: the snapshots taken, of all dates
          MaxDrawer      \* bound: what movements add to or take from a shift

ASSUME RowsAssumption == /\ IsFiniteSet(Shift) /\ NoShift \notin Shift
                         /\ IsFiniteSet(Sale) /\ IsFiniteSet(Refund)
                         /\ IsFiniteSet(Seller)
ASSUME DateAssumption == Date \subseteq Nat \ {0} /\ IsFiniteSet(Date) /\ 1 \in Date
ASSUME AmountAssumption == /\ Amount \subseteq Nat \ {0} /\ Price \subseteq Nat \ {0}
                           /\ StartingCash \subseteq Nat
                           /\ ShiftRequired \in BOOLEAN
                           /\ MaxClosings \in Nat /\ MaxDrawer \in Nat

VARIABLES
  today,     \* date.today()
  shift,     \* the rows of Shift, or Unopened
  drawer,    \* cash_in minus cash_out of a shift's CashMovement rows
  sale,      \* the rows of Sale with their payments, or NoRow
  refund,    \* the rows of Refund, or NoRow
  closing,   \* DailyClosing.status of a date, or "none"
  version,   \* DailyClosing.current_version
  snapshots  \* DailyClosingSnapshot of a date, in the order of their ids

vars == <<today, shift, drawer, sale, refund, closing, version, snapshots>>
-----------------------------------------------------------------------------
Unopened == [status |-> "none"]
NoRow    == [date |-> 0]

OpenShifts  == {h \in Shift : shift[h].status = "open"}
ShiftsOn(d) == {h \in Shift : shift[h].status # "none" /\ shift[h].date = d}
Sold        == {x \in Sale : sale[x].date # 0}
Refunds     == {f \in Refund : refund[f].date # 0}

\* assert_business_date_open.
DateOpen(d) == closing[d] # "closed"

\* The shift's business date; without a shift, today.
DateOf(h) == IF h = NoShift THEN today ELSE shift[h].date

\* Without a shift or with one that is open.
UsableOnceOpened(h) == h # NoShift => shift[h].status # "none"
Usable(h) == h # NoShift => h \in OpenShifts

RefundedOf(x) ==
  Total(Refund, [f \in Refund |-> IF f \in Refunds /\ refund[f].sale = x
                                  THEN refund[f].amount ELSE 0])

\* calculate_expected_cash.
CashTaken(h) == [x \in Sale |-> IF x \in Sold /\ sale[x].shift = h
                                THEN sale[x].cash ELSE 0]
CashGiven(h) == [f \in Refund |-> IF f \in Refunds /\ refund[f].shift = h
                                  THEN refund[f].cash ELSE 0]
ExpectedCash(h) ==
  shift[h].start + Total(Sale, CashTaken(h)) - Total(Refund, CashGiven(h)) + drawer[h]

\* The figures build_daily_closing_snapshot takes for a date: what each seller
\* sold and refunded, and the cash each shift should hold.
SoldBy(d, s) ==
  Total(Sale, [x \in Sale |-> IF sale[x].date = d /\ sale[x].seller = s
                              THEN sale[x].total ELSE 0])
RefundedBy(d, s) ==
  Total(Refund, [f \in Refund |-> IF refund[f].date = d /\ refund[f].seller = s
                                  THEN refund[f].amount ELSE 0])
ClosingCash(h) ==
  IF shift[h].status = "closed" /\ shift[h].expected # 0
  THEN shift[h].expected ELSE ExpectedCash(h)
Figures(d) == [sales   |-> [s \in Seller |-> SoldBy(d, s)],
               refunds |-> [s \in Seller |-> RefundedBy(d, s)],
               cash    |-> [h \in ShiftsOn(d) |-> ClosingCash(h)]]
-----------------------------------------------------------------------------
(* What the requests check.                                                *)

MayOpenShiftOnAnyRegister(s, g, d) ==
  DateOpen(d) /\ \A h \in OpenShifts : shift[h].seller # s
MayOpenShift(s, g, d) ==
  /\ DateOpen(d)
  /\ \A h \in OpenShifts : shift[h].seller # s /\ shift[h].register # g

MaySellOnAnyDate(h) == Usable(h) /\ (h = NoShift => ~ShiftRequired)
MaySell(h) == Usable(h) /\ (h = NoShift => ~ShiftRequired) /\ DateOpen(DateOf(h))

\* A refund is not held to require_cashier_shift.
MayRefundUpToTotal(x, h, s, a) ==
  /\ x \in Sold /\ Usable(h) /\ DateOpen(DateOf(h))
  /\ h # NoShift => shift[h].seller = s
  /\ a <= sale[x].total
MayRefund(x, h, s, a) ==
  /\ x \in Sold /\ Usable(h) /\ DateOpen(DateOf(h))
  /\ h # NoShift => shift[h].seller = s
  /\ a <= sale[x].total - RefundedOf(x)

MayMoveCash(h) == h \in OpenShifts /\ DateOpen(shift[h].date)
MayCloseShift(h) == h \in OpenShifts /\ DateOpen(shift[h].date)
MayCorrectSellerOnAnyDate(x) == x \in Sold
MayCorrectSeller(x) == x \in Sold /\ DateOpen(sale[x].date)

MayCloseDayAnyTime(d) == DateOpen(d)
MayCloseDay(d) ==
  /\ ShiftRequired => \A h \in OpenShifts : shift[h].date # d
  /\ DateOpen(d)
MayReopenDay(d) == closing[d] = "closed"
-----------------------------------------------------------------------------
(* What they store.                                                        *)

ShiftRow(s, g, d, a) == [status |-> "open", seller |-> s, register |-> g,
                         date |-> d, start |-> a, expected |-> 0]
StoreShift(h, r) ==
  /\ shift[h] = Unopened
  /\ shift' = [shift EXCEPT ![h] = r]
  /\ UNCHANGED <<today, drawer, sale, refund, closing, version, snapshots>>

\* Any part of the total is paid in cash.
SaleRow(h, s, t, c) == [date |-> DateOf(h), shift |-> h, seller |-> s,
                        total |-> t, cash |-> c, status |-> "completed"]
StoreSale(x, r) ==
  /\ sale[x] = NoRow
  /\ sale' = [sale EXCEPT ![x] = r]
  /\ UNCHANGED <<today, shift, drawer, refund, closing, version, snapshots>>

\* The sale's status is set from the refunds known when the refund was checked.
RefundRow(x, h, s, a, c) == [date |-> DateOf(h), sale |-> x, shift |-> h,
                             seller |-> s, amount |-> a, cash |-> c]
StatusAfter(x, a) == IF RefundedOf(x) + a < sale[x].total
                     THEN "partially_refunded" ELSE "refunded"
StoreRefund(f, r, status) ==
  /\ refund[f] = NoRow
  /\ refund' = [refund EXCEPT ![f] = r]
  /\ sale' = [sale EXCEPT ![r.sale].status = status]
  /\ UNCHANGED <<today, shift, drawer, closing, version, snapshots>>

StoreMovement(h, m) ==
  /\ drawer[h] + m \in -MaxDrawer..MaxDrawer
  /\ drawer' = [drawer EXCEPT ![h] = @ + m]
  /\ UNCHANGED <<today, shift, sale, refund, closing, version, snapshots>>

StoreClosedShift(h, expected) ==
  /\ shift' = [shift EXCEPT ![h].status = "closed", ![h].expected = expected]
  /\ UNCHANGED <<today, drawer, sale, refund, closing, version, snapshots>>

StoreSeller(x, s) ==
  /\ sale' = [sale EXCEPT ![x].seller = s]
  /\ UNCHANGED <<today, shift, drawer, refund, closing, version, snapshots>>

Snapshot(d, v) == [version |-> v, figures |-> Figures(d)]
StoreClosing(d, snapshot) ==
  /\ Total(Date, [e \in Date |-> Len(snapshots[e])]) < MaxClosings
  /\ closing' = [closing EXCEPT ![d] = "closed"]
  /\ version' = [version EXCEPT ![d] = snapshot.version]
  /\ snapshots' = [snapshots EXCEPT ![d] = Append(@, snapshot)]
  /\ UNCHANGED <<today, shift, drawer, sale, refund>>

StoreReopenedAsOpen(d) ==
  /\ closing' = [closing EXCEPT ![d] = "open"]
  /\ UNCHANGED <<today, shift, drawer, sale, refund, version, snapshots>>
StoreReopenedResetting(d) ==
  /\ closing' = [closing EXCEPT ![d] = "reopened"]
  /\ version' = [version EXCEPT ![d] = 0]
  /\ UNCHANGED <<today, shift, drawer, sale, refund, snapshots>>
StoreReopened(d) ==
  /\ closing' = [closing EXCEPT ![d] = "reopened"]
  /\ UNCHANGED <<today, shift, drawer, sale, refund, version, snapshots>>
-----------------------------------------------------------------------------
(* Requests, each done before the next begins.                             *)

NextDay ==
  /\ today + 1 \in Date
  /\ today' = today + 1
  /\ UNCHANGED <<shift, drawer, sale, refund, closing, version, snapshots>>

OpenShift(h, s, g, d, a) == MayOpenShift(s, g, d) /\ StoreShift(h, ShiftRow(s, g, d, a))

CreateSale(x, h, s, t, c) == MaySell(h) /\ StoreSale(x, SaleRow(h, s, t, c))

AddRefund(f, x, h, s, a, c) ==
  MayRefund(x, h, s, a) /\ StoreRefund(f, RefundRow(x, h, s, a, c), StatusAfter(x, a))

AddCashMovement(h, m) == MayMoveCash(h) /\ StoreMovement(h, m)

CloseShift(h) == MayCloseShift(h) /\ StoreClosedShift(h, ExpectedCash(h))

CorrectSaleSeller(x, s) == MayCorrectSeller(x) /\ StoreSeller(x, s)

CreateDailyClosing(d) ==
  MayCloseDay(d) /\ StoreClosing(d, Snapshot(d, version[d] + 1))

ReopenDailyClosing(d) == MayReopenDay(d) /\ StoreReopened(d)

Init ==
  /\ today = 1
  /\ shift     = [h \in Shift |-> Unopened]
  /\ drawer    = [h \in Shift |-> 0]
  /\ sale      = [x \in Sale |-> NoRow]
  /\ refund    = [f \in Refund |-> NoRow]
  /\ closing   = [d \in Date |-> "none"]
  /\ version   = [d \in Date |-> 0]
  /\ snapshots = [d \in Date |-> <<>>]

Next ==
  \/ NextDay
  \/ \E h \in Shift, s \in Seller, g \in Register, d \in Date, a \in StartingCash :
        OpenShift(h, s, g, d, a)
  \/ \E x \in Sale, h \in Shift \cup {NoShift}, s \in Seller, t \in Price :
        \E c \in 0..t : CreateSale(x, h, s, t, c)
  \/ \E f \in Refund, x \in Sale, h \in Shift \cup {NoShift}, s \in Seller, a \in Amount :
        \E c \in {0, a} : AddRefund(f, x, h, s, a, c)
  \/ \E h \in Shift, a \in Amount : AddCashMovement(h, a) \/ AddCashMovement(h, -a)
  \/ \E h \in Shift : CloseShift(h)
  \/ \E x \in Sale, s \in Seller : CorrectSaleSeller(x, s)
  \/ \E d \in Date : CreateDailyClosing(d)
  \/ \E d \in Date : ReopenDailyClosing(d)

Spec == Init /\ [][Next]_vars
-----------------------------------------------------------------------------
ShiftRows == [status : {"open", "closed"}, seller : Seller, register : Register,
              date : Date, start : Nat, expected : Int]
SaleRows == [date : Date, shift : Shift \cup {NoShift}, seller : Seller, total : Nat,
             cash : Nat, status : {"completed", "partially_refunded", "refunded"}]
RefundRows == [date : Date, sale : Sale, shift : Shift \cup {NoShift},
               seller : Seller, amount : Nat, cash : Nat]

(* The type invariant.                                                     *)
TypeOK ==
  /\ today  \in Date
  /\ shift  \in [Shift -> ShiftRows \cup {Unopened}]
  /\ drawer \in [Shift -> Int]
  /\ sale   \in [Sale -> SaleRows \cup {NoRow}]
  /\ refund \in [Refund -> RefundRows \cup {NoRow}]
  /\ closing \in [Date -> {"none", "closed", "reopened"}]
  /\ version \in [Date -> Nat]
  /\ DOMAIN snapshots = Date

(* A seller and a register have at most one open shift each.               *)
OneOpenShift ==
  \A h, k \in OpenShifts :
    shift[h].seller = shift[k].seller \/ shift[h].register = shift[k].register => h = k

(* Once a shift is counted, no sale, refund or movement changes the cash    *)
(* it was counted against.                                                 *)
ClosedShiftCounted ==
  \A h \in Shift : shift[h].status = "closed" => shift[h].expected = ExpectedCash(h)

(* Refunds, whichever day and shift they are made on, never exceed the     *)
(* sale's total, and the sale's status tells how much of it is refunded.   *)
RefundsWithinTotal ==
  \A x \in Sold :
    /\ RefundedOf(x) <= sale[x].total
    /\ sale[x].status = IF RefundedOf(x) = 0 THEN "completed"
                        ELSE IF RefundedOf(x) < sale[x].total
                             THEN "partially_refunded" ELSE "refunded"

(* The current version of a closing is the last snapshot taken.            *)
VersionIsLatest == \A d \in Date : version[d] = Len(snapshots[d])

(* A date is closed only after its shifts, and no shift is opened on it    *)
(* afterwards: no cashier is left with a shift that cannot be closed.      *)
DayClosedAfterItsShifts ==
  \A h \in OpenShifts : DateOpen(shift[h].date)

(* The business day implements the day book: a closed date's figures stand *)
(* still and equal its latest snapshot, each request touches the figures   *)
(* of one date, and a closing adds exactly one version.                    *)
Book == INSTANCE DayBook WITH book <- [d \in Date |-> Figures(d)],
                              state <- closing, archive <- snapshots
BookKept == Book!Spec
=============================================================================
