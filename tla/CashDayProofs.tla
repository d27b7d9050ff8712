--------------------------- MODULE CashDayProofs ---------------------------
(***************************************************************************)
(* What the business day keeps for every number of sellers, shifts, sales, *)
(* refunds and dates, and that it implements the day book.                 *)
(***************************************************************************)
EXTENDS CashDay, TotalTheorems

\* What a snapshot holds.
FigureRows == [sales   : [Seller -> Nat],
               refunds : [Seller -> Nat],
               cash    : UNION {[H -> Int] : H \in SUBSET Shift}]
SnapshotRows == [version : Nat, figures : FigureRows]

SnapshotsTyped == snapshots \in [Date -> Seq(SnapshotRows)]

\* A refund is of a sale that exists, and of something.
RefundsOfSold ==
  \A f \in Refunds : refund[f].sale \in Sold /\ refund[f].amount > 0
-----------------------------------------------------------------------------
(* The rows and their sums.                                                *)

LEMMA ShiftKinds ==
  ASSUME TypeOK, NEW h \in Shift
  PROVE  /\ shift[h].status # "none" <=> shift[h] \in ShiftRows
         /\ shift[h].status = "none" <=> shift[h] = Unopened
         /\ shift[h] \in ShiftRows => shift[h].status \in {"open", "closed"}
         /\ h # NoShift
<1>1. shift[h] \in ShiftRows \/ shift[h] = Unopened
  BY DEF TypeOK
<1>2. shift[h] \in ShiftRows => shift[h].status \in {"open", "closed"}
  BY DEF ShiftRows
<1>3. Unopened.status = "none"
  BY DEF Unopened
<1> QED BY <1>1, <1>2, <1>3, RowsAssumption

LEMMA SaleKinds ==
  ASSUME TypeOK, NEW x \in Sale
  PROVE  /\ sale[x].date # 0 <=> sale[x] \in SaleRows
         /\ sale[x].date = 0 <=> sale[x] = NoRow
<1>1. sale[x] \in SaleRows \/ sale[x] = NoRow
  BY DEF TypeOK
<1>2. sale[x] \in SaleRows => sale[x].date \in Date
  BY DEF SaleRows
<1>3. NoRow.date = 0
  BY DEF NoRow
<1> QED BY <1>1, <1>2, <1>3, DateAssumption

LEMMA RefundKinds ==
  ASSUME TypeOK, NEW f \in Refund
  PROVE  /\ refund[f].date # 0 <=> refund[f] \in RefundRows
         /\ refund[f].date = 0 <=> refund[f] = NoRow
<1>1. refund[f] \in RefundRows \/ refund[f] = NoRow
  BY DEF TypeOK
<1>2. refund[f] \in RefundRows => refund[f].date \in Date
  BY DEF RefundRows
<1>3. NoRow.date = 0
  BY DEF NoRow
<1> QED BY <1>1, <1>2, <1>3, DateAssumption

\* Every summand is a natural number.
LEMMA Summands ==
  ASSUME TypeOK
  PROVE  /\ \A h : \A x \in Sale : CashTaken(h)[x] \in Nat
         /\ \A h : \A f \in Refund : CashGiven(h)[f] \in Nat
         /\ \A f \in Refund : f \in Refunds => refund[f].amount \in Nat
<1>1. \A x \in Sold : sale[x].cash \in Nat
  BY SaleKinds DEF Sold, SaleRows
<1>2. \A f \in Refunds : refund[f].cash \in Nat /\ refund[f].amount \in Nat
  BY RefundKinds DEF Refunds, RefundRows
<1> QED BY <1>1, <1>2 DEF CashTaken, CashGiven

LEMMA ExpectedCashInt ==
  ASSUME TypeOK, NEW h \in Shift, shift[h].status # "none"
  PROVE  ExpectedCash(h) \in Int
<1>1. shift[h].start \in Nat
  BY ShiftKinds DEF ShiftRows
<1>2. drawer[h] \in Int
  BY DEF TypeOK
<1>3. Total(Sale, CashTaken(h)) \in Nat /\ Total(Refund, CashGiven(h)) \in Nat
  BY Summands, TotalNat, RowsAssumption
<1> QED BY <1>1, <1>2, <1>3 DEF ExpectedCash

LEMMA RefundedOfNat ==
  ASSUME TypeOK, NEW x
  PROVE  RefundedOf(x) \in Nat
<1> DEFINE r == [f \in Refund |-> IF f \in Refunds /\ refund[f].sale = x
                                  THEN refund[f].amount ELSE 0]
<1>1. \A f \in Refund : r[f] \in Nat
  BY Summands
<1>2. Total(Refund, r) \in Nat
  BY <1>1, TotalNat, RowsAssumption
<1> QED BY <1>2 DEF RefundedOf

LEMMA FiguresTyped ==
  ASSUME TypeOK, NEW d \in Date
  PROVE  Figures(d) \in FigureRows
<1>d. d \in Nat \ {0}
  BY DateAssumption
<1>1. ASSUME NEW s \in Seller PROVE SoldBy(d, s) \in Nat
  <2> DEFINE q == [x \in Sale |-> IF sale[x].date = d /\ sale[x].seller = s
                                  THEN sale[x].total ELSE 0]
  <2>1. ASSUME NEW x \in Sale PROVE q[x] \in Nat
    BY <1>d, SaleKinds DEF SaleRows
  <2>2. Total(Sale, q) \in Nat
    BY <2>1, TotalNat, RowsAssumption
  <2> QED BY <2>2 DEF SoldBy
<1>2. ASSUME NEW s \in Seller PROVE RefundedBy(d, s) \in Nat
  <2> DEFINE q == [f \in Refund |-> IF refund[f].date = d /\ refund[f].seller = s
                                    THEN refund[f].amount ELSE 0]
  <2>1. ASSUME NEW f \in Refund PROVE q[f] \in Nat
    BY <1>d, RefundKinds DEF RefundRows
  <2>2. Total(Refund, q) \in Nat
    BY <2>1, TotalNat, RowsAssumption
  <2> QED BY <2>2 DEF RefundedBy
<1>3. ASSUME NEW h \in ShiftsOn(d) PROVE ClosingCash(h) \in Int
  <2>1. h \in Shift /\ shift[h].status # "none"
    BY DEF ShiftsOn
  <2>2. shift[h].expected \in Int
    BY <2>1, ShiftKinds DEF ShiftRows
  <2> QED BY <2>1, <2>2, ExpectedCashInt DEF ClosingCash
<1>4. ShiftsOn(d) \in SUBSET Shift
  BY DEF ShiftsOn
<1>5. [h \in ShiftsOn(d) |-> ClosingCash(h)] \in [ShiftsOn(d) -> Int]
  BY <1>3
<1> QED BY <1>1, <1>2, <1>4, <1>5 DEF Figures, FigureRows
-----------------------------------------------------------------------------
(* Types.                                                                  *)

LEMMA DateOfDate ==
  ASSUME TypeOK, NEW h \in Shift \cup {NoShift}, Usable(h)
  PROVE  DateOf(h) \in Date
<1>1. CASE h = NoShift
  BY <1>1 DEF DateOf, TypeOK
<1>2. CASE h \in Shift
  BY <1>2, ShiftKinds DEF DateOf, Usable, OpenShifts, ShiftRows
<1> QED BY <1>1, <1>2

LEMMA InitTyped ==
  Init => TypeOK /\ SnapshotsTyped
BY DateAssumption DEF Init, TypeOK, SnapshotsTyped

LEMMA OpenShiftTyped ==
  ASSUME TypeOK, NEW h \in Shift, NEW s \in Seller, NEW g \in Register,
         NEW d \in Date, NEW a \in StartingCash, OpenShift(h, s, g, d, a)
  PROVE  TypeOK'
<1>1. ShiftRow(s, g, d, a) \in ShiftRows
  BY AmountAssumption DEF ShiftRow, ShiftRows
<1> QED BY <1>1 DEF OpenShift, StoreShift, TypeOK, ShiftRows, SaleRows, RefundRows

LEMMA CreateSaleTyped ==
  ASSUME TypeOK, NEW x \in Sale, NEW h \in Shift \cup {NoShift}, NEW s \in Seller,
         NEW t \in Price, NEW c \in 0..t, CreateSale(x, h, s, t, c)
  PROVE  TypeOK' /\ SaleRow(h, s, t, c) \in SaleRows
<1>1. t \in Nat /\ c \in Nat
  BY AmountAssumption
<1>2. DateOf(h) \in Date
  BY DateOfDate DEF CreateSale, MaySell
<1>3. SaleRow(h, s, t, c) \in SaleRows
  BY <1>1, <1>2 DEF SaleRow, SaleRows
<1> QED BY <1>3 DEF CreateSale, StoreSale, TypeOK, ShiftRows, SaleRows, RefundRows

LEMMA AddRefundTyped ==
  ASSUME TypeOK, NEW f \in Refund, NEW x \in Sale, NEW h \in Shift \cup {NoShift},
         NEW s \in Seller, NEW a \in Amount, NEW c \in {0, a},
         AddRefund(f, x, h, s, a, c)
  PROVE  /\ TypeOK'
         /\ RefundRow(x, h, s, a, c) \in RefundRows
         /\ sale' = [sale EXCEPT ![x].status = StatusAfter(x, a)]
<1>1. a \in Nat /\ c \in Nat
  BY AmountAssumption
<1>2. DateOf(h) \in Date
  BY DateOfDate DEF AddRefund, MayRefund
<1>3. RefundRow(x, h, s, a, c) \in RefundRows
  BY <1>1, <1>2 DEF RefundRow, RefundRows
<1>4. RefundRow(x, h, s, a, c).sale = x
  BY DEF RefundRow
<1>5. sale' = [sale EXCEPT ![x].status = StatusAfter(x, a)]
  BY <1>4 DEF AddRefund, StoreRefund
<1>6. sale[x] \in SaleRows
  BY SaleKinds DEF AddRefund, MayRefund, Sold
<1>7. StatusAfter(x, a) \in {"partially_refunded", "refunded"}
  BY DEF StatusAfter
<1>8. sale' \in [Sale -> SaleRows \cup {NoRow}]
  <2>1. [sale[x] EXCEPT !.status = StatusAfter(x, a)] \in SaleRows
    BY <1>6, <1>7 DEF SaleRows
  <2> QED BY <2>1, <1>5 DEF TypeOK
<1>9. refund' \in [Refund -> RefundRows \cup {NoRow}]
  BY <1>3 DEF AddRefund, StoreRefund, TypeOK
<1> QED BY <1>3, <1>5, <1>8, <1>9
        DEF AddRefund, StoreRefund, TypeOK, ShiftRows, SaleRows, RefundRows

LEMMA AddCashMovementTyped ==
  ASSUME TypeOK, NEW h \in Shift, NEW m \in Int, AddCashMovement(h, m)
  PROVE  TypeOK'
BY DEF AddCashMovement, StoreMovement, TypeOK, ShiftRows, SaleRows, RefundRows

LEMMA CloseShiftTyped ==
  ASSUME TypeOK, NEW h \in Shift, CloseShift(h)
  PROVE  /\ TypeOK' /\ shift[h] \in ShiftRows /\ ExpectedCash(h) \in Int
         /\ shift' = [shift EXCEPT ![h].status = "closed",
                                   ![h].expected = ExpectedCash(h)]
<1>1. shift[h].status # "none" /\ shift[h] \in ShiftRows
  BY ShiftKinds DEF CloseShift, MayCloseShift, OpenShifts
<1>2. ExpectedCash(h) \in Int
  BY <1>1, ExpectedCashInt
<1>3. shift' = [shift EXCEPT ![h].status = "closed", ![h].expected = ExpectedCash(h)]
  BY DEF CloseShift, StoreClosedShift
<1>4. [shift[h] EXCEPT !.status = "closed", !.expected = ExpectedCash(h)] \in ShiftRows
  BY <1>1, <1>2 DEF ShiftRows
<1>5. shift' \in [Shift -> ShiftRows \cup {Unopened}]
  BY <1>3, <1>4 DEF TypeOK
<1> QED BY <1>1, <1>2, <1>3, <1>5
        DEF CloseShift, StoreClosedShift, TypeOK, ShiftRows, SaleRows, RefundRows

LEMMA CorrectSaleSellerTyped ==
  ASSUME TypeOK, NEW x \in Sale, NEW s \in Seller, CorrectSaleSeller(x, s)
  PROVE  /\ TypeOK' /\ sale[x] \in SaleRows
         /\ sale' = [sale EXCEPT ![x].seller = s]
<1>1. sale[x] \in SaleRows
  BY SaleKinds DEF CorrectSaleSeller, MayCorrectSeller, Sold
<1>2. sale' = [sale EXCEPT ![x].seller = s]
  BY DEF CorrectSaleSeller, StoreSeller
<1>3. [sale[x] EXCEPT !.seller = s] \in SaleRows
  BY <1>1 DEF SaleRows
<1>4. sale' \in [Sale -> SaleRows \cup {NoRow}]
  BY <1>2, <1>3 DEF TypeOK
<1> QED BY <1>1, <1>2, <1>4
        DEF CorrectSaleSeller, StoreSeller, TypeOK, ShiftRows, SaleRows, RefundRows

LEMMA CreateDailyClosingTyped ==
  ASSUME TypeOK, SnapshotsTyped, NEW d \in Date, CreateDailyClosing(d)
  PROVE  /\ TypeOK' /\ SnapshotsTyped'
         /\ version' = [version EXCEPT ![d] = version[d] + 1]
         /\ snapshots' = [snapshots EXCEPT ![d] = Append(@, Snapshot(d, version[d] + 1))]
<1>1. version[d] + 1 \in Nat
  BY DEF TypeOK
<1>2. Snapshot(d, version[d] + 1) \in SnapshotRows
  BY <1>1, FiguresTyped DEF Snapshot, SnapshotRows
<1>3. snapshots' = [snapshots EXCEPT ![d] = Append(@, Snapshot(d, version[d] + 1))]
  BY DEF CreateDailyClosing, StoreClosing
<1>4. version' = [version EXCEPT ![d] = version[d] + 1]
  BY DEF CreateDailyClosing, StoreClosing, Snapshot
<1>5. SnapshotsTyped'
  <2>1. snapshots[d] \in Seq(SnapshotRows)
    BY DEF SnapshotsTyped
  <2>2. Append(snapshots[d], Snapshot(d, version[d] + 1)) \in Seq(SnapshotRows)
    BY <2>1, <1>2
  <2>3. snapshots' \in [Date -> Seq(SnapshotRows)]
    BY <2>2, <1>3 DEF SnapshotsTyped
  <2>4. SnapshotRows' = SnapshotRows
    BY DEF SnapshotRows, FigureRows
  <2> QED BY <2>3, <2>4 DEF SnapshotsTyped
<1>6. version' \in [Date -> Nat] /\ DOMAIN snapshots' = Date
  BY <1>1, <1>3, <1>4 DEF TypeOK
<1>7. closing' \in [Date -> {"none", "closed", "reopened"}]
  BY DEF CreateDailyClosing, StoreClosing, TypeOK
<1> QED BY <1>3, <1>4, <1>5, <1>6, <1>7
        DEF CreateDailyClosing, StoreClosing, TypeOK, ShiftRows, SaleRows, RefundRows

LEMMA TypedStep ==
  ASSUME TypeOK, SnapshotsTyped, [Next]_vars
  PROVE  TypeOK' /\ SnapshotsTyped'
<1>1. CASE NextDay
  BY <1>1 DEF NextDay, TypeOK, SnapshotsTyped, ShiftRows, SaleRows, RefundRows
<1>2. ASSUME NEW h \in Shift, NEW s \in Seller, NEW g \in Register,
             NEW d \in Date, NEW a \in StartingCash, OpenShift(h, s, g, d, a)
      PROVE  TypeOK' /\ SnapshotsTyped'
  BY <1>2, OpenShiftTyped DEF OpenShift, StoreShift, SnapshotsTyped
<1>3. ASSUME NEW x \in Sale, NEW h \in Shift \cup {NoShift}, NEW s \in Seller,
             NEW t \in Price, NEW c \in 0..t, CreateSale(x, h, s, t, c)
      PROVE  TypeOK' /\ SnapshotsTyped'
  BY <1>3, CreateSaleTyped DEF CreateSale, StoreSale, SnapshotsTyped
<1>4. ASSUME NEW f \in Refund, NEW x \in Sale, NEW h \in Shift \cup {NoShift},
             NEW s \in Seller, NEW a \in Amount, NEW c \in {0, a},
             AddRefund(f, x, h, s, a, c)
      PROVE  TypeOK' /\ SnapshotsTyped'
  BY <1>4, AddRefundTyped DEF AddRefund, StoreRefund, SnapshotsTyped
<1>5. ASSUME NEW h \in Shift, NEW a \in Amount,
             AddCashMovement(h, a) \/ AddCashMovement(h, -a)
      PROVE  TypeOK' /\ SnapshotsTyped'
  <2>1. a \in Int /\ -a \in Int
    BY AmountAssumption
  <2> QED BY <1>5, <2>1, AddCashMovementTyped
          DEF AddCashMovement, StoreMovement, SnapshotsTyped
<1>6. ASSUME NEW h \in Shift, CloseShift(h)
      PROVE  TypeOK' /\ SnapshotsTyped'
  BY <1>6, CloseShiftTyped DEF CloseShift, StoreClosedShift, SnapshotsTyped
<1>7. ASSUME NEW x \in Sale, NEW s \in Seller, CorrectSaleSeller(x, s)
      PROVE  TypeOK' /\ SnapshotsTyped'
  BY <1>7, CorrectSaleSellerTyped DEF CorrectSaleSeller, StoreSeller, SnapshotsTyped
<1>8. ASSUME NEW d \in Date, CreateDailyClosing(d)
      PROVE  TypeOK' /\ SnapshotsTyped'
  BY <1>8, CreateDailyClosingTyped
<1>9. ASSUME NEW d \in Date, ReopenDailyClosing(d)
      PROVE  TypeOK' /\ SnapshotsTyped'
  BY <1>9 DEF ReopenDailyClosing, StoreReopened, TypeOK, SnapshotsTyped,
              ShiftRows, SaleRows, RefundRows
<1>10. CASE UNCHANGED vars
  BY <1>10 DEF vars, TypeOK, SnapshotsTyped, ShiftRows, SaleRows, RefundRows
<1> QED BY <1>1, <1>2, <1>3, <1>4, <1>5, <1>6, <1>7, <1>8, <1>9, <1>10 DEF Next

\* The business day keeps its types.
THEOREM TypeCorrect == Spec => []TypeOK
<1>1. Init => TypeOK /\ SnapshotsTyped
  BY InitTyped
<1>2. TypeOK /\ SnapshotsTyped /\ [Next]_vars => (TypeOK /\ SnapshotsTyped)'
  BY TypedStep
<1> QED BY <1>1, <1>2, PTL DEF Spec
-----------------------------------------------------------------------------
(* What leaves the cash of a shift, and the figures of a date, alone.      *)

LEMMA CashFrame ==
  ASSUME NEW h \in Shift, shift'[h].start = shift[h].start, drawer'[h] = drawer[h],
         \A x \in Sale : CashTaken(h)'[x] = CashTaken(h)[x],
         \A f \in Refund : CashGiven(h)'[f] = CashGiven(h)[f]
  PROVE  ExpectedCash(h)' = ExpectedCash(h)
<1>1. Total(Sale, CashTaken(h)') = Total(Sale, CashTaken(h))
  BY TotalCongruence
<1>2. Total(Refund, CashGiven(h)') = Total(Refund, CashGiven(h))
  BY TotalCongruence
<1>3. /\ Total(Sale, CashTaken(h))' = Total(Sale, CashTaken(h)')
      /\ Total(Refund, CashGiven(h))' = Total(Refund, CashGiven(h)')
  BY DEF Total, Units
<1> QED BY <1>1, <1>2, <1>3 DEF ExpectedCash

LEMMA FiguresFrame ==
  ASSUME NEW d \in Date,
         \A x \in Sale : /\ sale'[x].date = d <=> sale[x].date = d
                         /\ sale[x].date = d => /\ sale'[x].seller = sale[x].seller
                                                /\ sale'[x].total = sale[x].total,
         \A f \in Refund : /\ refund'[f].date = d <=> refund[f].date = d
                           /\ refund[f].date = d => refund'[f] = refund[f],
         ShiftsOn(d)' = ShiftsOn(d),
         \A h \in ShiftsOn(d) : ClosingCash(h)' = ClosingCash(h)
  PROVE  Figures(d)' = Figures(d)
<1>1. ASSUME NEW s \in Seller PROVE SoldBy(d, s)' = SoldBy(d, s)
  <2> DEFINE q == [x \in Sale |-> IF sale[x].date = d /\ sale[x].seller = s
                                  THEN sale[x].total ELSE 0]
             r == [x \in Sale |-> IF sale'[x].date = d /\ sale'[x].seller = s
                                  THEN sale'[x].total ELSE 0]
  <2>1. \A x \in Sale : r[x] = q[x]
    OBVIOUS
  <2>2. Total(Sale, r) = Total(Sale, q)
    BY <2>1, TotalCongruence
  <2> QED BY <2>2 DEF SoldBy
<1>2. ASSUME NEW s \in Seller PROVE RefundedBy(d, s)' = RefundedBy(d, s)
  <2> DEFINE q == [f \in Refund |-> IF refund[f].date = d /\ refund[f].seller = s
                                    THEN refund[f].amount ELSE 0]
             r == [f \in Refund |-> IF refund'[f].date = d /\ refund'[f].seller = s
                                    THEN refund'[f].amount ELSE 0]
  <2>1. \A f \in Refund : r[f] = q[f]
    OBVIOUS
  <2>2. Total(Refund, r) = Total(Refund, q)
    BY <2>1, TotalCongruence
  <2> QED BY <2>2 DEF RefundedBy
<1>3. Figures(d)' = [sales   |-> [s \in Seller |-> SoldBy(d, s)'],
                     refunds |-> [s \in Seller |-> RefundedBy(d, s)'],
                     cash    |-> [h \in ShiftsOn(d)' |-> ClosingCash(h)']]
  BY DEF Figures
<1>4. [h \in ShiftsOn(d)' |-> ClosingCash(h)'] = [h \in ShiftsOn(d) |-> ClosingCash(h)]
  OBVIOUS
<1> QED BY <1>1, <1>2, <1>3, <1>4 DEF Figures

\* A sale or a refund that a shift's cash does not count leaves it alone.
LEMMA SoldElsewhere ==
  ASSUME TypeOK, TypeOK', NEW h \in Shift, UNCHANGED <<shift, drawer, refund>>,
         \A x \in Sale : \/ sale'[x] = sale[x]
                         \/ /\ sale[x] \in SaleRows /\ sale'[x] \in SaleRows
                            /\ sale'[x].shift = sale[x].shift
                            /\ sale'[x].cash = sale[x].cash
                         \/ /\ sale[x] = NoRow /\ sale'[x] \in SaleRows
                            /\ sale'[x].shift # h
  PROVE  ExpectedCash(h)' = ExpectedCash(h)
<1>1. ASSUME NEW x \in Sale PROVE CashTaken(h)'[x] = CashTaken(h)[x]
  <2>1. /\ sale[x] \in SaleRows => sale[x].date # 0
        /\ sale'[x] \in SaleRows => sale'[x].date # 0
        /\ sale[x] = NoRow => sale[x].date = 0
    BY DateAssumption DEF SaleRows, NoRow
  <2> QED BY <2>1 DEF CashTaken, Sold
<1>2. ASSUME NEW f \in Refund PROVE CashGiven(h)'[f] = CashGiven(h)[f]
  BY DEF CashGiven, Refunds
<1> QED BY <1>1, <1>2, CashFrame

LEMMA OpenShiftFrame ==
  ASSUME TypeOK, NEW h \in Shift, NEW s \in Seller, NEW g \in Register,
         NEW d \in Date, NEW a \in StartingCash, OpenShift(h, s, g, d, a)
  PROVE  /\ \A k \in Shift \ {h} : /\ shift'[k] = shift[k]
                                   /\ ExpectedCash(k)' = ExpectedCash(k)
         /\ shift[h] = Unopened /\ shift'[h] = ShiftRow(s, g, d, a)
         /\ \A e \in Date \ {d} : Figures(e)' = Figures(e)
<1>1. /\ shift[h] = Unopened /\ shift' = [shift EXCEPT ![h] = ShiftRow(s, g, d, a)]
      /\ UNCHANGED <<drawer, sale, refund>>
  BY DEF OpenShift, StoreShift
<1>2. shift'[h] = ShiftRow(s, g, d, a) /\ \A k \in Shift \ {h} : shift'[k] = shift[k]
  BY <1>1 DEF TypeOK
<1>3. ASSUME NEW k \in Shift \ {h} PROVE ExpectedCash(k)' = ExpectedCash(k)
  BY <1>1, <1>2, CashFrame DEF CashTaken, CashGiven, Sold, Refunds
<1>4. ASSUME NEW e \in Date \ {d} PROVE Figures(e)' = Figures(e)
  <2>1. shift[h].status = "none" /\ shift'[h].date = d
    BY <1>1, <1>2 DEF Unopened, ShiftRow
  <2>2. h \notin ShiftsOn(e) /\ h \notin ShiftsOn(e)'
    BY <2>1 DEF ShiftsOn
  <2>3. ShiftsOn(e)' = ShiftsOn(e)
    BY <1>2, <2>2 DEF ShiftsOn
  <2>4. \A k \in ShiftsOn(e) : ClosingCash(k)' = ClosingCash(k)
    BY <1>2, <1>3, <2>2 DEF ClosingCash, ShiftsOn
  <2> QED BY <1>1, <2>3, <2>4, FiguresFrame
<1> QED BY <1>1, <1>2, <1>3, <1>4

LEMMA CreateSaleFrame ==
  ASSUME TypeOK, NEW x \in Sale, NEW h \in Shift \cup {NoShift}, NEW s \in Seller,
         NEW t \in Price, NEW c \in 0..t, CreateSale(x, h, s, t, c)
  PROVE  /\ \A k \in Shift \ {h} : ExpectedCash(k)' = ExpectedCash(k)
         /\ \A e \in Date \ {DateOf(h)} : Figures(e)' = Figures(e)
<1>1. /\ sale[x] = NoRow /\ sale' = [sale EXCEPT ![x] = SaleRow(h, s, t, c)]
      /\ UNCHANGED <<shift, drawer, refund>>
  BY DEF CreateSale, StoreSale
<1>2. TypeOK' /\ SaleRow(h, s, t, c) \in SaleRows
  BY CreateSaleTyped
<1>3. /\ sale'[x] = SaleRow(h, s, t, c)
      /\ \A y \in Sale \ {x} : sale'[y] = sale[y]
  BY <1>1 DEF TypeOK
<1>4. ASSUME NEW k \in Shift \ {h} PROVE ExpectedCash(k)' = ExpectedCash(k)
  <2>1. sale'[x].shift # k
    BY <1>3 DEF SaleRow
  <2> QED BY <2>1, <1>1, <1>2, <1>3, SoldElsewhere
<1>5. ASSUME NEW e \in Date \ {DateOf(h)} PROVE Figures(e)' = Figures(e)
  <2>1. sale[x].date # e /\ sale'[x].date # e
    BY <1>1, <1>3, DateAssumption DEF NoRow, SaleRow
  <2>2. ShiftsOn(e)' = ShiftsOn(e)
    BY <1>1 DEF ShiftsOn
  <2>3. \A k \in ShiftsOn(e) : k \in Shift \ {h}
    <3>1. ASSUME NEW k \in ShiftsOn(e), k = h PROVE FALSE
      BY <3>1, RowsAssumption DEF ShiftsOn, DateOf
    <3> QED BY <3>1 DEF ShiftsOn
  <2>4. \A k \in ShiftsOn(e) : ClosingCash(k)' = ClosingCash(k)
    BY <1>1, <1>4, <2>3 DEF ClosingCash
  <2> QED BY <1>1, <1>3, <2>1, <2>2, <2>4, FiguresFrame
<1> QED BY <1>4, <1>5

LEMMA AddRefundFrame ==
  ASSUME TypeOK, NEW f \in Refund, NEW x \in Sale, NEW h \in Shift \cup {NoShift},
         NEW s \in Seller, NEW a \in Amount, NEW c \in {0, a},
         AddRefund(f, x, h, s, a, c)
  PROVE  /\ \A k \in Shift \ {h} : ExpectedCash(k)' = ExpectedCash(k)
         /\ \A e \in Date \ {DateOf(h)} : Figures(e)' = Figures(e)
<1>1. /\ refund[f] = NoRow /\ refund' = [refund EXCEPT ![f] = RefundRow(x, h, s, a, c)]
      /\ UNCHANGED <<shift, drawer>>
  BY DEF AddRefund, StoreRefund
<1>2. sale' = [sale EXCEPT ![x].status = StatusAfter(x, a)] /\ sale[x] \in SaleRows
  BY AddRefundTyped, SaleKinds DEF AddRefund, MayRefund, Sold
<1>3. /\ refund'[f] = RefundRow(x, h, s, a, c)
      /\ \A g \in Refund \ {f} : refund'[g] = refund[g]
  BY <1>1 DEF TypeOK
<1>4. \A y \in Sale : /\ sale'[y].date = sale[y].date /\ sale'[y].shift = sale[y].shift
                      /\ sale'[y].cash = sale[y].cash /\ sale'[y].seller = sale[y].seller
                      /\ sale'[y].total = sale[y].total
  BY <1>2 DEF TypeOK, SaleRows
<1>5. ASSUME NEW k \in Shift \ {h} PROVE ExpectedCash(k)' = ExpectedCash(k)
  <2>1. \A y \in Sale : CashTaken(k)'[y] = CashTaken(k)[y]
    BY <1>4 DEF CashTaken, Sold
  <2>2. refund[f].date = 0 /\ refund'[f].shift # k
    BY <1>1, <1>3 DEF NoRow, RefundRow
  <2>3. \A g \in Refund : CashGiven(k)'[g] = CashGiven(k)[g]
    BY <1>3, <2>2 DEF CashGiven, Refunds
  <2> QED BY <1>1, <2>1, <2>3, CashFrame
<1>6. ASSUME NEW e \in Date \ {DateOf(h)} PROVE Figures(e)' = Figures(e)
  <2>1. refund[f].date # e /\ refund'[f].date # e
    BY <1>1, <1>3, DateAssumption DEF NoRow, RefundRow
  <2>2. ShiftsOn(e)' = ShiftsOn(e)
    BY <1>1 DEF ShiftsOn
  <2>3. \A k \in ShiftsOn(e) : k \in Shift \ {h}
    <3>1. ASSUME NEW k \in ShiftsOn(e), k = h PROVE FALSE
      BY <3>1, RowsAssumption DEF ShiftsOn, DateOf
    <3> QED BY <3>1 DEF ShiftsOn
  <2>4. \A k \in ShiftsOn(e) : ClosingCash(k)' = ClosingCash(k)
    BY <1>1, <1>5, <2>3 DEF ClosingCash
  <2> QED BY <1>3, <1>4, <2>1, <2>2, <2>4, FiguresFrame
<1> QED BY <1>5, <1>6

LEMMA AddCashMovementFrame ==
  ASSUME TypeOK, NEW h \in Shift, NEW m \in Int, AddCashMovement(h, m)
  PROVE  /\ \A k \in Shift \ {h} : ExpectedCash(k)' = ExpectedCash(k)
         /\ \A e \in Date \ {shift[h].date} : Figures(e)' = Figures(e)
<1>1. drawer' = [drawer EXCEPT ![h] = @ + m] /\ UNCHANGED <<shift, sale, refund>>
  BY DEF AddCashMovement, StoreMovement
<1>2. \A k \in Shift \ {h} : drawer'[k] = drawer[k]
  BY <1>1 DEF TypeOK
<1>3. ASSUME NEW k \in Shift \ {h} PROVE ExpectedCash(k)' = ExpectedCash(k)
  BY <1>1, <1>2, CashFrame DEF CashTaken, CashGiven, Sold, Refunds
<1>4. ASSUME NEW e \in Date \ {shift[h].date} PROVE Figures(e)' = Figures(e)
  <2>1. ShiftsOn(e)' = ShiftsOn(e) /\ h \notin ShiftsOn(e)
    BY <1>1 DEF ShiftsOn
  <2>2. \A k \in ShiftsOn(e) : ClosingCash(k)' = ClosingCash(k)
    BY <1>1, <1>3, <2>1 DEF ClosingCash, ShiftsOn
  <2> QED BY <1>1, <2>1, <2>2, FiguresFrame
<1> QED BY <1>3, <1>4

\* Counting a shift changes no figure: its cash is what it was expected to be.
LEMMA CloseShiftFrame ==
  ASSUME TypeOK, NEW h \in Shift, CloseShift(h)
  PROVE  /\ \A k \in Shift : ExpectedCash(k)' = ExpectedCash(k)
         /\ \A e \in Date : Figures(e)' = Figures(e)
         /\ shift'[h].status = "closed" /\ shift'[h].expected = ExpectedCash(h)
         /\ \A k \in Shift \ {h} : shift'[k] = shift[k]
<1>1. /\ shift[h] \in ShiftRows /\ ExpectedCash(h) \in Int
      /\ shift' = [shift EXCEPT ![h].status = "closed", ![h].expected = ExpectedCash(h)]
      /\ UNCHANGED <<drawer, sale, refund>>
  BY CloseShiftTyped DEF CloseShift, StoreClosedShift
<1>2. /\ shift'[h].status = "closed" /\ shift'[h].expected = ExpectedCash(h)
      /\ shift'[h].date = shift[h].date /\ shift'[h].start = shift[h].start
      /\ \A k \in Shift \ {h} : shift'[k] = shift[k]
  BY <1>1 DEF TypeOK, ShiftRows
<1>3. shift[h].status = "open"
  BY DEF CloseShift, MayCloseShift, OpenShifts
<1>4. ASSUME NEW k \in Shift PROVE ExpectedCash(k)' = ExpectedCash(k)
  <2>1. shift'[k].start = shift[k].start
    BY <1>2
  <2> QED BY <1>1, <2>1, CashFrame DEF CashTaken, CashGiven, Sold, Refunds
<1>5. ASSUME NEW e \in Date PROVE Figures(e)' = Figures(e)
  <2>1. ShiftsOn(e)' = ShiftsOn(e)
    BY <1>2, <1>3 DEF ShiftsOn
  <2>2. ClosingCash(h)' = ExpectedCash(h) /\ ClosingCash(h) = ExpectedCash(h)
    BY <1>2, <1>3, <1>4 DEF ClosingCash
  <2>3. \A k \in ShiftsOn(e) : ClosingCash(k)' = ClosingCash(k)
    BY <1>2, <1>4, <2>2 DEF ClosingCash, ShiftsOn
  <2> QED BY <1>1, <2>1, <2>3, FiguresFrame
<1> QED BY <1>2, <1>4, <1>5

LEMMA CorrectSaleSellerFrame ==
  ASSUME TypeOK, NEW x \in Sale, NEW s \in Seller, CorrectSaleSeller(x, s)
  PROVE  /\ \A k \in Shift : ExpectedCash(k)' = ExpectedCash(k)
         /\ \A e \in Date \ {sale[x].date} : Figures(e)' = Figures(e)
<1>1. /\ sale[x] \in SaleRows /\ sale' = [sale EXCEPT ![x].seller = s]
      /\ UNCHANGED <<shift, drawer, refund>>
  BY CorrectSaleSellerTyped DEF CorrectSaleSeller, StoreSeller
<1>2. /\ \A y \in Sale : /\ sale'[y].date = sale[y].date
                         /\ sale'[y].shift = sale[y].shift
                         /\ sale'[y].cash = sale[y].cash
      /\ \A y \in Sale \ {x} : sale'[y] = sale[y]
  BY <1>1 DEF TypeOK, SaleRows
<1>3. ASSUME NEW k \in Shift PROVE ExpectedCash(k)' = ExpectedCash(k)
  BY <1>1, <1>2, CashFrame DEF CashTaken, CashGiven, Sold, Refunds
<1>4. ASSUME NEW e \in Date \ {sale[x].date} PROVE Figures(e)' = Figures(e)
  <2>1. ShiftsOn(e)' = ShiftsOn(e)
    BY <1>1 DEF ShiftsOn
  <2>2. \A k \in ShiftsOn(e) : ClosingCash(k)' = ClosingCash(k)
    BY <1>1, <1>3 DEF ClosingCash, ShiftsOn
  <2> QED BY <1>1, <1>2, <2>1, <2>2, FiguresFrame
<1> QED BY <1>3, <1>4

\* Steps that touch no row of a shift, its movements, sales or refunds.
RowsStand == UNCHANGED <<shift, drawer, sale, refund>>

LEMMA RowsStandFrame ==
  ASSUME RowsStand
  PROVE  /\ \A k \in Shift : ExpectedCash(k)' = ExpectedCash(k)
         /\ \A e \in Date : Figures(e)' = Figures(e)
<1>1. ASSUME NEW k \in Shift PROVE ExpectedCash(k)' = ExpectedCash(k)
  BY CashFrame DEF RowsStand, CashTaken, CashGiven, Sold, Refunds
<1>2. ASSUME NEW e \in Date PROVE Figures(e)' = Figures(e)
  BY <1>1, FiguresFrame DEF RowsStand, ClosingCash, ShiftsOn
<1> QED BY <1>1, <1>2

LEMMA RowsStandSteps ==
  /\ NextDay => RowsStand
  /\ \A d \in Date : CreateDailyClosing(d) => RowsStand
  /\ \A d \in Date : ReopenDailyClosing(d) => RowsStand
  /\ UNCHANGED vars => RowsStand
BY DEF RowsStand, NextDay, CreateDailyClosing, StoreClosing, ReopenDailyClosing,
       StoreReopened, vars
-----------------------------------------------------------------------------
(* The day book.                                                           *)

LEMMA LatestStep ==
  ASSUME TypeOK, SnapshotsTyped, VersionIsLatest, [Next]_vars
  PROVE  VersionIsLatest'
<1>1. ASSUME NEW d \in Date, CreateDailyClosing(d) PROVE VersionIsLatest'
  <2>1. /\ version' = [version EXCEPT ![d] = version[d] + 1]
        /\ snapshots' = [snapshots EXCEPT ![d] = Append(@, Snapshot(d, version[d] + 1))]
    BY <1>1, CreateDailyClosingTyped
  <2>2. snapshots[d] \in Seq(SnapshotRows) /\ version[d] = Len(snapshots[d])
    BY DEF SnapshotsTyped, VersionIsLatest
  <2>3. Len(Append(snapshots[d], Snapshot(d, version[d] + 1))) = version[d] + 1
    BY <2>2
  <2> QED BY <2>1, <2>3 DEF VersionIsLatest, TypeOK
<1>2. ASSUME UNCHANGED <<version, snapshots>> PROVE VersionIsLatest'
  BY <1>2 DEF VersionIsLatest
<1>3. /\ NextDay => UNCHANGED <<version, snapshots>>
      /\ \A h, s, g, d, a : OpenShift(h, s, g, d, a) => UNCHANGED <<version, snapshots>>
      /\ \A x, h, s, t, c : CreateSale(x, h, s, t, c) => UNCHANGED <<version, snapshots>>
  BY DEF NextDay, OpenShift, StoreShift, CreateSale, StoreSale
<1>4. /\ \A f, x, h, s, a, c :
            AddRefund(f, x, h, s, a, c) => UNCHANGED <<version, snapshots>>
      /\ \A h, m : AddCashMovement(h, m) => UNCHANGED <<version, snapshots>>
      /\ \A h : CloseShift(h) => UNCHANGED <<version, snapshots>>
  BY DEF AddRefund, StoreRefund, AddCashMovement, StoreMovement, CloseShift,
         StoreClosedShift
<1>5. /\ \A x, s : CorrectSaleSeller(x, s) => UNCHANGED <<version, snapshots>>
      /\ \A d : ReopenDailyClosing(d) => UNCHANGED <<version, snapshots>>
      /\ UNCHANGED vars => UNCHANGED <<version, snapshots>>
  BY DEF CorrectSaleSeller, StoreSeller, ReopenDailyClosing, StoreReopened, vars
<1> QED BY <1>1, <1>2, <1>3, <1>4, <1>5 DEF Next

\* A request that changes the figures of an open date only records there.
LEMMA RecordsOn ==
  ASSUME NEW d \in Date, DateOpen(d), UNCHANGED <<closing, snapshots>>,
         \A e \in Date \ {d} : Figures(e)' = Figures(e)
  PROVE  Book!Next
<1>1. \A e \in Date \ {d} : [y \in Date |-> Figures(y)'][e] = [y \in Date |-> Figures(y)][e]
  OBVIOUS
<1>2. Book!Record(d)
  BY <1>1 DEF Book!Record, Book!Closed, DateOpen
<1> QED BY <1>2 DEF Book!Next

\* Each step of the business day is a step of the day book, or changes nothing there.
LEMMA BookStep ==
  ASSUME TypeOK, SnapshotsTyped, VersionIsLatest, [Next]_vars
  PROVE  [Book!Next]_Book!vars
<1>1. ASSUME UNCHANGED <<closing, snapshots>>,
             \A e \in Date : Figures(e)' = Figures(e)
      PROVE  UNCHANGED Book!vars
  BY <1>1 DEF Book!vars
<1>2. ASSUME NEW h \in Shift \cup {NoShift}, Usable(h) PROVE DateOf(h) \in Date
  BY <1>2, DateOfDate
<1>3. CASE NextDay
  BY <1>3, <1>1, RowsStandSteps, RowsStandFrame DEF NextDay
<1>4. ASSUME NEW h \in Shift, NEW s \in Seller, NEW g \in Register,
             NEW d \in Date, NEW a \in StartingCash, OpenShift(h, s, g, d, a)
      PROVE  Book!Next
  <2>1. DateOpen(d) /\ UNCHANGED <<closing, snapshots>>
    BY <1>4 DEF OpenShift, MayOpenShift, StoreShift
  <2>2. \A e \in Date \ {d} : Figures(e)' = Figures(e)
    BY <1>4, OpenShiftFrame
  <2> QED BY <2>1, <2>2, RecordsOn
<1>5. ASSUME NEW x \in Sale, NEW h \in Shift \cup {NoShift}, NEW s \in Seller,
             NEW t \in Price, NEW c \in 0..t, CreateSale(x, h, s, t, c)
      PROVE  Book!Next
  <2>1. /\ Usable(h) /\ DateOpen(DateOf(h))
        /\ UNCHANGED <<closing, snapshots>>
    BY <1>5 DEF CreateSale, MaySell, StoreSale
  <2>2. \A e \in Date \ {DateOf(h)} : Figures(e)' = Figures(e)
    BY <1>5, CreateSaleFrame
  <2> QED BY <2>1, <2>2, <1>2, RecordsOn
<1>6. ASSUME NEW f \in Refund, NEW x \in Sale, NEW h \in Shift \cup {NoShift},
             NEW s \in Seller, NEW a \in Amount, NEW c \in {0, a},
             AddRefund(f, x, h, s, a, c)
      PROVE  Book!Next
  <2>1. /\ Usable(h) /\ DateOpen(DateOf(h))
        /\ UNCHANGED <<closing, snapshots>>
    BY <1>6 DEF AddRefund, MayRefund, StoreRefund
  <2>2. \A e \in Date \ {DateOf(h)} : Figures(e)' = Figures(e)
    BY <1>6, AddRefundFrame
  <2> QED BY <2>1, <2>2, <1>2, RecordsOn
<1>7. ASSUME NEW h \in Shift, NEW m \in Int, AddCashMovement(h, m)
      PROVE  Book!Next
  <2>1. /\ h \in OpenShifts /\ DateOpen(shift[h].date)
        /\ UNCHANGED <<closing, snapshots>>
    BY <1>7 DEF AddCashMovement, MayMoveCash, StoreMovement
  <2>2. shift[h].date \in Date
    BY <2>1, ShiftKinds DEF OpenShifts, ShiftRows
  <2> QED BY <1>7, <2>1, <2>2, AddCashMovementFrame, RecordsOn
<1>8. ASSUME NEW h \in Shift, CloseShift(h) PROVE UNCHANGED Book!vars
  BY <1>8, <1>1, CloseShiftFrame DEF CloseShift, StoreClosedShift
<1>9. ASSUME NEW x \in Sale, NEW s \in Seller, CorrectSaleSeller(x, s)
      PROVE  Book!Next
  <2>1. DateOpen(sale[x].date) /\ UNCHANGED <<closing, snapshots>>
    BY <1>9 DEF CorrectSaleSeller, MayCorrectSeller, StoreSeller
  <2>2. sale[x].date \in Date
    BY <1>9, CorrectSaleSellerTyped DEF SaleRows
  <2> QED BY <1>9, <2>1, <2>2, CorrectSaleSellerFrame, RecordsOn
<1>10. ASSUME NEW d \in Date, CreateDailyClosing(d) PROVE Book!Next
  <2>1. \A e \in Date : Figures(e)' = Figures(e)
    BY <1>10, RowsStandSteps, RowsStandFrame
  <2>2. [e \in Date |-> Figures(e)'] = [e \in Date |-> Figures(e)]
    BY <2>1
  <2>3. /\ closing' = [closing EXCEPT ![d] = "closed"] /\ closing[d] # "closed"
        /\ snapshots' = [snapshots EXCEPT ![d] = Append(@, Snapshot(d, version[d] + 1))]
    BY <1>10, CreateDailyClosingTyped
       DEF CreateDailyClosing, StoreClosing, MayCloseDay, DateOpen
  <2>4. Snapshot(d, version[d] + 1)
          = [version |-> Len(snapshots[d]) + 1,
             figures |-> [e \in Date |-> Figures(e)][d]]
    BY DEF Snapshot, VersionIsLatest
  <2>5. Book!Close(d)
    BY <2>2, <2>3, <2>4 DEF Book!Close, Book!Closed
  <2> QED BY <2>5 DEF Book!Next
<1>11. ASSUME NEW d \in Date, ReopenDailyClosing(d) PROVE Book!Next
  <2>1. [e \in Date |-> Figures(e)'] = [e \in Date |-> Figures(e)]
    BY <1>11, RowsStandSteps, RowsStandFrame
  <2>2. Book!Reopen(d)
    BY <1>11, <2>1 DEF ReopenDailyClosing, MayReopenDay, StoreReopened,
                       Book!Reopen, Book!Closed
  <2> QED BY <2>2 DEF Book!Next
<1>12. CASE UNCHANGED vars
  BY <1>12, <1>1, RowsStandSteps, RowsStandFrame DEF vars
<1>13. \A a \in Amount : a \in Int /\ -a \in Int
  BY AmountAssumption
<1> QED BY <1>3, <1>4, <1>5, <1>6, <1>7, <1>8, <1>9, <1>10, <1>11, <1>12, <1>13 DEF Next

\* The current version of a closing is the last snapshot taken.
THEOREM VersionStaysLatest == Spec => []VersionIsLatest
<1>1. Init => TypeOK /\ SnapshotsTyped /\ VersionIsLatest
  BY InitTyped DEF Init, VersionIsLatest
<1>2. TypeOK /\ SnapshotsTyped /\ VersionIsLatest /\ [Next]_vars
        => (TypeOK /\ SnapshotsTyped /\ VersionIsLatest)'
  BY TypedStep, LatestStep
<1> QED BY <1>1, <1>2, PTL DEF Spec

\* The business day implements the day book: whatever the requests, the figures
\* of a closed date stand still and are those of its latest snapshot, and no
\* snapshot taken is ever touched.
THEOREM DayBookKept == Spec => BookKept
<1>1. Init => TypeOK /\ SnapshotsTyped /\ VersionIsLatest
  BY InitTyped DEF Init, VersionIsLatest
<1>2. TypeOK /\ SnapshotsTyped /\ VersionIsLatest /\ [Next]_vars
        => (TypeOK /\ SnapshotsTyped /\ VersionIsLatest)'
  BY TypedStep, LatestStep
<1>3. Init => Book!Init
  BY DEF Init, Book!Init
<1>4. TypeOK /\ SnapshotsTyped /\ VersionIsLatest /\ [Next]_vars
        => [Book!Next]_Book!vars
  BY BookStep
<1> QED BY <1>1, <1>2, <1>3, <1>4, PTL DEF Spec, BookKept, Book!Spec
-----------------------------------------------------------------------------
(* Shifts.                                                                 *)

LEMMA OneOpenStep ==
  ASSUME TypeOK, OneOpenShift, [Next]_vars
  PROVE  OneOpenShift'
<1>1. ASSUME UNCHANGED shift PROVE OneOpenShift'
  BY <1>1 DEF OneOpenShift, OpenShifts
<1>2. ASSUME NEW h \in Shift, NEW s \in Seller, NEW g \in Register,
             NEW d \in Date, NEW a \in StartingCash, OpenShift(h, s, g, d, a)
      PROVE  OneOpenShift'
  <2>1. /\ shift'[h] = ShiftRow(s, g, d, a) /\ shift[h] = Unopened
        /\ \A k \in Shift \ {h} : shift'[k] = shift[k]
    BY <1>2, OpenShiftFrame
  <2>2. \A k \in OpenShifts : shift[k].seller # s /\ shift[k].register # g
    BY <1>2 DEF OpenShift, MayOpenShift
  <2>3. shift'[h].seller = s /\ shift'[h].register = g
    BY <2>1 DEF ShiftRow
  <2>4. \A k \in OpenShifts' :
          k # h => /\ k \in OpenShifts
                   /\ shift'[k].seller = shift[k].seller
                   /\ shift'[k].register = shift[k].register
    BY <2>1 DEF OpenShifts
  <2> QED BY <2>2, <2>3, <2>4 DEF OneOpenShift
<1>3. ASSUME NEW h \in Shift, CloseShift(h) PROVE OneOpenShift'
  <2>1. /\ shift'[h].status = "closed"
        /\ \A k \in Shift \ {h} : shift'[k] = shift[k]
    BY <1>3, CloseShiftFrame
  <2>2. \A k \in OpenShifts' : k \in OpenShifts /\ shift'[k] = shift[k]
    BY <2>1 DEF OpenShifts
  <2> QED BY <2>2 DEF OneOpenShift
<1>4. /\ NextDay => UNCHANGED shift
      /\ \A x, h, s, t, c : CreateSale(x, h, s, t, c) => UNCHANGED shift
      /\ \A f, x, h, s, a, c : AddRefund(f, x, h, s, a, c) => UNCHANGED shift
      /\ \A h, m : AddCashMovement(h, m) => UNCHANGED shift
  BY DEF NextDay, CreateSale, StoreSale, AddRefund, StoreRefund,
         AddCashMovement, StoreMovement
<1>5. /\ \A x, s : CorrectSaleSeller(x, s) => UNCHANGED shift
      /\ \A d : CreateDailyClosing(d) => UNCHANGED shift
      /\ \A d : ReopenDailyClosing(d) => UNCHANGED shift
      /\ UNCHANGED vars => UNCHANGED shift
  BY DEF CorrectSaleSeller, StoreSeller, CreateDailyClosing, StoreClosing,
         ReopenDailyClosing, StoreReopened, vars
<1> QED BY <1>1, <1>2, <1>3, <1>4, <1>5 DEF Next

\* A seller and a register have at most one open shift each.
THEOREM OneShiftAtATime == Spec => []OneOpenShift
<1>1. Init => TypeOK /\ SnapshotsTyped /\ OneOpenShift
  <2>1. Init => OneOpenShift
    BY DEF Init, OneOpenShift, OpenShifts, Unopened
  <2> QED BY <2>1, InitTyped
<1>2. TypeOK /\ SnapshotsTyped /\ OneOpenShift /\ [Next]_vars
        => (TypeOK /\ SnapshotsTyped /\ OneOpenShift)'
  BY TypedStep, OneOpenStep
<1> QED BY <1>1, <1>2, PTL DEF Spec

\* A request that leaves the row and the cash of every closed shift alone.
LEMMA CountedFrame ==
  ASSUME ClosedShiftCounted,
         \A k \in Shift : shift'[k].status = "closed" =>
            /\ shift'[k] = shift[k] /\ ExpectedCash(k)' = ExpectedCash(k)
  PROVE  ClosedShiftCounted'
BY DEF ClosedShiftCounted

LEMMA CountedStep ==
  ASSUME TypeOK, ClosedShiftCounted, [Next]_vars
  PROVE  ClosedShiftCounted'
<1>1. ASSUME RowsStand PROVE ClosedShiftCounted'
  BY <1>1, RowsStandFrame, CountedFrame DEF RowsStand
<1>2. ASSUME NEW h \in Shift, NEW s \in Seller, NEW g \in Register,
             NEW d \in Date, NEW a \in StartingCash, OpenShift(h, s, g, d, a)
      PROVE  ClosedShiftCounted'
  <2>1. ShiftRow(s, g, d, a).status # "closed"
    BY DEF ShiftRow
  <2> QED BY <1>2, <2>1, OpenShiftFrame, CountedFrame
<1>3. ASSUME NEW h \in Shift \cup {NoShift}, Usable(h), UNCHANGED shift,
             \A k \in Shift \ {h} : ExpectedCash(k)' = ExpectedCash(k)
      PROVE  ClosedShiftCounted'
  <2>1. ASSUME NEW k \in Shift, shift[k].status = "closed" PROVE k # h
    BY <1>3, <2>1, RowsAssumption DEF Usable, OpenShifts
  <2> QED BY <1>3, <2>1, CountedFrame
<1>4. ASSUME NEW x \in Sale, NEW h \in Shift \cup {NoShift}, NEW s \in Seller,
             NEW t \in Price, NEW c \in 0..t, CreateSale(x, h, s, t, c)
      PROVE  ClosedShiftCounted'
  <2>1. Usable(h) /\ UNCHANGED shift
    BY <1>4 DEF CreateSale, MaySell, StoreSale
  <2> QED BY <1>3, <1>4, <2>1, CreateSaleFrame
<1>5. ASSUME NEW f \in Refund, NEW x \in Sale, NEW h \in Shift \cup {NoShift},
             NEW s \in Seller, NEW a \in Amount, NEW c \in {0, a},
             AddRefund(f, x, h, s, a, c)
      PROVE  ClosedShiftCounted'
  <2>1. Usable(h) /\ UNCHANGED shift
    BY <1>5 DEF AddRefund, MayRefund, StoreRefund
  <2> QED BY <1>3, <1>5, <2>1, AddRefundFrame
<1>6. ASSUME NEW h \in Shift, NEW m \in Int, AddCashMovement(h, m)
      PROVE  ClosedShiftCounted'
  <2>1. Usable(h) /\ UNCHANGED shift
    BY <1>6 DEF AddCashMovement, MayMoveCash, StoreMovement, Usable
  <2> QED BY <1>3, <1>6, <2>1, AddCashMovementFrame
<1>7. ASSUME NEW h \in Shift, CloseShift(h) PROVE ClosedShiftCounted'
  <2>1. /\ shift'[h].expected = ExpectedCash(h)
        /\ \A k \in Shift \ {h} : shift'[k] = shift[k]
    BY <1>7, CloseShiftFrame
  <2> QED BY <1>7, <2>1, CloseShiftFrame DEF ClosedShiftCounted
<1>8. ASSUME NEW x \in Sale, NEW s \in Seller, CorrectSaleSeller(x, s)
      PROVE  ClosedShiftCounted'
  <2>1. UNCHANGED shift
    BY <1>8 DEF CorrectSaleSeller, StoreSeller
  <2> QED BY <1>8, <2>1, CorrectSaleSellerFrame, CountedFrame
<1>9. \A a \in Amount : a \in Int /\ -a \in Int
  BY AmountAssumption
<1> QED BY <1>1, <1>2, <1>4, <1>5, <1>6, <1>7, <1>8, <1>9, RowsStandSteps DEF Next

\* Once a shift is counted, the cash it was counted against never changes.
THEOREM CountedCashStands == Spec => []ClosedShiftCounted
<1>1. Init => TypeOK /\ SnapshotsTyped /\ ClosedShiftCounted
  <2>1. Init => ClosedShiftCounted
    BY DEF Init, ClosedShiftCounted, Unopened
  <2> QED BY <2>1, InitTyped
<1>2. TypeOK /\ SnapshotsTyped /\ ClosedShiftCounted /\ [Next]_vars
        => (TypeOK /\ SnapshotsTyped /\ ClosedShiftCounted)'
  BY TypedStep, CountedStep
<1> QED BY <1>1, <1>2, PTL DEF Spec

LEMMA DayAfterShiftsStep ==
  ASSUME TypeOK, ShiftRequired, DayClosedAfterItsShifts, [Next]_vars
  PROVE  DayClosedAfterItsShifts'
<1>1. ASSUME \A k \in OpenShifts' : k \in OpenShifts /\ shift'[k].date = shift[k].date,
             UNCHANGED closing
      PROVE  DayClosedAfterItsShifts'
  BY <1>1 DEF DayClosedAfterItsShifts, DateOpen
<1>2. ASSUME UNCHANGED <<shift, closing>> PROVE DayClosedAfterItsShifts'
  BY <1>2 DEF DayClosedAfterItsShifts, DateOpen, OpenShifts
<1>3. ASSUME NEW h \in Shift, NEW s \in Seller, NEW g \in Register,
             NEW d \in Date, NEW a \in StartingCash, OpenShift(h, s, g, d, a)
      PROVE  DayClosedAfterItsShifts'
  <2>1. /\ shift'[h] = ShiftRow(s, g, d, a)
        /\ \A k \in Shift \ {h} : shift'[k] = shift[k]
    BY <1>3, OpenShiftFrame
  <2>2. DateOpen(d) /\ UNCHANGED closing
    BY <1>3 DEF OpenShift, MayOpenShift, StoreShift
  <2>3. shift'[h].date = d
    BY <2>1 DEF ShiftRow
  <2> QED BY <2>1, <2>2, <2>3 DEF DayClosedAfterItsShifts, OpenShifts, DateOpen
<1>4. ASSUME NEW h \in Shift, CloseShift(h) PROVE DayClosedAfterItsShifts'
  <2>1. /\ shift'[h].status = "closed"
        /\ \A k \in Shift \ {h} : shift'[k] = shift[k]
    BY <1>4, CloseShiftFrame
  <2>2. UNCHANGED closing
    BY <1>4 DEF CloseShift, StoreClosedShift
  <2> QED BY <1>1, <2>1, <2>2 DEF OpenShifts
<1>5. ASSUME NEW d \in Date, CreateDailyClosing(d) PROVE DayClosedAfterItsShifts'
  <2>1. /\ \A h \in OpenShifts : shift[h].date # d
        /\ UNCHANGED shift /\ closing' = [closing EXCEPT ![d] = "closed"]
    BY <1>5 DEF CreateDailyClosing, MayCloseDay, StoreClosing
  <2> QED BY <2>1 DEF DayClosedAfterItsShifts, OpenShifts, DateOpen, TypeOK
<1>6. ASSUME NEW d \in Date, ReopenDailyClosing(d) PROVE DayClosedAfterItsShifts'
  <2>1. UNCHANGED shift /\ closing' = [closing EXCEPT ![d] = "reopened"]
    BY <1>6 DEF ReopenDailyClosing, StoreReopened
  <2> QED BY <2>1 DEF DayClosedAfterItsShifts, OpenShifts, DateOpen, TypeOK
<1>7. /\ NextDay => UNCHANGED <<shift, closing>>
      /\ \A x, h, s, t, c : CreateSale(x, h, s, t, c) => UNCHANGED <<shift, closing>>
      /\ \A f, x, h, s, a, c :
            AddRefund(f, x, h, s, a, c) => UNCHANGED <<shift, closing>>
  BY DEF NextDay, CreateSale, StoreSale, AddRefund, StoreRefund
<1>8. /\ \A h, m : AddCashMovement(h, m) => UNCHANGED <<shift, closing>>
      /\ \A x, s : CorrectSaleSeller(x, s) => UNCHANGED <<shift, closing>>
      /\ UNCHANGED vars => UNCHANGED <<shift, closing>>
  BY DEF AddCashMovement, StoreMovement, CorrectSaleSeller, StoreSeller, vars
<1> QED BY <1>2, <1>3, <1>4, <1>5, <1>6, <1>7, <1>8 DEF Next

\* Where every sale needs a shift, no date is closed over an open shift.
THEOREM ShiftsEndBeforeTheirDay ==
  ASSUME ShiftRequired
  PROVE  Spec => []DayClosedAfterItsShifts
<1>1. Init => TypeOK /\ SnapshotsTyped /\ DayClosedAfterItsShifts
  <2>1. Init => DayClosedAfterItsShifts
    BY DEF Init, DayClosedAfterItsShifts, OpenShifts, Unopened
  <2> QED BY <2>1, InitTyped
<1>2. TypeOK /\ SnapshotsTyped /\ DayClosedAfterItsShifts /\ [Next]_vars
        => (TypeOK /\ SnapshotsTyped /\ DayClosedAfterItsShifts)'
  BY TypedStep, DayAfterShiftsStep
<1> QED BY <1>1, <1>2, PTL DEF Spec
-----------------------------------------------------------------------------
(* Refunds.                                                                *)

LEMMA CreateSaleRefunds ==
  ASSUME TypeOK, RefundsOfSold, RefundsWithinTotal, NEW x \in Sale,
         NEW h \in Shift \cup {NoShift}, NEW s \in Seller,
         NEW t \in Price, NEW c \in 0..t, CreateSale(x, h, s, t, c)
  PROVE  RefundsOfSold' /\ RefundsWithinTotal'
<1>1. /\ sale[x] = NoRow /\ sale' = [sale EXCEPT ![x] = SaleRow(h, s, t, c)]
      /\ UNCHANGED refund
  BY DEF CreateSale, StoreSale
<1>2. /\ sale'[x] = SaleRow(h, s, t, c) /\ SaleRow(h, s, t, c) \in SaleRows
      /\ \A y \in Sale \ {x} : sale'[y] = sale[y]
  BY <1>1, CreateSaleTyped DEF TypeOK
<1>3. x \notin Sold /\ x \in Sold' /\ \A y \in Sale \ {x} : y \in Sold' <=> y \in Sold
  BY <1>1, <1>2, DateAssumption DEF Sold, NoRow, SaleRows
<1>4. RefundsOfSold'
  BY <1>1, <1>3 DEF RefundsOfSold, Refunds, Sold
<1>5. RefundedOf(x) = 0
  <2> DEFINE r == [f \in Refund |-> IF f \in Refunds /\ refund[f].sale = x
                                    THEN refund[f].amount ELSE 0]
  <2>1. \A f \in Refund : r[f] = 0
    BY <1>3 DEF RefundsOfSold
  <2> QED BY <2>1, TotalZero DEF RefundedOf
<1>6. \A y \in Sale : RefundedOf(y)' = RefundedOf(y)
  BY <1>1 DEF RefundedOf, Refunds
<1>7. sale'[x].total \in Nat /\ sale'[x].status = "completed"
  BY <1>2, AmountAssumption DEF SaleRow
<1>8. RefundsWithinTotal'
  BY <1>2, <1>3, <1>5, <1>6, <1>7 DEF RefundsWithinTotal, Sold
<1> QED BY <1>4, <1>8

LEMMA AddRefundRefunds ==
  ASSUME TypeOK, RefundsOfSold, RefundsWithinTotal, NEW f \in Refund, NEW x \in Sale,
         NEW h \in Shift \cup {NoShift}, NEW s \in Seller, NEW a \in Amount,
         NEW c \in {0, a}, AddRefund(f, x, h, s, a, c)
  PROVE  RefundsOfSold' /\ RefundsWithinTotal'
<1>1. /\ refund[f] = NoRow /\ refund' = [refund EXCEPT ![f] = RefundRow(x, h, s, a, c)]
      /\ x \in Sold /\ a <= sale[x].total - RefundedOf(x)
  BY DEF AddRefund, StoreRefund, MayRefund
<1>2. /\ sale' = [sale EXCEPT ![x].status = StatusAfter(x, a)]
      /\ RefundRow(x, h, s, a, c) \in RefundRows
  BY AddRefundTyped
<1>3. /\ refund'[f] = RefundRow(x, h, s, a, c)
      /\ \A g \in Refund \ {f} : refund'[g] = refund[g]
  BY <1>1 DEF TypeOK
<1>4. f \notin Refunds /\ f \in Refunds' /\ \A g \in Refund \ {f} : g \in Refunds' <=> g \in Refunds
  BY <1>1, <1>2, <1>3, DateAssumption DEF Refunds, NoRow, RefundRows
<1>5. sale[x] \in SaleRows
  BY <1>1, SaleKinds DEF Sold
<1>6. /\ \A y \in Sale : sale'[y].date = sale[y].date /\ sale'[y].total = sale[y].total
      /\ \A y \in Sale \ {x} : sale'[y] = sale[y]
      /\ sale'[x].status = StatusAfter(x, a)
  BY <1>2, <1>5 DEF TypeOK, SaleRows
<1>7. Sold' = Sold
  BY <1>6 DEF Sold
<1>8. a \in Nat /\ a > 0
  BY AmountAssumption
<1>9. refund'[f].sale = x /\ refund'[f].amount = a
  BY <1>3 DEF RefundRow
<1>10. RefundsOfSold'
  <2>1. ASSUME NEW g \in Refund, g \in Refunds'
        PROVE  refund'[g].sale \in Sold /\ refund'[g].amount > 0
    <3>1. CASE g = f
      BY <3>1, <1>1, <1>8, <1>9
    <3>2. CASE g # f
      BY <3>2, <2>1, <1>3, <1>4 DEF RefundsOfSold
    <3> QED BY <3>1, <3>2
  <2> QED BY <2>1, <1>7 DEF RefundsOfSold, Refunds
<1> DEFINE r(y) == [g \in Refund |-> IF g \in Refunds /\ refund[g].sale = y
                                     THEN refund[g].amount ELSE 0]
           q(y) == [g \in Refund |-> IF g \in Refunds' /\ refund'[g].sale = y
                                     THEN refund'[g].amount ELSE 0]
<1>11. \A y \in Sale : RefundedOf(y) = Total(Refund, r(y))
  BY DEF RefundedOf
<1>12. \A y \in Sale : RefundedOf(y)' = Total(Refund, q(y))
  BY DEF RefundedOf
<1>13. RefundedOf(x)' = RefundedOf(x) + a
  <2> DEFINE r0 == r(x)
             q0 == q(x)
  <2>1. \A g \in Refund : r0[g] \in Nat
    BY Summands
  <2>2. q0[f] = r0[f] + a
    BY <1>4, <1>8, <1>9
  <2>3. \A g \in Refund \ {f} : q0[g] = r0[g]
    BY <1>3, <1>4
  <2> HIDE DEF r0, q0
  <2>4. Total(Refund, q0) = Total(Refund, r0) + a
    BY <2>1, <2>2, <2>3, <1>8, TotalGrowsAt, RowsAssumption
  <2> QED BY <2>4, <1>11, <1>12 DEF r0, q0
<1>14. ASSUME NEW y \in Sale \ {x} PROVE RefundedOf(y)' = RefundedOf(y)
  <2> DEFINE r0 == r(y)
             q0 == q(y)
  <2>1. \A g \in Refund : q0[g] = r0[g]
    BY <1>3, <1>4, <1>9
  <2> HIDE DEF r0, q0
  <2>2. Total(Refund, q0) = Total(Refund, r0)
    BY <2>1, TotalCongruence
  <2> QED BY <2>2, <1>11, <1>12 DEF r0, q0
<1>15. RefundedOf(x) \in Nat /\ sale[x].total \in Nat
  BY <1>5, RefundedOfNat DEF SaleRows
<1>16. /\ RefundedOf(x)' <= sale'[x].total
       /\ sale'[x].status = IF RefundedOf(x)' = 0 THEN "completed"
                            ELSE IF RefundedOf(x)' < sale'[x].total
                                 THEN "partially_refunded" ELSE "refunded"
  BY <1>1, <1>6, <1>8, <1>13, <1>15 DEF StatusAfter
<1>17. ASSUME NEW y \in Sold, y # x
       PROVE  /\ RefundedOf(y)' <= sale'[y].total
              /\ sale'[y].status = IF RefundedOf(y)' = 0 THEN "completed"
                                   ELSE IF RefundedOf(y)' < sale'[y].total
                                        THEN "partially_refunded" ELSE "refunded"
  BY <1>6, <1>14, <1>17 DEF RefundsWithinTotal, Sold
<1>18. RefundsWithinTotal'
  BY <1>7, <1>16, <1>17 DEF RefundsWithinTotal
<1> QED BY <1>10, <1>18

LEMMA RefundsStep ==
  ASSUME TypeOK, RefundsOfSold, RefundsWithinTotal, [Next]_vars
  PROVE  RefundsOfSold' /\ RefundsWithinTotal'
<1>1. ASSUME UNCHANGED <<sale, refund>> PROVE RefundsOfSold' /\ RefundsWithinTotal'
  BY <1>1 DEF RefundsOfSold, RefundsWithinTotal, Sold, Refunds, RefundedOf
<1>2. ASSUME NEW x \in Sale, NEW s \in Seller, CorrectSaleSeller(x, s)
      PROVE  RefundsOfSold' /\ RefundsWithinTotal'
  <2>1. /\ sale[x] \in SaleRows /\ sale' = [sale EXCEPT ![x].seller = s]
        /\ UNCHANGED refund
    BY <1>2, CorrectSaleSellerTyped DEF CorrectSaleSeller, StoreSeller
  <2>2. \A y \in Sale : /\ sale'[y].date = sale[y].date
                        /\ sale'[y].total = sale[y].total
                        /\ sale'[y].status = sale[y].status
    BY <2>1 DEF TypeOK, SaleRows
  <2>3. Sold' = Sold /\ Refunds' = Refunds
    BY <2>1, <2>2 DEF Sold, Refunds
  <2>4. \A y \in Sale : RefundedOf(y)' = RefundedOf(y)
    BY <2>1, <2>3 DEF RefundedOf
  <2>5. RefundsOfSold'
    BY <2>1, <2>3 DEF RefundsOfSold
  <2>6. RefundsWithinTotal'
    BY <2>2, <2>3, <2>4 DEF RefundsWithinTotal, Sold
  <2> QED BY <2>5, <2>6
<1>3. /\ NextDay => UNCHANGED <<sale, refund>>
      /\ \A h, s, g, d, a : OpenShift(h, s, g, d, a) => UNCHANGED <<sale, refund>>
      /\ \A h, m : AddCashMovement(h, m) => UNCHANGED <<sale, refund>>
      /\ \A h : CloseShift(h) => UNCHANGED <<sale, refund>>
  BY DEF NextDay, OpenShift, StoreShift, AddCashMovement, StoreMovement,
         CloseShift, StoreClosedShift
<1>4. /\ \A d : CreateDailyClosing(d) => UNCHANGED <<sale, refund>>
      /\ \A d : ReopenDailyClosing(d) => UNCHANGED <<sale, refund>>
      /\ UNCHANGED vars => UNCHANGED <<sale, refund>>
  BY DEF CreateDailyClosing, StoreClosing, ReopenDailyClosing, StoreReopened, vars
<1> QED BY <1>1, <1>2, <1>3, <1>4, CreateSaleRefunds, AddRefundRefunds DEF Next

\* The refunds of a sale never exceed its total, and its status says how far
\* it is refunded.
THEOREM RefundsStayWithinTotal == Spec => []RefundsWithinTotal
<1>1. Init => TypeOK /\ SnapshotsTyped /\ RefundsOfSold /\ RefundsWithinTotal
  <2>1. Init => RefundsOfSold /\ RefundsWithinTotal
    BY DEF Init, RefundsOfSold, RefundsWithinTotal, Refunds, Sold, NoRow
  <2> QED BY <2>1, InitTyped
<1>2. TypeOK /\ SnapshotsTyped /\ RefundsOfSold /\ RefundsWithinTotal /\ [Next]_vars
        => (TypeOK /\ SnapshotsTyped /\ RefundsOfSold /\ RefundsWithinTotal)'
  BY TypedStep, RefundsStep
<1> QED BY <1>1, <1>2, PTL DEF Spec
=============================================================================
