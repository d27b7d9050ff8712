-------------------------- MODULE CashRacesProofs --------------------------
(***************************************************************************)
(* What the business day still keeps when requests overlap, for every      *)
(* number of threads: the rows stay well formed, although a request writes *)
(* what it read before other requests wrote, and a seller and a register   *)
(* have at most one open shift each.                                       *)
(***************************************************************************)
EXTENDS CashRaces, CashDayProofs

\* What a thread will write: rows that are well formed, and of sales and shifts
\* that existed when the request was checked and are never taken back.
PendingTyped(w) ==
  LET p == pending[w]
  IN /\ p.op = "open_shift" => p.row \in ShiftRows
     /\ p.op = "sale"       => p.row \in SaleRows
     /\ p.op = "refund"     => /\ p.row \in RefundRows /\ p.row.sale \in Sold
                               /\ p.after \in {"partially_refunded", "refunded"}
     /\ p.op = "movement"   => p.shift \in Shift /\ p.change \in Int
     /\ p.op = "close_shift" => /\ p.shift \in Shift /\ p.expected \in Int
                                /\ shift[p.shift].status # "none"
     /\ p.op = "seller"     => p.sale \in Sold /\ p.seller \in Seller
     /\ p.op = "close_day"  => p.date \in Date /\ p.snapshot.version \in Nat
     /\ p.op = "reopen_day" => p.date \in Date

RacesTyped == TypeOK /\ DOMAIN pending = Worker /\ \A w \in Worker : PendingTyped(w)

\* No step takes a sale or a shift back.
RowsRemain ==
  /\ Sold \subseteq Sold'
  /\ \A h \in Shift : shift[h].status # "none" => shift'[h].status # "none"
-----------------------------------------------------------------------------
(* What a step does to the requests under way.                             *)

\* A thread's request is kept while the rows it needs remain.
LEMMA PendingKept ==
  ASSUME NEW w \in Worker, PendingTyped(w), pending'[w] = pending[w], RowsRemain
  PROVE  PendingTyped(w)'
<1>1. ShiftRows' = ShiftRows /\ SaleRows' = SaleRows /\ RefundRows' = RefundRows
  BY DEF ShiftRows, SaleRows, RefundRows
<1> QED BY <1>1 DEF PendingTyped, RowsRemain

LEMMA IdleTyped ==
  ASSUME NEW w \in Worker, pending'[w] = Idle
  PROVE  PendingTyped(w)'
BY DEF PendingTyped, Idle

\* A request that passes its checks is well formed.
LEMMA ReadTyped ==
  ASSUME RacesTyped, NEW w \in Worker, NEW request, Read(w, request),
         pending'[w] = request => PendingTyped(w)'
  PROVE  RacesTyped'
<1>1. /\ pending' = [pending EXCEPT ![w] = request]
      /\ UNCHANGED vars
  BY DEF Read
<1>2. TypeOK'
  BY <1>1 DEF RacesTyped, vars, TypeOK, ShiftRows, SaleRows, RefundRows
<1>3. RowsRemain
  BY <1>1 DEF RowsRemain, vars, Sold
<1>4. ASSUME NEW v \in Worker PROVE PendingTyped(v)'
  <2>1. CASE v = w
    BY <2>1, <1>1 DEF RacesTyped
  <2>2. CASE v # w
    <3>1. pending'[v] = pending[v] /\ PendingTyped(v)
      BY <2>2, <1>1 DEF RacesTyped
    <3> QED BY <3>1, <1>3, PendingKept
  <2> QED BY <2>1, <2>2
<1>5. DOMAIN pending' = Worker
  BY <1>1 DEF RacesTyped
<1> QED BY <1>2, <1>4, <1>5 DEF RacesTyped

\* A request that writes leaves the thread idle.
LEMMA WriteTyped ==
  ASSUME RacesTyped, NEW w \in Worker, NEW op, Writes(w, op), TypeOK', RowsRemain
  PROVE  RacesTyped'
<1>1. pending' = [pending EXCEPT ![w] = Idle]
  BY DEF Writes
<1>2. ASSUME NEW v \in Worker PROVE PendingTyped(v)'
  <2>1. CASE v = w
    <3>1. pending'[v] = Idle
      BY <2>1, <1>1 DEF RacesTyped
    <3> QED BY <3>1, IdleTyped
  <2>2. CASE v # w
    <3>1. pending'[v] = pending[v] /\ PendingTyped(v)
      BY <2>2, <1>1 DEF RacesTyped
    <3> QED BY <3>1, PendingKept
  <2> QED BY <2>1, <2>2
<1>3. DOMAIN pending' = Worker
  BY <1>1 DEF RacesTyped
<1> QED BY <1>2, <1>3 DEF RacesTyped
-----------------------------------------------------------------------------
(* What the requests store.                                                *)

LEMMA StoreShiftTyped ==
  ASSUME TypeOK, NEW h \in Shift, NEW r \in ShiftRows, StoreShift(h, r)
  PROVE  TypeOK' /\ RowsRemain
<1>1. shift' = [shift EXCEPT ![h] = r] /\ r.status # "none"
  BY DEF StoreShift, ShiftRows
<1>2. RowsRemain
  BY <1>1 DEF RowsRemain, StoreShift, Sold, TypeOK
<1>3. TypeOK'
  BY DEF StoreShift, TypeOK, ShiftRows, SaleRows, RefundRows
<1> QED BY <1>2, <1>3

LEMMA StoreSaleTyped ==
  ASSUME TypeOK, NEW x \in Sale, NEW r \in SaleRows, StoreSale(x, r)
  PROVE  TypeOK' /\ RowsRemain
<1>1. sale' = [sale EXCEPT ![x] = r] /\ r.date # 0
  BY DateAssumption DEF StoreSale, SaleRows
<1>2. Sold \subseteq Sold'
  BY <1>1 DEF Sold, TypeOK
<1>3. RowsRemain
  BY <1>2 DEF RowsRemain, StoreSale
<1>4. TypeOK'
  BY DEF StoreSale, TypeOK, ShiftRows, SaleRows, RefundRows
<1> QED BY <1>3, <1>4

\* A sale that was sold is still a sale with its status or its seller changed.
LEMMA SaleChangeTyped ==
  ASSUME TypeOK, NEW x \in Sold, NEW row \in SaleRows,
         sale' = [sale EXCEPT ![x] = row], row.date = sale[x].date
  PROVE  sale' \in [Sale -> SaleRows \cup {NoRow}] /\ Sold' = Sold
<1>1. x \in Sale
  BY DEF Sold
<1> QED BY <1>1 DEF TypeOK, Sold

LEMMA StoreRefundTyped ==
  ASSUME TypeOK, NEW f \in Refund, NEW r \in RefundRows, r.sale \in Sold,
         NEW status \in {"completed", "partially_refunded", "refunded"},
         StoreRefund(f, r, status)
  PROVE  TypeOK' /\ RowsRemain
<1> DEFINE x == r.sale
           row == [sale[x] EXCEPT !.status = status]
<1>1. sale[x] \in SaleRows
  BY SaleKinds DEF Sold
<1>2. row \in SaleRows /\ row.date = sale[x].date
  BY <1>1 DEF SaleRows
<1>3. sale' = [sale EXCEPT ![x] = row]
  BY DEF StoreRefund
<1>4. sale' \in [Sale -> SaleRows \cup {NoRow}] /\ Sold' = Sold
  <2> HIDE DEF row
  <2> QED BY <1>2, <1>3, SaleChangeTyped
<1>5. refund' \in [Refund -> RefundRows \cup {NoRow}]
  BY DEF StoreRefund, TypeOK
<1>6. RowsRemain
  BY <1>4 DEF RowsRemain, StoreRefund
<1>7. TypeOK'
  BY <1>4, <1>5 DEF StoreRefund, TypeOK, ShiftRows, SaleRows, RefundRows
<1> QED BY <1>6, <1>7

LEMMA StoreMovementTyped ==
  ASSUME TypeOK, NEW h \in Shift, NEW m \in Int, StoreMovement(h, m)
  PROVE  TypeOK' /\ RowsRemain
BY DEF StoreMovement, RowsRemain, Sold, TypeOK, ShiftRows, SaleRows, RefundRows

LEMMA StoreClosedShiftTyped ==
  ASSUME TypeOK, NEW h \in Shift, NEW expected \in Int, shift[h].status # "none",
         StoreClosedShift(h, expected)
  PROVE  TypeOK' /\ RowsRemain
<1> DEFINE row == [shift[h] EXCEPT !.status = "closed", !.expected = expected]
<1>1. shift[h] \in ShiftRows
  BY ShiftKinds
<1>2. row \in ShiftRows /\ row.status # "none"
  BY <1>1 DEF ShiftRows
<1>3. shift' = [shift EXCEPT ![h] = row]
  BY DEF StoreClosedShift
<1>4. shift' \in [Shift -> ShiftRows \cup {Unopened}]
  BY <1>2, <1>3 DEF TypeOK
<1>5. \A k \in Shift : shift[k].status # "none" => shift'[k].status # "none"
  BY <1>2, <1>3 DEF TypeOK
<1>6. RowsRemain
  BY <1>5 DEF RowsRemain, StoreClosedShift, Sold
<1>7. TypeOK'
  BY <1>4 DEF StoreClosedShift, TypeOK, ShiftRows, SaleRows, RefundRows
<1> QED BY <1>6, <1>7

LEMMA StoreSellerTyped ==
  ASSUME TypeOK, NEW x \in Sold, NEW s \in Seller, StoreSeller(x, s)
  PROVE  TypeOK' /\ RowsRemain
<1> DEFINE row == [sale[x] EXCEPT !.seller = s]
<1>1. sale[x] \in SaleRows
  BY SaleKinds DEF Sold
<1>2. row \in SaleRows /\ row.date = sale[x].date
  BY <1>1 DEF SaleRows
<1>3. sale' = [sale EXCEPT ![x] = row]
  BY DEF StoreSeller
<1>4. sale' \in [Sale -> SaleRows \cup {NoRow}] /\ Sold' = Sold
  <2> HIDE DEF row
  <2> QED BY <1>2, <1>3, SaleChangeTyped
<1>5. RowsRemain
  BY <1>4 DEF RowsRemain, StoreSeller
<1>6. TypeOK'
  BY <1>4 DEF StoreSeller, TypeOK, ShiftRows, SaleRows, RefundRows
<1> QED BY <1>5, <1>6

LEMMA StoreClosingTyped ==
  ASSUME TypeOK, NEW d \in Date, NEW snapshot, snapshot.version \in Nat,
         StoreClosing(d, snapshot)
  PROVE  TypeOK' /\ RowsRemain
<1>1. /\ closing' = [closing EXCEPT ![d] = "closed"]
      /\ version' = [version EXCEPT ![d] = snapshot.version]
      /\ DOMAIN snapshots' = DOMAIN snapshots
      /\ UNCHANGED <<today, shift, drawer, sale, refund>>
  BY DEF StoreClosing
<1> QED BY <1>1 DEF RowsRemain, Sold, TypeOK, ShiftRows, SaleRows, RefundRows

LEMMA StoreReopenedTyped ==
  ASSUME TypeOK, NEW d \in Date, StoreReopened(d)
  PROVE  TypeOK' /\ RowsRemain
BY DEF StoreReopened, RowsRemain, Sold, TypeOK, ShiftRows, SaleRows, RefundRows
-----------------------------------------------------------------------------
(* The steps.                                                              *)

LEMMA ReadsTyped ==
  ASSUME RacesTyped, NEW w \in Worker,
         \/ ReadOpenShift(w) \/ ReadSale(w) \/ ReadRefund(w) \/ ReadMovement(w)
         \/ ReadCloseShift(w) \/ ReadCorrectSeller(w) \/ ReadCloseDay(w)
         \/ ReadReopenDay(w)
  PROVE  RacesTyped'
<1>t. TypeOK
  BY DEF RacesTyped
<1>c. /\ ShiftRows' = ShiftRows /\ SaleRows' = SaleRows /\ RefundRows' = RefundRows
      /\ \A request : Read(w, request) => UNCHANGED vars
  BY DEF ShiftRows, SaleRows, RefundRows, Read
<1>1. CASE ReadOpenShift(w)
  <2>1. PICK s \in Seller, g \in Register, d \in Date, a \in StartingCash :
          Read(w, [op |-> "open_shift", row |-> ShiftRow(s, g, d, a)])
    BY <1>1 DEF ReadOpenShift
  <2>2. ShiftRow(s, g, d, a) \in ShiftRows
    BY AmountAssumption DEF ShiftRow, ShiftRows
  <2> DEFINE request == [op |-> "open_shift", row |-> ShiftRow(s, g, d, a)]
  <2>3. pending'[w] = request => PendingTyped(w)'
    BY <2>2, <1>c DEF PendingTyped
  <2> HIDE DEF request
  <2> QED BY <2>1, <2>3, ReadTyped DEF request
<1>2. CASE ReadSale(w)
  <2>1. PICK h \in Shift \cup {NoShift}, s \in Seller, t \in Price :
          MaySell(h) /\ \E c \in 0..t : Read(w, [op |-> "sale", row |-> SaleRow(h, s, t, c)])
    BY <1>2 DEF ReadSale
  <2>2. PICK c \in 0..t : Read(w, [op |-> "sale", row |-> SaleRow(h, s, t, c)])
    BY <2>1
  <2>3. DateOf(h) \in Date
    BY <1>t, <2>1, DateOfDate DEF MaySell
  <2>4. SaleRow(h, s, t, c) \in SaleRows
    BY <2>3, AmountAssumption DEF SaleRow, SaleRows
  <2> DEFINE request == [op |-> "sale", row |-> SaleRow(h, s, t, c)]
  <2>5. pending'[w] = request => PendingTyped(w)'
    BY <2>4, <1>c DEF PendingTyped
  <2> QED BY <2>2, <2>5, ReadTyped
<1>3. CASE ReadRefund(w)
  <2>1. PICK x \in Sale, h \in Shift \cup {NoShift}, s \in Seller, a \in Amount :
          /\ MayRefund(x, h, s, a)
          /\ \E c \in {0, a} :
               Read(w, [op |-> "refund", row |-> RefundRow(x, h, s, a, c),
                        before |-> sale[x].status, after |-> StatusAfter(x, a)])
    BY <1>3 DEF ReadRefund
  <2>2. PICK c \in {0, a} :
          Read(w, [op |-> "refund", row |-> RefundRow(x, h, s, a, c),
                   before |-> sale[x].status, after |-> StatusAfter(x, a)])
    BY <2>1
  <2>3. DateOf(h) \in Date
    BY <1>t, <2>1, DateOfDate DEF MayRefund
  <2>4. RefundRow(x, h, s, a, c) \in RefundRows /\ RefundRow(x, h, s, a, c).sale = x
    BY <2>3, AmountAssumption DEF RefundRow, RefundRows
  <2>5. StatusAfter(x, a) \in {"partially_refunded", "refunded"}
    BY DEF StatusAfter
  <2>6. x \in Sold'
    BY <2>1, <2>2, <1>c DEF MayRefund, Sold, vars
  <2> DEFINE request == [op |-> "refund", row |-> RefundRow(x, h, s, a, c),
                         before |-> sale[x].status, after |-> StatusAfter(x, a)]
  <2>7. pending'[w] = request => PendingTyped(w)'
    BY <2>4, <2>5, <2>6, <1>c DEF PendingTyped
  <2> QED BY <2>2, <2>7, ReadTyped
<1>4. CASE ReadMovement(w)
  <2>1. PICK h \in Shift, a \in Amount :
          \E m \in {a, -a} : Read(w, [op |-> "movement", shift |-> h, change |-> m])
    BY <1>4 DEF ReadMovement
  <2>2. PICK m \in {a, -a} : Read(w, [op |-> "movement", shift |-> h, change |-> m])
    BY <2>1
  <2>3. m \in Int
    BY AmountAssumption
  <2> DEFINE request == [op |-> "movement", shift |-> h, change |-> m]
  <2>4. pending'[w] = request => PendingTyped(w)'
    BY <2>3 DEF PendingTyped
  <2> QED BY <2>2, <2>4, ReadTyped
<1>5. CASE ReadCloseShift(w)
  <2>1. PICK h \in Shift :
          /\ MayCloseShift(h)
          /\ Read(w, [op |-> "close_shift", shift |-> h, expected |-> ExpectedCash(h)])
    BY <1>5 DEF ReadCloseShift
  <2>2. shift[h].status # "none" /\ shift' = shift
    BY <2>1, <1>c DEF MayCloseShift, OpenShifts, vars
  <2>3. ExpectedCash(h) \in Int
    BY <1>t, <2>2, ExpectedCashInt
  <2> DEFINE request == [op |-> "close_shift", shift |-> h, expected |-> ExpectedCash(h)]
  <2>4. pending'[w] = request => PendingTyped(w)'
    BY <2>2, <2>3 DEF PendingTyped
  <2> QED BY <2>1, <2>4, ReadTyped
<1>6. CASE ReadCorrectSeller(w)
  <2>1. PICK x \in Sale, s \in Seller :
          MayCorrectSeller(x) /\ Read(w, [op |-> "seller", sale |-> x, seller |-> s])
    BY <1>6 DEF ReadCorrectSeller
  <2>2. x \in Sold'
    BY <2>1, <1>c DEF MayCorrectSeller, Sold, vars
  <2> DEFINE request == [op |-> "seller", sale |-> x, seller |-> s]
  <2>3. pending'[w] = request => PendingTyped(w)'
    BY <2>2 DEF PendingTyped
  <2> QED BY <2>1, <2>3, ReadTyped
<1>7. CASE ReadCloseDay(w)
  <2>1. PICK d \in Date :
          Read(w, [op |-> "close_day", date |-> d, before |-> closing[d],
                   snapshot |-> Snapshot(d, version[d] + 1)])
    BY <1>7 DEF ReadCloseDay
  <2>2. Snapshot(d, version[d] + 1).version \in Nat
    BY <1>t DEF Snapshot, TypeOK
  <2> DEFINE request == [op |-> "close_day", date |-> d, before |-> closing[d],
                         snapshot |-> Snapshot(d, version[d] + 1)]
  <2>3. pending'[w] = request => PendingTyped(w)'
    BY <2>2 DEF PendingTyped
  <2> QED BY <2>1, <2>3, ReadTyped
<1>8. CASE ReadReopenDay(w)
  <2>1. PICK d \in Date : Read(w, [op |-> "reopen_day", date |-> d])
    BY <1>8 DEF ReadReopenDay
  <2> DEFINE request == [op |-> "reopen_day", date |-> d]
  <2>2. pending'[w] = request => PendingTyped(w)'
    BY DEF PendingTyped
  <2> QED BY <2>1, <2>2, ReadTyped
<1> QED BY <1>1, <1>2, <1>3, <1>4, <1>5, <1>6, <1>7, <1>8

LEMMA WritesTyped ==
  ASSUME RacesTyped, NEW w \in Worker,
         \/ WriteOpenShift(w) \/ WriteSale(w) \/ WriteRefund(w) \/ WriteMovement(w)
         \/ WriteCloseShift(w) \/ WriteCorrectSeller(w) \/ WriteCloseDay(w)
         \/ WriteReopenDay(w) \/ RefuseOpenShift(w) \/ RefuseCloseDay(w)
  PROVE  RacesTyped'
<1> DEFINE p == pending[w]
<1>t. TypeOK /\ PendingTyped(w)
  BY DEF RacesTyped
<1>1. CASE WriteOpenShift(w)
  <2>1. PICK h \in Shift : StoreShift(h, p.row)
    BY <1>1 DEF WriteOpenShift
  <2>2. Writes(w, "open_shift") /\ p.row \in ShiftRows
    BY <1>1, <1>t DEF WriteOpenShift, Writes, PendingTyped
  <2> QED BY <1>t, <2>1, <2>2, StoreShiftTyped, WriteTyped
<1>2. CASE WriteSale(w)
  <2>1. PICK x \in Sale : StoreSale(x, p.row)
    BY <1>2 DEF WriteSale
  <2>2. Writes(w, "sale") /\ p.row \in SaleRows
    BY <1>2, <1>t DEF WriteSale, Writes, PendingTyped
  <2> QED BY <1>t, <2>1, <2>2, StoreSaleTyped, WriteTyped
<1>3. CASE WriteRefund(w)
  <2> DEFINE status == IF p.after = p.before THEN sale[p.row.sale].status ELSE p.after
  <2>1. PICK f \in Refund : StoreRefund(f, p.row, status)
    BY <1>3 DEF WriteRefund
  <2>2. /\ Writes(w, "refund") /\ p.row \in RefundRows /\ p.row.sale \in Sold
        /\ p.after \in {"partially_refunded", "refunded"}
    BY <1>3, <1>t DEF WriteRefund, Writes, PendingTyped
  <2>3. sale[p.row.sale] \in SaleRows
    BY <1>t, <2>2, SaleKinds DEF Sold
  <2>4. status \in {"completed", "partially_refunded", "refunded"}
    BY <2>2, <2>3 DEF SaleRows
  <2> HIDE DEF status
  <2> QED BY <1>t, <2>1, <2>2, <2>4, StoreRefundTyped, WriteTyped
<1>4. CASE WriteMovement(w)
  <2>1. /\ Writes(w, "movement") /\ StoreMovement(p.shift, p.change)
        /\ p.shift \in Shift /\ p.change \in Int
    BY <1>4, <1>t DEF WriteMovement, Writes, PendingTyped
  <2> QED BY <1>t, <2>1, StoreMovementTyped, WriteTyped
<1>5. CASE WriteCloseShift(w)
  <2>1. /\ Writes(w, "close_shift") /\ StoreClosedShift(p.shift, p.expected)
        /\ p.shift \in Shift /\ p.expected \in Int /\ shift[p.shift].status # "none"
    BY <1>5, <1>t DEF WriteCloseShift, Writes, PendingTyped
  <2> QED BY <1>t, <2>1, StoreClosedShiftTyped, WriteTyped
<1>6. CASE WriteCorrectSeller(w)
  <2>1. /\ Writes(w, "seller") /\ StoreSeller(p.sale, p.seller)
        /\ p.sale \in Sold /\ p.seller \in Seller
    BY <1>6, <1>t DEF WriteCorrectSeller, Writes, PendingTyped
  <2> QED BY <1>t, <2>1, StoreSellerTyped, WriteTyped
<1>7. CASE WriteCloseDay(w)
  <2>1. /\ Writes(w, "close_day") /\ StoreClosing(p.date, p.snapshot)
        /\ p.date \in Date /\ p.snapshot.version \in Nat
    BY <1>7, <1>t DEF WriteCloseDay, Writes, PendingTyped
  <2> QED BY <1>t, <2>1, StoreClosingTyped, WriteTyped
<1>8. CASE WriteReopenDay(w)
  <2>1. Writes(w, "reopen_day") /\ StoreReopened(p.date) /\ p.date \in Date
    BY <1>8, <1>t DEF WriteReopenDay, Writes, PendingTyped
  <2> QED BY <1>t, <2>1, StoreReopenedTyped, WriteTyped
<1>9. ASSUME NEW op, Writes(w, op), UNCHANGED vars PROVE RacesTyped'
  <2>1. TypeOK' /\ RowsRemain
    BY <1>t, <1>9 DEF vars, TypeOK, ShiftRows, SaleRows, RefundRows, RowsRemain, Sold
  <2> QED BY <1>9, <2>1, WriteTyped
<1> QED BY <1>1, <1>2, <1>3, <1>4, <1>5, <1>6, <1>7, <1>8, <1>9
        DEF RefuseOpenShift, RefuseCloseDay

LEMMA RacesTypedStep ==
  ASSUME RacesTyped, [RacesNext]_allVars
  PROVE  RacesTyped'
<1>1. ASSUME UNCHANGED pending, TypeOK', RowsRemain PROVE RacesTyped'
  BY <1>1, PendingKept DEF RacesTyped
<1>2. CASE NextDay /\ UNCHANGED <<pending, served>>
  <2>1. TypeOK' /\ RowsRemain
    BY <1>2 DEF RacesTyped, NextDay, TypeOK, ShiftRows, SaleRows, RefundRows,
                RowsRemain, Sold
  <2> QED BY <1>1, <1>2, <2>1
<1>3. CASE UNCHANGED allVars
  <2>1. TypeOK' /\ RowsRemain
    BY <1>3 DEF RacesTyped, allVars, vars, TypeOK, ShiftRows, SaleRows, RefundRows,
                RowsRemain, Sold
  <2> QED BY <1>1, <1>3, <2>1 DEF allVars
<1> QED BY <1>2, <1>3, ReadsTyped, WritesTyped DEF RacesNext

LEMMA RacesInitTyped == RacesInit => RacesTyped
BY InitTyped DEF RacesInit, RacesTyped, PendingTyped, Idle

\* Overlapping requests keep the rows well formed: what a request read stays
\* fit to be written, since sales and shifts are never taken back.
THEOREM OverlapKeepsTypes == RacesSpec => []TypeOK
<1>1. RacesInit => RacesTyped
  BY RacesInitTyped
<1>2. RacesTyped /\ [RacesNext]_allVars => RacesTyped'
  BY RacesTypedStep
<1>3. RacesTyped => TypeOK
  BY DEF RacesTyped
<1> QED BY <1>1, <1>2, <1>3, PTL DEF RacesSpec
-----------------------------------------------------------------------------
(* One open shift per seller and per register.                             *)

LEMMA RacesOneOpenStep ==
  ASSUME RacesTyped, OneOpenShift, [RacesNext]_allVars
  PROVE  OneOpenShift'
<1>t. TypeOK
  BY DEF RacesTyped
<1>1. ASSUME UNCHANGED shift PROVE OneOpenShift'
  BY <1>1 DEF OneOpenShift, OpenShifts
<1>2. ASSUME NEW w \in Worker, WriteOpenShift(w) PROVE OneOpenShift'
  <2> DEFINE r == pending[w].row
  <2>1. PICK h \in Shift : StoreShift(h, r)
    BY <1>2 DEF WriteOpenShift
  <2>2. \A k \in OpenShifts : shift[k].seller # r.seller /\ shift[k].register # r.register
    BY <1>2 DEF WriteOpenShift, ShiftIndexesAllow
  <2> HIDE DEF r
  <2>3. shift'[h] = r /\ \A k \in Shift \ {h} : shift'[k] = shift[k]
    BY <1>t, <2>1 DEF StoreShift, TypeOK
  <2>4. \A k \in OpenShifts' : k # h => k \in OpenShifts /\ shift'[k] = shift[k]
    BY <2>3 DEF OpenShifts
  <2> QED BY <2>2, <2>3, <2>4 DEF OneOpenShift
<1>3. ASSUME NEW w \in Worker, WriteCloseShift(w) PROVE OneOpenShift'
  <2> DEFINE h == pending[w].shift
             expected == pending[w].expected
  <2>1. /\ shift' = [shift EXCEPT ![h].status = "closed", ![h].expected = expected]
        /\ h \in Shift /\ shift[h] \in ShiftRows
    BY <1>3, ShiftKinds DEF WriteCloseShift, Writes, StoreClosedShift, RacesTyped,
                            PendingTyped
  <2> HIDE DEF h, expected
  <2>2. shift'[h].status = "closed" /\ \A k \in Shift \ {h} : shift'[k] = shift[k]
    BY <1>t, <2>1 DEF TypeOK, ShiftRows
  <2>3. \A k \in OpenShifts' : k \in OpenShifts /\ shift'[k] = shift[k]
    BY <2>2 DEF OpenShifts
  <2> QED BY <2>3 DEF OneOpenShift
<1>4. ASSUME NEW w \in Worker,
             \/ ReadOpenShift(w) \/ ReadSale(w) \/ ReadRefund(w) \/ ReadMovement(w)
             \/ ReadCloseShift(w) \/ ReadCorrectSeller(w) \/ ReadCloseDay(w)
             \/ ReadReopenDay(w)
      PROVE  UNCHANGED shift
  BY <1>4 DEF ReadOpenShift, ReadSale, ReadRefund, ReadMovement, ReadCloseShift,
              ReadCorrectSeller, ReadCloseDay, ReadReopenDay, Read, vars
<1>5. ASSUME NEW w \in Worker,
             \/ WriteSale(w) \/ WriteRefund(w) \/ WriteMovement(w)
             \/ WriteCorrectSeller(w) \/ WriteCloseDay(w) \/ WriteReopenDay(w)
             \/ RefuseOpenShift(w) \/ RefuseCloseDay(w)
      PROVE  UNCHANGED shift
  BY <1>5 DEF WriteSale, StoreSale, WriteRefund, StoreRefund, WriteMovement,
              StoreMovement, WriteCorrectSeller, StoreSeller, WriteCloseDay,
              StoreClosing, WriteReopenDay, StoreReopened, RefuseOpenShift,
              RefuseCloseDay, vars
<1>6. (NextDay \/ UNCHANGED allVars) => UNCHANGED shift
  BY DEF NextDay, allVars, vars
<1> QED BY <1>1, <1>2, <1>3, <1>4, <1>5, <1>6 DEF RacesNext

\* However requests overlap, a seller and a register have at most one open
\* shift each: the check may be stale, the unique indexes are not.
THEOREM OneShiftThoughRequestsOverlap == RacesSpec => []OneOpenShift
<1>1. RacesInit => RacesTyped /\ OneOpenShift
  <2>1. RacesInit => OneOpenShift
    BY DEF RacesInit, Init, OneOpenShift, OpenShifts, Unopened
  <2> QED BY <2>1, RacesInitTyped
<1>2. RacesTyped /\ OneOpenShift /\ [RacesNext]_allVars => (RacesTyped /\ OneOpenShift)'
  BY RacesTypedStep, RacesOneOpenStep
<1> QED BY <1>1, <1>2, PTL DEF RacesSpec
=============================================================================
