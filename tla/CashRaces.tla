----------------------------- MODULE CashRaces -----------------------------
(***************************************************************************)
(* The business day when requests overlap.  A request runs in a worker     *)
(* thread with a session of its own.  Its checks are SELECTs outside any   *)
(* transaction; its first INSERT or UPDATE takes SQLite's write lock, kept *)
(* until the commit, and writes what was computed from the rows read.  So  *)
(* a request is two steps, with other requests' steps between them; only   *)
(* the unique indexes are looked at again when it writes.                  *)
(***************************************************************************)
EXTENDS CashDay

CONSTANTS Worker,       \* the threads that serve requests
          MaxRequests   \* bound: the requests that pass their checks

ASSUME WorkerAssumption == IsFiniteSet(Worker) /\ MaxRequests \in Nat

VARIABLES pending,   \* what each thread has checked and will write
          served     \* how many requests have passed their checks

allVars == <<vars, pending, served>>

Idle == [op |-> "none"]

\* A request has passed its checks; a request writes and ends.
Read(w, request) ==
  /\ pending[w] = Idle
  /\ served < MaxRequests
  /\ served' = served + 1
  /\ pending' = [pending EXCEPT ![w] = request]
  /\ UNCHANGED vars

Writes(w, op) ==
  /\ pending[w].op = op
  /\ pending' = [pending EXCEPT ![w] = Idle]
  /\ UNCHANGED served
-----------------------------------------------------------------------------
ReadOpenShift(w) ==
  \E s \in Seller, g \in Register, d \in Date, a \in StartingCash :
    /\ MayOpenShift(s, g, d)
    /\ Read(w, [op |-> "open_shift", row |-> ShiftRow(s, g, d, a)])

\* ux_open_shift_seller and ux_open_shift_register.
ShiftIndexesMissing(r) == TRUE
ShiftIndexesAllow(r) ==
  \A h \in OpenShifts : shift[h].seller # r.seller /\ shift[h].register # r.register

WriteOpenShift(w) ==
  /\ Writes(w, "open_shift")
  /\ ShiftIndexesAllow(pending[w].row)
  /\ \E h \in Shift : StoreShift(h, pending[w].row)

RefuseOpenShift(w) ==
  /\ Writes(w, "open_shift")
  /\ ~ShiftIndexesAllow(pending[w].row)
  /\ UNCHANGED vars

ReadSale(w) ==
  \E h \in Shift \cup {NoShift}, s \in Seller, t \in Price :
    /\ MaySell(h)
    /\ \E c \in 0..t : Read(w, [op |-> "sale", row |-> SaleRow(h, s, t, c)])

WriteSale(w) ==
  /\ Writes(w, "sale")
  /\ \E x \in Sale : StoreSale(x, pending[w].row)

ReadRefund(w) ==
  \E x \in Sale, h \in Shift \cup {NoShift}, s \in Seller, a \in Amount :
    /\ MayRefund(x, h, s, a)
    /\ \E c \in {0, a} :
         Read(w, [op |-> "refund", row |-> RefundRow(x, h, s, a, c),
                  before |-> sale[x].status, after |-> StatusAfter(x, a)])

\* An attribute set to the value that was read is not written.
WriteRefund(w) ==
  LET p == pending[w]
  IN /\ Writes(w, "refund")
     /\ \E f \in Refund :
          StoreRefund(f, p.row, IF p.after = p.before THEN sale[p.row.sale].status
                                ELSE p.after)

ReadMovement(w) ==
  \E h \in Shift, a \in Amount :
    /\ MayMoveCash(h)
    /\ \E m \in {a, -a} : Read(w, [op |-> "movement", shift |-> h, change |-> m])

WriteMovement(w) ==
  Writes(w, "movement") /\ StoreMovement(pending[w].shift, pending[w].change)

ReadCloseShift(w) ==
  \E h \in Shift :
    /\ MayCloseShift(h)
    /\ Read(w, [op |-> "close_shift", shift |-> h, expected |-> ExpectedCash(h)])

WriteCloseShift(w) ==
  Writes(w, "close_shift") /\ StoreClosedShift(pending[w].shift, pending[w].expected)

ReadCorrectSeller(w) ==
  \E x \in Sale, s \in Seller :
    MayCorrectSeller(x) /\ Read(w, [op |-> "seller", sale |-> x, seller |-> s])

WriteCorrectSeller(w) ==
  Writes(w, "seller") /\ StoreSeller(pending[w].sale, pending[w].seller)

ReadCloseDay(w) ==
  \E d \in Date :
    /\ MayCloseDay(d)
    /\ Read(w, [op |-> "close_day", date |-> d, before |-> closing[d],
                snapshot |-> Snapshot(d, version[d] + 1)])

\* A first closing is inserted, and business_date is unique; a reopened one is
\* updated whatever became of it.
ClosingIndexAllows(p) == p.before = "none" => closing[p.date] = "none"

WriteCloseDay(w) ==
  /\ Writes(w, "close_day")
  /\ ClosingIndexAllows(pending[w])
  /\ StoreClosing(pending[w].date, pending[w].snapshot)

RefuseCloseDay(w) ==
  /\ Writes(w, "close_day")
  /\ ~ClosingIndexAllows(pending[w])
  /\ UNCHANGED vars

ReadReopenDay(w) ==
  \E d \in Date : MayReopenDay(d) /\ Read(w, [op |-> "reopen_day", date |-> d])

WriteReopenDay(w) == Writes(w, "reopen_day") /\ StoreReopened(pending[w].date)
-----------------------------------------------------------------------------
RacesInit == Init /\ pending = [w \in Worker |-> Idle] /\ served = 0

RacesNext ==
  \/ NextDay /\ UNCHANGED <<pending, served>>
  \/ \E w \in Worker :
       \/ ReadOpenShift(w)     \/ WriteOpenShift(w) \/ RefuseOpenShift(w)
       \/ ReadSale(w)          \/ WriteSale(w)
       \/ ReadRefund(w)        \/ WriteRefund(w)
       \/ ReadMovement(w)      \/ WriteMovement(w)
       \/ ReadCloseShift(w)    \/ WriteCloseShift(w)
       \/ ReadCorrectSeller(w) \/ WriteCorrectSeller(w)
       \/ ReadCloseDay(w)      \/ WriteCloseDay(w) \/ RefuseCloseDay(w)
       \/ ReadReopenDay(w)     \/ WriteReopenDay(w)

RacesSpec == RacesInit /\ [][RacesNext]_allVars
-----------------------------------------------------------------------------
(* A closed business date blocks Sales, Refunds, cash movements and shift  *)
(* closing: its latest snapshot still tells the figures of the date.       *)
ClosedDayMatchesSnapshot ==
  \A d \in Date : closing[d] = "closed" =>
    snapshots[d][Len(snapshots[d])].figures = Figures(d)
=============================================================================
