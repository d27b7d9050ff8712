---------------------------- MODULE StockLedger ----------------------------
(***************************************************************************)
(* The quantities of the inventory service: the immutable ledger of stock  *)
(* movements, the caches beside it, the reservations of delivery notes,    *)
(* and every operation of inventory_service.py, routes/jobs.py and         *)
(* sales_service.py that moves goods.  Each action is one committed        *)
(* request; what two requests do to each other when one acts on rows it    *)
(* read before the other committed is a different question.                *)
(*                                                                         *)
(* Costs, prices, users, activation flags and the quantity_available       *)
(* column (always written as on hand - reserved) are left out.  A refusal  *)
(* (ValueError, rollback) leaves the database as it was and is no step.    *)
(***************************************************************************)
EXTENDS Integers, FiniteSets, Totals

CONSTANTS Product, Location, Receipt, Note,
          Item,         \* rows of delivery notes: a row id is used once
          CounterRow,   \* sale rows of stock products not on a delivery note
          NoteOf,       \* the note a row belongs to
          ProductOf,    \* the product of a row
          Quantity,     \* the quantities a form can carry
          MaxReceived   \* bound: the units the lines of one receipt add up to

ASSUME SetsAssumption == /\ IsFiniteSet(Product)
                         /\ IsFiniteSet(Location) /\ Location \subseteq Nat
                         /\ IsFiniteSet(Receipt)
                         /\ IsFiniteSet(Item) /\ IsFiniteSet(CounterRow)
                         /\ Item \cap CounterRow = {}
ASSUME QuantityAssumption == Quantity \subseteq Nat \ {0} /\ MaxReceived \in Nat
ASSUME RowAssumption == /\ NoteOf \in [Item -> Note]
                        /\ ProductOf \in [Item \cup CounterRow -> Product]

VARIABLES
  stock,      \* Product.current_inventory_quantity
  onHand,     \* InventoryBalance.quantity_on_hand
  reserved,   \* InventoryBalance.quantity_reserved
  ledger,     \* the sum of InventoryTransaction.quantity_change
  receipt,    \* GoodsReceipt.status, or "none"
  lines,      \* GoodsReceipt.lines: the quantity they add up to on each shelf
  row,        \* what became of a delivery note row and of its goods
  qty,        \* JobItem.quantity
  alloc,      \* InventoryReservation.quantity at each location
  note,       \* whether the delivery note is open, has a Sale, or is deleted
  sold,       \* SaleLine.quantity, 0 where no sale line exists
  refunded,   \* the sum of RefundLine.quantity of the sale line
  restocked   \* the part of it that RefundLine.restocked marks

receiptVars == <<receipt, lines>>
rowVars     == <<row, qty, alloc>>
saleVars    == <<sold, refunded, restocked>>
vars == <<stock, onHand, reserved, ledger, receiptVars, rowVars, note, saleVars>>
-----------------------------------------------------------------------------
(* A shelf is a product at a location: one InventoryBalance row.           *)

Shelf        == Product \X Location
ShelvesOf(p) == {p} \X Location
SaleRow      == Item \cup CounterRow

\* The quantities of f, shelf by shelf, added up for each product.
PerProduct(f) == [p \in Product |-> Total(ShelvesOf(p), f)]

\* The quantity q on the shelf s alone; the goods taken from p's shelves.
OnShelf(s, q) == [t \in Shelf |-> IF t = s THEN q ELSE 0]
At(p, take)   == [t \in Shelf |-> IF t[1] = p THEN take[t[2]] ELSE 0]

\* The goods the reservations of the rows S hold on each shelf.
Part(s)  == [i \in Item |-> IF ProductOf[i] = s[1] THEN alloc[i][s[2]] ELSE 0]
Goods(S) == [s \in Shelf |-> Total(S, Part(s))]

Active    == {i \in Item : row[i] = "reserved"}
RowsOf(n) == {i \in Item : NoteOf[i] = n}

\* Stock that is not spoken for, of which alone reservations and sales take.
FreeIgnoringReservations(s) == onHand[s]
Free(s) == IF reserved[s] < onHand[s] THEN onHand[s] - reserved[s] ELSE 0

\* Locations are emptied in the order of their ids until q is found.
FirstFit(p, q) ==
  { take \in [Location -> 0..q] :
      /\ Total(Location, take) = q
      /\ \A l \in Location : take[l] <= Free(<<p, l>>)
      /\ \A k, l \in Location : k < l /\ take[l] > 0 => take[k] = Free(<<p, k>>) }

\* assert_inventory_cache_consistent: the caches of p reproduce the ledger.
Consistent(p) == /\ \A s \in ShelvesOf(p) : onHand[s] = ledger[s]
                 /\ stock[p] = Total(ShelvesOf(p), ledger)

\* The checks on consuming the reservations of the rows S, all of them.
Consumable(S) ==
  /\ \A i \in S : Total(Location, alloc[i]) = qty[i]
  /\ \A s \in Shelf : Goods(S)[s] > 0 => /\ Goods(S)[s] <= reserved[s]
                                         /\ reserved[s] <= onHand[s]
  /\ \A p \in Product : PerProduct(Goods(S))[p] <= stock[p]
-----------------------------------------------------------------------------
(* Goods receipts.                                                         *)

CreateGoodsReceipt(r) ==
  /\ receipt[r] = "none"
  /\ receipt' = [receipt EXCEPT ![r] = "draft"]
  /\ UNCHANGED <<stock, onHand, reserved, ledger, lines, rowVars, note, saleVars>>

AddGoodsReceiptLine(r, s, q) ==
  /\ receipt[r] = "draft"
  /\ Total(Shelf, lines[r]) + q <= MaxReceived
  /\ lines' = [lines EXCEPT ![r] = Plus(@, OnShelf(s, q))]
  /\ UNCHANGED <<stock, onHand, reserved, ledger, receipt, rowVars, note, saleVars>>

ProductsOn(r) == {p \in Product : PerProduct(lines[r])[p] > 0}

PostGoodsReceipt(r) ==
  /\ receipt[r] = "draft" /\ ProductsOn(r) # {}
  /\ \A p \in ProductsOn(r) : Consistent(p)
  /\ onHand' = Plus(onHand, lines[r])
  /\ ledger' = Plus(ledger, lines[r])
  /\ stock'  = Plus(stock, PerProduct(lines[r]))
  /\ receipt' = [receipt EXCEPT ![r] = "posted"]
  /\ UNCHANGED <<reserved, lines, rowVars, note, saleVars>>

\* Only what is neither gone nor reserved can be taken back.
CancellableByProductStock(r) ==
  \A p \in Product : PerProduct(lines[r])[p] <= stock[p]

Cancellable(r) ==
  /\ \A p \in Product : PerProduct(lines[r])[p] <= stock[p]
  /\ \A s \in Shelf : lines[r][s] > 0 => onHand[s] - lines[r][s] >= reserved[s]

CancelGoodsReceipt(r) ==
  /\ receipt[r] = "posted"
  /\ \A p \in ProductsOn(r) : Consistent(p)
  /\ Cancellable(r)
  /\ onHand' = Minus(onHand, lines[r])
  /\ ledger' = Minus(ledger, lines[r])
  /\ stock'  = Minus(stock, PerProduct(lines[r]))
  /\ receipt' = [receipt EXCEPT ![r] = "cancelled"]
  /\ UNCHANGED <<reserved, lines, rowVars, note, saleVars>>
-----------------------------------------------------------------------------
(* Delivery notes.                                                         *)

\* A new row reserves its goods or is not added at all.
AddDeliveryNoteItem(i, q) ==
  /\ row[i] = "absent" /\ note[NoteOf[i]] # "deleted"
  /\ Consistent(ProductOf[i])
  /\ \E take \in FirstFit(ProductOf[i], q) :
       /\ alloc' = [alloc EXCEPT ![i] = take]
       /\ reserved' = Plus(reserved, At(ProductOf[i], take))
  /\ row' = [row EXCEPT ![i] = "reserved"]
  /\ qty' = [qty EXCEPT ![i] = q]
  /\ UNCHANGED <<stock, onHand, ledger, receiptVars, note, saleVars>>

\* Removing a row releases what it reserves and reverses what it issued.  A
\* row whose reservation a sale consumed has nothing left to give back, and
\* removing it changes nothing here.
ReleaseRow(i) ==
  /\ row[i] = "reserved"
  /\ \A s \in Shelf : Goods({i})[s] <= reserved[s]
  /\ reserved' = Minus(reserved, Goods({i}))
  /\ row' = [row EXCEPT ![i] = "removed"]
  /\ UNCHANGED <<stock, onHand, ledger>>

ReverseRowKeepingStock(i) ==
  /\ row[i] = "dispatched"
  /\ onHand' = Plus(onHand, Goods({i}))
  /\ ledger' = Plus(ledger, Goods({i}))
  /\ row' = [row EXCEPT ![i] = "reversed"]
  /\ UNCHANGED <<stock, reserved>>

ReverseRow(i) ==
  /\ row[i] = "dispatched"
  /\ onHand' = Plus(onHand, Goods({i}))
  /\ ledger' = Plus(ledger, Goods({i}))
  /\ stock'  = Plus(stock, PerProduct(Goods({i})))
  /\ row' = [row EXCEPT ![i] = "reversed"]
  /\ UNCHANGED reserved

DeleteDeliveryNoteItem(i) ==
  /\ ReleaseRow(i) \/ ReverseRow(i)
  /\ UNCHANGED <<receiptVars, qty, alloc, note, saleVars>>

\* Every active reservation of the note becomes a stock issue, or none does.
DispatchDeliveryNote(n) ==
  LET S == RowsOf(n) \cap Active
  IN /\ S # {}
     /\ \A i \in S : Consistent(ProductOf[i])
     /\ Consumable(S)
     /\ onHand'   = Minus(onHand, Goods(S))
     /\ reserved' = Minus(reserved, Goods(S))
     /\ ledger'   = Minus(ledger, Goods(S))
     /\ stock'    = Minus(stock, PerProduct(Goods(S)))
     /\ row' = [i \in Item |-> IF i \in S THEN "dispatched" ELSE row[i]]
     /\ UNCHANGED <<receiptVars, qty, alloc, note, saleVars>>

\* A note with a sale, with stock history or with documents made from it stays.
Deletable(n) ==
  /\ note[n] = "open"
  /\ \A i \in RowsOf(n) : row[i] \notin {"dispatched", "sold", "reversed"}

DeleteDeliveryNoteByCascade(n) ==
  /\ Deletable(n)
  /\ row' = [i \in Item |-> IF i \in RowsOf(n) \cap Active THEN "removed" ELSE row[i]]
  /\ note' = [note EXCEPT ![n] = "deleted"]
  /\ UNCHANGED <<stock, onHand, reserved, ledger, receiptVars, qty, alloc, saleVars>>

DeleteDeliveryNote(n) ==
  LET S == RowsOf(n) \cap Active
  IN /\ Deletable(n)
     /\ \A s \in Shelf : Goods(S)[s] <= reserved[s]
     /\ reserved' = Minus(reserved, Goods(S))
     /\ row' = [i \in Item |-> IF i \in S THEN "removed" ELSE row[i]]
     /\ note' = [note EXCEPT ![n] = "deleted"]
     /\ UNCHANGED <<stock, onHand, ledger, receiptVars, qty, alloc, saleVars>>
-----------------------------------------------------------------------------
(* Sales, refunds and transfers.                                           *)

\* A note becomes a sale once.  Reserved rows are consumed by the sale; rows
\* already dispatched keep their issue, which the sale reports as its cost.
SellDeliveryNoteIssuingAgain(n) ==
  LET S == RowsOf(n) \cap Active
      D == {i \in RowsOf(n) : row[i] = "dispatched"}
  IN /\ note[n] = "open"
     /\ S \cup D # {}
     /\ \A i \in S : Consistent(ProductOf[i])
     /\ Consumable(S)
     /\ \A s \in Shelf : Goods(S \cup D)[s] <= Free(s) + Goods(S)[s]
     /\ onHand'   = Minus(onHand, Goods(S \cup D))
     /\ reserved' = Minus(reserved, Goods(S))
     /\ ledger'   = Minus(ledger, Goods(S \cup D))
     /\ stock'    = Minus(stock, PerProduct(Goods(S \cup D)))
     /\ row'  = [i \in Item |-> IF i \in S THEN "sold" ELSE row[i]]
     /\ sold' = [x \in SaleRow |-> IF x \in S \cup D THEN qty[x] ELSE sold[x]]
     /\ note' = [note EXCEPT ![n] = "sold"]
     /\ UNCHANGED <<receiptVars, qty, alloc, refunded, restocked>>

SellDeliveryNote(n) ==
  LET S == RowsOf(n) \cap Active
      D == {i \in RowsOf(n) : row[i] = "dispatched"}
  IN /\ note[n] = "open"
     /\ S \cup D # {}
     /\ \A i \in S : Consistent(ProductOf[i])
     /\ Consumable(S)
     /\ onHand'   = Minus(onHand, Goods(S))
     /\ reserved' = Minus(reserved, Goods(S))
     /\ ledger'   = Minus(ledger, Goods(S))
     /\ stock'    = Minus(stock, PerProduct(Goods(S)))
     /\ row'  = [i \in Item |-> IF i \in S THEN "sold" ELSE row[i]]
     /\ sold' = [x \in SaleRow |-> IF x \in S \cup D THEN qty[x] ELSE sold[x]]
     /\ note' = [note EXCEPT ![n] = "sold"]
     /\ UNCHANGED <<receiptVars, qty, alloc, refunded, restocked>>

SellFromStock(x, q) ==
  /\ sold[x] = 0
  /\ Consistent(ProductOf[x])
  /\ q <= stock[ProductOf[x]]
  /\ \E take \in FirstFit(ProductOf[x], q) :
       /\ onHand' = Minus(onHand, At(ProductOf[x], take))
       /\ ledger' = Minus(ledger, At(ProductOf[x], take))
  /\ stock' = [stock EXCEPT ![ProductOf[x]] = @ - q]
  /\ sold'  = [sold EXCEPT ![x] = q]
  /\ UNCHANGED <<reserved, receiptVars, rowVars, note, refunded, restocked>>

RefundSaleLine(x, q) ==
  /\ q <= sold[x] - refunded[x]
  /\ refunded' = [refunded EXCEPT ![x] = @ + q]
  /\ UNCHANGED <<stock, onHand, reserved, ledger, receiptVars, rowVars, note,
                 sold, restocked>>

RestockRefundedLine(x, q, l) ==
  LET p == ProductOf[x]
  IN /\ q <= sold[x] - refunded[x]
     /\ Consistent(p)
     /\ refunded'  = [refunded EXCEPT ![x] = @ + q]
     /\ restocked' = [restocked EXCEPT ![x] = @ + q]
     /\ onHand' = Plus(onHand, OnShelf(<<p, l>>, q))
     /\ ledger' = Plus(ledger, OnShelf(<<p, l>>, q))
     /\ stock'  = [stock EXCEPT ![p] = @ + q]
     /\ UNCHANGED <<reserved, receiptVars, rowVars, note, sold>>

TransferStock(p, k, l, q) ==
  /\ Consistent(p)
  /\ q <= Free(<<p, k>>)
  /\ onHand' = Plus(Minus(onHand, OnShelf(<<p, k>>, q)), OnShelf(<<p, l>>, q))
  /\ ledger' = Plus(Minus(ledger, OnShelf(<<p, k>>, q)), OnShelf(<<p, l>>, q))
  /\ UNCHANGED <<stock, reserved, receiptVars, rowVars, note, saleVars>>
-----------------------------------------------------------------------------
Init ==
  /\ stock    = [p \in Product |-> 0]
  /\ onHand   = [s \in Shelf |-> 0]
  /\ reserved = [s \in Shelf |-> 0]
  /\ ledger   = [s \in Shelf |-> 0]
  /\ receipt  = [r \in Receipt |-> "none"]
  /\ lines    = [r \in Receipt |-> [s \in Shelf |-> 0]]
  /\ row      = [i \in Item |-> "absent"]
  /\ qty      = [i \in Item |-> 0]
  /\ alloc    = [i \in Item |-> [l \in Location |-> 0]]
  /\ note     = [n \in Note |-> "open"]
  /\ sold      = [x \in SaleRow |-> 0]
  /\ refunded  = [x \in SaleRow |-> 0]
  /\ restocked = [x \in SaleRow |-> 0]

Next ==
  \/ \E r \in Receipt : CreateGoodsReceipt(r)
  \/ \E r \in Receipt, s \in Shelf, q \in Quantity : AddGoodsReceiptLine(r, s, q)
  \/ \E r \in Receipt : PostGoodsReceipt(r)
  \/ \E r \in Receipt : CancelGoodsReceipt(r)
  \/ \E i \in Item, q \in Quantity : AddDeliveryNoteItem(i, q)
  \/ \E i \in Item : DeleteDeliveryNoteItem(i)
  \/ \E n \in Note : DispatchDeliveryNote(n)
  \/ \E n \in Note : DeleteDeliveryNote(n)
  \/ \E n \in Note : SellDeliveryNote(n)
  \/ \E x \in CounterRow, q \in Quantity : SellFromStock(x, q)
  \/ \E x \in SaleRow, q \in Quantity : RefundSaleLine(x, q)
  \/ \E x \in SaleRow, q \in Quantity, l \in Location : RestockRefundedLine(x, q, l)
  \/ \E p \in Product, k, l \in Location, q \in Quantity : TransferStock(p, k, l, q)

Spec == Init /\ [][Next]_vars
-----------------------------------------------------------------------------
(* The type invariant: no quantity of the inventory is ever negative.      *)
TypeOK ==
  /\ stock    \in [Product -> Nat]
  /\ onHand   \in [Shelf -> Nat]
  /\ reserved \in [Shelf -> Nat]
  /\ ledger   \in [Shelf -> Nat]
  /\ receipt  \in [Receipt -> {"none", "draft", "posted", "cancelled"}]
  /\ lines    \in [Receipt -> [Shelf -> Nat]]
  /\ row      \in [Item -> {"absent", "reserved", "dispatched", "sold",
                            "removed", "reversed"}]
  /\ qty      \in [Item -> Nat]
  /\ alloc    \in [Item -> [Location -> Nat]]
  /\ note     \in [Note -> {"open", "sold", "deleted"}]
  /\ sold      \in [SaleRow -> Nat]
  /\ refunded  \in [SaleRow -> Nat]
  /\ restocked \in [SaleRow -> Nat]

(* The product totals and location balances can always be reproduced from  *)
(* the ledger, so the consistency check that guards every posting never    *)
(* stops the business because of a quantity.                               *)
CachesFollowLedger == \A p \in Product : Consistent(p)

(* The reserved quantity of a balance is what the active rows hold there:  *)
(* releasing, consuming and deleting leave no reservation behind and free  *)
(* none of somebody else's.                                                *)
ReservationsBacked == reserved = Goods(Active)

(* Reserved goods are on the shelf: sales, transfers, cancelled receipts   *)
(* and other rows never take them.                                         *)
NoOverReservation == \A s \in Shelf : reserved[s] <= onHand[s]

(* A note that reserved its goods can be dispatched or sold at any later   *)
(* time: none of the checks on the way can refuse it.                      *)
ReservationHonoured == \A n \in Note : Consumable(RowsOf(n) \cap Active)

(* Every unit in stock came from a posted receipt or a customer return and *)
(* has not left with a dispatch or a sale: a dispatched note that is sold  *)
(* is not issued again, a row is released or reversed but not both.        *)
IssuedToRow(p) ==
  [i \in Item |-> IF ProductOf[i] = p /\ row[i] \in {"dispatched", "sold"}
                  THEN qty[i] ELSE 0]
SoldAtCounter(p) == [x \in CounterRow |-> IF ProductOf[x] = p THEN sold[x] ELSE 0]
PostedBy(p) ==
  [r \in Receipt |-> IF receipt[r] = "posted" THEN PerProduct(lines[r])[p] ELSE 0]
ReturnedBy(p) == [x \in SaleRow |-> IF ProductOf[x] = p THEN restocked[x] ELSE 0]

Issued(p)   == Total(Item, IssuedToRow(p)) + Total(CounterRow, SoldAtCounter(p))
Received(p) == Total(Receipt, PostedBy(p)) + Total(SaleRow, ReturnedBy(p))

StockAccountedFor == \A p \in Product : stock[p] + Issued(p) = Received(p)

(* Converting an already dispatched delivery note reuses its stock issue   *)
(* for the cost of the sale: a sale line of a note is backed by goods that *)
(* left the stock.                                                         *)
SaleKeepsItsIssue ==
  \A i \in Item : sold[i] > 0 => row[i] \in {"dispatched", "sold"}
=============================================================================
