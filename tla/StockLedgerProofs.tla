-------------------------- MODULE StockLedgerProofs -------------------------
(***************************************************************************)
(* The invariants of StockLedger hold in every reachable state, for any    *)
(* finite sets of products, locations, receipts and rows.                  *)
(*                                                                         *)
(* IInv is the inductive invariant.  Besides what the runs check it says   *)
(* that the locations of a row's reservation add up to the row's quantity, *)
(* which the checks on consuming a reservation compare.                    *)
(***************************************************************************)
EXTENDS StockLedger, TotalTheorems

AllocationsComplete == \A i \in Item : Total(Location, alloc[i]) = qty[i]

IInv == /\ TypeOK
        /\ CachesFollowLedger
        /\ ReservationsBacked
        /\ NoOverReservation
        /\ AllocationsComplete
-----------------------------------------------------------------------------
(* Quantities on shelves.                                                  *)

LEMMA ShelvesFinite ==
  /\ \A p \in Product : IsFiniteSet(ShelvesOf(p)) /\ ShelvesOf(p) \subseteq Shelf
  /\ IsFiniteSet(Shelf)
<1>1. IsFiniteSet(Product) /\ IsFiniteSet(Location)
  BY SetsAssumption
<1>2. IsFiniteSet(Shelf)
  BY <1>1, FS_Product DEF Shelf
<1>3. ASSUME NEW p \in Product
      PROVE  IsFiniteSet(ShelvesOf(p)) /\ ShelvesOf(p) \subseteq Shelf
  <2>1. ShelvesOf(p) \subseteq Shelf
    BY DEF ShelvesOf, Shelf
  <2> QED BY <1>2, <2>1, FS_Subset
<1> QED BY <1>2, <1>3

LEMMA PerProductType ==
  ASSUME NEW f \in [Shelf -> Nat]
  PROVE  PerProduct(f) \in [Product -> Nat]
<1> SUFFICES ASSUME NEW p \in Product PROVE Total(ShelvesOf(p), f) \in Nat
  BY DEF PerProduct
<1>1. \A s \in ShelvesOf(p) : f[s] \in Nat
  BY ShelvesFinite
<1> QED BY <1>1, ShelvesFinite, TotalNat

LEMMA PlusType ==
  ASSUME NEW S, NEW f \in [S -> Nat], NEW g \in [S -> Nat]
  PROVE  /\ Plus(f, g) \in [S -> Nat]
         /\ \A s \in S : Plus(f, g)[s] = f[s] + g[s]
  BY DEF Plus

LEMMA MinusType ==
  ASSUME NEW S, NEW f \in [S -> Nat], NEW g \in [S -> Nat],
         \A s \in S : g[s] <= f[s]
  PROVE  /\ Minus(f, g) \in [S -> Nat]
         /\ \A s \in S : Minus(f, g)[s] = f[s] - g[s]
  BY DEF Minus

\* Adding goods to shelves adds their product totals.
LEMMA PerProductPlus ==
  ASSUME NEW f \in [Shelf -> Nat], NEW g \in [Shelf -> Nat]
  PROVE  PerProduct(Plus(f, g)) = Plus(PerProduct(f), PerProduct(g))
<1>1. ASSUME NEW p \in Product
      PROVE  Total(ShelvesOf(p), Plus(f, g))
               = Total(ShelvesOf(p), f) + Total(ShelvesOf(p), g)
  <2>1. \A s \in ShelvesOf(p) : /\ f[s] \in Nat /\ g[s] \in Nat
                                /\ Plus(f, g)[s] = f[s] + g[s]
    BY ShelvesFinite, PlusType
  <2> QED BY <2>1, ShelvesFinite, TotalPlus
<1> QED BY <1>1 DEF PerProduct, Plus

\* Taking goods from shelves that hold them takes their product totals.
LEMMA PerProductMinus ==
  ASSUME NEW f \in [Shelf -> Nat], NEW g \in [Shelf -> Nat],
         \A s \in Shelf : g[s] <= f[s]
  PROVE  /\ PerProduct(Minus(f, g)) = Minus(PerProduct(f), PerProduct(g))
         /\ \A p \in Product : PerProduct(g)[p] <= PerProduct(f)[p]
<1>1. ASSUME NEW p \in Product
      PROVE  /\ Total(ShelvesOf(p), Minus(f, g))
                  = Total(ShelvesOf(p), f) - Total(ShelvesOf(p), g)
             /\ Total(ShelvesOf(p), g) <= Total(ShelvesOf(p), f)
  <2>1. \A s \in ShelvesOf(p) : /\ f[s] \in Nat /\ g[s] \in Nat /\ g[s] <= f[s]
                                /\ Minus(f, g)[s] = f[s] - g[s]
    BY ShelvesFinite, MinusType
  <2> QED BY <2>1, ShelvesFinite, TotalMinus
<1> QED BY <1>1 DEF PerProduct, Minus

\* Goods on one shelf count for its product alone.
LEMMA PerProductOnShelf ==
  ASSUME NEW p \in Product, NEW l \in Location, NEW q \in Nat
  PROVE  /\ OnShelf(<<p, l>>, q) \in [Shelf -> Nat]
         /\ PerProduct(OnShelf(<<p, l>>, q))
              = [o \in Product |-> IF o = p THEN q ELSE 0]
<1> DEFINE g == OnShelf(<<p, l>>, q)
<1>1. g \in [Shelf -> Nat]
  BY DEF OnShelf
<1>2. Total(ShelvesOf(p), g) = q
  <2>1. <<p, l>> \in ShelvesOf(p) /\ <<p, l>> \in Shelf
    BY DEF ShelvesOf, Shelf
  <2>2. g[<<p, l>>] = q
    BY <2>1 DEF OnShelf
  <2>3. \A y \in ShelvesOf(p) \ {<<p, l>>} : g[y] = 0
    BY ShelvesFinite DEF OnShelf
  <2> HIDE DEF g
  <2> QED BY <2>1, <2>2, <2>3, ShelvesFinite, TotalOne
<1>3. ASSUME NEW o \in Product, o # p PROVE Total(ShelvesOf(o), g) = 0
  <2>1. \A y \in ShelvesOf(o) : g[y] = 0
    <3>1. \A y \in ShelvesOf(o) : y \in Shelf /\ y[1] = o
      BY ShelvesFinite DEF ShelvesOf
    <3>2. \A y \in ShelvesOf(o) : y # <<p, l>>
      BY <1>3, <3>1
    <3> QED BY <3>1, <3>2 DEF OnShelf
  <2> QED BY <2>1, TotalZero
<1> QED BY <1>1, <1>2, <1>3 DEF PerProduct

\* Goods taken at several locations of one product count for it alone.
LEMMA PerProductAt ==
  ASSUME NEW p \in Product, NEW take \in [Location -> Nat]
  PROVE  /\ At(p, take) \in [Shelf -> Nat]
         /\ PerProduct(At(p, take))
              = [o \in Product |-> IF o = p THEN Total(Location, take) ELSE 0]
<1> DEFINE g == At(p, take)
           e == [l \in Location |-> <<p, l>>]
<1>1. g \in [Shelf -> Nat]
  BY DEF At, Shelf
<1>2. Total(ShelvesOf(p), g) = Total(Location, take)
  <2>1. e \in Bijection(Location, ShelvesOf(p))
    <3>1. e \in [Location -> ShelvesOf(p)]
      BY DEF ShelvesOf
    <3>2. \A k, l \in Location : e[k] = e[l] => k = l
      OBVIOUS
    <3>3. \A s \in ShelvesOf(p) : \E l \in Location : e[l] = s
      BY DEF ShelvesOf
    <3> HIDE DEF e
    <3> QED BY <3>1, <3>2, <3>3 DEF Bijection, Injection, Surjection, IsInjective
  <2>2. \A l \in Location : take[l] \in Nat /\ g[e[l]] = take[l]
    BY DEF At, Shelf
  <2>3. IsFiniteSet(Location)
    BY SetsAssumption
  <2> HIDE DEF g, e
  <2> QED BY <2>1, <2>2, <2>3, TotalReindex
<1>3. ASSUME NEW o \in Product, o # p PROVE Total(ShelvesOf(o), g) = 0
  <2>1. \A y \in ShelvesOf(o) : g[y] = 0
    <3>1. \A y \in ShelvesOf(o) : y \in Shelf /\ y[1] = o
      BY ShelvesFinite DEF ShelvesOf
    <3> QED BY <1>3, <3>1 DEF At
  <2> QED BY <2>1, TotalZero
<1> QED BY <1>1, <1>2, <1>3 DEF PerProduct
-----------------------------------------------------------------------------
(* The goods of rows.                                                      *)

LEMMA RowTypes ==
  /\ IsFiniteSet(Item) /\ IsFiniteSet(Location)
  /\ \A x \in SaleRow : ProductOf[x] \in Product
  /\ \A i \in Item : i \in SaleRow
  BY SetsAssumption, RowAssumption DEF SaleRow

LEMMA PartType ==
  ASSUME TypeOK, NEW s \in Shelf
  PROVE  \A i \in Item : Part(s)[i] \in Nat
<1>1. s[2] \in Location
  BY DEF Shelf
<1>2. \A i \in Item : alloc[i][s[2]] \in Nat
  BY <1>1 DEF TypeOK
<1> QED BY <1>2 DEF Part

LEMMA GoodsType ==
  ASSUME TypeOK, NEW S \in SUBSET Item
  PROVE  Goods(S) \in [Shelf -> Nat]
<1> SUFFICES ASSUME NEW s \in Shelf PROVE Total(S, Part(s)) \in Nat
  BY DEF Goods
<1>1. IsFiniteSet(S)
  BY RowTypes, FS_Subset
<1>2. \A i \in S : Part(s)[i] \in Nat
  BY PartType
<1> QED BY <1>1, <1>2, TotalNat

\* Some of the rows hold part of the goods of all of them.
LEMMA GoodsSplit ==
  ASSUME TypeOK, NEW S \in SUBSET Item, NEW T \in SUBSET S
  PROVE  /\ Goods(S \ T) = Minus(Goods(S), Goods(T))
         /\ \A s \in Shelf : Goods(T)[s] <= Goods(S)[s]
<1>1. ASSUME NEW s \in Shelf
      PROVE  /\ Total(S \ T, Part(s)) = Total(S, Part(s)) - Total(T, Part(s))
             /\ Total(T, Part(s)) <= Total(S, Part(s))
  <2>1. IsFiniteSet(S)
    BY RowTypes, FS_Subset
  <2>2. \A i \in S : Part(s)[i] \in Nat
    BY PartType
  <2> QED BY <2>1, <2>2, TotalSplit
<1> QED BY <1>1 DEF Goods, Minus
-----------------------------------------------------------------------------
(* Steps that move goods.                                                  *)

\* The caches follow the ledger when they are the functions it determines.
LEMMA CachesAsFunctions ==
  ASSUME NEW st \in [Product -> Nat], NEW oh \in [Shelf -> Nat],
         NEW le \in [Shelf -> Nat]
  PROVE  (\A p \in Product : /\ \A s \in ShelvesOf(p) : oh[s] = le[s]
                             /\ st[p] = Total(ShelvesOf(p), le))
           <=> oh = le /\ st = PerProduct(le)
<1>1. ASSUME \A p \in Product : \A s \in ShelvesOf(p) : oh[s] = le[s]
      PROVE  oh = le
  <2>1. \A s \in Shelf : s[1] \in Product /\ s \in ShelvesOf(s[1])
    BY DEF Shelf, ShelvesOf
  <2>2. \A s \in Shelf : oh[s] = le[s]
    BY <1>1, <2>1
  <2> QED BY <2>2
<1>2. (\A p \in Product : st[p] = Total(ShelvesOf(p), le)) <=> st = PerProduct(le)
  BY DEF PerProduct
<1> QED BY <1>1, <1>2

LEMMA AddGoods ==
  ASSUME TypeOK, CachesFollowLedger, NEW g \in [Shelf -> Nat],
         onHand' = Plus(onHand, g), ledger' = Plus(ledger, g),
         stock' = Plus(stock, PerProduct(g))
  PROVE  /\ stock' \in [Product -> Nat]
         /\ onHand' \in [Shelf -> Nat] /\ ledger' \in [Shelf -> Nat]
         /\ CachesFollowLedger'
         /\ \A s \in Shelf : onHand[s] <= onHand'[s]
<1>1. /\ stock \in [Product -> Nat]
      /\ onHand \in [Shelf -> Nat] /\ ledger \in [Shelf -> Nat]
  BY DEF TypeOK
<1>2. onHand = ledger /\ stock = PerProduct(ledger)
  BY <1>1, CachesAsFunctions DEF CachesFollowLedger, Consistent
<1>3. /\ onHand' \in [Shelf -> Nat] /\ ledger' \in [Shelf -> Nat]
      /\ \A s \in Shelf : onHand'[s] = onHand[s] + g[s]
  BY <1>1, PlusType
<1>4. stock' \in [Product -> Nat]
  BY <1>1, PerProductType, PlusType
<1>5. onHand' = ledger' /\ stock' = PerProduct(ledger')
  BY <1>1, <1>2, PerProductPlus
<1>6. CachesFollowLedger'
  BY <1>3, <1>4, <1>5, CachesAsFunctions DEF CachesFollowLedger, Consistent
<1> QED BY <1>1, <1>3, <1>4, <1>6

LEMMA TakeGoods ==
  ASSUME TypeOK, CachesFollowLedger, NEW g \in [Shelf -> Nat],
         \A s \in Shelf : g[s] <= onHand[s],
         onHand' = Minus(onHand, g), ledger' = Minus(ledger, g),
         stock' = Minus(stock, PerProduct(g))
  PROVE  /\ stock' \in [Product -> Nat]
         /\ onHand' \in [Shelf -> Nat] /\ ledger' \in [Shelf -> Nat]
         /\ CachesFollowLedger'
         /\ \A s \in Shelf : onHand'[s] = onHand[s] - g[s]
<1>1. /\ stock \in [Product -> Nat]
      /\ onHand \in [Shelf -> Nat] /\ ledger \in [Shelf -> Nat]
  BY DEF TypeOK
<1>2. onHand = ledger /\ stock = PerProduct(ledger)
  BY <1>1, CachesAsFunctions DEF CachesFollowLedger, Consistent
<1>3. /\ onHand' \in [Shelf -> Nat] /\ ledger' \in [Shelf -> Nat]
      /\ \A s \in Shelf : onHand'[s] = onHand[s] - g[s]
  BY <1>1, <1>2, MinusType
<1>4. /\ PerProduct(ledger') = Minus(PerProduct(ledger), PerProduct(g))
      /\ \A p \in Product : PerProduct(g)[p] <= PerProduct(ledger)[p]
  BY <1>1, <1>2, PerProductMinus
<1>5. stock' \in [Product -> Nat]
  BY <1>1, <1>2, <1>4, PerProductType, MinusType
<1>6. onHand' = ledger' /\ stock' = PerProduct(ledger')
  BY <1>2, <1>4
<1>7. CachesFollowLedger'
  BY <1>3, <1>5, <1>6, CachesAsFunctions DEF CachesFollowLedger, Consistent
<1> QED BY <1>3, <1>5, <1>7

\* Nothing is reserved or released.
LEMMA KeepReservations ==
  ASSUME ReservationsBacked, UNCHANGED <<reserved, alloc>>, Active' = Active
  PROVE  ReservationsBacked'
  BY DEF ReservationsBacked, Goods, Part

\* The rows T, and they alone, stop holding goods.
LEMMA DropReservations ==
  ASSUME TypeOK, ReservationsBacked, NEW T \in SUBSET Active,
         alloc' = alloc, Active' = Active \ T,
         reserved' = Minus(reserved, Goods(T))
  PROVE  /\ reserved' \in [Shelf -> Nat]
         /\ ReservationsBacked'
         /\ \A s \in Shelf : /\ Goods(T)[s] <= reserved[s]
                             /\ reserved'[s] = reserved[s] - Goods(T)[s]
<1>1. Active \in SUBSET Item /\ T \in SUBSET Item
  BY DEF Active
<1>2. reserved = Goods(Active) /\ reserved \in [Shelf -> Nat]
  BY DEF ReservationsBacked, TypeOK
<1>3. /\ Goods(Active \ T) = Minus(Goods(Active), Goods(T))
      /\ \A s \in Shelf : Goods(T)[s] <= Goods(Active)[s]
  BY <1>1, GoodsSplit
<1>4. Goods(T) \in [Shelf -> Nat]
  BY <1>1, GoodsType
<1>5. /\ reserved' \in [Shelf -> Nat]
      /\ \A s \in Shelf : reserved'[s] = reserved[s] - Goods(T)[s]
  BY <1>2, <1>3, <1>4, MinusType
<1>6. ReservationsBacked'
  <2>1. Goods(Active)' = Goods(Active \ T)
    BY DEF Goods, Part
  <2> QED BY <1>2, <1>3, <2>1 DEF ReservationsBacked
<1> QED BY <1>2, <1>3, <1>5, <1>6
-----------------------------------------------------------------------------
(* The inductive invariant.                                                *)

LEMMA InitIInv == Init => IInv
<1> SUFFICES ASSUME Init PROVE IInv
  OBVIOUS
<1>1. TypeOK
  BY DEF Init, TypeOK
<1>2. CachesFollowLedger
  <2>1. ASSUME NEW p \in Product PROVE Total(ShelvesOf(p), ledger) = 0
    <3>1. \A s \in ShelvesOf(p) : ledger[s] = 0
      BY ShelvesFinite DEF Init
    <3> QED BY <3>1, TotalZero
  <2> QED BY <2>1, ShelvesFinite DEF Init, CachesFollowLedger, Consistent
<1>3. ReservationsBacked
  <2>1. Active = {}
    BY DEF Init, Active
  <2>2. Goods({}) = [s \in Shelf |-> 0]
    BY TotalEmpty DEF Goods
  <2> QED BY <2>1, <2>2 DEF Init, ReservationsBacked
<1>4. NoOverReservation
  BY DEF Init, NoOverReservation
<1>5. AllocationsComplete
  <2>1. ASSUME NEW i \in Item PROVE Total(Location, alloc[i]) = 0
    <3>1. \A l \in Location : alloc[i][l] = 0
      BY DEF Init
    <3> QED BY <3>1, TotalZero
  <2> QED BY <2>1 DEF Init, AllocationsComplete
<1> QED BY <1>1, <1>2, <1>3, <1>4, <1>5 DEF IInv

LEMMA ReceiptSteps ==
  ASSUME IInv, NEW r \in Receipt,
         \/ CreateGoodsReceipt(r)
         \/ \E s \in Shelf, q \in Quantity : AddGoodsReceiptLine(r, s, q)
         \/ PostGoodsReceipt(r) \/ CancelGoodsReceipt(r)
  PROVE  IInv'
<1> USE DEF IInv
<1>0. lines[r] \in [Shelf -> Nat]
  BY DEF TypeOK
<1>1. CASE CreateGoodsReceipt(r)
  <2>1. TypeOK'
    BY <1>1 DEF CreateGoodsReceipt, TypeOK, rowVars, saleVars
  <2>2. CachesFollowLedger' /\ NoOverReservation' /\ AllocationsComplete'
    BY <1>1 DEF CreateGoodsReceipt, CachesFollowLedger, Consistent,
                NoOverReservation, AllocationsComplete, rowVars
  <2>3. ReservationsBacked'
    BY <1>1, KeepReservations DEF CreateGoodsReceipt, rowVars, Active
  <2> QED BY <2>1, <2>2, <2>3
<1>2. ASSUME NEW s \in Shelf, NEW q \in Quantity, AddGoodsReceiptLine(r, s, q)
      PROVE  IInv'
  <2>1. OnShelf(s, q) \in [Shelf -> Nat]
    BY QuantityAssumption DEF OnShelf
  <2>2. Plus(lines[r], OnShelf(s, q)) \in [Shelf -> Nat]
    BY <1>0, <2>1, PlusType
  <2>3. TypeOK'
    BY <1>2, <2>2 DEF AddGoodsReceiptLine, TypeOK, rowVars, saleVars
  <2>4. CachesFollowLedger' /\ NoOverReservation' /\ AllocationsComplete'
    BY <1>2 DEF AddGoodsReceiptLine, CachesFollowLedger, Consistent,
                NoOverReservation, AllocationsComplete, rowVars
  <2>5. ReservationsBacked'
    BY <1>2, KeepReservations DEF AddGoodsReceiptLine, rowVars, Active
  <2> QED BY <2>3, <2>4, <2>5
<1>3. CASE PostGoodsReceipt(r)
  <2>1. /\ stock' \in [Product -> Nat]
        /\ onHand' \in [Shelf -> Nat] /\ ledger' \in [Shelf -> Nat]
        /\ CachesFollowLedger'
        /\ \A s \in Shelf : onHand[s] <= onHand'[s]
    BY <1>0, <1>3, AddGoods DEF PostGoodsReceipt
  <2>2. TypeOK'
    BY <1>3, <2>1 DEF PostGoodsReceipt, TypeOK, rowVars, saleVars
  <2>3. NoOverReservation'
    BY <1>3, <2>1 DEF PostGoodsReceipt, NoOverReservation, TypeOK
  <2>4. ReservationsBacked' /\ AllocationsComplete'
    BY <1>3, KeepReservations
       DEF PostGoodsReceipt, rowVars, Active, AllocationsComplete
  <2> QED BY <2>1, <2>2, <2>3, <2>4
<1>4. CASE CancelGoodsReceipt(r)
  <2>1. \A s \in Shelf : /\ lines[r][s] <= onHand[s]
                         /\ reserved[s] <= onHand[s] - lines[r][s]
    <3> SUFFICES ASSUME NEW s \in Shelf
                 PROVE  /\ lines[r][s] <= onHand[s]
                        /\ reserved[s] <= onHand[s] - lines[r][s]
      OBVIOUS
    <3>1. onHand[s] \in Nat /\ reserved[s] \in Nat /\ lines[r][s] \in Nat
      BY <1>0 DEF TypeOK
    <3>2. reserved[s] <= onHand[s]
      BY DEF NoOverReservation
    <3>3. lines[r][s] > 0 => onHand[s] - lines[r][s] >= reserved[s]
      BY <1>4 DEF CancelGoodsReceipt, Cancellable
    <3> QED BY <3>1, <3>2, <3>3
  <2>2. /\ stock' \in [Product -> Nat]
        /\ onHand' \in [Shelf -> Nat] /\ ledger' \in [Shelf -> Nat]
        /\ CachesFollowLedger'
        /\ \A s \in Shelf : onHand'[s] = onHand[s] - lines[r][s]
    BY <1>0, <1>4, <2>1, TakeGoods DEF CancelGoodsReceipt
  <2>3. TypeOK'
    BY <1>4, <2>2 DEF CancelGoodsReceipt, TypeOK, rowVars, saleVars
  <2>4. NoOverReservation'
    BY <1>4, <2>1, <2>2 DEF CancelGoodsReceipt, NoOverReservation
  <2>5. ReservationsBacked' /\ AllocationsComplete'
    BY <1>4, KeepReservations
       DEF CancelGoodsReceipt, rowVars, Active, AllocationsComplete
  <2> QED BY <2>2, <2>3, <2>4, <2>5
<1> QED BY <1>1, <1>2, <1>3, <1>4

\* What first fit takes is free, and adds up to what was asked for.
LEMMA FirstFitTakes ==
  ASSUME IInv, NEW p \in Product, NEW q \in Nat, NEW take \in FirstFit(p, q)
  PROVE  /\ take \in [Location -> Nat] /\ Total(Location, take) = q
         /\ At(p, take) \in [Shelf -> Nat]
         /\ \A s \in Shelf : At(p, take)[s] + reserved[s] <= onHand[s]
<1>1. /\ take \in [Location -> Nat] /\ Total(Location, take) = q
      /\ \A l \in Location : take[l] <= Free(<<p, l>>)
  BY DEF FirstFit
<1>2. At(p, take) \in [Shelf -> Nat]
  BY <1>1, PerProductAt
<1>3. ASSUME NEW s \in Shelf PROVE At(p, take)[s] + reserved[s] <= onHand[s]
  <2>1. onHand[s] \in Nat /\ reserved[s] \in Nat /\ reserved[s] <= onHand[s]
    BY DEF IInv, TypeOK, NoOverReservation
  <2>2. Free(s) = onHand[s] - reserved[s]
    BY <2>1 DEF Free
  <2>3. CASE s[1] = p
    <3>1. s[2] \in Location /\ s = <<p, s[2]>>
      BY <2>3 DEF Shelf
    <3>2. take[s[2]] <= Free(s)
      BY <1>1, <3>1
    <3>3. At(p, take)[s] = take[s[2]] /\ take[s[2]] \in Nat
      BY <1>1, <2>3, <3>1 DEF At
    <3> QED BY <2>1, <2>2, <3>2, <3>3
  <2>4. CASE s[1] # p
    <3>1. At(p, take)[s] = 0
      BY <2>4 DEF At
    <3> QED BY <2>1, <3>1
  <2> QED BY <2>3, <2>4
<1> QED BY <1>1, <1>2, <1>3

LEMMA AddItemStep ==
  ASSUME IInv, NEW i \in Item, NEW q \in Quantity, AddDeliveryNoteItem(i, q)
  PROVE  IInv'
<1> USE DEF IInv
<1> DEFINE p == ProductOf[i]
<1>1. q \in Nat /\ p \in Product
  BY QuantityAssumption, RowTypes
<1>2. PICK take \in FirstFit(p, q) : /\ alloc' = [alloc EXCEPT ![i] = take]
                                     /\ reserved' = Plus(reserved, At(p, take))
  BY DEF AddDeliveryNoteItem
<1> HIDE DEF p
<1>3. /\ take \in [Location -> Nat] /\ Total(Location, take) = q
      /\ At(p, take) \in [Shelf -> Nat]
      /\ \A s \in Shelf : At(p, take)[s] + reserved[s] <= onHand[s]
  BY <1>1, <1>2, FirstFitTakes
<1>4. /\ reserved' \in [Shelf -> Nat]
      /\ \A s \in Shelf : reserved'[s] = reserved[s] + At(p, take)[s]
  <2>1. reserved \in [Shelf -> Nat]
    BY DEF TypeOK
  <2> QED BY <1>2, <1>3, <2>1, PlusType
<1>5. TypeOK'
  <2>1. alloc' \in [Item -> [Location -> Nat]]
    BY <1>2, <1>3 DEF TypeOK
  <2>2. /\ qty' \in [Item -> Nat]
        /\ row' \in [Item -> {"absent", "reserved", "dispatched", "sold",
                             "removed", "reversed"}]
    BY <1>1 DEF AddDeliveryNoteItem, TypeOK
  <2> QED BY <1>4, <2>1, <2>2
          DEF AddDeliveryNoteItem, TypeOK, receiptVars, saleVars
<1>6. CachesFollowLedger'
  BY DEF AddDeliveryNoteItem, CachesFollowLedger, Consistent
<1>7. NoOverReservation'
  <2> SUFFICES ASSUME NEW s \in Shelf PROVE reserved'[s] <= onHand'[s]
    BY DEF NoOverReservation
  <2>1. onHand'[s] = onHand[s] /\ At(p, take)[s] \in Nat /\ reserved[s] \in Nat
    BY <1>3 DEF AddDeliveryNoteItem, TypeOK
  <2> QED BY <1>3, <1>4, <2>1
<1>8. AllocationsComplete'
  BY <1>1, <1>2, <1>3 DEF AddDeliveryNoteItem, AllocationsComplete, TypeOK
<1>9. ReservationsBacked'
  <2>1. i \notin Active /\ Active' = Active \cup {i} /\ Active \in SUBSET Item
    BY DEF AddDeliveryNoteItem, Active, TypeOK
  <2>2. ASSUME NEW s \in Shelf
        PROVE  Total(Active', Part(s)') = reserved[s] + At(p, take)[s]
    <3>1. \A j \in Active : Part(s)'[j] = Part(s)[j]
      BY <1>2, <2>1 DEF Part
    <3>2. Part(s)'[i] = At(p, take)[s]
      BY <1>2, <1>3 DEF Part, At, TypeOK, p
    <3>3. \A j \in Active : Part(s)[j] \in Nat
      BY <2>1, PartType
    <3>4. \A j \in Active \cup {i} : Part(s)'[j] \in Nat
      BY <1>3, <3>1, <3>2, <3>3
    <3>5. IsFiniteSet(Active) /\ IsFiniteSet({i}) /\ Active \cap {i} = {}
      BY <2>1, RowTypes, FS_Subset, FS_Singleton
    <3>6. Total(Active \cup {i}, Part(s)')
            = Total(Active, Part(s)') + Total({i}, Part(s)')
      BY <3>4, <3>5, TotalUnion
    <3>7. Total({i}, Part(s)') = At(p, take)[s]
      BY <3>2, <3>4, TotalSingleton
    <3>8. Total(Active, Part(s)') = Total(Active, Part(s))
      BY <3>1, TotalCongruence
    <3>9. Total(Active, Part(s)) = reserved[s]
      BY DEF ReservationsBacked, Goods
    <3> QED BY <2>1, <3>6, <3>7, <3>8, <3>9
  <2>3. Goods(Active)' = [s \in Shelf |-> Total(Active', Part(s)')]
    BY DEF Goods
  <2>4. Plus(reserved, At(p, take)) = [s \in Shelf |-> reserved[s] + At(p, take)[s]]
    BY DEF Plus, TypeOK
  <2>5. Goods(Active)' = Plus(reserved, At(p, take))
    BY <2>2, <2>3, <2>4
  <2> QED BY <1>2, <2>5 DEF ReservationsBacked
<1> QED BY <1>5, <1>6, <1>7, <1>8, <1>9

LEMMA DeleteItemStep ==
  ASSUME IInv, NEW i \in Item, DeleteDeliveryNoteItem(i)
  PROVE  IInv'
<1> USE DEF IInv
<1>1. AllocationsComplete'
  BY DEF DeleteDeliveryNoteItem, AllocationsComplete
<1>2. CASE ReleaseRow(i)
  <2>1. {i} \in SUBSET Active /\ Active' = Active \ {i}
    BY <1>2 DEF ReleaseRow, Active, TypeOK
  <2>2. /\ reserved' \in [Shelf -> Nat]
        /\ ReservationsBacked'
        /\ \A s \in Shelf : /\ Goods({i})[s] <= reserved[s]
                            /\ reserved'[s] = reserved[s] - Goods({i})[s]
    BY <1>2, <2>1, DropReservations DEF ReleaseRow, DeleteDeliveryNoteItem
  <2>3. TypeOK'
    BY <1>2, <2>2 DEF ReleaseRow, DeleteDeliveryNoteItem, TypeOK, receiptVars, saleVars
  <2>4. CachesFollowLedger'
    BY <1>2 DEF ReleaseRow, CachesFollowLedger, Consistent
  <2>5. NoOverReservation'
    <3> SUFFICES ASSUME NEW s \in Shelf PROVE reserved'[s] <= onHand'[s]
      BY DEF NoOverReservation
    <3>1. Goods({i}) \in [Shelf -> Nat]
      BY GoodsType
    <3>2. /\ onHand'[s] = onHand[s] /\ reserved[s] <= onHand[s]
          /\ onHand[s] \in Nat /\ reserved[s] \in Nat /\ Goods({i})[s] \in Nat
      BY <1>2, <3>1 DEF ReleaseRow, NoOverReservation, TypeOK
    <3> QED BY <2>2, <3>2
  <2> QED BY <1>1, <2>2, <2>3, <2>4, <2>5
<1>3. CASE ReverseRow(i)
  <2>1. Goods({i}) \in [Shelf -> Nat]
    BY GoodsType
  <2>2. /\ stock' \in [Product -> Nat]
        /\ onHand' \in [Shelf -> Nat] /\ ledger' \in [Shelf -> Nat]
        /\ CachesFollowLedger'
        /\ \A s \in Shelf : onHand[s] <= onHand'[s]
    BY <1>3, <2>1, AddGoods DEF ReverseRow
  <2>3. TypeOK'
    BY <1>3, <2>2 DEF ReverseRow, DeleteDeliveryNoteItem, TypeOK, receiptVars, saleVars
  <2>4. NoOverReservation'
    <3> SUFFICES ASSUME NEW s \in Shelf PROVE reserved'[s] <= onHand'[s]
      BY DEF NoOverReservation
    <3>1. /\ reserved'[s] = reserved[s] /\ reserved[s] <= onHand[s]
          /\ reserved[s] \in Nat /\ onHand[s] \in Nat /\ onHand'[s] \in Nat
      BY <1>3, <2>2 DEF ReverseRow, NoOverReservation, TypeOK
    <3> QED BY <2>2, <3>1
  <2>5. ReservationsBacked'
    <3>1. Active' = Active
      BY <1>3 DEF ReverseRow, Active, TypeOK
    <3> QED BY <1>3, <3>1, KeepReservations DEF ReverseRow, DeleteDeliveryNoteItem
  <2> QED BY <1>1, <2>2, <2>3, <2>4, <2>5
<1> QED BY <1>2, <1>3 DEF DeleteDeliveryNoteItem

\* Goods that active rows hold are on their shelves.
LEMMA ActiveGoodsOnHand ==
  ASSUME IInv, NEW S \in SUBSET Active
  PROVE  /\ Goods(S) \in [Shelf -> Nat]
         /\ \A s \in Shelf : /\ Goods(S)[s] <= reserved[s]
                             /\ reserved[s] <= onHand[s]
                             /\ Goods(S)[s] <= onHand[s]
<1> USE DEF IInv
<1>1. Active \in SUBSET Item /\ S \in SUBSET Item
  BY DEF Active
<1>2. Goods(S) \in [Shelf -> Nat]
  BY <1>1, GoodsType
<1>3. ASSUME NEW s \in Shelf
      PROVE  /\ Goods(S)[s] <= reserved[s]
             /\ reserved[s] <= onHand[s]
             /\ Goods(S)[s] <= onHand[s]
  <2>1. Goods(S)[s] <= Goods(Active)[s]
    BY <1>1, GoodsSplit
  <2>2. reserved[s] = Goods(Active)[s] /\ reserved[s] <= onHand[s]
    BY DEF ReservationsBacked, NoOverReservation
  <2>3. Goods(S)[s] \in Nat /\ reserved[s] \in Nat /\ onHand[s] \in Nat
    BY <1>2 DEF TypeOK
  <2> QED BY <2>1, <2>2, <2>3
<1> QED BY <1>2, <1>3

\* Consuming the reservations of the rows S: dispatch and sale.
LEMMA ConsumeGoods ==
  ASSUME IInv, NEW S \in SUBSET Active,
         onHand' = Minus(onHand, Goods(S)), reserved' = Minus(reserved, Goods(S)),
         ledger' = Minus(ledger, Goods(S)),
         stock' = Minus(stock, PerProduct(Goods(S))),
         Active' = Active \ S, UNCHANGED <<qty, alloc>>
  PROVE  /\ stock' \in [Product -> Nat]
         /\ onHand' \in [Shelf -> Nat] /\ ledger' \in [Shelf -> Nat]
         /\ reserved' \in [Shelf -> Nat]
         /\ CachesFollowLedger' /\ ReservationsBacked'
         /\ NoOverReservation' /\ AllocationsComplete'
<1> USE DEF IInv
<1>1. /\ Goods(S) \in [Shelf -> Nat]
      /\ \A s \in Shelf : /\ Goods(S)[s] <= reserved[s]
                          /\ reserved[s] <= onHand[s]
                          /\ Goods(S)[s] <= onHand[s]
  BY ActiveGoodsOnHand
<1>2. /\ stock' \in [Product -> Nat]
      /\ onHand' \in [Shelf -> Nat] /\ ledger' \in [Shelf -> Nat]
      /\ CachesFollowLedger'
      /\ \A s \in Shelf : onHand'[s] = onHand[s] - Goods(S)[s]
  BY <1>1, TakeGoods
<1>3. /\ reserved' \in [Shelf -> Nat]
      /\ ReservationsBacked'
      /\ \A s \in Shelf : reserved'[s] = reserved[s] - Goods(S)[s]
  BY DropReservations
<1>4. NoOverReservation'
  <2> SUFFICES ASSUME NEW s \in Shelf PROVE reserved'[s] <= onHand'[s]
    BY DEF NoOverReservation
  <2>1. Goods(S)[s] \in Nat /\ reserved[s] \in Nat /\ onHand[s] \in Nat
    BY <1>1 DEF TypeOK
  <2> QED BY <1>1, <1>2, <1>3, <2>1
<1>5. AllocationsComplete'
  BY DEF AllocationsComplete
<1> QED BY <1>2, <1>3, <1>4, <1>5

LEMMA DispatchStep ==
  ASSUME IInv, NEW n \in Note, DispatchDeliveryNote(n)
  PROVE  IInv'
<1> DEFINE S == RowsOf(n) \cap Active
<1>1. /\ onHand' = Minus(onHand, Goods(S)) /\ reserved' = Minus(reserved, Goods(S))
      /\ ledger' = Minus(ledger, Goods(S))
      /\ stock' = Minus(stock, PerProduct(Goods(S)))
      /\ row' = [i \in Item |-> IF i \in S THEN "dispatched" ELSE row[i]]
      /\ UNCHANGED <<receiptVars, qty, alloc, note, saleVars>>
  BY DEF DispatchDeliveryNote
<1>2. S \in SUBSET Active /\ Active' = Active \ S
  BY <1>1 DEF Active
<1> HIDE DEF S
<1>3. /\ stock' \in [Product -> Nat]
      /\ onHand' \in [Shelf -> Nat] /\ ledger' \in [Shelf -> Nat]
      /\ reserved' \in [Shelf -> Nat]
      /\ CachesFollowLedger' /\ ReservationsBacked'
      /\ NoOverReservation' /\ AllocationsComplete'
  BY <1>1, <1>2, ConsumeGoods
<1>4. TypeOK'
  BY <1>1, <1>3 DEF IInv, TypeOK, receiptVars, saleVars
<1> QED BY <1>3, <1>4 DEF IInv

LEMMA SellNoteStep ==
  ASSUME IInv, NEW n \in Note, SellDeliveryNote(n)
  PROVE  IInv'
<1> DEFINE S == RowsOf(n) \cap Active
           D == {i \in RowsOf(n) : row[i] = "dispatched"}
<1>1. /\ onHand' = Minus(onHand, Goods(S)) /\ reserved' = Minus(reserved, Goods(S))
      /\ ledger' = Minus(ledger, Goods(S))
      /\ stock' = Minus(stock, PerProduct(Goods(S)))
      /\ row' = [i \in Item |-> IF i \in S THEN "sold" ELSE row[i]]
      /\ sold' = [x \in SaleRow |-> IF x \in S \cup D THEN qty[x] ELSE sold[x]]
      /\ note' = [note EXCEPT ![n] = "sold"]
      /\ UNCHANGED <<receiptVars, qty, alloc, refunded, restocked>>
  BY DEF SellDeliveryNote
<1>2. S \in SUBSET Active /\ Active' = Active \ S
  BY <1>1 DEF Active
<1>3. S \cup D \in SUBSET Item
  BY DEF Active, RowsOf
<1> HIDE DEF S, D
<1>4. /\ stock' \in [Product -> Nat]
      /\ onHand' \in [Shelf -> Nat] /\ ledger' \in [Shelf -> Nat]
      /\ reserved' \in [Shelf -> Nat]
      /\ CachesFollowLedger' /\ ReservationsBacked'
      /\ NoOverReservation' /\ AllocationsComplete'
  BY <1>1, <1>2, ConsumeGoods
<1>5. sold' \in [SaleRow -> Nat]
  BY <1>1, <1>3 DEF IInv, TypeOK
<1>6. TypeOK'
  BY <1>1, <1>4, <1>5 DEF IInv, TypeOK, receiptVars
<1> QED BY <1>4, <1>6 DEF IInv

LEMMA DeleteNoteStep ==
  ASSUME IInv, NEW n \in Note, DeleteDeliveryNote(n)
  PROVE  IInv'
<1> USE DEF IInv
<1> DEFINE S == RowsOf(n) \cap Active
<1>1. /\ reserved' = Minus(reserved, Goods(S))
      /\ row' = [i \in Item |-> IF i \in S THEN "removed" ELSE row[i]]
      /\ note' = [note EXCEPT ![n] = "deleted"]
      /\ UNCHANGED <<stock, onHand, ledger, receiptVars, qty, alloc, saleVars>>
  BY DEF DeleteDeliveryNote
<1>2. S \in SUBSET Active /\ Active' = Active \ S
  BY <1>1 DEF Active
<1> HIDE DEF S
<1>3. /\ reserved' \in [Shelf -> Nat]
      /\ ReservationsBacked'
      /\ \A s \in Shelf : reserved'[s] = reserved[s] - Goods(S)[s]
  BY <1>1, <1>2, DropReservations
<1>4. TypeOK'
  BY <1>1, <1>3 DEF TypeOK, receiptVars, saleVars
<1>5. CachesFollowLedger' /\ AllocationsComplete'
  BY <1>1 DEF CachesFollowLedger, Consistent, AllocationsComplete
<1>6. NoOverReservation'
  <2> SUFFICES ASSUME NEW s \in Shelf PROVE reserved'[s] <= onHand'[s]
    BY DEF NoOverReservation
  <2>1. Goods(S) \in [Shelf -> Nat] /\ reserved[s] <= onHand[s]
    BY <1>2, ActiveGoodsOnHand
  <2>2. Goods(S)[s] \in Nat /\ reserved[s] \in Nat /\ onHand[s] \in Nat
    BY <2>1 DEF TypeOK
  <2> QED BY <1>1, <1>3, <2>1, <2>2
<1> QED BY <1>3, <1>4, <1>5, <1>6

LEMMA SellFromStockStep ==
  ASSUME IInv, NEW x \in CounterRow, NEW q \in Quantity, SellFromStock(x, q)
  PROVE  IInv'
<1> USE DEF IInv
<1> DEFINE p == ProductOf[x]
<1>1. q \in Nat /\ p \in Product /\ x \in SaleRow
  BY QuantityAssumption, RowTypes DEF SaleRow
<1>2. PICK take \in FirstFit(p, q) : /\ onHand' = Minus(onHand, At(p, take))
                                     /\ ledger' = Minus(ledger, At(p, take))
  BY DEF SellFromStock
<1>3. stock' = [stock EXCEPT ![p] = @ - q]
  BY DEF SellFromStock
<1> HIDE DEF p
<1>4. /\ take \in [Location -> Nat] /\ Total(Location, take) = q
      /\ At(p, take) \in [Shelf -> Nat]
      /\ \A s \in Shelf : At(p, take)[s] + reserved[s] <= onHand[s]
  BY <1>1, <1>2, FirstFitTakes
<1>5. stock' = Minus(stock, PerProduct(At(p, take)))
  <2>1. PerProduct(At(p, take)) = [o \in Product |-> IF o = p THEN q ELSE 0]
    BY <1>1, <1>4, PerProductAt
  <2>2. stock \in [Product -> Nat]
    BY DEF TypeOK
  <2>3. stock' = [o \in Product |-> IF o = p THEN stock[o] - q ELSE stock[o]]
    BY <1>1, <1>3, <2>2
  <2>4. Minus(stock, PerProduct(At(p, take))) = [o \in Product |-> stock[o] - PerProduct(At(p, take))[o]]
    BY <2>2 DEF Minus
  <2>5. \A o \in Product : stock[o] - PerProduct(At(p, take))[o]
                            = IF o = p THEN stock[o] - q ELSE stock[o]
    BY <1>1, <2>1, <2>2
  <2> QED BY <2>3, <2>4, <2>5
<1>6. \A s \in Shelf : /\ At(p, take)[s] \in Nat /\ reserved[s] \in Nat
                       /\ onHand[s] \in Nat /\ At(p, take)[s] <= onHand[s]
  <2> SUFFICES ASSUME NEW s \in Shelf
               PROVE  /\ At(p, take)[s] \in Nat /\ reserved[s] \in Nat
                      /\ onHand[s] \in Nat /\ At(p, take)[s] <= onHand[s]
    OBVIOUS
  <2>1. At(p, take)[s] \in Nat /\ reserved[s] \in Nat /\ onHand[s] \in Nat
    BY <1>4 DEF TypeOK
  <2> QED BY <1>4, <2>1
<1>7. /\ stock' \in [Product -> Nat]
      /\ onHand' \in [Shelf -> Nat] /\ ledger' \in [Shelf -> Nat]
      /\ CachesFollowLedger'
      /\ \A s \in Shelf : onHand'[s] = onHand[s] - At(p, take)[s]
  BY <1>2, <1>4, <1>5, <1>6, TakeGoods
<1>8. sold' \in [SaleRow -> Nat]
  BY <1>1 DEF SellFromStock, TypeOK
<1>9. TypeOK'
  BY <1>7, <1>8 DEF SellFromStock, TypeOK, receiptVars, rowVars
<1>10. NoOverReservation'
  <2> SUFFICES ASSUME NEW s \in Shelf PROVE reserved'[s] <= onHand'[s]
    BY DEF NoOverReservation
  <2>1. reserved'[s] = reserved[s]
    BY DEF SellFromStock
  <2> QED BY <1>4, <1>6, <1>7, <2>1
<1>11. ReservationsBacked' /\ AllocationsComplete'
  BY KeepReservations DEF SellFromStock, rowVars, Active, AllocationsComplete
<1> QED BY <1>7, <1>9, <1>10, <1>11

LEMMA RefundStep ==
  ASSUME IInv, NEW x \in SaleRow, NEW q \in Quantity, RefundSaleLine(x, q)
  PROVE  IInv'
<1> USE DEF IInv
<1>1. refunded' \in [SaleRow -> Nat]
  BY QuantityAssumption DEF RefundSaleLine, TypeOK
<1>2. TypeOK'
  BY <1>1 DEF RefundSaleLine, TypeOK, receiptVars, rowVars
<1>3. CachesFollowLedger' /\ NoOverReservation' /\ AllocationsComplete'
  BY DEF RefundSaleLine, CachesFollowLedger, Consistent, NoOverReservation,
         AllocationsComplete, rowVars
<1>4. ReservationsBacked'
  BY KeepReservations DEF RefundSaleLine, rowVars, Active
<1> QED BY <1>2, <1>3, <1>4

LEMMA RestockStep ==
  ASSUME IInv, NEW x \in SaleRow, NEW q \in Quantity, NEW l \in Location,
         RestockRefundedLine(x, q, l)
  PROVE  IInv'
<1> USE DEF IInv
<1> DEFINE p == ProductOf[x]
           g == OnShelf(<<p, l>>, q)
<1>1. q \in Nat /\ p \in Product
  BY QuantityAssumption, RowTypes
<1>2. onHand' = Plus(onHand, g) /\ ledger' = Plus(ledger, g)
      /\ stock' = [stock EXCEPT ![p] = @ + q]
  BY DEF RestockRefundedLine
<1>3. /\ g \in [Shelf -> Nat]
      /\ PerProduct(g) = [o \in Product |-> IF o = p THEN q ELSE 0]
  BY <1>1, PerProductOnShelf
<1> HIDE DEF p, g
<1>4. stock' = Plus(stock, PerProduct(g))
  <2>1. PerProduct(g) = [o \in Product |-> IF o = p THEN q ELSE 0]
    BY <1>3
  <2>2. stock \in [Product -> Nat]
    BY DEF TypeOK
  <2>3. stock' = [o \in Product |-> IF o = p THEN stock[o] + q ELSE stock[o]]
    BY <1>1, <1>2, <2>2
  <2>4. Plus(stock, PerProduct(g)) = [o \in Product |-> stock[o] + PerProduct(g)[o]]
    BY <2>2 DEF Plus
  <2>5. \A o \in Product : stock[o] + PerProduct(g)[o]
                            = IF o = p THEN stock[o] + q ELSE stock[o]
    BY <1>1, <2>1, <2>2
  <2> QED BY <2>3, <2>4, <2>5
<1>5. /\ stock' \in [Product -> Nat]
      /\ onHand' \in [Shelf -> Nat] /\ ledger' \in [Shelf -> Nat]
      /\ CachesFollowLedger'
      /\ \A s \in Shelf : onHand[s] <= onHand'[s]
  BY <1>2, <1>3, <1>4, AddGoods
<1>6. refunded' \in [SaleRow -> Nat] /\ restocked' \in [SaleRow -> Nat]
  BY <1>1 DEF RestockRefundedLine, TypeOK
<1>7. TypeOK'
  BY <1>5, <1>6 DEF RestockRefundedLine, TypeOK, receiptVars, rowVars
<1>8. NoOverReservation'
  <2> SUFFICES ASSUME NEW s \in Shelf PROVE reserved'[s] <= onHand'[s]
    BY DEF NoOverReservation
  <2>1. /\ reserved'[s] = reserved[s] /\ reserved[s] <= onHand[s]
        /\ reserved[s] \in Nat /\ onHand[s] \in Nat /\ onHand'[s] \in Nat
    BY <1>5 DEF RestockRefundedLine, NoOverReservation, TypeOK
  <2> QED BY <1>5, <2>1
<1>9. ReservationsBacked' /\ AllocationsComplete'
  BY KeepReservations
     DEF RestockRefundedLine, rowVars, Active, AllocationsComplete
<1> QED BY <1>5, <1>7, <1>8, <1>9

LEMMA TransferStep ==
  ASSUME IInv, NEW p \in Product, NEW k \in Location, NEW l \in Location,
         NEW q \in Quantity, TransferStock(p, k, l, q)
  PROVE  IInv'
<1> USE DEF IInv
<1> DEFINE out == OnShelf(<<p, k>>, q)
           in  == OnShelf(<<p, l>>, q)
           mid == Minus(onHand, out)
<1>0. q \in Nat
  BY QuantityAssumption
<1>1. /\ out \in [Shelf -> Nat] /\ in \in [Shelf -> Nat]
      /\ PerProduct(out) = PerProduct(in)
  <2>1. /\ out \in [Shelf -> Nat]
        /\ PerProduct(out) = [o \in Product |-> IF o = p THEN q ELSE 0]
    BY <1>0, PerProductOnShelf
  <2>2. /\ in \in [Shelf -> Nat]
        /\ PerProduct(in) = [o \in Product |-> IF o = p THEN q ELSE 0]
    BY <1>0, PerProductOnShelf
  <2> QED BY <2>1, <2>2
<1>2. /\ stock \in [Product -> Nat]
      /\ onHand \in [Shelf -> Nat] /\ ledger \in [Shelf -> Nat]
      /\ onHand = ledger /\ stock = PerProduct(ledger)
  <2>1. /\ stock \in [Product -> Nat]
        /\ onHand \in [Shelf -> Nat] /\ ledger \in [Shelf -> Nat]
    BY DEF TypeOK
  <2>2. onHand = ledger /\ stock = PerProduct(ledger)
    BY <2>1, CachesAsFunctions DEF CachesFollowLedger, Consistent
  <2> QED BY <2>1, <2>2
<1>3. onHand' = Plus(mid, in) /\ ledger' = onHand'
  BY <1>2 DEF TransferStock
<1>4. ASSUME NEW s \in Shelf
      PROVE  /\ out[s] <= onHand[s] /\ reserved[s] <= onHand[s] - out[s]
             /\ out[s] \in Nat /\ onHand[s] \in Nat /\ reserved[s] \in Nat
  <2>1. /\ onHand[s] \in Nat /\ reserved[s] \in Nat /\ out[s] \in Nat
        /\ reserved[s] <= onHand[s]
    BY <1>1 DEF TypeOK, NoOverReservation
  <2>2. CASE s = <<p, k>>
    <3>1. out[s] = q /\ q <= Free(s)
      BY <2>2 DEF OnShelf, TransferStock
    <3>2. Free(s) = onHand[s] - reserved[s]
      BY <2>1 DEF Free
    <3> QED BY <1>0, <2>1, <3>1, <3>2
  <2>3. CASE s # <<p, k>>
    <3>1. out[s] = 0
      BY <2>3 DEF OnShelf
    <3> QED BY <2>1, <3>1
  <2> QED BY <2>2, <2>3
<1> HIDE DEF out, in, mid
<1>5. mid \in [Shelf -> Nat] /\ \A s \in Shelf : mid[s] = onHand[s] - out[s]
  BY <1>1, <1>2, <1>4, MinusType DEF mid
<1>6. /\ onHand' \in [Shelf -> Nat]
      /\ \A s \in Shelf : onHand'[s] = mid[s] + in[s]
  BY <1>1, <1>3, <1>5, PlusType
<1>7. CachesFollowLedger'
  <2>1. PerProduct(mid) = Minus(PerProduct(onHand), PerProduct(out))
    BY <1>1, <1>2, <1>4, PerProductMinus DEF mid
  <2>2. PerProduct(onHand') = Plus(PerProduct(mid), PerProduct(in))
    BY <1>1, <1>3, <1>5, PerProductPlus
  <2>3. PerProduct(onHand) \in [Product -> Nat] /\ PerProduct(in) \in [Product -> Nat]
    BY <1>1, <1>2, PerProductType
  <2>4. PerProduct(onHand') = PerProduct(onHand)
    BY <1>1, <2>1, <2>2, <2>3 DEF Plus, Minus
  <2>5. stock' = PerProduct(ledger') /\ stock' \in [Product -> Nat]
    BY <1>2, <1>3, <2>4 DEF TransferStock
  <2> QED BY <1>3, <1>6, <2>5, CachesAsFunctions DEF CachesFollowLedger, Consistent
<1>8. TypeOK'
  BY <1>3, <1>6 DEF TransferStock, TypeOK, receiptVars, rowVars, saleVars
<1>9. NoOverReservation'
  <2> SUFFICES ASSUME NEW s \in Shelf PROVE reserved'[s] <= onHand'[s]
    BY DEF NoOverReservation
  <2>1. reserved'[s] = reserved[s] /\ in[s] \in Nat
    BY <1>1 DEF TransferStock
  <2> QED BY <1>4, <1>5, <1>6, <2>1
<1>10. ReservationsBacked' /\ AllocationsComplete'
  BY KeepReservations DEF TransferStock, rowVars, Active, AllocationsComplete
<1> QED BY <1>7, <1>8, <1>9, <1>10

LEMMA NextIInv == IInv /\ [Next]_vars => IInv'
<1> SUFFICES ASSUME IInv, [Next]_vars PROVE IInv'
  OBVIOUS
<1>1. ASSUME NEW r \in Receipt,
             \/ CreateGoodsReceipt(r)
             \/ \E s \in Shelf, q \in Quantity : AddGoodsReceiptLine(r, s, q)
             \/ PostGoodsReceipt(r) \/ CancelGoodsReceipt(r)
      PROVE  IInv'
  BY <1>1, ReceiptSteps
<1>2. ASSUME NEW i \in Item, NEW q \in Quantity, AddDeliveryNoteItem(i, q)
      PROVE  IInv'
  BY <1>2, AddItemStep
<1>3. ASSUME NEW i \in Item, DeleteDeliveryNoteItem(i) PROVE IInv'
  BY <1>3, DeleteItemStep
<1>4. ASSUME NEW n \in Note, DispatchDeliveryNote(n) PROVE IInv'
  BY <1>4, DispatchStep
<1>5. ASSUME NEW n \in Note, DeleteDeliveryNote(n) PROVE IInv'
  BY <1>5, DeleteNoteStep
<1>6. ASSUME NEW n \in Note, SellDeliveryNote(n) PROVE IInv'
  BY <1>6, SellNoteStep
<1>7. ASSUME NEW x \in CounterRow, NEW q \in Quantity, SellFromStock(x, q)
      PROVE  IInv'
  BY <1>7, SellFromStockStep
<1>8. ASSUME NEW x \in SaleRow, NEW q \in Quantity, RefundSaleLine(x, q)
      PROVE  IInv'
  BY <1>8, RefundStep
<1>9. ASSUME NEW x \in SaleRow, NEW q \in Quantity, NEW l \in Location,
             RestockRefundedLine(x, q, l)
      PROVE  IInv'
  BY <1>9, RestockStep
<1>10. ASSUME NEW p \in Product, NEW k \in Location, NEW l \in Location,
              NEW q \in Quantity, TransferStock(p, k, l, q)
       PROVE  IInv'
  BY <1>10, TransferStep
<1>11. CASE UNCHANGED vars
  <2> USE <1>11 DEF vars, receiptVars, rowVars, saleVars, IInv
  <2>1. TypeOK'
    BY DEF TypeOK
  <2>2. CachesFollowLedger' /\ NoOverReservation' /\ AllocationsComplete'
    BY DEF CachesFollowLedger, Consistent, NoOverReservation, AllocationsComplete
  <2>3. ReservationsBacked'
    BY KeepReservations DEF Active
  <2> QED BY <2>1, <2>2, <2>3
<1> QED BY <1>1, <1>2, <1>3, <1>4, <1>5, <1>6, <1>7, <1>8, <1>9, <1>10, <1>11
        DEF Next

THEOREM Invariance == Spec => []IInv
<1>1. Init => IInv
  BY InitIInv
<1>2. IInv /\ [Next]_vars => IInv'
  BY NextIInv
<1> QED BY <1>1, <1>2, PTL DEF Spec

-----------------------------------------------------------------------------
(* What the runs check, for every value of the constants.                  *)

\* No quantity of the inventory ever becomes negative, and every record the
\* services write has its type.
THEOREM StockTypes == Spec => []TypeOK
<1>1. IInv => TypeOK
  BY DEF IInv
<1> QED BY <1>1, Invariance, PTL

\* The caches of products and balances reproduce the ledger, whatever sequence
\* of receipts, notes, sales, refunds and transfers is committed.
THEOREM CachesAreDerived == Spec => []CachesFollowLedger
<1>1. IInv => CachesFollowLedger
  BY DEF IInv
<1> QED BY <1>1, Invariance, PTL

\* The reserved column of a balance is the sum of the active reservations.
THEOREM ReservedIsBacked == Spec => []ReservationsBacked
<1>1. IInv => ReservationsBacked
  BY DEF IInv
<1> QED BY <1>1, Invariance, PTL

\* Reserved goods stay on their shelf until their own note takes them.
THEOREM ReservedIsOnHand == Spec => []NoOverReservation
<1>1. IInv => NoOverReservation
  BY DEF IInv
<1> QED BY <1>1, Invariance, PTL

\* A note with active reservations can always be dispatched or sold: the
\* checks of the consumption all pass.
THEOREM DispatchNeverRefused == Spec => []ReservationHonoured
<1>1. IInv => ReservationHonoured
  <2> SUFFICES ASSUME IInv, NEW n \in Note
               PROVE  Consumable(RowsOf(n) \cap Active)
    BY DEF ReservationHonoured
  <2> DEFINE S == RowsOf(n) \cap Active
  <2>1. S \in SUBSET Active /\ S \in SUBSET Item
    BY DEF Active
  <2> HIDE DEF S
  <2>2. /\ Goods(S) \in [Shelf -> Nat]
        /\ \A s \in Shelf : /\ Goods(S)[s] <= reserved[s]
                            /\ reserved[s] <= onHand[s]
                            /\ Goods(S)[s] <= onHand[s]
    BY <2>1, ActiveGoodsOnHand
  <2>3. \A i \in S : Total(Location, alloc[i]) = qty[i]
    BY <2>1 DEF IInv, AllocationsComplete
  <2>4. \A p \in Product : PerProduct(Goods(S))[p] <= stock[p]
    <3>1. /\ stock \in [Product -> Nat]
          /\ onHand \in [Shelf -> Nat] /\ ledger \in [Shelf -> Nat]
      BY DEF IInv, TypeOK
    <3>2. onHand = ledger /\ stock = PerProduct(ledger)
      BY <3>1, CachesAsFunctions DEF IInv, CachesFollowLedger, Consistent
    <3> QED BY <2>2, <3>1, <3>2, PerProductMinus
  <2>5. Consumable(S)
    BY <2>2, <2>3, <2>4 DEF Consumable
  <2> QED BY <2>5 DEF S
<1> QED BY <1>1, Invariance, PTL

-----------------------------------------------------------------------------
(* Conservation: every unit in stock is accounted for by documents.  The   *)
(* argument needs IInv, since a row's goods are spread over locations and  *)
(* the documents record its quantity.                                      *)

\* The quantities of the rows of the product p.
RowQuantity(p) == [i \in Item |-> IF ProductOf[i] = p THEN qty[i] ELSE 0]

LEMMA DocumentTypes ==
  ASSUME TypeOK, NEW p \in Product
  PROVE  /\ IsFiniteSet(Item) /\ IsFiniteSet(CounterRow)
         /\ IsFiniteSet(Receipt) /\ IsFiniteSet(SaleRow)
         /\ \A i \in Item : IssuedToRow(p)[i] \in Nat /\ RowQuantity(p)[i] \in Nat
         /\ \A x \in CounterRow : SoldAtCounter(p)[x] \in Nat
         /\ \A r \in Receipt : PostedBy(p)[r] \in Nat
         /\ \A x \in SaleRow : ReturnedBy(p)[x] \in Nat
         /\ stock[p] \in Nat
         /\ Total(Item, IssuedToRow(p)) \in Nat
         /\ Total(CounterRow, SoldAtCounter(p)) \in Nat
         /\ Total(Receipt, PostedBy(p)) \in Nat
         /\ Total(SaleRow, ReturnedBy(p)) \in Nat
<1>1. /\ IsFiniteSet(Item) /\ IsFiniteSet(CounterRow)
      /\ IsFiniteSet(Receipt) /\ IsFiniteSet(SaleRow)
  BY SetsAssumption, FS_Union DEF SaleRow
<1>2. \A i \in Item : IssuedToRow(p)[i] \in Nat /\ RowQuantity(p)[i] \in Nat
  BY DEF TypeOK, IssuedToRow, RowQuantity
<1>3. \A x \in CounterRow : SoldAtCounter(p)[x] \in Nat
  BY DEF TypeOK, SoldAtCounter, SaleRow
<1>4. \A r \in Receipt : PostedBy(p)[r] \in Nat
  <2> SUFFICES ASSUME NEW r \in Receipt PROVE PerProduct(lines[r])[p] \in Nat
    BY DEF PostedBy
  <2>1. lines[r] \in [Shelf -> Nat]
    BY DEF TypeOK
  <2> QED BY <2>1, PerProductType
<1>5. \A x \in SaleRow : ReturnedBy(p)[x] \in Nat
  BY DEF TypeOK, ReturnedBy
<1>6. stock[p] \in Nat
  BY DEF TypeOK
<1> QED BY <1>1, <1>2, <1>3, <1>4, <1>5, <1>6, TotalNat

\* The goods of rows, summed over shelves, are the quantities of the rows.
LEMMA GoodsOfRows ==
  ASSUME TypeOK, AllocationsComplete, NEW S \in SUBSET Item, NEW p \in Product
  PROVE  PerProduct(Goods(S))[p] = Total(S, RowQuantity(p))
<1> DEFINE A == ShelvesOf(p)
           r == [s \in A |-> Part(s)]
           k == [i \in S |-> [s \in A |-> Part(s)[i]]]
<1>1. IsFiniteSet(A) /\ A \subseteq Shelf /\ IsFiniteSet(S)
  BY ShelvesFinite, RowTypes, FS_Subset
<1>2. \A s \in A, i \in S : r[s][i] \in Nat /\ k[i][s] = r[s][i]
  BY <1>1, PartType
<1>3. Total(A, Goods(S)) = Total(A, RowTotals(A, S, r))
  <2>1. \A s \in A : Goods(S)[s] = RowTotals(A, S, r)[s]
    BY <1>1 DEF Goods, RowTotals
  <2> QED BY <2>1, TotalCongruence
<1>4. Total(S, RowTotals(S, A, k)) = Total(S, RowQuantity(p))
  <2>1. ASSUME NEW i \in S PROVE RowTotals(S, A, k)[i] = RowQuantity(p)[i]
    <3>1. RowTotals(S, A, k)[i] = Total(A, k[i])
      BY DEF RowTotals
    <3>2. CASE ProductOf[i] = p
      <4>1. \A s \in A : k[i][s] = At(p, alloc[i])[s]
        BY <1>1, <3>2 DEF Part, At, ShelvesOf
      <4>2. alloc[i] \in [Location -> Nat]
        BY DEF TypeOK
      <4>3. Total(A, At(p, alloc[i])) = Total(Location, alloc[i])
        BY <4>2, PerProductAt DEF PerProduct
      <4>4. Total(A, k[i]) = Total(A, At(p, alloc[i]))
        BY <4>1, TotalCongruence
      <4>5. Total(Location, alloc[i]) = qty[i]
        BY DEF AllocationsComplete
      <4> QED BY <3>1, <3>2, <4>3, <4>4, <4>5 DEF RowQuantity
    <3>3. CASE ProductOf[i] # p
      <4>1. \A s \in A : k[i][s] = 0
        BY <1>1, <3>3 DEF Part, ShelvesOf
      <4>2. Total(A, k[i]) = 0
        BY <4>1, TotalZero
      <4> QED BY <3>1, <3>3, <4>2 DEF RowQuantity
    <3> QED BY <3>2, <3>3
  <2> QED BY <2>1, TotalCongruence
<1>5. Total(A, RowTotals(A, S, r)) = Total(S, RowTotals(S, A, k))
  <2> HIDE DEF A, r, k
  <2> QED BY <1>1, <1>2, TotalExchange
<1> QED BY <1>3, <1>4, <1>5 DEF PerProduct

LEMMA InitAccounted == Init => StockAccountedFor
<1> SUFFICES ASSUME Init, NEW p \in Product PROVE stock[p] + Issued(p) = Received(p)
  BY DEF StockAccountedFor
<1>1. stock[p] = 0
  BY DEF Init
<1>2. Total(Item, IssuedToRow(p)) = 0
  <2>1. \A i \in Item : IssuedToRow(p)[i] = 0
    BY DEF Init, IssuedToRow
  <2> QED BY <2>1, TotalZero
<1>3. Total(CounterRow, SoldAtCounter(p)) = 0
  <2>1. \A x \in CounterRow : SoldAtCounter(p)[x] = 0
    BY DEF Init, SoldAtCounter, SaleRow
  <2> QED BY <2>1, TotalZero
<1>4. Total(Receipt, PostedBy(p)) = 0
  <2>1. \A r \in Receipt : PostedBy(p)[r] = 0
    BY DEF Init, PostedBy
  <2> QED BY <2>1, TotalZero
<1>5. Total(SaleRow, ReturnedBy(p)) = 0
  <2>1. \A x \in SaleRow : ReturnedBy(p)[x] = 0
    BY DEF Init, ReturnedBy
  <2> QED BY <2>1, TotalZero
<1> QED BY <1>1, <1>2, <1>3, <1>4, <1>5 DEF Issued, Received

Accounted(p) == stock[p] + Issued(p) = Received(p)

\* A step that changes neither the stock of p nor its documents.
LEMMA QuietStep ==
  ASSUME NEW p \in Product, Accounted(p), stock'[p] = stock[p],
         \A i \in Item : IssuedToRow(p)'[i] = IssuedToRow(p)[i],
         \A x \in CounterRow : SoldAtCounter(p)'[x] = SoldAtCounter(p)[x],
         \A r \in Receipt : PostedBy(p)'[r] = PostedBy(p)[r],
         \A x \in SaleRow : ReturnedBy(p)'[x] = ReturnedBy(p)[x]
  PROVE  Accounted(p)'
<1>1. Total(Item, IssuedToRow(p)') = Total(Item, IssuedToRow(p))
  BY TotalCongruence
<1>2. Total(CounterRow, SoldAtCounter(p)') = Total(CounterRow, SoldAtCounter(p))
  BY TotalCongruence
<1>3. Total(Receipt, PostedBy(p)') = Total(Receipt, PostedBy(p))
  BY TotalCongruence
<1>4. Total(SaleRow, ReturnedBy(p)') = Total(SaleRow, ReturnedBy(p))
  BY TotalCongruence
<1> QED BY <1>1, <1>2, <1>3, <1>4 DEF Accounted, Issued, Received

\* Rows S of p, not issued before, leave the stock with their quantities.
LEMMA IssueStep ==
  ASSUME TypeOK, NEW p \in Product, Accounted(p), NEW S \in SUBSET Item,
         stock'[p] = stock[p] - Total(S, RowQuantity(p)),
         \A i \in S : IssuedToRow(p)'[i] = IssuedToRow(p)[i] + RowQuantity(p)[i],
         \A i \in Item \ S : IssuedToRow(p)'[i] = IssuedToRow(p)[i],
         \A x \in CounterRow : SoldAtCounter(p)'[x] = SoldAtCounter(p)[x],
         \A r \in Receipt : PostedBy(p)'[r] = PostedBy(p)[r],
         \A x \in SaleRow : ReturnedBy(p)'[x] = ReturnedBy(p)[x]
  PROVE  Accounted(p)'
<1>1. Total(Item, IssuedToRow(p)') = Total(Item, IssuedToRow(p)) + Total(S, RowQuantity(p))
  BY DocumentTypes, TotalGrowsOn
<1>2. Total(CounterRow, SoldAtCounter(p)') = Total(CounterRow, SoldAtCounter(p))
  BY TotalCongruence
<1>3. Total(Receipt, PostedBy(p)') = Total(Receipt, PostedBy(p))
  BY TotalCongruence
<1>4. Total(SaleRow, ReturnedBy(p)') = Total(SaleRow, ReturnedBy(p))
  BY TotalCongruence
<1>5. Total(S, RowQuantity(p)) \in Nat
  BY DocumentTypes, FS_Subset, TotalNat
<1> QED BY <1>1, <1>2, <1>3, <1>4, <1>5, DocumentTypes DEF Accounted, Issued, Received

\* Goods of the rows S leave the stock with a dispatch or the sale of a note.
LEMMA RowsIssued ==
  ASSUME TypeOK, AllocationsComplete, NEW p \in Product, Accounted(p),
         NEW S \in SUBSET Active, NEW w \in {"dispatched", "sold"},
         stock' = Minus(stock, PerProduct(Goods(S))),
         row' = [i \in Item |-> IF i \in S THEN w ELSE row[i]],
         \A x \in CounterRow : sold'[x] = sold[x],
         UNCHANGED <<receiptVars, qty, restocked>>
  PROVE  Accounted(p)'
<1>1. S \subseteq Item /\ \A i \in S : row[i] = "reserved"
  BY DEF Active
<1>2. stock'[p] = stock[p] - Total(S, RowQuantity(p))
  <2>1. PerProduct(Goods(S))[p] = Total(S, RowQuantity(p))
    BY <1>1, GoodsOfRows
  <2>2. stock \in [Product -> Nat]
    BY DEF TypeOK
  <2> QED BY <2>1, <2>2 DEF Minus
<1>3. \A i \in S : IssuedToRow(p)'[i] = IssuedToRow(p)[i] + RowQuantity(p)[i]
  BY <1>1 DEF IssuedToRow, RowQuantity, TypeOK
<1>4. \A i \in Item \ S : IssuedToRow(p)'[i] = IssuedToRow(p)[i]
  BY DEF IssuedToRow
<1>5. \A x \in CounterRow : SoldAtCounter(p)'[x] = SoldAtCounter(p)[x]
  BY DEF SoldAtCounter
<1>6. \A r \in Receipt : PostedBy(p)'[r] = PostedBy(p)[r]
  BY DEF PostedBy, PerProduct, receiptVars
<1>7. \A x \in SaleRow : ReturnedBy(p)'[x] = ReturnedBy(p)[x]
  BY DEF ReturnedBy
<1> QED BY <1>1, <1>2, <1>3, <1>4, <1>5, <1>6, <1>7, IssueStep

\* Posting and cancelling a receipt move its goods and the account together.
LEMMA ReceiptsAccounted ==
  ASSUME IInv, NEW p \in Product, Accounted(p), NEW r \in Receipt,
         PostGoodsReceipt(r) \/ CancelGoodsReceipt(r)
  PROVE  Accounted(p)'
<1> DEFINE q == PerProduct(lines[r])[p]
<1> TypeOK
  BY DEF IInv
<1>1. q \in Nat /\ stock \in [Product -> Nat] /\ stock[p] \in Nat
  <2>1. lines[r] \in [Shelf -> Nat]
    BY DEF TypeOK
  <2> QED BY <2>1, PerProductType DEF TypeOK
<1>2. \A i \in Item : IssuedToRow(p)'[i] = IssuedToRow(p)[i]
  BY DEF PostGoodsReceipt, CancelGoodsReceipt, IssuedToRow, rowVars
<1>3. \A x \in CounterRow : SoldAtCounter(p)'[x] = SoldAtCounter(p)[x]
  BY DEF PostGoodsReceipt, CancelGoodsReceipt, SoldAtCounter, saleVars
<1>4. \A x \in SaleRow : ReturnedBy(p)'[x] = ReturnedBy(p)[x]
  BY DEF PostGoodsReceipt, CancelGoodsReceipt, ReturnedBy, saleVars
<1>5. Total(Item, IssuedToRow(p)') = Total(Item, IssuedToRow(p))
  BY <1>2, TotalCongruence
<1>6. Total(CounterRow, SoldAtCounter(p)') = Total(CounterRow, SoldAtCounter(p))
  BY <1>3, TotalCongruence
<1>7. Total(SaleRow, ReturnedBy(p)') = Total(SaleRow, ReturnedBy(p))
  BY <1>4, TotalCongruence
<1>8. \A s \in Receipt \ {r} : PostedBy(p)'[s] = PostedBy(p)[s]
  BY DEF PostGoodsReceipt, CancelGoodsReceipt, PostedBy, PerProduct, TypeOK
<1>9. CASE PostGoodsReceipt(r)
  <2>1. PostedBy(p)'[r] = PostedBy(p)[r] + q
    BY <1>1, <1>9 DEF PostGoodsReceipt, PostedBy, PerProduct, TypeOK
  <2>2. stock'[p] = stock[p] + q
    BY <1>1, <1>9 DEF PostGoodsReceipt, Plus
  <2>3. Total(Receipt, PostedBy(p)') = Total(Receipt, PostedBy(p)) + q
    <3> HIDE DEF q
    <3> QED BY <1>1, <1>8, <2>1, DocumentTypes, TotalGrowsAt
  <2> HIDE DEF q
  <2> QED BY <1>1, <1>5, <1>6, <1>7, <2>2, <2>3, DocumentTypes DEF Accounted, Issued, Received
<1>10. CASE CancelGoodsReceipt(r)
  <2>1. PostedBy(p)[r] = PostedBy(p)'[r] + q /\ PostedBy(p)'[r] = 0
    BY <1>1, <1>10 DEF CancelGoodsReceipt, PostedBy, PerProduct, TypeOK
  <2>2. stock'[p] = stock[p] - q
    BY <1>1, <1>10 DEF CancelGoodsReceipt, Minus
  <2>3. \A s \in Receipt : PostedBy(p)[s] \in Nat
    BY DocumentTypes
  <2>4. \A s \in Receipt : PostedBy(p)'[s] \in Nat
    BY <1>8, <2>1, <2>3
  <2>5. Total(Receipt, PostedBy(p)) = Total(Receipt, PostedBy(p)') + q
    <3> HIDE DEF q
    <3> QED BY <1>1, <1>8, <2>1, <2>4, DocumentTypes, TotalGrowsAt
  <2>6. Total(Receipt, PostedBy(p)') \in Nat
    BY <2>4, DocumentTypes, TotalNat
  <2> HIDE DEF q
  <2> QED BY <1>1, <1>5, <1>6, <1>7, <2>2, <2>5, <2>6, DocumentTypes
          DEF Accounted, Issued, Received
<1> QED BY <1>9, <1>10

\* Deleting a row: a released row was never issued, a reversed one no longer is.
LEMMA DeletedItemAccounted ==
  ASSUME IInv, NEW p \in Product, Accounted(p), NEW i \in Item,
         DeleteDeliveryNoteItem(i)
  PROVE  Accounted(p)'
<1> TypeOK /\ AllocationsComplete
  BY DEF IInv
<1>1. \A x \in CounterRow : SoldAtCounter(p)'[x] = SoldAtCounter(p)[x]
  BY DEF DeleteDeliveryNoteItem, SoldAtCounter, saleVars
<1>2. \A r \in Receipt : PostedBy(p)'[r] = PostedBy(p)[r]
  BY DEF DeleteDeliveryNoteItem, PostedBy, PerProduct, receiptVars
<1>3. \A x \in SaleRow : ReturnedBy(p)'[x] = ReturnedBy(p)[x]
  BY DEF DeleteDeliveryNoteItem, ReturnedBy, saleVars
<1>4. CASE ReleaseRow(i)
  <2>1. \A j \in Item : IssuedToRow(p)'[j] = IssuedToRow(p)[j]
    BY <1>4 DEF ReleaseRow, DeleteDeliveryNoteItem, IssuedToRow, TypeOK
  <2>2. stock'[p] = stock[p]
    BY <1>4 DEF ReleaseRow
  <2> QED BY <1>1, <1>2, <1>3, <2>1, <2>2, QuietStep
<1>5. CASE ReverseRow(i)
  <2> DEFINE q == RowQuantity(p)[i]
  <2>1. q \in Nat /\ stock \in [Product -> Nat] /\ stock[p] \in Nat
    BY DocumentTypes DEF TypeOK
  <2>2. stock'[p] = stock[p] + q
    <3>1. PerProduct(Goods({i}))[p] = Total({i}, RowQuantity(p))
      BY GoodsOfRows
    <3>2. Total({i}, RowQuantity(p)) = q
      BY DocumentTypes, TotalSingleton
    <3> HIDE DEF q
    <3> QED BY <1>5, <2>1, <3>1, <3>2 DEF ReverseRow, Plus
  <2>3. IssuedToRow(p)[i] = IssuedToRow(p)'[i] + q /\ IssuedToRow(p)'[i] = 0
    BY <1>5 DEF ReverseRow, DeleteDeliveryNoteItem, IssuedToRow, RowQuantity, TypeOK
  <2>4. \A j \in Item \ {i} : IssuedToRow(p)'[j] = IssuedToRow(p)[j]
    BY <1>5 DEF ReverseRow, DeleteDeliveryNoteItem, IssuedToRow, TypeOK
  <2>5. \A j \in Item : IssuedToRow(p)'[j] \in Nat
    BY <2>3, <2>4, DocumentTypes
  <2>6. Total(Item, IssuedToRow(p)) = Total(Item, IssuedToRow(p)') + q
    <3> HIDE DEF q
    <3> QED BY <2>1, <2>3, <2>4, <2>5, DocumentTypes, TotalGrowsAt
  <2>7. Total(Item, IssuedToRow(p)') \in Nat
    BY <2>5, DocumentTypes, TotalNat
  <2>8. Total(CounterRow, SoldAtCounter(p)') = Total(CounterRow, SoldAtCounter(p))
    BY <1>1, TotalCongruence
  <2>9. Total(Receipt, PostedBy(p)') = Total(Receipt, PostedBy(p))
    BY <1>2, TotalCongruence
  <2>10. Total(SaleRow, ReturnedBy(p)') = Total(SaleRow, ReturnedBy(p))
    BY <1>3, TotalCongruence
  <2> HIDE DEF q
  <2> QED BY <2>1, <2>2, <2>6, <2>7, <2>8, <2>9, <2>10, DocumentTypes
          DEF Accounted, Issued, Received
<1> QED BY <1>4, <1>5 DEF DeleteDeliveryNoteItem

LEMMA SoldFromStockAccounted ==
  ASSUME IInv, NEW p \in Product, Accounted(p), NEW x \in CounterRow,
         NEW q \in Quantity, SellFromStock(x, q)
  PROVE  Accounted(p)'
<1> TypeOK
  BY DEF IInv
<1>1. \A i \in Item : IssuedToRow(p)'[i] = IssuedToRow(p)[i]
  BY DEF SellFromStock, IssuedToRow, rowVars
<1>2. \A r \in Receipt : PostedBy(p)'[r] = PostedBy(p)[r]
  BY DEF SellFromStock, PostedBy, PerProduct, receiptVars
<1>3. \A y \in SaleRow : ReturnedBy(p)'[y] = ReturnedBy(p)[y]
  BY DEF SellFromStock, ReturnedBy
<1>4. \A y \in CounterRow \ {x} : SoldAtCounter(p)'[y] = SoldAtCounter(p)[y]
  BY DEF SellFromStock, SoldAtCounter, SaleRow, TypeOK
<1>5. x \in SaleRow /\ q \in Nat /\ ProductOf[x] \in Product
  BY QuantityAssumption, RowAssumption DEF SaleRow
<1>6. CASE ProductOf[x] # p
  <2>1. SoldAtCounter(p)'[x] = SoldAtCounter(p)[x]
    BY <1>6 DEF SoldAtCounter
  <2>2. stock'[p] = stock[p]
    BY <1>5, <1>6 DEF SellFromStock, TypeOK
  <2>3. \A y \in CounterRow : SoldAtCounter(p)'[y] = SoldAtCounter(p)[y]
    BY <1>4, <2>1
  <2> QED BY <1>1, <1>2, <1>3, <2>2, <2>3, QuietStep
<1>7. CASE ProductOf[x] = p
  <2>1. SoldAtCounter(p)'[x] = SoldAtCounter(p)[x] + q
    BY <1>5, <1>7 DEF SellFromStock, SoldAtCounter, TypeOK
  <2>2. stock'[p] = stock[p] - q /\ stock[p] \in Nat
    BY <1>5, <1>7 DEF SellFromStock, TypeOK
  <2>3. Total(CounterRow, SoldAtCounter(p)') = Total(CounterRow, SoldAtCounter(p)) + q
    BY <1>4, <1>5, <2>1, DocumentTypes, TotalGrowsAt
  <2>4. Total(Item, IssuedToRow(p)') = Total(Item, IssuedToRow(p))
    BY <1>1, TotalCongruence
  <2>5. Total(Receipt, PostedBy(p)') = Total(Receipt, PostedBy(p))
    BY <1>2, TotalCongruence
  <2>6. Total(SaleRow, ReturnedBy(p)') = Total(SaleRow, ReturnedBy(p))
    BY <1>3, TotalCongruence
  <2> QED BY <1>5, <2>2, <2>3, <2>4, <2>5, <2>6, DocumentTypes
          DEF Accounted, Issued, Received
<1> QED BY <1>6, <1>7

LEMMA RestockAccounted ==
  ASSUME IInv, NEW p \in Product, Accounted(p), NEW x \in SaleRow,
         NEW q \in Quantity, NEW l \in Location, RestockRefundedLine(x, q, l)
  PROVE  Accounted(p)'
<1> TypeOK
  BY DEF IInv
<1>1. \A i \in Item : IssuedToRow(p)'[i] = IssuedToRow(p)[i]
  BY DEF RestockRefundedLine, IssuedToRow, rowVars
<1>2. \A r \in Receipt : PostedBy(p)'[r] = PostedBy(p)[r]
  BY DEF RestockRefundedLine, PostedBy, PerProduct, receiptVars
<1>3. \A y \in CounterRow : SoldAtCounter(p)'[y] = SoldAtCounter(p)[y]
  BY DEF RestockRefundedLine, SoldAtCounter
<1>4. \A y \in SaleRow \ {x} : ReturnedBy(p)'[y] = ReturnedBy(p)[y]
  BY DEF RestockRefundedLine, ReturnedBy, TypeOK
<1>5. q \in Nat /\ ProductOf[x] \in Product
  BY QuantityAssumption, RowAssumption DEF SaleRow
<1>6. CASE ProductOf[x] # p
  <2>1. ReturnedBy(p)'[x] = ReturnedBy(p)[x]
    BY <1>6 DEF ReturnedBy
  <2>2. stock'[p] = stock[p]
    BY <1>5, <1>6 DEF RestockRefundedLine, TypeOK
  <2>3. \A y \in SaleRow : ReturnedBy(p)'[y] = ReturnedBy(p)[y]
    BY <1>4, <2>1
  <2> QED BY <1>1, <1>2, <1>3, <2>2, <2>3, QuietStep
<1>7. CASE ProductOf[x] = p
  <2>1. ReturnedBy(p)'[x] = ReturnedBy(p)[x] + q
    BY <1>5, <1>7 DEF RestockRefundedLine, ReturnedBy, TypeOK
  <2>2. stock'[p] = stock[p] + q /\ stock[p] \in Nat
    BY <1>5, <1>7 DEF RestockRefundedLine, TypeOK
  <2>3. Total(SaleRow, ReturnedBy(p)') = Total(SaleRow, ReturnedBy(p)) + q
    BY <1>4, <1>5, <2>1, DocumentTypes, TotalGrowsAt
  <2>4. Total(Item, IssuedToRow(p)') = Total(Item, IssuedToRow(p))
    BY <1>1, TotalCongruence
  <2>5. Total(Receipt, PostedBy(p)') = Total(Receipt, PostedBy(p))
    BY <1>2, TotalCongruence
  <2>6. Total(CounterRow, SoldAtCounter(p)') = Total(CounterRow, SoldAtCounter(p))
    BY <1>3, TotalCongruence
  <2> QED BY <1>5, <2>2, <2>3, <2>4, <2>5, <2>6, DocumentTypes
          DEF Accounted, Issued, Received
<1> QED BY <1>6, <1>7

LEMMA NextAccounted ==
  ASSUME IInv, [Next]_vars, NEW p \in Product, Accounted(p)
  PROVE  Accounted(p)'
<1> TypeOK /\ AllocationsComplete
  BY DEF IInv
<1>1. ASSUME NEW r \in Receipt, CreateGoodsReceipt(r) PROVE Accounted(p)'
  <2>1. \A s \in Receipt : PostedBy(p)'[s] = PostedBy(p)[s]
    BY <1>1 DEF CreateGoodsReceipt, PostedBy, PerProduct, TypeOK
  <2> QED BY <1>1, <2>1, QuietStep
          DEF CreateGoodsReceipt, IssuedToRow, SoldAtCounter, ReturnedBy, rowVars, saleVars
<1>2. ASSUME NEW r \in Receipt, NEW s \in Shelf, NEW q \in Quantity,
             AddGoodsReceiptLine(r, s, q)
      PROVE  Accounted(p)'
  <2>1. \A t \in Receipt : PostedBy(p)'[t] = PostedBy(p)[t]
    BY <1>2 DEF AddGoodsReceiptLine, PostedBy, PerProduct, TypeOK
  <2> QED BY <1>2, <2>1, QuietStep
          DEF AddGoodsReceiptLine, IssuedToRow, SoldAtCounter, ReturnedBy, rowVars, saleVars
<1>3. ASSUME NEW i \in Item, NEW q \in Quantity, AddDeliveryNoteItem(i, q)
      PROVE  Accounted(p)'
  <2>1. \A j \in Item : IssuedToRow(p)'[j] = IssuedToRow(p)[j]
    BY <1>3 DEF AddDeliveryNoteItem, IssuedToRow, TypeOK
  <2> QED BY <1>3, <2>1, QuietStep
          DEF AddDeliveryNoteItem, PostedBy, PerProduct, SoldAtCounter, ReturnedBy,
              receiptVars, saleVars
<1>4. ASSUME NEW n \in Note, DispatchDeliveryNote(n) PROVE Accounted(p)'
  <2> DEFINE S == RowsOf(n) \cap Active
  <2>1. stock' = Minus(stock, PerProduct(Goods(S)))
    BY <1>4 DEF DispatchDeliveryNote
  <2>2. /\ row' = [i \in Item |-> IF i \in S THEN "dispatched" ELSE row[i]]
        /\ sold' = sold /\ UNCHANGED <<receiptVars, qty, restocked>>
    BY <1>4 DEF DispatchDeliveryNote, saleVars
  <2>3. S \in SUBSET Active
    OBVIOUS
  <2> HIDE DEF S
  <2> QED BY <2>1, <2>2, <2>3, RowsIssued
<1>5. ASSUME NEW n \in Note, DeleteDeliveryNote(n) PROVE Accounted(p)'
  <2>1. \A j \in Item : IssuedToRow(p)'[j] = IssuedToRow(p)[j]
    BY <1>5 DEF DeleteDeliveryNote, IssuedToRow, Active
  <2> QED BY <1>5, <2>1, QuietStep
          DEF DeleteDeliveryNote, PostedBy, PerProduct, SoldAtCounter, ReturnedBy,
              receiptVars, saleVars
<1>6. ASSUME NEW n \in Note, SellDeliveryNote(n) PROVE Accounted(p)'
  <2> DEFINE S == RowsOf(n) \cap Active
             D == {i \in RowsOf(n) : row[i] = "dispatched"}
  <2>1. stock' = Minus(stock, PerProduct(Goods(S)))
    BY <1>6 DEF SellDeliveryNote
  <2>2. /\ row' = [i \in Item |-> IF i \in S THEN "sold" ELSE row[i]]
        /\ UNCHANGED <<receiptVars, qty, restocked>>
    BY <1>6 DEF SellDeliveryNote
  <2>3. S \in SUBSET Active /\ S \cup D \subseteq Item
    BY DEF RowsOf
  <2>4. \A x \in CounterRow : sold'[x] = sold[x]
    BY <1>6, <2>3, SetsAssumption DEF SellDeliveryNote, SaleRow
  <2> HIDE DEF S, D
  <2> QED BY <2>1, <2>2, <2>3, <2>4, RowsIssued
<1>7. ASSUME NEW x \in SaleRow, NEW q \in Quantity, RefundSaleLine(x, q)
      PROVE  Accounted(p)'
  BY <1>7, QuietStep
     DEF RefundSaleLine, IssuedToRow, PostedBy, PerProduct, SoldAtCounter, ReturnedBy,
         rowVars, receiptVars
<1>8. ASSUME NEW a \in Product, NEW k \in Location, NEW l \in Location,
             NEW q \in Quantity, TransferStock(a, k, l, q)
      PROVE  Accounted(p)'
  BY <1>8, QuietStep
     DEF TransferStock, IssuedToRow, PostedBy, PerProduct, SoldAtCounter, ReturnedBy,
         rowVars, receiptVars, saleVars
<1>9. CASE UNCHANGED vars
  BY <1>9, QuietStep
     DEF vars, IssuedToRow, PostedBy, PerProduct, SoldAtCounter, ReturnedBy,
         rowVars, receiptVars, saleVars
<1> QED
  BY <1>1, <1>2, <1>3, <1>4, <1>5, <1>6, <1>7, <1>8, <1>9, ReceiptsAccounted,
     DeletedItemAccounted, SoldFromStockAccounted, RestockAccounted DEF Next

(* StockAccountedFor: stock is created and destroyed by documents alone,   *)
(* whatever sequence of postings, deletions, sales and returns runs.       *)
THEOREM StockConserved == Spec => []StockAccountedFor
<1>1. IInv /\ StockAccountedFor /\ [Next]_vars => StockAccountedFor'
  <2> SUFFICES ASSUME IInv, StockAccountedFor, [Next]_vars, NEW p \in Product
               PROVE  Accounted(p)'
    BY DEF StockAccountedFor, Accounted
  <2>1. Accounted(p)
    BY DEF StockAccountedFor, Accounted
  <2> QED BY <2>1, NextAccounted
<1> QED BY <1>1, InitAccounted, Invariance, PTL DEF Spec
=============================================================================
