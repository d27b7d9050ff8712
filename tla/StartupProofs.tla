--------------------------- MODULE StartupProofs ---------------------------
(***************************************************************************)
(* What every start of the program keeps, for any number of killed         *)
(* processes, reloads and restored files: the stamp tells what the file    *)
(* holds, and a file the bootstrap changes was copied first.               *)
(***************************************************************************)
EXTENDS Startup, TLAPS

-----------------------------------------------------------------------------
(* Objects and migrations.                                                 *)

\* Revisions are numbers; the names of kinds tell objects apart.
LEMMA RevisionNumbers ==
  /\ Revisions = 1..14 /\ HeadRevision = 14 /\ Empty = 0 /\ Empty \notin Revisions
  /\ Unknown \notin Revisions /\ Unknown # Empty
  BY DEF Revisions, HeadRevision, Empty, Unknown, Baseline, ReservationsRefunds

LEMMA ObjectKinds ==
  /\ \A o \in Recorded : o[1] \in {"table", "column", "index", "trigger", "setting", "nullable"}
  /\ \A o \in Recorded : RevisionOf(o) \in Revisions
  /\ LooseSku \notin Recorded
  /\ \A r \in Revisions : Leftover(r) \notin Recorded
<1> USE DEF RevisionOf
<1>1. \A o \in Tables : o[1] = "table" /\ o[2] \in Revisions
  BY RevisionNumbers DEF Tables, BaselineTables, Core, Money, InventoryTables, LaterTables,
     Baseline, Inventory, ProductIdentifiers, ReservationsRefunds
<1>2. \A o \in Columns : o[1] = "column" /\ o[2] \in Revisions
  BY RevisionNumbers DEF Columns, Auth, Inventory, Stabilization, UnifiedSales, InvoiceFollowup,
     OptionalShifts, ShiftlessRefunds, QuickSaleCustomer, DocumentWorkflow, CustomerDiscount,
     ProductIdentifiers
<1>3. \A o \in Indexes : o[1] = "index" /\ o[2] \in Revisions
  BY RevisionNumbers DEF Indexes, Baseline, ProductIdentifiers, ReservationsRefunds, Inventory,
     Stabilization, UnifiedSales, InvoiceFollowup, OptionalShifts, ShiftlessRefunds,
     QuickSaleCustomer, DocumentWorkflow
<1>4. \A o \in Triggers \cup Settings \cup Nullable :
        o[1] \in {"trigger", "setting", "nullable"} /\ o[2] \in Revisions
  BY RevisionNumbers DEF Triggers, Settings, Nullable, Stabilization, SaleDocument,
     OptionalShifts, ShiftlessRefunds
<1>5. LooseSku[1] = "loose" /\ \A r \in Revisions : Leftover(r)[1] = "leftover"
  BY DEF LooseSku, Leftover
<1> QED BY <1>1, <1>2, <1>3, <1>4, <1>5 DEF Recorded

\* The objects of each kind, by revision.
LEMMA ObjectsByRevision ==
  /\ \A o \in Tables :
       o \in {<<"table", 1, 1>>, <<"table", 1, 2>>, <<"table", 3, 1>>, <<"table", 13, 1>>,
              <<"table", 14, 1>>, <<"table", 14, 2>>}
  /\ \A o \in Columns :
       \/ \E r \in {2, 3, 4, 5, 6, 8, 9, 10, 11, 12, 13} : o = <<"column", r, 1>>
       \/ \E r \in {3, 4} : o = <<"column", r, 2>>
       \/ o = <<"column", 4, 3>>
  /\ \A o \in Indexes :
       \/ \E r \in {1, 3, 4, 5, 6, 8, 9, 10, 11, 13, 14} : o = <<"index", r, 1>>
       \/ \E r \in {1, 13, 14} : o = <<"index", r, 2>>
  /\ \A o \in Triggers : o = <<"trigger", 4, 1>>
  /\ \A o \in Settings : o \in {<<"setting", 7, 1>>, <<"setting", 7, 2>>, <<"setting", 8, 1>>}
  /\ \A o \in Nullable : o \in {<<"nullable", 8, 1>>, <<"nullable", 9, 1>>}
<1> USE DEF Baseline, Auth, Inventory, Stabilization, UnifiedSales, InvoiceFollowup,
            SaleDocument, OptionalShifts, ShiftlessRefunds, QuickSaleCustomer, DocumentWorkflow,
            CustomerDiscount, ProductIdentifiers, ReservationsRefunds
<1>1. \A o \in Tables :
        o \in {<<"table", 1, 1>>, <<"table", 1, 2>>, <<"table", 3, 1>>, <<"table", 13, 1>>,
               <<"table", 14, 1>>, <<"table", 14, 2>>}
  BY DEF Tables, BaselineTables, Core, Money, InventoryTables, LaterTables
<1>2. \A o \in Columns :
        \/ \E r \in {2, 3, 4, 5, 6, 8, 9, 10, 11, 12, 13} : o = <<"column", r, 1>>
        \/ \E r \in {3, 4} : o = <<"column", r, 2>>
        \/ o = <<"column", 4, 3>>
  BY DEF Columns
<1>3. \A o \in Indexes :
        \/ \E r \in {1, 3, 4, 5, 6, 8, 9, 10, 11, 13, 14} : o = <<"index", r, 1>>
        \/ \E r \in {1, 13, 14} : o = <<"index", r, 2>>
  BY DEF Indexes
<1>4. /\ \A o \in Triggers : o = <<"trigger", 4, 1>>
      /\ \A o \in Settings : o \in {<<"setting", 7, 1>>, <<"setting", 7, 2>>, <<"setting", 8, 1>>}
      /\ \A o \in Nullable : o \in {<<"nullable", 8, 1>>, <<"nullable", 9, 1>>}
  BY DEF Triggers, Settings, Nullable
<1> QED BY <1>1, <1>2, <1>3, <1>4

\* What a revision made.
MadeBy(r) == {o \in Recorded : RevisionOf(o) = r}
Makes(m) == m.rest \cup {m.ddl[i] : i \in 1..Len(m.ddl)}

\* Every object of a revision is made by its migration: by a statement committed by
\* itself, or with the stamp.
LEMMA MigrationMakes ==
  ASSUME NEW r \in Revisions
  PROVE  MadeBy(r) \subseteq Makes(Migrations[r])
<1> USE DEF MadeBy, Makes, RevisionOf, Recorded, Of, Migration, Rebuild, ColumnsAndIndexes
<1>1. CASE r = 1
  <2>1. Migrations[r] = BaselineSchema
    BY <1>1 DEF Migrations
  <2> QED BY <1>1, <2>1, ObjectsByRevision DEF BaselineSchema, Baseline, Core, Money
<1>2. CASE r = 2
  <2>1. Migrations[r] = AddUserPasswordHash
    BY <1>2 DEF Migrations
  <2> QED BY <1>2, <2>1, ObjectsByRevision DEF AddUserPasswordHash, Auth
<1>3. CASE r = 3
  <2>1. Migrations[r] = WeightedAverageInventoryCost
    BY <1>3 DEF Migrations
  <2> QED BY <1>3, <2>1, ObjectsByRevision DEF WeightedAverageInventoryCost, Inventory,
         InventoryTables
<1>4. CASE r = 4
  <2>1. Migrations[r] = InventoryStabilization
    BY <1>4 DEF Migrations
  <2> QED BY <1>4, <2>1, ObjectsByRevision DEF InventoryStabilization, Stabilization
<1>5. CASE r = 5
  <2>1. Migrations[r] = UnifiedSalesPaymentFlow
    BY <1>5 DEF Migrations
  <2> QED BY <1>5, <2>1, ObjectsByRevision DEF UnifiedSalesPaymentFlow, UnifiedSales
<1>6. CASE r = 6
  <2>1. Migrations[r] = InvoiceHandoffFollowup
    BY <1>6 DEF Migrations
  <2> QED BY <1>6, <2>1, ObjectsByRevision DEF InvoiceHandoffFollowup, InvoiceFollowup
<1>7. CASE r = 7
  <2>1. Migrations[r] = BackfillSaleDocumentNumbers
    BY <1>7 DEF Migrations
  <2> QED BY <1>7, <2>1, ObjectsByRevision DEF BackfillSaleDocumentNumbers, SaleDocument
<1>8. CASE r = 8
  <2>1. Migrations[r] = OptionalShiftsUnifiedSales
    BY <1>8 DEF Migrations
  <2> QED BY <1>8, <2>1, ObjectsByRevision DEF OptionalShiftsUnifiedSales, OptionalShifts
<1>9. CASE r = 9
  <2>1. Migrations[r] = OptionalShiftlessRefunds
    BY <1>9 DEF Migrations
  <2> QED BY <1>9, <2>1, ObjectsByRevision DEF OptionalShiftlessRefunds, ShiftlessRefunds
<1>10. CASE r = 10
  <2>1. Migrations[r] = QuickSaleCustomerSnapshot
    BY <1>10 DEF Migrations
  <2> QED BY <1>10, <2>1, ObjectsByRevision DEF QuickSaleCustomerSnapshot, QuickSaleCustomer
<1>11. CASE r = 11
  <2>1. Migrations[r] = DocumentWorkflowTypes
    BY <1>11 DEF Migrations
  <2> QED BY <1>11, <2>1, ObjectsByRevision DEF DocumentWorkflowTypes, DocumentWorkflow
<1>12. CASE r = 12
  <2>1. Migrations[r] = CustomerDefaultDiscount
    BY <1>12 DEF Migrations
  <2> QED BY <1>12, <2>1, ObjectsByRevision DEF CustomerDefaultDiscount, CustomerDiscount
<1>13. CASE r = 13
  <2>1. Migrations[r] = AddProductIdentifiers
    BY <1>13 DEF Migrations
  <2> QED BY <1>13, <2>1, ObjectsByRevision DEF AddProductIdentifiers, ProductIdentifiers,
         Tables, LaterTables
<1>14. CASE r = 14
  <2>1. Migrations[r] = InventoryReservationsRefundLines
    BY <1>14 DEF Migrations
  <2> QED BY <1>14, <2>1, ObjectsByRevision DEF InventoryReservationsRefundLines,
         ReservationsRefunds
<1> QED BY RevisionNumbers, <1>1, <1>2, <1>3, <1>4, <1>5, <1>6, <1>7,
           <1>8, <1>9, <1>10, <1>11, <1>12, <1>13, <1>14

\* Migrations make known objects, at most four of them one by one.
LEMMA MigrationTyped ==
  ASSUME NEW r \in Revisions
  PROVE  /\ Makes(Migrations[r]) \subseteq Objects
         /\ Len(Migrations[r].ddl) \in 0..4
<1> USE DEF Makes, Of, Migration, Rebuild, ColumnsAndIndexes, Objects, Recorded
<1>1. CASE r = 1
  <2>1. Migrations[r] = BaselineSchema
    BY <1>1 DEF Migrations
  <2> QED BY <1>1, <2>1, RevisionNumbers DEF BaselineSchema, Baseline, Core, Money, Tables,
         BaselineTables, Indexes
<1>2. CASE r = 2
  <2>1. Migrations[r] = AddUserPasswordHash
    BY <1>2 DEF Migrations
  <2> QED BY <1>2, <2>1, RevisionNumbers DEF AddUserPasswordHash, Auth, Columns
<1>3. CASE r = 3
  <2>1. Migrations[r] = WeightedAverageInventoryCost
    BY <1>3 DEF Migrations
  <2> QED BY <1>3, <2>1, RevisionNumbers DEF WeightedAverageInventoryCost, Inventory,
         InventoryTables, Columns, Tables
<1>4. CASE r = 4
  <2>1. Migrations[r] = InventoryStabilization
    BY <1>4 DEF Migrations
  <2> QED BY <1>4, <2>1, RevisionNumbers DEF InventoryStabilization, Stabilization, Columns
<1>5. CASE r = 5
  <2>1. Migrations[r] = UnifiedSalesPaymentFlow
    BY <1>5 DEF Migrations
  <2> QED BY <1>5, <2>1, RevisionNumbers DEF UnifiedSalesPaymentFlow, UnifiedSales
<1>6. CASE r = 6
  <2>1. Migrations[r] = InvoiceHandoffFollowup
    BY <1>6 DEF Migrations
  <2> QED BY <1>6, <2>1, RevisionNumbers DEF InvoiceHandoffFollowup, InvoiceFollowup
<1>7. CASE r = 7
  <2>1. Migrations[r] = BackfillSaleDocumentNumbers
    BY <1>7 DEF Migrations
  <2> QED BY <1>7, <2>1, RevisionNumbers DEF BackfillSaleDocumentNumbers, SaleDocument
<1>8. CASE r = 8
  <2>1. Migrations[r] = OptionalShiftsUnifiedSales
    BY <1>8 DEF Migrations
  <2> QED BY <1>8, <2>1, RevisionNumbers DEF OptionalShiftsUnifiedSales, OptionalShifts
<1>9. CASE r = 9
  <2>1. Migrations[r] = OptionalShiftlessRefunds
    BY <1>9 DEF Migrations
  <2> QED BY <1>9, <2>1, RevisionNumbers DEF OptionalShiftlessRefunds, ShiftlessRefunds
<1>10. CASE r = 10
  <2>1. Migrations[r] = QuickSaleCustomerSnapshot
    BY <1>10 DEF Migrations
  <2> QED BY <1>10, <2>1, RevisionNumbers DEF QuickSaleCustomerSnapshot, QuickSaleCustomer
<1>11. CASE r = 11
  <2>1. Migrations[r] = DocumentWorkflowTypes
    BY <1>11 DEF Migrations
  <2> QED BY <1>11, <2>1, RevisionNumbers DEF DocumentWorkflowTypes, DocumentWorkflow
<1>12. CASE r = 12
  <2>1. Migrations[r] = CustomerDefaultDiscount
    BY <1>12 DEF Migrations
  <2> QED BY <1>12, <2>1, RevisionNumbers DEF CustomerDefaultDiscount, CustomerDiscount
<1>13. CASE r = 13
  <2>1. Migrations[r] = AddProductIdentifiers
    BY <1>13 DEF Migrations
  <2> QED BY <1>13, <2>1, RevisionNumbers DEF AddProductIdentifiers, ProductIdentifiers,
         Tables, LaterTables, Columns
<1>14. CASE r = 14
  <2>1. Migrations[r] = InventoryReservationsRefundLines
    BY <1>14 DEF Migrations
  <2> QED BY <1>14, <2>1, RevisionNumbers DEF InventoryReservationsRefundLines,
         ReservationsRefunds, Tables, LaterTables, Indexes
<1> QED BY RevisionNumbers, <1>1, <1>2, <1>3, <1>4, <1>5, <1>6, <1>7,
           <1>8, <1>9, <1>10, <1>11, <1>12, <1>13, <1>14

\* A migration makes objects of its own revision, each of them once, and the first
\* one rebuilds no table.
MakesOnce(r) ==
  /\ \A o \in Makes(Migrations[r]) : RevisionOf(o) = r
  /\ \A i, j \in 1..Len(Migrations[r].ddl) :
       Migrations[r].ddl[i] = Migrations[r].ddl[j] => i = j
  /\ \A i \in 1..Len(Migrations[r].ddl) : Migrations[r].ddl[i] \notin Migrations[r].rest
  /\ r = Baseline => \A k \in Revisions : Leftover(k) \notin Makes(Migrations[r])

LEMMA MigrationMakesOnce ==
  ASSUME NEW r \in Revisions
  PROVE  MakesOnce(r)
<1> USE DEF Makes, RevisionOf, Of, Migration, Rebuild, ColumnsAndIndexes, Leftover, Baseline
<1>1. CASE r = 1
  <2>1. Migrations[r] = BaselineSchema
    BY <1>1 DEF Migrations
  <2> QED BY <1>1, <2>1, ObjectsByRevision
         DEF MakesOnce, BaselineSchema, Baseline, Core, Money
<1>2. CASE r = 2
  <2>1. Migrations[r] = AddUserPasswordHash
    BY <1>2 DEF Migrations
  <2> QED BY <1>2, <2>1, ObjectsByRevision
         DEF MakesOnce, AddUserPasswordHash, Auth
<1>3. CASE r = 3
  <2>1. Migrations[r] = WeightedAverageInventoryCost
    BY <1>3 DEF Migrations
  <2> QED BY <1>3, <2>1, ObjectsByRevision
         DEF MakesOnce, WeightedAverageInventoryCost, Inventory, InventoryTables
<1>4. CASE r = 4
  <2>1. Migrations[r] = InventoryStabilization
    BY <1>4 DEF Migrations
  <2> QED BY <1>4, <2>1, ObjectsByRevision
         DEF MakesOnce, InventoryStabilization, Stabilization, Triggers
<1>5. CASE r = 5
  <2>1. Migrations[r] = UnifiedSalesPaymentFlow
    BY <1>5 DEF Migrations
  <2> QED BY <1>5, <2>1, ObjectsByRevision
         DEF MakesOnce, UnifiedSalesPaymentFlow, UnifiedSales
<1>6. CASE r = 6
  <2>1. Migrations[r] = InvoiceHandoffFollowup
    BY <1>6 DEF Migrations
  <2> QED BY <1>6, <2>1, ObjectsByRevision
         DEF MakesOnce, InvoiceHandoffFollowup, InvoiceFollowup
<1>7. CASE r = 7
  <2>1. Migrations[r] = BackfillSaleDocumentNumbers
    BY <1>7 DEF Migrations
  <2> QED BY <1>7, <2>1, ObjectsByRevision
         DEF MakesOnce, BackfillSaleDocumentNumbers, SaleDocument
<1>8. CASE r = 8
  <2>1. Migrations[r] = OptionalShiftsUnifiedSales
    BY <1>8 DEF Migrations
  <2> QED BY <1>8, <2>1, ObjectsByRevision
         DEF MakesOnce, OptionalShiftsUnifiedSales, OptionalShifts
<1>9. CASE r = 9
  <2>1. Migrations[r] = OptionalShiftlessRefunds
    BY <1>9 DEF Migrations
  <2> QED BY <1>9, <2>1, ObjectsByRevision
         DEF MakesOnce, OptionalShiftlessRefunds, ShiftlessRefunds
<1>10. CASE r = 10
  <2>1. Migrations[r] = QuickSaleCustomerSnapshot
    BY <1>10 DEF Migrations
  <2> QED BY <1>10, <2>1, ObjectsByRevision
         DEF MakesOnce, QuickSaleCustomerSnapshot, QuickSaleCustomer
<1>11. CASE r = 11
  <2>1. Migrations[r] = DocumentWorkflowTypes
    BY <1>11 DEF Migrations
  <2> QED BY <1>11, <2>1, ObjectsByRevision
         DEF MakesOnce, DocumentWorkflowTypes, DocumentWorkflow
<1>12. CASE r = 12
  <2>1. Migrations[r] = CustomerDefaultDiscount
    BY <1>12 DEF Migrations
  <2> QED BY <1>12, <2>1, ObjectsByRevision
         DEF MakesOnce, CustomerDefaultDiscount, CustomerDiscount
<1>13. CASE r = 13
  <2>1. Migrations[r] = AddProductIdentifiers
    BY <1>13 DEF Migrations
  <2> QED BY <1>13, <2>1, ObjectsByRevision
         DEF MakesOnce, AddProductIdentifiers, ProductIdentifiers, LooseSku
<1>14. CASE r = 14
  <2>1. Migrations[r] = InventoryReservationsRefundLines
    BY <1>14 DEF Migrations
  <2> QED BY <1>14, <2>1, ObjectsByRevision
         DEF MakesOnce, InventoryReservationsRefundLines, ReservationsRefunds
<1> QED BY RevisionNumbers, <1>1, <1>2, <1>3, <1>4, <1>5, <1>6, <1>7,
           <1>8, <1>9, <1>10, <1>11, <1>12, <1>13, <1>14

\* What a migration removes at its end.
Removed(r) == {Leftover(r)} \cup {o \in {LooseSku} : r = ProductIdentifiers}

\* A migration that came to its end, after those up to the stamp, made all objects up to
\* the next revision.
LEMMA MigrationCompletes ==
  ASSUME NEW d \in Database, NEW r \in Revisions, d.stamp = r - 1,
         Exact[d.stamp] \subseteq d.schema,
         \A i \in 1..Len(Migrations[r].ddl) : Migrations[r].ddl[i] \in d.schema
  PROVE  /\ Exact[r] \subseteq Finish(d, r).schema
         /\ Finish(d, r) \in Database /\ Finish(d, r).stamp = r
         /\ Finish(d, r).unnumbered = (d.unnumbered /\ r # SaleDocument)
         /\ Finish(d, r).schema = (d.schema \cup Migrations[r].rest) \ Removed(r)
<1> DEFINE s == (d.schema \cup Migrations[r].rest) \ Removed(r)
<1> DEFINE u == d.unnumbered /\ r # SaleDocument
<1>1. Finish(d, r) = [d EXCEPT !.schema = s, !.stamp = r, !.unnumbered = u]
  BY Zenon DEF Finish, Removed
<1>2. s \in SUBSET Objects
  BY MigrationTyped DEF Makes, Database
<1>3. Exact[r] \subseteq s
  <2> SUFFICES ASSUME NEW o \in Exact[r] PROVE o \in s
    OBVIOUS
  <2>1. o \in Recorded /\ RevisionOf(o) \in Revisions /\ RevisionOf(o) <= r
    BY ObjectKinds DEF Exact
  <2>2. o # LooseSku /\ o # Leftover(r)
    BY <2>1, ObjectKinds
  <2>3. o \notin Removed(r)
    BY <2>2 DEF Removed
  <2>4. CASE RevisionOf(o) = r
    <3>1. o \in Makes(Migrations[r])
      BY <2>1, <2>4, MigrationMakes DEF MadeBy
    <3> QED BY <2>3, <3>1 DEF Makes
  <2>5. CASE RevisionOf(o) # r
    <3>1. r - 1 \in {Empty} \cup Revisions /\ RevisionOf(o) <= r - 1
      BY <2>1, <2>5, RevisionNumbers
    <3>2. o \in Exact[d.stamp]
      BY <2>1, <3>1 DEF Exact
    <3> QED BY <2>3, <3>2
  <2> QED BY <2>4, <2>5
<1>4. u \in BOOLEAN /\ r \in {Empty} \cup Revisions
  OBVIOUS
<1> HIDE DEF s, u
<1>5. /\ Finish(d, r).schema = s /\ Finish(d, r).stamp = r /\ Finish(d, r).unnumbered = u
      /\ Finish(d, r) \in Database
  BY <1>1, <1>2, <1>4 DEF Database
<1> QED BY <1>3, <1>5 DEF s, u
-----------------------------------------------------------------------------
(* Recognising a schema.                                                   *)

\* The stamp of a file tells what it holds.
Truthful(d) ==
  /\ Exact[d.stamp] \subseteq d.schema
  /\ d.stamp >= SaleDocument => ~d.unnumbered

LEMMA Classified ==
  ASSUME NEW d
  PROVE  /\ Classify(d) \in {Unknown, Empty} \cup Revisions
         /\ Classify(d) = Empty => d.schema = {}
         /\ Classify(d) \in Revisions =>
              Satisfies(d, Classify(d)) /\ ~FutureEvidence(d, Classify(d))
<1> DEFINE c == CHOOSE r \in Recognised(d) : TRUE
<1>1. Recognised(d) # {} => c \in Recognised(d)
  OBVIOUS
<1>2. /\ Recognised(d) \subseteq Revisions
      /\ \A r \in Recognised(d) : Satisfies(d, r) /\ ~FutureEvidence(d, r)
  BY DEF Recognised
<1>3. Classify(d) = IF d.schema = {} THEN Empty
                    ELSE IF Foreign \in d.schema \/ Recognised(d) = {} THEN Unknown ELSE c
  BY DEF Classify
<1> HIDE DEF c
<1> QED BY <1>1, <1>2, <1>3, RevisionNumbers

LEMMA SatisfiedIsTruthful ==
  ASSUME NEW d \in Database, NEW r \in Revisions, Satisfies(d, r)
  PROVE  Exact[r] \subseteq d.schema /\ (r >= SaleDocument => ~d.unnumbered)
<1>1. \A kind \in {"table", "column", "index", "trigger", "setting", "nullable"} : Has(d, kind, r)
  BY DEF Satisfies, HasSchema, HasIndexes, HasNullable, HasTriggers, HasData
<1>2. \A o \in Recorded : RevisionOf(o) <= r => o \in d.schema
  BY <1>1, ObjectKinds DEF Has
<1> QED BY <1>2 DEF Exact, Satisfies, HasData

LEMMA BlankIsTruthful ==
  ASSUME NEW d, d.stamp = Empty
  PROVE  Truthful(d)
<1>1. Exact[Empty] = {}
  <2>1. Exact[Empty] = {o \in Recorded : RevisionOf(o) <= Empty}
    BY DEF Exact
  <2> QED BY <2>1, ObjectKinds, RevisionNumbers
<1> QED BY <1>1, RevisionNumbers DEF Truthful, SaleDocument

\* More objects under the same stamp.
LEMMA MoreIsTruthful ==
  ASSUME NEW d, NEW e, Truthful(d), e.stamp = d.stamp, d.schema \subseteq e.schema,
         e.unnumbered = d.unnumbered
  PROVE  Truthful(e)
  BY DEF Truthful
-----------------------------------------------------------------------------
(* What every step keeps.                                                  *)

\* What a start of the program has reached.
Course ==
  /\ phase = "plan" => matched = Classify(db) /\ seen = db
  /\ phase \in {"backup", "stamp"} =>
       /\ matched = Classify(db) /\ matched # Unknown /\ seen = db
       /\ plan = PlanFor(db, matched)
  /\ phase = "stamp" => plan.stamp # Empty
  /\ phase \in {"stamp", "upgrade"} => seen.schema = {} \/ seen \in copies
  /\ phase = "upgrade" => /\ db.stamp # HeadRevision
                          /\ statement <= Len(Ddl)
                          /\ \A i \in 1..statement : Ddl[i] \in db.schema
  /\ phase # "upgrade" => statement = 0

Kept == \A d \in copies \cup {db} : Truthful(d)

Inv == TypeOK /\ Kept /\ Course

\* More objects in the same file.
LEMMA Extended ==
  ASSUME NEW d \in Database, NEW more \in SUBSET Objects, NEW e,
         e = [d EXCEPT !.schema = @ \cup more]
  PROVE  /\ e \in Database /\ e.stamp = d.stamp /\ e.schema = d.schema \cup more
         /\ e.unnumbered = d.unnumbered
         /\ Truthful(d) => Truthful(e)
<1>1. d.schema \cup more \in SUBSET Objects
  BY DEF Database
<1>2. /\ e \in Database /\ e.stamp = d.stamp /\ e.schema = d.schema \cup more
      /\ e.unnumbered = d.unnumbered
  BY <1>1 DEF Database
<1> QED BY <1>2, MoreIsTruthful

LEMMA KindsAreObjects ==
  /\ Tables \subseteq Objects /\ Columns \subseteq Objects /\ Indexes \subseteq Objects
  /\ Triggers \subseteq Objects /\ Settings \subseteq Objects /\ Nullable \subseteq Objects
  /\ LooseSku \in Objects
  BY DEF Objects, Recorded

\* Only recorded objects are added; products.sku in its loose form when the column was
\* missing.
Adds(d, e) ==
  /\ d.schema \subseteq e.schema /\ e.unnumbered = d.unnumbered
  /\ \A o \in e.schema \ d.schema :
       o \in Recorded \/ (o = LooseSku /\ <<"column", ProductIdentifiers, 1>> \notin d.schema)

\* The application's start adds objects and leaves the stamp alone.
LEMMA StartAdds ==
  ASSUME NEW d \in Database, NEW e,
         \/ e = [d EXCEPT !.schema = CreateAll(@)]
         \/ e = AddColumns(d)
         \/ e = CompleteColumns(d)
  PROVE  /\ e \in Database /\ e.stamp = d.stamp
         /\ Truthful(d) => Truthful(e)
         /\ Adds(d, e)
<1>1. ASSUME e = [d EXCEPT !.schema = CreateAll(@)]
      PROVE  /\ e \in Database /\ e.stamp = d.stamp
             /\ Truthful(d) => Truthful(e)
             /\ Adds(d, e)
  <2> DEFINE more == {o \in Tables \cup Columns \cup Indexes \cup Nullable :
                        Home(o) \notin d.schema}
  <2>1. more \in SUBSET Objects
    BY KindsAreObjects
  <2>2. e = [d EXCEPT !.schema = @ \cup more]
    BY <1>1 DEF CreateAll
  <2>3. more \subseteq Recorded
    BY DEF Recorded
  <2> HIDE DEF more
  <2> QED BY <2>1, <2>2, <2>3, Extended DEF Adds
<1>2. ASSUME e = AddColumns(d)
      PROVE  /\ e \in Database /\ e.stamp = d.stamp
             /\ Truthful(d) => Truthful(e)
             /\ Adds(d, e)
  <2> DEFINE added == {o \in Columns : o \notin {<<"column", Inventory, 1>>,
                         <<"column", Stabilization, 3>>, <<"column", ShiftlessRefunds, 1>>,
                         <<"column", DocumentWorkflow, 1>>}} \ d.schema
             s == d.schema \cup added \cup
                    (IF <<"column", ProductIdentifiers, 1>> \in added THEN {LooseSku} ELSE {})
             b == d.blank \/ added \cap Backfilled # {}
  <2>1. e = [d EXCEPT !.schema = s, !.blank = b]
    BY <1>2, Zenon DEF AddColumns
  <2>2. s \in SUBSET Objects /\ d.schema \subseteq s
    BY KindsAreObjects DEF Database
  <2>3. b \in BOOLEAN
    OBVIOUS
  <2>4. \A o \in s \ d.schema :
          o \in Recorded \/ (o = LooseSku /\ <<"column", ProductIdentifiers, 1>> \notin d.schema)
    BY DEF Recorded
  <2> HIDE DEF s, b
  <2>5. e \in Database /\ e.schema = s /\ e.stamp = d.stamp /\ e.unnumbered = d.unnumbered
    BY <2>1, <2>2, <2>3 DEF Database
  <2> QED BY <2>2, <2>4, <2>5, MoreIsTruthful DEF Adds
<1>3. ASSUME e = CompleteColumns(d)
      PROVE  /\ e \in Database /\ e.stamp = d.stamp
             /\ Truthful(d) => Truthful(e)
             /\ Adds(d, e)
  <2> DEFINE more == {<<"column", Stabilization, 3>>, <<"column", DocumentWorkflow, 1>>}
                       \cup CompatibilityIndexes \cup Triggers
             c == [d EXCEPT !.schema = @ \cup more]
  <2>1. more \in SUBSET Objects /\ more \subseteq Recorded
    <3>1. {<<"column", Stabilization, 3>>, <<"column", DocumentWorkflow, 1>>} \subseteq Columns
      BY DEF Columns
    <3> QED BY <3>1, KindsAreObjects DEF CompatibilityIndexes, Recorded
  <2>2. /\ c \in Database /\ (Truthful(d) => Truthful(c))
        /\ c.stamp = d.stamp /\ c.schema = d.schema \cup more
        /\ c.unnumbered = d.unnumbered
    <3> HIDE DEF more
    <3> QED BY <2>1, Extended
  <2>3. e = [c EXCEPT !.blank = FALSE]
    <3>1. CompleteColumns(d) = FillRows(c)
      BY Zenon DEF CompleteColumns
    <3> QED BY <1>3, <3>1 DEF FillRows
  <2> HIDE DEF c, more
  <2>4. /\ e \in Database /\ e.schema = c.schema /\ e.stamp = c.stamp
        /\ e.unnumbered = c.unnumbered
    BY <2>2, <2>3 DEF Database
  <2> QED BY <2>1, <2>2, <2>4, MoreIsTruthful DEF Adds
<1> QED BY <1>1, <1>2, <1>3

\* What plan_bootstrap decides: it stamps only with what it recognised and backed up,
\* and upgrades without a backup only an empty file.
LEMMA Planned ==
  ASSUME NEW d \in Database, NEW r, r = Classify(d), r # Unknown
  PROVE  /\ PlanFor(d, r) \in Plans
         /\ PlanFor(d, r).stamp # Empty =>
              /\ d.stamp = Empty /\ PlanFor(d, r).stamp = r /\ r \in Revisions
              /\ PlanFor(d, r).backup
              /\ (PlanFor(d, r).upgrade <=> r # HeadRevision)
         /\ PlanFor(d, r).stamp = Empty =>
              (PlanFor(d, r).upgrade <=> d.stamp # HeadRevision)
         /\ PlanFor(d, r).upgrade /\ ~PlanFor(d, r).backup => d.schema = {}
<1>1. r \in {Empty} \cup Revisions /\ (r = Empty => d.schema = {})
  BY Classified
<1>2. CASE d.stamp # Empty
  <2> DEFINE b == d.stamp # HeadRevision /\ d.schema # {}
             u == d.stamp # HeadRevision
  <2>1. PlanFor(d, r) = [backup |-> b, stamp |-> Empty, upgrade |-> u]
    BY <1>2 DEF PlanFor
  <2>2. b \in BOOLEAN /\ u \in BOOLEAN
    OBVIOUS
  <2> HIDE DEF b, u
  <2>3. /\ PlanFor(d, r) \in Plans
        /\ PlanFor(d, r).backup = b /\ PlanFor(d, r).stamp = Empty /\ PlanFor(d, r).upgrade = u
    BY <2>1, <2>2 DEF Plans
  <2> QED BY <2>3 DEF b, u
<1>3. CASE d.stamp = Empty
  <2> DEFINE b == r # Empty
             u == r # HeadRevision
  <2>1. PlanFor(d, r) = [backup |-> b, stamp |-> r, upgrade |-> u]
    BY <1>3 DEF PlanFor
  <2>2. b \in BOOLEAN /\ u \in BOOLEAN
    OBVIOUS
  <2> HIDE DEF b, u
  <2>3. /\ PlanFor(d, r) \in Plans
        /\ PlanFor(d, r).backup = b /\ PlanFor(d, r).stamp = r /\ PlanFor(d, r).upgrade = u
    BY <1>1, <2>1, <2>2 DEF Plans
  <2> QED BY <1>1, <1>3, <2>3, RevisionNumbers DEF b, u
<1> QED BY <1>2, <1>3

\* A file that is written down.
LEMMA FileTyped ==
  \A schema \in SUBSET Objects, stamp \in {Empty} \cup Revisions :
    /\ File(schema, stamp, FALSE) \in Database
    /\ File(schema, stamp, TRUE) \in Database
    /\ File(schema, stamp, FALSE).schema = schema /\ File(schema, stamp, TRUE).schema = schema
    /\ File(schema, stamp, FALSE).stamp = stamp /\ File(schema, stamp, TRUE).stamp = stamp
    /\ File(schema, stamp, FALSE).unnumbered = FALSE
  BY DEF File, Database

LEMMA Written ==
  /\ \A r \in {Empty} \cup Revisions : Exact[r] \in SUBSET Objects
  /\ NoFile \in Database /\ NoPlan \in Plans
  /\ \A r \in {Empty} \cup Revisions :
       /\ File(Exact[r], r, FALSE) \in Database
       /\ Truthful(File(Exact[r], r, FALSE))
<1>1. \A r \in {Empty} \cup Revisions : Exact[r] \in SUBSET Objects
  BY DEF Exact, Objects
<1>2. NoFile \in Database
  BY FileTyped DEF NoFile
<1>3. NoPlan \in Plans
  BY DEF NoPlan, Plans
<1>4. ASSUME NEW r \in {Empty} \cup Revisions
      PROVE  /\ File(Exact[r], r, FALSE) \in Database
             /\ Truthful(File(Exact[r], r, FALSE))
  <2> DEFINE schema == Exact[r]
             d == File(schema, r, FALSE)
  <2>1. schema \in SUBSET Objects /\ schema = Exact[r]
    BY <1>1
  <2> HIDE DEF schema
  <2>2. d \in Database /\ d.schema = schema /\ d.stamp = r /\ d.unnumbered = FALSE
    BY <2>1, FileTyped, Zenon DEF d
  <2> HIDE DEF d
  <2>3. d \in Database /\ Truthful(d)
    BY <2>1, <2>2 DEF Truthful
  <2> QED BY <2>1, <2>3, Zenon DEF d
<1> QED BY <1>1, <1>2, <1>3, <1>4

\* Every revision made something.
LEMMA RevisionMade ==
  ASSUME NEW r \in Revisions
  PROVE  \E o \in Recorded : RevisionOf(o) = r /\ o \in Exact[r]
<1>1. \E o \in Recorded : RevisionOf(o) = r
  <2>1. CASE r \in {2, 3, 4, 5, 6, 8, 9, 10, 11, 12, 13}
    <3>1. <<"column", r, 1>> \in Recorded
      BY <2>1 DEF Recorded, Columns, Auth, Inventory, Stabilization, UnifiedSales,
         InvoiceFollowup, OptionalShifts, ShiftlessRefunds, QuickSaleCustomer,
         DocumentWorkflow, CustomerDiscount, ProductIdentifiers
    <3>2. RevisionOf(<<"column", r, 1>>) = r
      BY DEF RevisionOf
    <3> QED BY <3>1, <3>2
  <2>2. CASE r = 1
    <3>1. Core \in Recorded /\ RevisionOf(Core) = 1
      BY DEF Recorded, Tables, BaselineTables, Core, Baseline, RevisionOf
    <3> QED BY <2>2, <3>1
  <2>3. CASE r = 7
    <3>1. /\ <<"setting", SaleDocument, 1>> \in Recorded
          /\ RevisionOf(<<"setting", SaleDocument, 1>>) = 7
      BY DEF Recorded, Settings, SaleDocument, RevisionOf
    <3> QED BY <2>3, <3>1
  <2>4. CASE r = 14
    <3>1. /\ <<"table", ReservationsRefunds, 1>> \in Recorded
          /\ RevisionOf(<<"table", ReservationsRefunds, 1>>) = 14
      BY DEF Recorded, Tables, LaterTables, ReservationsRefunds, RevisionOf
    <3> QED BY <2>4, <3>1
  <2> QED BY <2>1, <2>2, <2>3, <2>4, RevisionNumbers
<1>2. \A o \in Recorded : RevisionOf(o) = r => o \in Exact[r]
  BY RevisionNumbers DEF Exact
<1> QED BY <1>1, <1>2

\* The files a start may find.
LEMMA FilesFound ==
  ASSUME NEW d \in InitialFiles
  PROVE  d \in Database /\ Truthful(d)
<1> DEFINE stamped == {File(Exact[r], r, FALSE) : r \in {Empty} \cup Revisions}
           unstamped == {File(Exact[r], Empty, FALSE) : r \in Revisions}
           old == {File(Exact[r], r, TRUE) : r \in Baseline..InvoiceFollowup}
           less == {{File(Exact[r] \ {o}, Empty, FALSE) : r \in Revisions} : o \in Recorded}
           more == {{File(Exact[r] \cup {o}, Empty, FALSE) : r \in Revisions} :
                      o \in Recorded \cup {LooseSku, Foreign}}
<1>1. d \in stamped => d \in Database /\ Truthful(d)
  BY Written
<1>2. CASE \E r \in Baseline..InvoiceFollowup : d = File(Exact[r], r, TRUE)
  <2>1. PICK r \in Baseline..InvoiceFollowup : d = File(Exact[r], r, TRUE)
    BY <1>2
  <2>2. r \in Revisions /\ ~(r >= SaleDocument)
    BY <2>1, RevisionNumbers DEF Baseline, InvoiceFollowup, SaleDocument
  <2> DEFINE schema == Exact[r]
  <2>3. schema \in SUBSET Objects /\ d = File(schema, r, TRUE) /\ schema = Exact[r]
    BY <2>1, <2>2, Written
  <2> HIDE DEF schema
  <2>4. d \in Database /\ d.stamp = r /\ d.schema = schema
    BY <2>2, <2>3, FileTyped
  <2> QED BY <2>2, <2>3, <2>4 DEF Truthful
<1>3. CASE \E schema \in SUBSET Objects : d = File(schema, Empty, FALSE)
  <2>1. PICK schema \in SUBSET Objects : d = File(schema, Empty, FALSE)
    BY <1>3
  <2>2. d \in Database /\ d.stamp = Empty
    BY <2>1, FileTyped
  <2> QED BY <2>2, BlankIsTruthful
<1>4. ASSUME d \in old
      PROVE  \E r \in Baseline..InvoiceFollowup : d = File(Exact[r], r, TRUE)
  BY <1>4
<1>5. ASSUME d \in unstamped \cup (UNION less) \cup (UNION more)
      PROVE  \E schema \in SUBSET Objects : d = File(schema, Empty, FALSE)
  <2>1. CASE d \in unstamped
    BY <2>1, Written
  <2>2. CASE d \in UNION less
    <3>1. PICK o \in Recorded : d \in {File(Exact[r] \ {o}, Empty, FALSE) : r \in Revisions}
      BY <2>2
    <3> QED BY <3>1, Written
  <2>3. CASE d \in UNION more
    <3>1. PICK o \in Recorded \cup {LooseSku, Foreign} :
            d \in {File(Exact[r] \cup {o}, Empty, FALSE) : r \in Revisions}
      BY <2>3
    <3> QED BY <3>1, Written DEF Objects
  <2> HIDE DEF unstamped, less, more
  <2> QED BY <1>5, <2>1, <2>2, <2>3
<1>6. InitialFiles = stamped \cup unstamped \cup old \cup (UNION less) \cup (UNION more)
  BY DEF InitialFiles
<1> HIDE DEF stamped, unstamped, old, less, more
<1> QED BY <1>1, <1>2, <1>3, <1>4, <1>5, <1>6

LEMMA InitInv == Init => Inv
<1> SUFFICES ASSUME Init PROVE Inv
  OBVIOUS
<1> USE DEF Init
<1>1. db \in Database /\ Truthful(db)
  BY FilesFound
<1>2. \A d \in copies : d \in Database /\ Truthful(d)
  BY Written, StartupAssumption
<1>3. TypeOK
  BY <1>1, <1>2, Written, StartupAssumption DEF TypeOK, Phases, Halted
<1>4. Kept
  BY <1>1, <1>2 DEF Kept
<1>5. Course
  BY DEF Course
<1> QED BY <1>3, <1>4, <1>5 DEF Inv

\* A step that leaves the file and the copies alone, outside the bootstrap.
LEMMA OutsideBootstrap ==
  ASSUME Inv, phase' \notin Bootstrap, statement' = 0, TypeOK', Kept'
  PROVE  Inv'
  BY DEF Inv, Course, Bootstrap

LEMMA InspectInv == Inv /\ Inspect => Inv'
<1> SUFFICES ASSUME Inv, Inspect PROVE Inv'
  OBVIOUS
<1> USE DEF Inspect, counters
<1>1. TypeOK'
  BY Classified DEF Inv, TypeOK, Phases, Bootstrap
<1>2. Kept'
  BY DEF Inv, Kept
<1>3. Course'
  BY DEF Course
<1> QED BY <1>1, <1>2, <1>3 DEF Inv

\* Where the bootstrap goes after its plan and after its backup.
LEMMA WayOn ==
  ASSUME NEW p \in Plans
  PROVE  /\ AfterPlan(p) \in {"backup", "stamp", "upgrade", "tables"}
         /\ AfterBackup(p) \in {"stamp", "upgrade", "tables"}
         /\ AfterStamp(p) \in {"upgrade", "tables"}
         /\ AfterStamp(p) = "upgrade" => p.upgrade
         /\ AfterBackup(p) = "stamp" => p.stamp # Empty
         /\ AfterBackup(p) = "upgrade" => p.stamp = Empty /\ p.upgrade
         /\ AfterPlan(p) # "backup" => ~p.backup /\ AfterPlan(p) = AfterBackup(p)
  BY DEF AfterPlan, AfterBackup, AfterStamp, Plans

LEMMA PlanInv == Inv /\ Plan => Inv'
<1> SUFFICES ASSUME Inv, Plan PROVE Inv'
  OBVIOUS
<1> USE DEF Plan, counters
<1>1. /\ matched = Classify(db) /\ seen = db /\ db \in Database /\ statement = 0
      /\ matched # Unknown
  BY DEF Inv, TypeOK, Course
<1> DEFINE p == PlanFor(db, matched)
<1>2. /\ p \in Plans
      /\ p.stamp # Empty => p.backup
      /\ p.stamp = Empty /\ p.upgrade => db.stamp # HeadRevision
      /\ p.upgrade /\ ~p.backup => db.schema = {}
  BY <1>1, Planned
<1>3. plan' = p /\ phase' = AfterPlan(p)
  OBVIOUS
<1> HIDE DEF p
<1>4. TypeOK'
  BY <1>2, <1>3, WayOn DEF Inv, TypeOK, Phases, Bootstrap, Starting
<1>5. Kept'
  BY DEF Inv, Kept
<1>6. Course'
  <2>1. phase' \notin {"plan", "stamp"}
    BY <1>2, <1>3, WayOn
  <2>2. phase' = "upgrade" => db.stamp # HeadRevision /\ seen.schema = {}
    BY <1>1, <1>2, <1>3, WayOn
  <2>3. phase' = "upgrade" => db.stamp + 1 \in Revisions
    BY <1>1, <2>2, RevisionNumbers DEF Database
  <2>4. phase' = "upgrade" => 0 <= Len(Ddl)
    BY <2>3, MigrationTyped DEF Ddl, Next1
  <2>5. UNCHANGED <<db, copies, matched, seen, statement>> /\ Ddl' = Ddl
    BY DEF Ddl, Next1
  <2> QED BY <1>1, <1>3, <2>1, <2>2, <2>4, <2>5 DEF Course, p
<1> QED BY <1>4, <1>5, <1>6 DEF Inv

\* The bootstrap's process is gone.
LEMMA ForgetInv ==
  ASSUME Inv, Forget, phase' \in Halted \cup {"columns"}, statement' = 0,
         UNCHANGED <<copies, origin, reloads, restores>>,
         faults' \in 0..MaxFaults,
         db' \in Database, Truthful(db')
  PROVE  Inv'
<1>1. TypeOK'
  BY Written DEF Inv, TypeOK, Forget, Phases, Halted, Starting
<1>2. Kept'
  BY DEF Inv, Kept
<1>3. phase' \notin Bootstrap
  BY DEF Halted, Bootstrap
<1> QED BY <1>1, <1>2, <1>3, OutsideBootstrap

LEMMA ForgettingInv ==
  Inv /\ (Refuse \/ FailBackup \/ FailMigration \/ CreateTables \/ Crash) => Inv'
<1> SUFFICES ASSUME Inv, Refuse \/ FailBackup \/ FailMigration \/ CreateTables \/ Crash
             PROVE  Inv'
  OBVIOUS
<1>1. /\ db \in Database /\ Truthful(db) /\ faults \in 0..MaxFaults
      /\ phase # "upgrade" => statement = 0
  BY DEF Inv, TypeOK, Kept, Course
<1>2. faults < MaxFaults => faults + 1 \in 0..MaxFaults
  BY <1>1, StartupAssumption
<1>3. CASE Refuse
  BY <1>1, <1>3, ForgetInv DEF Refuse, Halted, counters
<1>4. CASE FailBackup
  BY <1>1, <1>2, <1>4, ForgetInv DEF FailBackup, Halted
<1>5. CASE FailMigration
  BY <1>1, <1>5, ForgetInv DEF FailMigration, Halted, counters
<1>6. CASE CreateTables
  <2>1. db' \in Database /\ Truthful(db')
    BY <1>1, <1>6, StartAdds DEF CreateTables
  <2> QED BY <1>1, <1>6, <2>1, ForgetInv DEF CreateTables, counters
<1>7. CASE Crash
  BY <1>1, <1>2, <1>7, ForgetInv DEF Crash, Halted
<1> QED BY <1>3, <1>4, <1>5, <1>6, <1>7

LEMMA BackUpInv == Inv /\ BackUp => Inv'
<1> SUFFICES ASSUME Inv, BackUp PROVE Inv'
  OBVIOUS
<1> USE DEF BackUp, counters
<1>1. /\ matched = Classify(db) /\ matched # Unknown /\ seen = db /\ db \in Database
      /\ plan = PlanFor(db, matched) /\ plan \in Plans /\ statement = 0
  BY DEF Inv, TypeOK, Course
<1>2. plan.stamp = Empty /\ plan.upgrade => db.stamp # HeadRevision
  BY <1>1, Planned
<1>3. TypeOK'
  BY <1>1, WayOn DEF Inv, TypeOK, Phases, Bootstrap, Starting
<1>4. Kept'
  BY DEF Inv, Kept
<1>5. Course'
  <2>1. /\ phase' \in {"stamp", "upgrade", "tables"}
        /\ phase' = "stamp" => plan.stamp # Empty
        /\ phase' = "upgrade" => db.stamp # HeadRevision
    BY <1>1, <1>2, WayOn
  <2>2. phase' = "upgrade" => db.stamp + 1 \in Revisions
    BY <1>1, <2>1, RevisionNumbers DEF Database
  <2>3. phase' = "upgrade" => 0 <= Len(Ddl)
    BY <2>2, MigrationTyped DEF Ddl, Next1
  <2>4. UNCHANGED <<db, matched, plan, seen, statement>> /\ Ddl' = Ddl /\ seen \in copies'
    BY <1>1 DEF Ddl, Next1
  <2> QED BY <1>1, <2>1, <2>3, <2>4 DEF Course
<1> QED BY <1>3, <1>4, <1>5 DEF Inv

\* A file is stamped with what was recognised in it, and what was recognised is there.
LEMMA StampFileInv == Inv /\ StampFile => Inv'
<1> SUFFICES ASSUME Inv, StampFile PROVE Inv'
  OBVIOUS
<1> USE DEF StampFile, counters
<1>1. /\ matched = Classify(db) /\ matched # Unknown /\ db \in Database
      /\ plan = PlanFor(db, matched) /\ plan \in Plans /\ statement = 0
      /\ plan.stamp # Empty
      /\ seen.schema = {} \/ seen \in copies
  BY DEF Inv, TypeOK, Course
<1>2. /\ plan.stamp \in Revisions /\ Satisfies(db, plan.stamp)
      /\ plan.upgrade => plan.stamp # HeadRevision
  BY <1>1, Planned, Classified
<1>3. /\ Exact[plan.stamp] \subseteq db.schema
      /\ plan.stamp >= SaleDocument => ~db.unnumbered
  BY <1>1, <1>2, SatisfiedIsTruthful
<1>4. /\ db' \in Database /\ db'.stamp = plan.stamp /\ db'.schema = db.schema
      /\ db'.unnumbered = db.unnumbered
  BY <1>1, <1>2 DEF Database
<1>5. TypeOK'
  BY <1>1, <1>4, WayOn DEF Inv, TypeOK, Phases, Bootstrap, Starting
<1>6. Kept'
  BY <1>3, <1>4 DEF Inv, Kept, Truthful
<1>7. Course'
  <2>1. phase' \in {"upgrade", "tables"} /\ (phase' = "upgrade" => db'.stamp # HeadRevision)
    BY <1>1, <1>2, <1>4, WayOn
  <2>2. phase' = "upgrade" => db'.stamp + 1 \in Revisions
    BY <1>4, <2>1, RevisionNumbers DEF Database
  <2>3. phase' = "upgrade" => 0 <= Len(Ddl')
    BY <2>2, MigrationTyped DEF Ddl, Next1
  <2>4. statement' = 0 /\ (seen'.schema = {} \/ seen' \in copies')
    BY <1>1
  <2> QED BY <2>1, <2>3, <2>4 DEF Course
<1> QED BY <1>5, <1>6, <1>7 DEF Inv

\* The migration that runs is the one after the stamp.
LEMMA Running ==
  ASSUME Inv, phase = "upgrade"
  PROVE  /\ db \in Database /\ Truthful(db) /\ Next1 \in Revisions /\ db.stamp = Next1 - 1
         /\ Len(Ddl) \in 0..4 /\ statement \in 0..4 /\ statement <= Len(Ddl)
         /\ \A i \in 1..statement : Ddl[i] \in db.schema
         /\ seen.schema = {} \/ seen \in copies
<1>1. /\ db \in Database /\ Truthful(db) /\ db.stamp # HeadRevision /\ statement \in 0..4
      /\ statement <= Len(Ddl) /\ \A i \in 1..statement : Ddl[i] \in db.schema
      /\ seen.schema = {} \/ seen \in copies
  BY DEF Inv, TypeOK, Kept, Course
<1>2. Next1 \in Revisions /\ db.stamp = Next1 - 1
  BY <1>1, RevisionNumbers DEF Database, Next1
<1>3. Len(Ddl) \in 0..4
  BY <1>2, MigrationTyped DEF Ddl
<1> QED BY <1>1, <1>2, <1>3

LEMMA MigrateInv == Inv /\ Migrate => Inv'
<1> SUFFICES ASSUME Inv, Migrate PROVE Inv'
  OBVIOUS
<1> USE DEF Migrate, counters
<1> DEFINE more == {Ddl[statement + 1]}
<1>1. statement + 1 \in 1..Len(Ddl) /\ statement + 1 \in 0..4
  BY Running
<1>2. more \in SUBSET Objects
  BY <1>1, Running, MigrationTyped DEF Makes, Ddl
<1>3. db' = [db EXCEPT !.schema = @ \cup more]
  OBVIOUS
<1> HIDE DEF more
<1>4. /\ db' \in Database /\ db'.stamp = db.stamp /\ db'.schema = db.schema \cup more
      /\ Truthful(db')
  <2>1. db \in Database /\ Truthful(db)
    BY Running
  <2> HIDE DEF Migrate
  <2> QED BY <1>2, <1>3, <2>1, Extended
<1>5. TypeOK'
  BY <1>1, <1>4 DEF Inv, TypeOK
<1>6. Kept'
  BY <1>4 DEF Inv, Kept
<1>7. Course'
  <2>1. Ddl' = Ddl /\ db'.stamp # HeadRevision
    BY <1>4 DEF Ddl, Next1, Inv, Course
  <2>2. \A i \in 1..statement' : Ddl[i] \in db'.schema
    BY <1>1, <1>4, Running DEF more
  <2>3. phase' = "upgrade" /\ statement' <= Len(Ddl) /\ (seen.schema = {} \/ seen \in copies)
    BY <1>1, Running
  <2> QED BY <2>1, <2>2, <2>3 DEF Course
<1> QED BY <1>5, <1>6, <1>7 DEF Inv

LEMMA CommitMigrationInv == Inv /\ CommitMigration => Inv'
<1> SUFFICES ASSUME Inv, CommitMigration PROVE Inv'
  OBVIOUS
<1> USE DEF CommitMigration, counters
<1> DEFINE r == Next1
<1>1. \A i \in 1..Len(Migrations[r].ddl) : Migrations[r].ddl[i] \in db.schema
  BY Running DEF Ddl
<1>2. db \in Database /\ r \in Revisions /\ db.stamp = r - 1 /\ Truthful(db)
  BY Running
<1>3. db' = Finish(db, r)
  OBVIOUS
<1> HIDE DEF r
<1>4. /\ Exact[r] \subseteq db'.schema /\ db' \in Database /\ db'.stamp = r
      /\ db'.unnumbered = (db.unnumbered /\ r # SaleDocument)
  BY <1>1, <1>2, <1>3, MigrationCompletes DEF Truthful
<1>5. Truthful(db')
  <2>1. r \in 1..14 /\ (r > SaleDocument => db.stamp >= SaleDocument)
    BY <1>2, RevisionNumbers DEF SaleDocument
  <2>2. r >= SaleDocument => ~db.unnumbered \/ r = SaleDocument
    BY <1>2, <2>1 DEF Truthful, SaleDocument
  <2> QED BY <1>4, <2>2 DEF Truthful
<1>6. TypeOK'
  BY <1>4 DEF Inv, TypeOK, Phases, Bootstrap, Starting
<1>7. Kept'
  BY <1>5 DEF Inv, Kept
<1>8. Course'
  <2>1. phase' \in {"tables", "upgrade"} /\ (phase' = "upgrade" => db'.stamp # HeadRevision)
    BY <1>4 DEF r
  <2>2. phase' = "upgrade" => db'.stamp + 1 \in Revisions
    BY <1>4, <2>1, RevisionNumbers DEF Database
  <2>3. phase' = "upgrade" => 0 <= Len(Ddl')
    BY <2>2, MigrationTyped DEF Ddl, Next1
  <2>4. statement' = 0 /\ (seen'.schema = {} \/ seen' \in copies')
    BY Running
  <2> QED BY <2>1, <2>3, <2>4 DEF Course
<1> QED BY <1>6, <1>7, <1>8 DEF Inv

LEMMA AddMissingColumnsInv == Inv /\ AddMissingColumns => Inv'
<1> SUFFICES ASSUME Inv, AddMissingColumns PROVE Inv'
  OBVIOUS
<1> USE DEF AddMissingColumns, counters
<1>1. db' \in Database /\ Truthful(db') /\ statement' = 0
  BY StartAdds DEF Inv, TypeOK, Kept, Course
<1>2. TypeOK' /\ Kept'
  BY <1>1 DEF Inv, TypeOK, Kept, Phases, Starting
<1> QED BY <1>1, <1>2, OutsideBootstrap DEF Bootstrap

LEMMA ServeInv == Inv /\ Serve => Inv'
<1> SUFFICES ASSUME Inv, Serve PROVE Inv'
  OBVIOUS
<1> USE DEF Serve, counters
<1>1. db' \in Database /\ Truthful(db') /\ statement' = 0
  BY StartAdds DEF Inv, TypeOK, Kept, Course
<1>2. TypeOK' /\ Kept'
  BY <1>1 DEF Inv, TypeOK, Kept, Phases
<1> QED BY <1>1, <1>2, OutsideBootstrap DEF Bootstrap

LEMMA StartWithoutBootstrapInv == Inv /\ StartWithoutBootstrap => Inv'
<1> SUFFICES ASSUME Inv, StartWithoutBootstrap PROVE Inv'
  OBVIOUS
<1> USE DEF StartWithoutBootstrap, counters
<1>1. reloads' \in 0..MaxReloads /\ statement' = 0
  BY StartupAssumption DEF Inv, TypeOK, Course, Halted
<1>2. TypeOK' /\ Kept'
  BY <1>1 DEF Inv, TypeOK, Kept, Phases, Starting
<1> QED BY <1>1, <1>2, OutsideBootstrap DEF Bootstrap

LEMMA StoreSettingsInv == Inv /\ StoreSettings => Inv'
<1> SUFFICES ASSUME Inv, StoreSettings PROVE Inv'
  OBVIOUS
<1> USE DEF StoreSettings, counters
<1>1. PICK some \in {{<<"setting", SaleDocument, 1>>}, Settings} :
        db' = [db EXCEPT !.schema = @ \cup some]
  OBVIOUS
<1>2. some \in SUBSET Objects
  BY KindsAreObjects DEF Settings
<1>3. db' \in Database /\ Truthful(db') /\ statement' = 0
  BY <1>1, <1>2, Extended DEF Inv, TypeOK, Kept, Course
<1>4. TypeOK' /\ Kept'
  BY <1>3 DEF Inv, TypeOK, Kept
<1> QED BY <1>3, <1>4, OutsideBootstrap DEF Bootstrap

LEMMA StopInv == Inv /\ Stop => Inv'
<1> SUFFICES ASSUME Inv, Stop PROVE Inv'
  OBVIOUS
<1> USE DEF Stop, counters
<1>1. TypeOK' /\ Kept' /\ statement' = 0
  BY DEF Inv, TypeOK, Kept, Course, Phases, Halted
<1> QED BY <1>1, OutsideBootstrap DEF Bootstrap

LEMMA RestoreInv == Inv /\ Restore => Inv'
<1> SUFFICES ASSUME Inv, Restore PROVE Inv'
  OBVIOUS
<1> USE DEF Restore, counters
<1>1. restores' \in 0..MaxRestores /\ statement' = 0
  BY StartupAssumption DEF Inv, TypeOK, Course, Halted
<1>2. db' \in Database /\ Truthful(db')
  BY DEF Inv, TypeOK, Kept
<1>3. TypeOK' /\ Kept'
  BY <1>1, <1>2 DEF Inv, TypeOK, Kept
<1> QED BY <1>1, <1>3, OutsideBootstrap DEF Bootstrap, Halted

LEMMA NextInv == Inv /\ [Next]_vars => Inv'
<1> SUFFICES ASSUME Inv, [Next]_vars PROVE Inv'
  OBVIOUS
<1>1. CASE UNCHANGED vars
  BY <1>1 DEF vars, Inv, TypeOK, Kept, Course, Ddl, Next1
<1>2. CASE Next
  BY <1>2, InspectInv, PlanInv, ForgettingInv, BackUpInv, StampFileInv, MigrateInv,
     CommitMigrationInv, AddMissingColumnsInv, ServeInv, StartWithoutBootstrapInv,
     StoreSettingsInv, StopInv, RestoreInv DEF Next, BootstrapStep, StartStep
<1> QED BY <1>1, <1>2

LEMMA AlwaysInv == Spec => []Inv
  BY InitInv, NextInv, PTL DEF Spec
-----------------------------------------------------------------------------
(* How a start ends.                                                       *)

\* A file whose stamp says so has no products.sku without values, the only rebuild that
\* can have been cut off in a file is that of the revision after its stamp, and sales
\* are in files with tables.
Clean(d) ==
  /\ d.stamp >= ProductIdentifiers => LooseSku \notin d.schema
  /\ \A r \in Revisions : Leftover(r) \in d.schema => r = d.stamp + 1 /\ r # Baseline
  /\ d.unnumbered => d.schema # {}

\* What is newer than the stamp was created by the migration that runs.  The
\* classification overlooks only products.sku without values.
NewerIsMade ==
  /\ \A o \in db.schema \ {LooseSku} : RevisionOf(o) > db.stamp =>
       \E i \in 1..statement : o = Ddl[i]
  /\ db.stamp = Empty => LooseSku \notin db.schema
  /\ ~db.unnumbered

\* What the bootstrap works on has nothing foreign; it leaves its upgrade at the head
\* revision, and the start fills the rows.
Outcome ==
  /\ \A d \in copies \cup {db} : Clean(d)
  /\ phase \in {"backup", "stamp", "upgrade"} => Foreign \notin db.schema
  /\ phase \in Starting \cup {"serving"} /\ origin = "bootstrap" =>
       db.stamp = HeadRevision /\ Foreign \notin db.schema
  /\ phase = "serving" /\ origin # "restored" => ~db.blank
  /\ phase = "upgrade" /\ Consistent => NewerIsMade

LEMMA OddObjects ==
  /\ LooseSku \notin Recorded
  /\ \A r \in Revisions : Leftover(r) \notin Recorded /\ Leftover(r) # LooseSku
  /\ \A r \in Revisions : Leftover(r) # Foreign
  /\ LooseSku # Foreign
  /\ RevisionOf(LooseSku) = ProductIdentifiers
  /\ RevisionOf(Foreign) = Empty /\ Foreign \notin Recorded
<1>1. LooseSku[1] = "loose" /\ Foreign[1] = "foreign" /\ \A r : Leftover(r)[1] = "leftover"
  BY DEF LooseSku, Foreign, Leftover
<1>2. RevisionOf(LooseSku) = ProductIdentifiers /\ RevisionOf(Foreign) = Empty
  BY DEF LooseSku, Foreign, RevisionOf
<1> QED BY <1>1, <1>2, ObjectKinds

LEMMA CleanMore ==
  ASSUME NEW d, NEW e, Clean(d), e.stamp = d.stamp,
         d.schema \subseteq e.schema, e.unnumbered = d.unnumbered,
         \A o \in e.schema \ d.schema :
           /\ d.stamp >= ProductIdentifiers => o # LooseSku
           /\ \A r \in Revisions : o = Leftover(r) => r = d.stamp + 1 /\ r # Baseline
  PROVE  Clean(e)
BY DEF Clean

LEMMA AddsClean ==
  ASSUME NEW d \in Database, NEW e, Truthful(d), Clean(d), Adds(d, e), e.stamp = d.stamp
  PROVE  Clean(e)
<1>1. d.stamp >= ProductIdentifiers => <<"column", ProductIdentifiers, 1>> \in d.schema
  <2> DEFINE o == <<"column", ProductIdentifiers, 1>>
  <2>1. o \in Recorded /\ RevisionOf(o) = ProductIdentifiers
    BY DEF Recorded, Columns, RevisionOf
  <2>2. d.stamp \in {Empty} \cup Revisions
    BY DEF Database
  <2> HIDE DEF o
  <2>3. d.stamp >= ProductIdentifiers => o \in Exact[d.stamp]
    BY <2>1, <2>2 DEF Exact
  <2> QED BY <2>3 DEF Truthful, o
<1>2. \A o \in e.schema \ d.schema :
        /\ d.stamp >= ProductIdentifiers => o # LooseSku
        /\ \A r \in Revisions : o # Leftover(r)
  BY <1>1, OddObjects DEF Adds
<1> QED BY <1>2, CleanMore DEF Adds

\* The files a start may find.
LEMMA CleanFilesFound ==
  /\ \A d \in InitialFiles : Clean(d)
  /\ \A r \in {Empty} \cup Revisions : Clean(File(Exact[r], r, FALSE))
<1>1. ASSUME NEW schema \in SUBSET (Recorded \cup {LooseSku, Foreign}),
             NEW stamp \in {Empty} \cup Revisions, stamp # Empty => schema \subseteq Recorded
      PROVE  /\ Clean(File(schema, stamp, FALSE))
             /\ schema # {} => Clean(File(schema, stamp, TRUE))
  <2>1. /\ stamp >= ProductIdentifiers => LooseSku \notin schema
        /\ \A r \in Revisions : Leftover(r) \notin schema
    BY <1>1, OddObjects, RevisionNumbers DEF ProductIdentifiers
  <2> QED BY <2>1 DEF Clean, File
<1>2. /\ \A r \in {Empty} \cup Revisions : Exact[r] \subseteq Recorded
      /\ \A r \in Revisions : Exact[r] # {}
  BY RevisionMade DEF Exact
<1>3. /\ \A r \in {Empty} \cup Revisions : Clean(File(Exact[r], r, FALSE))
      /\ \A r \in Revisions : Clean(File(Exact[r], r, TRUE))
  BY <1>1, <1>2
<1> DEFINE stamped == {File(Exact[r], r, FALSE) : r \in {Empty} \cup Revisions}
           unstamped == {File(Exact[r], Empty, FALSE) : r \in Revisions}
           old == {File(Exact[r], r, TRUE) : r \in Baseline..InvoiceFollowup}
           less == {{File(Exact[r] \ {o}, Empty, FALSE) : r \in Revisions} : o \in Recorded}
           more == {{File(Exact[r] \cup {o}, Empty, FALSE) : r \in Revisions} :
                      o \in Recorded \cup {LooseSku, Foreign}}
<1>4. ASSUME NEW d \in stamped \cup old PROVE Clean(d)
  <2>1. Baseline..InvoiceFollowup \subseteq Revisions
    BY RevisionNumbers DEF Baseline, InvoiceFollowup
  <2> QED BY <1>3, <2>1
<1>5. ASSUME NEW d \in unstamped PROVE Clean(d)
  BY <1>1, <1>2
<1>6. ASSUME NEW d \in UNION less PROVE Clean(d)
  <2>1. PICK o \in Recorded : d \in {File(Exact[r] \ {o}, Empty, FALSE) : r \in Revisions}
    OBVIOUS
  <2>2. PICK r \in Revisions : d = File(Exact[r] \ {o}, Empty, FALSE)
    BY <2>1
  <2> QED BY <1>1, <1>2, <2>2
<1>7. ASSUME NEW d \in UNION more PROVE Clean(d)
  <2>1. PICK o \in Recorded \cup {LooseSku, Foreign} :
          d \in {File(Exact[r] \cup {o}, Empty, FALSE) : r \in Revisions}
    OBVIOUS
  <2>2. PICK r \in Revisions : d = File(Exact[r] \cup {o}, Empty, FALSE)
    BY <2>1
  <2> QED BY <1>1, <1>2, <2>2
<1>8. InitialFiles = stamped \cup unstamped \cup old \cup (UNION less) \cup (UNION more)
  BY DEF InitialFiles
<1> HIDE DEF stamped, unstamped, old, less, more
<1> QED BY <1>3, <1>4, <1>5, <1>6, <1>7, <1>8

LEMMA InitOutcome == Init => Outcome
<1> SUFFICES ASSUME Init PROVE Outcome
  OBVIOUS
<1>1. Clean(db) /\ \A d \in copies : Clean(d)
  BY CleanFilesFound, StartupAssumption DEF Init
<1> QED BY <1>1 DEF Init, Outcome, Starting

\* A step to the bootstrap's inspection or to a halt.
LEMMA BeforeUpgrade ==
  ASSUME Outcome, UNCHANGED <<db, copies>>, phase' \in Halted \cup {"plan"}
  PROVE  Outcome'
BY DEF Outcome, Halted, Starting

\* The classification lets nothing newer pass but products.sku without values.
LEMMA NothingNewer ==
  ASSUME NEW d \in Database, NEW r \in Revisions, ~FutureEvidence(d, r), Satisfies(d, r),
         \A k \in Revisions : Leftover(k) \notin d.schema
  PROVE  /\ \A o \in d.schema \ {LooseSku} : ~(RevisionOf(o) > r)
         /\ ~d.unnumbered
<1>1. ASSUME NEW o \in d.schema \ {LooseSku} PROVE ~(RevisionOf(o) > r)
  <2>1. o \in Objects
    BY DEF Database
  <2>2. o[1] # "loose" /\ (o[1] = "leftover" => \E k \in Revisions : o = Leftover(k))
    BY <2>1, ObjectKinds DEF Objects, Foreign, Leftover
  <2> QED BY <2>2 DEF FutureEvidence
<1>2. ~d.unnumbered
  BY RevisionNumbers DEF FutureEvidence, Satisfies, HasData, SaleDocument
<1> QED BY <1>1, <1>2

LEMMA NotForeign ==
  ASSUME NEW d, Classify(d) # Unknown
  PROVE  Foreign \notin d.schema
  BY DEF Classify

\* A file that holds what its stamp says and nothing newer is recognised by its stamp.
LEMMA RecognisedByStamp ==
  ASSUME NEW d \in Database, d.stamp \in Revisions, Truthful(d), Clean(d),
         Foreign \notin d.schema, ~d.unnumbered,
         \A o \in d.schema \ {LooseSku} : ~(RevisionOf(o) > d.stamp)
  PROVE  Classify(d) = d.stamp
<1> DEFINE r == d.stamp
<1>1. Exact[r] \subseteq d.schema /\ r \in Revisions /\ r \in Int /\ r <= HeadRevision
  BY RevisionNumbers DEF Truthful
<1>2. Satisfies(d, r)
  <2>1. \A o \in Recorded : RevisionOf(o) <= r => o \in d.schema
    BY <1>1 DEF Exact
  <2>2. \A kind : Has(d, kind, r)
    BY <2>1 DEF Has
  <2>3. HasNonNullable(d, r) /\ HasData(d, r)
    BY <2>2 DEF HasNonNullable, HasData, Clean
  <2> QED BY <2>2, <2>3 DEF Satisfies, HasSchema, HasIndexes, HasNullable, HasTriggers
<1>3. ~FutureEvidence(d, r)
  BY DEF FutureEvidence, LooseSku
<1>4. \A later \in Revisions : later > r => ~Satisfies(d, later)
  <2> SUFFICES ASSUME NEW later \in Revisions, later > r, Satisfies(d, later) PROVE FALSE
    OBVIOUS
  <2>1. Exact[later] \subseteq d.schema
    BY SatisfiedIsTruthful
  <2>2. PICK o \in Recorded : RevisionOf(o) = later /\ o \in Exact[later]
    BY RevisionMade
  <2> QED BY <2>1, <2>2, OddObjects
<1>5. \A later \in (r + 1)..HeadRevision : later \in Revisions /\ later > r
  BY <1>1, RevisionNumbers
<1>6. r \in Recognised(d)
  BY <1>1, <1>2, <1>3, <1>4, <1>5 DEF Recognised
<1>7. ASSUME NEW q \in Recognised(d) PROVE q = r
  <2>1. /\ q \in Revisions /\ Satisfies(d, q)
        /\ \A later \in (q + 1)..HeadRevision : ~Satisfies(d, later)
    BY DEF Recognised
  <2>2. ~(q > r)
    BY <1>4, <2>1
  <2>3. ~(q < r)
    BY <1>1, <1>2, <2>1, RevisionNumbers
  <2> QED BY <1>1, <2>1, <2>2, <2>3, RevisionNumbers
<1>8. d.schema # {}
  BY <1>1, RevisionMade
<1> HIDE DEF r
<1>9. Classify(d) = CHOOSE q \in Recognised(d) : TRUE
  BY <1>6, <1>8 DEF Classify
<1> QED BY <1>6, <1>7, <1>9 DEF r

LEMMA PlanOutcome == Inv /\ Outcome /\ (Plan \/ BackUp) => Outcome'
<1> SUFFICES ASSUME Inv, Outcome, Plan \/ BackUp PROVE Outcome'
  OBVIOUS
<1> DEFINE p == PlanFor(db, matched)
<1>1. /\ db \in Database /\ matched = Classify(db) /\ matched # Unknown /\ seen = db
      /\ phase = "backup" => plan = p
  BY DEF Inv, TypeOK, Course, Plan, BackUp
<1>2. /\ p \in Plans
      /\ p.stamp # Empty => p.backup
      /\ p.stamp = Empty => (p.upgrade <=> db.stamp # HeadRevision)
  BY <1>1, Planned
<1>3. plan' = p /\ UNCHANGED db /\ (phase' = AfterPlan(p) \/ phase' = AfterBackup(p))
  BY <1>1 DEF Plan, BackUp
<1>4. copies' \subseteq copies \cup {db} /\ UNCHANGED <<matched, seen, statement>>
  BY DEF Plan, BackUp
<1>8. p.stamp = Empty /\ db.stamp = Empty => matched = Empty
  BY DEF PlanFor
<1> HIDE DEF p
<1>5. /\ phase' \in {"backup", "stamp", "upgrade", "tables"}
      /\ phase' = "upgrade" => p.stamp = Empty
      /\ phase' = "tables" => p.stamp = Empty /\ ~p.upgrade
  BY <1>2, <1>3 DEF AfterPlan, AfterBackup, AfterStamp, Plans
<1>6. phase' = "tables" => db'.stamp = HeadRevision
  BY <1>2, <1>3, <1>5
<1>7. \A d \in copies' \cup {db'} : Clean(d)
  BY <1>3, <1>4 DEF Outcome
<1>9. phase' = "upgrade" /\ Consistent' => NewerIsMade'
  <2> SUFFICES ASSUME phase' = "upgrade", Consistent'
               PROVE  /\ \A o \in db.schema \ {LooseSku} : ~(RevisionOf(o) > db.stamp)
                      /\ db.stamp = Empty => LooseSku \notin db.schema
                      /\ ~db.unnumbered
    BY <1>3 DEF NewerIsMade
  <2>1. ConsistentAs(db, matched) /\ p.stamp = Empty /\ Clean(db)
    BY <1>1, <1>3, <1>4, <1>5 DEF Consistent, Outcome
  <2>2. CASE db.stamp = Empty
    BY <1>1, <1>8, <2>1, <2>2, Classified DEF Clean
  <2>3. CASE db.stamp # Empty
    <3>1. /\ db.stamp \in Revisions
          /\ ~FutureEvidence(db, db.stamp) /\ Satisfies(db, db.stamp)
      BY <1>1, <2>1, <2>3, Classified DEF ConsistentAs, Database
    <3>2. \A r \in Revisions : Leftover(r) \notin db.schema
      BY <2>1, <3>1, RevisionNumbers DEF Clean, ConsistentAs
    <3> QED BY <1>1, <2>3, <3>1, <3>2, NothingNewer
  <2> QED BY <2>2, <2>3
<1>10. Foreign \notin db'.schema
  BY <1>1, <1>3, NotForeign
<1> QED BY <1>3, <1>5, <1>6, <1>7, <1>9, <1>10 DEF Outcome, Starting

LEMMA StampFileOutcome == Inv /\ Outcome /\ StampFile => Outcome'
<1> SUFFICES ASSUME Inv, Outcome, StampFile PROVE Outcome'
  OBVIOUS
<1>1. /\ matched = Classify(db) /\ matched # Unknown /\ db \in Database
      /\ plan = PlanFor(db, matched) /\ plan \in Plans /\ plan.stamp # Empty
  BY DEF Inv, TypeOK, Course, StampFile
<1>2. /\ db.stamp = Empty /\ plan.stamp \in Revisions
      /\ Satisfies(db, plan.stamp) /\ ~FutureEvidence(db, plan.stamp)
      /\ plan.upgrade <=> plan.stamp # HeadRevision
  BY <1>1, Planned, Classified
<1>3. /\ db' = [db EXCEPT !.stamp = plan.stamp] /\ phase' = AfterStamp(plan)
      /\ UNCHANGED <<copies, plan>>
  BY DEF StampFile
<1>4. /\ db'.stamp = plan.stamp /\ db'.schema = db.schema
      /\ db'.unnumbered = db.unnumbered
  BY <1>1, <1>2, <1>3 DEF Database
<1>5. plan.stamp >= ProductIdentifiers => LooseSku \notin db.schema
  BY <1>2 DEF Satisfies, HasNonNullable
<1>6. \A r \in Revisions : Leftover(r) \notin db.schema
  BY <1>2, RevisionNumbers DEF Outcome, Clean, Baseline
<1>7. Clean(db')
  BY <1>2, <1>4, <1>5, <1>6, RevisionNumbers DEF Clean, Outcome
<1>8. /\ \A o \in db'.schema \ {LooseSku} : ~(RevisionOf(o) > db'.stamp)
      /\ db'.stamp # Empty /\ ~db'.unnumbered
  BY <1>1, <1>2, <1>4, <1>6, NothingNewer
<1>9. phase' \in {"upgrade", "tables"} /\ (phase' = "tables" => db'.stamp = HeadRevision)
  BY <1>1, <1>2, <1>3, <1>4 DEF AfterStamp, Plans
<1>10. NewerIsMade'
  BY <1>8 DEF NewerIsMade
<1>11. \A d \in copies' \cup {db'} : Clean(d)
  BY <1>3, <1>7 DEF Outcome
<1>12. Foreign \notin db'.schema
  BY <1>1, <1>4, NotForeign
<1> QED BY <1>9, <1>10, <1>11, <1>12 DEF Outcome, Starting

LEMMA MigrateOutcome == Inv /\ Outcome /\ Migrate => Outcome'
<1> SUFFICES ASSUME Inv, Outcome, Migrate PROVE Outcome'
  OBVIOUS
<1> DEFINE o == Ddl[statement + 1]
<1>1. /\ db' = [db EXCEPT !.schema = @ \cup {o}] /\ statement' = statement + 1
      /\ phase = "upgrade" /\ phase' = "upgrade" /\ statement < Len(Ddl)
      /\ UNCHANGED <<copies, matched, seen>>
  BY DEF Migrate
<1>2. /\ db \in Database /\ Next1 \in Revisions /\ db.stamp = Next1 - 1
      /\ statement \in 0..4 /\ Len(Ddl) \in 0..4
  BY <1>1, Running
<1>3. o \in Makes(Migrations[Next1])
  BY <1>1, <1>2 DEF Makes, Ddl
<1>4. /\ RevisionOf(o) = Next1
      /\ Next1 = Baseline => \A r \in Revisions : o # Leftover(r)
  BY <1>2, <1>3, MigrationMakesOnce DEF MakesOnce
<1> HIDE DEF o
<1>5. /\ db'.schema = db.schema \cup {o} /\ db'.stamp = db.stamp
      /\ db'.unnumbered = db.unnumbered
  BY <1>1, <1>2 DEF Database
<1>6. Clean(db')
  <2>1. db.stamp >= ProductIdentifiers => o # LooseSku
    BY <1>2, <1>4, OddObjects, RevisionNumbers DEF ProductIdentifiers
  <2>2. \A r \in Revisions : o = Leftover(r) => r = db.stamp + 1 /\ r # Baseline
    BY <1>4 DEF Next1, Leftover, RevisionOf
  <2> QED BY <1>4, <1>5, <2>1, <2>2, CleanMore DEF Outcome
<1>7. Consistent' => NewerIsMade'
  <2>1. Ddl' = Ddl
    BY <1>5 DEF Ddl, Next1
  <2>2. 1..statement' = 1..statement \cup {statement + 1}
    BY <1>1, <1>2
  <2>3. Consistent' => Consistent
    BY <1>1 DEF Consistent
  <2> SUFFICES ASSUME Consistent' PROVE NewerIsMade'
    OBVIOUS
  <2>4. NewerIsMade
    BY <1>1, <2>3 DEF Outcome
  <2>5. db'.stamp = Empty => o # LooseSku
    BY <1>2, <1>4, <1>5, OddObjects, RevisionNumbers DEF ProductIdentifiers
  <2> QED BY <1>1, <1>5, <2>1, <2>2, <2>4, <2>5 DEF NewerIsMade, o
<1>8. \A d \in copies' \cup {db'} : Clean(d)
  BY <1>1, <1>6 DEF Outcome
<1>9. Foreign \notin db'.schema
  BY <1>1, <1>2, <1>4, <1>5, OddObjects, RevisionNumbers DEF Outcome
<1> QED BY <1>1, <1>7, <1>8, <1>9 DEF Outcome, Starting

LEMMA CommitMigrationOutcome == Inv /\ Outcome /\ CommitMigration => Outcome'
<1> SUFFICES ASSUME Inv, Outcome, CommitMigration PROVE Outcome'
  OBVIOUS
<1> DEFINE r == Next1
<1>1. /\ db' = Finish(db, r) /\ phase = "upgrade" /\ statement = Len(Ddl)
      /\ phase' = IF r = HeadRevision THEN "tables" ELSE "upgrade"
      /\ UNCHANGED <<copies, matched, seen>>
  BY DEF CommitMigration
<1>2. /\ db \in Database /\ r \in Revisions /\ db.stamp = r - 1 /\ Truthful(db)
      /\ \A i \in 1..Len(Migrations[r].ddl) : Migrations[r].ddl[i] \in db.schema
  BY <1>1, Running DEF Ddl
<1>3. \A o \in Makes(Migrations[r]) : RevisionOf(o) = r
  BY <1>2, MigrationMakesOnce DEF MakesOnce
<1>4. \A i \in 1..statement : Ddl[i] \in Makes(Migrations[r])
  BY <1>1 DEF Makes, Ddl
<1> HIDE DEF r
<1>5. /\ db'.stamp = r /\ Exact[r] \subseteq db'.schema
      /\ db'.schema = (db.schema \cup Migrations[r].rest) \ Removed(r)
      /\ db'.unnumbered => db.unnumbered
  BY <1>1, <1>2, MigrationCompletes DEF Truthful
<1>6. Clean(db')
  <2>1. \A k \in Revisions : Leftover(k) \in Migrations[r].rest => k = r
    BY <1>3 DEF Makes, Leftover, RevisionOf
  <2>2. \A k \in Revisions : Leftover(k) \in db.schema => k = r
    <3>1. \A k \in Revisions : Leftover(k) \in db.schema => k = db.stamp + 1
      BY DEF Outcome, Clean
    <3> QED BY <1>2, <3>1, RevisionNumbers
  <2>3. db'.schema # {}
    BY <1>2, <1>5, RevisionMade
  <2>4. Leftover(r) \notin db'.schema
    BY <1>5 DEF Removed
  <2>5. r >= ProductIdentifiers => LooseSku \notin db'.schema
    <3>1. CASE r = ProductIdentifiers
      BY <1>5, <3>1 DEF Removed
    <3>2. CASE r > ProductIdentifiers
      <4>1. db.stamp >= ProductIdentifiers /\ r # ProductIdentifiers
        BY <1>2, <3>2, RevisionNumbers DEF ProductIdentifiers
      <4>2. LooseSku \notin db.schema
        BY <4>1 DEF Outcome, Clean
      <4>3. LooseSku \notin Migrations[r].rest
        BY <1>3, <4>1, OddObjects DEF Makes
      <4> QED BY <1>5, <4>2, <4>3
    <3> QED BY <1>2, <3>1, <3>2, RevisionNumbers DEF ProductIdentifiers
  <2>6. \A k \in Revisions : Leftover(k) \notin db'.schema
    BY <1>5, <2>1, <2>2, <2>4
  <2> QED BY <1>5, <2>3, <2>5, <2>6, RevisionNumbers DEF Clean
<1>7. Consistent' => NewerIsMade'
  <2> SUFFICES ASSUME Consistent PROVE NewerIsMade'
    BY <1>1 DEF Consistent
  <2>3. NewerIsMade
    BY <1>1 DEF Outcome
  <2>4. db'.stamp # Empty /\ ~db'.unnumbered
    BY <1>2, <1>5, <2>3, RevisionNumbers DEF NewerIsMade
  <2> SUFFICES ASSUME NEW o \in db'.schema \ {LooseSku}, RevisionOf(o) > db'.stamp
               PROVE  FALSE
    BY <2>4 DEF NewerIsMade
  <2>1. CASE o \in db.schema
    <3>1. r \in Int /\ db.stamp \in Int
      BY <1>2, RevisionNumbers
    <3>2. CASE RevisionOf(o) > db.stamp
      <4>1. \E i \in 1..statement : o = Ddl[i]
        BY <2>1, <2>3, <3>2 DEF NewerIsMade
      <4> QED BY <1>3, <1>4, <1>5, <3>1, <4>1
    <3>3. CASE ~(RevisionOf(o) > db.stamp)
      <4>1. o \in Objects
        BY <1>2, <2>1 DEF Database
      <4>2. RevisionOf(o) \in Int
        BY <4>1, ObjectKinds, RevisionNumbers
           DEF Objects, RevisionOf, LooseSku, Foreign, Leftover, ProductIdentifiers, Empty
      <4> QED BY <1>2, <1>5, <3>1, <3>3, <4>2
    <3> QED BY <3>2, <3>3
  <2>2. CASE o \in Migrations[r].rest
    BY <1>2, <1>3, <1>5, <2>2, RevisionNumbers DEF Makes
  <2> QED BY <1>5, <2>1, <2>2
<1>8. \A d \in copies' \cup {db'} : Clean(d)
  BY <1>1, <1>6 DEF Outcome
<1>9. phase' \in {"tables", "upgrade"} /\ (phase' = "tables" => db'.stamp = HeadRevision)
  BY <1>1, <1>5
<1>10. Foreign \notin db'.schema
  <2>1. Foreign \notin Migrations[r].rest
    BY <1>2, <1>3, OddObjects, RevisionNumbers DEF Makes
  <2> QED BY <1>1, <1>5, <2>1 DEF Outcome
<1> QED BY <1>1, <1>7, <1>8, <1>9, <1>10 DEF Outcome, Starting

\* The application's own steps.
LEMMA StartOutcome ==
  Inv /\ Outcome /\ (CreateTables \/ AddMissingColumns \/ Serve \/ StoreSettings) => Outcome'
<1> SUFFICES ASSUME Inv, Outcome,
                    CreateTables \/ AddMissingColumns \/ Serve \/ StoreSettings
             PROVE  Outcome'
  OBVIOUS
<1>1. db \in Database /\ Truthful(db) /\ Clean(db)
  BY DEF Inv, TypeOK, Kept, Outcome
<1>2. /\ db'.stamp = db.stamp /\ Adds(db, db') /\ Clean(db')
      /\ StoreSettings => db'.blank = db.blank
  <2>1. CASE CreateTables \/ AddMissingColumns \/ Serve
    <3>1. \/ db' = [db EXCEPT !.schema = CreateAll(@)]
          \/ db' = AddColumns(db)
          \/ db' = CompleteColumns(db)
      BY <2>1 DEF CreateTables, AddMissingColumns, Serve
    <3>2. ~StoreSettings
      BY <2>1 DEF CreateTables, AddMissingColumns, Serve, StoreSettings
    <3> QED BY <1>1, <3>1, <3>2, StartAdds, AddsClean
  <2>2. CASE StoreSettings
    <3>1. PICK some \in {{<<"setting", SaleDocument, 1>>}, Settings} :
            db' = [db EXCEPT !.schema = @ \cup some]
      BY <2>2 DEF StoreSettings
    <3>2. some \subseteq Recorded
      BY DEF Recorded, Settings
    <3>3. /\ db'.schema = db.schema \cup some /\ db'.stamp = db.stamp
          /\ db'.blank = db.blank /\ db'.unnumbered = db.unnumbered
      BY <1>1, <3>1 DEF Database
    <3>4. Adds(db, db')
      BY <3>2, <3>3 DEF Adds
    <3> QED BY <1>1, <3>3, <3>4, AddsClean
  <2> QED BY <2>1, <2>2
<1>3. Serve => ~db'.blank
  <2>1. ASSUME Serve PROVE db' = CompleteColumns(db)
    BY <2>1 DEF Serve
  <2>2. CompleteColumns(db).blank = FALSE
    BY <1>1 DEF CompleteColumns, FillRows, Database
  <2> QED BY <2>1, <2>2
<1>4. \/ CreateTables /\ phase = "tables" /\ phase' = "columns"
      \/ AddMissingColumns /\ phase = "columns" /\ phase' = "rows"
      \/ Serve /\ phase = "rows" /\ phase' = "serving"
      \/ StoreSettings /\ phase = "serving" /\ phase' = "serving"
  BY DEF CreateTables, AddMissingColumns, Serve, StoreSettings
<1>5. UNCHANGED <<copies, origin>>
  BY DEF CreateTables, AddMissingColumns, Serve, StoreSettings
<1>6. \A d \in copies' \cup {db'} : Clean(d)
  BY <1>2, <1>5 DEF Outcome
<1>7. Foreign \notin db.schema => Foreign \notin db'.schema
  BY <1>2, OddObjects DEF Adds
<1> QED BY <1>2, <1>3, <1>4, <1>5, <1>6, <1>7 DEF Outcome, Starting

LEMMA NextOutcome == Inv /\ Outcome /\ [Next]_vars => Outcome'
<1> SUFFICES ASSUME Inv, Outcome, [Next]_vars PROVE Outcome'
  OBVIOUS
<1>1. CASE Inspect \/ Refuse \/ FailBackup \/ FailMigration \/ Stop \/ Crash
  BY <1>1, BeforeUpgrade DEF Inspect, Refuse, FailBackup, FailMigration, Stop, Crash,
                             Halted
<1>2. CASE StartWithoutBootstrap
  BY <1>2 DEF StartWithoutBootstrap, Outcome, Starting
<1>3. CASE Restore
  <2>1. /\ db' \in copies /\ phase' \in Halted \cup {"serving"} /\ origin' = "restored"
        /\ UNCHANGED copies
    BY <1>3 DEF Restore
  <2> QED BY <2>1 DEF Outcome, Starting, Halted
<1>4. CASE UNCHANGED vars
  BY <1>4 DEF vars, Outcome, NewerIsMade, Consistent, ConsistentAs, Ddl, Next1
<1> QED BY <1>1, <1>2, <1>3, <1>4, PlanOutcome, StampFileOutcome, MigrateOutcome,
           CommitMigrationOutcome, StartOutcome DEF Next, BootstrapStep, StartStep

LEMMA AlwaysOutcome == Spec => [](Inv /\ Outcome)
<1>1. Init => Inv /\ Outcome
  BY InitInv, InitOutcome
<1>2. Inv /\ Outcome /\ [Next]_vars => (Inv /\ Outcome)'
  BY NextInv, NextOutcome
<1> QED BY <1>1, <1>2, PTL DEF Spec
-----------------------------------------------------------------------------
(* The results.                                                            *)

(* Every start finds and leaves a file, a plan and copies of the declared  *)
(* shape, whatever is killed, reloaded or restored.                        *)
THEOREM TypeCorrect == Spec => []TypeOK
<1>1. Inv => TypeOK
  BY DEF Inv
<1> QED BY <1>1, AlwaysInv, PTL

(* No object of a revision up to the stamp is ever missing, and no sale    *)
(* the numbering revision numbers is without a number: the classification  *)
(* command.stamp relies on is sound, and each migration commits its stamp  *)
(* with its last statements.                                               *)
THEOREM StampStaysTrue == Spec => []StampKept
<1>1. Inv => StampKept
  BY DEF Inv, Kept, Truthful, StampKept
<1> QED BY <1>1, AlwaysInv, PTL

(* Whatever was killed before, run_bootstrap changes a file with tables    *)
(* only after a checked copy of it, as inspected, exists.                  *)
THEOREM BackedUpBeforeChange == Spec => []ChangesAreBackedUp
<1>1. Inv => ChangesAreBackedUp
  BY DEF Inv, Course, ChangesAreBackedUp, Bootstrap
<1> QED BY <1>1, AlwaysInv, PTL

(* A program that came through the bootstrap serves a file that is complete *)
(* at the head revision; and however it was started, whatever was killed   *)
(* between the compatibility pass's commits, the rows are filled before    *)
(* they are served, unless the file was just put back.                     *)
THEOREM CompleteWhenServed == Spec => []ServesComplete
<1>1. Inv /\ Outcome => ServesComplete
  <2> SUFFICES ASSUME Inv, Outcome, phase = "serving"
               PROVE  /\ origin = "bootstrap" => Complete(db)
                      /\ origin # "restored" => ~db.blank
    BY DEF ServesComplete
  <2>1. ASSUME origin = "bootstrap"
        PROVE  Complete(db)
    <3>1. db.stamp = HeadRevision /\ Truthful(db) /\ Clean(db) /\ ~db.blank
      BY <2>1 DEF Inv, Kept, Outcome
    <3> QED BY <3>1, RevisionNumbers DEF Complete, Truthful, Clean, SaleDocument,
                                         ProductIdentifiers
  <2> QED BY <2>1 DEF Outcome
<1> QED BY <1>1, AlwaysOutcome, PTL

(* Once the bootstrap has found a file consistent, no migration of that    *)
(* run creates what is already there: the classification finds no evidence *)
(* of a later revision, a rebuild can only have been cut off in the        *)
(* revision after the stamp, and each migration creates objects of its own *)
(* revision, each once.                                                    *)
THEOREM UpgradeOfConsistentRuns == Spec => []ConsistentUpgradeRuns
<1>1. Inv /\ Outcome => ConsistentUpgradeRuns
  <2> SUFFICES ASSUME Inv, Outcome, phase = "upgrade", Consistent, Recreates PROVE FALSE
    BY DEF ConsistentUpgradeRuns
  <2> DEFINE r == Next1
  <2>1. /\ phase = "upgrade" /\ r \in Revisions /\ db.stamp = r - 1
        /\ statement \in 0..4 /\ Len(Ddl) \in 0..4 /\ statement <= Len(Ddl)
    BY Running DEF Recreates
  <2>2. /\ \A o \in Makes(Migrations[r]) : RevisionOf(o) = r
        /\ \A i, j \in 1..Len(Ddl) : Ddl[i] = Ddl[j] => i = j
        /\ \A i \in 1..Len(Ddl) : Ddl[i] \notin Migrations[r].rest
    BY <2>1, MigrationMakesOnce DEF MakesOnce, Ddl
  <2>3. ASSUME NEW o \in Makes(Migrations[r]), Clashes(o, db.schema)
        PROVE  \E i \in 1..statement : o = Ddl[i]
    <3>1. Strict(o) /\ o \in db.schema /\ RevisionOf(o) = r
      BY <2>2, <2>3 DEF Clashes
    <3>2. RevisionOf(o) > db.stamp
      BY <2>1, <3>1, RevisionNumbers
    <3>3. o # LooseSku
      BY <3>1 DEF Strict, LooseSku
    <3> QED BY <2>1, <3>1, <3>2, <3>3 DEF Outcome, NewerIsMade
  <2>4. \A i \in 1..Len(Ddl) : Ddl[i] \in Makes(Migrations[r])
    BY DEF Makes, Ddl
  <2>5. Migrations[r].rest \subseteq Makes(Migrations[r])
    BY DEF Makes
  <2> HIDE DEF r
  <2>6. CASE statement < Len(Ddl)
    <3>1. Clashes(Ddl[statement + 1], db.schema) /\ statement + 1 \in 1..Len(Ddl)
      BY <2>1, <2>6 DEF Recreates
    <3>2. PICK i \in 1..statement : Ddl[statement + 1] = Ddl[i]
      BY <2>3, <2>4, <3>1
    <3> QED BY <2>1, <2>2, <3>1, <3>2
  <2>7. CASE ~(statement < Len(Ddl))
    <3>1. PICK o \in Migrations[r].rest : Clashes(o, db.schema)
      BY <2>7 DEF Recreates, r
    <3>2. PICK i \in 1..statement : o = Ddl[i]
      BY <2>3, <2>5, <3>1
    <3> QED BY <2>1, <2>2, <3>2
  <2> QED BY <2>6, <2>7
<1> QED BY <1>1, AlwaysOutcome, PTL

(* A start that found a consistent file, killed between two migrations or  *)
(* later, leaves a file the next inspection finds consistent: what is in   *)
(* it is of the revisions up to the stamp, all of it, so the               *)
(* classification recognises the stamp, and no rebuild is left over.       *)
THEOREM KilledStartStaysConsistent == Spec => []KillLeavesConsistent
<1>1. ASSUME Inv, Outcome, db.stamp \in Revisions, ~db.unnumbered, Foreign \notin db.schema,
             \A o \in db.schema \ {LooseSku} : ~(RevisionOf(o) > db.stamp)
      PROVE  ConsistentAs(db, Classify(db))
  <2>1. db \in Database /\ Truthful(db) /\ Clean(db)
    BY <1>1 DEF Inv, TypeOK, Kept, Outcome
  <2>2. Classify(db) = db.stamp
    BY <1>1, <2>1, RecognisedByStamp
  <2>3. db.stamp < HeadRevision => Leftover(db.stamp + 1) \notin db.schema
    <3>1. /\ RevisionOf(Leftover(db.stamp + 1)) > db.stamp
          /\ Leftover(db.stamp + 1) # LooseSku
      BY <1>1, RevisionNumbers DEF RevisionOf, Leftover, LooseSku
    <3> QED BY <1>1, <3>1
  <2> QED BY <1>1, <2>2, <2>3, RevisionNumbers DEF ConsistentAs
<1>2. ASSUME Inv, Outcome, phase = "upgrade", Consistent, statement = 0
      PROVE  ConsistentAs(db, Classify(db))
  <2>1. /\ \A o \in db.schema \ {LooseSku} : ~(RevisionOf(o) > db.stamp)
        /\ db.stamp = Empty => LooseSku \notin db.schema
        /\ ~db.unnumbered /\ Foreign \notin db.schema
    BY <1>2 DEF Outcome, NewerIsMade
  <2>2. CASE db.stamp = Empty
    <3>1. \A o \in Objects \ {LooseSku, Foreign} : RevisionOf(o) > Empty
      BY ObjectKinds, RevisionNumbers DEF Objects, RevisionOf, Leftover
    <3>2. db \in Database
      BY <1>2 DEF Inv, TypeOK
    <3>3. db.schema = {}
      BY <2>1, <2>2, <3>1, <3>2 DEF Database
    <3> QED BY <2>2, <3>3, RevisionNumbers DEF Classify, ConsistentAs
  <2>3. CASE db.stamp # Empty
    <3>1. db.stamp \in Revisions
      BY <1>2, <2>3 DEF Inv, TypeOK, Database
    <3> QED BY <1>1, <1>2, <2>1, <3>1
  <2> QED BY <2>2, <2>3
<1>3. ASSUME Inv, Outcome, phase \in Starting \cup {"serving"}, origin = "bootstrap"
      PROVE  ConsistentAs(db, Classify(db))
  <2>1. db \in Database /\ Truthful(db) /\ db.stamp = 14 /\ Foreign \notin db.schema
    BY <1>3, RevisionNumbers DEF Inv, TypeOK, Kept, Outcome
  <2>2. ~db.unnumbered
    BY <2>1 DEF Truthful, SaleDocument
  <2>3. \A o \in Objects : RevisionOf(o) \in 0..14
    BY ObjectKinds, OddObjects, RevisionNumbers
       DEF Objects, RevisionOf, Leftover, ProductIdentifiers
  <2>4. \A o \in db.schema : ~(RevisionOf(o) > db.stamp)
    BY <2>1, <2>3 DEF Database
  <2> QED BY <1>1, <1>3, <2>1, <2>2, <2>4, RevisionNumbers
<1>4. Inv /\ Outcome => KillLeavesConsistent
  <2> SUFFICES ASSUME Inv, Outcome,
                      \/ phase \in Bootstrap /\ Consistent /\ statement = 0
                      \/ phase \in Starting \cup {"serving"} /\ origin = "bootstrap"
               PROVE  ConsistentAs(db, Classify(db))
    BY DEF KillLeavesConsistent
  <2>1. CASE phase \in {"plan", "backup", "stamp"} /\ Consistent
    BY <2>1 DEF Inv, Course, Consistent
  <2>2. CASE phase = "upgrade" /\ Consistent /\ statement = 0
    BY <1>2, <2>2
  <2>3. CASE phase \in Starting \cup {"serving"} /\ origin = "bootstrap"
    BY <1>3, <2>3
  <2> QED BY <2>1, <2>2, <2>3 DEF Bootstrap
<1> QED BY <1>4, AlwaysOutcome, PTL
=============================================================================
