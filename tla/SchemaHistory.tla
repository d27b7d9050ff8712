--------------------------- MODULE SchemaHistory ---------------------------
(***************************************************************************)
(* What a database file can contain, revision by revision: the objects the *)
(* fourteen Alembic migrations add, the objects an application start adds  *)
(* without Alembic, and how migration_bootstrap.py recognises a schema.    *)
(*                                                                         *)
(* An object stands for the tables, columns, indexes, ... of one revision  *)
(* that are created together; a revision that creates some of them before  *)
(* and some after its transaction begins has two parts of that kind.       *)
(*                                                                         *)
(* pysqlite opens a transaction at the first INSERT, UPDATE or DELETE.     *)
(* DDL executed before it is committed at once; DDL after it, the data and *)
(* the new row of alembic_version are committed together at the end.       *)
(***************************************************************************)
EXTENDS Integers, Sequences, FiniteSets

Baseline == 1
Auth == 2
Inventory == 3
Stabilization == 4
UnifiedSales == 5
InvoiceFollowup == 6
SaleDocument == 7
OptionalShifts == 8
ShiftlessRefunds == 9
QuickSaleCustomer == 10
DocumentWorkflow == 11
CustomerDiscount == 12
ProductIdentifiers == 13
ReservationsRefunds == 14

Revisions == Baseline..ReservationsRefunds      \* REVISION_ORDER
HeadRevision == ReservationsRefunds
Empty == 0          \* no revision applied, no application table
Unknown == -1       \* CLASS_UNKNOWN
-----------------------------------------------------------------------------
(* The objects, as <<kind, revision, part>>.                               *)

RevisionOf(o) == o[2]

Core  == <<"table", Baseline, 1>>      \* audit_log ... jobs
Money == <<"table", Baseline, 2>>      \* users ... sales, payments, refunds
BaselineTables == {Core, Money}
InventoryTables == {<<"table", Inventory, 1>>}
LaterTables == {<<"table", ProductIdentifiers, 1>>,     \* product_barcodes
                <<"table", ReservationsRefunds, 1>>,    \* inventory_reservations
                <<"table", ReservationsRefunds, 2>>}    \* refund_lines
Tables == BaselineTables \cup InventoryTables \cup LaterTables

Columns ==
  ({"column"} \X {Inventory, Stabilization} \X {1, 2}) \cup
  {<<"column", Stabilization, 3>>} \cup      \* of goods_receipts
  ({"column"} \X {Auth, UnifiedSales, InvoiceFollowup, OptionalShifts, ShiftlessRefunds,
                  QuickSaleCustomer, DocumentWorkflow, CustomerDiscount, ProductIdentifiers}
              \X {1})

Indexes ==
  ({"index"} \X {Baseline, ProductIdentifiers, ReservationsRefunds} \X {1, 2}) \cup
  ({"index"} \X {Inventory, Stabilization, UnifiedSales, InvoiceFollowup, OptionalShifts,
                 ShiftlessRefunds, QuickSaleCustomer, DocumentWorkflow} \X {1})

Triggers == {<<"trigger", Stabilization, 1>>}
\* The two keys of the sequence; prefix, padding and reset; require_cashier_shift.
Settings == {<<"setting", SaleDocument, 1>>, <<"setting", SaleDocument, 2>>,
             <<"setting", OptionalShifts, 1>>}
\* Columns these revisions make nullable.
Nullable == {"nullable"} \X {OptionalShifts, ShiftlessRefunds} \X {1}
\* products.sku present but nullable: a column the revision requires filled.
LooseSku == <<"loose", ProductIdentifiers, 1>>
\* _alembic_tmp_<table>: a rebuild of the revision was cut off.
Leftover(r) == <<"leftover", r, 1>>
\* A column of a known table that no revision knows.
Foreign == <<"foreign", Empty, 1>>

Recorded == Tables \cup Columns \cup Indexes \cup Triggers \cup Settings \cup Nullable
Objects == Recorded \cup {LooseSku, Foreign} \cup {Leftover(r) : r \in Revisions}

\* What the migrations up to r add.
Exact == [r \in {Empty} \cup Revisions |-> {o \in Recorded : RevisionOf(o) <= r}]

\* A database file.  stamp is the row of alembic_version (Empty when there is
\* none); unnumbered says that a finalized sale has no document number, blank
\* that a row has no value in a column added since it was written.
Database == [schema : SUBSET Objects, stamp : {Empty} \cup Revisions,
             unnumbered : BOOLEAN, blank : BOOLEAN]
-----------------------------------------------------------------------------
(* The migrations: what is committed statement by statement, what is       *)
(* committed with the new stamp, what is undone.                           *)

Migration(ddl, rest) == [ddl |-> ddl, rest |-> rest]
\* Rebuilding a table: the temporary table is created before any data moves.
Rebuild(r, rest) == Migration(<<Leftover(r)>>, rest)
Of(kind, r) == {o \in kind : RevisionOf(o) = r}
ColumnsAndIndexes(r) == Of(Columns, r) \cup Of(Indexes, r)

BaselineSchema ==
  Migration(<<Core, <<"index", Baseline, 1>>, Money, <<"index", Baseline, 2>>>>, {})
AddUserPasswordHash == Migration(<<<<"column", Auth, 1>>>>, {})
WeightedAverageInventoryCost ==      \* an UPDATE follows the columns of products
  Migration(<<<<"column", Inventory, 1>>>>,
            {<<"column", Inventory, 2>>} \cup InventoryTables \cup Of(Indexes, Inventory))
InventoryStabilization ==            \* an UPDATE follows the column of users
  Migration(<<<<"column", Stabilization, 1>>>>,
            ({"column"} \X {Stabilization} \X {2, 3}) \cup Of(Indexes, Stabilization) \cup Triggers)
UnifiedSalesPaymentFlow == Rebuild(UnifiedSales, ColumnsAndIndexes(UnifiedSales))
InvoiceHandoffFollowup == Rebuild(InvoiceFollowup, ColumnsAndIndexes(InvoiceFollowup))
BackfillSaleDocumentNumbers == Migration(<<>>, Of(Settings, SaleDocument))
OptionalShiftsUnifiedSales ==
  Rebuild(OptionalShifts, ColumnsAndIndexes(OptionalShifts) \cup Of(Nullable, OptionalShifts)
                          \cup Of(Settings, OptionalShifts))
\* Mutant: refunds.shift_id stays required.
ShiftedRefunds == Rebuild(ShiftlessRefunds, ColumnsAndIndexes(ShiftlessRefunds))
OptionalShiftlessRefunds ==
  Rebuild(ShiftlessRefunds,
          ColumnsAndIndexes(ShiftlessRefunds) \cup Of(Nullable, ShiftlessRefunds))
QuickSaleCustomerSnapshot == Rebuild(QuickSaleCustomer, ColumnsAndIndexes(QuickSaleCustomer))
DocumentWorkflowTypes == Rebuild(DocumentWorkflow, ColumnsAndIndexes(DocumentWorkflow))
CustomerDefaultDiscount == Rebuild(CustomerDiscount, ColumnsAndIndexes(CustomerDiscount))
AddProductIdentifiers ==             \* sku is nullable until its rows are filled
  Migration(<<LooseSku, <<"column", ProductIdentifiers, 1>>>>,
            Of(Indexes, ProductIdentifiers) \cup Of(Tables, ProductIdentifiers))
InventoryReservationsRefundLines ==
  Migration(<<<<"table", ReservationsRefunds, 1>>, <<"index", ReservationsRefunds, 1>>,
              <<"table", ReservationsRefunds, 2>>, <<"index", ReservationsRefunds, 2>>>>, {})

Migrations == <<BaselineSchema, AddUserPasswordHash, WeightedAverageInventoryCost,
                InventoryStabilization, UnifiedSalesPaymentFlow, InvoiceHandoffFollowup,
                BackfillSaleDocumentNumbers, OptionalShiftsUnifiedSales,
                OptionalShiftlessRefunds, QuickSaleCustomerSnapshot, DocumentWorkflowTypes,
                CustomerDefaultDiscount, AddProductIdentifiers,
                InventoryReservationsRefundLines>>

\* Statements that fail when the object is there already.  A column added in a
\* rebuild replaces its namesake; settings and triggers are only added if missing.
Strict(o) ==
  \/ o[1] \in {"table", "index", "leftover"}
  \/ /\ o[1] = "column"
     /\ RevisionOf(o) \in {Auth, Inventory, Stabilization, ProductIdentifiers}

Clashes(o, s) == Strict(o) /\ o \in s

\* The end of migration r: the rebuilt tables are renamed, the rows filled.
Finish(d, r) ==
  [d EXCEPT !.schema = (@ \cup Migrations[r].rest)
                       \ ({Leftover(r)} \cup {o \in {LooseSku} : r = ProductIdentifiers}),
            !.stamp = r,
            !.unnumbered = @ /\ r # SaleDocument]
-----------------------------------------------------------------------------
(* Recognising a schema.                                                   *)

Has(d, kind, r) == \A o \in Recorded : o[1] = kind /\ RevisionOf(o) <= r => o \in d.schema

HasSchema(d, r) == Has(d, "table", r) /\ Has(d, "column", r)
HasIndexesSkipped(d, r) == TRUE
HasIndexes(d, r) == Has(d, "index", r)
HasNullable(d, r) == Has(d, "nullable", r)
HasNonNullable(d, r) == r >= ProductIdentifiers => LooseSku \notin d.schema
HasTriggers(d, r) == Has(d, "trigger", r)
HasData(d, r) ==
  /\ Has(d, "setting", r)
  /\ r >= SaleDocument => ~d.unnumbered

FutureColumns(d, r) == \E o \in d.schema : o[1] = "column" /\ RevisionOf(o) > r

FutureEvidence(d, r) ==
  \/ \E o \in d.schema : RevisionOf(o) > r /\ o[1] \notin {"loose", "leftover"}
  \/ r < SaleDocument /\ d.unnumbered

Satisfies(d, r) ==
  /\ HasSchema(d, r) /\ HasIndexes(d, r)
  /\ HasNullable(d, r) /\ HasNonNullable(d, r)
  /\ HasTriggers(d, r) /\ HasData(d, r)

\* The newest revision nothing is missing of, unless something newer is there.
Recognised(d) ==
  {r \in Revisions : /\ ~FutureEvidence(d, r)
                     /\ Satisfies(d, r)
                     /\ \A later \in (r + 1)..HeadRevision : ~Satisfies(d, later)}

Classify(d) ==
  IF d.schema = {} THEN Empty
  ELSE IF Foreign \in d.schema \/ Recognised(d) = {} THEN Unknown
  ELSE CHOOSE r \in Recognised(d) : TRUE
-----------------------------------------------------------------------------
(* Starting the application: create_all, then the compatibility pass.      *)

\* The table an object is part of.
Home(o) ==
  CASE o[1] = "table" -> o
    [] RevisionOf(o) = Baseline -> <<"table", Baseline, o[3]>>
    [] o = <<"index", Inventory, 1>> \/ o = <<"column", Stabilization, 3>> ->
         <<"table", Inventory, 1>>
    [] o = <<"index", ProductIdentifiers, 2>> -> <<"table", ProductIdentifiers, 1>>
    [] o[1] = "index" /\ RevisionOf(o) = ReservationsRefunds ->
         <<"table", ReservationsRefunds, o[3]>>
    [] o = <<"column", Inventory, 1>> \/ RevisionOf(o) \in
         {DocumentWorkflow, CustomerDiscount, ProductIdentifiers} -> Core
    [] OTHER -> Money

\* Missing tables are created as the models have them now, with their indexes.
CreateAll(s) ==
  s \cup {o \in Tables \cup Columns \cup Indexes \cup Nullable : Home(o) \notin s}

Backfilled == {<<"column", UnifiedSales, 1>>, <<"column", OptionalShifts, 1>>}

\* Columns added before the first UPDATE, each committed at once.
AddColumns(d) ==
  LET added == {o \in Columns : o \notin {<<"column", Inventory, 1>>,
                  <<"column", Stabilization, 3>>, <<"column", ShiftlessRefunds, 1>>,
                  <<"column", DocumentWorkflow, 1>>}} \ d.schema
  IN [d EXCEPT !.schema = @ \cup added \cup
                 (IF <<"column", ProductIdentifiers, 1>> \in added THEN {LooseSku} ELSE {}),
               !.blank = @ \/ added \cap Backfilled # {}]

\* The rest of the pass is one transaction: columns, indexes, triggers and rows.
CompatibilityIndexes ==
  {o \in Indexes : RevisionOf(o) \notin {Baseline, Inventory, ShiftlessRefunds}}

KeepRows(d) == d
FillRows(d) == [d EXCEPT !.blank = FALSE]

CompleteColumns(d) ==
  FillRows([d EXCEPT !.schema = @ \cup {<<"column", Stabilization, 3>>,
              <<"column", DocumentWorkflow, 1>>} \cup CompatibilityIndexes \cup Triggers])
=============================================================================
