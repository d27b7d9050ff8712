----------------------------- MODULE Documents -----------------------------
(***************************************************************************)
(* Work orders, quotes and delivery notes with their numbers, printed      *)
(* snapshots, copies and sales, under requests that overlap and processes  *)
(* that are killed.                                                        *)
(*                                                                         *)
(* A request reads without a lock; SQLite gives it the write lock at its   *)
(* first INSERT or UPDATE and keeps it until the commit.  A step is what   *)
(* one request does between two points where another may commit.  Rows,    *)
(* prices and stock are not here (StockLedger); each document has a row to *)
(* sell.                                                                   *)
(***************************************************************************)
EXTENDS Integers, FiniteSets

CONSTANTS Requests,     \* requests the thread pool runs at once
          Types,        \* document types: DOCUMENT_TYPES
          Targets,      \* sale, invoice: the targets of a conversion that are sales
          Forms,        \* idempotency keys of quick sale forms
          MaxId,        \* bound: documents at once
          MaxEvents     \* bound: requests and kills

ASSUME DocumentsAssumption == MaxId \in Nat /\ MaxEvents \in Nat

Ids == 1..MaxId
None == 0            \* no document, no number yet
Numbers == Nat \ {0}

VARIABLES docs,      \* jobs by id
          prints,    \* receipts: the printed snapshots
          sales,     \* sales
          next,      \* setting next_receipt_sequence
          nextSale,  \* setting next_sale_document_sequence
          task,      \* what each request is doing
          crossed,   \* ids of documents two requests worked on at once
          events

vars == <<docs, prints, sales, next, nextSale, task, crossed, events>>

Document == [type : Types, source : Ids \cup {None}, number : Numbers \cup {None}]
NoType == "none"
Keys == (Ids \X Targets) \cup ({None} \X Forms)
NoKey == <<None, NoType>>
Steps == {"idle", "number", "write", "snapshot", "insert", "erase", "clone", "sell", "settings"}
Task == [step : Steps, doc : Ids \cup {None}, print : BOOLEAN, type : Types \cup {NoType},
         number : Nat, sale : Nat, key : Keys \cup {NoKey}]
Idle == [step |-> "idle", doc |-> None, print |-> FALSE, type |-> NoType,
         number |-> None, sale |-> None, key |-> NoKey]

TypeOK ==
  /\ DOMAIN docs \subseteq Ids /\ \A d \in DOMAIN docs : docs[d] \in Document
  /\ prints \subseteq [doc : Ids, number : Numbers]
  /\ sales \subseteq [doc : Ids \cup {None}, key : Keys, number : Numbers]
  /\ next \in Numbers /\ nextSale \in 1..(Cardinality(sales) + 1)
  /\ task \in [Requests -> Task]
  /\ crossed \subseteq Ids /\ events \in 0..MaxEvents

Init ==
  /\ docs = [d \in {} |-> None]
  /\ prints = {} /\ sales = {}
  /\ next = 1 /\ nextSale = 1
  /\ task = [r \in Requests |-> Idle]
  /\ crossed = {} /\ events = 0
-----------------------------------------------------------------------------
Live == DOMAIN docs
Begin(r, work) == task' = [task EXCEPT ![r] = work]
Finish(r) == task' = [task EXCEPT ![r] = Idle]

\* A request begins.
Ask(r) ==
  /\ task[r].step = "idle"
  /\ events < MaxEvents
  /\ events' = events + 1

\* It works on document d, maybe beside another.
On(r, d) ==
  /\ Ask(r)
  /\ d \in Live
  /\ crossed' = IF \E other \in Requests : task[other].doc = d
                THEN crossed \cup {d} ELSE crossed

\* SQLite gives a new row the highest id there is, plus one.
NewId == 1 + Cardinality({i \in Ids : \E d \in Live : i <= d})

\* Mutant: the number of the setting is taken as it is.
SettingsNumber(from, used) == from

\* The first number from the setting's on that no row has: it follows the used ones.
FirstFree(from, used) ==
  from + Cardinality({n \in used : n >= from /\ \A m \in from..n : m \in used})
Used == {docs[d].number : d \in Live}
UsedBySales == {s.number : s \in sales}
-----------------------------------------------------------------------------
(* create_job commits the document, then numbers it in a second transaction*)

Create(r, type) ==
  /\ Ask(r)
  /\ NewId \in Ids
  /\ docs' = [d \in Live \cup {NewId} |->
                IF d = NewId THEN [type |-> type, source |-> None, number |-> None] ELSE docs[d]]
  /\ Begin(r, [Idle EXCEPT !.step = "number", !.doc = NewId])
  /\ UNCHANGED <<prints, sales, next, nextSale, crossed>>

\* Mutant: a document is numbered each time it is printed.
AskPrintAnew(r, d) ==
  /\ On(r, d)
  /\ Begin(r, [Idle EXCEPT !.doc = d, !.print = TRUE, !.step = "number"])
  /\ UNCHANGED <<docs, prints, sales, next, nextSale>>

\* job_receipt numbers a document that has no number, then prints it.
AskPrint(r, d) ==
  /\ On(r, d)
  /\ Begin(r, [Idle EXCEPT !.doc = d, !.print = TRUE, !.number = docs[d].number,
                           !.step = IF docs[d].number = None THEN "number" ELSE "snapshot"])
  /\ UNCHANGED <<docs, prints, sales, next, nextSale>>

ReadNumber(r) ==
  /\ task[r].step = "number"
  /\ Begin(r, [task[r] EXCEPT !.step = "write", !.number = FirstFree(next, Used)])
  /\ UNCHANGED <<docs, prints, sales, next, nextSale, crossed, events>>

\* The document is still there and the number, which is unique, still free.
Writable(r) == task[r].doc \in Live /\ \A d \in Live \ {task[r].doc} : docs[d].number # task[r].number

WriteNumber(r) ==
  /\ task[r].step = "write"
  /\ Writable(r)
  /\ docs' = [docs EXCEPT ![task[r].doc].number = task[r].number]
  /\ next' = task[r].number + 1
  /\ IF task[r].print THEN Begin(r, [task[r] EXCEPT !.step = "snapshot"]) ELSE Finish(r)
  /\ UNCHANGED <<prints, sales, nextSale, crossed, events>>

\* The request fails; a new document stays without a number.
FailNumber(r) ==
  /\ task[r].step = "write"
  /\ ~Writable(r)
  /\ Finish(r)
  /\ UNCHANGED <<docs, prints, sales, next, nextSale, crossed, events>>

\* ensure_print_snapshot: a snapshot there is used again.
ReadSnapshot(r) ==
  /\ task[r].step = "snapshot"
  /\ IF \E p \in prints : p.doc = task[r].doc
     THEN Finish(r) ELSE Begin(r, [task[r] EXCEPT !.step = "insert"])
  /\ UNCHANGED <<docs, prints, sales, next, nextSale, crossed, events>>

\* The number of a snapshot is unique: a second one fails.
InsertSnapshot(r) ==
  /\ task[r].step = "insert"
  /\ prints' = IF \E p \in prints : p.number = task[r].number
               THEN prints
               ELSE prints \cup {[doc |-> task[r].doc, number |-> task[r].number]}
  /\ Finish(r)
  /\ UNCHANGED <<docs, sales, next, nextSale, crossed, events>>
-----------------------------------------------------------------------------
\* Mutant: copies do not matter.
CanBeDeletedWithCopies(d) ==
  /\ \A s \in sales : s.doc # d
  /\ \A p \in prints : p.doc # d

\* assert_job_can_be_deleted
CanBeDeleted(d) ==
  /\ \A e \in Live : docs[e].source # d
  /\ \A s \in sales : s.doc # d
  /\ \A p \in prints : p.doc # d

\* The last check is a read of its own before the DELETE.
AskDelete(r, d) ==
  /\ On(r, d)
  /\ CanBeDeleted(d)
  /\ Begin(r, [Idle EXCEPT !.step = "erase", !.doc = d])
  /\ UNCHANGED <<docs, prints, sales, next, nextSale>>

Erase(r) ==
  /\ task[r].step = "erase"
  /\ docs' = [d \in Live \ {task[r].doc} |-> docs[d]]
  /\ Finish(r)
  /\ UNCHANGED <<prints, sales, next, nextSale, crossed, events>>
-----------------------------------------------------------------------------
\* Mutant: a copy of the source's own type is looked for.
HasCopyOfOwnType(d, type) == \E e \in Live : docs[e].source = d /\ docs[e].type = docs[d].type

\* clone_job_as_type gives back a copy there is.
HasCopy(d, type) == \E e \in Live : docs[e].source = d /\ docs[e].type = type

AskClone(r, d, type) ==
  /\ On(r, d)
  /\ ~HasCopy(d, type)
  /\ Begin(r, [Idle EXCEPT !.step = "clone", !.doc = d, !.type = type])
  /\ UNCHANGED <<docs, prints, sales, next, nextSale>>

\* Copy, number and the source's converted_at in one transaction, which fails when the
\* source is gone.
Clone(r) ==
  LET source == task[r].doc
      number == FirstFree(next, Used)
  IN /\ task[r].step = "clone"
     /\ IF source \in Live /\ NewId \in Ids
        THEN /\ docs' = [d \in Live \cup {NewId} |->
                           IF d = NewId
                           THEN [type |-> task[r].type, source |-> source, number |-> number]
                           ELSE docs[d]]
             /\ next' = number + 1
        ELSE UNCHANGED <<docs, next>>
     /\ Finish(r)
     /\ UNCHANGED <<prints, sales, nextSale, crossed, events>>
-----------------------------------------------------------------------------
(* create_sale_from_lines: a sale there is for the key or for the document *)
(* is given back.                                                          *)

\* Mutant: only the key is looked at.
SoldByKey(d, key) == \E s \in sales : s.key = key

Sold(d, key) == \E s \in sales : s.key = key \/ (d # None /\ s.doc = d)

AskSell(r, d, target) ==
  /\ On(r, d)
  /\ ~Sold(d, <<d, target>>)
  /\ Begin(r, [Idle EXCEPT !.step = "sell", !.doc = d, !.key = <<d, target>>])
  /\ UNCHANGED <<docs, prints, sales, next, nextSale>>

\* create_quick_sale is a coroutine that waits for nothing once the form is read: no
\* two are under way.
AskQuickSale(r, form) ==
  /\ Ask(r)
  /\ \A other \in Requests : task[other].key[2] \notin Forms
  /\ ~Sold(None, <<None, form>>)
  /\ Begin(r, [Idle EXCEPT !.step = "sell", !.key = <<None, form>>])
  /\ UNCHANGED <<docs, prints, sales, next, nextSale, crossed>>

\* Mutant: the setting is moved on once more.
SellSkips(r) ==
  LET number == FirstFree(nextSale, UsedBySales)
  IN /\ task[r].step = "sell"
     /\ ~Sold(task[r].doc, task[r].key)
     /\ sales' = sales \cup {[doc |-> task[r].doc, key |-> task[r].key, number |-> number]}
     /\ nextSale' = number + 2
     /\ Finish(r)
     /\ UNCHANGED <<docs, prints, next, crossed, events>>

\* One transaction from the INSERT on, which the unique indexes on the key and on the
\* document refuse a second time.
Sell(r) ==
  LET number == FirstFree(nextSale, UsedBySales)
  IN /\ task[r].step = "sell"
     /\ ~Sold(task[r].doc, task[r].key)
     /\ sales' = sales \cup {[doc |-> task[r].doc, key |-> task[r].key, number |-> number]}
     /\ nextSale' = number + 1
     /\ Finish(r)
     /\ UNCHANGED <<docs, prints, next, crossed, events>>

\* Also when the document is gone: a work order cannot be completed any more.
FailSell(r) ==
  /\ task[r].step = "sell"
  /\ Sold(task[r].doc, task[r].key) \/ task[r].doc \notin Live \cup {None}
  /\ Finish(r)
  /\ UNCHANGED <<docs, prints, sales, next, nextSale, crossed, events>>
-----------------------------------------------------------------------------
\* update_language reads every setting and writes every setting back.
AskLanguage(r) ==
  /\ Ask(r)
  /\ Begin(r, [Idle EXCEPT !.step = "settings", !.number = next, !.sale = nextSale])
  /\ UNCHANGED <<docs, prints, sales, next, nextSale, crossed>>

StoreSettings(r) ==
  /\ task[r].step = "settings"
  /\ next' = task[r].number
  /\ nextSale' = task[r].sale
  /\ Finish(r)
  /\ UNCHANGED <<docs, prints, sales, crossed, events>>

\* The process is killed and started again: what was not committed is lost.
Kill ==
  /\ events < MaxEvents
  /\ events' = events + 1
  /\ \E r \in Requests : task[r] # Idle
  /\ task' = [r \in Requests |-> Idle]
  /\ UNCHANGED <<docs, prints, sales, next, nextSale, crossed>>

Next ==
  \/ \E r \in Requests :
       \/ \E type \in Types : Create(r, type)
       \/ \E d \in Live :
            \/ AskPrint(r, d) \/ AskDelete(r, d)
            \/ \E type \in Types : AskClone(r, d, type)
            \/ \E target \in Targets : AskSell(r, d, target)
       \/ \E form \in Forms : AskQuickSale(r, form)
       \/ AskLanguage(r)
       \/ ReadNumber(r) \/ WriteNumber(r) \/ FailNumber(r)
       \/ ReadSnapshot(r) \/ InsertSnapshot(r)
       \/ Erase(r) \/ Clone(r) \/ Sell(r) \/ FailSell(r) \/ StoreSettings(r)
  \/ Kill

Spec == Init /\ [][Next]_vars
-----------------------------------------------------------------------------
(* README.md:153: every sale has one unique sequential number.  Numbers    *)
(* have no gap and no duplicate, however requests overlap, fail, are sent  *)
(* again or killed, and although a change of language sets the sequence    *)
(* back (allocate_sale_document_number inside the sale's transaction).     *)
SaleNumbersSequential == UsedBySales = 1..Cardinality(sales)

(* docs/Database.md:230: a document is sold once and a form once, also     *)
(* when it is sent again or as a sale and as an invoice at the same time.  *)
SoldOnce ==
  \A s, t \in sales : (s.doc = t.doc /\ s.doc # None) \/ s.key = t.key => s = t

(* README.md:359: a snapshot carries the number its document has, and a    *)
(* document has one snapshot, whatever requests on other documents and     *)
(* kills between the commits of one request do, unless two requests worked *)
(* on the document at once (ensure_receipt_number, ensure_print_snapshot). *)
PrintedNumberStands ==
  \A p \in prints : p.doc \notin crossed =>
    /\ p.doc \in Live
    /\ docs[p.doc].number = p.number
    /\ \A q \in prints : q.doc = p.doc => q = p

(* The source of a copy and the document of a sale exist, also when ids    *)
(* are used again, unless two requests worked on it at once                *)
(* (assert_job_can_be_deleted).                                            *)
HistoryStands ==
  \A d \in Ids \ crossed :
    (\E e \in Live : docs[e].source = d) \/ (\E s \in sales : s.doc = d) => d \in Live

(* A document is converted to one document of a type, unless two requests  *)
(* worked on it at once (clone_job_as_type).                               *)
OneCopy ==
  \A d, e \in Live :
    /\ docs[d].source = docs[e].source /\ docs[d].type = docs[e].type
    /\ docs[d].source \notin crossed \cup {None}
    => d = e
=============================================================================
