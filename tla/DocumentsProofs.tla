-------------------------- MODULE DocumentsProofs --------------------------
(***************************************************************************)
(* What holds of documents, their numbers, prints, copies and sales for    *)
(* any number of overlapping requests, documents and kills.                *)
(***************************************************************************)
EXTENDS Documents, FiniteSetTheorems, TLAPS

-----------------------------------------------------------------------------
(* Free ids and free numbers.                                              *)

LEMMA NewIdIsFree ==
  ASSUME TypeOK
  PROVE  NewId \in Nat \ {0} /\ NewId \notin Live
<1> DEFINE S == {i \in Ids : \E d \in Live : i <= d}
<1>1. IsFiniteSet(S) /\ Cardinality(S) \in Nat
  <2>1. IsFiniteSet(Ids)
    BY DocumentsAssumption, FS_Interval DEF Ids
  <2>2. S \in SUBSET Ids
    OBVIOUS
  <2> QED BY <2>1, <2>2, FS_Subset, FS_CardinalityType
<1>2. NewId = 1 + Cardinality(S)
  BY DEF NewId
<1>3. ASSUME NewId \in Live PROVE FALSE
  <2>1. NewId \in Ids
    BY <1>3 DEF TypeOK, Live
  <2>2. 1..NewId \in SUBSET S
    BY <1>3, <2>1, DocumentsAssumption DEF Ids
  <2>3. Cardinality(1..NewId) = NewId
    BY <2>1, FS_Interval DEF Ids
  <2>4. Cardinality(1..NewId) <= Cardinality(S)
    BY <1>1, <2>2, FS_Subset
  <2> QED BY <1>1, <1>2, <2>3, <2>4
<1> QED BY <1>1, <1>2, <1>3

LEMMA FirstFreeTyped ==
  ASSUME NEW from \in Nat, NEW used, IsFiniteSet(used)
  PROVE  FirstFree(from, used) \in Nat /\ from <= FirstFree(from, used)
<1> DEFINE S == {n \in used : n >= from /\ \A m \in from..n : m \in used}
<1>1. S \in SUBSET used
  OBVIOUS
<1>2. Cardinality(S) \in Nat
  BY <1>1, FS_Subset, FS_CardinalityType
<1> QED BY <1>2 DEF FirstFree

\* Where 1..k are used and the search begins among them, it ends at k + 1.
LEMMA FirstFreeFollows ==
  ASSUME NEW k \in Nat, NEW from \in 1..(k + 1)
  PROVE  FirstFree(from, 1..k) = k + 1
<1>1. {n \in 1..k : n >= from /\ \A m \in from..n : m \in 1..k} = from..k
  OBVIOUS
<1>2. Cardinality(from..k) = IF from > k THEN 0 ELSE k - from + 1
  BY FS_Interval
<1>3. FirstFree(from, 1..k) = from + Cardinality(from..k)
  BY <1>1 DEF FirstFree
<1> QED BY <1>2, <1>3

LEMMA UsedFinite ==
  ASSUME TypeOK
  PROVE  IsFiniteSet(Used)
<1> DEFINE f == [d \in Live |-> docs[d].number]
<1>1. IsFiniteSet(Live)
  <2>1. IsFiniteSet(Ids)
    BY DocumentsAssumption, FS_Interval DEF Ids
  <2>2. Live \in SUBSET Ids
    BY DEF TypeOK, Live
  <2> QED BY <2>1, <2>2, FS_Subset
<1>2. f \in Surjection(Live, Used)
  BY DEF Surjection, Used
<1> QED BY <1>1, <1>2, FS_Surjection
-----------------------------------------------------------------------------
(* Types, and the numbers of sales.                                        *)

\* What a request knows when it comes to a step.
Prepared(r) ==
  /\ task[r].step \in {"number", "write", "snapshot", "insert"} => task[r].doc \in Ids
  /\ task[r].step \in {"write", "snapshot", "insert", "settings"} => task[r].number \in Numbers
  /\ task[r].step = "clone" => task[r].type \in Types
  /\ task[r].step = "sell" => task[r].key \in Keys
  /\ task[r].step = "settings" => task[r].sale \in 1..(Cardinality(sales) + 1)

Typed ==
  /\ TypeOK
  /\ IsFiniteSet(sales)
  /\ SaleNumbersSequential
  /\ \A r \in Requests : Prepared(r)

\* A step that leaves documents, prints and sales alone.
LEMMA TypedFrame ==
  ASSUME Typed, UNCHANGED <<docs, prints, sales>>,
         next' \in Numbers, nextSale' \in 1..(Cardinality(sales) + 1),
         crossed' \subseteq Ids, events' \in 0..MaxEvents,
         task' \in [Requests -> Task],
         \A r \in Requests : task'[r] = task[r] \/ Prepared(r)'
  PROVE  Typed'
  BY DEF Typed, TypeOK, SaleNumbersSequential, UsedBySales, Prepared

\* A request begins.
LEMMA AskTyped ==
  ASSUME Typed, NEW r \in Requests, NEW work \in Task, Ask(r), Begin(r, work),
         UNCHANGED <<docs, prints, sales, next, nextSale>>,
         crossed' \subseteq Ids, Prepared(r)'
  PROVE  Typed'
<1>1. events' \in 0..MaxEvents
  BY DocumentsAssumption DEF Ask, Typed, TypeOK
<1>2. /\ task' \in [Requests -> Task]
      /\ \A q \in Requests : task'[q] = task[q] \/ Prepared(q)'
  BY DEF Begin, Typed, TypeOK
<1>3. next' \in Numbers /\ nextSale' \in 1..(Cardinality(sales) + 1)
  BY DEF Typed, TypeOK
<1> QED BY <1>1, <1>2, <1>3, TypedFrame

\* A request ends.
LEMMA FinishTyped ==
  ASSUME Typed, NEW r \in Requests, Finish(r)
  PROVE  /\ task' \in [Requests -> Task]
         /\ \A q \in Requests : task'[q] = task[q] \/ Prepared(q)'
<1>1. Idle \in Task
  BY DEF Idle, Task, Steps, None
<1> QED BY <1>1 DEF Finish, Typed, TypeOK, Prepared, Idle

LEMMA OnTyped ==
  ASSUME Typed, NEW r, NEW d, On(r, d)
  PROVE  d \in Ids /\ crossed' \subseteq Ids /\ Ask(r)
  BY DEF On, Typed, TypeOK, Live

LEMMA TypedCreate ==
  ASSUME Typed, NEW r \in Requests, NEW type \in Types, Create(r, type)
  PROVE  Typed'
<1> DEFINE work == [Idle EXCEPT !.step = "number", !.doc = NewId]
<1>1. NewId \in Ids
  BY DEF Create
<1>2. work \in Task /\ task' = [task EXCEPT ![r] = work]
  BY <1>1 DEF Create, Begin, Idle, Task, Steps, None
<1>3. task' \in [Requests -> Task] /\ \A q \in Requests : Prepared(q)'
  BY <1>1, <1>2 DEF Create, Typed, TypeOK, Prepared, Idle
<1>4. \A d \in DOMAIN docs' : d \in Ids /\ docs'[d] \in Document
  BY <1>1 DEF Create, Typed, TypeOK, Live, Document
<1>5. events' \in 0..MaxEvents
  BY DocumentsAssumption DEF Create, Ask, Typed, TypeOK
<1> QED BY <1>3, <1>4, <1>5 DEF Create, Typed, TypeOK, SaleNumbersSequential, UsedBySales

LEMMA TypedAsk ==
  ASSUME Typed, NEW r \in Requests,
         \/ \E d \in Live :
              \/ AskPrint(r, d) \/ AskDelete(r, d)
              \/ \E type \in Types : AskClone(r, d, type)
              \/ \E target \in Targets : AskSell(r, d, target)
         \/ \E form \in Forms : AskQuickSale(r, form)
         \/ AskLanguage(r)
  PROVE  Typed'
<1> USE DEF Idle, Task, Steps, None
<1>1. ASSUME NEW d \in Live, AskPrint(r, d) PROVE Typed'
  <2> DEFINE work == [Idle EXCEPT !.doc = d, !.print = TRUE, !.number = docs[d].number,
                           !.step = IF docs[d].number = None THEN "number" ELSE "snapshot"]
  <2>1. d \in Ids /\ crossed' \subseteq Ids /\ Ask(r)
    BY <1>1, OnTyped DEF AskPrint
  <2>2. docs[d].number \in Nat /\ (docs[d].number # None => docs[d].number \in Numbers)
    BY DEF Typed, TypeOK, Live, Document, Numbers
  <2>3. work \in Task
    BY <2>1, <2>2
  <2>4. Begin(r, work) /\ UNCHANGED <<docs, prints, sales, next, nextSale>>
    BY <1>1 DEF AskPrint
  <2>5. task'[r] = work
    BY <2>4 DEF Begin, Typed, TypeOK
  <2>6. Prepared(r)'
    BY <2>1, <2>2, <2>5 DEF Prepared
  <2> QED BY <2>1, <2>3, <2>4, <2>6, AskTyped
<1>2. ASSUME NEW d \in Live, AskDelete(r, d) PROVE Typed'
  <2> DEFINE work == [Idle EXCEPT !.step = "erase", !.doc = d]
  <2>1. d \in Ids /\ crossed' \subseteq Ids /\ Ask(r)
    BY <1>2, OnTyped DEF AskDelete
  <2>2. work \in Task
    BY <2>1
  <2>3. Begin(r, work) /\ UNCHANGED <<docs, prints, sales, next, nextSale>>
    BY <1>2 DEF AskDelete
  <2>4. task'[r] = work
    BY <2>3 DEF Begin, Typed, TypeOK
  <2>5. Prepared(r)'
    BY <2>4 DEF Prepared
  <2> QED BY <2>1, <2>2, <2>3, <2>5, AskTyped
<1>3. ASSUME NEW d \in Live, NEW type \in Types, AskClone(r, d, type) PROVE Typed'
  <2> DEFINE work == [Idle EXCEPT !.step = "clone", !.doc = d, !.type = type]
  <2>1. d \in Ids /\ crossed' \subseteq Ids /\ Ask(r)
    BY <1>3, OnTyped DEF AskClone
  <2>2. work \in Task
    BY <2>1
  <2>3. Begin(r, work) /\ UNCHANGED <<docs, prints, sales, next, nextSale>>
    BY <1>3 DEF AskClone
  <2>4. task'[r] = work
    BY <2>3 DEF Begin, Typed, TypeOK
  <2>5. Prepared(r)'
    BY <2>4 DEF Prepared
  <2> QED BY <2>1, <2>2, <2>3, <2>5, AskTyped
<1>4. ASSUME NEW d \in Live, NEW target \in Targets, AskSell(r, d, target) PROVE Typed'
  <2> DEFINE work == [Idle EXCEPT !.step = "sell", !.doc = d, !.key = <<d, target>>]
  <2>1. d \in Ids /\ crossed' \subseteq Ids /\ Ask(r)
    BY <1>4, OnTyped DEF AskSell
  <2>2. <<d, target>> \in Keys
    BY <2>1 DEF Keys
  <2>3. work \in Task
    BY <2>1, <2>2
  <2>4. Begin(r, work) /\ UNCHANGED <<docs, prints, sales, next, nextSale>>
    BY <1>4 DEF AskSell
  <2>5. task'[r] = work
    BY <2>4 DEF Begin, Typed, TypeOK
  <2>6. Prepared(r)'
    BY <2>2, <2>5 DEF Prepared
  <2> QED BY <2>1, <2>3, <2>4, <2>6, AskTyped
<1>5. ASSUME NEW form \in Forms, AskQuickSale(r, form) PROVE Typed'
  <2> DEFINE work == [Idle EXCEPT !.step = "sell", !.key = <<None, form>>]
  <2>1. <<None, form>> \in Keys
    BY DEF Keys
  <2>2. work \in Task
    BY <2>1
  <2>3. /\ Ask(r) /\ Begin(r, work) /\ UNCHANGED <<docs, prints, sales, next, nextSale>>
        /\ crossed' \subseteq Ids
    BY <1>5 DEF AskQuickSale, Typed, TypeOK
  <2>4. task'[r] = work
    BY <2>3 DEF Begin, Typed, TypeOK
  <2>5. Prepared(r)'
    BY <2>1, <2>4 DEF Prepared
  <2> QED BY <2>2, <2>3, <2>5, AskTyped
<1>6. ASSUME AskLanguage(r) PROVE Typed'
  <2> DEFINE work == [Idle EXCEPT !.step = "settings", !.number = next, !.sale = nextSale]
  <2>1. next \in Numbers /\ nextSale \in 1..(Cardinality(sales) + 1) /\ Cardinality(sales) \in Nat
    BY FS_CardinalityType DEF Typed, TypeOK
  <2>2. next \in Nat /\ nextSale \in Nat
    BY <2>1 DEF Numbers
  <2>3. work \in Task
    BY <2>2
  <2>4. /\ Ask(r) /\ Begin(r, work) /\ UNCHANGED <<docs, prints, sales, next, nextSale>>
        /\ crossed' \subseteq Ids
    BY <1>6 DEF AskLanguage, Typed, TypeOK
  <2>5. task'[r] = work
    BY <2>4 DEF Begin, Typed, TypeOK
  <2>6. Prepared(r)'
    BY <2>1, <2>4, <2>5 DEF Prepared
  <2> QED BY <2>3, <2>4, <2>6, AskTyped
<1> QED BY <1>1, <1>2, <1>3, <1>4, <1>5, <1>6

\* The steps inside a request, and its end.
LEMMA TypedWork ==
  ASSUME Typed, NEW r \in Requests,
         \/ ReadNumber(r) \/ WriteNumber(r) \/ FailNumber(r)
         \/ ReadSnapshot(r) \/ InsertSnapshot(r)
         \/ FailSell(r) \/ StoreSettings(r)
  PROVE  Typed'
<1> DEFINE keep == /\ next \in Numbers /\ nextSale \in 1..(Cardinality(sales) + 1)
                   /\ crossed \subseteq Ids /\ events \in 0..MaxEvents
<1>0. keep /\ task[r] \in Task /\ task \in [Requests -> Task]
  BY DEF Typed, TypeOK
<1>1. ASSUME ReadNumber(r) PROVE Typed'
  <2> DEFINE number == FirstFree(next, Used)
             work == [task[r] EXCEPT !.step = "write", !.number = number]
  <2>1. number \in Numbers
    BY <1>0, UsedFinite, FirstFreeTyped DEF Typed, Numbers
  <2> HIDE DEF number
  <2>2. work \in Task
    BY <1>0, <2>1 DEF Task, Steps, Numbers
  <2>3. task' = [task EXCEPT ![r] = work]
    BY <1>1 DEF ReadNumber, Begin, number
  <2>4. task' \in [Requests -> Task] /\ task'[r] = work
    BY <1>0, <2>2, <2>3
  <2>5. task[r].step = "number" /\ task[r].doc \in Ids
    BY <1>1 DEF ReadNumber, Typed, Prepared
  <2>6. work.step = "write" /\ work.number = number /\ work.doc = task[r].doc
    BY <1>0 DEF Task
  <2>7. Prepared(r)'
    BY <2>1, <2>4, <2>5, <2>6 DEF Prepared
  <2>8. \A q \in Requests : task'[q] = task[q] \/ Prepared(q)'
    BY <1>0, <2>3, <2>7
  <2> QED BY <1>0, <1>1, <2>4, <2>8, TypedFrame DEF ReadNumber
<1>2. ASSUME WriteNumber(r) PROVE Typed'
  <2>1. task[r].doc \in Live /\ task[r].number \in Numbers
    BY <1>2 DEF WriteNumber, Writable, Typed, Prepared
  <2>2. DOMAIN docs' = Live /\ \A d \in Live : docs'[d] \in Document
    BY <1>2, <2>1 DEF WriteNumber, Typed, TypeOK, Live, Document
  <2>3. next' \in Numbers
    BY <1>2, <2>1 DEF WriteNumber, Numbers
  <2>4. task' \in [Requests -> Task] /\ \A q \in Requests : Prepared(q)'
    <3>1. CASE task[r].print
      <4> DEFINE work == [task[r] EXCEPT !.step = "snapshot"]
      <4>1. work \in Task /\ work.step = "snapshot" /\ work.number = task[r].number
            /\ work.doc = task[r].doc
        BY <1>0 DEF Task, Steps
      <4>2. task' = [task EXCEPT ![r] = work]
        BY <1>2, <3>1 DEF WriteNumber, Begin
      <4>3. task[r].doc \in Ids
        BY <1>2 DEF WriteNumber, Typed, Prepared
      <4> HIDE DEF work
      <4> QED BY <1>0, <1>2, <2>1, <4>1, <4>2, <4>3 DEF WriteNumber, Typed, Prepared
    <3>2. CASE ~task[r].print
      BY <1>2, <3>2, FinishTyped DEF WriteNumber, Typed, Prepared
    <3> QED BY <3>1, <3>2
  <2> QED BY <1>0, <1>2, <2>2, <2>3, <2>4
          DEF WriteNumber, Typed, TypeOK, Live, SaleNumbersSequential, UsedBySales
<1>3. ASSUME FailNumber(r) \/ FailSell(r) PROVE Typed'
  BY <1>0, <1>3, FinishTyped, TypedFrame DEF FailNumber, FailSell
<1>4. ASSUME ReadSnapshot(r) PROVE Typed'
  <2>1. CASE Finish(r)
    BY <1>0, <1>4, <2>1, FinishTyped, TypedFrame DEF ReadSnapshot
  <2>2. CASE Begin(r, [task[r] EXCEPT !.step = "insert"])
    <3> DEFINE work == [task[r] EXCEPT !.step = "insert"]
    <3>1. work \in Task /\ work.step = "insert" /\ work.number = task[r].number
          /\ work.doc = task[r].doc
      BY <1>0 DEF Task, Steps
    <3>2. task' = [task EXCEPT ![r] = work]
      BY <2>2 DEF Begin
    <3>3. task[r].doc \in Ids /\ task[r].number \in Numbers
      BY <1>4 DEF ReadSnapshot, Typed, Prepared
    <3> HIDE DEF work
    <3>4. task' \in [Requests -> Task] /\ task'[r] = work
      BY <1>0, <3>1, <3>2
    <3>5. Prepared(r)'
      BY <3>1, <3>3, <3>4 DEF Prepared
    <3>6. \A q \in Requests : task'[q] = task[q] \/ Prepared(q)'
      BY <1>0, <3>2, <3>5
    <3> QED BY <1>0, <1>4, <3>4, <3>6, TypedFrame DEF ReadSnapshot
  <2> QED BY <1>4, <2>1, <2>2 DEF ReadSnapshot
<1>5. ASSUME InsertSnapshot(r) PROVE Typed'
  <2>1. task[r].doc \in Ids /\ task[r].number \in Numbers
    BY <1>5 DEF InsertSnapshot, Typed, Prepared
  <2>2. prints' \subseteq [doc : Ids, number : Numbers]
    BY <1>5, <2>1 DEF InsertSnapshot, Typed, TypeOK
  <2>3. task' \in [Requests -> Task] /\ \A q \in Requests : Prepared(q)'
    BY <1>5, FinishTyped DEF InsertSnapshot, Typed, Prepared
  <2> QED BY <1>5, <2>2, <2>3
          DEF InsertSnapshot, Typed, TypeOK, SaleNumbersSequential, UsedBySales
<1>6. ASSUME StoreSettings(r) PROVE Typed'
  <2>1. task[r].number \in Numbers /\ task[r].sale \in 1..(Cardinality(sales) + 1)
    BY <1>6 DEF StoreSettings, Typed, Prepared
  <2> QED BY <1>0, <1>6, <2>1, FinishTyped, TypedFrame DEF StoreSettings
<1> QED BY <1>1, <1>2, <1>3, <1>4, <1>5, <1>6

LEMMA TypedErase ==
  ASSUME Typed, NEW r \in Requests, Erase(r)
  PROVE  Typed'
<1>1. task' \in [Requests -> Task] /\ \A q \in Requests : Prepared(q)'
  BY FinishTyped DEF Erase, Typed, Prepared
<1> QED BY <1>1 DEF Erase, Typed, TypeOK, Live, SaleNumbersSequential, UsedBySales

LEMMA TypedClone ==
  ASSUME Typed, NEW r \in Requests, Clone(r)
  PROVE  Typed'
<1> DEFINE source == task[r].doc
           number == FirstFree(next, Used)
<1>1. task' \in [Requests -> Task] /\ \A q \in Requests : Prepared(q)'
  BY FinishTyped DEF Clone, Typed, Prepared
<1>2. number \in Numbers /\ number + 1 \in Numbers
  BY UsedFinite, FirstFreeTyped DEF Typed, TypeOK, Numbers
<1> HIDE DEF number
<1>3. task[r].type \in Types
  BY DEF Clone, Typed, Prepared
<1>4. next' \in Numbers /\ \A d \in DOMAIN docs' : d \in Ids /\ docs'[d] \in Document
  <2>1. CASE source \in Live /\ NewId \in Ids
    <3>1. /\ docs' = [d \in Live \cup {NewId} |->
                        IF d = NewId
                        THEN [type |-> task[r].type, source |-> source, number |-> number]
                        ELSE docs[d]]
          /\ next' = number + 1
      BY <2>1 DEF Clone, number
    <3>2. [type |-> task[r].type, source |-> source, number |-> number] \in Document
      BY <1>2, <1>3, <2>1 DEF Document, Typed, TypeOK, Live
    <3> QED BY <1>2, <2>1, <3>1, <3>2 DEF Typed, TypeOK, Live
  <2>2. CASE ~(source \in Live /\ NewId \in Ids)
    BY <2>2 DEF Clone, Typed, TypeOK
  <2> QED BY <2>1, <2>2
<1> QED BY <1>1, <1>4 DEF Clone, Typed, TypeOK, SaleNumbersSequential, UsedBySales

LEMMA TypedSell ==
  ASSUME Typed, NEW r \in Requests, Sell(r)
  PROVE  Typed'
<1> DEFINE k == Cardinality(sales)
           sale == [doc |-> task[r].doc, key |-> task[r].key, number |-> k + 1]
<1>1. k \in Nat /\ IsFiniteSet(sales)
  BY FS_CardinalityType DEF Typed
<1>2. UsedBySales = 1..k /\ nextSale \in 1..(k + 1)
  BY DEF Typed, TypeOK, SaleNumbersSequential
<1>3. FirstFree(nextSale, UsedBySales) = k + 1
  <2> HIDE DEF k
  <2> QED BY <1>1, <1>2, FirstFreeFollows
<1>4. sales' = sales \cup {sale} /\ nextSale' = k + 2
  BY <1>1, <1>3 DEF Sell
<1>5. sale \notin sales
  BY <1>1, <1>2 DEF UsedBySales
<1>6. IsFiniteSet(sales') /\ Cardinality(sales') = k + 1
  BY <1>1, <1>4, <1>5, FS_AddElement
<1>7. UsedBySales' = 1..(k + 1)
  <2>1. UsedBySales' = UsedBySales \cup {k + 1}
    <3>1. sale.number = k + 1
      OBVIOUS
    <3> HIDE DEF k, sale
    <3> QED BY <1>4, <3>1 DEF UsedBySales
  <2> QED BY <1>1, <1>2, <2>1
<1>8. sale \in [doc : Ids \cup {None}, key : Keys, number : Numbers]
  <2>1. task[r].key \in Keys /\ task[r].doc \in Ids \cup {None}
    BY DEF Sell, Typed, Prepared, TypeOK, Task
  <2> QED BY <1>1, <2>1 DEF Numbers
<1>9. task' \in [Requests -> Task] /\ \A q \in Requests : Prepared(q)'
  <2>1. \A q \in Requests : task[q].step = "settings" => task[q].sale \in 1..(Cardinality(sales') + 1)
    BY <1>1, <1>6 DEF Typed, Prepared
  <2>2. \A q \in Requests : task'[q] = task[q] \/ Prepared(q)'
    BY FinishTyped DEF Sell
  <2> QED BY <2>1, <2>2, FinishTyped DEF Sell, Typed, Prepared
<1> HIDE DEF k, sale
<1> QED BY <1>1, <1>4, <1>6, <1>7, <1>8, <1>9 DEF Sell, Typed, TypeOK, SaleNumbersSequential

LEMMA TypedStep ==
  ASSUME Typed, Next
  PROVE  Typed'
<1>1. ASSUME Kill PROVE Typed'
  <2>1. Idle \in Task
    BY DEF Idle, Task, Steps, None
  <2>2. task' \in [Requests -> Task] /\ \A q \in Requests : Prepared(q)'
    BY <1>1, <2>1 DEF Kill, Prepared, Idle
  <2>3. events' \in 0..MaxEvents
    BY <1>1, DocumentsAssumption DEF Kill, Typed, TypeOK
  <2> QED BY <1>1, <2>2, <2>3, TypedFrame DEF Kill, Typed, TypeOK
<1> QED BY <1>1, TypedCreate, TypedAsk, TypedWork, TypedErase, TypedClone, TypedSell DEF Next

\* The numbers of sales and the types stand and fall together.
LEMMA AlwaysTyped == Spec => []Typed
<1>1. Init => Typed
  <2> SUFFICES ASSUME Init PROVE Typed
    OBVIOUS
  <2>1. Cardinality({}) = 0 /\ IsFiniteSet({})
    BY FS_EmptySet
  <2>2. Idle \in Task
    BY DEF Idle, Task, Steps, None
  <2>3. UsedBySales = {}
    BY DEF Init, UsedBySales
  <2> QED BY <2>1, <2>2, <2>3, DocumentsAssumption
          DEF Init, Typed, TypeOK, SaleNumbersSequential, Prepared, Idle, Numbers
<1>2. Typed /\ [Next]_vars => Typed'
  <2> SUFFICES ASSUME Typed, [Next]_vars PROVE Typed'
    OBVIOUS
  <2>1. CASE UNCHANGED vars
    BY <2>1 DEF vars, Typed, TypeOK, SaleNumbersSequential, UsedBySales, Prepared
  <2> QED BY <2>1, TypedStep
<1> QED BY <1>1, <1>2, PTL DEF Spec

\* Documents, prints, sales and what requests know of them are of the stated types.
THEOREM TypeCorrect == Spec => []TypeOK
BY AlwaysTyped, PTL DEF Typed

\* The numbers of the sales are 1, 2, 3, ... without a gap or a duplicate, for any
\* number of overlapping sales, language changes, retries and kills (README.md:153).
THEOREM SalesNumberedInSequence == Spec => []SaleNumbersSequential
BY AlwaysTyped, PTL DEF Typed
-----------------------------------------------------------------------------
(* Sales.                                                                  *)

LEMMA OnlySellSells ==
  ASSUME Next
  PROVE  UNCHANGED sales \/ \E r \in Requests : Sell(r)
  BY DEF Next, Create, AskPrint, AskDelete, AskClone, AskSell, AskQuickSale, AskLanguage,
         ReadNumber, WriteNumber, FailNumber, ReadSnapshot, InsertSnapshot, Erase, Clone,
         FailSell, StoreSettings, Kill

\* A document is sold once, and a form once, for any number of requests at once
\* (docs/Database.md:230).
THEOREM SoldOnlyOnce == Spec => []SoldOnce
<1>1. Init => SoldOnce
  BY DEF Init, SoldOnce
<1>2. SoldOnce /\ [Next]_vars => SoldOnce'
  <2> SUFFICES ASSUME SoldOnce, [Next]_vars PROVE SoldOnce'
    OBVIOUS
  <2>1. CASE UNCHANGED sales
    BY <2>1 DEF SoldOnce
  <2>2. ASSUME NEW r \in Requests, Sell(r) PROVE SoldOnce'
    <3>1. PICK n : sales' = sales \cup {[doc |-> task[r].doc, key |-> task[r].key, number |-> n]}
      BY <2>2 DEF Sell
    <3>2. \A s \in sales : /\ s.key # task[r].key
                           /\ s.doc = task[r].doc => task[r].doc = None
      BY <2>2 DEF Sell, Sold
    <3> QED BY <3>1, <3>2 DEF SoldOnce
  <2> QED BY <2>1, <2>2, OnlySellSells DEF vars
<1> QED BY <1>1, <1>2, PTL DEF Spec
-----------------------------------------------------------------------------
(* Copies, prints and deletions.                                           *)

\* The request has its document to itself.
Unshared(r) == task[r].doc \notin crossed \cup {None}

\* What such a request can still rely on when it writes.
Grounded(r) ==
  Unshared(r) =>
    LET d == task[r].doc
    IN /\ d \in Live
       /\ \A other \in Requests \ {r} : task[other].doc # d
       /\ task[r].step \in {"number", "write", "insert"} => \A p \in prints : p.doc # d
       /\ task[r].step \in {"snapshot", "insert"} => docs[d].number = task[r].number
       /\ task[r].step = "erase" => CanBeDeleted(d)
       /\ task[r].step = "clone" => ~HasCopy(d, task[r].type)

Standing ==
  /\ HistoryStands /\ OneCopy /\ PrintedNumberStands
  /\ \A r \in Requests : Grounded(r)

\* A step that neither changes a document nor adds a print, sale or copy of it.
Untouched(d) ==
  /\ d \in Live' /\ docs'[d] = docs[d]
  /\ \A p \in prints' : p.doc = d => p \in prints
  /\ \A s \in sales' : s.doc = d => s \in sales
  /\ \A e \in Live' : docs'[e].source = d =>
       e \in Live /\ docs[e].source = d /\ docs'[e].type = docs[e].type

LEMMA GroundedKept ==
  ASSUME NEW q \in Requests, Grounded(q), task'[q] = task[q], crossed \subseteq crossed',
         Unshared(q) => Untouched(task[q].doc),
         Unshared(q)' => \A other \in Requests \ {q} : task'[other].doc # task[q].doc
  PROVE  Grounded(q)'
<1> SUFFICES ASSUME Unshared(q)' PROVE Grounded(q)'
  BY DEF Grounded
<1> DEFINE d == task[q].doc
<1>1. Unshared(q)
  BY DEF Unshared
<1>2. Untouched(d) /\ d \in Live
  BY <1>1 DEF Grounded
<1>3. task[q].step = "erase" => CanBeDeleted(d)'
  <2>1. CanBeDeleted(d) => CanBeDeleted(d)'
    BY <1>2 DEF Untouched, CanBeDeleted
  <2> QED BY <1>1, <2>1 DEF Grounded
<1>4. task[q].step = "clone" => ~HasCopy(d, task[q].type)'
  <2>1. HasCopy(d, task[q].type)' => HasCopy(d, task[q].type)
    BY <1>2 DEF Untouched, HasCopy
  <2> QED BY <1>1, <2>1 DEF Grounded
<1>5. d' = d /\ task'[q].step = task[q].step /\ task'[q].type = task[q].type
      /\ task'[q].number = task[q].number
  OBVIOUS
<1>6. task[q].step \in {"number", "write", "insert"} => \A p \in prints' : p.doc # d
  BY <1>1, <1>2 DEF Grounded, Untouched
<1>7. task[q].step \in {"snapshot", "insert"} => docs'[d].number = task[q].number
  BY <1>1, <1>2 DEF Grounded, Untouched
<1> QED BY <1>2, <1>3, <1>4, <1>5, <1>6, <1>7 DEF Grounded, Untouched

\* Where documents, prints and sales stay, so does what is said of them.
LEMMA DataKept ==
  ASSUME Standing, UNCHANGED <<docs, prints, sales>>, crossed \subseteq crossed'
  PROVE  /\ HistoryStands' /\ OneCopy' /\ PrintedNumberStands'
         /\ \A d \in Live : Untouched(d)
  BY DEF Standing, HistoryStands, OneCopy, PrintedNumberStands, Live, Untouched

\* A request goes on, or ends, without touching the documents of others.
LEMMA OthersGoOn ==
  ASSUME Standing, NEW r \in Requests, task'[r].doc \in {task[r].doc, None},
         \A q \in Requests \ {r} : task'[q] = task[q],
         crossed' = crossed,
         \A d \in Live \ {task[r].doc} : Untouched(d)
  PROVE  \A q \in Requests \ {r} : Grounded(q)'
<1> SUFFICES ASSUME NEW q \in Requests \ {r} PROVE Grounded(q)'
  OBVIOUS
<1>1. Grounded(q) /\ task'[q] = task[q] /\ task'[r].doc \in {task[r].doc, None}
  BY DEF Standing
<1>2. ASSUME Unshared(q) PROVE Untouched(task[q].doc)
  BY <1>1, <1>2 DEF Grounded
<1>3. ASSUME Unshared(q)', NEW other \in Requests \ {q} PROVE task'[other].doc # task[q].doc
  <2>1. Unshared(q) /\ task[q].doc # None
    BY <1>1, <1>3 DEF Unshared
  <2>2. task[other].doc # task[q].doc
    BY <1>1, <2>1 DEF Grounded
  <2>3. CASE other = r
    BY <1>1, <2>1, <2>2, <2>3
  <2>4. CASE other # r
    BY <2>2, <2>4
  <2> QED BY <2>3, <2>4
<1> QED BY <1>1, <1>2, <1>3, GroundedKept

\* A request that begins to work on a document leaves the others what they had.
LEMMA OthersAfterAsk ==
  ASSUME Standing, NEW r \in Requests, NEW d \in Live, NEW work, work.doc = d,
         task \in [Requests -> Task], On(r, d), Begin(r, work),
         UNCHANGED <<docs, prints, sales>>
  PROVE  /\ HistoryStands' /\ OneCopy' /\ PrintedNumberStands'
         /\ crossed \subseteq crossed'
         /\ \A q \in Requests \ {r} : Grounded(q)'
         /\ task'[r] = work
         /\ d \notin crossed' => \A other \in Requests \ {r} : task'[other].doc # d
<1>1. crossed \subseteq crossed' /\ (d \notin crossed' => \A q \in Requests : task[q].doc # d)
  BY DEF On
<1>2. task'[r] = work /\ \A q \in Requests \ {r} : task'[q] = task[q]
  BY DEF Begin
<1>3. ASSUME NEW q \in Requests \ {r} PROVE Grounded(q)'
  <2>1. Grounded(q)
    BY DEF Standing
  <2>2. ASSUME Unshared(q) PROVE Untouched(task[q].doc)
    BY <1>1, <2>1, <2>2, DataKept DEF Grounded
  <2>3. ASSUME Unshared(q)', NEW other \in Requests \ {q} PROVE task'[other].doc # task[q].doc
    <3>1. Unshared(q) /\ task[q].doc \notin crossed'
      BY <1>1, <1>2, <2>3 DEF Unshared
    <3>2. task[other].doc # task[q].doc
      BY <2>1, <3>1 DEF Grounded
    <3>3. task[q].doc # d
      BY <1>1, <3>1
    <3> QED BY <1>2, <3>2, <3>3
  <2> QED BY <1>1, <1>2, <2>1, <2>2, <2>3, GroundedKept
<1> QED BY <1>1, <1>2, <1>3, DataKept

LEMMA StandingAsk ==
  ASSUME Typed, Standing, NEW r \in Requests, NEW d \in Live,
         \/ AskPrint(r, d) \/ AskDelete(r, d)
         \/ \E type \in Types : AskClone(r, d, type)
         \/ \E target \in Targets : AskSell(r, d, target)
  PROVE  Standing'
<1> USE DEF Idle
<1>0. /\ task \in [Requests -> Task] /\ d # None
      /\ \A p \in prints : p.number # None
  BY DEF Typed, TypeOK, Live, Ids, None, Numbers
<1>1. ASSUME AskPrint(r, d) PROVE Standing'
  <2> DEFINE work == [Idle EXCEPT !.doc = d, !.print = TRUE, !.number = docs[d].number,
                           !.step = IF docs[d].number = None THEN "number" ELSE "snapshot"]
  <2>1. /\ work.doc = d /\ work.number = docs[d].number
        /\ work.step = IF docs[d].number = None THEN "number" ELSE "snapshot"
    OBVIOUS
  <2>2. On(r, d) /\ Begin(r, work) /\ UNCHANGED <<docs, prints, sales>>
    BY <1>1 DEF AskPrint
  <2> HIDE DEF work
  <2>3. /\ HistoryStands' /\ OneCopy' /\ PrintedNumberStands' /\ crossed \subseteq crossed'
        /\ \A q \in Requests \ {r} : Grounded(q)'
        /\ task'[r] = work
        /\ d \notin crossed' => \A other \in Requests \ {r} : task'[other].doc # d
    BY <1>0, <2>1, <2>2, OthersAfterAsk
  <2>4. ASSUME d \notin crossed', docs[d].number = None PROVE \A p \in prints : p.doc # d
    BY <1>0, <2>3, <2>4 DEF Standing, PrintedNumberStands
  <2>5. Grounded(r)'
    BY <2>1, <2>2, <2>3, <2>4 DEF Grounded, Unshared, Live
  <2> QED BY <2>3, <2>5 DEF Standing
<1>2. ASSUME AskDelete(r, d) PROVE Standing'
  <2> DEFINE work == [Idle EXCEPT !.step = "erase", !.doc = d]
  <2>1. work.doc = d /\ work.step = "erase"
    OBVIOUS
  <2>2. On(r, d) /\ Begin(r, work) /\ UNCHANGED <<docs, prints, sales>> /\ CanBeDeleted(d)
    BY <1>2 DEF AskDelete
  <2> HIDE DEF work
  <2>3. /\ HistoryStands' /\ OneCopy' /\ PrintedNumberStands' /\ crossed \subseteq crossed'
        /\ \A q \in Requests \ {r} : Grounded(q)'
        /\ task'[r] = work
        /\ d \notin crossed' => \A other \in Requests \ {r} : task'[other].doc # d
    BY <1>0, <2>1, <2>2, OthersAfterAsk
  <2>4. Grounded(r)'
    BY <2>1, <2>2, <2>3 DEF Grounded, Unshared, Live, CanBeDeleted
  <2> QED BY <2>3, <2>4 DEF Standing
<1>3. ASSUME NEW type \in Types, AskClone(r, d, type) PROVE Standing'
  <2> DEFINE work == [Idle EXCEPT !.step = "clone", !.doc = d, !.type = type]
  <2>1. work.doc = d /\ work.step = "clone" /\ work.type = type
    OBVIOUS
  <2>2. On(r, d) /\ Begin(r, work) /\ UNCHANGED <<docs, prints, sales>> /\ ~HasCopy(d, type)
    BY <1>3 DEF AskClone
  <2> HIDE DEF work
  <2>3. /\ HistoryStands' /\ OneCopy' /\ PrintedNumberStands' /\ crossed \subseteq crossed'
        /\ \A q \in Requests \ {r} : Grounded(q)'
        /\ task'[r] = work
        /\ d \notin crossed' => \A other \in Requests \ {r} : task'[other].doc # d
    BY <1>0, <2>1, <2>2, OthersAfterAsk
  <2>4. Grounded(r)'
    BY <2>1, <2>2, <2>3 DEF Grounded, Unshared, Live, HasCopy
  <2> QED BY <2>3, <2>4 DEF Standing
<1>4. ASSUME NEW target \in Targets, AskSell(r, d, target) PROVE Standing'
  <2> DEFINE work == [Idle EXCEPT !.step = "sell", !.doc = d, !.key = <<d, target>>]
  <2>1. work.doc = d /\ work.step = "sell"
    OBVIOUS
  <2>2. On(r, d) /\ Begin(r, work) /\ UNCHANGED <<docs, prints, sales>>
    BY <1>4 DEF AskSell
  <2> HIDE DEF work
  <2>3. /\ HistoryStands' /\ OneCopy' /\ PrintedNumberStands' /\ crossed \subseteq crossed'
        /\ \A q \in Requests \ {r} : Grounded(q)'
        /\ task'[r] = work
        /\ d \notin crossed' => \A other \in Requests \ {r} : task'[other].doc # d
    BY <1>0, <2>1, <2>2, OthersAfterAsk
  <2>4. Grounded(r)'
    BY <2>1, <2>2, <2>3 DEF Grounded, Unshared, Live
  <2> QED BY <2>3, <2>4 DEF Standing
<1> QED BY <1>1, <1>2, <1>3, <1>4

\* A request that has no document is grounded.
LEMMA WithoutDocument ==
  ASSUME NEW r \in Requests, task'[r].doc = None
  PROVE  Grounded(r)'
  BY DEF Grounded, Unshared

LEMMA StandingElsewhere ==
  ASSUME Typed, Standing, NEW r \in Requests,
         \/ \E form \in Forms : AskQuickSale(r, form)
         \/ AskLanguage(r) \/ FailNumber(r) \/ FailSell(r) \/ StoreSettings(r)
  PROVE  Standing'
<1>1. /\ task \in [Requests -> Task]
      /\ UNCHANGED <<docs, prints, sales, crossed>>
  BY DEF Typed, TypeOK, AskQuickSale, AskLanguage, FailNumber, FailSell, StoreSettings
<1>2. PICK work : work.doc = None /\ task' = [task EXCEPT ![r] = work]
  <2>1. ASSUME NEW form \in Forms, AskQuickSale(r, form)
        PROVE  \E work : work.doc = None /\ task' = [task EXCEPT ![r] = work]
    <3> DEFINE work == [Idle EXCEPT !.step = "sell", !.key = <<None, form>>]
    <3>1. work.doc = None /\ task' = [task EXCEPT ![r] = work]
      BY <2>1 DEF AskQuickSale, Begin, Idle
    <3> QED BY <3>1
  <2>2. ASSUME AskLanguage(r)
        PROVE  \E work : work.doc = None /\ task' = [task EXCEPT ![r] = work]
    <3> DEFINE work == [Idle EXCEPT !.step = "settings", !.number = next, !.sale = nextSale]
    <3>1. work.doc = None /\ task' = [task EXCEPT ![r] = work]
      BY <2>2 DEF AskLanguage, Begin, Idle
    <3> QED BY <3>1
  <2>3. Idle.doc = None
    BY DEF Idle
  <2> QED BY <2>1, <2>2, <2>3 DEF FailNumber, FailSell, StoreSettings, Finish
<1>3. \A d \in Live : Untouched(d)
  BY <1>1, DataKept
<1>4. \A q \in Requests \ {r} : Grounded(q)'
  <2>1. crossed' = crossed /\ \A d \in Live \ {task[r].doc} : Untouched(d)
    BY <1>1, <1>3
  <2>2. /\ task'[r].doc \in {task[r].doc, None}
        /\ \A q \in Requests \ {r} : task'[q] = task[q]
    BY <1>1, <1>2
  <2> QED BY <2>1, <2>2, OthersGoOn
<1>5. Grounded(r)'
  BY <1>1, <1>2, WithoutDocument
<1> QED BY <1>1, <1>4, <1>5, DataKept DEF Standing

LEMMA StandingRead ==
  ASSUME Typed, Standing, NEW r \in Requests, ReadNumber(r) \/ ReadSnapshot(r)
  PROVE  Standing'
<1>1. /\ task \in [Requests -> Task] /\ task[r] \in Task
      /\ UNCHANGED <<docs, prints, sales, crossed>>
  BY DEF Typed, TypeOK, ReadNumber, ReadSnapshot
<1>2. PICK work :
        /\ work.doc \in {task[r].doc, None} /\ task' = [task EXCEPT ![r] = work]
        /\ work.doc = None \/
             /\ work.doc = task[r].doc
             /\ \/ work.step = "write" /\ task[r].step = "number"
                \/ /\ work.step = "insert" /\ task[r].step = "snapshot"
                   /\ work.number = task[r].number
                   /\ \A p \in prints : p.doc # task[r].doc
  <2> DEFINE good(work) ==
        /\ work.doc \in {task[r].doc, None} /\ task' = [task EXCEPT ![r] = work]
        /\ work.doc = None \/
             /\ work.doc = task[r].doc
             /\ \/ work.step = "write" /\ task[r].step = "number"
                \/ /\ work.step = "insert" /\ task[r].step = "snapshot"
                   /\ work.number = task[r].number
                   /\ \A p \in prints : p.doc # task[r].doc
  <2>1. ASSUME ReadNumber(r) PROVE \E work : good(work)
    <3> DEFINE number == FirstFree(next, Used)
               work == [task[r] EXCEPT !.step = "write", !.number = number]
    <3>1. work.doc = task[r].doc /\ work.step = "write"
      BY <1>1 DEF Task
    <3>2. task' = [task EXCEPT ![r] = work] /\ task[r].step = "number"
      BY <2>1 DEF ReadNumber, Begin
    <3> HIDE DEF work
    <3> QED BY <3>1, <3>2
  <2>2. ASSUME ReadSnapshot(r), Finish(r) PROVE \E work : good(work)
    <3>1. Idle.doc = None
      BY DEF Idle
    <3> QED BY <2>2, <3>1 DEF Finish
  <2>3. ASSUME ReadSnapshot(r), ~(\E p \in prints : p.doc = task[r].doc)
        PROVE  \E work : good(work)
    <3> DEFINE work == [task[r] EXCEPT !.step = "insert"]
    <3>1. work.doc = task[r].doc /\ work.step = "insert" /\ work.number = task[r].number
      BY <1>1 DEF Task
    <3>2. task' = [task EXCEPT ![r] = work] /\ task[r].step = "snapshot"
      BY <2>3 DEF ReadSnapshot, Begin
    <3> HIDE DEF work
    <3> QED BY <2>3, <3>1, <3>2
  <2> QED BY <2>1, <2>2, <2>3 DEF ReadSnapshot
<1>3. \A q \in Requests \ {r} : Grounded(q)'
  <2>1. crossed' = crossed /\ \A d \in Live \ {task[r].doc} : Untouched(d)
    BY <1>1, DataKept
  <2>2. /\ task'[r].doc \in {task[r].doc, None}
        /\ \A q \in Requests \ {r} : task'[q] = task[q]
    BY <1>1, <1>2
  <2> QED BY <2>1, <2>2, OthersGoOn
<1>4. Grounded(r)'
  <2>1. CASE work.doc = None
    BY <1>1, <1>2, <2>1, WithoutDocument
  <2>2. CASE work.doc # None
    <3>1. task'[r] = work /\ \A q \in Requests \ {r} : task'[q] = task[q]
      BY <1>1, <1>2
    <3>2. Grounded(r)
      BY DEF Standing
    <3> QED BY <1>1, <1>2, <2>2, <3>1, <3>2 DEF Grounded, Unshared, Live
  <2> QED BY <2>1, <2>2
<1> QED BY <1>1, <1>3, <1>4, DataKept DEF Standing

LEMMA StandingCreate ==
  ASSUME Typed, Standing, NEW r \in Requests, NEW type \in Types, Create(r, type)
  PROVE  Standing'
<1> DEFINE work == [Idle EXCEPT !.step = "number", !.doc = NewId]
           new == [type |-> type, source |-> None, number |-> None]
<1>1. /\ NewId \notin Live /\ NewId \in Ids /\ NewId # None /\ None \notin Ids
      /\ Live \subseteq Ids
  BY NewIdIsFree DEF Typed, TypeOK, Create, None, Live, Ids
<1>2. /\ Live' = Live \cup {NewId} /\ docs'[NewId] = new
      /\ \A d \in Live : docs'[d] = docs[d]
      /\ UNCHANGED <<prints, sales, crossed>>
  BY <1>1 DEF Create, Live
<1>3. task'[r] = work /\ \A q \in Requests \ {r} : task'[q] = task[q]
  BY DEF Create, Begin, Typed, TypeOK
<1>4. new.source = None /\ work.doc = NewId /\ work.step = "number"
  BY DEF Idle
<1> HIDE DEF work, new
<1>5. \A d \in Live : Untouched(d)
  BY <1>1, <1>2, <1>4 DEF Untouched
<1>6. HistoryStands'
  BY <1>1, <1>2, <1>4 DEF Standing, HistoryStands
<1>7. OneCopy'
  BY <1>2, <1>4 DEF Standing, OneCopy
<1>8. PrintedNumberStands'
  BY <1>2 DEF Standing, PrintedNumberStands
<1>9. \A q \in Requests : Grounded(q) /\ (Unshared(q) => task[q].doc # NewId)
  BY <1>1 DEF Standing, Grounded
<1>10. ASSUME NEW q \in Requests \ {r} PROVE Grounded(q)'
  <2>1. Unshared(q) => Untouched(task[q].doc)
    BY <1>5, <1>9 DEF Grounded
  <2>2. ASSUME Unshared(q)', NEW other \in Requests \ {q} PROVE task'[other].doc # task[q].doc
    <3>1. Unshared(q)
      BY <1>2, <1>3, <2>2 DEF Unshared
    <3> QED BY <1>3, <1>4, <1>9, <3>1 DEF Grounded
  <2> QED BY <1>2, <1>3, <1>9, <2>1, <2>2, GroundedKept
<1>11. Grounded(r)'
  <2> SUFFICES ASSUME NewId \notin crossed PROVE Grounded(r)'
    BY <1>2, <1>3, <1>4 DEF Grounded, Unshared
  <2>1. \A p \in prints : p.doc # NewId
    BY <1>1 DEF Standing, PrintedNumberStands
  <2>2. \A q \in Requests \ {r} : task'[q].doc # NewId
    BY <1>1, <1>3, <1>9 DEF Unshared
  <2> QED BY <1>2, <1>3, <1>4, <2>1, <2>2 DEF Grounded
<1> QED BY <1>6, <1>7, <1>8, <1>10, <1>11 DEF Standing

\* What a request that ends leaves the others.
LEMMA OthersAfterFinish ==
  ASSUME Typed, Standing, NEW r \in Requests, Finish(r), crossed' = crossed,
         \A d \in Live \ {task[r].doc} : Untouched(d)
  PROVE  \A q \in Requests : Grounded(q)'
<1>1. task'[r].doc = None /\ \A q \in Requests \ {r} : task'[q] = task[q]
  BY DEF Finish, Typed, TypeOK, Idle
<1>2. \A q \in Requests \ {r} : Grounded(q)'
  BY <1>1, OthersGoOn
<1>3. Grounded(r)'
  BY <1>1, WithoutDocument
<1> QED BY <1>2, <1>3

LEMMA StandingWriteNumber ==
  ASSUME Typed, Standing, NEW r \in Requests, WriteNumber(r)
  PROVE  Standing'
<1> DEFINE d == task[r].doc
<1>1. /\ d \in Live /\ Live' = Live
      /\ docs' = [docs EXCEPT ![d].number = task[r].number]
      /\ UNCHANGED <<prints, sales, crossed>>
  BY DEF WriteNumber, Writable, Live
<1>2. \A e \in Live : docs[e] \in Document
  BY DEF Typed, TypeOK, Live
<1>3. /\ \A e \in Live : docs'[e].source = docs[e].source /\ docs'[e].type = docs[e].type
      /\ \A e \in Live \ {d} : docs'[e] = docs[e]
      /\ docs'[d].number = task[r].number
  BY <1>1, <1>2 DEF Document, Live
<1>4. \A e \in Live \ {d} : Untouched(e)
  BY <1>1, <1>3 DEF Untouched
<1>5. HistoryStands' /\ OneCopy'
  BY <1>1, <1>3 DEF Standing, HistoryStands, OneCopy
<1>6. Grounded(r) /\ task[r].step = "write" /\ d # None
  BY <1>1 DEF Standing, WriteNumber, Typed, TypeOK, Live, Ids, None
<1>7. PrintedNumberStands'
  <2>1. d \notin crossed => \A p \in prints : p.doc # d
    BY <1>6 DEF Grounded, Unshared
  <2> QED BY <1>1, <1>3, <2>1 DEF Standing, PrintedNumberStands
<1>8. CASE ~task[r].print
  <2>1. Finish(r)
    BY <1>8 DEF WriteNumber
  <2>2. \A q \in Requests : Grounded(q)'
    BY <1>1, <1>4, <2>1, OthersAfterFinish
  <2> QED BY <1>5, <1>7, <2>2 DEF Standing
<1>9. CASE task[r].print
  <2> DEFINE work == [task[r] EXCEPT !.step = "snapshot"]
  <2>1. work.doc = d /\ work.step = "snapshot" /\ work.number = task[r].number
    BY DEF Typed, TypeOK, Task
  <2>2. task'[r] = work /\ \A q \in Requests \ {r} : task'[q] = task[q]
    BY <1>9 DEF WriteNumber, Begin, Typed, TypeOK
  <2> HIDE DEF work
  <2>3. \A q \in Requests \ {r} : Grounded(q)'
    BY <1>1, <1>4, <2>1, <2>2, OthersGoOn
  <2>4. Grounded(r)'
    BY <1>1, <1>3, <1>6, <2>1, <2>2 DEF Grounded, Unshared
  <2> QED BY <1>5, <1>7, <2>3, <2>4 DEF Standing
<1> QED BY <1>8, <1>9

LEMMA StandingInsertSnapshot ==
  ASSUME Typed, Standing, NEW r \in Requests, InsertSnapshot(r)
  PROVE  Standing'
<1> DEFINE d == task[r].doc
           print == [doc |-> d, number |-> task[r].number]
<1>1. /\ UNCHANGED <<docs, sales, crossed>> /\ Live' = Live /\ Finish(r)
      /\ prints \subseteq prints' /\ prints' \subseteq prints \cup {print}
      /\ task[r].step = "insert"
  BY DEF InsertSnapshot, Live
<1>2. print.doc = d /\ print.number = task[r].number
  OBVIOUS
<1>3. d \in Ids /\ d # None
  BY <1>1 DEF Typed, Prepared, Ids, None
<1> HIDE DEF print
<1>4. \A e \in Live \ {d} : Untouched(e)
  BY <1>1, <1>2 DEF Untouched
<1>5. HistoryStands' /\ OneCopy'
  BY <1>1 DEF Standing, HistoryStands, OneCopy
<1>6. d \notin crossed =>
        d \in Live /\ docs[d].number = task[r].number /\ \A p \in prints : p.doc # d
  BY <1>1, <1>3 DEF Standing, Grounded, Unshared
<1>7. PrintedNumberStands'
  <2> SUFFICES ASSUME NEW p \in prints', p.doc \notin crossed
               PROVE  /\ p.doc \in Live /\ docs[p.doc].number = p.number
                      /\ \A q \in prints' : q.doc = p.doc => q = p
    BY <1>1 DEF PrintedNumberStands
  <2>1. CASE p = print
    BY <1>1, <1>2, <1>6, <2>1
  <2>2. CASE p \in prints
    <3>1. print \notin prints' \/ p.doc # d
      BY <1>6, <2>2
    <3> QED BY <1>1, <1>2, <1>6, <2>2 DEF Standing, PrintedNumberStands
  <2> QED BY <1>1, <2>1, <2>2
<1>8. \A q \in Requests : Grounded(q)'
  BY <1>1, <1>4, OthersAfterFinish
<1> QED BY <1>5, <1>7, <1>8 DEF Standing

LEMMA StandingErase ==
  ASSUME Typed, Standing, NEW r \in Requests, Erase(r)
  PROVE  Standing'
<1> DEFINE d == task[r].doc
<1>1. /\ Live' = Live \ {d} /\ \A e \in Live' : docs'[e] = docs[e]
      /\ UNCHANGED <<prints, sales, crossed>> /\ Finish(r) /\ task[r].step = "erase"
  BY DEF Erase, Live
<1>2. d \in Live \ crossed => CanBeDeleted(d)
  BY <1>1 DEF Standing, Grounded, Unshared, Typed, TypeOK, Live, Ids, None
<1>3. \A e \in Live \ {d} : Untouched(e)
  BY <1>1 DEF Untouched
<1>4. HistoryStands'
  <2> SUFFICES ASSUME NEW e \in Ids \ crossed,
                      (\E f \in Live' : docs'[f].source = e) \/ (\E s \in sales : s.doc = e)
               PROVE  e \in Live'
    BY <1>1 DEF HistoryStands
  <2>1. (\E f \in Live : docs[f].source = e) \/ (\E s \in sales : s.doc = e)
    BY <1>1
  <2>2. e \in Live
    BY <2>1 DEF Standing, HistoryStands
  <2>3. ~CanBeDeleted(e)
    BY <2>1 DEF CanBeDeleted
  <2> QED BY <1>1, <1>2, <2>2, <2>3
<1>5. OneCopy'
  BY <1>1 DEF Standing, OneCopy
<1>6. PrintedNumberStands'
  <2> SUFFICES ASSUME NEW p \in prints, p.doc \notin crossed
               PROVE  /\ p.doc \in Live' /\ docs'[p.doc].number = p.number
                      /\ \A q \in prints : q.doc = p.doc => q = p
    BY <1>1 DEF PrintedNumberStands
  <2>1. /\ p.doc \in Live /\ docs[p.doc].number = p.number
        /\ \A q \in prints : q.doc = p.doc => q = p
    BY DEF Standing, PrintedNumberStands
  <2>2. ~CanBeDeleted(p.doc)
    BY DEF CanBeDeleted
  <2> QED BY <1>1, <1>2, <2>1, <2>2
<1>7. \A q \in Requests : Grounded(q)'
  BY <1>1, <1>3, OthersAfterFinish
<1> QED BY <1>4, <1>5, <1>6, <1>7 DEF Standing

LEMMA StandingClone ==
  ASSUME Typed, Standing, NEW r \in Requests, Clone(r)
  PROVE  Standing'
<1> DEFINE source == task[r].doc
           new == [type |-> task[r].type, source |-> source, number |-> FirstFree(next, Used)]
<1>1. UNCHANGED <<prints, sales, crossed>> /\ Finish(r) /\ task[r].step = "clone"
  BY DEF Clone
<1>2. CASE ~(source \in Live /\ NewId \in Ids)
  <2>1. UNCHANGED docs
    BY <1>2 DEF Clone
  <2>2. HistoryStands' /\ OneCopy' /\ PrintedNumberStands' /\ \A d \in Live : Untouched(d)
    BY <1>1, <2>1, DataKept
  <2> QED BY <1>1, <2>2, OthersAfterFinish DEF Standing
<1>3. CASE source \in Live /\ NewId \in Ids
  <2>1. NewId \notin Live /\ NewId # source /\ source \in Ids /\ source # None
    BY <1>3, NewIdIsFree DEF Typed, TypeOK, Live, Ids, None
  <2>2. /\ Live' = Live \cup {NewId} /\ docs'[NewId] = new
        /\ \A d \in Live : docs'[d] = docs[d]
    BY <1>3, <2>1 DEF Clone, Live
  <2>3. new.source = source /\ new.type = task[r].type
    OBVIOUS
  <2> HIDE DEF new
  <2>4. \A d \in Live \ {source} : Untouched(d)
    BY <1>1, <2>1, <2>2, <2>3 DEF Untouched
  <2>5. HistoryStands'
    BY <1>1, <1>3, <2>1, <2>2, <2>3 DEF Standing, HistoryStands
  <2>6. OneCopy'
    <3>1. source \notin crossed => ~HasCopy(source, task[r].type)
      BY <1>1, <2>1 DEF Standing, Grounded, Unshared
    <3>2. source \notin crossed =>
            \A e \in Live : docs[e].source = source => docs[e].type # task[r].type
      BY <3>1 DEF HasCopy
    <3> QED BY <1>1, <2>2, <2>3, <3>2 DEF Standing, OneCopy
  <2>7. PrintedNumberStands'
    BY <1>1, <2>2 DEF Standing, PrintedNumberStands
  <2>8. \A q \in Requests : Grounded(q)'
    BY <1>1, <2>4, OthersAfterFinish
  <2> QED BY <2>5, <2>6, <2>7, <2>8 DEF Standing
<1> QED BY <1>2, <1>3

LEMMA StandingSell ==
  ASSUME Typed, Standing, NEW r \in Requests, Sell(r)
  PROVE  Standing'
<1>1. UNCHANGED <<docs, prints, crossed>> /\ Live' = Live /\ Finish(r)
  BY DEF Sell, Live
<1>2. \A s \in sales' : s \in sales \/ s.doc = task[r].doc
  BY DEF Sell
<1>3. \A d \in Live \ {task[r].doc} : Untouched(d)
  BY <1>1, <1>2 DEF Untouched
<1>4. task[r].doc \in Ids \ crossed => task[r].doc \in Live
  BY DEF Standing, Grounded, Unshared, Ids, None
<1>5. HistoryStands'
  BY <1>1, <1>2, <1>4 DEF Standing, HistoryStands
<1>6. OneCopy' /\ PrintedNumberStands'
  BY <1>1 DEF Standing, OneCopy, PrintedNumberStands
<1>7. \A q \in Requests : Grounded(q)'
  BY <1>1, <1>3, OthersAfterFinish
<1> QED BY <1>5, <1>6, <1>7 DEF Standing

LEMMA StandingStep ==
  ASSUME Typed, Standing, Next
  PROVE  Standing'
<1>1. ASSUME Kill PROVE Standing'
  <2>1. \A q \in Requests : task'[q].doc = None
    BY <1>1 DEF Kill, Idle
  <2>2. \A q \in Requests : Grounded(q)'
    BY <2>1, WithoutDocument
  <2> QED BY <1>1, <2>2, DataKept DEF Kill, Standing
<1> QED BY <1>1, StandingAsk, StandingElsewhere, StandingRead, StandingCreate,
           StandingWriteNumber, StandingInsertSnapshot, StandingErase, StandingClone,
           StandingSell DEF Next

LEMMA AlwaysStanding == Spec => []Standing
<1>1. Init => Standing
  BY DEF Init, Standing, HistoryStands, OneCopy, PrintedNumberStands, Grounded, Unshared,
         Live, Idle
<1>2. Typed /\ Standing /\ [Next]_vars => Standing'
  <2> SUFFICES ASSUME Typed, Standing, [Next]_vars PROVE Standing'
    OBVIOUS
  <2>1. CASE UNCHANGED vars
    BY <2>1 DEF vars, Standing, HistoryStands, OneCopy, PrintedNumberStands, Grounded,
                Unshared, Live, CanBeDeleted, HasCopy
  <2> QED BY <2>1, StandingStep
<1> QED BY <1>1, <1>2, AlwaysTyped, PTL DEF Spec

\* The source of a copy and the document of a sale exist, for any number of requests and
\* ids used again, unless two requests worked on it at once (assert_job_can_be_deleted).
THEOREM HistoryIsKept == Spec => []HistoryStands
BY AlwaysStanding, PTL DEF Standing

\* A document that no two requests worked on at once has one copy of a type
\* (clone_job_as_type).
THEOREM CopiedOnce == Spec => []OneCopy
BY AlwaysStanding, PTL DEF Standing

\* A print of such a document carries its number and is its only print
\* (ensure_receipt_number, ensure_print_snapshot; README.md:359).
THEOREM PrintsStand == Spec => []PrintedNumberStands
BY AlwaysStanding, PTL DEF Standing
=============================================================================
