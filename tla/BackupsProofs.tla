--------------------------- MODULE BackupsProofs ---------------------------
(***************************************************************************)
(* Proofs about the backup files, for every number of request threads,     *)
(* files kept, commits and failures: retention leaves a complete backup,   *)
(* and a restore replaces only what some backup file holds.                *)
(***************************************************************************)
EXTENDS Backups, FiniteSetTheorems, TLAPS

-----------------------------------------------------------------------------
(* Lists of files.                                                         *)

\* The members of a set of positions are numbered in their order.
Rank(S, i) == Cardinality({j \in S : j <= i})
Nth(S, k) == CHOOSE i \in S : Rank(S, i) = k

LEMMA RankGrows ==
  ASSUME NEW n \in Nat, NEW S \in SUBSET (1..n), NEW i \in S
  PROVE  /\ Rank(S, i) \in 1..Cardinality(S)
         /\ \A j \in S : i < j => Rank(S, i) < Rank(S, j)
<1> DEFINE upto(j) == {k \in S : k <= j}
<1>0. \A k \in S : k \in Nat
  OBVIOUS
<1>1. IsFiniteSet(S)
  BY FS_Interval, FS_Subset, IsFiniteSet(1..n)
<1>2. ASSUME NEW j \in S
      PROVE  /\ IsFiniteSet(upto(j))
             /\ Cardinality(upto(j)) \in Nat
             /\ Cardinality(upto(j)) <= Cardinality(S)
  BY <1>1, FS_Subset, FS_CardinalityType, upto(j) \in SUBSET S
<1>3. Cardinality(upto(i)) # 0
  BY <1>2, FS_EmptySet, i \in upto(i)
<1>4. ASSUME NEW j \in S, i < j
      PROVE  Cardinality(upto(i)) < Cardinality(upto(j))
  <2>1. i \in Nat /\ j \in Nat /\ j <= j /\ ~(j <= i)
    BY <1>0, <1>4
  <2>2. \A k \in S : k <= i => k <= j
    BY <1>0, <1>4, <2>1
  <2>3. upto(i) \in SUBSET upto(j) /\ j \in upto(j) /\ j \notin upto(i)
    BY <2>1, <2>2
  <2>4. /\ Cardinality(upto(i)) <= Cardinality(upto(j))
        /\ Cardinality(upto(i)) # Cardinality(upto(j))
    BY <1>2, <2>3, FS_Subset
  <2> QED BY <1>2, <2>4
<1>5. Cardinality(S) \in Nat
  BY <1>1, FS_CardinalityType
<1> QED BY <1>2, <1>3, <1>4, <1>5 DEF Rank

LEMMA NthMember ==
  ASSUME NEW n \in Nat, NEW S \in SUBSET (1..n)
  PROVE  /\ Cardinality(S) \in 0..n
         /\ \A k \in 1..Cardinality(S) : Nth(S, k) \in S /\ Rank(S, Nth(S, k)) = k
         /\ \A i \in S : \E k \in 1..Cardinality(S) : Nth(S, k) = i
         /\ \A k, l \in 1..Cardinality(S) : k < l => Nth(S, k) < Nth(S, l)
<1> DEFINE c == Cardinality(S)
           rank == [i \in S |-> Rank(S, i)]
<1>1. IsFiniteSet(S) /\ c \in 0..n
  <2>1. IsFiniteSet(1..n) /\ Cardinality(1..n) = n
    BY FS_Interval
  <2>2. IsFiniteSet(S) /\ c <= n
    BY <2>1, FS_Subset
  <2> QED BY <2>2, FS_CardinalityType
<1>2. \A i, j \in S : Rank(S, i) \in 1..c /\ (i < j => Rank(S, i) < Rank(S, j))
  BY RankGrows
<1>3. \A i, j \in S : Rank(S, i) = Rank(S, j) => i = j
  BY <1>2
<1>4. rank \in Injection(S, 1..c)
  <2>1. rank \in [S -> 1..c]
    BY <1>2
  <2>2. \A i, j \in S : rank[i] = rank[j] => i = j
    BY <1>3
  <2> QED BY <2>1, <2>2 DEF Injection, IsInjective
<1>5. IsFiniteSet(1..c) /\ Cardinality(1..c) = c
  BY <1>1, FS_Interval
<1>6. rank \in Surjection(S, 1..c)
  BY <1>4, <1>5, FS_Injection
<1>7. \A k \in 1..c : \E i \in S : Rank(S, i) = k
  BY <1>6 DEF Surjection
<1>8. \A k \in 1..c : Nth(S, k) \in S /\ Rank(S, Nth(S, k)) = k
  BY <1>7 DEF Nth
<1>9. \A i \in S : Nth(S, Rank(S, i)) = i
  BY <1>2, <1>3, <1>8
<1>10. ASSUME NEW k \in 1..c, NEW l \in 1..c, k < l
       PROVE  Nth(S, k) < Nth(S, l)
  <2>1. PICK i \in S : i = Nth(S, k) /\ Rank(S, i) = k
    BY <1>8
  <2>2. PICK j \in S : j = Nth(S, l) /\ Rank(S, j) = l
    BY <1>8
  <2>3. i \in Int /\ j \in Int /\ k \in Int /\ l \in Int
    OBVIOUS
  <2>4. ~(j < i)
    BY <1>2, <1>10, <2>1, <2>2, <2>3
  <2>5. i # j
    BY <1>10, <2>1, <2>2, <2>3
  <2> QED BY <2>1, <2>2, <2>3, <2>4, <2>5
<1> QED BY <1>1, <1>2, <1>8, <1>9, <1>10

\* What Without leaves of a list: the other files, each once, in their order.
LEMMA WithoutRest ==
  ASSUME NEW s \in Seq(Names), NEW R
  PROVE  /\ Without(s, R) \in Seq(Names)
         /\ Range(Without(s, R)) = Range(s) \ R
         /\ IsInjective(s) => IsInjective(Without(s, R))
         /\ \A a, b \in DOMAIN Without(s, R) : a < b =>
              \E i, j \in DOMAIN s :
                i < j /\ s[i] = Without(s, R)[a] /\ s[j] = Without(s, R)[b]
<1> DEFINE kept == {i \in DOMAIN s : s[i] \notin R}
           c == Cardinality(kept)
           q == [k \in 1..c |-> s[Nth(kept, k)]]
<1>1. Without(s, R) = q
  BY DEF Without, Nth, Rank
<1>2. Len(s) \in Nat /\ DOMAIN s = 1..Len(s) /\ \A i \in DOMAIN s : s[i] \in Names
  OBVIOUS
<1>3. kept \in SUBSET (1..Len(s))
  BY <1>2
<1> HIDE DEF kept
<1>4. /\ c \in Nat
      /\ \A k \in 1..c : Nth(kept, k) \in kept
      /\ \A i \in kept : \E k \in 1..c : Nth(kept, k) = i
      /\ \A k, l \in 1..c : k < l => Nth(kept, k) < Nth(kept, l)
  BY <1>2, <1>3, NthMember
<1>5. \A i : i \in kept <=> i \in DOMAIN s /\ s[i] \notin R
  BY DEF kept
<1> HIDE DEF c
<1>6. q \in Seq(Names)
  <2>1. \A k \in 1..c : q[k] \in Names
    BY <1>2, <1>4, <1>5
  <2> QED BY <1>4, <2>1
<1>7. Range(q) = Range(s) \ R
  BY <1>4, <1>5 DEF Range
<1>8. ASSUME IsInjective(s) PROVE IsInjective(q)
  <2>1. ASSUME NEW k \in 1..c, NEW l \in 1..c, k # l
        PROVE  Nth(kept, k) # Nth(kept, l)
    <3>1. Nth(kept, k) \in Int /\ Nth(kept, l) \in Int
      <4>1. \A i \in kept : i \in Int
        BY <1>3
      <4> QED BY <1>4, <4>1
    <3>2. k < l \/ l < k
      BY <1>4, <2>1
    <3> QED BY <1>4, <3>1, <3>2
  <2> QED BY <1>4, <1>5, <1>8, <2>1 DEF IsInjective
<1>9. ASSUME NEW a \in DOMAIN q, NEW b \in DOMAIN q, a < b
      PROVE  \E i, j \in DOMAIN s : i < j /\ s[i] = q[a] /\ s[j] = q[b]
  BY <1>4, <1>5, <1>9
<1> QED BY <1>1, <1>6, <1>7, <1>8, <1>9

\* A new file is the newest.
LEMMA AppendLast ==
  ASSUME NEW s \in Seq(Names), NEW f \in Names, f \notin Range(s)
  PROVE  /\ Append(s, f) \in Seq(Names)
         /\ Range(Append(s, f)) = Range(s) \cup {f}
         /\ IsInjective(s) => IsInjective(Append(s, f))
         /\ \A a, b \in DOMAIN Append(s, f) : a < b =>
              /\ a \in DOMAIN s /\ Append(s, f)[a] = s[a]
              /\ \/ b \in DOMAIN s /\ Append(s, f)[b] = s[b]
                 \/ Append(s, f)[b] = f
<1> DEFINE q == Append(s, f)
<1>1. /\ Len(s) \in Nat /\ DOMAIN s = 1..Len(s)
      /\ DOMAIN q = 1..(Len(s) + 1) /\ q[Len(s) + 1] = f
      /\ \A i \in 1..Len(s) : q[i] = s[i]
      /\ q \in Seq(Names)
  OBVIOUS
<1> HIDE DEF q
<1>2. Range(q) = Range(s) \cup {f}
  <2>1. ASSUME NEW x \in Range(q) PROVE x \in Range(s) \cup {f}
    BY <1>1 DEF Range
  <2>2. ASSUME NEW x \in Range(s) PROVE x \in Range(q)
    BY <1>1 DEF Range
  <2>3. f \in Range(q)
    BY <1>1 DEF Range
  <2> QED BY <2>1, <2>2, <2>3
<1>3. ASSUME IsInjective(s) PROVE IsInjective(q)
  BY <1>1, <1>3 DEF IsInjective, Range
<1>4. \A a, b \in DOMAIN q : a < b =>
        a \in DOMAIN s /\ q[a] = s[a] /\ ((b \in DOMAIN s /\ q[b] = s[b]) \/ q[b] = f)
  BY <1>1
<1> QED BY <1>1, <1>2, <1>3, <1>4 DEF q
-----------------------------------------------------------------------------
(* The invariant: what the threads hold, and what the depth counts.        *)

Restorers == {t \in Requests : Restoring(t)}
Disturbed == crossed \/ printed

\* A thread that fills a file has not filled it yet; only a thread that is about to
\* delete files has a list, and only one that copies or replaces restores.
Sound(t) ==
  /\ task[t].step = "idle" => task[t] = Idle
  /\ task[t].step = "copy" => task[t].file \in Names /\ content[task[t].file] = Blank
  /\ task[t].step \in {"list", "prune", "commit"} => ~Restoring(t)
  /\ task[t].step = "replace" => Restoring(t)
  /\ task[t].step # "prune" => task[t].surplus = {}

SoundTasks ==
  /\ \A t \in Threads : Sound(t)
  /\ task[Scheduler].step \in {"idle", "copy", "list", "prune"}
  /\ ~Restoring(Scheduler)
  /\ \A t, u \in Threads :
       t # u /\ task[t].step = "copy" /\ task[u].step = "copy" => task[t].file # task[u].file

\* What the program counts, and what it rules out while it is not disturbed.
Counted ==
  /\ depth = Cardinality(Restorers)
  /\ writes + Cardinality(Writers) <= MaxWrites
  /\ ~Disturbed => /\ \A t, u \in Restorers : t = u
                   /\ depth > 0 => Writers = {}

Orderly ==
  /\ TypeOK
  /\ SoundTasks
  /\ \A f \in Names \ Files : content[f] = Blank
  /\ Counted
-----------------------------------------------------------------------------
(* What the parts of the actions do to it.                                 *)

LEMMA Counts ==
  ASSUME TypeOK
  PROVE  /\ IsFiniteSet(Restorers) /\ IsFiniteSet(Writers)
         /\ Cardinality(Restorers) \in 0..Cardinality(Requests)
         /\ Cardinality(Writers) \in Nat
         /\ Cardinality(Requests) \in Nat
         /\ Cardinality(Restorers) = 0 <=> Restorers = {}
<1>1. Restorers \in SUBSET Requests /\ Writers \in SUBSET Requests
  BY DEF Restorers, Writers
<1>2. IsFiniteSet(Requests) /\ Cardinality(Requests) \in Nat
  BY BackupsAssumption, FS_CardinalityType
<1>3. /\ IsFiniteSet(Restorers) /\ IsFiniteSet(Writers)
      /\ Cardinality(Restorers) <= Cardinality(Requests)
  BY <1>1, <1>2, FS_Subset
<1> QED BY <1>2, <1>3, FS_CardinalityType, FS_EmptySet

LEMMA IdleTask == Idle \in Task
BY DEF Idle, Task, Steps

\* What the parts of a thread's record become.
Becomes(u, step, file, selected, surplus) ==
  /\ task' \in [Threads -> Task]
  /\ task'[u].step = step /\ task'[u].file = file
  /\ task'[u].selected = selected /\ task'[u].surplus = surplus
  /\ \A t \in Threads : t # u => task'[t] = task[t]

LEMMA BeginsBackup ==
  ASSUME TypeOK, NEW u \in Threads, NEW f \in Names,
         task' = [task EXCEPT ![u].step = "copy", ![u].file = f]
  PROVE  Becomes(u, "copy", f, task[u].selected, task[u].surplus)
BY DEF TypeOK, Becomes, Task, Steps

LEMMA BeginsRestore ==
  ASSUME TypeOK, NEW u \in Threads, NEW f \in Names, NEW g \in Names,
         task' = [task EXCEPT ![u].step = "copy", ![u].file = f, ![u].selected = g]
  PROVE  Becomes(u, "copy", f, g, task[u].surplus)
BY DEF TypeOK, Becomes, Task, Steps

LEMMA BeginsPrune ==
  ASSUME TypeOK, NEW u \in Threads, NEW R \in SUBSET Names,
         task' = [task EXCEPT ![u].step = "prune", ![u].surplus = R]
  PROVE  Becomes(u, "prune", task[u].file, task[u].selected, R)
BY DEF TypeOK, Becomes, Task, Steps

LEMMA MovesOn ==
  ASSUME TypeOK, NEW u \in Threads, NEW step \in Steps,
         task' = [task EXCEPT ![u].step = step]
  PROVE  Becomes(u, step, task[u].file, task[u].selected, task[u].surplus)
BY DEF TypeOK, Becomes, Task

LEMMA IdleParts ==
  /\ Idle.step = "idle" /\ Idle.file = NoFile
  /\ Idle.selected = NoFile /\ Idle.surplus = {}
BY DEF Idle

\* A thread that ends leaves the others as they were.
LEMMA EndTasks ==
  ASSUME TypeOK, NEW u \in Threads, End(u)
  PROVE  /\ task' \in [Threads -> Task]
         /\ task'[u] = Idle
         /\ \A t \in Threads : t # u => task'[t] = task[t]
BY IdleTask DEF TypeOK, End

\* Maintenance ends with the restore, and what was disturbed stays so while it lasts.
LEMMA EndCounts ==
  ASSUME TypeOK, SoundTasks, Counted, NEW u \in Threads, End(u),
         writes' + Cardinality(Writers') <= MaxWrites
  PROVE  /\ depth' \in 0..Cardinality(Requests)
         /\ crossed' \in BOOLEAN /\ printed' \in BOOLEAN
         /\ Counted'
         /\ \A t \in Restorers' : t \in Restorers /\ t # u /\ (Disturbed' <=> Disturbed)
<1>1. /\ task'[u] = Idle
      /\ \A t \in Threads : t # u => task'[t] = task[t]
  BY EndTasks
<1>2. /\ depth' = IF Restoring(u) THEN depth - 1 ELSE depth
      /\ crossed' = (crossed /\ depth' > 0)
      /\ printed' = (printed /\ depth' > 0)
  BY DEF End
<1>3. Restoring(u) => u \in Restorers
  BY DEF SoundTasks, Restorers, Threads
<1>4. Restorers' = Restorers \ {u}
  BY <1>1 DEF Restorers, Restoring, Idle, Threads
<1>5. Writers' \subseteq Writers
  BY <1>1 DEF Writers, Idle, Threads
<1>6. /\ IsFiniteSet(Restorers)
      /\ Cardinality(Restorers) \in 0..Cardinality(Requests)
      /\ Cardinality(Requests) \in Nat
      /\ depth = Cardinality(Restorers)
  BY Counts DEF Counted
<1>7. /\ IsFiniteSet(Restorers')
      /\ Cardinality(Restorers') = IF u \in Restorers THEN depth - 1 ELSE depth
  BY <1>4, <1>6, FS_RemoveElement
<1>8. u \in Restorers => Restoring(u)
  BY DEF Restorers
<1>9. depth' = Cardinality(Restorers')
  BY <1>2, <1>3, <1>7, <1>8
<1>10. depth' \in 0..depth
  <2>1. Cardinality(Restorers') \in Nat
    BY <1>7, FS_CardinalityType
  <2> QED BY <1>6, <1>7, <1>9, <2>1
<1>11. ASSUME ~Disturbed'
       PROVE  /\ \A t, v \in Restorers' : t = v
              /\ depth' > 0 => Writers' = {}
  <2>1. CASE depth' > 0
    <3>1. ~Disturbed
      BY <1>2, <1>11, <2>1, Zenon DEF Disturbed
    <3>2. depth > 0
      BY <1>6, <1>10, <2>1
    <3> QED BY <1>4, <1>5, <3>1, <3>2 DEF Counted
  <2>2. CASE ~(depth' > 0)
    <3>1. Cardinality(Restorers') = 0
      BY <1>9, <1>10, <2>2, <1>6
    <3> QED BY <1>7, <2>2, <3>1, FS_EmptySet
  <2> QED BY <2>1, <2>2
<1>12. ASSUME NEW t \in Restorers'
       PROVE  t \in Restorers /\ t # u /\ (Disturbed' <=> Disturbed)
  <2>1. Cardinality(Restorers') # 0
    BY <1>7, <1>12, FS_EmptySet
  <2>2. depth' > 0
    BY <1>6, <1>9, <1>10, <2>1
  <2>3. Disturbed' <=> Disturbed
    BY <1>2, <2>2, Zenon DEF Disturbed
  <2> QED BY <1>4, <1>12, <2>3
<1>13. crossed' \in BOOLEAN /\ printed' \in BOOLEAN
  BY <1>2
<1> QED BY <1>6, <1>9, <1>10, <1>11, <1>12, <1>13 DEF Counted

\* What a thread holds stays right while its own files do.
LEMMA SoundKept ==
  ASSUME NEW t \in Threads, Sound(t), task'[t] = task[t],
         task[t].step = "copy" => content'[task[t].file] = Blank
  PROVE  Sound(t)'
BY DEF Sound, Restoring, Idle

LEMMA SoundIdle ==
  ASSUME NEW t \in Threads, task'[t] = Idle
  PROVE  Sound(t)'
BY DEF Sound, Idle, Restoring

\* A step of one thread that fills no file.
LEMMA TasksKept ==
  ASSUME SoundTasks, NEW u \in Threads,
         \A t \in Threads : t # u => task'[t] = task[t],
         \A f \in Names : content[f] = Blank => content'[f] = Blank,
         Sound(u)',
         u = Scheduler => task'[u].step \in {"idle", "copy", "list", "prune"} /\ ~Restoring(u)',
         task'[u].step = "copy" =>
           \A t \in Threads : t # u /\ task[t].step = "copy" => task[t].file # task'[u].file
  PROVE  SoundTasks'
<1>1. ASSUME NEW t \in Threads PROVE Sound(t)'
  <2>1. CASE t = u
    BY <2>1
  <2>2. CASE t # u
    <3>1. Sound(t) /\ (task[t].step = "copy" => content'[task[t].file] = Blank)
      BY DEF SoundTasks, Sound
    <3> QED BY <2>2, <3>1, SoundKept
  <2> QED BY <2>1, <2>2
<1>2. task'[Scheduler].step \in {"idle", "copy", "list", "prune"} /\ ~Restoring(Scheduler)'
  BY DEF SoundTasks, Restoring, Threads
<1>3. ASSUME NEW t \in Threads, NEW v \in Threads, t # v,
             task'[t].step = "copy", task'[v].step = "copy"
      PROVE  task'[t].file # task'[v].file
  BY <1>3 DEF SoundTasks
<1> QED BY <1>1, <1>2, <1>3 DEF SoundTasks

LEMMA EndSound ==
  ASSUME TypeOK, SoundTasks, NEW u \in Threads, End(u),
         \A f \in Names : content[f] = Blank => content'[f] = Blank
  PROVE  SoundTasks'
<1>1. /\ task'[u] = Idle
      /\ \A t \in Threads : t # u => task'[t] = task[t]
  BY EndTasks
<1>2. Sound(u)'
  BY <1>1, SoundIdle
<1> QED BY <1>1, <1>2, TasksKept DEF Idle, Restoring

\* The sets that are counted do not change when a step changes no thread's share in
\* them.
LEMMA CountedKept ==
  ASSUME Counted, depth' = depth, writes' = writes, Disturbed => Disturbed',
         \A t \in Requests : Restoring(t)' <=> Restoring(t),
         \A t \in Requests : task'[t].step = "commit" <=> task[t].step = "commit"
  PROVE  Counted' /\ Restorers' = Restorers
<1>1. Restorers' = Restorers /\ Writers' = Writers
  BY DEF Restorers, Writers
<1> QED BY <1>1 DEF Counted

LEMMA FreshFile ==
  ASSUME TypeOK, NEW f \in Fresh
  PROVE  /\ f \in Names /\ f \notin Files
         /\ \A t \in Threads : /\ task[t].file # f /\ task[t].selected # f
                               /\ f \notin task[t].surplus
BY DEF Fresh

LEMMA FileNames == TypeOK => Files \subseteq Names
BY DEF TypeOK, Files, Range
-----------------------------------------------------------------------------
(* Every action keeps the invariant.                                       *)

LEMMA EventCounted ==
  ASSUME TypeOK, events < MaxEvents, events' = events + 1
  PROVE  events' \in 0..MaxEvents
BY BackupsAssumption DEF TypeOK

LEMMA InitOrderly == Init => Orderly
<1> SUFFICES ASSUME Init PROVE Orderly
  OBVIOUS
<1>1. /\ IsFiniteSet(Requests) /\ Cardinality(Requests) \in Nat
      /\ MaxWrites \in Nat /\ MaxEvents \in Nat
  BY BackupsAssumption, FS_CardinalityType
<1>2. Files = {} /\ shelf \in Seq(Names) /\ IsInjective(shelf)
  BY DEF Init, Files, Range, IsInjective
<1>3. TypeOK
  <2>1. live \in Contents /\ writes \in 0..MaxWrites /\ events \in 0..MaxEvents
    BY <1>1 DEF Init, Contents
  <2>2. content \in [Names -> Contents \cup {Blank}] /\ task \in [Threads -> Task]
    BY IdleTask DEF Init
  <2>3. depth \in 0..Cardinality(Requests)
    <3>1. depth = 0
      BY DEF Init
    <3> QED BY <1>1, <3>1
  <2>4. up \in BOOLEAN /\ crossed \in BOOLEAN /\ printed \in BOOLEAN
    BY DEF Init
  <2> QED BY <1>2, <2>1, <2>2, <2>3, <2>4 DEF TypeOK
<1>4. SoundTasks
  BY DEF Init, SoundTasks, Sound, Restoring, Idle, Threads
<1>5. Restorers = {} /\ Writers = {}
  BY DEF Init, Restorers, Writers, Restoring, Idle, Threads
<1>6. Counted
  BY <1>1, <1>5, FS_EmptySet DEF Init, Counted
<1> QED BY <1>3, <1>4, <1>6 DEF Orderly, Init

LEMMA AloneOrderly ==
  ASSUME Orderly, IntervalAlone
  PROVE  Orderly'
<1> DEFINE n == Len(shelf)
<1>1. /\ shelf \in Seq(Names) /\ n \in Nat /\ n + 1 \in Names
      /\ \A i \in 1..n : shelf[i] \in Names
  BY BackupsAssumption DEF Orderly, TypeOK, IntervalAlone, Names
<1>0. shelf' = [i \in 1..(n + 1) |-> i]
  BY DEF IntervalAlone
<1>2. /\ content' = [f \in Names |-> IF f \in 1..n THEN content[shelf[f]] ELSE Blank]
      /\ task' = [task EXCEPT ![Scheduler].step = "copy", ![Scheduler].file = n + 1]
      /\ UNCHANGED <<live, depth, up, crossed, printed, writes, events>>
  BY DEF IntervalAlone, counters
<1> HIDE DEF n
<1>3. shelf' \in Seq(Names) /\ IsInjective(shelf') /\ Files' = 1..(n + 1)
  <2>1. MaxFiles \in Nat
    BY BackupsAssumption
  <2>2. \A i \in 1..(n + 1) : i \in Names
    BY <1>1, <2>1 DEF Names
  <2>3. shelf' \in Seq(Names)
    BY <1>0, <1>1, <2>2
  <2>4. IsInjective(shelf')
    BY <1>0 DEF IsInjective
  <2>5. Files' = 1..(n + 1)
    BY <1>0 DEF Files, Range
  <2> QED BY <2>3, <2>4, <2>5
<1>4. content' \in [Names -> Contents \cup {Blank}]
  BY <1>1, <1>2 DEF Orderly, TypeOK
<1>5. /\ Scheduler \in Threads
      /\ task \in [Threads -> Task]
      /\ task[Scheduler] = Idle
      /\ \A t \in Threads : t # Scheduler => task[t].step \in {"idle", "commit"}
  BY DEF OnFiles, Orderly, TypeOK, SoundTasks, Sound, IntervalAlone, At, Threads
<1>6. Becomes(Scheduler, "copy", n + 1, NoFile, {})
  BY <1>1, <1>2, <1>5, BeginsBackup, IdleParts DEF Orderly
<1>7. TypeOK'
  BY <1>2, <1>3, <1>4, <1>6 DEF Orderly, TypeOK, Becomes
<1>8. SoundTasks'
  <2>1. Sound(Scheduler)'
    <3>1. content'[n + 1] = Blank
      BY <1>1, <1>2
    <3> QED BY <1>1, <1>6, <3>1 DEF Sound, Restoring, Becomes
  <2>2. ASSUME NEW t \in Threads, t # Scheduler PROVE Sound(t)'
    <3>1. Sound(t) /\ task'[t] = task[t] /\ task[t].step # "copy"
      BY <1>5, <1>6, <2>2 DEF Orderly, SoundTasks, Becomes
    <3> QED BY <3>1, SoundKept
  <2>3. ASSUME NEW t \in Threads, task'[t].step = "copy" PROVE t = Scheduler
    BY <1>5, <1>6, <2>3 DEF Becomes
  <2> QED BY <1>6, <2>1, <2>2, <2>3 DEF SoundTasks, Restoring, Becomes
<1>9. \A f \in (Names \ Files)' : content'[f] = Blank
  BY <1>1, <1>2, <1>3
<1>10. Counted'
  <2>1. \A t \in Requests : t \in Threads /\ t # Scheduler
    BY BackupsAssumption DEF Threads
  <2> QED BY <1>2, <1>5, <1>6, <2>1, CountedKept
       DEF Orderly, Restoring, Idle, Becomes, Disturbed
<1> QED BY <1>7, <1>8, <1>9, <1>10 DEF Orderly

LEMMA BesideOrderly ==
  ASSUME Orderly, IntervalBeside
  PROVE  Orderly'
<1>1. PICK f \in Fresh :
        /\ shelf' = Append(shelf, f)
        /\ task' = [task EXCEPT ![Scheduler].step = "copy", ![Scheduler].file = f]
  BY DEF IntervalBeside
<1>2. UNCHANGED <<live, content, depth, up, crossed, printed, writes>> /\ events' \in 0..MaxEvents
  BY EventCounted, Zenon DEF IntervalBeside, Orderly
<1>3. /\ f \in Names /\ f \notin Files
      /\ \A t \in Threads : task[t].file # f
  BY FreshFile DEF Orderly
<1>4. Scheduler \in Threads /\ task \in [Threads -> Task] /\ task[Scheduler] = Idle
  BY BackupsAssumption DEF Threads, Orderly, TypeOK, SoundTasks, Sound, IntervalBeside, At
<1>5. Becomes(Scheduler, "copy", f, NoFile, {})
  BY <1>1, <1>3, <1>4, BeginsBackup, IdleParts DEF Orderly
<1>6. shelf' \in Seq(Names) /\ IsInjective(shelf') /\ Files' = Files \cup {f}
  BY <1>1, <1>3, AppendLast DEF Orderly, TypeOK, Files
<1>7. TypeOK'
  BY <1>2, <1>5, <1>6 DEF Orderly, TypeOK, Becomes
<1>8. content[f] = Blank
  BY <1>3 DEF Orderly
<1>9. Sound(Scheduler)' /\ ~Restoring(Scheduler)' /\ task'[Scheduler].file = f
  BY <1>2, <1>3, <1>5, <1>8 DEF Sound, Restoring, Becomes
<1>10. SoundTasks'
  BY <1>2, <1>3, <1>4, <1>5, <1>9, TasksKept DEF Orderly, Becomes
<1>11. Counted'
  <2>1. \A t \in Requests : t \in Threads /\ t # Scheduler
    BY BackupsAssumption DEF Threads
  <2> QED BY <1>2, <1>4, <1>5, <2>1, CountedKept
       DEF Orderly, Restoring, Idle, Becomes, Disturbed
<1> QED BY <1>2, <1>6, <1>7, <1>10, <1>11 DEF Orderly

LEMMA AskBackupOrderly ==
  ASSUME Orderly, NEW u \in Requests, AskBackup(u)
  PROVE  Orderly'
<1>1. PICK f \in Fresh :
        /\ shelf' = Append(shelf, f)
        /\ task' = [task EXCEPT ![u].step = "copy", ![u].file = f]
  BY DEF AskBackup
<1>2. UNCHANGED <<live, content, depth, up, crossed, printed, writes>> /\ events' \in 0..MaxEvents
  BY EventCounted, Zenon DEF AskBackup, Orderly
<1>3. /\ f \in Names /\ f \notin Files
      /\ \A t \in Threads : task[t].file # f
  BY FreshFile DEF Orderly
<1>4. u \in Threads /\ u # Scheduler /\ task \in [Threads -> Task] /\ task[u] = Idle
  BY BackupsAssumption DEF Threads, Orderly, TypeOK, SoundTasks, Sound, AskBackup, At
<1>5. Becomes(u, "copy", f, NoFile, {})
  BY <1>1, <1>3, <1>4, BeginsBackup, IdleParts DEF Orderly
<1>6. shelf' \in Seq(Names) /\ IsInjective(shelf') /\ Files' = Files \cup {f}
  BY <1>1, <1>3, AppendLast DEF Orderly, TypeOK, Files
<1>7. TypeOK'
  BY <1>2, <1>5, <1>6 DEF Orderly, TypeOK, Becomes
<1>8. content[f] = Blank
  BY <1>3 DEF Orderly
<1>9. Sound(u)' /\ ~Restoring(u)' /\ task'[u].file = f
  BY <1>2, <1>3, <1>5, <1>8 DEF Sound, Restoring, Becomes
<1>10. SoundTasks'
  BY <1>2, <1>3, <1>4, <1>5, <1>9, TasksKept DEF Orderly, Becomes
<1>11. Counted'
  <2>1. \A t \in Requests : t \in Threads
    BY DEF Threads
  <2> QED BY <1>2, <1>4, <1>5, <2>1, CountedKept
       DEF Orderly, Restoring, Idle, Becomes, Disturbed
<1> QED BY <1>2, <1>6, <1>7, <1>10, <1>11 DEF Orderly

LEMMA AskRestoreOrderly ==
  ASSUME Orderly, NEW u \in Requests, AskRestore(u)
  PROVE  Orderly' /\ (~Disturbed' => Restorers = {})
<1>1. PICK f \in Fresh, selected \in Files :
        /\ shelf' = Append(shelf, f)
        /\ task' = [task EXCEPT ![u].step = "copy", ![u].file = f, ![u].selected = selected]
  BY DEF AskRestore
<1>2. /\ UNCHANGED <<live, content, up, writes>> /\ events' \in 0..MaxEvents
      /\ depth' = depth + 1
      /\ crossed' = (depth > 0 \/ Writers # {}) /\ printed' = printed
  BY EventCounted, Zenon DEF AskRestore, Orderly
<1>3. /\ f \in Names /\ f \notin Files
      /\ \A t \in Threads : task[t].file # f
  BY FreshFile DEF Orderly
<1>4. u \in Threads /\ u # Scheduler /\ task \in [Threads -> Task] /\ task[u] = Idle
  BY BackupsAssumption DEF Threads, Orderly, TypeOK, SoundTasks, Sound, AskRestore, At
<1>5. selected \in Names /\ selected # NoFile
  BY <1>1, FileNames DEF Orderly, Names, NoFile
<1>6. Becomes(u, "copy", f, selected, {})
  BY <1>1, <1>3, <1>4, <1>5, BeginsRestore, IdleParts DEF Orderly
<1>7. shelf' \in Seq(Names) /\ IsInjective(shelf') /\ Files' = Files \cup {f}
  BY <1>1, <1>3, AppendLast DEF Orderly, TypeOK, Files
<1>8. u \notin Restorers /\ Restorers' = Restorers \cup {u} /\ Writers' = Writers
  BY <1>4, <1>5, <1>6 DEF Restorers, Writers, Restoring, Idle, Becomes, Threads
<1>9. /\ IsFiniteSet(Restorers) /\ depth = Cardinality(Restorers)
      /\ Restorers' \in SUBSET Requests /\ depth \in Nat
  BY Counts DEF Orderly, Counted, Restorers
<1>10. depth' = Cardinality(Restorers')
  BY <1>2, <1>8, <1>9, FS_AddElement
<1>11. depth' \in 0..Cardinality(Requests)
  BY <1>2, <1>9, <1>10, BackupsAssumption, FS_Subset, FS_CardinalityType
<1>12. TypeOK'
  <2>1. crossed' \in BOOLEAN /\ printed' \in BOOLEAN
    BY <1>2 DEF Orderly, TypeOK
  <2> QED BY <1>2, <1>6, <1>7, <1>11, <2>1 DEF Orderly, TypeOK, Becomes
<1>13. content[f] = Blank
  BY <1>3 DEF Orderly
<1>14. Sound(u)' /\ task'[u].file = f
  BY <1>2, <1>3, <1>5, <1>6, <1>13 DEF Sound, Restoring, Becomes
<1>15. SoundTasks'
  BY <1>2, <1>3, <1>4, <1>6, <1>14, TasksKept DEF Orderly, Becomes
<1>16. ASSUME ~Disturbed' PROVE Restorers = {} /\ Writers = {}
  <2>1. ~(depth > 0) /\ Writers = {}
    BY <1>2, <1>16, Zenon DEF Disturbed
  <2>2. depth = 0
    BY <1>9, <2>1
  <2> QED BY <1>9, <2>1, <2>2, FS_EmptySet DEF Writers
<1>17. Counted'
  BY <1>2, <1>8, <1>10, <1>16 DEF Orderly, Counted
<1> QED BY <1>2, <1>7, <1>12, <1>15, <1>16, <1>17 DEF Orderly

LEMMA AskWriteOrderly ==
  ASSUME Orderly, NEW u \in Requests, AskWrite(u) \/ AskPrint(u)
  PROVE  Orderly' /\ (~Disturbed' => Restorers' = {})
<1>0. task' = [task EXCEPT ![u].step = "commit"]
  BY DEF AskWrite, AskPrint
<1>1. /\ UNCHANGED <<live, shelf, content, depth, up, crossed, writes, events>>
      /\ writes + Cardinality(Writers) < MaxWrites
      /\ task[u].step = "idle"
  BY DEF AskWrite, AskPrint, counters, At
<1>2. u \in Threads /\ u # Scheduler /\ task \in [Threads -> Task] /\ task[u] = Idle
  BY <1>1, BackupsAssumption DEF Threads, Orderly, TypeOK, SoundTasks, Sound
<1>3. Becomes(u, "commit", NoFile, NoFile, {})
  BY <1>0, <1>2, "commit" \in Steps, MovesOn, IdleParts DEF Orderly, Steps
<1>4. printed' \in BOOLEAN /\ (~Disturbed' => depth = 0)
  <2>1. depth \in Nat /\ printed \in BOOLEAN
    BY Counts DEF Orderly, Counted, TypeOK
  <2>2. CASE AskWrite(u)
    BY <2>1, <2>2 DEF AskWrite, Admitted
  <2>3. CASE AskPrint(u)
    <3>1. printed' = (depth > 0)
      BY <2>3 DEF AskPrint
    <3>2. ~Disturbed' => ~(depth > 0)
      BY <3>1, Zenon DEF Disturbed
    <3>3. printed' \in BOOLEAN
      BY <3>1
    <3> QED BY <2>1, <3>2, <3>3
  <2> QED BY <2>2, <2>3
<1>5. TypeOK'
  BY <1>1, <1>3, <1>4 DEF Orderly, TypeOK, Becomes
<1>6. Sound(u)'
  BY <1>3 DEF Sound, Restoring, Becomes
<1>7. SoundTasks'
  BY <1>1, <1>2, <1>3, <1>6, TasksKept DEF Orderly, Becomes
<1>8. Restorers' = Restorers /\ Writers' = Writers \cup {u} /\ u \notin Writers
  BY <1>2, <1>3 DEF Restorers, Writers, Restoring, Idle, Becomes, Threads
<1>9. IsFiniteSet(Writers) /\ Cardinality(Writers) \in Nat
  BY Counts DEF Orderly
<1>10. Cardinality(Writers') = Cardinality(Writers) + 1
  BY <1>8, <1>9, FS_AddElement
<1>11. writes \in Nat /\ MaxWrites \in Nat
  BY BackupsAssumption DEF Orderly, TypeOK
<1>12. writes' + Cardinality(Writers') <= MaxWrites
  BY <1>1, <1>9, <1>10, <1>11
<1>13. depth' = Cardinality(Restorers')
  BY <1>1, <1>8 DEF Orderly, Counted
<1>14. ~Disturbed' => Restorers' = {} /\ ~(depth' > 0)
  BY <1>1, <1>4, <1>8, Counts DEF Orderly, Counted
<1>15. Counted'
  BY <1>12, <1>13, <1>14 DEF Counted
<1> QED BY <1>1, <1>5, <1>7, <1>14, <1>15 DEF Orderly, Files

\* The data of a state, without what the threads are doing.
DataTyped ==
  /\ live \in Contents \cup {Blank}
  /\ shelf \in Seq(Names) /\ IsInjective(shelf)
  /\ content \in [Names -> Contents \cup {Blank}]
  /\ up \in BOOLEAN
  /\ writes \in 0..MaxWrites /\ events \in 0..MaxEvents
  /\ \A f \in Names \ Files : content[f] = Blank

LEMMA OrderlyData == Orderly => DataTyped
BY DEF Orderly, TypeOK, DataTyped

LEMMA EndOrderly ==
  ASSUME Orderly, NEW u \in Threads, End(u), DataTyped',
         \A f \in Names : content[f] = Blank => content'[f] = Blank,
         writes' + Cardinality(Writers') <= MaxWrites
  PROVE  Orderly'
<1>1. task' \in [Threads -> Task]
  BY EndTasks DEF Orderly
<1>2. depth' \in 0..Cardinality(Requests) /\ crossed' \in BOOLEAN
      /\ printed' \in BOOLEAN /\ Counted'
  BY EndCounts DEF Orderly
<1>3. SoundTasks'
  BY EndSound DEF Orderly
<1> QED BY <1>1, <1>2, <1>3 DEF Orderly, TypeOK, DataTyped

LEMMA EndWritesLess ==
  ASSUME Orderly, NEW u \in Threads, End(u)
  PROVE  /\ Writers' = Writers \ {u}
         /\ Cardinality(Writers) \in Nat
         /\ Cardinality(Writers') = IF u \in Writers THEN Cardinality(Writers) - 1
                                    ELSE Cardinality(Writers)
         /\ writes + Cardinality(Writers') <= MaxWrites
<1>1. Writers' = Writers \ {u}
  BY EndTasks, IdleParts DEF Orderly, Writers, Threads
<1>2. /\ IsFiniteSet(Writers) /\ Cardinality(Writers) \in Nat
      /\ writes + Cardinality(Writers) <= MaxWrites
  BY Counts DEF Orderly, Counted
<1>3. writes \in Nat /\ MaxWrites \in Nat
  BY BackupsAssumption DEF Orderly, TypeOK
<1>4. Cardinality(Writers') = IF u \in Writers THEN Cardinality(Writers) - 1
                              ELSE Cardinality(Writers)
  BY <1>1, <1>2, FS_RemoveElement
<1> QED BY <1>1, <1>2, <1>3, <1>4

\* A step that ends without a commit.
LEMMA EndPlainOrderly ==
  ASSUME Orderly, NEW u \in Threads, End(u), writes' = writes, DataTyped',
         \A f \in Names : content[f] = Blank => content'[f] = Blank
  PROVE  Orderly'
BY EndOrderly, EndWritesLess

LEMMA CommitOrderly ==
  ASSUME Orderly, NEW u \in Threads, Commit(u)
  PROVE  Orderly'
<1>1. /\ writes' = writes + 1 /\ live' = writes' + 1
      /\ End(u)
      /\ UNCHANGED <<shelf, content, up, events>>
      /\ task[u].step = "commit"
  BY DEF Commit, At
<1>2. u \in Requests
  BY <1>1 DEF Orderly, SoundTasks, Threads
<1>3. u \in Writers
  BY <1>1, <1>2 DEF Writers
<1>4. writes' + Cardinality(Writers') <= MaxWrites /\ writes' \in 0..MaxWrites
  <2>1. writes \in Nat /\ MaxWrites \in Nat
    BY BackupsAssumption DEF Orderly, TypeOK
  <2>2. /\ Cardinality(Writers) \in Nat
        /\ Cardinality(Writers') = Cardinality(Writers) - 1
    BY <1>1, <1>3, EndWritesLess
  <2>3. Cardinality(Writers') \in Nat
    <3>1. IsFiniteSet(Writers)
      BY Counts DEF Orderly
    <3>2. Writers' \in SUBSET Writers
      BY <1>1, EndWritesLess
    <3> QED BY <3>1, <3>2, FS_Subset, FS_CardinalityType
  <2>4. writes + Cardinality(Writers) <= MaxWrites
    BY DEF Orderly, Counted
  <2> QED BY <1>1, <2>1, <2>2, <2>3, <2>4
<1>5. live' \in Contents
  BY <1>1, <1>4, BackupsAssumption DEF Contents
<1>6. DataTyped'
  BY <1>1, <1>4, <1>5, OrderlyData DEF DataTyped, Files
<1> QED BY <1>1, <1>4, <1>6, EndOrderly

LEMMA FailCopyOrderly ==
  ASSUME Orderly, NEW u \in Threads, FailCopy(u)
  PROVE  Orderly'
<1>1. /\ End(u)
      /\ UNCHANGED <<live, shelf, content, up, writes>>
      /\ events < MaxEvents /\ events' = events + 1
  BY DEF FailCopy
<1>2. events' \in 0..MaxEvents
  BY <1>1, EventCounted DEF Orderly
<1>3. DataTyped'
  BY <1>1, <1>2, OrderlyData DEF DataTyped, Files
<1> QED BY <1>1, <1>3, EndPlainOrderly

LEMMA FailListOrderly ==
  ASSUME Orderly, NEW u \in Threads, FailList(u)
  PROVE  Orderly'
<1>1. End(u) /\ UNCHANGED <<live, shelf, content, up, writes, events>>
  BY DEF FailList, counters
<1>2. DataTyped'
  BY <1>1, OrderlyData DEF DataTyped, Files
<1> QED BY <1>1, <1>2, EndPlainOrderly

LEMMA PruneOrderly ==
  ASSUME Orderly, NEW u \in Threads, Prune(u)
  PROVE  Orderly'
<1> DEFINE R == task[u].surplus
<1>1. /\ shelf' = Without(shelf, R)
      /\ content' = [f \in Names |-> IF f \in R THEN Blank ELSE content[f]]
      /\ End(u)
      /\ UNCHANGED <<live, up, writes, events>>
  BY DEF Prune, counters
<1>2. DataTyped
  BY OrderlyData
<1>3. shelf' \in Seq(Names) /\ IsInjective(shelf') /\ Files' = Files \ R
  BY <1>1, <1>2, WithoutRest DEF DataTyped, Files
<1> HIDE DEF R
<1>4. content' \in [Names -> Contents \cup {Blank}]
  BY <1>1, <1>2 DEF DataTyped
<1>5. \A f \in (Names \ Files)' : content'[f] = Blank
  BY <1>1, <1>2, <1>3 DEF DataTyped
<1>6. DataTyped'
  BY <1>1, <1>2, <1>3, <1>4, <1>5 DEF DataTyped
<1>7. \A f \in Names : content[f] = Blank => content'[f] = Blank
  BY <1>1
<1> QED BY <1>1, <1>6, <1>7, EndPlainOrderly

LEMMA ReplaceOrderly ==
  ASSUME Orderly, NEW u \in Threads, Replace(u)
  PROVE  Orderly'
<1> DEFINE f == task[u].selected
<1>1. /\ shelf' = IF f \in Files THEN shelf ELSE Append(shelf, f)
      /\ live' = content[f]
      /\ End(u)
      /\ UNCHANGED <<content, up, writes, events>>
      /\ task[u].step = "replace"
  BY DEF Replace, counters, At
<1>2. DataTyped
  BY OrderlyData
<1>3. f \in Names
  BY <1>1 DEF Orderly, SoundTasks, Sound, Restoring, TypeOK, Task
<1> HIDE DEF f
<1>4. shelf' \in Seq(Names) /\ IsInjective(shelf') /\ Files' = Files \cup {f}
  BY <1>1, <1>2, <1>3, AppendLast DEF DataTyped, Files
<1>5. live' \in Contents \cup {Blank}
  BY <1>1, <1>2, <1>3 DEF DataTyped
<1>6. DataTyped'
  BY <1>1, <1>2, <1>4, <1>5 DEF DataTyped
<1> QED BY <1>1, <1>6, EndPlainOrderly

LEMMA CopyOrderly ==
  ASSUME Orderly, NEW u \in Threads, Copy(u)
  PROVE  Orderly'
<1> DEFINE f == task[u].file
           step == IF Restoring(u) THEN "replace" ELSE "list"
<1>1. /\ shelf' = Append(Without(shelf, {f}), f)
      /\ content' = [content EXCEPT ![f] = IF f \in Files THEN live ELSE Blank]
      /\ task' = [task EXCEPT ![u].step = step]
      /\ UNCHANGED <<live, depth, up, crossed, printed, writes, events>>
      /\ task[u].step = "copy"
  BY DEF Copy, counters, At
<1>2. DataTyped
  BY OrderlyData
<1>3. /\ f \in Names
      /\ \A t \in Threads : t # u /\ task[t].step = "copy" => task[t].file # f
      /\ task[u].surplus = {}
  BY <1>1 DEF Orderly, SoundTasks, Sound
<1>4. Becomes(u, step, f, task[u].selected, {})
  BY <1>1, <1>3, MovesOn DEF Orderly, Steps
<1> HIDE DEF f, step
<1>5. shelf' \in Seq(Names) /\ IsInjective(shelf') /\ Files' = Files \cup {f}
  BY <1>1, <1>2, <1>3, WithoutRest, AppendLast DEF DataTyped, Files
<1>6. content' \in [Names -> Contents \cup {Blank}]
  BY <1>1, <1>2, <1>3 DEF DataTyped
<1>7. TypeOK'
  BY <1>1, <1>4, <1>5, <1>6 DEF Orderly, TypeOK, Becomes
<1>8. Sound(u)' /\ task'[u].step \in {"list", "replace"}
  BY <1>4 DEF Sound, Restoring, Becomes, step
<1>9. ASSUME NEW t \in Threads, t # u PROVE Sound(t)'
  <2>1. Sound(t) /\ task'[t] = task[t]
    BY <1>4, <1>9 DEF Orderly, SoundTasks, Becomes
  <2>2. task[t].step = "copy" => content'[task[t].file] = Blank
    BY <1>1, <1>2, <1>3, <1>9, <2>1 DEF Sound, DataTyped
  <2> QED BY <2>1, <2>2, SoundKept
<1>10. /\ task'[Scheduler].step \in {"idle", "copy", "list", "prune"}
       /\ ~Restoring(Scheduler)'
  BY <1>4 DEF Orderly, SoundTasks, Becomes, Restoring, Threads, step
<1>11. SoundTasks'
  <2>1. ASSUME NEW t \in Threads, NEW v \in Threads, t # v,
               task'[t].step = "copy", task'[v].step = "copy"
        PROVE  task'[t].file # task'[v].file
    BY <1>4, <1>8, <2>1 DEF Orderly, SoundTasks, Becomes
  <2> QED BY <1>8, <1>9, <1>10, <2>1 DEF SoundTasks
<1>12. \A g \in (Names \ Files)' : content'[g] = Blank
  BY <1>1, <1>2, <1>5 DEF DataTyped
<1>13. Counted'
  <2>1. \A t \in Requests : Restoring(t)' <=> Restoring(t)
    BY <1>4 DEF Restoring, Becomes, Threads
  <2>2. \A t \in Requests : task'[t].step = "commit" <=> task[t].step = "commit"
    BY <1>1, <1>4, <1>8 DEF Becomes, Threads
  <2> QED BY <1>1, <2>1, <2>2, CountedKept DEF Orderly, Disturbed
<1> QED BY <1>7, <1>11, <1>12, <1>13 DEF Orderly

\* A list holds files only, and older ones than the newest.
LEMMA SurplusOlder ==
  ASSUME TypeOK
  PROVE  /\ Surplus \subseteq Files
         /\ Len(shelf) <= Keep => Surplus = {}
         /\ \A h \in Newest : \E j \in DOMAIN shelf :
              /\ h = shelf[j]
              /\ h \notin Surplus
              /\ \A i \in DOMAIN shelf : shelf[i] \in Surplus => i < j
<1>1. /\ Keep \in Nat /\ Len(shelf) \in Nat /\ DOMAIN shelf = 1..Len(shelf)
      /\ IsInjective(shelf)
  BY BackupsAssumption DEF TypeOK
<1>2. \A i \in 1..(Len(shelf) - Keep) : i \in DOMAIN shelf
  BY <1>1
<1>3. Surplus \subseteq Files
  BY <1>2 DEF Surplus, Files, Range
<1>4. ASSUME Len(shelf) <= Keep PROVE Surplus = {}
  <2>1. 1..(Len(shelf) - Keep) = {}
    BY <1>1, <1>4
  <2> QED BY <2>1 DEF Surplus
<1>5. \A i \in DOMAIN shelf : shelf[i] \in Surplus => i <= Len(shelf) - Keep
  <2>1. ASSUME NEW i \in DOMAIN shelf, shelf[i] \in Surplus
        PROVE  i <= Len(shelf) - Keep
    <3>1. PICK k \in 1..(Len(shelf) - Keep) : shelf[i] = shelf[k]
      BY <2>1 DEF Surplus
    <3>2. i = k
      BY <1>1, <1>2, <3>1 DEF IsInjective
    <3> QED BY <3>2
  <2> QED BY <2>1
<1>6. ASSUME NEW h \in Newest
      PROVE  \E j \in DOMAIN shelf :
               /\ h = shelf[j]
               /\ h \notin Surplus
               /\ \A i \in DOMAIN shelf : shelf[i] \in Surplus => i < j
  <2>1. PICK j \in DOMAIN shelf : j > Len(shelf) - Keep /\ h = shelf[j]
    BY DEF Newest
  <2>2. ~(j <= Len(shelf) - Keep)
    BY <1>1, <2>1
  <2>3. h \notin Surplus
    BY <1>5, <2>1, <2>2
  <2>4. \A i \in DOMAIN shelf : i <= Len(shelf) - Keep => i < j
    BY <1>1, <2>1
  <2> QED BY <1>5, <2>1, <2>3, <2>4
<1> QED BY <1>3, <1>4, <1>6

LEMMA ListOrderly ==
  ASSUME Orderly, NEW u \in Threads, List(u)
  PROVE  Orderly'
<1>1. /\ task' = [task EXCEPT ![u].step = "prune", ![u].surplus = Surplus]
      /\ UNCHANGED <<live, shelf, content, depth, up, writes, events>>
      /\ task[u].step = "list"
  BY DEF List, counters, At
<1>2. crossed' = (crossed \/ (depth > 0 /\ Crowded))
  BY DEF List
<1>3. crossed' \in BOOLEAN /\ printed' = printed /\ (Disturbed => Disturbed')
  BY <1>2 DEF List, Disturbed
<1>4. Surplus \in SUBSET Names
  BY FileNames, SurplusOlder DEF Orderly
<1>5. Becomes(u, "prune", task[u].file, task[u].selected, Surplus)
  BY <1>1, <1>4, BeginsPrune DEF Orderly
<1>6. TypeOK'
  BY <1>1, <1>3, <1>5 DEF Orderly, TypeOK, Becomes
<1>7. ~Restoring(u)
  BY <1>1 DEF Orderly, SoundTasks, Sound
<1>8. Sound(u)' /\ ~Restoring(u)'
  BY <1>5, <1>7 DEF Sound, Restoring, Becomes
<1>9. SoundTasks'
  BY <1>1, <1>5, <1>8, TasksKept DEF Orderly, Becomes
<1>10. Counted'
  <2>1. \A t \in Requests : Restoring(t)' <=> Restoring(t)
    BY <1>5 DEF Restoring, Becomes, Threads
  <2>2. \A t \in Requests : task'[t].step = "commit" <=> task[t].step = "commit"
    BY <1>1, <1>5 DEF Becomes, Threads
  <2> QED BY <1>1, <1>3, <2>1, <2>2, CountedKept DEF Orderly
<1> QED BY <1>1, <1>6, <1>9, <1>10 DEF Orderly, Files

LEMMA KillOrderly ==
  ASSUME Orderly, Kill
  PROVE  Orderly'
<1>1. /\ up' = FALSE /\ depth' = 0 /\ crossed' = FALSE /\ printed' = FALSE
      /\ task' = [t \in Threads |-> Idle]
      /\ UNCHANGED <<live, shelf, content, writes>>
      /\ events < MaxEvents /\ events' = events + 1
  BY DEF Kill
<1>2. events' \in 0..MaxEvents
  BY <1>1, EventCounted DEF Orderly
<1>3. Cardinality(Requests) \in Nat /\ writes \in Nat /\ MaxWrites \in Nat
  BY BackupsAssumption, FS_CardinalityType DEF Orderly, TypeOK
<1>4. depth' \in 0..Cardinality(Requests)
  BY <1>1, <1>3
<1>5. task' \in [Threads -> Task]
  BY <1>1, IdleTask
<1>6. TypeOK'
  BY <1>1, <1>2, <1>4, <1>5 DEF Orderly, TypeOK
<1>7. Restorers' = {} /\ Writers' = {}
  BY <1>1, IdleParts DEF Restorers, Writers, Restoring, Threads
<1>8. Counted'
  <2>1. Cardinality(Restorers') = 0 /\ Cardinality(Writers') = 0
    BY <1>7, FS_EmptySet
  <2>2. writes <= MaxWrites
    BY BackupsAssumption DEF Orderly, TypeOK
  <2>3. writes' + Cardinality(Writers') <= MaxWrites
    BY <1>1, <1>3, <2>1, <2>2
  <2> QED BY <1>1, <1>7, <2>1, <2>3 DEF Counted
<1>9. SoundTasks'
  <2>1. ASSUME NEW t \in Threads PROVE task'[t] = Idle /\ Sound(t)'
    BY <1>1, SoundIdle
  <2> QED BY <2>1, IdleParts DEF SoundTasks, Restoring, Threads
<1> QED BY <1>1, <1>6, <1>8, <1>9 DEF Orderly, Files

LEMMA NextOrderly == Orderly /\ [Next]_vars => Orderly'
<1> SUFFICES ASSUME Orderly, [Next]_vars PROVE Orderly'
  OBVIOUS
<1>1. ASSUME NEW t \in Threads, Step(t) PROVE Orderly'
  BY <1>1, CopyOrderly, ListOrderly, FailListOrderly, PruneOrderly, ReplaceOrderly,
     CommitOrderly DEF Step
<1>2. ASSUME NEW t \in Threads, FailCopy(t) PROVE Orderly'
  BY <1>2, FailCopyOrderly
<1>3. ASSUME NEW t \in Requests, Ask(t) PROVE Orderly'
  BY <1>3, AskBackupOrderly, AskRestoreOrderly, AskWriteOrderly DEF Ask
<1>4. CASE Interval
  BY <1>4, AloneOrderly, BesideOrderly DEF Interval
<1>5. CASE Kill
  BY <1>5, KillOrderly
<1>6. CASE Start \/ UNCHANGED vars
  <2>1. /\ UNCHANGED <<live, shelf, content, task, depth, crossed, printed, writes, events>>
        /\ up' \in BOOLEAN
    BY <1>6 DEF Start, vars, counters, Orderly, TypeOK
  <2>2. TypeOK'
    BY <2>1 DEF Orderly, TypeOK
  <2>3. SoundTasks' /\ Counted'
    BY <2>1 DEF Orderly, SoundTasks, Sound, Restoring, Counted, Restorers, Writers,
       Disturbed
  <2> QED BY <2>1, <2>2, <2>3 DEF Orderly, Files
<1> QED BY <1>1, <1>2, <1>3, <1>4, <1>5, <1>6 DEF Next

LEMMA OrderlyAlways == Spec => []Orderly
BY InitOrderly, NextOrderly, PTL DEF Spec

(* The files and what the threads hold of them stay well formed            *)
(* (BackupInfo, create_backup, cleanup_retention).                         *)
THEOREM FilesStayWellFormed == Spec => []TypeOK
BY OrderlyAlways, PTL DEF Orderly

(* However restores overlap, fail or are killed: a backup or a write of a  *)
(* method that maintenance refuses begins only while no restore is under   *)
(* way, and is refused only while one is, with the step before it that     *)
(* ends it (maintenance_mode, whose depth is a count).  It does not say so *)
(* of AskPrint: a page read with GET is let in, and may write.             *)
THEOREM PostsWaitForRestores ==
  Spec =>
    /\ [][\A t \in Requests :
             AskBackup(t) \/ AskWrite(t) => \A r \in Requests : ~Restoring(r)]_vars
    /\ [](~Admitted =>
             \E t \in Requests : Restoring(t) /\ task[t].step \in {"copy", "replace"})
<1>1. Orderly =>
        (depth > 0 <=> \E t \in Requests : Restoring(t) /\ task[t].step \in {"copy", "replace"})
  <2> SUFFICES ASSUME Orderly
               PROVE  depth > 0 <=>
                        \E t \in Requests : Restoring(t) /\ task[t].step \in {"copy", "replace"}
    OBVIOUS
  <2>1. depth > 0 <=> Restorers # {}
    BY Counts DEF Orderly, Counted
  <2>2. ASSUME NEW t \in Requests, Restoring(t)
        PROVE  task[t].step \in {"copy", "replace"}
    <3>1. task[t] \in Task /\ Sound(t)
      BY DEF Orderly, TypeOK, SoundTasks, Threads
    <3>2. task[t].step \in Steps
      BY <3>1 DEF Task
    <3>3. task[t].step # "idle"
      BY <2>2, <3>1 DEF Sound, Restoring, Idle
    <3> QED BY <2>2, <3>1, <3>2, <3>3 DEF Sound, Steps
  <2> QED BY <2>1, <2>2 DEF Restorers
<1>2. Orderly =>
        (~Admitted =>
           \E t \in Requests : Restoring(t) /\ task[t].step \in {"copy", "replace"})
  <2>1. Orderly => depth \in Nat
    BY Counts DEF Orderly, Counted
  <2> QED BY <1>1, <2>1 DEF Admitted
<1>3. Orderly /\ [Next]_vars =>
        [\A t \in Requests :
           AskBackup(t) \/ AskWrite(t) => \A r \in Requests : ~Restoring(r)]_vars
  <2> SUFFICES ASSUME Orderly, NEW t \in Requests, AskBackup(t) \/ AskWrite(t),
                      NEW r \in Requests
               PROVE  ~Restoring(r)
    OBVIOUS
  <2>1. Restorers = {}
    BY Counts DEF AskBackup, AskWrite, Admitted, Orderly, Counted
  <2> QED BY <2>1 DEF Restorers
<1> QED BY <1>2, <1>3, OrderlyAlways, PTL DEF Spec
-----------------------------------------------------------------------------
(* Retention.                                                              *)

LEMMA LastingKept ==
  ASSUME Lasting,
         \A f \in Files : Complete(f) => f \in Files' /\ content'[f] = content[f],
         \A t \in Threads, f \in Files :
           Complete(f) /\ f \in task'[t].surplus => f \in task[t].surplus
  PROVE  Lasting'
BY DEF Lasting, Complete, Doomed, Contents

\* A thread that ends has no list any more.
LEMMA EndSurplus ==
  ASSUME TypeOK, NEW u \in Threads, End(u)
  PROVE  \A t \in Threads : task'[t].surplus \subseteq task[t].surplus
BY EndTasks, IdleParts

LEMMA ListLasting ==
  ASSUME Orderly, NEW u \in Threads, List(u), Lasting, ~Crowded
  PROVE  Lasting'
<1>1. /\ task' = [task EXCEPT ![u].step = "prune", ![u].surplus = Surplus]
      /\ UNCHANGED <<live, shelf, content, depth, up, writes, events>>
  BY DEF List, counters
<1>2. TypeOK /\ Surplus \in SUBSET Names
  BY FileNames, SurplusOlder DEF Orderly
<1>3. Becomes(u, "prune", task[u].file, task[u].selected, Surplus)
  BY <1>1, <1>2, BeginsPrune
<1>4. \A f : Doomed(f)' => Doomed(f) \/ f \in Surplus
  BY <1>3 DEF Doomed, Becomes
<1>5. CASE Len(shelf) <= Keep
  BY <1>1, <1>2, <1>4, <1>5, SurplusOlder DEF Lasting, Complete, Files, Contents
<1>6. CASE ~(Len(shelf) <= Keep)
  <2>1. Len(shelf) > Keep
    BY <1>2, <1>6, BackupsAssumption DEF TypeOK
  <2>2. PICK h \in Newest : Complete(h) /\ ~Doomed(h)
    BY <2>1 DEF Crowded
  <2>3. h \in Files /\ h \notin Surplus
    BY <1>2, SurplusOlder DEF Files, Range
  <2> QED BY <1>1, <1>4, <2>2, <2>3 DEF Lasting, Complete, Files, Contents
<1> QED BY <1>5, <1>6

LEMMA PruneLasting ==
  ASSUME Orderly, NEW u \in Threads, Prune(u), Lasting
  PROVE  Lasting'
<1> DEFINE R == task[u].surplus
<1>1. /\ shelf' = Without(shelf, R)
      /\ content' = [f \in Names |-> IF f \in R THEN Blank ELSE content[f]]
      /\ End(u)
  BY DEF Prune
<1>2. TypeOK /\ Files' = Files \ R
  BY <1>1, WithoutRest DEF Orderly, TypeOK, Files
<1>3. PICK f \in Files : Complete(f) /\ ~Doomed(f)
  BY DEF Lasting
<1>4. f \in Names /\ f \notin R
  BY <1>2, <1>3, FileNames DEF Doomed
<1>5. ~Doomed(f)'
  BY <1>1, <1>2, <1>3, EndSurplus DEF Doomed
<1> QED BY <1>1, <1>2, <1>3, <1>4, <1>5 DEF Lasting, Complete, Contents

LEMMA CopyLasting ==
  ASSUME Orderly, NEW u \in Threads, Copy(u), Lasting
  PROVE  Lasting'
<1> DEFINE f == task[u].file
           step == IF Restoring(u) THEN "replace" ELSE "list"
<1>1. /\ shelf' = Append(Without(shelf, {f}), f)
      /\ content' = [content EXCEPT ![f] = IF f \in Files THEN live ELSE Blank]
      /\ task' = [task EXCEPT ![u].step = step]
      /\ task[u].step = "copy"
  BY DEF Copy, At
<1>2. TypeOK /\ f \in Names /\ content[f] = Blank /\ Files \subseteq Names
  BY <1>1, FileNames DEF Orderly, SoundTasks, Sound
<1>3. Becomes(u, step, f, task[u].selected, task[u].surplus)
  BY <1>1, <1>2, MovesOn DEF Steps
<1> HIDE DEF f, step
<1>4. Files' = Files \cup {f}
  BY <1>1, <1>2, WithoutRest, AppendLast DEF TypeOK, Files
<1>5. ASSUME NEW g \in Files, Complete(g)
      PROVE  g \in Files' /\ content'[g] = content[g]
  <2>1. g # f
    BY <1>2, <1>5 DEF Complete, Contents, Blank
  <2> QED BY <1>1, <1>2, <1>4, <2>1 DEF TypeOK
<1>6. \A t \in Threads : task'[t].surplus = task[t].surplus
  BY <1>3 DEF Becomes
<1> QED BY <1>5, <1>6, LastingKept

LEMMA AloneLasting ==
  ASSUME Orderly, IntervalAlone, Lasting
  PROVE  Lasting'
<1> DEFINE n == Len(shelf)
<1>1. /\ shelf' = [i \in 1..(n + 1) |-> i]
      /\ content' = [f \in Names |-> IF f \in 1..n THEN content[shelf[f]] ELSE Blank]
      /\ task' = [task EXCEPT ![Scheduler].step = "copy", ![Scheduler].file = n + 1]
  BY DEF IntervalAlone
<1>2. PICK f \in Files : Complete(f)
  BY DEF Lasting
<1>3. PICK i \in DOMAIN shelf : shelf[i] = f
  BY DEF Files, Range
<1>4. /\ n \in Nat /\ n < MaxFiles /\ MaxFiles \in Nat /\ i \in 1..n
  BY BackupsAssumption DEF Orderly, TypeOK, IntervalAlone
<1> HIDE DEF n
<1>5. i \in Names /\ i \in 1..(n + 1) /\ n + 1 \in Names
  BY <1>4 DEF Names
<1>6. i \in Files' /\ content'[i] = content[f]
  BY <1>1, <1>3, <1>4, <1>5 DEF Files, Range
<1>7. \A t \in Threads : task[t].surplus = {}
  BY IdleParts DEF Orderly, SoundTasks, Sound, IntervalAlone, At, OnFiles, Threads
<1>8. Becomes(Scheduler, "copy", n + 1, task[Scheduler].selected, {})
  BY <1>1, <1>5, <1>7, BeginsBackup DEF Orderly, Threads
<1>9. ~Doomed(i)'
  BY <1>7, <1>8 DEF Becomes, Doomed
<1> QED BY <1>2, <1>6, <1>9 DEF Lasting, Complete, Contents

LEMMA BesideLasting ==
  ASSUME Orderly, IntervalBeside, Lasting
  PROVE  Lasting'
<1>1. PICK f \in Fresh :
        /\ shelf' = Append(shelf, f)
        /\ task' = [task EXCEPT ![Scheduler].step = "copy", ![Scheduler].file = f]
  BY DEF IntervalBeside
<1>2. TypeOK /\ Scheduler \in Threads /\ f \in Names /\ f \notin Files
  BY FreshFile DEF Orderly, Threads
<1>3. Becomes(Scheduler, "copy", f, task[Scheduler].selected, task[Scheduler].surplus)
  BY <1>1, <1>2, BeginsBackup
<1>4. Files' = Files \cup {f} /\ content' = content
  BY <1>1, <1>2, AppendLast DEF TypeOK, Files, IntervalBeside
<1>5. \A t \in Threads : task'[t].surplus = task[t].surplus
  BY <1>3 DEF Becomes
<1> QED BY <1>4, <1>5, LastingKept

LEMMA AskLasting ==
  ASSUME Orderly, NEW u \in Requests, Ask(u), Lasting
  PROVE  Lasting'
<1>1. TypeOK /\ u \in Threads
  BY DEF Orderly, Threads
<1>2. CASE AskBackup(u)
  <2>1. PICK f \in Fresh :
          /\ shelf' = Append(shelf, f)
          /\ task' = [task EXCEPT ![u].step = "copy", ![u].file = f]
    BY <1>2 DEF AskBackup
  <2>2. f \in Names /\ f \notin Files
    BY <1>1, FreshFile
  <2>3. Becomes(u, "copy", f, task[u].selected, task[u].surplus)
    BY <1>1, <2>1, <2>2, BeginsBackup
  <2>4. Files' = Files \cup {f} /\ content' = content
    BY <1>1, <1>2, <2>1, <2>2, AppendLast DEF TypeOK, Files, AskBackup
  <2>5. \A t \in Threads : task'[t].surplus = task[t].surplus
    BY <2>3 DEF Becomes
  <2> QED BY <2>4, <2>5, LastingKept
<1>3. CASE AskRestore(u)
  <2>1. PICK f \in Fresh, selected \in Files :
          /\ shelf' = Append(shelf, f)
          /\ task' = [task EXCEPT ![u].step = "copy", ![u].file = f, ![u].selected = selected]
    BY <1>3 DEF AskRestore
  <2>2. f \in Names /\ f \notin Files /\ selected \in Names
    BY <1>1, <2>1, FreshFile, FileNames
  <2>3. Becomes(u, "copy", f, selected, task[u].surplus)
    BY <1>1, <2>1, <2>2, BeginsRestore
  <2>4. Files' = Files \cup {f} /\ content' = content
    BY <1>1, <1>3, <2>1, <2>2, AppendLast DEF TypeOK, Files, AskRestore
  <2>5. \A t \in Threads : task'[t].surplus = task[t].surplus
    BY <2>3 DEF Becomes
  <2> QED BY <2>4, <2>5, LastingKept
<1>4. CASE AskWrite(u) \/ AskPrint(u)
  <2>1. task' = [task EXCEPT ![u].step = "commit"] /\ UNCHANGED <<shelf, content>>
    BY <1>4 DEF AskWrite, AskPrint
  <2>2. Becomes(u, "commit", task[u].file, task[u].selected, task[u].surplus)
    BY <1>1, <2>1, MovesOn DEF Steps
  <2>3. \A t \in Threads : task'[t].surplus = task[t].surplus
    BY <2>2 DEF Becomes
  <2> QED BY <2>1, <2>3, LastingKept DEF Files
<1> QED BY <1>2, <1>3, <1>4 DEF Ask

\* A thread that ends and deletes nothing.
LEMMA EndLasting ==
  ASSUME Orderly, NEW u \in Threads,
         FailList(u) \/ FailCopy(u) \/ Replace(u) \/ Commit(u), Lasting
  PROVE  Lasting'
<1>1. End(u) /\ content' = content
  BY DEF FailList, FailCopy, Replace, Commit
<1>2. Files \subseteq Files'
  <2>1. CASE shelf' = shelf
    BY <2>1 DEF Files
  <2>2. CASE Replace(u) /\ shelf' # shelf
    <3>1. shelf' = Append(shelf, task[u].selected) /\ task[u].selected \notin Files
      BY <2>2 DEF Replace
    <3>2. task[u].selected \in Names
      BY <2>2 DEF Replace, At, Orderly, SoundTasks, Sound, Restoring, TypeOK, Task
    <3> QED BY <3>1, <3>2, AppendLast DEF Orderly, TypeOK, Files
  <2> QED BY <2>1, <2>2 DEF FailList, FailCopy, Commit
<1>3. \A t \in Threads : task'[t].surplus \subseteq task[t].surplus
  BY <1>1, EndSurplus DEF Orderly
<1> QED BY <1>1, <1>2, <1>3, LastingKept

LEMMA NextLasting ==
  ASSUME Orderly, [Next]_vars, Lasting
  PROVE  Lasting' \/ Crowded
<1>1. ASSUME NEW t \in Threads, Step(t) \/ FailCopy(t) PROVE Lasting' \/ Crowded
  BY <1>1, CopyLasting, ListLasting, PruneLasting, EndLasting DEF Step
<1>2. ASSUME NEW t \in Requests, Ask(t) PROVE Lasting'
  BY <1>2, AskLasting
<1>3. CASE Interval
  BY <1>3, AloneLasting, BesideLasting DEF Interval
<1>4. CASE Kill
  <2>1. /\ \A t \in Threads : task'[t] = Idle
        /\ UNCHANGED <<shelf, content>>
    BY <1>4 DEF Kill
  <2>2. \A t \in Threads : task'[t].surplus = {}
    BY <2>1, IdleParts
  <2> QED BY <2>1, <2>2, LastingKept DEF Files
<1>5. CASE Start \/ UNCHANGED vars
  <2>1. UNCHANGED <<shelf, content, task>>
    BY <1>5 DEF Start, vars
  <2> QED BY <2>1, LastingKept DEF Files
<1> QED BY <1>1, <1>2, <1>3, <1>4, <1>5 DEF Next

(* Once a complete backup is on no thread's list, one always is, unless a  *)
(* list is made while the newest files are all empty or listed, however    *)
(* retention runs overlap (cleanup_retention).                             *)
THEOREM RetentionKeepsOne == Spec => CompleteRemains
<1>1. Orderly /\ [Next]_vars => [Lasting => Lasting' \/ Crowded]_vars
  BY NextLasting
<1> QED BY <1>1, OrderlyAlways, PTL DEF Spec, CompleteRemains
-----------------------------------------------------------------------------
(* Restore.                                                                *)

\* The file keeps what restore t replaces: it is the safety copy, not yet filled, or
\* holds the content of the database; it is on no list, and all newer files hold that
\* content too or none, so a list that has it leaves one of them.
Guards(t, f) ==
  /\ ~Doomed(f)
  /\ content[f] = live \/ (task[t].step = "copy" /\ f = task[t].file)
  /\ \A i, j \in DOMAIN shelf :
       i < j /\ shelf[i] = f => content[shelf[j]] \in {live, Blank}

Guarded ==
  \A t \in Requests :
    Restoring(t) /\ ~Disturbed /\ live \in Contents => \E f \in Files : Guards(t, f)

IInv == Orderly /\ Guarded

\* What a step that leaves the database and the restore as they are keeps: the file
\* and the order of those after it.
LEMMA GuardsKept ==
  ASSUME TypeOK, NEW t \in Requests, NEW f \in Files, Guards(t, f), live' = live,
         ~Doomed(f)',
         content'[f] = live \/ (task'[t].step = "copy" /\ f = task'[t].file),
         \A a, b \in DOMAIN shelf' : a < b /\ shelf'[a] = f =>
           \/ content'[shelf'[b]] \in {live, Blank}
           \/ /\ content'[shelf'[b]] \in {content[shelf'[b]], Blank}
              /\ \E i, j \in DOMAIN shelf : i < j /\ shelf[i] = f /\ shelf[j] = shelf'[b]
  PROVE  Guards(t, f)'
BY DEF Guards

\* A step of another thread that leaves files and contents.
LEMMA GuardsSame ==
  ASSUME TypeOK, NEW t \in Requests, NEW f \in Files, Guards(t, f),
         UNCHANGED <<live, shelf, content>>, task'[t] = task[t], ~Doomed(f)'
  PROVE  Guards(t, f)'
BY DEF Guards

LEMMA ListGuarded ==
  ASSUME IInv, NEW u \in Threads, List(u)
  PROVE  Guarded'
<1> SUFFICES ASSUME NEW t \in Requests, Restoring(t)', ~Disturbed', live' \in Contents
             PROVE  \E f \in Files' : Guards(t, f)'
  BY DEF Guarded
<1>1. /\ task' = [task EXCEPT ![u].step = "prune", ![u].surplus = Surplus]
      /\ UNCHANGED <<live, shelf, content, depth, up, writes, events>>
      /\ task[u].step = "list"
  BY DEF List, counters, At
<1>2. /\ TypeOK /\ Surplus \in SUBSET Names /\ t \in Threads
      /\ IsInjective(shelf)
  BY FileNames, SurplusOlder DEF IInv, Orderly, TypeOK, Threads
<1>3. Becomes(u, "prune", task[u].file, task[u].selected, Surplus)
  BY <1>1, <1>2, BeginsPrune
<1>4. \A f : Doomed(f)' => Doomed(f) \/ f \in Surplus
  BY <1>3 DEF Doomed, Becomes
<1>5. Restoring(t) /\ t # u
  BY <1>1, <1>2, <1>3 DEF Becomes, Restoring, IInv, Orderly, SoundTasks, Sound
<1>6. ~Disturbed /\ ~(depth > 0 /\ Crowded)
  BY DEF List, Disturbed
<1>7. ~Crowded
  <2>1. t \in Restorers
    BY <1>5 DEF Restorers
  <2>2. depth # 0 /\ depth \in Nat
    BY <1>2, <2>1, Counts DEF IInv, Orderly, Counted
  <2> QED BY <1>6, <2>2
<1>8. PICK g \in Files : Guards(t, g)
  BY <1>1, <1>5, <1>6 DEF IInv, Guarded
<1>9. task'[t] = task[t]
  BY <1>2, <1>3, <1>5 DEF Becomes
<1>10. CASE g \notin Surplus
  <2>1. ~Doomed(g)'
    BY <1>4, <1>8, <1>10 DEF Guards
  <2> QED BY <1>1, <1>2, <1>8, <1>9, <2>1, GuardsSame DEF Files
<1>11. CASE g \in Surplus
  <2>1. Len(shelf) > Keep
    BY <1>2, <1>11, SurplusOlder, BackupsAssumption DEF TypeOK
  <2>2. PICK h \in Newest : Complete(h) /\ ~Doomed(h)
    BY <1>7, <2>1 DEF Crowded
  <2>3. PICK j \in DOMAIN shelf :
          /\ h = shelf[j] /\ h \notin Surplus
          /\ \A i \in DOMAIN shelf : shelf[i] \in Surplus => i < j
    BY <1>2, SurplusOlder
  <2>4. PICK i \in DOMAIN shelf : shelf[i] = g
    BY DEF Files, Range
  <2>5. i < j
    BY <1>11, <2>3, <2>4
  <2>6. content[h] = live
    <3>1. content[h] \in {live, Blank}
      BY <1>8, <2>3, <2>4, <2>5 DEF Guards
    <3> QED BY <2>2, <3>1 DEF Complete, Contents, Blank
  <2>7. h \in Files /\ ~Doomed(h)'
    BY <1>4, <2>2, <2>3 DEF Files, Range
  <2>8. ASSUME NEW a \in DOMAIN shelf, NEW b \in DOMAIN shelf, a < b, shelf[a] = h
        PROVE  content[shelf[b]] \in {live, Blank}
    <3>1. a = j
      BY <1>2, <2>3, <2>8 DEF IsInjective
    <3>2. i < b
      BY <1>2, <2>5, <2>8, <3>1 DEF TypeOK
    <3> QED BY <1>8, <2>4, <3>2 DEF Guards
  <2>9. Guards(t, h)'
    BY <1>1, <2>6, <2>7, <2>8 DEF Guards
  <2> QED BY <1>1, <2>7, <2>9 DEF Files
<1> QED BY <1>10, <1>11

LEMMA CopyGuarded ==
  ASSUME IInv, NEW u \in Threads, Copy(u)
  PROVE  Guarded'
<1> SUFFICES ASSUME NEW t \in Requests, Restoring(t)', ~Disturbed', live' \in Contents
             PROVE  \E f \in Files' : Guards(t, f)'
  BY DEF Guarded
<1>0. PICK f : f = task[u].file
  OBVIOUS
<1> DEFINE step == IF Restoring(u) THEN "replace" ELSE "list"
           rest == Without(shelf, {f})
<1>1. /\ shelf' = Append(rest, f)
      /\ content' = [content EXCEPT ![f] = IF f \in Files THEN live ELSE Blank]
      /\ task' = [task EXCEPT ![u].step = step]
      /\ UNCHANGED <<live, depth, up, crossed, printed, writes, events>>
      /\ task[u].step = "copy"
  BY <1>0 DEF Copy, counters, At
<1>2. /\ TypeOK /\ f \in Names /\ content[f] = Blank /\ Files \subseteq Names
      /\ t \in Threads
      /\ \A v \in Threads : v # u /\ task[v].step = "copy" => task[v].file # f
  BY <1>0, <1>1, FileNames DEF IInv, Orderly, SoundTasks, Sound, Threads
<1>3. Becomes(u, step, f, task[u].selected, task[u].surplus)
  BY <1>0, <1>1, <1>2, MovesOn DEF Steps
<1>4. Restoring(t)
  BY <1>2, <1>3 DEF Becomes, Restoring
<1>5. PICK g \in Files : Guards(t, g)
  BY <1>1, <1>4 DEF IInv, Guarded, Disturbed
<1>6. \A x : Doomed(x)' => Doomed(x)
  BY <1>3 DEF Doomed, Becomes
<1> HIDE DEF step
<1>7. /\ rest \in Seq(Names) /\ f \notin Range(rest)
      /\ \A a, b \in DOMAIN rest : a < b =>
           \E i, j \in DOMAIN shelf : i < j /\ shelf[i] = rest[a] /\ shelf[j] = rest[b]
      /\ \A b \in DOMAIN rest : rest[b] # f /\ rest[b] \in Names
      /\ Range(rest) = Files \ {f}
  <2>1. /\ rest \in Seq(Names)
        /\ Range(rest) = Range(shelf) \ {f}
        /\ \A a, b \in DOMAIN rest : a < b =>
             \E i, j \in DOMAIN shelf : i < j /\ shelf[i] = rest[a] /\ shelf[j] = rest[b]
    <3>1. shelf \in Seq(Names)
      BY <1>2 DEF TypeOK
    <3> QED BY <3>1, WithoutRest
  <2> HIDE DEF rest
  <2>2. \A b \in DOMAIN rest : rest[b] \in Range(rest) /\ rest[b] \in Names
    BY <2>1 DEF Range
  <2> QED BY <2>1, <2>2 DEF Files
<1> HIDE DEF rest
<1>8. /\ Files' = Files \cup {f}
      /\ \A a, b \in DOMAIN shelf' : a < b =>
           /\ a \in DOMAIN rest /\ shelf'[a] = rest[a]
           /\ (b \in DOMAIN rest /\ shelf'[b] = rest[b]) \/ shelf'[b] = f
  BY <1>1, <1>2, <1>7, AppendLast DEF Files
<1>9. content'[f] \in {live, Blank} /\ (f \in Files => content'[f] = live)
  BY <1>1, <1>2 DEF TypeOK
<1>10. CASE g = f
  <2>1. content'[f] = live /\ f \in Files'
    BY <1>8, <1>9, <1>10
  <2>2. \A a, b \in DOMAIN shelf' : a < b => shelf'[a] # f
    BY <1>7, <1>8
  <2>3. ~Doomed(f)'
    BY <1>5, <1>6, <1>10 DEF Guards
  <2>4. Guards(t, f)'
    <3>1. live' = live
      BY <1>1
    <3> QED BY <2>1, <2>2, <2>3, <3>1 DEF Guards
  <2> QED BY <2>1, <2>4
<1>11. CASE g # f
  <2>1. content'[g] = content[g] /\ g \in Files'
    BY <1>1, <1>2, <1>8, <1>11 DEF TypeOK
  <2>2. ~Doomed(g)'
    BY <1>5, <1>6 DEF Guards
  <2>3. content'[g] = live \/ (task'[t].step = "copy" /\ g = task'[t].file)
    <3>1. CASE content[g] = live
      BY <2>1, <3>1
    <3>2. CASE task[t].step = "copy" /\ g = task[t].file
      <4>1. t # u
        BY <1>0, <1>11, <3>2
      <4>2. task'[t] = task[t]
        BY <1>2, <1>3, <4>1 DEF Becomes
      <4> QED BY <3>2, <4>2
    <3> QED BY <1>5, <3>1, <3>2 DEF Guards
  <2>4. ASSUME NEW a \in DOMAIN shelf', NEW b \in DOMAIN shelf', a < b, shelf'[a] = g
        PROVE  \/ content'[shelf'[b]] \in {live, Blank}
               \/ /\ content'[shelf'[b]] \in {content[shelf'[b]], Blank}
                  /\ \E i, j \in DOMAIN shelf : i < j /\ shelf[i] = g /\ shelf[j] = shelf'[b]
    <3>1. CASE shelf'[b] = f
      BY <1>9, <3>1
    <3>2. CASE b \in DOMAIN rest /\ shelf'[b] = rest[b]
      <4>1. rest[b] # f /\ rest[b] \in Names
        BY <1>7, <3>2
      <4>2. content'[rest[b]] = content[rest[b]]
        BY <1>1, <1>2, <4>1 DEF TypeOK
      <4> QED BY <1>7, <1>8, <2>4, <3>2, <4>2
    <3> QED BY <1>8, <2>4, <3>1, <3>2
  <2>5. Guards(t, g)'
    <3>1. live' = live
      BY <1>1
    <3> QED BY <1>2, <1>5, <2>2, <2>3, <2>4, <3>1, GuardsKept
  <2> QED BY <2>1, <2>5
<1> QED BY <1>10, <1>11

LEMMA PruneGuarded ==
  ASSUME IInv, NEW u \in Threads, Prune(u)
  PROVE  Guarded'
<1> SUFFICES ASSUME NEW t \in Requests, Restoring(t)', ~Disturbed', live' \in Contents
             PROVE  \E f \in Files' : Guards(t, f)'
  BY DEF Guarded
<1> DEFINE R == task[u].surplus
<1>1. /\ shelf' = Without(shelf, R)
      /\ content' = [f \in Names |-> IF f \in R THEN Blank ELSE content[f]]
      /\ End(u) /\ live' = live
      /\ UNCHANGED writes
  BY DEF Prune, counters
<1>2. TypeOK /\ Files \subseteq Names /\ t \in Threads
  BY FileNames DEF IInv, Orderly, Threads
<1>3. t \in Restorers /\ t # u /\ (Disturbed' <=> Disturbed)
  BY <1>1, EndCounts, EndWritesLess DEF IInv, Orderly, Restorers
<1>4. PICK g \in Files : Guards(t, g)
  BY <1>1, <1>3 DEF IInv, Guarded, Restorers
<1>5. g \notin R /\ ~Doomed(g)'
  BY <1>1, <1>2, <1>4, EndSurplus DEF Guards, Doomed
<1>6. /\ Files' = Files \ R /\ shelf' \in Seq(Names)
      /\ \A a, b \in DOMAIN shelf' : a < b =>
           \E i, j \in DOMAIN shelf : i < j /\ shelf[i] = shelf'[a] /\ shelf[j] = shelf'[b]
  BY <1>1, <1>2, WithoutRest DEF TypeOK, Files
<1>7. content'[g] = content[g] /\ g \in Files' /\ task'[t] = task[t]
  BY <1>1, <1>2, <1>3, <1>5, <1>6, EndTasks
<1>8. \A b \in DOMAIN shelf' : content'[shelf'[b]] \in {content[shelf'[b]], Blank}
  BY <1>1, <1>6
<1>9. Guards(t, g)'
  <2>1. content'[g] = live \/ (task'[t].step = "copy" /\ g = task'[t].file)
    BY <1>1, <1>4, <1>7 DEF Guards
  <2>2. ASSUME NEW a \in DOMAIN shelf', NEW b \in DOMAIN shelf', a < b, shelf'[a] = g
        PROVE  /\ content'[shelf'[b]] \in {content[shelf'[b]], Blank}
               /\ \E i, j \in DOMAIN shelf : i < j /\ shelf[i] = g /\ shelf[j] = shelf'[b]
    BY <1>6, <1>8, <2>2
  <2>3. live' = live
    BY <1>1
  <2> QED BY <1>2, <1>4, <1>5, <2>1, <2>2, <2>3, GuardsKept
<1> QED BY <1>7, <1>9

LEMMA FailGuarded ==
  ASSUME IInv, NEW u \in Threads, FailCopy(u) \/ FailList(u)
  PROVE  Guarded'
<1> SUFFICES ASSUME NEW t \in Requests, Restoring(t)', ~Disturbed', live' \in Contents
             PROVE  \E f \in Files' : Guards(t, f)'
  BY DEF Guarded
<1>1. End(u) /\ UNCHANGED <<live, shelf, content, writes>>
  BY DEF FailCopy, FailList, counters
<1>2. TypeOK /\ t \in Threads
  BY DEF IInv, Orderly, Threads
<1>3. t \in Restorers /\ t # u /\ (Disturbed' <=> Disturbed)
  BY <1>1, EndCounts, EndWritesLess DEF IInv, Orderly, Restorers
<1>4. PICK g \in Files : Guards(t, g)
  BY <1>1, <1>3 DEF IInv, Guarded, Restorers
<1>5. ~Doomed(g)'
  BY <1>1, <1>2, <1>4, EndSurplus DEF Guards, Doomed
<1>6. task'[t] = task[t]
  BY <1>1, <1>2, <1>3, EndTasks
<1> QED BY <1>1, <1>2, <1>4, <1>5, <1>6, GuardsSame DEF Files

\* While nothing is disturbed one restore runs, and no write.
LEMMA ReplaceGuarded ==
  ASSUME IInv, NEW u \in Threads, Replace(u) \/ Commit(u)
  PROVE  Guarded'
<1> SUFFICES ASSUME NEW t \in Requests, Restoring(t)', ~Disturbed', live' \in Contents
             PROVE  FALSE
  BY DEF Guarded
<1>1. TypeOK /\ SoundTasks /\ Counted
  BY DEF IInv, Orderly
<1>2. End(u) /\ writes' + Cardinality(Writers') <= MaxWrites
  <2>1. Orderly' /\ End(u)
    BY ReplaceOrderly, CommitOrderly DEF IInv, Replace, Commit
  <2> QED BY <2>1 DEF Orderly, Counted
<1>3. t \in Restorers /\ t # u /\ (Disturbed' <=> Disturbed)
  BY <1>1, <1>2, EndCounts DEF Restorers
<1>4. CASE Replace(u)
  <2>1. u \in Restorers
    BY <1>1, <1>4 DEF Replace, At, SoundTasks, Sound, Restorers, Threads
  <2> QED BY <1>1, <1>3, <2>1 DEF Counted
<1>5. CASE Commit(u)
  <2>1. u \in Writers
    BY <1>1, <1>5 DEF Commit, At, SoundTasks, Writers, Threads
  <2>2. depth # 0 /\ depth \in Nat
    BY <1>1, <1>3, Counts DEF Counted
  <2>3. depth > 0
    BY <2>2
  <2> QED BY <1>1, <1>3, <2>1, <2>3 DEF Counted
<1> QED BY <1>4, <1>5

LEMMA AskGuarded ==
  ASSUME IInv, NEW u \in Requests, Ask(u)
  PROVE  Guarded'
<1> SUFFICES ASSUME NEW t \in Requests, Restoring(t)', ~Disturbed', live' \in Contents
             PROVE  \E f \in Files' : Guards(t, f)'
  BY DEF Guarded
<1>1. TypeOK /\ u \in Threads /\ t \in Threads
  BY DEF IInv, Orderly, Threads
<1>2. task[u] = Idle
  BY <1>1 DEF Ask, AskBackup, AskRestore, AskWrite, AskPrint, At, IInv, Orderly, SoundTasks, Sound
<1>3. CASE AskBackup(u)
  <2>1. PICK f \in Fresh :
          /\ shelf' = Append(shelf, f)
          /\ task' = [task EXCEPT ![u].step = "copy", ![u].file = f]
    BY <1>3 DEF AskBackup
  <2>2. f \in Names
    BY <1>1, FreshFile
  <2>3. Becomes(u, "copy", f, NoFile, {})
    BY <1>1, <1>2, <2>1, <2>2, BeginsBackup, IdleParts
  <2>4. t \in Restorers
    BY <1>1, <2>3 DEF Becomes, Restoring, Restorers
  <2>5. Restorers = {}
    BY <1>1, <1>3, Counts DEF AskBackup, Admitted, IInv, Orderly, Counted
  <2> QED BY <2>4, <2>5
<1>4. CASE AskRestore(u)
  <2>1. PICK f \in Fresh, selected \in Files :
          /\ shelf' = Append(shelf, f)
          /\ task' = [task EXCEPT ![u].step = "copy", ![u].file = f, ![u].selected = selected]
    BY <1>4 DEF AskRestore
  <2>2. /\ f \in Names /\ f \notin Files /\ selected \in Names
        /\ \A v \in Threads : f \notin task[v].surplus
    BY <1>1, <2>1, FreshFile, FileNames
  <2>3. Becomes(u, "copy", f, selected, {})
    BY <1>1, <1>2, <2>1, <2>2, BeginsRestore, IdleParts
  <2>4. Restorers = {}
    BY <1>4, AskRestoreOrderly DEF IInv
  <2>5. t = u
    BY <1>1, <2>3, <2>4 DEF Becomes, Restoring, Restorers
  <2>6. /\ Files' = Files \cup {f}
        /\ \A a, b \in DOMAIN shelf' : a < b => shelf'[a] \in Files
    <3>1. /\ Range(shelf') = Range(shelf) \cup {f}
          /\ \A a, b \in DOMAIN shelf' : a < b => a \in DOMAIN shelf /\ shelf'[a] = shelf[a]
      BY <1>1, <2>1, <2>2, AppendLast DEF TypeOK, Files
    <3> QED BY <3>1 DEF Files, Range
  <2>7. ~Doomed(f)'
    BY <2>2, <2>3 DEF Doomed, Becomes
  <2>8. Guards(t, f)'
    BY <2>2, <2>3, <2>5, <2>6, <2>7 DEF Guards, Becomes
  <2> QED BY <2>6, <2>8
<1>5. CASE AskWrite(u) \/ AskPrint(u)
  <2>1. Restorers' = {}
    BY <1>5, AskWriteOrderly DEF IInv
  <2>2. t \in Restorers'
    BY DEF Restorers
  <2> QED BY <2>1, <2>2
<1> QED BY <1>3, <1>4, <1>5 DEF Ask

\* An interval that ends beside a restore adds an empty file.
LEMMA IntervalGuarded ==
  ASSUME IInv, Interval
  PROVE  Guarded'
<1> SUFFICES ASSUME NEW t \in Requests, Restoring(t)', ~Disturbed', live' \in Contents
             PROVE  \E f \in Files' : Guards(t, f)'
  BY DEF Guarded
<1>1. /\ TypeOK /\ Scheduler \in Threads /\ t \in Threads /\ t # Scheduler
      /\ Sound(t)
  BY BackupsAssumption DEF IInv, Orderly, SoundTasks, Threads
<1>2. task'[t] = task[t] /\ UNCHANGED <<live, crossed, printed>>
  BY <1>1 DEF Interval, IntervalAlone, IntervalBeside, TypeOK
<1>3. Restoring(t)
  BY <1>2 DEF Restoring
<1>4. IntervalBeside
  BY <1>1, <1>3, IdleParts DEF Interval, IntervalAlone, OnFiles, Sound, Restoring
<1>5. PICK f \in Fresh :
        /\ shelf' = Append(shelf, f)
        /\ task' = [task EXCEPT ![Scheduler].step = "copy", ![Scheduler].file = f]
  BY <1>4 DEF IntervalBeside
<1>6. f \in Names /\ f \notin Files /\ content' = content
  BY <1>1, <1>4, <1>5, FreshFile DEF IntervalBeside
<1>7. Becomes(Scheduler, "copy", f, task[Scheduler].selected, task[Scheduler].surplus)
  BY <1>1, <1>5, <1>6, BeginsBackup
<1>8. PICK g \in Files : Guards(t, g)
  BY <1>2, <1>3 DEF IInv, Guarded, Disturbed
<1>9. ~Doomed(g)'
  BY <1>7, <1>8 DEF Guards, Doomed, Becomes
<1>10. /\ Files' = Files \cup {f}
       /\ \A a, b \in DOMAIN shelf' : a < b =>
            /\ a \in DOMAIN shelf /\ shelf'[a] = shelf[a]
            /\ (b \in DOMAIN shelf /\ shelf'[b] = shelf[b]) \/ shelf'[b] = f
  BY <1>1, <1>5, <1>6, AppendLast DEF TypeOK, Files
<1>11. content'[f] = Blank
  BY <1>6 DEF IInv, Orderly
<1>12. Guards(t, g)'
  <2>1. content'[g] = live \/ (task'[t].step = "copy" /\ g = task'[t].file)
    BY <1>2, <1>6, <1>8 DEF Guards
  <2>2. ASSUME NEW a \in DOMAIN shelf', NEW b \in DOMAIN shelf', a < b, shelf'[a] = g
        PROVE  \/ content'[shelf'[b]] \in {live, Blank}
               \/ /\ content'[shelf'[b]] \in {content[shelf'[b]], Blank}
                  /\ \E i, j \in DOMAIN shelf : i < j /\ shelf[i] = g /\ shelf[j] = shelf'[b]
    BY <1>6, <1>10, <1>11, <2>2
  <2> QED BY <1>1, <1>2, <1>8, <1>9, <2>1, <2>2, GuardsKept
<1> QED BY <1>10, <1>12

LEMMA InitIInv == Init => IInv
<1> SUFFICES ASSUME Init PROVE IInv
  OBVIOUS
<1>1. \A t \in Requests : ~Restoring(t)
  BY IdleParts DEF Init, Restoring, Threads
<1> QED BY <1>1, InitOrderly DEF IInv, Guarded

LEMMA NextIInv == IInv /\ [Next]_vars => IInv'
<1> SUFFICES ASSUME IInv, [Next]_vars PROVE IInv'
  OBVIOUS
<1>1. Orderly'
  BY NextOrderly DEF IInv
<1>2. ASSUME NEW t \in Threads, Step(t) \/ FailCopy(t) PROVE Guarded'
  BY <1>2, CopyGuarded, ListGuarded, FailGuarded, PruneGuarded, ReplaceGuarded DEF Step
<1>3. ASSUME NEW t \in Requests, Ask(t) PROVE Guarded'
  BY <1>3, AskGuarded
<1>4. ASSUME \A t \in Requests : task'[t] = Idle PROVE Guarded'
  <2>1. \A t \in Requests : ~Restoring(t)'
    BY <1>4, IdleParts DEF Restoring
  <2> QED BY <2>1 DEF Guarded
<1>5. ASSUME Interval PROVE Guarded'
  BY <1>5, IntervalGuarded
<1>6. ASSUME Kill PROVE Guarded'
  BY <1>4, <1>6 DEF Kill, Threads
<1>7. ASSUME Start \/ UNCHANGED vars PROVE Guarded'
  <2>1. UNCHANGED <<live, shelf, content, task, crossed, printed>>
    BY <1>7 DEF Start, vars
  <2>2. Files' = Files /\ \A f : Doomed(f)' <=> Doomed(f)
    BY <2>1 DEF Files, Doomed
  <2>3. \A t \in Requests, f \in Files : Guards(t, f) => Guards(t, f)'
    BY <2>1, <2>2 DEF Guards
  <2> QED BY <2>1, <2>2, <2>3 DEF IInv, Guarded, Restoring, Disturbed
<1>8. Guarded'
  BY <1>2, <1>3, <1>5, <1>6, <1>7 DEF Next
<1> QED BY <1>1, <1>8 DEF IInv

(* A restore replaces only a content that some backup file holds, unless a *)
(* write or another restore was under way when it began, a page printed    *)
(* for the first time was asked for beside it or a list was crowded        *)
(* beside it (restore_backup, block_writes_during_maintenance,             *)
(* cleanup_retention).                                                     *)
THEOREM RestoreReplacesSaved == Spec => ReplacesWhatIsSaved
<1>1. ASSUME IInv, NEW t \in Requests, Replace(t)
      PROVE  (\E f \in Files : content[f] = live) \/ crossed \/ printed \/ live \notin Contents
  <2>1. Restoring(t) /\ task[t].step = "replace"
    BY <1>1 DEF Replace, At, IInv, Orderly, SoundTasks, Sound, Threads
  <2>2. CASE ~Disturbed /\ live \in Contents
    <3>1. PICK f \in Files : Guards(t, f)
      BY <1>1, <2>1, <2>2 DEF IInv, Guarded
    <3> QED BY <2>1, <3>1 DEF Guards
  <2> QED BY <2>2 DEF Disturbed
<1>2. Spec => []IInv
  BY InitIInv, NextIInv, PTL DEF Spec
<1>3. IInv /\ [Next]_vars =>
        [\A t \in Requests : Replace(t) =>
           \/ \E f \in Files : content[f] = live
           \/ crossed \/ printed \/ live \notin Contents]_vars
  BY <1>1
<1> QED BY <1>2, <1>3, PTL DEF Spec, ReplacesWhatIsSaved
=============================================================================
