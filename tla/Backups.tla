------------------------------ MODULE Backups ------------------------------
(***************************************************************************)
(* Backup files of the running program: the scheduler's thread, backups    *)
(* asked for on the page, retention, restore under maintenance mode, and   *)
(* the requests that go on writing meanwhile.                              *)
(*                                                                         *)
(* A step is what one thread does between two points where another matters *)
(* to it: a file is created, filled and checked, the directory is listed,  *)
(* what the list has too many is deleted, the database is replaced.  The   *)
(* audit rows of the two routes are not part of a content.                 *)
(***************************************************************************)
EXTENDS Integers, Sequences, FiniteSets, Functions

CONSTANTS Requests,      \* requests the thread pool runs at once
          Keep,          \* backup_retention_count
          MaxFiles,      \* bound: backup files there or still referred to
          MaxWrites,     \* bound: commits of other requests
          MaxEvents      \* bound: requests for a backup or a restore, intervals that end
                         \* beside them, failed copies and killed processes

Scheduler == "scheduler"

ASSUME BackupsAssumption ==
  /\ IsFiniteSet(Requests) /\ Scheduler \notin Requests
  /\ Keep \in Nat \ {0} /\ MaxFiles \in Nat
  /\ MaxWrites \in Nat /\ MaxEvents \in Nat

Threads == Requests \cup {Scheduler}
Names == 1..MaxFiles             \* names of backup files
NoFile == 0
Blank == 0                       \* content of a database without a table
Contents == 1..(MaxWrites + 1)   \* contents are numbered as they are committed

VARIABLES live,      \* content of the database file
          shelf,     \* names of the backup files, by time of last change
          content,   \* content of each backup file
          task,      \* what each thread is doing
          depth,     \* _maintenance_depth
          up,        \* the program runs
          crossed,   \* a restore runs that began beside a write or another restore,
                     \* or beside which a list of files was crowded
          printed,   \* a restore runs, and since then a page was asked for that is
                     \* printed for the first time
          writes, events

vars == <<live, shelf, content, task, depth, up, crossed, printed, writes, events>>
counters == <<writes, events>>

Steps == {"idle", "copy", "list", "prune", "replace", "commit"}
Task == [step : Steps, file : Names \cup {NoFile}, selected : Names \cup {NoFile},
         surplus : SUBSET Names]
Idle == [step |-> "idle", file |-> NoFile, selected |-> NoFile, surplus |-> {}]

Files == Range(shelf)
Newest == {shelf[i] : i \in {j \in DOMAIN shelf : j > Len(shelf) - Keep}}
Complete(f) == content[f] \in Contents

\* Some thread is about to delete the file.
Doomed(f) == \E t \in Threads : f \in task[t].surplus

\* More files than are kept, and among the newest none that is a complete backup and
\* stays: they are empty (being filled, cut off, failed) or on another thread's list.
Crowded == Len(shelf) > Keep /\ \A f \in Newest : ~Complete(f) \/ Doomed(f)

TypeOK ==
  /\ live \in Contents \cup {Blank}
  /\ shelf \in Seq(Names) /\ IsInjective(shelf)
  /\ content \in [Names -> Contents \cup {Blank}]
  /\ task \in [Threads -> Task]
  /\ depth \in 0..Cardinality(Requests)
  /\ up \in BOOLEAN /\ crossed \in BOOLEAN /\ printed \in BOOLEAN
  /\ writes \in 0..MaxWrites /\ events \in 0..MaxEvents

Init ==
  /\ live = 1
  /\ shelf = <<>>
  /\ content = [f \in Names |-> Blank]
  /\ task = [t \in Threads |-> Idle]
  /\ depth = 0
  /\ up = TRUE /\ crossed = FALSE /\ printed = FALSE
  /\ writes = 0 /\ events = 0
-----------------------------------------------------------------------------
\* A list without some of its files, in the same order.
Without(s, R) ==
  LET kept == {i \in DOMAIN s : s[i] \notin R}
      nth(k) == CHOOSE i \in kept : Cardinality({j \in kept : j <= i}) = k
  IN [k \in 1..Cardinality(kept) |-> s[nth(k)]]

At(t, step) == up /\ task[t].step = step
Restoring(t) == task[t].selected # NoFile
OnFiles(t) == task[t].step \notin {"idle", "commit"}

\* Requests that will commit.
Writers == {t \in Requests : task[t].step = "commit"}

\* A name no file has and no thread still holds; in the code, a timestamp.
Fresh ==
  LET free == Names \ (Files \cup UNION {{task[t].file, task[t].selected} \cup task[t].surplus
                                          : t \in Threads})
  IN {f \in free : \A g \in free : f <= g}

\* Mutant: maintenance ends after a restore that succeeds only (no try/finally).
EndOnSuccess(t) ==
  /\ task' = [task EXCEPT ![t] = Idle]
  /\ depth' = IF Restoring(t) /\ task[t].step = "replace" THEN depth - 1 ELSE depth
  /\ crossed' = (crossed /\ depth' > 0)
  /\ printed' = (printed /\ depth' > 0)

\* Mutant: maintenance is also ended by threads that did not begin it.
EndAlways(t) ==
  /\ task' = [task EXCEPT ![t] = Idle]
  /\ depth' = depth - 1
  /\ crossed' = (crossed /\ depth' > 0)
  /\ printed' = (printed /\ depth' > 0)

\* The thread is done; maintenance_mode ends however the restore ends.
End(t) ==
  /\ task' = [task EXCEPT ![t] = Idle]
  /\ depth' = IF Restoring(t) THEN depth - 1 ELSE depth
  /\ crossed' = (crossed /\ depth' > 0)
  /\ printed' = (printed /\ depth' > 0)
-----------------------------------------------------------------------------
(* Where work comes from.                                                  *)

\* The interval of the scheduler's loop is over.  While no request works on files, their
\* names, which only tell them apart, are numbered anew.
IntervalAlone ==
  /\ At(Scheduler, "idle")
  /\ \A t \in Requests : ~OnFiles(t)
  /\ Len(shelf) < MaxFiles
  /\ LET n == Len(shelf)
     IN /\ shelf' = [i \in 1..(n + 1) |-> i]
        /\ content' = [f \in Names |-> IF f \in 1..n THEN content[shelf[f]] ELSE Blank]
        /\ task' = [task EXCEPT ![Scheduler].step = "copy", ![Scheduler].file = n + 1]
  /\ UNCHANGED <<live, depth, up, crossed, printed, counters>>

\* It is over while a request backs up or restores; the loop does not look.
IntervalBeside ==
  /\ At(Scheduler, "idle")
  /\ \E t \in Requests : OnFiles(t)
  /\ events < MaxEvents
  /\ events' = events + 1
  /\ \E f \in Fresh :
       /\ shelf' = Append(shelf, f)
       /\ task' = [task EXCEPT ![Scheduler].step = "copy", ![Scheduler].file = f]
  /\ UNCHANGED <<live, content, depth, up, crossed, printed, writes>>

Interval == IntervalAlone \/ IntervalBeside

\* Mutant: requests are let through during maintenance.
AdmittedAlways == TRUE

\* block_writes_during_maintenance, when a request of another method than GET, HEAD
\* and OPTIONS arrives; restores are let in.
Admitted == depth = 0

AskBackup(t) ==
  /\ At(t, "idle") /\ Admitted
  /\ events < MaxEvents
  /\ events' = events + 1
  /\ \E f \in Fresh :
       /\ shelf' = Append(shelf, f)
       /\ task' = [task EXCEPT ![t].step = "copy", ![t].file = f]
  /\ UNCHANGED <<live, content, depth, up, crossed, printed, writes>>

\* restore_backup validates the selected file and begins its safety copy.  A file the
\* program was stopped or failed before filling is valid: it is an empty database.
AskRestore(t) ==
  /\ At(t, "idle")
  /\ events < MaxEvents
  /\ events' = events + 1
  /\ \E f \in Fresh, selected \in Files :
       /\ shelf' = Append(shelf, f)
       /\ task' = [task EXCEPT ![t].step = "copy", ![t].file = f, ![t].selected = selected]
  /\ depth' = depth + 1
  /\ crossed' = (depth > 0 \/ Writers # {})
  /\ UNCHANGED <<live, content, up, printed, writes>>

\* A request that writes, of a method that maintenance refuses.
AskWrite(t) ==
  /\ At(t, "idle") /\ Admitted
  /\ writes + Cardinality(Writers) < MaxWrites
  /\ task' = [task EXCEPT ![t].step = "commit"]
  /\ UNCHANGED <<live, shelf, content, depth, up, crossed, printed, counters>>

\* A page is printed for the first time: a GET that writes (the document's number, the
\* printed text; here in one commit), and that maintenance does not refuse.  It stands
\* for every page that writes, such as those that insert missing default rows.
AskPrint(t) ==
  /\ At(t, "idle")
  /\ writes + Cardinality(Writers) < MaxWrites
  /\ task' = [task EXCEPT ![t].step = "commit"]
  /\ printed' = (depth > 0)
  /\ UNCHANGED <<live, shelf, content, depth, up, crossed, counters>>

Commit(t) ==
  /\ At(t, "commit")
  /\ writes' = writes + 1
  /\ live' = writes' + 1
  /\ End(t)
  /\ UNCHANGED <<shelf, content, up, events>>
-----------------------------------------------------------------------------
(* create_backup: the file is filled in one transaction, then checked.     *)

\* The filled file is the newest.  A file deleted meanwhile is filled and lost: the
\* check opens, and so creates, an empty one.
Copy(t) ==
  LET f == task[t].file
  IN /\ At(t, "copy")
     /\ shelf' = Append(Without(shelf, {f}), f)
     /\ content' = [content EXCEPT ![f] = IF f \in Files THEN live ELSE Blank]
     /\ task' = [task EXCEPT ![t].step = IF Restoring(t) THEN "replace" ELSE "list"]
     /\ UNCHANGED <<live, depth, up, crossed, printed, counters>>

\* The copy fails (disk full).  The file stays, empty; run_once keeps the error and
\* waits for the next interval, a request answers an error.
FailCopy(t) ==
  /\ At(t, "copy")
  /\ events < MaxEvents
  /\ events' = events + 1
  /\ End(t)
  /\ UNCHANGED <<live, shelf, content, up, writes>>
-----------------------------------------------------------------------------
(* cleanup_retention: the files by time, then each beyond the newest Keep. *)

\* Mutant: the list is not reversed, the newest are beyond the first Keep.
SurplusNewest == {shelf[i] : i \in {j \in DOMAIN shelf : j > Keep}}

\* Mutant: the slice keeps what it should delete.
SurplusKept == {shelf[i] : i \in {j \in DOMAIN shelf : j > Len(shelf) - Keep}}

Surplus == {shelf[i] : i \in 1..(Len(shelf) - Keep)}

List(t) ==
  /\ At(t, "list")
  /\ task' = [task EXCEPT ![t].step = "prune", ![t].surplus = Surplus]
  /\ crossed' = (crossed \/ (depth > 0 /\ Crowded))
  /\ UNCHANGED <<live, shelf, content, depth, up, printed, counters>>

\* Another thread deletes a file between its name and its time being read:
\* FileNotFoundError, and nothing is deleted.
FailList(t) ==
  /\ At(t, "list")
  /\ \E other \in Threads : task[other].surplus \cap Files # {}
  /\ End(t)
  /\ UNCHANGED <<live, shelf, content, up, counters>>

Prune(t) ==
  /\ At(t, "prune")
  /\ shelf' = Without(shelf, task[t].surplus)
  /\ content' = [f \in Names |-> IF f \in task[t].surplus THEN Blank ELSE content[f]]
  /\ End(t)
  /\ UNCHANGED <<live, up, counters>>
-----------------------------------------------------------------------------
\* The selected file is opened again, and created empty when it is gone.
Replace(t) ==
  /\ At(t, "replace")
  /\ shelf' = IF task[t].selected \in Files THEN shelf ELSE Append(shelf, task[t].selected)
  /\ live' = content[task[t].selected]
  /\ End(t)
  /\ UNCHANGED <<content, up, counters>>

\* The process is killed, or stops before its daemon thread has ended.
Kill ==
  /\ up
  /\ events < MaxEvents
  /\ events' = events + 1
  /\ up' = FALSE
  /\ task' = [t \in Threads |-> Idle]
  /\ depth' = 0
  /\ crossed' = FALSE /\ printed' = FALSE
  /\ UNCHANGED <<live, shelf, content, writes>>

Start ==
  /\ ~up
  /\ up' = TRUE
  /\ UNCHANGED <<live, shelf, content, task, depth, crossed, printed, counters>>

Step(t) == Copy(t) \/ List(t) \/ FailList(t) \/ Prune(t) \/ Replace(t) \/ Commit(t)

Ask(t) == AskBackup(t) \/ AskRestore(t) \/ AskWrite(t) \/ AskPrint(t)

Next ==
  \/ \E t \in Threads : Step(t) \/ FailCopy(t)
  \/ \E t \in Requests : Ask(t)
  \/ Interval \/ Kill \/ Start

\* Threads run on, an interval of a running program ends, docker-compose starts
\* the program again.
Fairness ==
  /\ \A t \in Threads : WF_vars(Step(t))
  /\ WF_vars(Interval) /\ WF_vars(Start)

Spec == Init /\ [][Next]_vars /\ Fairness
-----------------------------------------------------------------------------
(* However retention runs of the scheduler and of requests overlap on      *)
(* lists that are out of date: once a complete backup is on no thread's    *)
(* list, one always is, unless a list is made while the newest Keep files  *)
(* are all empty or on another thread's list (cleanup_retention deletes    *)
(* the files beyond the newest Keep of its own list).                      *)
Lasting == \E f \in Files : Complete(f) /\ ~Doomed(f)

CompleteRemains == [][Lasting => Lasting' \/ Crowded]_vars

(* A restore replaces only a content that some backup file holds, unless a *)
(* write or another restore was under way when it began, a page that is    *)
(* printed for the first time was asked for beside it, the newest files    *)
(* were all empty or listed when another thread's list was made beside it, *)
(* or the database holds no content (restore_backup's before_restore copy, *)
(* block_writes_during_maintenance, which lets GET through,                *)
(* cleanup_retention).                                                     *)
ReplacesWhatIsSaved ==
  [][\A t \in Requests : Replace(t) =>
       \/ \E f \in Files : content[f] = live
       \/ crossed \/ printed \/ live \notin Contents]_vars

(* README.md:325: "Restore creates a safety backup before replacing the    *)
(* current database", so that what it replaces is in a file.  A page that  *)
(* was asked for beside the restore is not excused: its first print is a   *)
(* write by GET, which block_writes_during_maintenance lets through.       *)
SafetyBackupIsCurrent ==
  [][\A t \in Requests : Replace(t) =>
       \/ \E f \in Files : content[f] = live
       \/ crossed \/ live \notin Contents]_vars

(* Maintenance mode ends, whether the restore succeeds, does not find its  *)
(* file or fails, also when restores overlap (maintenance_mode).           *)
MaintenanceEnds == depth > 0 ~> depth = 0

(* A content the database is left with is, from some moment on, always     *)
(* held by a backup file: the scheduler goes on after its own errors, other*)
(* threads' retention and restarts, and retention keeps the newest         *)
(* (run_once, _run_loop, lifespan, cleanup_retention).                     *)
ContentIsBackedUp ==
  \A c \in Contents :
    <>[](live = c) => <>[](\E f \in Files : content[f] = c)
=============================================================================
