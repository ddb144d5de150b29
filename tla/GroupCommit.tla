---------------------------- MODULE GroupCommit ----------------------------
(***************************************************************************)
(* Group commit on the write-ahead log: `Commits` and `Marks` of           *)
(* zu-zu1/src/wal.rs, as the write path of zu/src/session.rs drives them.  *)
(*                                                                         *)
(* A writer holding the write side stages its frames, gives the side back  *)
(* and waits in sync_through for the log to reach the platter.  One waiter *)
(* leads the sync; the others sleep on the condition variable.  A step is  *)
(* one critical section of the marks mutex, so a sync is in the air while  *)
(* other writers stage, wait, or checkpoint and cut the log.               *)
(***************************************************************************)
EXTENDS Integers, FiniteSets

CONSTANTS
  Writers,      \* connections that write
  NoWriter,     \* nobody holds the write side
  MaxSize,      \* bound: bytes one flush appends, at least 1
  MaxLen,       \* bound: bytes the log may hold; also the reserved room
  MaxCommits,   \* bound: commits staged over the whole behaviour
  MaxCuts,      \* bound: checkpoints that fold the log away
  MaxFails      \* bound: syncs the disk refuses

ASSUME WriterAssumption == NoWriter \notin Writers /\ IsFiniteSet(Writers)
ASSUME BoundAssumption ==
  /\ MaxSize \in Nat /\ MaxLen \in Nat /\ MaxCommits \in Nat
  /\ MaxCuts \in Nat /\ MaxFails \in Nat

VARIABLES
  side,      \* the writer holding the write side, or NoWriter
  pc,        \* where each writer is, see TypeOK
  need,      \* the byte each writer's sync_through waits for
  counted,   \* whether that call has been counted in `waiting`
  target,    \* how far the sync a leader issues goes
  len,       \* Wal::len, bytes of frames written to the file
  staged, durable, running, failed, waiting, group, timed,
             \* Marks; running is FALSE or TRUE, the byte it reaches is the
             \* leader's target; timed is cost # 0
  serial,    \* commits staged so far: commit ids are 1..serial
  mine,      \* the commit each writer is on
  end,       \* the byte at which each commit's frames end
  logged,    \* commits whose frames the file holds
  covers,    \* commits the file held when a leader's sync_data was issued
  platter,   \* commits a crash cannot take: synced, or folded and published
  acked,     \* commits reported Ok to their writer
  raced,     \* a checkpoint has cut the log under a sync whose target was read
  cuts, fails

marks == <<staged, durable, running, failed, waiting, group, timed>>
ghosts == <<serial, mine, end, logged, covers, platter, acked, raced>>
vars == <<side, pc, need, counted, target, len, marks, ghosts, cuts, fails>>

Id == 1 .. MaxCommits
Inside == {"enter", "asleep", "gather", "sync", "syncing"}

FlagsOK ==
  /\ counted \in [Writers -> BOOLEAN]
  /\ running \in BOOLEAN /\ failed \in BOOLEAN /\ timed \in BOOLEAN
  /\ raced \in BOOLEAN

TypeOK ==
  /\ FlagsOK
  /\ side \in Writers \cup {NoWriter}
  /\ pc \in [Writers -> {"idle", "write", "staged"} \cup Inside]
  /\ need \in [Writers -> Nat]
  /\ target \in [Writers -> Nat]
  /\ len \in Nat /\ staged \in Nat /\ durable \in Nat
  /\ waiting \in Int /\ group \in Int
  /\ serial \in 0 .. MaxCommits
  /\ mine \in [Writers -> 0 .. MaxCommits]
  /\ end \in [Id -> Nat]
  /\ logged \in SUBSET Id /\ platter \in SUBSET Id /\ acked \in SUBSET Id
  /\ covers \in [Writers -> SUBSET Id]
  /\ cuts \in 0 .. MaxCuts /\ fails \in 0 .. MaxFails

Largest(a, b) == IF a >= b THEN a ELSE b

NewCommits ==
  /\ staged = 0 /\ durable = 0
  /\ running = FALSE /\ failed = FALSE /\ waiting = 0 /\ group = 0 /\ timed = FALSE

\* A writer just opened: recovery folded the log, so it is empty.
Init ==
  /\ side = NoWriter
  /\ pc = [w \in Writers |-> "idle"]
  /\ need = [w \in Writers |-> 0]
  /\ counted = [w \in Writers |-> FALSE]
  /\ target = [w \in Writers |-> 0]
  /\ len = 0
  /\ NewCommits
  /\ serial = 0
  /\ mine = [w \in Writers |-> 0]
  /\ end = [i \in Id |-> 0]
  /\ logged = {} /\ platter = {} /\ acked = {}
  /\ covers = [w \in Writers |-> {}] /\ raced = FALSE
  /\ cuts = 0 /\ fails = 0

---------------------------------------------------------------------------
(* The write side: staging, and the checkpoint that cuts the log. *)

Take(w) ==
  /\ pc[w] = "idle" /\ side = NoWriter
  /\ serial < MaxCommits
  /\ side' = w
  /\ pc' = [pc EXCEPT ![w] = "write"]
  /\ UNCHANGED <<need, counted, target, len, marks, ghosts, cuts, fails>>

\* Wal::flush: the bytes go to the file, then Commits::staged hears of them.
Flush(n) ==
  /\ n \in 1 .. MaxSize
  /\ len + n <= MaxLen
  /\ len' = len + n
  /\ staged' = Largest(staged, len + n)

\* Wal::append past SPILL: frames reach the file before the commit frame does.
Spill(w, n) ==
  /\ pc[w] = "write"
  /\ Flush(n)
  /\ UNCHANGED <<side, pc, need, counted, target, durable, running, failed,
                 waiting, group, timed, ghosts, cuts, fails>>

StageCommit(w, n) ==
  /\ pc[w] = "write"
  /\ Flush(n)
  /\ need' = [need EXCEPT ![w] = len + n]
  /\ pc' = [pc EXCEPT ![w] = "staged"]
  /\ serial' = serial + 1
  /\ mine' = [mine EXCEPT ![w] = serial + 1]
  /\ end' = [end EXCEPT ![serial + 1] = len + n]
  /\ logged' = logged \cup {serial + 1}
  /\ UNCHANGED <<side, counted, target, durable, running, failed, waiting, group,
                 timed, covers, platter, acked, raced, cuts, fails>>

\* Writer::write when the fold checkpoints: the base file holds every staged
\* commit and is synced, then Wal::truncate and Commits::reset(0, false) cut
\* the log.  The writer's own byte is past the log's end, so it owes nothing.
CheckpointCut(w) ==
  /\ pc[w] = "staged" /\ cuts < MaxCuts
  /\ platter' = platter \cup logged
  /\ logged' = {}
  /\ len' = 0 /\ staged' = 0 /\ durable' = 0
  /\ acked' = acked \cup {mine[w]}
  /\ raced' = (raced \/ \E v \in Writers : pc[v] \in {"sync", "syncing"})
  /\ cuts' = cuts + 1
  /\ side' = NoWriter
  /\ pc' = [pc EXCEPT ![w] = "idle"]
  /\ UNCHANGED <<need, counted, target, running, failed, waiting, group, timed,
                 serial, mine, end, covers, fails>>

\* The side goes back and the writer calls sync_through with its byte.
Release(w) ==
  /\ pc[w] = "staged"
  /\ side' = NoWriter
  /\ pc' = [pc EXCEPT ![w] = "enter"]
  /\ counted' = [counted EXCEPT ![w] = FALSE]
  /\ UNCHANGED <<need, target, len, marks, ghosts, cuts, fails>>

---------------------------------------------------------------------------
(* Commits::sync_through.  A writer at "enter" holds the marks mutex and   *)
(* takes one of three ways: return, sleep, or lead.                        *)

Reached(w) == ~failed /\ (durable >= need[w] \/ staged < need[w])

Return(w) ==
  /\ pc[w] = "enter" /\ Reached(w)
  /\ pc' = [pc EXCEPT ![w] = "idle"]
  /\ waiting' = IF counted[w] THEN waiting - 1 ELSE waiting
  /\ acked' = acked \cup {mine[w]}
  /\ UNCHANGED <<side, need, counted, target, len, staged, durable, running, failed,
                 group, timed, serial, mine, end, logged, covers, platter, raced, cuts,
                 fails>>

Count(w) ==
  /\ counted' = [counted EXCEPT ![w] = TRUE]
  /\ waiting' = IF counted[w] THEN waiting ELSE waiting + 1

Wait(w) ==
  /\ pc[w] = "enter" /\ ~Reached(w) /\ running
  /\ Count(w)
  /\ pc' = [pc EXCEPT ![w] = "asleep"]
  /\ UNCHANGED <<side, need, target, len, staged, durable, running, failed, group,
                 timed, ghosts, cuts, fails>>

\* A condition variable may wake its waiters for no reason.
Wake(w) ==
  /\ pc[w] = "asleep"
  /\ pc' = [pc EXCEPT ![w] = "enter"]
  /\ UNCHANGED <<side, need, counted, target, len, marks, ghosts, cuts, fails>>

\* gather is zero: nobody to wait for, or no sync timed yet.
Alone == group < 2 \/ ~timed

\* Mutant: the pause is taken before the lead is claimed.
LeadPausingUnclaimed(w) ==
  /\ pc[w] = "enter" /\ ~Reached(w) /\ ~running /\ ~Alone
  /\ Count(w)
  /\ pc' = [pc EXCEPT ![w] = "gather"]
  /\ UNCHANGED <<side, need, target, len, staged, durable, running, failed, group,
                 timed, ghosts, cuts, fails>>

LeadPausing(w) ==
  /\ pc[w] = "enter" /\ ~Reached(w) /\ ~running /\ ~Alone
  /\ Count(w)
  /\ running' = TRUE
  /\ pc' = [pc EXCEPT ![w] = "gather"]
  /\ UNCHANGED <<side, need, target, len, staged, durable, failed, group, timed,
                 ghosts, cuts, fails>>

\* The target is read when the pause, if any, is over.
LeadNow(w) ==
  /\ \/ pc[w] = "enter" /\ ~Reached(w) /\ ~running /\ Alone /\ Count(w)
     \/ pc[w] = "gather" /\ UNCHANGED <<counted, waiting>>
  /\ target' = [target EXCEPT ![w] = staged]
  /\ running' = TRUE
  /\ pc' = [pc EXCEPT ![w] = "sync"]
  /\ UNCHANGED <<side, need, len, staged, durable, failed, group, timed, ghosts,
                 cuts, fails>>

\* sync_data is issued with no lock held: it covers what the file holds now.
SyncIssue(w) ==
  /\ pc[w] = "sync"
  /\ covers' = [covers EXCEPT ![w] = logged]
  /\ pc' = [pc EXCEPT ![w] = "syncing"]
  /\ UNCHANGED <<side, need, counted, target, len, marks, serial, mine, end, logged,
                 platter, acked, raced, cuts, fails>>

NotifyAll(w) ==
  pc' = [v \in Writers |-> IF v = w THEN "idle"
                           ELSE IF pc[v] = "asleep" THEN "enter" ELSE pc[v]]

\* Mutant: durable moves to what is staged when the sync lands.
SyncOkStaged(w) ==
  /\ pc[w] = "syncing"
  /\ running' = FALSE
  /\ durable' = Largest(durable, staged)
  /\ failed' = FALSE /\ timed' = TRUE
  /\ group' = waiting /\ waiting' = waiting - 1
  /\ NotifyAll(w)
  /\ platter' = platter \cup covers[w]
  /\ acked' = acked \cup {mine[w]}
  /\ UNCHANGED <<side, need, counted, target, len, staged, serial, mine, end, logged,
                 covers, raced, cuts, fails>>

SyncOk(w) ==
  /\ pc[w] = "syncing"
  /\ running' = FALSE
  /\ durable' = Largest(durable, target[w])
  /\ failed' = FALSE /\ timed' = TRUE
  /\ group' = waiting /\ waiting' = waiting - 1
  /\ NotifyAll(w)
  /\ platter' = platter \cup covers[w]
  /\ acked' = acked \cup {mine[w]}
  /\ UNCHANGED <<side, need, counted, target, len, staged, serial, mine, end, logged,
                 covers, raced, cuts, fails>>

\* Mutant: a failed sync leaves its sleepers asleep.
SyncFailSilent(w) ==
  /\ pc[w] = "syncing" /\ fails < MaxFails
  /\ running' = FALSE /\ failed' = TRUE
  /\ waiting' = waiting - 1
  /\ pc' = [pc EXCEPT ![w] = "idle"]
  /\ fails' = fails + 1
  /\ UNCHANGED <<side, need, counted, target, len, staged, durable, group, timed,
                 ghosts, cuts>>

\* The leader's caller gets the error; its frames stay in the log.
SyncFail(w) ==
  /\ pc[w] = "syncing" /\ fails < MaxFails
  /\ running' = FALSE /\ failed' = TRUE
  /\ waiting' = waiting - 1
  /\ NotifyAll(w)
  /\ fails' = fails + 1
  /\ UNCHANGED <<side, need, counted, target, len, staged, durable, group, timed,
                 ghosts, cuts>>

SyncThrough(w) ==
  \/ Return(w) \/ Wait(w) \/ LeadPausing(w) \/ LeadNow(w)
  \/ SyncIssue(w) \/ SyncOk(w) \/ SyncFail(w)

WriteSide(w) ==
  \/ Take(w) \/ CheckpointCut(w) \/ Release(w)
  \/ \E n \in 1 .. MaxSize : Spill(w, n) \/ StageCommit(w, n)

Next == \E w \in Writers : WriteSide(w) \/ SyncThrough(w) \/ Wake(w)

Spec == Init /\ [][Next]_vars

\* Threads inside sync_through are scheduled, and a sync_data returns.
FairSpec == Spec /\ \A w \in Writers : WF_vars(SyncThrough(w))

---------------------------------------------------------------------------
(* Properties. *)

(* wal.rs, sync_through: "Returns once the log is durable through `need`   *)
(* bytes".  A commit reported Ok survives a crash: its frames were in the  *)
(* file when some sync was issued, or a checkpoint published them.         *)
AckedIsDurable == acked \subseteq platter

(* wal.rs, settled: "every byte staged is on the platter, so what the      *)
(* write side holds can be shown to a reader".                             *)
Settled == ~failed /\ durable >= staged
SettledIsDurable == Settled => logged \subseteq platter

(* wal.rs, Marks::waiting: the count of calls still owed something is      *)
(* exact across returns, sleeps, failures and cuts, so the next leader's   *)
(* pause is decided by a true group size.                                  *)
WaitingExact ==
  waiting = Cardinality({w \in Writers : pc[w] \in Inside /\ counted[w]})

(* wal.rs, Commits: "`Marks::running` is what stops there being two"       *)
(* leaders on the sync handle.                                             *)
OneLeader ==
  /\ \A v, w \in Writers :
       pc[v] \in {"gather", "sync", "syncing"} /\ pc[w] \in {"gather", "sync", "syncing"}
         => v = w
  /\ running <=> \E w \in Writers : pc[w] \in {"gather", "sync", "syncing"}

(* wal.rs, sync_through: leads, sleeps and returns, failed syncs and cuts  *)
(* included, leave one leader and an exact count of who waits.             *)
LeaderInv == OneLeader /\ WaitingExact

(* sync_through and settled, up to the one interleaving that breaks them: a *)
(* checkpoint that cuts the log between a leader's reading of its target   *)
(* and the end of its sync.                                                *)
AckedUnlessRaced == ~raced => AckedIsDurable
SettledUnlessRaced == ~raced => SettledIsDurable

(* Who may be where: one writer is on the write side, and a call of         *)
(* sync_through is for a commit that was staged.                            *)
CallOK(w) ==
  /\ pc[w] \in {"write", "staged"} => side = w
  /\ pc[w] = "write" => serial < MaxCommits
  /\ pc[w] \in {"staged"} \cup Inside => mine[w] \in Id

(* Why an acknowledged commit is durable: between two cuts bytes only grow, *)
(* so a commit ending at or below a sync's target was in the file before   *)
(* that sync was issued, and what a cut takes away the base file has.      *)
LogInv ==
  /\ staged = len /\ durable <= staged
  /\ logged \subseteq 1 .. serial
  /\ \A i \in logged : end[i] <= len
  /\ \A i \in logged : end[i] <= durable => i \in platter
  /\ acked \subseteq platter

CallInv(w) ==
  /\ pc[w] \in {"staged"} \cup Inside =>
       mine[w] \in platter \/ (mine[w] \in logged /\ need[w] = end[mine[w]])
  /\ pc[w] \in {"sync", "syncing"} =>
       /\ target[w] <= staged
       /\ mine[w] \in platter \/ need[w] <= target[w]
  /\ pc[w] = "syncing" =>
       \A i \in logged : end[i] <= target[w] => i \in covers[w]

GroupInv ==
  /\ TypeOK
  /\ \A w \in Writers : CallOK(w)
  /\ ~raced => LogInv /\ \A w \in Writers : CallInv(w)

(* Every call of sync_through returns: a sleeper is always woken by the    *)
(* sync it waits on, failed or not, and then returns or leads.             *)
SyncThroughReturns ==
  \A w \in Writers : pc[w] = "enter" ~> pc[w] = "idle"
============================================================================
