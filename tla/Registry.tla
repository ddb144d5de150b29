------------------------------ MODULE Registry ------------------------------
(***************************************************************************)
(* The process-wide registry of open files (crates/zu/src/shared.rs):      *)
(* connections attach to one FileHandle per path, commit through its write *)
(* side, lend the file out, and let go; the last one to let go folds the   *)
(* file with the registry held, and an open that meets a handle on its way *)
(* out waits for it.                                                       *)
(*                                                                         *)
(* A state of the database is the sequence of the commits it holds, and an *)
(* epoch is its length; a frame of the log is a commit with its epoch.     *)
(* FileHandle models the line in front of the side, GroupCommit the sync   *)
(* of the log, Recovery what a crash leaves of it: here a commit is one    *)
(* step, durable when it is answered.                                      *)
(***************************************************************************)
EXTENDS Integers, Sequences, FiniteSets

CONSTANTS
  Session,    \* threads, each with a connection to open, use and close
  MaxOpen,    \* bound: handles opened over the life of the process
  MaxCommit,  \* bound: commits
  Allow       \* hazards exercised, a subset of Behaviours

\* "latedrop" - the last reference is dropped between settled_registry's count
\*              of them and attach's upgrade.
Behaviours == {"latedrop"}

ASSUME RegistryAssumption ==
  MaxOpen \in Nat /\ MaxCommit \in Nat /\ Allow \subseteq Behaviours

VARIABLES
  lock,     \* the thread inside the registry's mutex, or NoOne
  entry,    \* the handle the registry holds a Weak of, or NoHandle
  owners,   \* handle -> sessions with an Arc of it
  opened,   \* handles opened so far
  file,     \* handle -> state the header of its Zu1File names, staged folds included
  mem,      \* handle -> state its writer holds, the overlays included
  writer,   \* handle -> WriteSide::writer: "none", "clean" (empty log) or "dirty"
  shown,    \* handle -> Published
  kept,     \* handle -> session the side is on loan to (Session::file_mut), or NoOne
  base,     \* the state the header on disk names
  log,      \* the sidecar: frames [epoch, id]
  commits,  \* commits answered so far, which are 1 .. commits
  pc, at    \* where each session is, and the handle it has

diskVars == <<base, log>>
sideVars == <<file, mem, writer, shown, kept>>
vars == <<lock, entry, owners, opened, file, mem, writer, shown, kept, base, log,
          commits, pc, at>>

NoOne == "no one"
ASSUME NoOneAssumption == NoOne \notin Session
NoHandle == 0
Handle == 1..MaxOpen
PcValues == {"idle", "attach", "settled", "install", "open", "closing", "drop", "fold"}

\* Everything answered so far, in order.
Everything == [i \in 1..commits |-> i]

\* Mvcc::recover_with over the header's floor: the frames above it are applied.
\* The j-th one applied is the one with j of them up to it.
Above(state, frames) == {i \in DOMAIN frames : frames[i].epoch > Len(state)}
Nth(above, j) == CHOOSE i \in above : Cardinality({k \in above : k <= i}) = j
Replay(state, frames) ==
  LET above == Above(state, frames)
  IN  state \o [j \in 1..Cardinality(above) |-> frames[Nth(above, j)].id]

\* A side is kept only by a session that has the handle.
TypeOK ==
  /\ lock \in Session \cup {NoOne} /\ entry \in Handle \cup {NoHandle}
  /\ owners \in [Handle -> SUBSET Session] /\ opened \in 0..MaxOpen
  /\ file \in [Handle -> Seq(1..MaxCommit)] /\ mem \in [Handle -> Seq(1..MaxCommit)]
  /\ shown \in [Handle -> Seq(1..MaxCommit)]
  /\ writer \in [Handle -> {"none", "clean", "dirty"}]
  /\ kept \in [Handle -> Session \cup {NoOne}]
  /\ \A h \in Handle : kept[h] \in owners[h] \cup {NoOne}
  /\ base \in Seq(1..MaxCommit) /\ log \in Seq([epoch : 1..MaxCommit, id : 1..MaxCommit])
  /\ commits \in 0..MaxCommit
  /\ pc \in [Session -> PcValues] /\ at \in [Session -> Handle \cup {NoHandle}]

Init ==
  /\ lock = NoOne /\ entry = NoHandle /\ opened = 0
  /\ owners = [h \in Handle |-> {}]
  /\ file = [h \in Handle |-> <<>>] /\ mem = [h \in Handle |-> <<>>]
  /\ shown = [h \in Handle |-> <<>>]
  /\ writer = [h \in Handle |-> "none"] /\ kept = [h \in Handle |-> NoOne]
  /\ base = <<>> /\ log = <<>> /\ commits = 0
  /\ pc = [s \in Session |-> "idle"] /\ at = [s \in Session |-> NoHandle]

Go(s, where) == pc' = [pc EXCEPT ![s] = where]

------------------------------------------------------------------------------
(* Attaching.                                                              *)

Attach(s) ==
  /\ pc[s] = "idle" /\ opened < MaxOpen
  /\ Go(s, "attach")
  /\ UNCHANGED <<lock, entry, owners, opened, sideVars, diskVars, commits, at>>

\* Mutant: a failed upgrade is read as nobody having the file.
SettledAlways == TRUE
\* The test of settled_registry: no handle on this key is on its way out.
Settled == entry # NoHandle => owners[entry] # {}

\* settled_registry: the round of its loop that ends it. A round that finds a
\* handle on its way out lets the mutex go and changes nothing.
Settle(s) ==
  /\ pc[s] = "attach" /\ lock = NoOne /\ Settled
  /\ lock' = s
  /\ Go(s, "settled")
  /\ UNCHANGED <<entry, owners, opened, sideVars, diskVars, commits, at>>

\* Weak::upgrade of the entry, under the mutex.
Upgradable == entry # NoHandle /\ owners[entry] # {}

\* attach: another reference to the handle that is there.
Upgrade(s) ==
  /\ pc[s] = "settled" /\ Upgradable
  /\ owners' = [owners EXCEPT ![entry] = @ \cup {s}]
  /\ at' = [at EXCEPT ![s] = entry]
  /\ lock' = NoOne
  /\ Go(s, "open")
  /\ UNCHANGED <<entry, opened, sideVars, diskVars, commits>>

\* attach: the open closure, run with the registry held.
OpenFile(s) ==
  /\ pc[s] = "settled" /\ ~Upgradable /\ opened < MaxOpen
  /\ opened' = opened + 1
  /\ at' = [at EXCEPT ![s] = opened + 1]
  /\ file' = [file EXCEPT ![opened + 1] = base]
  /\ Go(s, "install")
  /\ UNCHANGED <<lock, entry, owners, mem, writer, shown, kept, diskVars, commits>>

\* Mutant: the log a fold failed to empty is left alone.
ReplaySidecarSkipped(h) ==
  /\ file' = file /\ UNCHANGED diskVars
  /\ mem' = [mem EXCEPT ![h] = file[h]] /\ shown' = [shown EXCEPT ![h] = file[h]]
\* replay_sidecar: a log with frames in it is replayed, folded and cut.
ReplaySidecar(h) ==
  LET whole == Replay(file[h], log) IN
  /\ file' = [file EXCEPT ![h] = whole]
  /\ base' = IF log = <<>> THEN base ELSE whole
  /\ log' = <<>>
  /\ mem' = [mem EXCEPT ![h] = whole] /\ shown' = [shown EXCEPT ![h] = whole]

\* install: the handle is registered over whatever the entry said.
Install(s) ==
  /\ pc[s] = "install"
  /\ ReplaySidecar(at[s])
  /\ owners' = [owners EXCEPT ![at[s]] = {s}]
  /\ entry' = at[s]
  /\ lock' = NoOne
  /\ Go(s, "open")
  /\ UNCHANGED <<opened, writer, kept, commits, at>>

\* The open or the replay failed: nothing is registered.
AttachFails(s) ==
  /\ pc[s] \in {"settled", "install"} /\ (pc[s] = "settled" => ~Upgradable)
  /\ at' = [at EXCEPT ![s] = NoHandle]
  /\ lock' = NoOne
  /\ Go(s, "idle")
  /\ UNCHANGED <<entry, owners, opened, sideVars, diskVars, commits>>

------------------------------------------------------------------------------
(* Using the file.                                                         *)

\* The side is at home, or with the session that asks.
HasSide(s) == pc[s] = "open" /\ kept[at[s]] \in {NoOne, s}

\* WriteSide::open_writer and the share after it: what the log holds above the
\* header is recovered and folded.
OpenWriter(s) ==
  LET h == at[s] IN
  /\ HasSide(s) /\ writer[h] = "none"
  /\ ReplaySidecar(h)
  /\ writer' = [writer EXCEPT ![h] = "clean"]
  /\ UNCHANGED <<lock, entry, owners, opened, kept, commits, pc, at>>

\* Writer::write and the publish after it: the commit is deferred, folded with
\* the header left alone, or folded by a checkpoint that also cuts the log.
Commit(s, how) ==
  LET h == at[s]
      next == Append(mem[h], commits + 1) IN
  /\ HasSide(s) /\ writer[h] # "none" /\ commits < MaxCommit
  /\ commits' = commits + 1
  /\ mem' = [mem EXCEPT ![h] = next] /\ shown' = [shown EXCEPT ![h] = next]
  /\ file' = [file EXCEPT ![h] = IF how = "defer" THEN @ ELSE next]
  /\ base' = IF how = "checkpoint" THEN next ELSE base
  /\ log' = IF how = "checkpoint" THEN <<>>
            ELSE Append(log, [epoch |-> Len(next), id |-> commits + 1])
  /\ writer' = [writer EXCEPT ![h] = IF how = "checkpoint" THEN "clean" ELSE "dirty"]
  /\ UNCHANGED <<lock, entry, owners, opened, kept, pc, at>>

\* Mutant: the fold stops before the header flip and the log is cut all the same.
FoldWriterStaged(h) ==
  /\ writer' = [writer EXCEPT ![h] = "none"]
  /\ log' = <<>> /\ file' = [file EXCEPT ![h] = mem[h]] /\ UNCHANGED base
\* WriteSide::fold_writer: the writer is taken, and folded if it has anything.
FoldWriter(h) ==
  /\ writer' = [writer EXCEPT ![h] = "none"]
  /\ IF writer[h] = "dirty"
     THEN base' = mem[h] /\ log' = <<>> /\ file' = [file EXCEPT ![h] = mem[h]]
     ELSE UNCHANGED <<base, log, file>>
\* The same when the fold fails: the writer is gone all the same.
FoldWriterFails(h) ==
  /\ writer[h] = "dirty"
  /\ writer' = [writer EXCEPT ![h] = "none"]
  /\ mem' = [mem EXCEPT ![h] = file[h]]
  /\ UNCHANGED <<base, log, file>>

\* Session::file_mut: the writer is folded away and the side stays with the
\* session.
FileMut(s) ==
  LET h == at[s] IN
  /\ HasSide(s) /\ writer[h] # "none"
  /\ FoldWriter(h)
  /\ shown' = [shown EXCEPT ![h] = file'[h]]
  /\ kept' = [kept EXCEPT ![h] = s]
  /\ UNCHANGED <<lock, entry, owners, opened, mem, commits, pc, at>>

FileMutFails(s) ==
  /\ HasSide(s)
  /\ FoldWriterFails(at[s])
  /\ kept' = [kept EXCEPT ![at[s]] = s]
  /\ UNCHANGED <<lock, entry, owners, opened, shown, commits, pc, at>>

------------------------------------------------------------------------------
(* Letting go.                                                             *)

\* Drop of a Session that has the side: the writer is folded, what the side is
\* at is shared, and the side goes back.
ReturnSide(s) ==
  LET h == at[s] IN
  /\ pc[s] = "open" /\ kept[h] = s
  /\ \/ FoldWriter(h) /\ UNCHANGED mem
     \/ FoldWriterFails(h)
  /\ shown' = [shown EXCEPT ![h] = file'[h]]
  /\ kept' = [kept EXCEPT ![h] = NoOne]
  /\ Go(s, "closing")
  /\ UNCHANGED <<lock, entry, owners, opened, commits, at>>

MayLetGo(s) == pc[s] = "closing" \/ (pc[s] = "open" /\ kept[at[s]] # s)

\* The drop of a session's Arc. The last one has FileHandle::drop to run.
LetGo(s) ==
  LET h == at[s] IN
  /\ MayLetGo(s)
  /\ owners[h] = {s} /\ "latedrop" \notin Allow => \A t \in Session : pc[t] # "settled"
  /\ owners' = [owners EXCEPT ![h] = @ \ {s}]
  /\ IF owners[h] = {s} THEN Go(s, "drop") /\ UNCHANGED at
     ELSE Go(s, "idle") /\ at' = [at EXCEPT ![s] = NoHandle]
  /\ UNCHANGED <<lock, entry, opened, sideVars, diskVars, commits>>

\* Mutant: the entry is never cleared.
ClearedNever == entry
\* FileHandle::drop: the entry goes unless another handle has replaced it.
Cleared == IF Upgradable THEN entry ELSE NoHandle

DropLock(s) ==
  /\ pc[s] = "drop" /\ lock = NoOne
  /\ lock' = s
  /\ entry' = Cleared
  /\ Go(s, "fold")
  /\ UNCHANGED <<owners, opened, sideVars, diskVars, commits, at>>

\* The rest of it: the fold, whose failure nobody hears of, and the unlock.
DropFold(s) ==
  /\ pc[s] = "fold"
  /\ \/ FoldWriter(at[s]) /\ UNCHANGED mem
     \/ FoldWriterFails(at[s])
  /\ lock' = IF lock = s THEN NoOne ELSE lock
  /\ at' = [at EXCEPT ![s] = NoHandle]
  /\ Go(s, "idle")
  /\ UNCHANGED <<entry, owners, opened, shown, kept, commits>>

Next ==
  \E s \in Session :
    \/ Attach(s) \/ Settle(s) \/ Upgrade(s) \/ OpenFile(s) \/ Install(s) \/ AttachFails(s)
    \/ OpenWriter(s) \/ \E how \in {"defer", "stage", "checkpoint"} : Commit(s, how)
    \/ FileMut(s) \/ FileMutFails(s)
    \/ ReturnSide(s) \/ LetGo(s) \/ DropLock(s) \/ DropFold(s)

Spec == Init /\ [][Next]_vars

\* A thread inside attach or a drop is never preempted for ever, and one that
\* asks for the mutex again and again gets it. Using and closing a connection is
\* up to its owner.
Fairness ==
  \A s \in Session :
    /\ SF_vars(Settle(s)) /\ SF_vars(DropLock(s))
    /\ WF_vars(Upgrade(s) \/ OpenFile(s) \/ Install(s) \/ AttachFails(s))
    /\ WF_vars(DropFold(s))
FairSpec == Spec /\ Fairness

------------------------------------------------------------------------------
(* Properties.                                                             *)

\* Handles with a side that can still write the file.
Live(h) == owners[h] # {} \/ \E s \in Session : at[s] = h /\ pc[s] \in {"drop", "fold"}

\* One FileHandle per path holds the write side, and no handle is opened while
\* another can still write: an open does not read a header that a fold is about
\* to move (shared.rs, settled_registry and Drop).
OneWriteSide ==
  /\ \A g, h \in Handle : Live(g) /\ Live(h) => g = h
  /\ \A s \in Session : pc[s] = "install" => ~\E h \in Handle : Live(h)

\* attach, settled_registry and Drop keep the registry well formed, with one
\* write side to a path.
RegistryInv == TypeOK /\ OneWriteSide

\* Whenever the process stops, the header and the log on disk hold every commit
\* answered, once and in order, whichever handles made them and whatever closes,
\* opens and failed folds came between.
DiskComplete == Replay(base, log) = Everything

\* A connection is shown every commit answered before it asks, those of
\* connections that are gone included. The exception is a fold that failed under
\* fold_writer: its frames are in a log no writer has open, and what is published
\* then is the file without them.
ConnectedSeeAll ==
  \A s \in Session : pc[s] = "open" =>
    shown[at[s]] = Everything \/ (writer[at[s]] = "none" /\ log # <<>>)

\* An open that waits for a handle on its way out is answered.
AttachReturns ==
  \A s \in Session : pc[s] \in {"attach", "settled", "install"} ~> pc[s] \in {"open", "idle"}
=============================================================================
