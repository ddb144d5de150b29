------------------------------ MODULE Recovery ------------------------------
(***************************************************************************)
(* What a commit is worth across statements, transactions and crashes:     *)
(* the write-ahead log (crates/zu-zu1/src/wal.rs), the fold of committed   *)
(* changes into the base file (fold.rs), the savepoint and its marker on   *)
(* disk (file.rs), and the session that drives them (zu/src/session.rs,    *)
(* zu/src/write.rs).                                                       *)
(*                                                                         *)
(* The database is the sequence of commits its base file has folded        *)
(* followed by the ones only the log holds.  The log is an array of cells, *)
(* two per commit, with what the process has written (cache) apart from    *)
(* what the disk has (disk); a cell reaches the disk whenever the kernel   *)
(* likes, and all of them do at a sync.  Header slots are one atomic cell  *)
(* here: BlockFile is about how a flip is made so.                         *)
(***************************************************************************)
EXTENDS Integers, Sequences, FiniteSets, FiniteSetsExt, Functions

CONSTANTS
  MaxTxn,     \* bound: commits
  MaxLog,     \* bound: cells of the log
  MaxCrash,   \* bound: crashes
  Allow       \* behaviours exercised, a subset of Behaviours

\* "tear"     - the disk persists a later cell of the log and not an earlier
\*              one, over a cut that was never synced;
\* "foldover" - a checkpoint inside a savepoint that began over commits only
\*              the log held;
\* "cutback"  - a rollback past a checkpoint whose cut of the log has not
\*              reached the disk.
Behaviours == {"tear", "foldover", "cutback"}

ASSUME RecoveryAssumption ==
  /\ MaxTxn \in Nat /\ MaxLog \in Nat /\ MaxCrash \in Nat
  /\ Allow \subseteq Behaviours

Txn  == 1..MaxTxn
Zero == [kind |-> "zero", epoch |-> 0, id |-> 0]
Cell == [kind : {"zero", "begin", "commit"}, epoch : Nat, id : 0..MaxTxn]
Index == 1..MaxLog

VARIABLES
  cache, disk, len,    \* the log as written, as it is on the disk, and its end
  slot,                \* the published header: [content, seq, epoch]
  marker,              \* the kept header and the floor, or NoMarker
  base, overlay,       \* the writer's header, and the commits not folded
  epoch,               \* Mvcc::epoch, the newest commit
  save,                \* the open savepoint, or NoSave
  mine,                \* the commits made inside it
  owed,                \* Session::owed, for the session holding the side
  mode, pc,            \* what the writing side is in the middle of
  floor,               \* Interrupted::log_floor of a recovery
  status,              \* what each commit's caller knows of it
  crashes

logVars == <<cache, disk, len>>
vars == <<cache, disk, len, slot, marker, base, overlay, epoch, save, mine,
          owed, mode, pc, floor, status, crashes>>

NoMarker == [on |-> FALSE]
NoSave   == [on |-> FALSE]

View == base.content \o overlay
InSavepoint == mode \in {"stmt", "txn"}
Next1 == Cardinality({t \in Txn : status[t] # "new"}) + 1

------------------------------------------------------------------------------
(* Reading a log.                                                          *)

\* next_frame, from the front: the cells before the first that is no frame.
Intact(cells) ==
  LET bad == {i \in Index : cells[i].kind = "zero"}
  IN  IF bad = {} THEN MaxLog ELSE Min(bad) - 1

\* Mutant: replay delivers again the commit the base folded last.
CommitsAgain(cells, n, f) ==
  {i \in 1..n : cells[i].kind = "commit" /\ cells[i].epoch >= f}

\* The commits above `f` among the first n frames.
Commits(cells, n, f) ==
  {i \in 1..n : cells[i].kind = "commit" /\ cells[i].epoch > f}

\* Wal::replay over the intact frames, delivering every commit above `f`, in
\* the order of the log: a begin abandons what was gathered before it, so a
\* commit delivers what the begin just under it began.
Nth(set, k) == CHOOSE i \in set : Cardinality({j \in set : j <= i}) = k
Replay(cells, n, f) ==
  LET commits == Commits(cells, n, f)
      whole   == {i \in commits \ {1} : cells[i - 1].kind = "begin"}
  IN  [out   |-> [k \in 1..Cardinality(whole) |-> cells[Nth(whole, k) - 1].id],
       epoch |-> Max({f} \cup {cells[i].epoch : i \in commits})]

\* Wal::erase of everything from `from` on.
Erased(cells, from) == [i \in Index |-> IF i >= from THEN Zero ELSE cells[i]]

\* Mutant: the commit at the floor is cut as well.
CutAtFloor(cells, n, f) ==
  LET above == {i \in 1..n : cells[i].epoch >= f}
  IN  IF above = {} THEN n ELSE Min(above) - 1

\* Wal::rollback_above: the frames up to the first above the floor.
CutAt(cells, n, f) ==
  LET above == {i \in 1..n : cells[i].epoch > f}
  IN  IF above = {} THEN n ELSE Min(above) - 1

------------------------------------------------------------------------------
Init ==
  /\ cache = [i \in Index |-> Zero] /\ disk = cache /\ len = 0
  /\ slot = [content |-> <<>>, seq |-> 0, epoch |-> 1] /\ base = slot
  /\ marker = NoMarker /\ overlay = <<>> /\ epoch = 0
  /\ save = NoSave /\ mine = {} /\ owed = FALSE
  /\ mode = "idle" /\ pc = "none" /\ floor = 0
  /\ status = [t \in Txn |-> "new"] /\ crashes = 0

\* The kernel writes one dirty cell back.  A device that keeps the order of
\* writes does the first of them.
Dirty == {i \in Index : cache[i] # disk[i]}
Writeback(i) ==
  /\ mode # "down" /\ i \in Dirty
  /\ "tear" \notin Allow => i = Min(Dirty)
  /\ disk' = [disk EXCEPT ![i] = cache[i]]
  /\ UNCHANGED <<cache, len, slot, marker, base, overlay, epoch, save, mine,
                 owed, mode, pc, floor, status, crashes>>

------------------------------------------------------------------------------
(* A statement that writes, alone or inside a transaction.                 *)

\* Session::hold: the savepoint keeps the header and where the log stands.
Hold(across) ==
  /\ mode = "idle"
  /\ save' = [on |-> TRUE, base |-> base, floor |-> epoch, across |-> across,
              published |-> FALSE, marked |-> FALSE]
  /\ mode' = IF across THEN "txn" ELSE "stmt"
  /\ mine' = {} /\ owed' = FALSE
  /\ UNCHANGED <<logVars, slot, marker, base, overlay, epoch, pc, floor, status,
                 crashes>>

\* Mutant: the marker of a transaction waits for something to be published.
KeepLate == ~save.marked /\ save.published

\* Writer::write, before the log: keep_savepoint.  A statement or transaction
\* may come here any number of times; a statement's marker waits for the second.
KeepDue == ~save.marked /\ (save.across \/ save.published)
Keep ==
  /\ InSavepoint /\ pc = "none" /\ Next1 <= MaxTxn /\ len + 2 <= MaxLog
  /\ IF KeepDue
     THEN /\ marker' = [on |-> TRUE, base |-> save.base, floor |-> save.floor]
          /\ save' = [save EXCEPT !.marked = TRUE]
     ELSE UNCHANGED <<marker, save>>
  /\ pc' = "kept"
  /\ UNCHANGED <<logVars, slot, base, overlay, epoch, mine, owed, mode, floor,
                 status, crashes>>

\* WriteTxn::stage_commit: the frames go to the log and nothing is synced.
StageCommit ==
  /\ pc = "kept"
  /\ LET cell(kind) == [kind |-> kind, epoch |-> epoch + 1, id |-> Next1]
     IN  cache' = [cache EXCEPT ![len + 1] = cell("begin"), ![len + 2] = cell("commit")]
  /\ len' = len + 2 /\ epoch' = epoch + 1
  /\ overlay' = Append(overlay, Next1)
  /\ status' = [status EXCEPT ![Next1] = "staged"]
  /\ mine' = mine \cup {Next1} /\ owed' = TRUE
  /\ pc' = "logged"
  /\ UNCHANGED <<disk, slot, marker, base, save, mode, floor, crashes>>

\* Writer::defers: the commit stays an overlay, and the log is all it has.
StageDeferred ==
  /\ pc = "logged"
  /\ save' = [save EXCEPT !.published = TRUE] /\ pc' = "none"
  /\ UNCHANGED <<logVars, slot, marker, base, overlay, epoch, mine, owed, mode,
                 floor, status, crashes>>

\* fold: everything unfolded goes into the base, under the next epoch.
Folded == [content |-> View, seq |-> epoch, epoch |-> base.epoch + 1]

StagedFold ==
  /\ pc = "logged"
  /\ base' = Folded /\ overlay' = <<>>
  /\ save' = [save EXCEPT !.published = TRUE] /\ pc' = "none"
  /\ UNCHANGED <<logVars, slot, marker, epoch, mine, owed, mode, floor, status, crashes>>

\* checkpoint_fold: fold, flip, and then cut the log.
CheckpointFold ==
  /\ pc = "logged"
  /\ "foldover" \notin Allow => save.floor = save.base.seq
  /\ base' = Folded /\ slot' = Folded /\ overlay' = <<>>
  /\ save' = [save EXCEPT !.published = TRUE] /\ pc' = "truncate"
  /\ UNCHANGED <<logVars, marker, epoch, mine, owed, mode, floor, status, crashes>>

\* Wal::truncate, which does not sync; the write owes the log nothing now.
Truncate ==
  /\ pc = "truncate"
  /\ cache' = Erased(cache, 1) /\ len' = 0
  /\ owed' = FALSE /\ pc' = "none"
  /\ mode' = IF InSavepoint THEN mode ELSE "idle"
  /\ UNCHANGED <<disk, slot, marker, base, overlay, epoch, save, mine, floor,
                 status, crashes>>

------------------------------------------------------------------------------
(* The end of a statement or a transaction.                                *)

Unmarked == IF save.marked THEN NoMarker ELSE marker

\* Session::settle of a statement that answered; the wait comes after the
\* side is back, so the commit is still only staged.
Settle ==
  /\ mode = "stmt" /\ pc = "none"
  /\ marker' = Unmarked /\ save' = NoSave /\ mine' = {} /\ mode' = "idle"
  /\ UNCHANGED <<logVars, slot, base, overlay, epoch, owed, pc, floor, status, crashes>>

\* Session::durable: a sync, and every statement waiting on it is answered.
Answered == {t \in Txn \ mine : status[t] = "staged"}
Durable ==
  /\ mode # "down" /\ Answered # {} /\ len > 0
  /\ disk' = cache
  /\ status' = [t \in Txn |-> IF t \in Answered THEN "acked" ELSE status[t]]
  /\ UNCHANGED <<cache, len, slot, marker, base, overlay, epoch, save, mine,
                 owed, mode, pc, floor, crashes>>

\* Session::durable with nothing to wait for: a checkpoint has cut the log and
\* sealed what is waited for in the base file, so sync_through, or a write that
\* owes nothing, answers with no sync.  A log that has grown past the byte again
\* is synced, and one that has grown less far is not: both answers could have
\* been given before it grew, which asks more of a crash.
DurableSealed ==
  /\ mode # "down" /\ Answered # {} /\ len = 0
  /\ status' = [t \in Txn |-> IF t \in Answered THEN "acked" ELSE status[t]]
  /\ UNCHANGED <<cache, disk, len, slot, marker, base, overlay, epoch, save, mine,
                 owed, mode, pc, floor, crashes>>

\* The same wait of a statement inside a transaction, with the side held.
SettleInside ==
  /\ mode = "txn" /\ pc = "none" /\ owed
  /\ disk' = cache /\ owed' = FALSE
  /\ UNCHANGED <<cache, len, slot, marker, base, overlay, epoch, save, mine,
                 mode, pc, floor, status, crashes>>

\* COMMIT: release_savepoint clears the marker, and the word returns.
Commit ==
  /\ mode = "txn" /\ pc = "none" /\ ~owed
  /\ marker' = Unmarked /\ save' = NoSave /\ mine' = {} /\ mode' = "idle"
  /\ status' = [t \in Txn |-> IF t \in mine THEN "acked" ELSE status[t]]
  /\ UNCHANGED <<logVars, slot, base, overlay, epoch, owed, pc, floor, crashes>>

\* ROLLBACK, or a statement that raised.  Session::undo cuts the log first...
Undo ==
  /\ InSavepoint /\ pc = "none"
  /\ slot.epoch > save.base.epoch /\ Dirty # {} => "cutback" \in Allow
  /\ LET n == CutAt(cache, len, save.floor)
     IN  /\ cache' = Erased(cache, n + 1) /\ len' = n
         /\ disk' = IF n = len THEN disk ELSE Erased(cache, n + 1)
  /\ mode' = "undo" /\ pc' = "restore"
  /\ UNCHANGED <<slot, marker, base, overlay, epoch, save, mine, owed, floor,
                 status, crashes>>

\* ... then rollback_savepoint puts the kept header back, publishing it when
\* the epoch has moved...
RollbackSavepoint ==
  /\ pc = "restore"
  /\ IF base.epoch = save.base.epoch
     THEN base' = save.base /\ UNCHANGED slot
     ELSE base' = [save.base EXCEPT !.epoch = base.epoch + 1] /\ slot' = base'
  /\ pc' = "forget"
  /\ UNCHANGED <<logVars, marker, overlay, epoch, save, mine, owed, mode, floor,
                 status, crashes>>

\* ... and forgets the marker.  The writer that comes next replays the log.
UndoDone ==
  /\ mode = "undo" /\ pc = "forget"
  /\ marker' = Unmarked /\ save' = NoSave /\ mine' = {} /\ owed' = FALSE
  /\ status' = [t \in Txn |-> IF t \in mine THEN "undone" ELSE status[t]]
  /\ pc' = "replay"
  /\ UNCHANGED <<logVars, slot, base, overlay, epoch, mode, floor, crashes>>

------------------------------------------------------------------------------
(* A crash, and the open after it.                                         *)

\* Nobody is told anything: a commit of a transaction whose COMMIT has not
\* returned, or of a statement that has its marker, is to be undone; any other
\* staged one may go either way.
AfterCrash(t) ==
  CASE t \in mine /\ (save.across \/ save.marked) -> "undone"
    [] status[t] = "staged" /\ ~(t \in mine /\ (save.across \/ save.marked)) -> "unsure"
    [] OTHER -> status[t]

Crash ==
  /\ crashes < MaxCrash /\ mode # "down"
  /\ cache' = disk /\ len' = 0 /\ overlay' = <<>> /\ epoch' = 0
  /\ save' = NoSave /\ mine' = {} /\ owed' = FALSE
  /\ base' = slot /\ mode' = "down" /\ pc' = "none" /\ floor' = 0
  /\ status' = [t \in Txn |-> AfterCrash(t)]
  /\ crashes' = crashes + 1
  /\ UNCHANGED <<disk, slot, marker>>

\* Zu1File::open_kind: the kept header, unless it is ahead of the published
\* one; Wal::open_on: the intact frames stay, a torn tail is zeroed and synced.
Kept == IF marker.on /\ marker.base.epoch <= slot.epoch THEN marker.base ELSE slot
Open ==
  /\ mode = "down"
  /\ base' = Kept
  /\ floor' = IF marker.on THEN marker.floor ELSE 0
  /\ len' = Intact(disk)
  /\ cache' = Erased(disk, Intact(disk) + 1) /\ disk' = cache'
  /\ mode' = "recover" /\ pc' = IF marker.on THEN "cut" ELSE "replay"
  /\ UNCHANGED <<slot, marker, overlay, epoch, save, mine, owed, status, crashes>>

\* fold::recover over an interrupted transaction: cut the log ...
RecoverCut ==
  /\ pc = "cut"
  /\ LET n == CutAt(cache, len, floor)
     IN  cache' = Erased(cache, n + 1) /\ disk' = cache' /\ len' = n
  /\ pc' = "finish"
  /\ UNCHANGED <<slot, marker, base, overlay, epoch, save, mine, owed, mode,
                 floor, status, crashes>>

\* Mutant: the rollback is finished without publishing, and starts over.
FinishRollbackAgain ==
  /\ pc = "finish"
  /\ pc' = IF slot.epoch > base.epoch THEN "cut" ELSE "forget"
  /\ UNCHANGED <<logVars, slot, base, marker, overlay, epoch, save, mine, owed, mode,
                 floor, status, crashes>>

\* ... publish the kept header past what the crash left ...
FinishRollback ==
  /\ pc = "finish"
  /\ IF slot.epoch > base.epoch
     THEN base' = [base EXCEPT !.epoch = slot.epoch + 1] /\ slot' = base'
     ELSE UNCHANGED <<base, slot>>
  /\ pc' = "forget"
  /\ UNCHANGED <<logVars, marker, overlay, epoch, save, mine, owed, mode, floor,
                 status, crashes>>

\* ... and say the transaction is over.
ForgetKept ==
  /\ mode = "recover" /\ pc = "forget"
  /\ marker' = NoMarker /\ pc' = "replay"
  /\ UNCHANGED <<logVars, slot, base, overlay, epoch, save, mine, owed, mode,
                 floor, status, crashes>>

\* Writer::open: Mvcc::recover_with replays what the base has not folded.
ReplayLog ==
  /\ pc = "replay"
  /\ LET r == Replay(cache, len, base.seq)
     IN  overlay' = r.out /\ epoch' = r.epoch
  /\ pc' = "fold" /\ floor' = 0
  /\ UNCHANGED <<logVars, slot, marker, base, save, mine, owed, mode, status, crashes>>

\* And the fold that opening a writer ends in, which does nothing over a log
\* that is empty.
OpenFold ==
  /\ pc = "fold"
  /\ IF len = 0
     THEN /\ mode' = "idle" /\ pc' = "none"
          /\ UNCHANGED <<base, slot, overlay>>
     ELSE /\ base' = Folded /\ slot' = Folded /\ overlay' = <<>>
          /\ pc' = "truncate" /\ UNCHANGED mode
  /\ UNCHANGED <<logVars, marker, epoch, save, mine, owed, floor, status, crashes>>

------------------------------------------------------------------------------
Step ==
  \/ StageCommit \/ StageDeferred \/ StagedFold \/ CheckpointFold \/ Truncate
  \/ Settle \/ Durable \/ DurableSealed \/ SettleInside \/ Commit
  \/ RollbackSavepoint \/ UndoDone
  \/ Open \/ RecoverCut \/ FinishRollback \/ ForgetKept \/ ReplayLog \/ OpenFold

Next ==
  \/ \E i \in Index : Writeback(i)
  \/ \E across \in BOOLEAN : Hold(across)
  \/ Keep \/ Undo \/ Crash \/ Step

Spec == Init /\ [][Next]_vars

\* What has begun goes on: a handler in progress takes its next step, and a
\* file that is down is opened again.
RecoverStep == Open \/ RecoverCut \/ FinishRollback \/ ForgetKept \/ ReplayLog
               \/ OpenFold \/ (mode \notin {"stmt", "txn"} /\ Truncate)
               \/ RollbackSavepoint \/ UndoDone
FairSpec == Spec /\ WF_vars(RecoverStep)

------------------------------------------------------------------------------
(* Properties.                                                             *)

\* The log is well formed, the epochs stay within the commits made, and the
\* published header is never ahead of the writer's but after a crash.
TypeOK ==
  /\ cache \in [Index -> Cell] /\ disk \in [Index -> Cell] /\ len \in 0..MaxLog
  /\ slot.epoch <= base.epoch \/ mode \in {"down", "recover"}
  /\ epoch \in 0..MaxTxn /\ mine \subseteq Txn /\ owed \in BOOLEAN
  /\ mode \in {"idle", "stmt", "txn", "undo", "recover", "down"}
  /\ pc \in {"none", "kept", "logged", "truncate", "restore", "forget", "replay",
             "fold", "cut", "finish"}
  /\ status \in [Txn -> {"new", "staged", "acked", "unsure", "undone"}]

\* Session::durable, COMMIT: a commit the caller was told of is in the database for good: through later
\* statements, rollbacks of other transactions, crashes and recoveries.
AckedSurvive ==
  mode = "idle" => \A t \in Txn : status[t] = "acked" => t \in Range(View)

\* Session::undo, fold::recover: what was rolled back, or died inside a transaction, never comes back.
UndoneStaysUndone ==
  mode = "idle" => \A t \in Txn : status[t] = "undone" => t \notin Range(View)

\* Wal::replay over a base that folded part of the log: no commit is applied
\* twice, and none before one it was made after.
AppliedOnceInOrder ==
  mode = "idle" => \A i, j \in DOMAIN View : i < j => View[i] < View[j]

\* Mvcc::recover_with and fold: the log and the base stay well formed, and
\* together hold each commit once and in order.
ReplayInv == TypeOK /\ AppliedOnceInOrder

\* Zu1File::open_kind to Writer::open: a file a crash left comes back up, unless it keeps crashing.
ComesBack == mode \in {"down", "undo"} ~> mode = "idle"
==============================================================================
