----------------------------- MODULE BlockFile -----------------------------
(***************************************************************************)
(* Block allocation of a zu1 file (crates/zu-zu1/src/file.rs): which block *)
(* may be overwritten when.  A fold writes new blocks and frees old ones;  *)
(* a checkpoint writes the free list into a chain of blocks, syncs, and    *)
(* flips to the other header slot; a savepoint keeps a header a rollback   *)
(* (or, through the marker slot, a recovery) goes back to; statements on   *)
(* other connections lease the header they read.                           *)
(*                                                                         *)
(* A header is everything a reader of the file starts from.  Its "ok"      *)
(* field is a history variable: it turns FALSE when a block the header     *)
(* reaches is overwritten, or lost by a crash before a sync.  The module   *)
(* is about one thing: no header somebody will still read ever turns bad.  *)
(***************************************************************************)
EXTENDS Integers, Sequences, FiniteSets, SequencesExt, FiniteSetsExt, Functions

CONSTANTS
  Reader,     \* statements on other connections
  ChainCap,   \* free-list entries one chain block holds (CHAIN_CAPACITY / 8)
  MaxBlock,   \* bound: blocks the file may grow to
  MaxEpoch,   \* bound: header epochs
  MaxCrash,   \* bound: crashes
  MaxFail,    \* bound: folds that fail partway
  MaxFreed,   \* bound: blocks one fold replaces
  Allow       \* caller behaviours exercised, a subset of Behaviours

\* What callers of the file may do, kept apart so that a run can say which of
\* them a property survives:
\* "explicit"  - transactions across statements (START TRANSACTION);
\* "unfolded"  - one that begins while folds are staged and not published;
\* "multipart" - a statement that commits more than once;
\* "raise"     - a statement that raises after it has checkpointed;
\* "carryon"   - folding again, with nothing undone, after a fold that failed.
Behaviours == {"explicit", "unfolded", "multipart", "raise", "carryon"}

ASSUME BlockFileAssumption ==
  /\ ChainCap \in Nat \ {0} /\ MaxBlock \in Nat /\ MaxEpoch \in Nat \ {0}
  /\ MaxCrash \in Nat /\ MaxFail \in Nat /\ MaxFreed \in Nat /\ Allow \subseteq Behaviours

Slot == {"A", "B"}
OnDisk == Slot \cup {"marker"}
InMemory == {"db", "kept", "shared", "staged"}
\* Everything that holds a header: the two slots and the marker on disk;
\* the writing handle, its savepoint, the published state, the state staged
\* for publishing, and the leases of the readers.
Holder == OnDisk \cup InMemory \cup Reader
ASSUME ReaderAssumption == Reader \cap (OnDisk \cup InMemory) = {}

\* What is in a slot that is zeroed or torn, or was never taken.
NoHeader == [epoch |-> 0]

Header == [epoch : 1..MaxEpoch, roots : SUBSET (1..MaxBlock), count : 0..MaxBlock,
           list : Seq(1..MaxBlock), chain : Seq(1..MaxBlock), ok : BOOLEAN]

VARIABLES
  hdr,        \* the header each holder has, or NoHeader
  active,     \* the slot the last flip wrote
  free,       \* committed-free blocks; allocation pops the end
  pending,    \* pending_free: freed since the last checkpoint
  frozen,     \* free blocks the open savepoint may not write into
  retained,   \* blocks waiting for readers, each with the epoch it was let go
              \* under: the groups of the code's list, one after another
  save,       \* the open savepoint beside its header, or NoSave
  mode,       \* what the writing side is in the middle of
  pc,         \* and which step of it comes next
  dirty,      \* blocks written since the last sync
  published,  \* Interrupted::published: the epoch a crash left, else 0
  crashes, fails

vars == <<hdr, active, free, pending, frozen, retained, save, mode, pc,
          dirty, published, crashes, fails>>

NoSave == [free |-> <<>>, across |-> FALSE, published |-> FALSE,
           marked |-> FALSE, began |-> 0]
InSavepoint == mode \in {"stmt", "txn"}

\* Every header stays within the blocks and epochs the file has, and every
\* list of blocks allocate_block, free_block and checkpoint keep names only
\* blocks of the file.
TypeOK ==
  /\ hdr \in [Holder -> Header \cup {NoHeader}]
  /\ active \in Slot
  /\ free \in Seq(1..MaxBlock) /\ pending \in Seq(1..MaxBlock)
  /\ frozen \in Seq(1..MaxBlock)
  /\ retained \in Seq([epoch : 1..MaxEpoch, block : 1..MaxBlock])
  /\ mode \in {"idle", "stmt", "raised", "txn", "undo", "recover", "down"}
  /\ pc \in {"none", "kept", "chain", "sync", "flip", "forget"}
  /\ dirty \subseteq 1..MaxBlock
  /\ published \in 0..MaxEpoch /\ crashes \in 0..MaxCrash /\ fails \in 0..MaxFail

------------------------------------------------------------------------------
(* Headers and the blocks they reach.                                      *)

db == hdr["db"]
Reach(h) == h.roots \cup Range(h.chain)

\* What a header is worth once the blocks of B have been overwritten.
Overwritten(h, B) ==
  IF h = NoHeader THEN h ELSE [h EXCEPT !.ok = @ /\ Reach(h) \cap B = {}]
WriteBlocks(B) == [x \in Holder |-> Overwritten(hdr[x], B)]

\* DatabaseHeader choice of Zu1File::open_kind: the newer of the two slots,
\* slot A on a tie, and a slot that does not decode never.
Newest(h) == IF h["A"] # NoHeader
                /\ (h["B"] = NoHeader \/ h["A"].epoch >= h["B"].epoch)
             THEN "A" ELSE "B"

\* The header an open adopts: the one the marker keeps, unless that is ahead
\* of what is published.
MarkerWins(h) == h["marker"] # NoHeader /\ h["marker"].epoch <= h[Newest(h)].epoch
Adopted(h) == IF MarkerWins(h) THEN h["marker"] ELSE h[Newest(h)]

------------------------------------------------------------------------------
(* Allocation.                                                             *)

\* The k-th number of a set, what is at the places I of s in their order
\* (Vec::retain, Iterator::partition), and a set of blocks as a list.
Nth(set, k) == CHOOSE i \in set : Cardinality({j \in set : j <= i}) = k
At(s, I) == [k \in 1..Cardinality(I) |-> s[Nth(I, k)]]
Ascending(F) == [k \in 1..Cardinality(F) |-> Nth(F, k)]

\* Zu1File::allocate_block, as the block handed out and what is left.
AllocateBlock(f, count) ==
  IF f # <<>> THEN [ptr |-> Last(f), free |-> Front(f), count |-> count]
  ELSE [ptr |-> count + 1, free |-> f, count |-> count + 1]

\* The blocks of a checkpoint's free list and of the chain it is written in.
\* `reserved` is the shortest prefix of the committed-free blocks that can
\* hold a chain of the rest; with too few of them the chain extends the file.
ChainBlocks(len) == (len + ChainCap - 1) \div ChainCap
Reserve(all, safe) ==
  LET c == Min({n \in 0..Len(all) : Len(all) - n <= n * ChainCap})
  IN  IF c <= safe /\ Len(all) > c THEN c ELSE 0
\* Mutant: the blocks the chain is written in stay on the list.
WriteChainListed(all, safe, count) ==
  LET need  == ChainBlocks(Len(all))
      c     == IF need <= safe THEN need ELSE 0
  IN  [list |-> all,
       chain |-> IF c > 0 THEN SubSeq(all, 1, c) ELSE [i \in 1..need |-> count + i],
       count |-> IF c > 0 THEN count ELSE count + need, unused |-> <<>>]
WriteChain(all, safe, count) ==
  LET c     == Reserve(all, safe)
      list  == SubSeq(all, c + 1, Len(all))
      need  == ChainBlocks(Len(list))
      chain == IF c > 0 THEN Reverse(SubSeq(all, c - need + 1, c))
               ELSE [i \in 1..need |-> count + i]
  IN  [list |-> list, chain |-> chain,
       count |-> IF c > 0 THEN count ELSE count + need,
       unused |-> IF c > 0 THEN SubSeq(all, 1, c - need) ELSE <<>>]

\* Zu1File::release_retained: what the readers below `floor` have let go of,
\* split the way a checkpoint splits it.
Waiting(blocks, e) == [i \in DOMAIN blocks |-> [epoch |-> e, block |-> blocks[i]]]
BlocksOf(ret) == [i \in DOMAIN ret |-> ret[i].block]
Ready(ret, floor) == At(BlocksOf(ret), {i \in DOMAIN ret : ret[i].epoch < floor})
StillRetained(ret, floor) == At(ret, {i \in DOMAIN ret : ret[i].epoch >= floor})
Among(s, S) == At(s, {i \in DOMAIN s : s[i] \in S})
Outside(s, S) == At(s, {i \in DOMAIN s : s[i] \notin S})
Reusable(s, inside) == IF inside THEN Among(s, Range(save.free)) ELSE s
Unusable(s, inside) == IF inside THEN Outside(s, Range(save.free)) ELSE <<>>

\* Mutant: the readers of the oldest epoch are taken to be past it.
FloorLate(h) == 1 + Min({h["shared"].epoch} \cup
                        {h[r].epoch : r \in {r \in Reader : h[r] # NoHeader}})

\* FileHandle::reclaim: the floor is the oldest epoch leased, and the writer
\* has just taken a lease on the published epoch itself.
Floor(h) == Min({h["shared"].epoch} \cup
                {h[r].epoch : r \in {r \in Reader : h[r] # NoHeader}})

(* The two sides of the savepoint that reach the disk.                     *)

\* Mutant: the marker waits for a second publish, even across statements.
KeepLate == InSavepoint /\ ~save.marked /\ save.published

\* Zu1File::keep_savepoint: whether the kept header is due on the file.
KeepDue == InSavepoint /\ ~save.marked /\ (save.across \/ save.published)
Kept(h) == IF KeepDue THEN [h EXCEPT !["marker"] = h["kept"]] ELSE h
Marked == IF KeepDue THEN [save EXCEPT !.marked = TRUE] ELSE save

Init ==
  /\ LET fresh == [epoch |-> 1, roots |-> {}, count |-> 0,
                   list |-> <<>>, chain |-> <<>>, ok |-> TRUE]
     IN  hdr = [x \in Holder |-> IF x \in {"A", "db", "shared"} THEN fresh ELSE NoHeader]
  /\ active = "A" /\ free = <<>> /\ pending = <<>> /\ frozen = <<>>
  /\ retained = <<>> /\ save = NoSave /\ mode = "idle" /\ pc = "none"
  /\ dirty = {} /\ published = 0 /\ crashes = 0 /\ fails = 0

------------------------------------------------------------------------------
(* Readers on other connections.                                           *)

\* FileHandle::observe: the published state and a lease on it, together.
Observe(r) ==
  /\ mode # "down" /\ hdr[r] = NoHeader
  /\ hdr' = [hdr EXCEPT ![r] = hdr["shared"]]
  /\ UNCHANGED <<active, free, pending, frozen, retained, save, mode, pc,
                 dirty, published, crashes, fails>>

\* Session::idle, Lease::drop.
Idle(r) ==
  /\ hdr[r] # NoHeader
  /\ hdr' = [hdr EXCEPT ![r] = NoHeader]
  /\ UNCHANGED <<active, free, pending, frozen, retained, save, mode, pc,
                 dirty, published, crashes, fails>>

\* FileHandle::publish_staged, once the log behind the state is durable; a
\* state older than the one in place is dropped.
PublishStaged ==
  /\ hdr["staged"] # NoHeader
  /\ hdr' = [hdr EXCEPT !["staged"] = NoHeader,
                        !["shared"] = IF hdr["staged"].epoch > @.epoch
                                      THEN hdr["staged"] ELSE @]
  /\ UNCHANGED <<active, free, pending, frozen, retained, save, mode, pc,
                 dirty, published, crashes, fails>>

\* FileHandle::reclaim, over the holders `h` and the savepoint state `inside`.
Reclaim(h, ret, fre, fro, inside) ==
  LET ready == Ready(ret, Floor(h))
  IN  /\ retained' = StillRetained(ret, Floor(h))
      /\ free' = fre \o Reusable(ready, inside)
      /\ frozen' = fro \o Unusable(ready, inside)

------------------------------------------------------------------------------
(* A statement that writes, or the first one of a transaction.             *)

\* Session::hold: enter (which shares the state if the log owes nothing, and
\* reclaims) and Zu1File::begin_savepoint.
Hold(across, settled) ==
  /\ mode = "idle" /\ pc = "none"
  /\ across => "explicit" \in Allow
  /\ across /\ "unfolded" \notin Allow => db.epoch = hdr[active].epoch
  /\ LET h == IF settled THEN [hdr EXCEPT !["shared"] = db] ELSE hdr
     IN  /\ hdr' = [h EXCEPT !["kept"] = db]
         /\ Reclaim(h, retained, free, frozen, FALSE)
  /\ save' = [free |-> free', across |-> across, published |-> FALSE,
              marked |-> FALSE, began |-> db.epoch]
  /\ mode' = IF across THEN "txn" ELSE "stmt"
  /\ UNCHANGED <<active, pending, pc, dirty, published, crashes, fails>>

\* Writer::write up to the log: keep_savepoint before the frames go out.
KeepSavepoint ==
  /\ InSavepoint /\ pc = "none"
  /\ mode = "stmt" /\ save.published => "multipart" \in Allow
  /\ hdr' = Kept(hdr) /\ save' = Marked
  /\ dirty' = IF KeepDue THEN {} ELSE dirty
  /\ pc' = "kept"
  /\ UNCHANGED <<active, free, pending, frozen, retained, mode, published, crashes, fails>>

\* Zu1File::stage_deferred: the commit stays in the log.
StageDeferred ==
  /\ pc = "kept"
  /\ save' = [save EXCEPT !.published = TRUE] /\ pc' = "none"
  /\ UNCHANGED <<hdr, active, free, pending, frozen, retained, mode, dirty,
                 published, crashes, fails>>

\* The header once one new block stands for the blocks of F.
Replaced(h, F, ptr, count, next) ==
  [h EXCEPT !.roots = (@ \ F) \cup {ptr}, !.count = count, !.epoch = @ + next]

\* A fold: write one new block, free the blocks it replaces, move the roots.
FoldInto(F, next) ==
  LET a == AllocateBlock(free, db.count)
  IN  /\ a.count <= MaxBlock
      /\ free' = a.free
      /\ pending' = pending \o Ascending(F)
      /\ dirty' = dirty \cup {a.ptr}
      /\ hdr' = [WriteBlocks({a.ptr}) EXCEPT !["db"] =
                   Replaced(@, F, a.ptr, a.count, next)]

\* fold::staged_fold, ending in Zu1File::stage_fold.
StagedFold(F) ==
  /\ pc = "kept" /\ db.epoch < MaxEpoch
  /\ FoldInto(F, 1)
  /\ save' = [save EXCEPT !.published = TRUE]
  /\ pc' = "none"
  /\ UNCHANGED <<active, frozen, retained, mode, published, crashes, fails>>

\* fold::checkpoint_fold up to db.checkpoint(): a commit past the growth
\* threshold, a catalog change inside a statement, or, outside any savepoint,
\* the fold that opens or closes a writer.
CheckpointFold(F) ==
  /\ mode \in {"idle", "stmt", "txn"} /\ pc \in {"none", "kept"}
  /\ mode = "stmt" /\ pc = "none" /\ save.published => "multipart" \in Allow
  /\ db.epoch < MaxEpoch
  /\ FoldInto(F, 0)
  /\ pc' = "chain"
  /\ UNCHANGED <<active, frozen, retained, save, mode, published, crashes, fails>>

\* A fold whose write fails after it has freed what it was replacing: the
\* roots stay, and so do the frees and the block it took.  A statement of
\* its own is undone; inside a transaction the transaction goes on.
FoldFails(F) ==
  /\ fails < MaxFail
  /\ mode # "stmt" => "carryon" \in Allow
  /\ mode \in {"idle", "stmt", "txn"} /\ pc \in {"none", "kept"}
  /\ LET a == AllocateBlock(free, db.count)
     IN  /\ a.count <= MaxBlock
         /\ free' = a.free /\ dirty' = dirty \cup {a.ptr}
         /\ hdr' = [WriteBlocks({a.ptr}) EXCEPT !["db"].count = a.count]
  /\ pending' = pending \o Ascending(F)
  /\ fails' = fails + 1
  /\ pc' = "none"
  /\ mode' = IF mode = "stmt" THEN "raised" ELSE mode
  /\ UNCHANGED <<active, frozen, retained, save, published, crashes>>

------------------------------------------------------------------------------
(* Zu1File::checkpoint, in the three steps a crash can fall between.       *)

\* The header without the chain it was read from, and with the one written.
Unchained(h) == [h EXCEPT !.chain = <<>>]
Listed(h, w) == [h EXCEPT !.list = w.list, !.chain = w.chain, !.count = w.count]

\* Keep the savepoint, gather everything free, and write the list.  The
\* in-memory lists take their values here; nothing reads them before the flip.
CheckpointChain ==
  /\ pc = "chain" /\ db.epoch < MaxEpoch
  /\ LET all     == free \o frozen \o pending \o db.chain
         reached == Range(pending) \cup Range(db.chain)
         w       == WriteChain(all, Len(free), db.count)
         rest    == w.list \o w.unused
         held    == Among(rest, reached)
         avail   == Outside(rest, reached)
         let_go  == [Kept(hdr) EXCEPT !["db"] = Unchained(@)]
     IN  /\ w.count <= MaxBlock
         /\ hdr' = [x \in Holder |->
                      LET h == Overwritten(let_go[x], Range(w.chain))
                      IN  IF x = "db" THEN Listed(h, w) ELSE h]
         /\ free' = Reusable(avail, InSavepoint)
         /\ frozen' = Unusable(avail, InSavepoint)
         /\ retained' = retained \o Waiting(held, db.epoch)
         /\ dirty' = (IF KeepDue THEN {} ELSE dirty) \cup Range(w.chain)
  /\ save' = [Marked EXCEPT !.published = InSavepoint]
  /\ pending' = <<>> /\ pc' = "sync"
  /\ UNCHANGED <<active, mode, published, crashes, fails>>

\* Mutant: the flip does not wait for the blocks.
CheckpointNoSync ==
  /\ pc = "sync" /\ pc' = "flip"
  /\ UNCHANGED <<hdr, active, free, pending, frozen, retained, save, mode, dirty,
                 published, crashes, fails>>

CheckpointSync ==
  /\ pc = "sync"
  /\ dirty' = {} /\ pc' = "flip"
  /\ UNCHANGED <<hdr, active, free, pending, frozen, retained, save, mode,
                 published, crashes, fails>>

Inactive == IF active = "A" THEN "B" ELSE "A"
Flipped == [db EXCEPT !.epoch = @ + 1]

CheckpointFlip ==
  /\ pc = "flip"
  /\ hdr' = [hdr EXCEPT ![Inactive] = Flipped, !["db"] = Flipped]
  /\ active' = Inactive
  /\ pc' = IF mode \in {"undo", "recover"} THEN "forget" ELSE "none"
  /\ UNCHANGED <<free, pending, frozen, retained, save, mode, dirty,
                 published, crashes, fails>>

------------------------------------------------------------------------------
(* The end of a statement or a transaction.                                *)

\* Zu1File::release_savepoint: what it froze waits for the readers, and the
\* marker goes.
Released(ret) == ret \o Waiting(frozen, save.began)
Unmarked(h) == [h EXCEPT !["kept"] = NoHeader,
                         !["marker"] = IF save.marked THEN NoHeader ELSE @]

\* Session::settle of a statement that answered: release, stage the state
\* for publishing, reclaim.
SettleKeeps ==
  /\ mode = "stmt" /\ pc = "none"
  /\ LET h == [Unmarked(hdr) EXCEPT !["staged"] = db]
     IN  hdr' = h /\ Reclaim(h, Released(retained), free, <<>>, FALSE)
  /\ save' = NoSave /\ mode' = "idle"
  /\ UNCHANGED <<active, pending, pc, dirty, published, crashes, fails>>

\* Session::settle of a statement inside a transaction: it keeps the side and
\* the savepoint, and its state is staged and published all the same.
SettleInside ==
  /\ mode = "txn" /\ pc = "none"
  /\ LET h == [hdr EXCEPT !["staged"] = db]
     IN  hdr' = h /\ Reclaim(h, retained, free, frozen, TRUE)
  /\ UNCHANGED <<active, pending, save, mode, pc, dirty, published, crashes, fails>>

\* COMMIT.
Commit ==
  /\ mode = "txn" /\ pc = "none"
  /\ hdr' = Unmarked(hdr)
  /\ retained' = Released(retained) /\ frozen' = <<>>
  /\ save' = NoSave /\ mode' = "idle"
  /\ UNCHANGED <<active, free, pending, pc, dirty, published, crashes, fails>>

\* Vec::retain of rollback_savepoint: what older checkpoints hold for readers.
LetGoBefore(e) == At(retained, {i \in DOMAIN retained : retained[i].epoch < e})

\* Mutants: the kept header goes back under its own epoch; what the
\* transaction freed is still published as free.
RollbackOldEpoch ==
  /\ mode \in {"stmt", "raised", "txn"} /\ pc = "none"
  /\ mode # "txn" /\ hdr[active].epoch > hdr["kept"].epoch => "raise" \in Allow
  /\ hdr' = [hdr EXCEPT !["db"] = hdr["kept"]]
  /\ free' = save.free /\ pending' = <<>> /\ frozen' = <<>>
  /\ retained' = LetGoBefore(hdr["kept"].epoch)
  /\ mode' = "undo"
  /\ pc' = IF db.epoch # hdr["kept"].epoch THEN "chain" ELSE "forget"
  /\ UNCHANGED <<active, save, dirty, published, crashes, fails>>
RollbackKeepsFrees ==
  /\ mode \in {"stmt", "raised", "txn"} /\ pc = "none"
  /\ mode # "txn" /\ hdr[active].epoch > hdr["kept"].epoch => "raise" \in Allow
  /\ hdr' = [hdr EXCEPT !["db"] = [hdr["kept"] EXCEPT !.epoch = db.epoch]]
  /\ free' = save.free /\ frozen' = <<>>
  /\ retained' = LetGoBefore(hdr["kept"].epoch)
  /\ mode' = "undo"
  /\ pc' = IF db.epoch # hdr["kept"].epoch THEN "chain" ELSE "forget"
  /\ UNCHANGED <<active, pending, save, dirty, published, crashes, fails>>

\* ROLLBACK, or a statement that raised: Zu1File::rollback_savepoint puts the
\* kept header back under the newest epoch and, if that moved, checkpoints.
RollbackSavepoint ==
  /\ mode \in {"stmt", "raised", "txn"} /\ pc = "none"
  /\ mode # "txn" /\ hdr[active].epoch > hdr["kept"].epoch => "raise" \in Allow
  /\ hdr' = [hdr EXCEPT !["db"] = [hdr["kept"] EXCEPT !.epoch = db.epoch]]
  /\ free' = save.free /\ pending' = <<>> /\ frozen' = <<>>
  /\ retained' = LetGoBefore(hdr["kept"].epoch)
  /\ mode' = "undo"
  /\ pc' = IF db.epoch # hdr["kept"].epoch THEN "chain" ELSE "forget"
  /\ UNCHANGED <<active, save, dirty, published, crashes, fails>>

\* The rest of Session::undo, and of the settle behind it: forget the marker,
\* share the state, reclaim.
UndoDone ==
  /\ mode = "undo" /\ pc = "forget"
  /\ LET h == [Unmarked(hdr) EXCEPT !["shared"] = db, !["staged"] = NoHeader]
     IN  hdr' = h /\ Reclaim(h, retained, free, frozen, FALSE)
  /\ save' = NoSave /\ mode' = "idle" /\ pc' = "none"
  /\ UNCHANGED <<active, pending, dirty, published, crashes, fails>>

------------------------------------------------------------------------------
(* A process that goes away, and the next open.                            *)

\* What a crash leaves of the slot a flip was writing: the old header, a torn
\* one no crc accepts, or the new one.
FlipOutcomes == IF pc = "flip" THEN {hdr[Inactive], NoHeader, Flipped}
                ELSE {hdr[Inactive]}

Crash(slot) ==
  /\ crashes < MaxCrash /\ mode # "down"
  /\ hdr' = [x \in Holder |->
               IF x \notin OnDisk THEN NoHeader
               ELSE Overwritten(IF x = Inactive THEN slot ELSE hdr[x], dirty)]
  /\ free' = <<>> /\ pending' = <<>> /\ frozen' = <<>> /\ retained' = <<>>
  /\ save' = NoSave /\ mode' = "down" /\ pc' = "none" /\ dirty' = {}
  /\ published' = 0 /\ crashes' = crashes + 1
  /\ UNCHANGED <<active, fails>>

\* Zu1File::open_kind: adopt a header and read its free list.
Open ==
  /\ mode = "down"
  /\ LET h == Adopted(hdr)
     IN  /\ hdr' = [hdr EXCEPT !["db"] = h, !["shared"] = h]
         /\ free' = h.list
  /\ active' = Newest(hdr)
  /\ published' = IF hdr["marker"] # NoHeader THEN hdr[Newest(hdr)].epoch ELSE 0
  /\ mode' = IF hdr["marker"] # NoHeader THEN "recover" ELSE "idle"
  /\ UNCHANGED <<pending, frozen, retained, save, pc, dirty, crashes, fails>>

\* Zu1File::finish_rollback, from fold::recover.
FinishRollback ==
  /\ mode = "recover" /\ pc = "none"
  /\ hdr' = [hdr EXCEPT !["db"].epoch = IF published > @ THEN published ELSE @]
  /\ pc' = IF published > db.epoch THEN "chain" ELSE "forget"
  /\ UNCHANGED <<active, free, pending, frozen, retained, save, mode, dirty,
                 published, crashes, fails>>

ForgetKept ==
  /\ mode = "recover" /\ pc = "forget"
  /\ hdr' = [hdr EXCEPT !["marker"] = NoHeader, !["shared"] = db]
  /\ mode' = "idle" /\ pc' = "none" /\ published' = 0
  /\ UNCHANGED <<active, free, pending, frozen, retained, save, dirty, crashes, fails>>

------------------------------------------------------------------------------
Freed == {F \in SUBSET db.roots : Cardinality(F) <= MaxFreed}

Next ==
  \/ \E r \in Reader : Observe(r) \/ Idle(r)
  \/ PublishStaged
  \/ \E across, settled \in BOOLEAN : Hold(across, settled)
  \/ KeepSavepoint \/ StageDeferred
  \/ mode # "down" /\ \E F \in Freed : StagedFold(F) \/ CheckpointFold(F) \/ FoldFails(F)
  \/ CheckpointChain \/ CheckpointSync \/ CheckpointFlip
  \/ SettleKeeps \/ SettleInside \/ Commit
  \/ RollbackSavepoint \/ UndoDone
  \/ \E slot \in FlipOutcomes : Crash(slot)
  \/ Open \/ FinishRollback \/ ForgetKept

Spec == Init /\ [][Next]_vars

------------------------------------------------------------------------------
(* Properties.                                                             *)

\* checkpoint, keep_savepoint: the header the next open would adopt is whole, at every moment a crash
\* can fall: nothing it reaches has been overwritten or left unsynced.
RecoveryIntact == LET h == [x \in Holder |-> IF x \in OnDisk
                                THEN Overwritten(hdr[x], dirty) ELSE hdr[x]]
                  IN  Adopted(h).ok

\* allocate_block hands out nothing in use: what the writing handle itself is
\* on is whole, after a rollback_savepoint and after a recovery too.
WriterIntact == mode # "down" => db.ok

\* observe, reclaim: a statement that has started reads what it took at the top to the end: no
\* block its leased header reaches is overwritten while the lease stands.
LeasedIntact == \A r \in Reader : hdr[r] # NoHeader => hdr[r].ok

\* free_block, checkpoint, release_retained, rollback_savepoint move blocks
\* between lists; no block is in two places: live in the writer's header, holding the free
\* list, free, freed and unpublished, frozen, or waiting for a reader; and
\* none is there twice.  A statement that raised has lists its rollback drops.
PlacesDisjoint ==
  mode \notin {"down", "raised"} =>
    IsInjective(SetToSeq(db.roots) \o db.chain \o free \o pending \o frozen
                \o BlocksOf(retained))

\* The free list a checkpoint publishes names no block its roots reach, and
\* none twice, which the next open would refuse.
ListSound == \A s \in Slot : hdr[s] # NoHeader =>
                /\ IsInjective(hdr[s].list)
                /\ Range(hdr[s].list) \cap Reach(hdr[s]) = {}

\* allocate_block, free_block, checkpoint, the savepoints and open_kind: in
\* memory and on disk every block is in one place, and within the file.
ListInv == TypeOK /\ PlacesDisjoint /\ ListSound

\* rollback_savepoint: a rollback that has flipped is what the next open reads, not the last
\* state of the transaction it took back.
RollbackWins ==
  mode = "undo" /\ pc = "forget" /\ db.epoch = hdr[active].epoch
    => Adopted(hdr).roots = hdr["kept"].roots

\* keep_savepoint, open_kind: a crash inside a transaction is the rollback the transaction was promised:
\* whatever it has folded and checkpointed, an open adopts the header it
\* began on, or an older one whose log still holds the difference.
CrashRollsBack ==
  mode = "txn" => \/ Adopted(hdr).roots = hdr["kept"].roots
                  \/ Adopted(hdr).epoch < hdr["kept"].epoch
==============================================================================
