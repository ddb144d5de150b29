-------------------------- MODULE BlockFileProofs --------------------------
(* Proofs about the savepoints and the blocks of crates/zu-zu1/src/file.rs, *)
(* for any number of readers, blocks, epochs and crashes.                   *)
(*                                                                          *)
(* First: a rollback is what the next open reads, and so is a crash inside  *)
(* a transaction, whatever the callers do.  Both are about which header an  *)
(* open adopts, so the proof looks at five holders only, and of a header    *)
(* only at its epoch and its roots: writing blocks, and moving them between *)
(* lists, leaves those alone.                                               *)
(*                                                                          *)
(* Then: no block is in two places, and none is overwritten that a header   *)
(* somebody will still read reaches: the writer's, the one the next open    *)
(* adopts, those of the readers.  The proof has four layers, each on the    *)
(* ones before: what is in range (TypeInv); what is in memory (MemInv);     *)
(* what is on disk (DiskInv); what is leased (LeaseInv).                    *)
EXTENDS BlockFile, FiniteSetTheorems, FunctionTheorems, SequenceTheorems,
        WellFoundedInduction, TLAPS

Fields == {"epoch", "roots", "count", "list", "chain", "ok"}
IsHeader(h) == DOMAIN h = Fields /\ h.epoch \in Nat \ {0}
Core == OnDisk \cup {"db", "kept"}

\* A header as an open sees it: same epoch, same roots.
Like(g, h) == IF h = NoHeader THEN g = NoHeader
              ELSE IsHeader(g) /\ g.epoch = h.epoch /\ g.roots = h.roots

HeadsInv == /\ DOMAIN hdr = Holder
            /\ \A x \in Core : hdr[x] = NoHeader \/ IsHeader(hdr[x])

Saved == mode \in {"stmt", "raised", "txn", "undo"}
Unset == mode = "recover" /\ pc = "none"

ControlInv ==
  /\ active \in Slot
  /\ mode \in {"idle", "stmt", "raised", "txn", "undo", "recover", "down"}
  /\ pc \in {"none", "kept", "chain", "sync", "flip", "forget"}
  /\ pc = "kept" => mode \in {"stmt", "txn"}
  /\ pc = "forget" => mode \in {"undo", "recover"}
  /\ mode \in {"raised", "down"} => pc = "none"
  /\ mode = "undo" => pc # "none"

\* A file that is open wrote its newest slot last.
SlotsInv ==
  /\ hdr[Newest(hdr)] # NoHeader
  /\ mode # "down" => active = Newest(hdr)

\* A marker of the published epoch keeps the published roots.
MarkerInv ==
  /\ hdr["marker"] # NoHeader /\ hdr["marker"].epoch = hdr[Newest(hdr)].epoch
       => hdr["marker"].roots = hdr[Newest(hdr)].roots
  /\ mode = "idle" => hdr["marker"] = NoHeader

\* The writer is ahead of what is published, or on it; only a recovery that
\* has not finished its rollback is behind.
WriterInv ==
  mode # "down" =>
    /\ db # NoHeader
    /\ ~Unset => db.epoch >= hdr[active].epoch
    /\ pc \in {"none", "kept", "forget"} /\ db.epoch = hdr[active].epoch
         => db.roots = hdr[active].roots

RecoverInv ==
  mode = "recover" =>
    /\ hdr["marker"] # NoHeader
    /\ pc = "none" => /\ published = hdr[active].epoch /\ db.epoch <= published
                      /\ db.epoch < published => hdr["marker"].epoch = db.epoch
    /\ pc \in {"chain", "sync", "flip"} => hdr["marker"].epoch <= db.epoch

\* The kept header is behind the writer, and it is what the marker holds.
SaveInv ==
  Saved =>
    /\ hdr["kept"] # NoHeader /\ hdr["kept"].epoch <= db.epoch
    /\ hdr["kept"].epoch = hdr[active].epoch => hdr["kept"].roots = hdr[active].roots
    /\ IF save.marked THEN Like(hdr["marker"], hdr["kept"])
       ELSE hdr["marker"] = NoHeader
    /\ mode = "undo" => db.roots = hdr["kept"].roots

\* A transaction flips nothing before its marker is on the file.
TxnInv ==
  mode = "txn" =>
    /\ save.across
    /\ ~save.marked => hdr[active].epoch <= hdr["kept"].epoch
    /\ pc \in {"sync", "flip"} => save.marked

SaveRecord == DOMAIN save = {"free", "across", "published", "marked", "began"}

SavepointInv == /\ HeadsInv /\ SaveRecord /\ ControlInv /\ SlotsInv /\ MarkerInv
                /\ WriterInv /\ RecoverInv /\ SaveInv /\ TxnInv

---------------------------------------------------------------------------
(* Headers. *)

(* The holders that matter are five different ones, and no reader is one. *)
LEMMA CoreHolders ==
  /\ Core = {"A", "B", "marker", "db", "kept"} /\ Core \subseteq Holder
  /\ Reader \cap Core = {} /\ {"shared", "staged"} \cap Core = {}
BY ReaderAssumption DEF Core, OnDisk, InMemory, Slot, Holder

(* A slot that holds a header is not an empty one. *)
LEMMA HeaderThere == ASSUME NEW h, IsHeader(h) PROVE h # NoHeader
BY DEF IsHeader, NoHeader

(* A header an open cannot tell from itself.                                *)
LEMMA LikeSelf == ASSUME NEW h, h = NoHeader \/ IsHeader(h) PROVE Like(h, h)
BY DEF Like

(* write_block over blocks a header reaches leaves its epoch and roots. *)
LEMMA OverwrittenLike ==
  ASSUME NEW h, h = NoHeader \/ IsHeader(h), NEW B PROVE Like(Overwritten(h, B), h)
<1>1. CASE h = NoHeader
  BY <1>1 DEF Overwritten, Like
<1>2. CASE h # NoHeader
  <2>1. Overwritten(h, B) = [h EXCEPT !.ok = @ /\ Reach(h) \cap B = {}]
    BY <1>2 DEF Overwritten
  <2> DEFINE b == h.ok /\ Reach(h) \cap B = {}
  <2>2. [h EXCEPT !.ok = b].epoch = h.epoch /\ [h EXCEPT !.ok = b].roots = h.roots
        /\ DOMAIN [h EXCEPT !.ok = b] = Fields
    <3> HIDE DEF b
    <3>1. QED BY <1>2 DEF IsHeader, Fields
  <2>3. QED BY <1>2, <2>1, <2>2 DEF Like, IsHeader
<1>3. QED BY <1>1, <1>2

(* The newest slot is chosen by the epochs, so headers that are alike are   *)
(* chosen alike.                                                            *)
LEMMA NewestLike ==
  ASSUME NEW g, NEW h, \A x \in Slot : Like(g[x], h[x]) /\ (h[x] = NoHeader \/ IsHeader(h[x]))
  PROVE  Newest(g) = Newest(h) /\ Newest(h) \in Slot
BY HeaderThere DEF Newest, Slot, Like

(* A step that leaves every header of the five alike, the savepoint alone,  *)
(* and the writer where it is or one step further in a checkpoint that owes *)
(* no marker, keeps it all.                                                 *)
LEMMA QuietStep ==
  ASSUME SavepointInv, DOMAIN hdr' = Holder, \A x \in Core : Like(hdr'[x], hdr[x]),
         UNCHANGED <<active, mode, published>>,
         SaveRecord', save'.across = save.across, save'.marked = save.marked,
         \/ pc' = pc
         \/ pc = "sync" /\ pc' = "flip"
         \/ pc = "chain" /\ pc' = "sync" /\ mode # "txn"
  PROVE  SavepointInv'
<1>1. \A x \in Core : /\ hdr[x] = NoHeader \/ IsHeader(hdr[x])
                      /\ Like(hdr'[x], hdr[x])
                      /\ hdr'[x] = NoHeader \/ IsHeader(hdr'[x])
                      /\ hdr'[x] = NoHeader <=> hdr[x] = NoHeader
  BY HeaderThere DEF Like, SavepointInv, HeadsInv
<1>2. Newest(hdr') = Newest(hdr) /\ Newest(hdr) \in Core /\ active \in Core
  BY <1>1, NewestLike, CoreHolders DEF SavepointInv, ControlInv, Slot
<1>3. \A x \in Core : hdr[x] # NoHeader =>
         hdr'[x].epoch = hdr[x].epoch /\ hdr'[x].roots = hdr[x].roots /\ hdr[x].epoch \in Nat
  BY <1>1 DEF Like, IsHeader
<1>4. {"marker", "db", "kept"} \subseteq Core
  BY CoreHolders
<1>5. HeadsInv' /\ SaveRecord' /\ ControlInv'
  BY <1>1 DEF SavepointInv, HeadsInv, SaveRecord, ControlInv
<1>6. SlotsInv' /\ MarkerInv'
  BY <1>1, <1>2, <1>3, <1>4 DEF SavepointInv, SlotsInv, MarkerInv
<1>7. WriterInv'
  BY <1>1, <1>2, <1>3, <1>4 DEF SavepointInv, SlotsInv, WriterInv, Unset, db
<1>8. RecoverInv' /\ TxnInv'
  BY <1>1, <1>2, <1>3, <1>4 DEF SavepointInv, SlotsInv, WriterInv, RecoverInv, TxnInv, db
<1>9. SaveInv'
  <2>1. Like(hdr["marker"], hdr["kept"]) => Like(hdr'["marker"], hdr'["kept"])
    BY <1>1, <1>3, <1>4 DEF Like
  <2>2. QED BY <1>1, <1>2, <1>3, <1>4, <2>1 DEF SavepointInv, SlotsInv, WriterInv, SaveInv, Saved, db
<1>10. QED BY <1>5, <1>6, <1>7, <1>8, <1>9 DEF SavepointInv

---------------------------------------------------------------------------
(* The steps. *)

(* What the invariant says of the five headers, ready to cite. *)
LEMMA CoreFacts ==
  ASSUME SavepointInv
  PROVE  /\ DOMAIN hdr = Holder /\ Newest(hdr) \in Slot /\ active \in Slot
         /\ \A x \in Core : \/ hdr[x] = NoHeader
                            \/ IsHeader(hdr[x]) /\ hdr[x] # NoHeader /\ hdr[x].epoch \in Nat
         /\ \A x \in Core : Like(hdr[x], hdr[x])
         /\ Slot \subseteq Core /\ {"marker", "db", "kept"} \subseteq Core
BY HeaderThere, LikeSelf, CoreHolders
   DEF SavepointInv, HeadsInv, ControlInv, IsHeader, Newest, Slot

(* Writing blocks changes no header an open could tell apart. *)
LEMMA WriteBlocksLike ==
  ASSUME SavepointInv, NEW B
  PROVE  /\ DOMAIN WriteBlocks(B) = Holder
         /\ \A x \in Core : Like(WriteBlocks(B)[x], hdr[x])
BY CoreFacts, CoreHolders, OverwrittenLike DEF WriteBlocks, SavepointInv, HeadsInv

(* observe, Lease::drop, publish_staged, and the ends of statements that    *)
(* only stage a state or sync: the headers an open reads stay.              *)
LEMMA ReadersStep ==
  ASSUME SavepointInv,
         (\E r \in Reader : Observe(r) \/ Idle(r)) \/ PublishStaged
           \/ SettleInside \/ CheckpointSync
  PROVE  SavepointInv'
<1>0. save' = save => SaveRecord' /\ save'.across = save.across /\ save'.marked = save.marked
  BY DEF SavepointInv, SaveRecord
<1>1. CASE \E r \in Reader : Observe(r) \/ Idle(r)
  <2>1. PICK r \in Reader : Observe(r) \/ Idle(r)
    BY <1>1
  <2>2. DOMAIN hdr' = Holder /\ \A x \in Core : hdr'[x] = hdr[x]
    BY <2>1, CoreFacts, CoreHolders DEF Observe, Idle
  <2>3. UNCHANGED <<active, save, mode, pc, published>>
    BY <2>1 DEF Observe, Idle
  <2>4. QED BY <2>2, <2>3, CoreFacts, <1>0, QuietStep
<1>2. CASE PublishStaged
  <2>1. DOMAIN hdr' = Holder /\ \A x \in Core : hdr'[x] = hdr[x]
    BY <1>2, CoreFacts, CoreHolders DEF PublishStaged
  <2>2. QED BY <1>2, <2>1, CoreFacts, <1>0, QuietStep DEF PublishStaged
<1>3. CASE SettleInside
  <2>1. DOMAIN hdr' = Holder /\ \A x \in Core : hdr'[x] = hdr[x]
    BY <1>3, CoreFacts, CoreHolders DEF SettleInside
  <2>2. QED BY <1>3, <2>1, CoreFacts, <1>0, QuietStep DEF SettleInside
<1>4. CASE CheckpointSync
  BY <1>4, CoreFacts, <1>0, QuietStep DEF CheckpointSync
<1>5. QED BY <1>1, <1>2, <1>3, <1>4

(* hold: the kept header is the writer's, and if nothing has been staged it *)
(* is the published one.                                                    *)
LEMMA HoldStep ==
  ASSUME SavepointInv, NEW across \in BOOLEAN, NEW settled \in BOOLEAN, Hold(across, settled)
  PROVE  SavepointInv'
<1>1. /\ DOMAIN hdr' = Holder
      /\ \A x \in Core \ {"kept"} : hdr'[x] = hdr[x]
      /\ hdr'["kept"] = hdr["db"]
  BY CoreFacts, CoreHolders DEF Hold, db
<1>2. /\ mode = "idle" /\ pc = "none" /\ mode' = (IF across THEN "txn" ELSE "stmt")
      /\ UNCHANGED <<active, pc, published>>
      /\ save'.across = across /\ save'.marked = FALSE /\ SaveRecord'
  BY DEF Hold, SaveRecord
<1>3. hdr["marker"] = NoHeader /\ db # NoHeader /\ db.epoch >= hdr[active].epoch
      /\ (db.epoch = hdr[active].epoch => db.roots = hdr[active].roots)
      /\ active = Newest(hdr)
  BY <1>2 DEF SavepointInv, MarkerInv, WriterInv, Unset, SlotsInv
<1>4. Newest(hdr') = Newest(hdr) /\ \A x \in Slot : hdr'[x] = hdr[x]
  BY <1>1, CoreHolders DEF Newest, Slot
<1>5. HeadsInv' /\ ControlInv'
  BY <1>1, <1>2, CoreFacts, CoreHolders DEF HeadsInv, ControlInv, SavepointInv
<1>6. SlotsInv' /\ MarkerInv' /\ WriterInv' /\ RecoverInv'
  BY <1>1, <1>2, <1>3, <1>4, CoreFacts, CoreHolders
     DEF SlotsInv, MarkerInv, WriterInv, RecoverInv, SavepointInv, db
<1>7. SaveInv' /\ TxnInv'
  BY <1>1, <1>2, <1>3, <1>4, CoreFacts, CoreHolders DEF SaveInv, TxnInv, db
<1>8. QED BY <1>2, <1>5, <1>6, <1>7 DEF SavepointInv

(* stage_fold: a fold moves the epoch of a header on as far as it says. *)
LEMMA ReplacedMoves ==
  ASSUME NEW h, IsHeader(h), NEW F, NEW ptr, NEW count, NEW next \in Nat
  PROVE  /\ IsHeader(Replaced(h, F, ptr, count, next))
         /\ Replaced(h, F, ptr, count, next).epoch = h.epoch + next
BY DEF IsHeader, Fields, Replaced

(* A fold: the writer moves on, and nobody else does. *)
LEMMA FoldIntoWriter ==
  ASSUME SavepointInv, db # NoHeader, NEW F, NEW next \in Nat, FoldInto(F, next)
  PROVE  /\ DOMAIN hdr' = Holder
         /\ \A x \in Core \ {"db"} : Like(hdr'[x], hdr[x])
         /\ IsHeader(hdr'["db"]) /\ hdr'["db"].epoch = db.epoch + next
<1>1. PICK B, ptr, count :
        hdr' = [WriteBlocks(B) EXCEPT !["db"] = Replaced(@, F, ptr, count, next)]
  BY DEF FoldInto
<1>2. DOMAIN WriteBlocks(B) = Holder /\ \A x \in Core : Like(WriteBlocks(B)[x], hdr[x])
  BY WriteBlocksLike
<1>3. IsHeader(WriteBlocks(B)["db"]) /\ WriteBlocks(B)["db"].epoch = db.epoch
  BY <1>2, CoreHolders DEF Like, db
<1>4. /\ DOMAIN hdr' = Holder /\ \A x \in Holder \ {"db"} : hdr'[x] = WriteBlocks(B)[x]
      /\ hdr'["db"] = Replaced(WriteBlocks(B)["db"], F, ptr, count, next)
  BY <1>1, <1>2, CoreHolders
<1>5. QED BY <1>2, <1>3, <1>4, CoreHolders, ReplacedMoves

(* The slots stay as they were: so does the newest, and what it holds. *)
LEMMA SlotsStay ==
  ASSUME SavepointInv, \A x \in Slot : Like(hdr'[x], hdr[x])
  PROVE  /\ Newest(hdr') = Newest(hdr)
         /\ \A x \in Slot : /\ hdr'[x] = NoHeader <=> hdr[x] = NoHeader
                            /\ hdr[x] # NoHeader => /\ hdr'[x].epoch = hdr[x].epoch
                                                    /\ hdr'[x].roots = hdr[x].roots
         /\ hdr[Newest(hdr)] # NoHeader
         /\ hdr'[Newest(hdr)] # NoHeader
         /\ hdr'[Newest(hdr)].epoch = hdr[Newest(hdr)].epoch
         /\ hdr'[Newest(hdr)].roots = hdr[Newest(hdr)].roots
<1>1. \A x \in Slot : hdr[x] = NoHeader \/ IsHeader(hdr[x])
  BY CoreFacts
<1>2. Newest(hdr') = Newest(hdr) /\ Newest(hdr) \in Slot
  BY <1>1, NewestLike
<1>3. hdr[Newest(hdr)] # NoHeader
  BY DEF SavepointInv, SlotsInv
<1>4. \A x \in Slot : /\ hdr'[x] = NoHeader <=> hdr[x] = NoHeader
                      /\ hdr[x] # NoHeader => /\ hdr'[x].epoch = hdr[x].epoch
                                              /\ hdr'[x].roots = hdr[x].roots
  BY <1>1, HeaderThere DEF Like
<1>5. QED BY <1>2, <1>3, <1>4

(* The writer and the marker of a savepoint, when the slots stay: what is   *)
(* left to show of a step of a statement or a transaction that does not     *)
(* flip.                                                                    *)
LEMMA SavedStep ==
  ASSUME SavepointInv, Saved, Saved', mode' # "undo", mode' = "txn" => mode = "txn",
         DOMAIN hdr' = Holder,
         \A x \in Slot \cup {"kept"} : Like(hdr'[x], hdr[x]),
         \/ Like(hdr'["marker"], hdr["marker"]) /\ save'.marked = save.marked
         \/ Like(hdr'["marker"], hdr["kept"]) /\ save'.marked = TRUE,
         SaveRecord', save'.across = save.across,
         IsHeader(hdr'["db"]), hdr'["db"].epoch >= db.epoch,
         pc' \in {"none", "kept"} =>
           hdr'["db"].epoch > db.epoch
             \/ (pc \in {"none", "kept"} /\ Like(hdr'["db"], hdr["db"])),
         mode' = "txn" /\ pc' \in {"sync", "flip"} => save'.marked,
         pc' \in {"none", "kept", "chain", "sync", "flip"},
         pc' = "kept" => mode' \in {"stmt", "txn"}, mode' = "raised" => pc' = "none",
         active' = active
  PROVE  SavepointInv'
<1>1. /\ mode # "down" /\ mode # "recover" /\ mode # "idle"
      /\ mode' # "down" /\ mode' # "recover" /\ mode' # "idle"
      /\ mode' \in {"stmt", "raised", "txn"}
  BY DEF Saved
<1>2. /\ Newest(hdr') = Newest(hdr) /\ active = Newest(hdr)
      /\ hdr[active] # NoHeader /\ hdr'[active] # NoHeader
      /\ hdr'[active].epoch = hdr[active].epoch /\ hdr'[active].roots = hdr[active].roots
  BY <1>1, SlotsStay DEF SavepointInv, SlotsInv
<1>3. /\ db # NoHeader /\ db.epoch >= hdr[active].epoch
      /\ pc \in {"none", "kept", "forget"} /\ db.epoch = hdr[active].epoch
           => db.roots = hdr[active].roots
  BY <1>1 DEF SavepointInv, WriterInv, Unset
<1>4. /\ hdr["kept"] # NoHeader /\ hdr["kept"].epoch <= db.epoch
      /\ hdr["kept"].epoch = hdr[active].epoch => hdr["kept"].roots = hdr[active].roots
      /\ IF save.marked THEN Like(hdr["marker"], hdr["kept"])
         ELSE hdr["marker"] = NoHeader
  BY DEF SavepointInv, SaveInv
<1>5. /\ IsHeader(hdr["kept"]) /\ IsHeader(db) /\ IsHeader(hdr[active])
      /\ IsHeader(hdr'["kept"]) /\ hdr'["kept"] # NoHeader
      /\ hdr'["kept"].epoch = hdr["kept"].epoch /\ hdr'["kept"].roots = hdr["kept"].roots
      /\ hdr'["db"] # NoHeader
  BY <1>2, <1>3, <1>4, CoreFacts, HeaderThere DEF Like, db
<1>6. IF save'.marked THEN Like(hdr'["marker"], hdr'["kept"]) ELSE hdr'["marker"] = NoHeader
  BY <1>4, <1>5, HeaderThere DEF Like
<1>7. HeadsInv'
  <2>1. hdr'["marker"] = NoHeader \/ IsHeader(hdr'["marker"])
    BY <1>5, <1>6 DEF Like
  <2>2. \A x \in Slot : hdr'[x] = NoHeader \/ IsHeader(hdr'[x])
    BY CoreFacts DEF Like
  <2>3. QED BY <1>5, <2>1, <2>2, CoreHolders DEF HeadsInv, Slot
<1>8. ControlInv' /\ SlotsInv'
  BY <1>1, <1>2 DEF ControlInv, SlotsInv, SavepointInv
<1>9. MarkerInv'
  BY <1>1, <1>2, <1>4, <1>5, <1>6, HeaderThere DEF MarkerInv, Like
<1>10. WriterInv' /\ RecoverInv'
  <2>1. Like(hdr'["db"], hdr["db"]) => hdr'["db"].epoch = db.epoch /\ hdr'["db"].roots = db.roots
    BY <1>3 DEF Like, db
  <2>2. hdr[active].epoch \in Nat /\ db.epoch \in Nat /\ hdr'["db"].epoch \in Nat
    BY <1>5 DEF IsHeader
  <2>3. QED BY <1>1, <1>2, <1>3, <1>5, <2>1, <2>2 DEF WriterInv, RecoverInv, db
<1>11. SaveInv'
  <2>1. db.epoch \in Nat /\ hdr["kept"].epoch \in Nat /\ hdr'["db"].epoch \in Nat
    BY <1>5 DEF IsHeader
  <2>2. QED BY <1>1, <1>2, <1>4, <1>5, <1>6, <2>1 DEF SaveInv, db
<1>12. TxnInv'
  <2>1. mode' = "txn" =>
          /\ save.across
          /\ ~save.marked => hdr[active].epoch <= hdr["kept"].epoch
    BY DEF SavepointInv, TxnInv
  <2>2. save.marked => save'.marked
    OBVIOUS
  <2>3. QED BY <1>2, <1>5, <2>1, <2>2 DEF TxnInv
<1>13. QED BY <1>7, <1>8, <1>9, <1>10, <1>11, <1>12 DEF SavepointInv

(* keep_savepoint: the marker takes the kept header, and nothing else moves. *)
LEMMA KeptHeaders ==
  ASSUME SavepointInv
  PROVE  /\ DOMAIN Kept(hdr) = Holder
         /\ \A x \in Core \ {"marker"} : Kept(hdr)[x] = hdr[x]
         /\ Kept(hdr)["marker"] = IF KeepDue THEN hdr["kept"] ELSE hdr["marker"]
         /\ DOMAIN Marked = DOMAIN save /\ Marked.across = save.across
         /\ Marked.marked = IF KeepDue THEN TRUE ELSE save.marked
<1>1. SaveRecord
  BY DEF SavepointInv
<1>2. DOMAIN hdr = Holder /\ "marker" \in Holder /\ "kept" \in Holder /\ Core \subseteq Holder
  BY CoreFacts, CoreHolders
<1>3. CASE KeepDue
  <2>1. /\ DOMAIN Kept(hdr) = Holder
        /\ \A x \in Core \ {"marker"} : Kept(hdr)[x] = hdr[x]
        /\ Kept(hdr)["marker"] = hdr["kept"]
    BY <1>2, <1>3 DEF Kept
  <2>2. DOMAIN Marked = DOMAIN save /\ Marked.across = save.across /\ Marked.marked = TRUE
    BY <1>1, <1>3 DEF Marked, SaveRecord
  <2>3. QED BY <1>3, <2>1, <2>2
<1>4. CASE ~KeepDue
  BY <1>2, <1>4 DEF Kept, Marked
<1>5. QED BY <1>3, <1>4

(* KeepSavepoint, StageDeferred, StagedFold, FoldFails: a statement or a    *)
(* transaction between its checkpoints.                                     *)
LEMMA KeepSavepointStep ==
  ASSUME SavepointInv, KeepSavepoint PROVE SavepointInv'
<1>1. /\ mode \in {"stmt", "txn"} /\ pc = "none" /\ pc' = "kept"
      /\ hdr' = Kept(hdr) /\ save' = Marked /\ UNCHANGED <<active, mode, published>>
  BY DEF KeepSavepoint, InSavepoint
<1>2. Saved /\ Saved' /\ mode # "recover"
  BY <1>1 DEF Saved
<1>3. db # NoHeader /\ IsHeader(hdr'["db"]) /\ hdr'["db"] = hdr["db"]
      /\ hdr'["db"].epoch >= db.epoch /\ Like(hdr'["db"], hdr["db"])
  <2>1. db # NoHeader
    BY <1>1 DEF SavepointInv, WriterInv
  <2>2. QED BY <1>1, <2>1, KeptHeaders, CoreFacts, CoreHolders DEF db, IsHeader
<1>4. \A x \in Slot \cup {"kept"} : Like(hdr'[x], hdr[x])
  BY <1>1, KeptHeaders, CoreFacts, CoreHolders DEF Slot
<1>5. \/ Like(hdr'["marker"], hdr["marker"]) /\ save'.marked = save.marked
      \/ Like(hdr'["marker"], hdr["kept"]) /\ save'.marked = TRUE
  BY <1>1, KeptHeaders, CoreFacts
<1>6. SaveRecord' /\ save'.across = save.across /\ DOMAIN hdr' = Holder
  BY <1>1, KeptHeaders DEF SaveRecord, SavepointInv
<1>7. QED BY <1>1, <1>2, <1>3, <1>4, <1>5, <1>6, SavedStep

(* stage_deferred publishes nothing on disk.                                *)
LEMMA StageDeferredStep ==
  ASSUME SavepointInv, StageDeferred PROVE SavepointInv'
<1>1. /\ mode \in {"stmt", "txn"} /\ pc = "kept" /\ pc' = "none"
      /\ save' = [save EXCEPT !.published = TRUE] /\ UNCHANGED <<hdr, active, mode, published>>
  BY DEF StageDeferred, SavepointInv, ControlInv
<1>2. Saved /\ Saved'
  BY <1>1 DEF Saved
<1>3. db # NoHeader /\ IsHeader(hdr["db"]) /\ hdr'["db"].epoch >= db.epoch
  <2>1. db # NoHeader
    BY <1>1 DEF SavepointInv, WriterInv
  <2>2. QED BY <1>1, <2>1, CoreFacts DEF db, IsHeader
<1>4. SaveRecord' /\ save'.across = save.across /\ save'.marked = save.marked
  BY <1>1 DEF SaveRecord, SavepointInv
<1>5. \A x \in Core : Like(hdr'[x], hdr[x])
  BY <1>1, CoreFacts
<1>6. DOMAIN hdr' = Holder
  BY <1>1, CoreFacts
<1>7. QED BY <1>1, <1>2, <1>3, <1>4, <1>5, <1>6, CoreFacts, SavedStep

(* A staged fold moves the writer one epoch on, and no slot.                *)
LEMMA StagedFoldStep ==
  ASSUME SavepointInv, NEW F, StagedFold(F) PROVE SavepointInv'
<1>1. /\ mode \in {"stmt", "txn"} /\ pc = "kept" /\ pc' = "none"
      /\ save' = [save EXCEPT !.published = TRUE] /\ UNCHANGED <<active, mode, published>>
      /\ FoldInto(F, 1)
  BY DEF StagedFold, SavepointInv, ControlInv
<1>2. Saved /\ Saved' /\ db # NoHeader
  BY <1>1 DEF Saved, SavepointInv, WriterInv
<1>3. /\ DOMAIN hdr' = Holder
      /\ \A x \in Core \ {"db"} : Like(hdr'[x], hdr[x])
      /\ IsHeader(hdr'["db"]) /\ hdr'["db"].epoch = db.epoch + 1
  BY <1>1, <1>2, FoldIntoWriter
<1>4. db.epoch \in Nat
  BY <1>2, CoreFacts DEF db
<1>5. SaveRecord' /\ save'.across = save.across /\ save'.marked = save.marked
  BY <1>1 DEF SaveRecord, SavepointInv
<1>6. \A x \in Slot \cup {"kept", "marker"} : Like(hdr'[x], hdr[x])
  BY <1>3, CoreHolders DEF Slot
<1>7. hdr'["db"].epoch >= db.epoch /\ hdr'["db"].epoch > db.epoch
  BY <1>3, <1>4
<1>8. QED BY <1>1, <1>2, <1>3, <1>5, <1>6, <1>7, SavedStep

(* A checkpoint's fold, over no savepoint or inside one. *)
LEMMA CheckpointFoldStep ==
  ASSUME SavepointInv, NEW F, CheckpointFold(F) PROVE SavepointInv'
<1>1. /\ mode \in {"idle", "stmt", "txn"} /\ pc \in {"none", "kept"} /\ pc' = "chain"
      /\ UNCHANGED <<active, mode, save, published>> /\ FoldInto(F, 0)
  BY DEF CheckpointFold
<1>2. db # NoHeader
  BY <1>1 DEF SavepointInv, WriterInv
<1>3. /\ DOMAIN hdr' = Holder
      /\ \A x \in Core \ {"db"} : Like(hdr'[x], hdr[x])
      /\ IsHeader(hdr'["db"]) /\ hdr'["db"].epoch = db.epoch + 0
  BY <1>1, <1>2, FoldIntoWriter
<1>4. db.epoch \in Nat
  BY <1>2, CoreFacts DEF db
<1>5. SaveRecord' /\ save'.across = save.across /\ save'.marked = save.marked
  BY <1>1 DEF SaveRecord, SavepointInv
<1>6. \A x \in Slot \cup {"kept", "marker"} : Like(hdr'[x], hdr[x])
  BY <1>3, CoreHolders DEF Slot
<1>7. hdr'["db"].epoch = db.epoch /\ hdr'["db"].epoch >= db.epoch
  BY <1>3, <1>4
<1>8. CASE mode # "idle"
  <2>1. Saved /\ Saved' /\ mode # "undo" /\ mode' # "undo" /\ mode' # "raised"
    BY <1>1, <1>8 DEF Saved
  <2>2. QED BY <1>1, <1>3, <1>5, <1>6, <1>7, <2>1, SavedStep
<1>9. CASE mode = "idle"
  <2>1. /\ Newest(hdr') = Newest(hdr) /\ active = Newest(hdr)
        /\ hdr'[active] # NoHeader /\ hdr'[active].epoch = hdr[active].epoch
        /\ hdr["marker"] = NoHeader
    BY <1>6, <1>9, SlotsStay DEF SavepointInv, SlotsInv, MarkerInv
  <2>2. hdr'["marker"] = NoHeader
    BY <1>6, <2>1 DEF Like
  <2>3. db.epoch >= hdr[active].epoch
    BY <1>9 DEF SavepointInv, WriterInv, Unset
  <2>4. HeadsInv'
    BY <1>3, <1>6, CoreFacts, CoreHolders DEF HeadsInv, Like, Slot
  <2>5. ControlInv' /\ SlotsInv' /\ MarkerInv'
    BY <1>1, <1>9, <2>1, <2>2 DEF SavepointInv, ControlInv, SlotsInv, MarkerInv
  <2>6. WriterInv'
    BY <1>1, <1>3, <1>7, <1>9, <2>1, <2>3, HeaderThere DEF WriterInv, db
  <2>7. RecoverInv' /\ SaveInv' /\ TxnInv'
    BY <1>1, <1>9 DEF RecoverInv, SaveInv, TxnInv, Saved
  <2>8. QED BY <1>5, <2>4, <2>5, <2>6, <2>7 DEF SavepointInv
<1>10. QED BY <1>8, <1>9

(* A fold that fails leaves the roots where they were. *)
LEMMA FoldFailsStep ==
  ASSUME SavepointInv, NEW F, FoldFails(F) PROVE SavepointInv'
<1>1. /\ mode \in {"idle", "stmt", "txn"} /\ pc \in {"none", "kept"} /\ pc' = "none"
      /\ mode' = (IF mode = "stmt" THEN "raised" ELSE mode)
      /\ UNCHANGED <<active, save, published>>
  BY DEF FoldFails
<1>2. PICK B, count : hdr' = [WriteBlocks(B) EXCEPT !["db"].count = count]
  BY DEF FoldFails
<1>3. db # NoHeader /\ IsHeader(db) /\ db.epoch \in Nat
  BY <1>1, CoreFacts DEF SavepointInv, WriterInv, db
<1>4. DOMAIN WriteBlocks(B) = Holder /\ \A x \in Core : Like(WriteBlocks(B)[x], hdr[x])
  BY WriteBlocksLike
<1>5. /\ DOMAIN hdr' = Holder /\ \A x \in Core \ {"db"} : hdr'[x] = WriteBlocks(B)[x]
      /\ hdr'["db"] = [WriteBlocks(B)["db"] EXCEPT !.count = count]
  BY <1>2, <1>4, CoreHolders
<1>6. Like(hdr'["db"], hdr["db"])
  <2>1. PICK g : g = WriteBlocks(B)["db"]
    OBVIOUS
  <2>2. IsHeader(g) /\ g.epoch = db.epoch /\ g.roots = db.roots
    BY <1>3, <1>4, <2>1, CoreHolders DEF Like, db
  <2>3. hdr'["db"] = [g EXCEPT !.count = count]
    BY <1>5, <2>1
  <2>4. IsHeader(hdr'["db"]) /\ hdr'["db"].epoch = g.epoch /\ hdr'["db"].roots = g.roots
    BY <2>2, <2>3 DEF IsHeader, Fields
  <2>5. QED BY <1>3, <2>2, <2>4 DEF Like, db
<1>7. \A x \in Core : Like(hdr'[x], hdr[x])
  BY <1>4, <1>5, <1>6
<1>8. SaveRecord' /\ save'.across = save.across /\ save'.marked = save.marked
  BY <1>1 DEF SaveRecord, SavepointInv
<1>9. CASE mode = "idle"
  <2>1. pc' = pc /\ mode' = mode
    BY <1>1, <1>9 DEF SavepointInv, ControlInv
  <2>2. QED BY <1>1, <1>5, <1>7, <1>8, <2>1, QuietStep
<1>10. CASE mode # "idle"
  <2>1. /\ Saved /\ Saved' /\ mode' # "undo"
        /\ mode' = "txn" => mode = "txn"
    BY <1>1, <1>10 DEF Saved
  <2>2. IsHeader(hdr'["db"]) /\ hdr'["db"].epoch >= db.epoch
    BY <1>3, <1>6 DEF Like, db
  <2>3. QED BY <1>1, <1>5, <1>7, <1>8, <2>1, <2>2, CoreFacts, SavedStep
<1>11. QED BY <1>9, <1>10

(* checkpoint rewrites the free list and the chain of a header, not what it *)
(* stands for.                                                              *)
LEMMA UnchainedLike == ASSUME NEW h, IsHeader(h) PROVE Like(Unchained(h), h)
<1>1. IsHeader(Unchained(h)) /\ Unchained(h).epoch = h.epoch /\ Unchained(h).roots = h.roots
  BY DEF Unchained, IsHeader, Fields
<1>2. QED BY <1>1, HeaderThere DEF Like

(* Writing the free list into a header leaves its epoch and roots.          *)
LEMMA ListedLike == ASSUME NEW h, IsHeader(h), NEW w PROVE Like(Listed(h, w), h)
<1>1. /\ IsHeader(Listed(h, w)) /\ Listed(h, w).epoch = h.epoch
      /\ Listed(h, w).roots = h.roots
  BY DEF Listed, IsHeader, Fields
<1>2. QED BY <1>1, HeaderThere DEF Like

(* checkpoint: the headers after the chain is written, up to what an open   *)
(* can tell.                                                                *)
LEMMA ChainHeaders ==
  ASSUME SavepointInv, CheckpointChain
  PROVE  /\ DOMAIN hdr' = Holder
         /\ \A x \in Core : Like(hdr'[x], Kept(hdr)[x])
         /\ db # NoHeader
<1> DEFINE w == WriteChain(free \o frozen \o pending \o db.chain, Len(free), db.count)
           B == Range(w.chain)
           K == [Kept(hdr) EXCEPT !["db"] = Unchained(@)]
<1>0. hdr' = [x \in Holder |-> LET h == Overwritten(K[x], B) IN IF x = "db" THEN Listed(h, w) ELSE h]
  BY DEF CheckpointChain
<1> HIDE DEF w, B
<1>1. hdr' = [x \in Holder |-> IF x = "db" THEN Listed(Overwritten(K[x], B), w) ELSE Overwritten(K[x], B)]
  BY Zenon, <1>0
<1>2. db # NoHeader /\ IsHeader(db)
  BY CoreFacts DEF CheckpointChain, SavepointInv, WriterInv, ControlInv, db
<1>3. /\ DOMAIN Kept(hdr) = Holder /\ Kept(hdr)["db"] = db
      /\ \A x \in Core : Kept(hdr)[x] = NoHeader \/ IsHeader(Kept(hdr)[x])
  BY KeptHeaders, CoreFacts, CoreHolders DEF db
<1>4. /\ \A x \in Core \ {"db"} :
           [Kept(hdr) EXCEPT !["db"] = Unchained(@)][x] = Kept(hdr)[x]
      /\ [Kept(hdr) EXCEPT !["db"] = Unchained(@)]["db"] = Unchained(db)
  BY <1>3, CoreHolders
<1>5. \A x \in Core \ {"db"} : Like(hdr'[x], Kept(hdr)[x])
  BY <1>1, <1>3, <1>4, OverwrittenLike, CoreHolders
<1>6. Like(hdr'["db"], db)
  <2>1. Like(Unchained(db), db) /\ IsHeader(Unchained(db))
    BY <1>2, UnchainedLike DEF Like
  <2>2. /\ Like(Overwritten(Unchained(db), B), Unchained(db))
        /\ IsHeader(Overwritten(Unchained(db), B))
    BY <2>1, OverwrittenLike, HeaderThere DEF Like
  <2>3. hdr'["db"] = Listed(Overwritten(Unchained(db), B), w)
    BY <1>1, <1>4, CoreHolders
  <2>4. Like(hdr'["db"], Overwritten(Unchained(db), B))
    BY <2>2, <2>3, ListedLike
  <2>5. QED BY <1>2, <2>1, <2>2, <2>4, HeaderThere DEF Like
<1>7. QED BY <1>1, <1>2, <1>3, <1>5, <1>6

(* checkpoint up to the sync: a savepoint that owes its marker pays it. *)
LEMMA CheckpointChainStep ==
  ASSUME SavepointInv, CheckpointChain PROVE SavepointInv'
<1>1. /\ pc = "chain" /\ pc' = "sync" /\ save' = [Marked EXCEPT !.published = InSavepoint]
      /\ UNCHANGED <<active, mode, published>>
  BY DEF CheckpointChain
<1>2. mode \in {"idle", "stmt", "txn", "undo", "recover"}
  BY <1>1 DEF SavepointInv, ControlInv
<1>3. /\ SaveRecord' /\ save'.across = save.across
      /\ save'.marked = IF KeepDue THEN TRUE ELSE save.marked
  BY <1>1, KeptHeaders DEF SaveRecord, SavepointInv
<1>4. /\ DOMAIN hdr' = Holder
      /\ \A x \in Core : Like(hdr'[x], Kept(hdr)[x])
      /\ db # NoHeader
  BY ChainHeaders
<1>5. \A x \in Core \ {"marker"} : Like(hdr'[x], hdr[x])
  BY <1>4, KeptHeaders
<1>6. CASE ~InSavepoint
  <2>1. ~KeepDue /\ mode # "txn"
    BY <1>6 DEF KeepDue, InSavepoint
  <2>2. \A x \in Core : Like(hdr'[x], hdr[x])
    BY <1>4, <1>5, <2>1, KeptHeaders
  <2>3. QED BY <1>1, <1>3, <1>4, <2>1, <2>2, QuietStep
<1>7. CASE InSavepoint
  <2>1. Saved /\ Saved' /\ mode \notin {"undo", "raised"}
    BY <1>1, <1>7 DEF Saved, InSavepoint
  <2>2. IsHeader(hdr'["db"]) /\ hdr'["db"].epoch >= db.epoch
    BY <1>4, <1>5, CoreFacts DEF Like, db
  <2>3. \/ Like(hdr'["marker"], hdr["marker"]) /\ save'.marked = save.marked
        \/ Like(hdr'["marker"], hdr["kept"]) /\ save'.marked = TRUE
    BY <1>3, <1>4, KeptHeaders, CoreFacts
  <2>4. mode = "txn" => save'.marked
    BY <1>3, <1>7 DEF KeepDue, SavepointInv, TxnInv
  <2>5. \A x \in Slot \cup {"kept"} : Like(hdr'[x], hdr[x])
    BY <1>5, CoreHolders DEF Slot
  <2>6. mode' = mode
    BY <1>1
  <2>7. QED BY <1>1, <1>3, <1>4, <2>1, <2>2, <2>3, <2>4, <2>5, <2>6, SavedStep
<1>8. QED BY <1>6, <1>7

(* The header a flip publishes. *)
LEMMA FlippedHeader ==
  ASSUME IsHeader(db)
  PROVE  /\ IsHeader(Flipped) /\ Flipped # NoHeader
         /\ Flipped.epoch = db.epoch + 1 /\ Flipped.roots = db.roots
<1>1. IsHeader(Flipped) /\ Flipped.epoch = db.epoch + 1 /\ Flipped.roots = db.roots
  BY DEF Flipped, IsHeader, Fields
<1>2. QED BY <1>1, HeaderThere

(* The writer while a checkpoint is under way. *)
LEMMA AtFlip ==
  ASSUME SavepointInv, pc \in {"chain", "sync", "flip"}
  PROVE  /\ mode \in {"idle", "stmt", "txn", "undo", "recover"}
         /\ IsHeader(db) /\ db # NoHeader /\ db.epoch \in Nat
         /\ active = Newest(hdr) /\ IsHeader(hdr[active]) /\ hdr[active] # NoHeader
         /\ hdr[active].epoch \in Nat /\ hdr[active].epoch <= db.epoch
         /\ hdr["marker"] # NoHeader =>
              hdr["marker"].epoch \in Nat /\ hdr["marker"].epoch <= db.epoch
<1>1. mode \in {"idle", "stmt", "txn", "undo", "recover"}
  BY DEF SavepointInv, ControlInv
<1>2. /\ db # NoHeader /\ active = Newest(hdr) /\ hdr[active] # NoHeader
      /\ hdr[active].epoch <= db.epoch
  <2>1. db # NoHeader /\ db.epoch >= hdr[active].epoch
    BY <1>1 DEF SavepointInv, WriterInv, Unset
  <2>2. active = Newest(hdr) /\ hdr[active] # NoHeader
    BY <1>1 DEF SavepointInv, SlotsInv
  <2>3. db.epoch \in Nat /\ hdr[active].epoch \in Nat
    BY <2>1, <2>2, CoreFacts DEF db
  <2>4. QED BY <2>1, <2>2, <2>3
<1>3. IsHeader(db) /\ IsHeader(hdr[active]) /\ db.epoch \in Nat /\ hdr[active].epoch \in Nat
  BY <1>2, CoreFacts DEF db
<1>4. ASSUME hdr["marker"] # NoHeader
      PROVE  hdr["marker"].epoch \in Nat /\ hdr["marker"].epoch <= db.epoch
  <2>1. hdr["marker"].epoch \in Nat
    BY <1>4, CoreFacts
  <2>2. CASE mode = "idle"
    BY <1>4, <2>2 DEF SavepointInv, MarkerInv
  <2>3. CASE mode = "recover"
    BY <2>1, <2>3 DEF SavepointInv, RecoverInv
  <2>4. CASE mode \in {"stmt", "txn", "undo"}
    <3>1. hdr["kept"] # NoHeader /\ hdr["kept"].epoch <= db.epoch
          /\ Like(hdr["marker"], hdr["kept"])
      BY <1>4, <2>4 DEF SavepointInv, SaveInv, Saved
    <3>2. QED BY <2>1, <3>1 DEF Like
  <2>5. QED BY <1>1, <2>2, <2>3, <2>4
<1>5. QED BY <1>1, <1>2, <1>3, <1>4

(* checkpoint: the flip makes the other slot the newest. *)
LEMMA CheckpointFlipStep ==
  ASSUME SavepointInv, CheckpointFlip PROVE SavepointInv'
<1>1. /\ pc = "flip" /\ active' = Inactive /\ UNCHANGED <<mode, save, published>>
      /\ pc' = IF mode \in {"undo", "recover"} THEN "forget" ELSE "none"
  BY DEF CheckpointFlip
<1>2. /\ mode \in {"idle", "stmt", "txn", "undo", "recover"}
      /\ IsHeader(db) /\ db # NoHeader /\ db.epoch \in Nat
      /\ active = Newest(hdr) /\ IsHeader(hdr[active]) /\ hdr[active] # NoHeader
      /\ hdr[active].epoch \in Nat /\ hdr[active].epoch <= db.epoch
      /\ hdr["marker"] # NoHeader =>
           hdr["marker"].epoch \in Nat /\ hdr["marker"].epoch <= db.epoch
  BY <1>1, AtFlip
<1>3. /\ IsHeader(Flipped) /\ Flipped # NoHeader
      /\ Flipped.epoch = db.epoch + 1 /\ Flipped.roots = db.roots
  BY <1>2, FlippedHeader
<1>4. active \in Slot /\ Inactive \in Slot /\ Inactive # active
  BY CoreFacts DEF Inactive, Slot
<1>5. /\ DOMAIN hdr' = Holder
      /\ hdr'[Inactive] = Flipped /\ hdr'["db"] = Flipped /\ hdr'[active] = hdr[active]
      /\ hdr'["marker"] = hdr["marker"] /\ hdr'["kept"] = hdr["kept"]
  BY <1>4, CoreFacts, CoreHolders DEF CheckpointFlip, Slot
<1>6. Newest(hdr') = Inactive
  BY <1>2, <1>3, <1>4, <1>5 DEF Newest, Slot
<1>7. HeadsInv' /\ SaveRecord' /\ ControlInv'
  <2>1. SaveRecord' /\ ControlInv'
    BY <1>1, <1>2, <1>4 DEF SavepointInv, SaveRecord, ControlInv
  <2>2. HeadsInv'
    BY <1>2, <1>3, <1>4, <1>5, CoreFacts, CoreHolders DEF HeadsInv, Slot
  <2>3. QED BY <2>1, <2>2
<1>8. SlotsInv' /\ MarkerInv'
  BY <1>1, <1>2, <1>3, <1>5, <1>6 DEF SavepointInv, SlotsInv, MarkerInv
<1>9. WriterInv' /\ RecoverInv'
  BY <1>1, <1>2, <1>3, <1>5 DEF SavepointInv, WriterInv, RecoverInv, db
<1>10. SaveInv'
  <2>1. Saved => hdr["kept"].epoch \in Nat
    BY CoreFacts DEF SavepointInv, SaveInv
  <2>2. QED BY <1>1, <1>2, <1>3, <1>5, <2>1 DEF SavepointInv, SaveInv, Saved, db
<1>11. TxnInv'
  BY <1>1 DEF SavepointInv, TxnInv
<1>12. QED BY <1>7, <1>8, <1>9, <1>10, <1>11 DEF SavepointInv

(* release_savepoint, forget_kept: the savepoint goes, and its marker.      *)
LEMMA SavepointEnds ==
  ASSUME SavepointInv, Saved, pc \in {"none", "forget"},
         mode' = "idle", pc' = "none", save' = NoSave, active' = active,
         DOMAIN hdr' = Holder, \A x \in Slot \cup {"db"} : hdr'[x] = hdr[x],
         hdr'["kept"] = NoHeader,
         hdr'["marker"] = IF save.marked THEN NoHeader ELSE hdr["marker"]
  PROVE  SavepointInv'
<1>1. /\ mode # "down" /\ mode # "recover" /\ active = Newest(hdr)
      /\ hdr[active] # NoHeader /\ hdr'[active] = hdr[active] /\ active \in Slot
  BY CoreFacts DEF Saved, SavepointInv, SlotsInv
<1>2. hdr'["marker"] = NoHeader
  BY DEF SavepointInv, SaveInv
<1>3. Newest(hdr') = Newest(hdr)
  BY DEF Newest, Slot
<1>4. HeadsInv' /\ SaveRecord' /\ ControlInv'
  <2>1. SaveRecord'
    BY DEF SaveRecord, NoSave
  <2>2. ControlInv'
    BY <1>1 DEF ControlInv
  <2>3. HeadsInv'
    BY <1>2, CoreFacts, CoreHolders DEF HeadsInv, Slot
  <2>4. QED BY <2>1, <2>2, <2>3
<1>5. SlotsInv' /\ MarkerInv'
  BY <1>1, <1>2, <1>3 DEF SlotsInv, MarkerInv
<1>6. WriterInv'
  BY <1>1 DEF SavepointInv, WriterInv, Unset, db
<1>7. RecoverInv' /\ SaveInv' /\ TxnInv'
  BY DEF RecoverInv, SaveInv, TxnInv, Saved
<1>8. QED BY <1>4, <1>5, <1>6, <1>7 DEF SavepointInv

(* release_savepoint: the kept header goes, and the marker with it if it    *)
(* was on the file.                                                         *)
LEMMA UnmarkedHeaders ==
  ASSUME SavepointInv
  PROVE  /\ DOMAIN Unmarked(hdr) = Holder
         /\ \A x \in Holder \ {"kept", "marker"} : Unmarked(hdr)[x] = hdr[x]
         /\ Unmarked(hdr)["kept"] = NoHeader
         /\ Unmarked(hdr)["marker"] = IF save.marked THEN NoHeader ELSE hdr["marker"]
BY CoreFacts, CoreHolders DEF Unmarked

(* The settle of a statement that answered, COMMIT, and the end of an undo. *)
LEMMA EndStep ==
  ASSUME SavepointInv, SettleKeeps \/ Commit \/ UndoDone PROVE SavepointInv'
<1>1. /\ mode \in {"stmt", "txn", "undo"} /\ pc \in {"none", "forget"}
      /\ mode' = "idle" /\ pc' = "none" /\ save' = NoSave /\ active' = active
  BY DEF SettleKeeps, Commit, UndoDone
<1>2. \A x \in Core : x \in Holder /\ hdr'[x] = Unmarked(hdr)[x]
  BY UnmarkedHeaders, CoreHolders DEF SettleKeeps, Commit, UndoDone
<1>3. DOMAIN hdr' = Holder
  BY UnmarkedHeaders DEF SettleKeeps, Commit, UndoDone
<1>4. \A x \in Slot \cup {"db"} : hdr'[x] = hdr[x]
  BY <1>2, UnmarkedHeaders, CoreHolders DEF Slot
<1>5. /\ hdr'["kept"] = NoHeader
      /\ hdr'["marker"] = IF save.marked THEN NoHeader ELSE hdr["marker"]
  BY <1>2, UnmarkedHeaders, CoreHolders
<1>6. Saved
  BY <1>1 DEF Saved
<1>7. QED BY <1>1, <1>3, <1>4, <1>5, <1>6, SavepointEnds

(* rollback_savepoint: the writer is back on the kept roots. *)
LEMMA RollbackStep ==
  ASSUME SavepointInv, RollbackSavepoint PROVE SavepointInv'
<1>1. /\ mode \in {"stmt", "raised", "txn"} /\ pc = "none" /\ mode' = "undo"
      /\ hdr' = [hdr EXCEPT !["db"] = [hdr["kept"] EXCEPT !.epoch = db.epoch]]
      /\ pc' = IF db.epoch # hdr["kept"].epoch THEN "chain" ELSE "forget"
      /\ UNCHANGED <<active, save, published>>
  BY DEF RollbackSavepoint
<1>2. /\ hdr["kept"] # NoHeader /\ IsHeader(hdr["kept"]) /\ hdr["kept"].epoch <= db.epoch
      /\ hdr["kept"].epoch = hdr[active].epoch => hdr["kept"].roots = hdr[active].roots
      /\ IF save.marked THEN Like(hdr["marker"], hdr["kept"]) ELSE hdr["marker"] = NoHeader
  BY <1>1, CoreFacts DEF SavepointInv, SaveInv, Saved
<1>3. /\ db # NoHeader /\ IsHeader(db) /\ db.epoch >= hdr[active].epoch
      /\ active = Newest(hdr) /\ hdr[active] # NoHeader /\ active \in Slot
  BY <1>1, CoreFacts DEF SavepointInv, WriterInv, SlotsInv, Unset, db
<1>4. \A x \in Core \ {"db"} : hdr'[x] = hdr[x]
  BY <1>1
<1>5. DOMAIN hdr' = Holder /\ hdr'["db"] = [hdr["kept"] EXCEPT !.epoch = db.epoch]
  BY <1>1, CoreFacts, CoreHolders
<1>6. /\ IsHeader(hdr'["db"]) /\ hdr'["db"] # NoHeader
      /\ hdr'["db"].epoch = db.epoch /\ hdr'["db"].roots = hdr["kept"].roots
  <2>1. PICK k : k = hdr["kept"]
    OBVIOUS
  <2>2. PICK e : e = db.epoch
    OBVIOUS
  <2>3. hdr'["db"] = [k EXCEPT !.epoch = e] /\ e \in Nat \ {0} /\ IsHeader(k)
    BY <1>2, <1>3, <1>5, <2>1, <2>2 DEF IsHeader
  <2>4. IsHeader(hdr'["db"]) /\ hdr'["db"].epoch = e /\ hdr'["db"].roots = k.roots
    BY <2>3 DEF IsHeader, Fields
  <2>5. QED BY <2>1, <2>2, <2>4, HeaderThere
<1>7. Newest(hdr') = Newest(hdr) /\ hdr'[active] = hdr[active]
  BY <1>3, <1>4, CoreHolders DEF Newest, Slot
<1>8. HeadsInv' /\ SaveRecord' /\ ControlInv'
  <2>1. SaveRecord' /\ ControlInv'
    BY <1>1, <1>3 DEF SavepointInv, SaveRecord, ControlInv
  <2>2. HeadsInv'
    BY <1>4, <1>5, <1>6, CoreFacts, CoreHolders DEF HeadsInv
  <2>3. QED BY <2>1, <2>2
<1>9. SlotsInv' /\ MarkerInv'
  BY <1>1, <1>3, <1>4, <1>7, CoreHolders DEF SavepointInv, SlotsInv, MarkerInv
<1>10. WriterInv' /\ RecoverInv' /\ TxnInv'
  BY <1>1, <1>2, <1>3, <1>6, <1>7 DEF WriterInv, RecoverInv, TxnInv, db
<1>11. SaveInv'
  BY <1>1, <1>2, <1>4, <1>6, <1>7, CoreHolders DEF SaveInv, db
<1>12. QED BY <1>8, <1>9, <1>10, <1>11 DEF SavepointInv

(* A crash: whatever the flip left of the other slot, the newest header is  *)
(* the published one or the one being published, and the marker is not      *)
(* ahead of the latter.                                                     *)
LEMMA CrashStep ==
  ASSUME SavepointInv, NEW slot \in FlipOutcomes, Crash(slot) PROVE SavepointInv'
<1>1. /\ mode # "down" /\ mode' = "down" /\ pc' = "none" /\ save' = NoSave /\ active' = active
      /\ hdr' = [x \in Holder |->
                   IF x \notin OnDisk THEN NoHeader
                   ELSE Overwritten(IF x = Inactive THEN slot ELSE hdr[x], dirty)]
  BY DEF Crash
<1>2. active \in Slot /\ Inactive \in Slot /\ Inactive # active /\ Slot = {active, Inactive}
  BY CoreFacts DEF Inactive, Slot
<1>3. active = Newest(hdr) /\ hdr[active] # NoHeader /\ IsHeader(hdr[active])
  BY <1>1, <1>2, CoreFacts DEF SavepointInv, SlotsInv
<1>4. \/ slot = hdr[Inactive] \/ slot = NoHeader
      \/ slot = Flipped /\ pc = "flip"
  BY DEF FlipOutcomes
<1>5. slot = NoHeader \/ IsHeader(slot)
  BY <1>2, <1>4, CoreFacts, AtFlip, FlippedHeader
<1>6. /\ Like(hdr'[active], hdr[active]) /\ Like(hdr'[Inactive], slot)
      /\ Like(hdr'["marker"], hdr["marker"]) /\ DOMAIN hdr' = Holder
      /\ hdr'["db"] = NoHeader /\ hdr'["kept"] = NoHeader
  BY <1>1, <1>2, <1>5, CoreFacts, CoreHolders, OverwrittenLike DEF OnDisk, Slot
<1>7. HeadsInv' /\ SaveRecord' /\ ControlInv'
  <2>1. SaveRecord' /\ ControlInv'
    BY <1>1, <1>2 DEF SaveRecord, NoSave, ControlInv
  <2>2. hdr'["marker"] = NoHeader \/ IsHeader(hdr'["marker"])
    BY <1>6 DEF Like
  <2>3. \A x \in Slot : hdr'[x] = NoHeader \/ IsHeader(hdr'[x])
    BY <1>2, <1>6 DEF Like
  <2>4. QED BY <1>6, <2>1, <2>2, <2>3, CoreHolders DEF HeadsInv, Slot
<1>8. SlotsInv' /\ MarkerInv'
  <2>1. CASE slot = Flipped /\ pc = "flip"
    <3>1. /\ IsHeader(slot) /\ slot # NoHeader /\ slot.epoch = db.epoch + 1
          /\ db.epoch \in Nat /\ hdr[active].epoch \in Nat /\ hdr[active].epoch <= db.epoch
          /\ hdr["marker"] # NoHeader =>
               hdr["marker"].epoch \in Nat /\ hdr["marker"].epoch <= db.epoch
      BY <2>1, AtFlip, FlippedHeader
    <3>2. /\ hdr'[Inactive] # NoHeader /\ hdr'[Inactive].epoch = db.epoch + 1
          /\ hdr'[active].epoch = hdr[active].epoch
          /\ hdr'["marker"] # NoHeader =>
               hdr["marker"] # NoHeader /\ hdr'["marker"].epoch = hdr["marker"].epoch
      BY <1>3, <1>6, <3>1, HeaderThere DEF Like
    <3>3. Newest(hdr') = Inactive
      BY <1>2, <3>1, <3>2 DEF Newest, Slot
    <3>4. QED BY <1>1, <3>1, <3>2, <3>3 DEF SlotsInv, MarkerInv
  <2>2. CASE slot \in {hdr[Inactive], NoHeader}
    <3>1. Newest(hdr') = active
      BY <1>2, <1>3, <1>6, <2>2, CoreFacts, HeaderThere DEF Newest, Slot, Like
    <3>2. hdr'[active] # NoHeader /\ hdr'[active].epoch = hdr[active].epoch
          /\ hdr'[active].roots = hdr[active].roots
      BY <1>3, <1>6, HeaderThere DEF Like
    <3>3. hdr'["marker"] # NoHeader =>
            /\ hdr["marker"] # NoHeader /\ hdr'["marker"].epoch = hdr["marker"].epoch
            /\ hdr'["marker"].roots = hdr["marker"].roots
      BY <1>6 DEF Like
    <3>4. QED BY <1>1, <1>3, <3>1, <3>2, <3>3 DEF SavepointInv, SlotsInv, MarkerInv
  <2>3. QED BY <1>4, <2>1, <2>2
<1>9. WriterInv' /\ RecoverInv' /\ SaveInv' /\ TxnInv'
  BY <1>1 DEF WriterInv, RecoverInv, SaveInv, TxnInv, Saved
<1>10. QED BY <1>7, <1>8, <1>9 DEF SavepointInv

(* open_kind adopts the marker, or the newest slot. *)
LEMMA OpenStep ==
  ASSUME SavepointInv, Open PROVE SavepointInv'
<1>1. /\ mode = "down" /\ pc = "none" /\ pc' = "none" /\ save' = save
      /\ active' = Newest(hdr)
      /\ hdr' = [hdr EXCEPT !["db"] = Adopted(hdr), !["shared"] = Adopted(hdr)]
      /\ published' = (IF hdr["marker"] # NoHeader THEN hdr[Newest(hdr)].epoch ELSE 0)
      /\ mode' = (IF hdr["marker"] # NoHeader THEN "recover" ELSE "idle")
  BY DEF Open, SavepointInv, ControlInv
<1>2. /\ DOMAIN hdr' = Holder /\ hdr'["db"] = Adopted(hdr)
      /\ \A x \in Core \ {"db"} : hdr'[x] = hdr[x]
  BY <1>1, CoreFacts, CoreHolders
<1>3. /\ Newest(hdr) \in Slot /\ hdr[Newest(hdr)] # NoHeader /\ IsHeader(hdr[Newest(hdr)])
      /\ hdr[Newest(hdr)].epoch \in Nat
  BY CoreFacts DEF SavepointInv, SlotsInv
<1>4. Newest(hdr') = Newest(hdr) /\ hdr'[Newest(hdr)] = hdr[Newest(hdr)]
  BY <1>2, <1>3, CoreHolders DEF Newest, Slot
<1>5. hdr["marker"] # NoHeader => IsHeader(hdr["marker"]) /\ hdr["marker"].epoch \in Nat
  BY CoreFacts
<1>6. /\ Adopted(hdr) # NoHeader /\ IsHeader(Adopted(hdr)) /\ Adopted(hdr).epoch \in Nat
      /\ Adopted(hdr).epoch <= hdr[Newest(hdr)].epoch
      /\ Adopted(hdr).epoch = hdr[Newest(hdr)].epoch => Adopted(hdr).roots = hdr[Newest(hdr)].roots
      /\ Adopted(hdr).epoch < hdr[Newest(hdr)].epoch =>
           hdr["marker"] # NoHeader /\ hdr["marker"].epoch = Adopted(hdr).epoch
  BY <1>3, <1>5 DEF Adopted, MarkerWins, SavepointInv, MarkerInv
<1>7. HeadsInv' /\ SaveRecord' /\ ControlInv'
  <2>1. SaveRecord' /\ ControlInv'
    BY <1>1, <1>3 DEF SavepointInv, SaveRecord, ControlInv
  <2>2. HeadsInv'
    BY <1>2, <1>6, CoreFacts, CoreHolders DEF HeadsInv
  <2>3. QED BY <2>1, <2>2
<1>8. SlotsInv' /\ MarkerInv'
  BY <1>1, <1>2, <1>3, <1>4, CoreHolders DEF SavepointInv, SlotsInv, MarkerInv
<1>9. WriterInv'
  BY <1>1, <1>2, <1>3, <1>4, <1>6 DEF WriterInv, Unset, db
<1>10. RecoverInv'
  BY <1>1, <1>2, <1>3, <1>4, <1>6, CoreHolders DEF RecoverInv, db
<1>11. SaveInv' /\ TxnInv'
  BY <1>1 DEF SaveInv, TxnInv, Saved
<1>12. QED BY <1>7, <1>8, <1>9, <1>10, <1>11 DEF SavepointInv

(* finish_rollback brings the writer level with what the crash left.        *)
LEMMA FinishRollbackStep ==
  ASSUME SavepointInv, FinishRollback PROVE SavepointInv'
<1>1. /\ mode = "recover" /\ pc = "none" /\ mode' = mode
      /\ hdr' = [hdr EXCEPT !["db"].epoch = IF published > @ THEN published ELSE @]
      /\ pc' = (IF published > db.epoch THEN "chain" ELSE "forget")
      /\ UNCHANGED <<active, save, published>>
  BY DEF FinishRollback
<1>2. /\ db # NoHeader /\ IsHeader(db) /\ hdr["marker"] # NoHeader
      /\ published = hdr[active].epoch /\ db.epoch <= published
      /\ db.epoch < published => hdr["marker"].epoch = db.epoch
      /\ db.epoch = hdr[active].epoch => db.roots = hdr[active].roots
  BY <1>1, CoreFacts DEF SavepointInv, WriterInv, RecoverInv, db
<1>3. /\ active = Newest(hdr) /\ hdr[active] # NoHeader /\ IsHeader(hdr[active])
      /\ active \in Slot /\ published \in Nat \ {0} /\ db.epoch \in Nat \ {0}
  BY <1>1, <1>2, CoreFacts DEF SavepointInv, SlotsInv, IsHeader
<1>4. DOMAIN hdr' = Holder /\ \A x \in Core \ {"db"} : hdr'[x] = hdr[x]
  BY <1>1, CoreFacts, CoreHolders
<1>5. hdr'["db"] = [db EXCEPT !.epoch = published]
  <2>1. hdr'["db"] = [db EXCEPT !.epoch = IF published > @ THEN published ELSE @]
    BY <1>1, CoreFacts, CoreHolders DEF db
  <2>2. (IF published > db.epoch THEN published ELSE db.epoch) = published
    BY <1>2, <1>3
  <2>3. QED BY <2>1, <2>2
<1>6. /\ IsHeader(hdr'["db"]) /\ hdr'["db"] # NoHeader
      /\ hdr'["db"].epoch = published /\ hdr'["db"].roots = db.roots
  <2>1. PICK k : k = db
    OBVIOUS
  <2>2. hdr'["db"] = [k EXCEPT !.epoch = published] /\ IsHeader(k)
    BY <1>2, <1>5, <2>1
  <2>3. /\ IsHeader(hdr'["db"]) /\ hdr'["db"].epoch = published
        /\ hdr'["db"].roots = k.roots
    BY <1>3, <2>2 DEF IsHeader, Fields
  <2>4. QED BY <2>1, <2>3, HeaderThere
<1>7. Newest(hdr') = Newest(hdr) /\ hdr'[active] = hdr[active]
  BY <1>3, <1>4, CoreHolders DEF Newest, Slot
<1>8. HeadsInv' /\ SaveRecord' /\ ControlInv'
  <2>1. SaveRecord' /\ ControlInv'
    BY <1>1, <1>3 DEF SavepointInv, SaveRecord, ControlInv
  <2>2. HeadsInv'
    BY <1>4, <1>6, CoreFacts, CoreHolders DEF HeadsInv
  <2>3. QED BY <2>1, <2>2
<1>9. SlotsInv' /\ MarkerInv'
  BY <1>1, <1>3, <1>4, <1>7, CoreHolders DEF SavepointInv, SlotsInv, MarkerInv
<1>10. WriterInv'
  BY <1>1, <1>2, <1>3, <1>6, <1>7 DEF WriterInv, db
<1>11. RecoverInv'
  BY <1>1, <1>2, <1>3, <1>4, <1>6, <1>7, CoreHolders DEF RecoverInv, db
<1>12. SaveInv' /\ TxnInv'
  BY <1>1 DEF SaveInv, TxnInv, Saved
<1>13. QED BY <1>8, <1>9, <1>10, <1>11, <1>12 DEF SavepointInv

(* The end of a recovery. *)
LEMMA ForgetKeptStep ==
  ASSUME SavepointInv, ForgetKept PROVE SavepointInv'
<1>1. /\ mode = "recover" /\ pc = "forget" /\ mode' = "idle" /\ pc' = "none"
      /\ hdr' = [hdr EXCEPT !["marker"] = NoHeader, !["shared"] = db]
      /\ UNCHANGED <<active, save>>
  BY DEF ForgetKept
<1>2. /\ DOMAIN hdr' = Holder /\ hdr'["marker"] = NoHeader
      /\ \A x \in Core \ {"marker"} : hdr'[x] = hdr[x]
  BY <1>1, CoreFacts, CoreHolders
<1>3. active = Newest(hdr) /\ hdr[active] # NoHeader /\ active \in Slot
  BY <1>1, CoreFacts DEF SavepointInv, SlotsInv
<1>4. Newest(hdr') = Newest(hdr) /\ hdr'[active] = hdr[active]
  BY <1>2, <1>3, CoreHolders DEF Newest, Slot
<1>5. HeadsInv' /\ SaveRecord' /\ ControlInv'
  BY <1>1, <1>2, <1>3, CoreFacts, CoreHolders DEF SavepointInv, HeadsInv, SaveRecord, ControlInv
<1>6. SlotsInv' /\ MarkerInv'
  BY <1>1, <1>2, <1>3, <1>4 DEF SlotsInv, MarkerInv
<1>7. WriterInv'
  BY <1>1, <1>2, <1>4, CoreHolders DEF SavepointInv, WriterInv, Unset, db
<1>8. RecoverInv' /\ SaveInv' /\ TxnInv'
  BY <1>1 DEF RecoverInv, SaveInv, TxnInv, Saved
<1>9. QED BY <1>5, <1>6, <1>7, <1>8 DEF SavepointInv

(* A new file has one header, and nothing else. *)
LEMMA InitSavepoint == Init => SavepointInv
<1> SUFFICES ASSUME Init PROVE SavepointInv
  OBVIOUS
<1> DEFINE fresh == [epoch |-> 1, roots |-> {}, count |-> 0,
                     list |-> <<>>, chain |-> <<>>, ok |-> TRUE]
<1>1. hdr = [x \in Holder |-> IF x \in {"A", "db", "shared"} THEN fresh ELSE NoHeader]
  BY DEF Init
<1>2. IsHeader(fresh) /\ fresh # NoHeader
  <2>1. IsHeader(fresh)
    BY DEF IsHeader, Fields
  <2>2. QED BY <2>1, HeaderThere
<1> HIDE DEF fresh
<1>3. /\ DOMAIN hdr = Holder /\ hdr["A"] = fresh /\ hdr["db"] = fresh
      /\ hdr["B"] = NoHeader /\ hdr["marker"] = NoHeader /\ hdr["kept"] = NoHeader
  BY <1>1, CoreHolders
<1>4. active = "A" /\ save = NoSave /\ mode = "idle" /\ pc = "none"
  BY DEF Init
<1>5. Newest(hdr) = "A"
  BY <1>2, <1>3 DEF Newest
<1>6. HeadsInv /\ SaveRecord /\ ControlInv
  BY <1>2, <1>3, <1>4, CoreHolders DEF HeadsInv, SaveRecord, NoSave, ControlInv, Slot
<1>7. SlotsInv /\ MarkerInv /\ WriterInv
  BY <1>2, <1>3, <1>4, <1>5 DEF SlotsInv, MarkerInv, WriterInv, IsHeader, db
<1>8. RecoverInv /\ SaveInv /\ TxnInv
  BY <1>4 DEF RecoverInv, SaveInv, TxnInv, Saved
<1>9. QED BY <1>6, <1>7, <1>8 DEF SavepointInv

---------------------------------------------------------------------------
(* The theorems about savepoints. *)

(* At every moment the published header, the writer's, the kept one and the *)
(* marker stand in the order the savepoints of file.rs rely on.             *)
THEOREM SavepointInductive == Spec => []SavepointInv
<1>1. Init => SavepointInv
  BY InitSavepoint
<1>2. SavepointInv /\ [Next]_vars => SavepointInv'
  <2> SUFFICES ASSUME SavepointInv, [Next]_vars PROVE SavepointInv'
    OBVIOUS
  <2>1. CASE UNCHANGED vars
    BY <2>1, CoreFacts, QuietStep DEF vars, SavepointInv, SaveRecord
  <2>2. CASE (\E r \in Reader : Observe(r) \/ Idle(r)) \/ PublishStaged
               \/ SettleInside \/ CheckpointSync
    BY <2>2, ReadersStep
  <2>3. CASE \E across, settled \in BOOLEAN : Hold(across, settled)
    BY <2>3, HoldStep
  <2>4. CASE KeepSavepoint \/ StageDeferred
    BY <2>4, KeepSavepointStep, StageDeferredStep
  <2>5. CASE \E F \in Freed : StagedFold(F) \/ CheckpointFold(F) \/ FoldFails(F)
    BY <2>5, StagedFoldStep, CheckpointFoldStep, FoldFailsStep
  <2>6. CASE CheckpointChain \/ CheckpointFlip
    BY <2>6, CheckpointChainStep, CheckpointFlipStep
  <2>7. CASE SettleKeeps \/ Commit \/ RollbackSavepoint \/ UndoDone
    BY <2>7, EndStep, RollbackStep
  <2>8. CASE \E slot \in FlipOutcomes : Crash(slot)
    BY <2>8, CrashStep
  <2>9. CASE Open \/ FinishRollback \/ ForgetKept
    BY <2>9, OpenStep, FinishRollbackStep, ForgetKeptStep
  <2>10. QED BY <2>1, <2>2, <2>3, <2>4, <2>5, <2>6, <2>7, <2>8, <2>9 DEF Next
<1>3. QED BY <1>1, <1>2, PTL DEF Spec

(* rollback_savepoint: once a rollback has flipped, or had nothing to flip, *)
(* the next open reads the roots the savepoint kept, whatever the           *)
(* transaction had folded and checkpointed.                                 *)
THEOREM RollbackIsRead == Spec => []RollbackWins
<1>1. SavepointInv => RollbackWins
  <2> SUFFICES ASSUME SavepointInv, mode = "undo", pc = "forget",
                      db.epoch = hdr[active].epoch
               PROVE  Adopted(hdr).roots = hdr["kept"].roots
    BY DEF RollbackWins
  <2>1. active = Newest(hdr) /\ db.roots = hdr[active].roots
    BY DEF SavepointInv, SlotsInv, WriterInv
  <2>2. db.roots = hdr["kept"].roots /\ hdr["kept"] # NoHeader
        /\ (hdr["marker"] # NoHeader => Like(hdr["marker"], hdr["kept"]))
    BY DEF SavepointInv, SaveInv, Saved
  <2>3. hdr["marker"] # NoHeader => hdr["marker"].roots = hdr["kept"].roots
    BY <2>2 DEF Like
  <2>4. QED BY <2>1, <2>2, <2>3 DEF Adopted, MarkerWins
<1>2. QED BY <1>1, SavepointInductive, PTL

(* keep_savepoint, open_kind: at every moment of a transaction, a crash     *)
(* there leaves the header it began on to the next open, or an older one    *)
(* whose log still holds what came between.                                 *)
THEOREM CrashIsRollback == Spec => []CrashRollsBack
<1>1. SavepointInv => CrashRollsBack
  <2> SUFFICES ASSUME SavepointInv, mode = "txn"
               PROVE  \/ Adopted(hdr).roots = hdr["kept"].roots
                      \/ Adopted(hdr).epoch < hdr["kept"].epoch
    BY DEF CrashRollsBack
  <2>1. /\ active = Newest(hdr) /\ hdr[active] # NoHeader /\ hdr[active].epoch \in Nat
    BY CoreFacts DEF SavepointInv, SlotsInv
  <2>2. /\ hdr["kept"] # NoHeader /\ hdr["kept"].epoch \in Nat
        /\ hdr["kept"].epoch = hdr[active].epoch => hdr["kept"].roots = hdr[active].roots
        /\ IF save.marked THEN Like(hdr["marker"], hdr["kept"]) ELSE hdr["marker"] = NoHeader
    BY CoreFacts DEF SavepointInv, SaveInv, Saved
  <2>3. CASE save.marked
    <3>1. /\ hdr["marker"] # NoHeader /\ hdr["marker"].epoch = hdr["kept"].epoch
          /\ hdr["marker"].roots = hdr["kept"].roots
      BY <2>2, <2>3, HeaderThere DEF Like
    <3>2. QED BY <2>1, <2>2, <3>1 DEF Adopted, MarkerWins
  <2>4. CASE ~save.marked
    <3>1. hdr["marker"] = NoHeader /\ hdr[active].epoch <= hdr["kept"].epoch
      BY <2>2, <2>4 DEF SavepointInv, TxnInv
    <3>2. QED BY <2>1, <2>2, <3>1 DEF Adopted, MarkerWins
  <2>5. QED BY <2>3, <2>4
<1>2. QED BY <1>1, SavepointInductive, PTL

---------------------------------------------------------------------------
(* Lists of blocks. *)

\* Blocks of the file, and blocks that wait for readers.
BlockNo == 1..MaxBlock
Wait == [epoch : 1..MaxEpoch, block : 1..MaxBlock]
Blocks(ret) == Range(BlocksOf(ret))


(* What a list holds: everything in it is of R, and all of R is in it.      *)
LEMMA RangeIs ==
  ASSUME NEW f, NEW R, \A i \in DOMAIN f : f[i] \in R, \A r \in R : \E i \in DOMAIN f : r = f[i]
  PROVE  Range(f) = R
BY DEF Range

(* Vec::retain, Iterator::partition: the k-th of n numbers is one of them,  *)
(* and every one of them is the k-th for one k.                             *)
LEMMA NthNumber ==
  ASSUME NEW S, S \subseteq Nat, IsFiniteSet(S)
  PROVE  /\ Cardinality(S) \in Nat
         /\ \A k \in 1..Cardinality(S) : Nth(S, k) \in S
         /\ \A k, l \in 1..Cardinality(S) : Nth(S, k) = Nth(S, l) => k = l
         /\ \A i \in S : \E k \in 1..Cardinality(S) : i = Nth(S, k)
<1> DEFINE n == Cardinality(S)
           below(i) == {j \in S : j <= i}
           rank == [i \in S |-> Cardinality(below(i))]
           nth == [k \in 1..n |-> Nth(S, k)]
<1>1. /\ n \in Nat /\ IsFiniteSet(1..n) /\ Cardinality(1..n) = n
  BY FS_CardinalityType, FS_Interval
<1>2. ASSUME NEW i \in S
      PROVE  IsFiniteSet(below(i)) /\ Cardinality(below(i)) \in 1..n
  <2>1. IsFiniteSet(below(i)) /\ Cardinality(below(i)) <= n
    BY FS_Subset
  <2>2. below(i) # {}
    OBVIOUS
  <2>3. Cardinality(below(i)) \in Nat /\ Cardinality(below(i)) # 0
    BY <2>1, <2>2, FS_EmptySet, FS_CardinalityType
  <2>4. QED BY <1>1, <2>1, <2>3
<1>3. ASSUME NEW i \in S, NEW j \in S, rank[i] = rank[j] PROVE i = j
  <2>1. ASSUME NEW a \in S, NEW b \in S, a < b PROVE Cardinality(below(a)) # Cardinality(below(b))
    <3>0. a \in Nat /\ b \in Nat /\ \A x \in S : x \in Nat
      OBVIOUS
    <3>1. ASSUME NEW x \in S, x <= a PROVE x <= b
      BY ONLY <2>1, <3>0, <3>1
    <3>2. b <= b /\ ~(b <= a)
      BY ONLY <2>1, <3>0
    <3>3. below(a) \in SUBSET below(b) /\ b \in below(b) /\ b \notin below(a)
      BY <3>1, <3>2
    <3>4. below(a) # below(b)
      BY <3>3
    <3>5. QED BY <1>2, <3>3, <3>4, FS_Subset
  <2>2. i \in Nat /\ j \in Nat
    OBVIOUS
  <2>3. ~(i < j) /\ ~(j < i)
    BY <1>3, <2>1
  <2>4. QED BY <2>2, <2>3
<1>4. rank \in Injection(S, 1..n)
  BY <1>2, <1>3 DEF Injection, IsInjective
<1>5. rank \in Surjection(S, 1..n)
  BY <1>1, <1>4, FS_Injection
<1>6. ASSUME NEW k \in 1..n
      PROVE  Nth(S, k) \in S /\ rank[Nth(S, k)] = k
  <2>1. \E i \in S : rank[i] = k
    BY <1>5 DEF Surjection
  <2>2. \E i \in S : Cardinality({j \in S : j <= i}) = k
    BY <2>1
  <2>3. Nth(S, k) \in S /\ Cardinality({j \in S : j <= Nth(S, k)}) = k
    BY <2>2 DEF Nth
  <2>4. QED BY <2>3
<1>7. nth \in Injection(1..n, S)
  <2> HIDE DEF rank
  <2>1. \A k, l \in 1..n : Nth(S, k) = Nth(S, l) => k = l
    BY <1>6
  <2>2. QED BY <1>6, <2>1 DEF Injection, IsInjective
<1>8. nth \in Surjection(1..n, S)
  BY <1>1, <1>7, FS_Injection
<1>9. \A i \in S : \E k \in 1..n : i = Nth(S, k)
  BY <1>8 DEF Surjection
<1>10. \A k, l \in 1..n : Nth(S, k) = Nth(S, l) => k = l
  BY <1>7 DEF Injection, IsInjective
<1>11. QED BY <1>1, <1>6, <1>9, <1>10

(* A list of blocks kept at some of its places holds what was there, and    *)
(* nothing twice if it held nothing twice.                                  *)
LEMMA AtPlaces ==
  ASSUME NEW T, NEW s \in Seq(T), NEW I, I \subseteq DOMAIN s
  PROVE  /\ At(s, I) \in Seq(T)
         /\ Range(At(s, I)) = {s[i] : i \in I}
         /\ IsInjective(s) => IsInjective(At(s, I))
<1> DEFINE n == Cardinality(I)
<1>1. DOMAIN s = 1..Len(s) /\ Len(s) \in Nat /\ \A i \in 1..Len(s) : s[i] \in T
  OBVIOUS
<1>2. I \subseteq Nat /\ IsFiniteSet(I)
  <2>1. IsFiniteSet(1..Len(s))
    BY <1>1, FS_Interval
  <2>2. I \in SUBSET (1..Len(s))
    BY <1>1
  <2>3. QED BY <2>1, <2>2, FS_Subset
<1>3. /\ n \in Nat /\ \A k \in 1..n : Nth(I, k) \in I
      /\ \A k, l \in 1..n : Nth(I, k) = Nth(I, l) => k = l
      /\ \A i \in I : \E k \in 1..n : i = Nth(I, k)
  BY <1>2, NthNumber
<1>4. At(s, I) = [k \in 1..n |-> s[Nth(I, k)]]
  BY DEF At
<1> HIDE DEF n
<1>5. At(s, I) \in [1..n -> T]
  BY <1>1, <1>3, <1>4
<1>6. At(s, I) \in Seq(T)
  BY <1>3, <1>5, IsASeq, <1>4
<1>7. Range(At(s, I)) = {s[i] : i \in I}
  BY <1>3, <1>4 DEF Range
<1>8. IsInjective(s) => IsInjective(At(s, I))
  BY <1>1, <1>3, <1>4 DEF IsInjective
<1>9. QED BY <1>6, <1>7, <1>8

(* One list behind another.                                                 *)
LEMMA Behind ==
  ASSUME NEW T, NEW s \in Seq(T), NEW t \in Seq(T)
  PROVE  /\ s \o t \in Seq(T) /\ Len(s \o t) = Len(s) + Len(t)
         /\ Range(s \o t) = Range(s) \cup Range(t)
         /\ IsInjective(s \o t) <=> /\ IsInjective(s) /\ IsInjective(t)
                                    /\ Range(s) \cap Range(t) = {}
<1>1. /\ s \o t \in Seq(T) /\ Len(s \o t) = Len(s) + Len(t)
      /\ Len(s) \in Nat /\ Len(t) \in Nat
      /\ DOMAIN (s \o t) = 1..(Len(s) + Len(t)) /\ DOMAIN s = 1..Len(s) /\ DOMAIN t = 1..Len(t)
      /\ \A i \in 1..(Len(s) + Len(t)) :
           (s \o t)[i] = IF i <= Len(s) THEN s[i] ELSE t[i - Len(s)]
  OBVIOUS
<1>2. /\ \A i \in 1..Len(s) : i \in 1..(Len(s) + Len(t)) /\ (s \o t)[i] = s[i]
      /\ \A i \in 1..Len(t) : i + Len(s) \in 1..(Len(s) + Len(t)) /\ (s \o t)[i + Len(s)] = t[i]
  BY <1>1
<1>3. Range(s \o t) = Range(s) \cup Range(t)
  BY RangeConcatenation
<1>4. IsInjective(s \o t) => /\ IsInjective(s) /\ IsInjective(t)
                             /\ Range(s) \cap Range(t) = {}
  <2> SUFFICES ASSUME IsInjective(s \o t)
               PROVE  /\ IsInjective(s) /\ IsInjective(t) /\ Range(s) \cap Range(t) = {}
    OBVIOUS
  <2>1. IsInjective(s)
    BY <1>1, <1>2 DEF IsInjective
  <2>2. IsInjective(t)
    <3>1. ASSUME NEW a \in 1..Len(t), NEW b \in 1..Len(t), t[a] = t[b] PROVE a = b
      <4>1. a + Len(s) = b + Len(s)
        BY <1>1, <1>2, <3>1 DEF IsInjective
      <4>2. QED BY <1>1, <4>1
    <3>2. QED BY <1>1, <3>1 DEF IsInjective
  <2>3. ASSUME NEW a \in 1..Len(s), NEW b \in 1..Len(t), s[a] = t[b] PROVE FALSE
    <3>1. a = b + Len(s)
      BY <1>1, <1>2, <2>3 DEF IsInjective
    <3>2. QED BY <1>1, <3>1
  <2>4. Range(s) \cap Range(t) = {}
    BY <1>1, <2>3 DEF Range
  <2>5. QED BY <2>1, <2>2, <2>4
<1>5. IsInjective(s) /\ IsInjective(t) /\ Range(s) \cap Range(t) = {} => IsInjective(s \o t)
  <2> SUFFICES ASSUME IsInjective(s), IsInjective(t), Range(s) \cap Range(t) = {},
                      NEW a \in 1..(Len(s) + Len(t)), NEW b \in 1..(Len(s) + Len(t)),
                      (s \o t)[a] = (s \o t)[b]
               PROVE  a = b
    BY <1>1 DEF IsInjective
  <2>1. \A i \in 1..Len(s), j \in 1..Len(t) : s[i] # t[j]
    BY <1>1 DEF Range
  <2>2. CASE a <= Len(s) /\ b <= Len(s)
    BY <1>1, <2>2 DEF IsInjective
  <2>3. CASE a > Len(s) /\ b > Len(s)
    <3>1. /\ a - Len(s) \in 1..Len(t) /\ b - Len(s) \in 1..Len(t)
          /\ t[a - Len(s)] = t[b - Len(s)]
      BY <1>1, <2>3
    <3>2. a - Len(s) = b - Len(s)
      BY <1>1, <3>1 DEF IsInjective
    <3>3. QED BY <1>1, <3>2
  <2>4. CASE a <= Len(s) /\ b > Len(s)
    BY <1>1, <2>1, <2>4
  <2>5. CASE a > Len(s) /\ b <= Len(s)
    BY <1>1, <2>1, <2>5
  <2>6. QED BY <1>1, <2>2, <2>3, <2>4, <2>5
<1>6. QED BY <1>1, <1>3, <1>4, <1>5

(* A part of a list, and the same part read backwards.                      *)
LEMMA Part ==
  ASSUME NEW T, NEW s \in Seq(T), NEW m \in Nat \ {0}, NEW n \in Nat, n <= Len(s)
  PROVE  /\ SubSeq(s, m, n) \in Seq(T)
         /\ Len(SubSeq(s, m, n)) = (IF m <= n THEN n - m + 1 ELSE 0)
         /\ Range(SubSeq(s, m, n)) = {s[i] : i \in m..n}
         /\ IsInjective(s) => IsInjective(SubSeq(s, m, n))
<1>1. \A i \in m..n : i \in 1..Len(s) /\ s[i] \in T
  OBVIOUS
<1>2. /\ SubSeq(s, m, n) \in Seq(T)
      /\ Len(SubSeq(s, m, n)) = (IF m <= n THEN n - m + 1 ELSE 0)
      /\ \A i \in 1..(n - m + 1) : SubSeq(s, m, n)[i] = s[m + i - 1]
  BY <1>1, SubSeqProperties
<1> DEFINE p == SubSeq(s, m, n)
           l == IF m <= n THEN n - m + 1 ELSE 0
<1>3. l \in Nat /\ DOMAIN p = 1..l /\ \A i \in 1..l : m + i - 1 \in m..n /\ p[i] = s[m + i - 1]
  BY <1>2
<1>4. \A i \in m..n : i - m + 1 \in 1..l /\ p[i - m + 1] = s[i]
  BY <1>3
<1> HIDE DEF p, l
<1>5. Range(p) = {s[i] : i \in m..n}
  <2>1. \A i \in 1..l : \E j \in m..n : p[i] = s[j]
    BY <1>3
  <2>2. \A j \in m..n : \E i \in 1..l : s[j] = p[i]
    BY <1>4
  <2>3. DOMAIN p = 1..l
    BY <1>3
  <2> DEFINE R == {s[j] : j \in m..n}
  <2>4. ASSUME NEW i \in DOMAIN p PROVE p[i] \in R
    <3>1. PICK j \in m..n : p[i] = s[j]
      BY <2>1, <2>3
    <3>2. QED BY <3>1
  <2>5. ASSUME NEW x \in R PROVE \E i \in DOMAIN p : x = p[i]
    <3>1. PICK j \in m..n : x = s[j]
      OBVIOUS
    <3>2. QED BY <2>2, <2>3, <3>1
  <2>6. Range(p) = R
    <3> HIDE DEF R
    <3>1. QED BY <2>4, <2>5, RangeIs
  <2>7. QED BY <2>6
<1>6. IsInjective(s) => IsInjective(p)
  <2> SUFFICES ASSUME IsInjective(s), NEW a \in 1..l, NEW b \in 1..l, p[a] = p[b]
               PROVE  a = b
    BY <1>3 DEF IsInjective
  <2>1. m + a - 1 = m + b - 1
    BY <1>1, <1>3 DEF IsInjective
  <2>2. QED BY <1>3, <2>1
<1>7. QED
  <2>1. Len(SubSeq(s, m, n)) = (IF m <= n THEN n - m + 1 ELSE 0)
    BY <1>2
  <2>2. QED BY <1>2, <1>5, <1>6, <2>1 DEF p

(* Reverse, as the chain of a checkpoint is linked from its last block.     *)
LEMMA Backwards ==
  ASSUME NEW T, NEW s \in Seq(T)
  PROVE  /\ Reverse(s) \in Seq(T) /\ Range(Reverse(s)) = Range(s)
         /\ IsInjective(s) => IsInjective(Reverse(s))
<1>1. /\ Len(s) \in Nat /\ DOMAIN s = 1..Len(s) /\ \A i \in 1..Len(s) : s[i] \in T
      /\ Reverse(s) = [i \in 1..Len(s) |-> s[(Len(s) - i) + 1]]
  BY DEF Reverse
<1>2. \A i \in 1..Len(s) : (Len(s) - i) + 1 \in 1..Len(s) /\ (Len(s) - ((Len(s) - i) + 1)) + 1 = i
  BY <1>1
<1>3. Reverse(s) \in [1..Len(s) -> T]
  BY <1>1, <1>2
<1>4. Reverse(s) \in Seq(T)
  BY <1>1, <1>3, IsASeq
<1>5. Range(Reverse(s)) = Range(s)
  <2>1. DOMAIN Reverse(s) = 1..Len(s)
    BY <1>1
  <2>2. \A i \in 1..Len(s) : Reverse(s)[i] = s[(Len(s) - i) + 1]
    BY <1>1
  <2>3. \A i \in 1..Len(s) : s[i] = Reverse(s)[(Len(s) - i) + 1]
    BY <1>2, <2>2
  <2>4. \A i \in 1..Len(s) : \E j \in 1..Len(s) : Reverse(s)[i] = s[j]
    BY <1>2, <2>2
  <2>5. \A i \in 1..Len(s) : \E j \in 1..Len(s) : s[i] = Reverse(s)[j]
    BY <1>2, <2>3
  <2>6. DOMAIN s = 1..Len(s)
    BY <1>1
  <2>7. ASSUME NEW i \in DOMAIN Reverse(s) PROVE Reverse(s)[i] \in Range(s)
    <3>1. PICK j \in 1..Len(s) : Reverse(s)[i] = s[j]
      BY <2>1, <2>4
    <3>2. QED BY <2>6, <3>1 DEF Range
  <2>8. ASSUME NEW x \in Range(s) PROVE \E i \in DOMAIN Reverse(s) : x = Reverse(s)[i]
    <3>1. PICK j \in 1..Len(s) : x = s[j]
      BY <2>6 DEF Range
    <3>2. QED BY <2>1, <2>5, <3>1
  <2>9. QED BY <2>7, <2>8, RangeIs
<1>6. IsInjective(s) => IsInjective(Reverse(s))
  <2> SUFFICES ASSUME IsInjective(s), NEW a \in 1..Len(s), NEW b \in 1..Len(s),
                      s[(Len(s) - a) + 1] = s[(Len(s) - b) + 1]
               PROVE  a = b
    BY <1>1 DEF IsInjective
  <2>1. (Len(s) - a) + 1 = (Len(s) - b) + 1
    BY <1>1, <1>2 DEF IsInjective
  <2>2. QED BY <1>1, <2>1
<1>7. QED BY <1>4, <1>5, <1>6

(* SetToSeq, Ascending: a set of blocks as a list holds it, and once.       *)
LEMMA SetAsList ==
  ASSUME NEW S, IsFiniteSet(S)
  PROVE  SetToSeq(S) \in Seq(S) /\ Range(SetToSeq(S)) = S /\ IsInjective(SetToSeq(S))
<1> DEFINE n == Cardinality(S)
<1>1. n \in Nat /\ ExistsBijection(1..n, S) /\ IsFiniteSet(1..n) /\ Cardinality(1..n) = n
  BY FS_CardinalityType, FS_Interval
<1>2. \E f \in [1..n -> S] : IsInjective(f)
  BY <1>1 DEF ExistsBijection, Bijection, Injection
<1>3. SetToSeq(S) \in [1..n -> S] /\ IsInjective(SetToSeq(S))
  BY <1>2 DEF SetToSeq
<1> HIDE DEF n
<1>4. SetToSeq(S) \in Injection(1..n, S)
  BY <1>3 DEF Injection
<1>5. SetToSeq(S) \in Surjection(1..n, S)
  BY <1>1, <1>4, FS_Injection DEF n
<1>6. Range(SetToSeq(S)) = S
  BY <1>3, <1>5 DEF Range, Surjection
<1>7. QED BY <1>1, <1>3, <1>6, IsASeq

(* The blocks a fold replaces, freed in ascending order.                    *)
LEMMA AscendingList ==
  ASSUME NEW S, S \subseteq Nat, IsFiniteSet(S)
  PROVE  Ascending(S) \in Seq(S) /\ Range(Ascending(S)) = S /\ IsInjective(Ascending(S))
<1> DEFINE n == Cardinality(S)
<1>1. /\ n \in Nat /\ \A k \in 1..n : Nth(S, k) \in S
      /\ \A k, l \in 1..n : Nth(S, k) = Nth(S, l) => k = l
      /\ \A i \in S : \E k \in 1..n : i = Nth(S, k)
  BY NthNumber
<1>2. Ascending(S) = [k \in 1..n |-> Nth(S, k)]
  BY DEF Ascending
<1> HIDE DEF n
<1>3. Ascending(S) \in [1..n -> S]
  BY <1>1, <1>2
<1>4. Ascending(S) \in Seq(S)
  BY <1>1, <1>2, <1>3, IsASeq
<1>5. DOMAIN Ascending(S) = 1..n /\ \A k \in 1..n : Ascending(S)[k] = Nth(S, k)
  BY <1>2
<1>6. Range(Ascending(S)) = S
  BY ONLY <1>1, <1>5 DEF Range
<1>7. IsInjective(Ascending(S))
  BY ONLY <1>1, <1>5 DEF IsInjective
<1>8. QED BY <1>4, <1>6, <1>7

(* Min is the least member of a set that has one.                           *)
LEMMA MinLeast ==
  ASSUME NEW S, S \subseteq Nat, S # {}
  PROVE  Min(S) \in S /\ \A y \in S : Min(S) <= y
<1>1. \E x \in S : \A y \in S : ~(<<y, x>> \in OpToRel(<, Nat))
  BY WFMin, NatLessThanWellFounded
<1>2. PICK x \in S : \A y \in S : ~(<<y, x>> \in OpToRel(<, Nat))
  BY <1>1
<1>3. \A y \in S : x <= y
  <2>1. ASSUME NEW y \in S, y < x PROVE FALSE
    <3>1. <<y, x>> \in OpToRel(<, Nat)
      BY <2>1 DEF OpToRel
    <3>2. QED BY <1>2, <3>1
  <2>2. QED BY <2>1
<1>4. QED BY <1>3 DEF Min

(* As many chain blocks as c hold the entries that c blocks have room for.  *)
LEMMA ChainRoom ==
  ASSUME NEW len \in Nat, NEW c \in Nat, len <= c * ChainCap
  PROVE  ChainBlocks(len) \in Nat /\ ChainBlocks(len) <= c
<1> DEFINE d == ChainCap
           q == (len + d - 1) \div d
<1>1. d \in Nat /\ d > 0
  BY BlockFileAssumption
<1> HIDE DEF d
<1>2. c * d \in Nat
  BY <1>1
<1>3. q \in Int /\ q * d <= len + d - 1
  BY <1>1
<1>4. q >= 0
  BY <1>1
<1>5. q <= c
  <2> HIDE DEF q
  <2>1. SUFFICES ASSUME q >= c + 1 PROVE FALSE
    BY <1>3
  <2>2. q * d >= (c + 1) * d
    BY <1>1, <1>3, <2>1
  <2>3. (c + 1) * d = c * d + d
    BY <1>1
  <2>4. QED BY <1>1, <1>2, <1>3, <2>2, <2>3 DEF d
<1>6. QED BY <1>3, <1>4, <1>5 DEF ChainBlocks, d
(* The chain takes a prefix of the blocks committed free, or none.          *)
LEMMA ReserveFits ==
  ASSUME NEW T, NEW all \in Seq(T), NEW safe \in 0..Len(all)
  PROVE  /\ Reserve(all, safe) \in 0..safe
         /\ Reserve(all, safe) > 0 => Len(all) - Reserve(all, safe) <= Reserve(all, safe) * ChainCap
<1> DEFINE S == {n \in 0..Len(all) : Len(all) - n <= n * ChainCap}
           c == Min(S)
<1>1. Len(all) \in Nat /\ ChainCap \in Nat /\ ChainCap > 0
  BY BlockFileAssumption
<1>2. Len(all) \in S
  <2>1. Len(all) * ChainCap >= 0
    BY <1>1
  <2>2. QED BY <1>1, <2>1
<1>3. S \subseteq Nat
  BY <1>1
<1>4. c \in S
  <2> HIDE DEF S
  <2>1. QED BY <1>2, <1>3, MinLeast
<1>5. c \in 0..Len(all) /\ Len(all) - c <= c * ChainCap
  BY <1>4
<1>6. Reserve(all, safe) = IF c <= safe /\ Len(all) > c THEN c ELSE 0
  BY DEF Reserve
<1> HIDE DEF c
<1>7. QED BY <1>1, <1>5, <1>6

(* What a checkpoint makes of everything free: the list it publishes, the   *)
(* chain it writes it in, and the rest of the reserve; the chain is in      *)
(* blocks that were free, or new, and if nothing was free twice the three   *)
(* are apart from one another.                                              *)
LEMMA ChainWritten ==
  ASSUME NEW all \in Seq(BlockNo), NEW count \in Nat,
         NEW safe \in 0..Len(all), NEW w, w = WriteChain(all, safe, count), w.count <= MaxBlock
  PROVE  /\ w.count \in Nat /\ w.count >= count
         /\ w.list \in Seq(BlockNo) /\ w.unused \in Seq(BlockNo) /\ w.chain \in Seq(BlockNo)
         /\ Range(w.list) \cup Range(w.unused) \subseteq Range(all)
         /\ Range(w.chain) \subseteq {all[i] : i \in 1..safe} \cup ((count + 1)..w.count)
         /\ IsInjective(all) /\ Range(all) \subseteq 1..count =>
              /\ IsInjective(w.list) /\ IsInjective(w.chain) /\ IsInjective(w.unused)
              /\ Range(w.list) \cap Range(w.unused) = {}
              /\ Range(w.chain) \cap (Range(w.list) \cup Range(w.unused)) = {}
<1> DEFINE c == Reserve(all, safe)
           list == SubSeq(all, c + 1, Len(all))
           need == ChainBlocks(Len(list))
           top == SubSeq(all, c - need + 1, c)
           new == [i \in 1..need |-> count + i]
           low == SubSeq(all, 1, c - need)
           once == IsInjective(all) /\ Range(all) \subseteq 1..count
<1>1. /\ w.list = list
      /\ w.chain = IF c > 0 THEN Reverse(top) ELSE new
      /\ w.count = IF c > 0 THEN count ELSE count + need
      /\ w.unused = IF c > 0 THEN low ELSE <<>>
  BY DEF WriteChain
<1>2. /\ Len(all) \in Nat /\ DOMAIN all = 1..Len(all)
      /\ \A i \in 1..Len(all) : all[i] \in BlockNo /\ all[i] \in Range(all)
      /\ once => \A i, j \in 1..Len(all) : all[i] = all[j] => i = j
  BY DEF IsInjective, Range
<1>3. /\ c \in 0..safe /\ c \in Nat /\ c <= Len(all) /\ safe \in Nat
      /\ c > 0 => Len(all) - c <= c * ChainCap
  BY <1>2, ReserveFits
<1> HIDE DEF c
<1>4. /\ list \in Seq(BlockNo) /\ Len(list) = Len(all) - c
      /\ Range(list) = {all[i] : i \in (c + 1)..Len(all)} /\ (once => IsInjective(list))
  <2>1. c + 1 \in Nat \ {0}
    BY <1>3
  <2>2. /\ list \in Seq(BlockNo)
        /\ Len(list) = (IF c + 1 <= Len(all) THEN Len(all) - (c + 1) + 1 ELSE 0)
        /\ Range(list) = {all[i] : i \in (c + 1)..Len(all)} /\ (once => IsInjective(list))
    BY <1>2, <2>1, Part
  <2>3. Len(list) = Len(all) - c
    <3>1. /\ Len(all) \in Nat /\ c \in Nat /\ c <= Len(all)
          /\ Len(list) = (IF c + 1 <= Len(all) THEN Len(all) - (c + 1) + 1 ELSE 0)
      BY <1>2, <1>3, <2>2
    <3> HIDE DEF list
    <3>2. QED BY ONLY <3>1
  <2>4. QED BY ONLY <2>2, <2>3
<1> HIDE DEF list
<1>5. need \in Nat /\ (c > 0 => need <= c)
  <2>1. CASE c > 0
    BY <1>3, <1>4, <2>1, ChainRoom
  <2>2. CASE c = 0
    <3>1. Len(list) \in Nat /\ Len(list) <= Len(list) * ChainCap
      BY <1>2, <1>4, <2>2, BlockFileAssumption
    <3>2. QED BY <2>2, <3>1, ChainRoom
  <2>3. QED BY <1>3, <2>1, <2>2
<1> HIDE DEF need
<1>6. CASE c = 0
  <2>6. /\ w.list = list /\ w.chain = new /\ w.count = count + need /\ w.unused = <<>>
    BY <1>1, <1>6
  <2>1. new \in [1..need -> BlockNo]
    <3>1. count + need <= MaxBlock /\ MaxBlock \in Nat
      BY <2>6, BlockFileAssumption
    <3>2. \A i \in 1..need : count + i \in 1..MaxBlock
      BY <1>5, <3>1
    <3>3. QED BY <3>2 DEF BlockNo
  <2>2. new \in Seq(BlockNo) /\ DOMAIN new = 1..need
    BY <1>5, <2>1, IsASeq
  <2>3. IsInjective(new)
    BY <1>5 DEF IsInjective
  <2>4. Range(new) \subseteq (count + 1)..(count + need)
    BY <1>5 DEF Range
  <2>5. <<>> \in Seq(BlockNo) /\ Range(<<>>) = {} /\ IsInjective(<<>>)
    BY DEF Range, IsInjective
  <2>7. Range(list) \subseteq Range(all)
    <3>1. \A i \in (c + 1)..Len(all) : i \in 1..Len(all)
      BY <1>2, <1>3
    <3>2. QED BY ONLY <1>2, <1>4, <3>1
  <2> HIDE DEF new
  <2>8. once => Range(new) \cap Range(list) = {}
    BY <1>5, <2>4, <2>7
  <2>9. w.count \in Nat /\ w.count >= count
    BY <1>5, <2>6
  <2>10. /\ w.list \in Seq(BlockNo) /\ (once => IsInjective(w.list)) /\ Range(w.list) \subseteq Range(all)
         /\ w.unused \in Seq(BlockNo) /\ IsInjective(w.unused) /\ Range(w.unused) = {}
    BY <1>4, <2>5, <2>6, <2>7
  <2>11. /\ w.chain \in Seq(BlockNo) /\ IsInjective(w.chain)
         /\ Range(w.chain) \subseteq (count + 1)..w.count
         /\ once => Range(w.chain) \cap Range(w.list) = {}
    BY <2>2, <2>3, <2>4, <2>6, <2>8
  <2> HIDE DEF once
  <2>12. QED BY ONLY <2>9, <2>10, <2>11 DEF once
<1>7. CASE c > 0
  <2>1. need <= c /\ c - need \in Nat /\ c - need <= Len(all) /\ c - need + 1 \in Nat \ {0}
    BY <1>2, <1>3, <1>5, <1>7
  <2> DEFINE a == c - need
  <2>0. a \in Nat /\ a + 1 \in Nat \ {0} /\ a <= c /\ a <= Len(all) /\ c <= Len(all)
    BY <1>2, <1>3, <1>5, <2>1
  <2>t. top = SubSeq(all, a + 1, c) /\ low = SubSeq(all, 1, a)
    OBVIOUS
  <2> HIDE DEF a, top, low
  <2>2. /\ top \in Seq(BlockNo) /\ (once => IsInjective(top))
        /\ Range(top) = {all[i] : i \in (a + 1)..c}
    <3>1. /\ SubSeq(all, a + 1, c) \in Seq(BlockNo) /\ (once => IsInjective(SubSeq(all, a + 1, c)))
          /\ Range(SubSeq(all, a + 1, c)) = {all[i] : i \in (a + 1)..c}
      BY <1>3, <2>0, Part
    <3>2. QED BY <2>t, <3>1
  <2>3. /\ low \in Seq(BlockNo) /\ (once => IsInjective(low))
        /\ Range(low) = {all[i] : i \in 1..a}
    <3>1. /\ SubSeq(all, 1, a) \in Seq(BlockNo) /\ (once => IsInjective(SubSeq(all, 1, a)))
          /\ Range(SubSeq(all, 1, a)) = {all[i] : i \in 1..a}
      <4>1. 1 \in Nat \ {0} /\ a \in Nat /\ a <= Len(all)
        BY <2>0
      <4>2. QED BY ONLY <4>1, all \in Seq(BlockNo), Part
    <3>2. QED BY <2>t, <3>1
  <2>4. /\ Reverse(top) \in Seq(BlockNo) /\ (once => IsInjective(Reverse(top)))
        /\ Range(Reverse(top)) = Range(top)
    BY <2>2, Backwards
  <2>5. /\ w.list = list /\ w.chain = Reverse(top) /\ w.count = count /\ w.unused = low
    BY <1>1, <1>7
  <2>6. /\ \A i \in (c + 1)..Len(all) : i \in 1..Len(all) /\ i > c
        /\ \A i \in (a + 1)..c : i \in 1..Len(all) /\ i <= c /\ i > a /\ i \in 1..safe
        /\ \A i \in 1..a : i \in 1..Len(all) /\ i <= a /\ i <= c
    BY <1>2, <1>3, <2>0
  <2>7. Range(list) \cup Range(low) \subseteq Range(all)
    BY ONLY <1>2, <1>4, <2>3, <2>6
  <2>8. Range(top) \subseteq {all[i] : i \in 1..safe}
    BY <2>2, <2>6
  <2>9. once => \A i \in (c + 1)..Len(all), j \in 1..c : all[i] # all[j]
    BY <1>2, <1>3
  <2>10. once => \A i \in (a + 1)..c, j \in 1..a : all[i] # all[j]
    BY <1>2, <1>3, <2>0
  <2>11. once => Range(list) \cap Range(low) = {} /\ Range(top) \cap Range(list) = {}
    <3>1. (a + 1)..c \subseteq 1..c /\ 1..a \subseteq 1..c
      BY <1>3, <2>0
    <3>2. QED BY ONLY <1>4, <2>2, <2>3, <2>9, <3>1
  <2>12. once => Range(top) \cap Range(low) = {}
    BY ONLY <2>2, <2>3, <2>10
  <2>13. w.count = count /\ w.count \in Nat /\ w.count >= count
    BY <2>5
  <2>14. /\ w.list \in Seq(BlockNo) /\ (once => IsInjective(w.list))
         /\ w.unused \in Seq(BlockNo) /\ (once => IsInjective(w.unused))
         /\ w.chain \in Seq(BlockNo) /\ (once => IsInjective(w.chain))
    BY <1>4, <2>2, <2>3, <2>4, <2>5
  <2>15. Range(w.chain) = Range(top) /\ Range(w.list) = Range(list) /\ Range(w.unused) = Range(low)
    BY <2>4, <2>5
  <2> HIDE DEF once
  <2>16. QED BY ONLY <2>7, <2>8, <2>11, <2>12, <2>13, <2>14, <2>15 DEF once
<1>8. QED BY <1>3, <1>6, <1>7

(* An empty list has nothing in it, and nothing twice.                      *)
LEMMA NothingListed ==
  Range(<<>>) = {} /\ IsInjective(<<>>) /\ \A T : <<>> \in Seq(T)
BY DEF Range, IsInjective

(* partition: the part of a list inside a set and the part outside it.      *)
LEMMA Parted ==
  ASSUME NEW T, NEW s \in Seq(T), NEW S
  PROVE  /\ Among(s, S) \in Seq(T) /\ Range(Among(s, S)) = Range(s) \cap S
         /\ Outside(s, S) \in Seq(T) /\ Range(Outside(s, S)) = Range(s) \ S
         /\ IsInjective(s) => IsInjective(Among(s, S)) /\ IsInjective(Outside(s, S))
<1> DEFINE I == {i \in DOMAIN s : s[i] \in S}
           O == {i \in DOMAIN s : s[i] \notin S}
<1>1. /\ At(s, I) \in Seq(T) /\ Range(At(s, I)) = {s[i] : i \in I}
      /\ IsInjective(s) => IsInjective(At(s, I))
  BY AtPlaces
<1>2. /\ At(s, O) \in Seq(T) /\ Range(At(s, O)) = {s[i] : i \in O}
      /\ IsInjective(s) => IsInjective(At(s, O))
  BY AtPlaces
<1>3. {s[i] : i \in I} = Range(s) \cap S /\ {s[i] : i \in O} = Range(s) \ S
  BY DEF Range
<1>4. QED BY <1>1, <1>2, <1>3 DEF Among, Outside

(* The blocks that wait, as a list.                                         *)
LEMMA BlocksListed ==
  ASSUME NEW ret \in Seq(Wait)
  PROVE  /\ BlocksOf(ret) \in Seq(BlockNo) /\ DOMAIN BlocksOf(ret) = DOMAIN ret
         /\ \A i \in DOMAIN ret : /\ BlocksOf(ret)[i] = ret[i].block
                                  /\ ret[i].block \in BlockNo /\ ret[i].epoch \in 1..MaxEpoch
         /\ Blocks(ret) = {ret[i].block : i \in DOMAIN ret}
<1>1. /\ Len(ret) \in Nat /\ DOMAIN ret = 1..Len(ret)
      /\ \A i \in DOMAIN ret : ret[i] \in Wait
  OBVIOUS
<1>2. \A i \in DOMAIN ret : ret[i].block \in BlockNo /\ ret[i].epoch \in 1..MaxEpoch
  BY <1>1 DEF Wait, BlockNo
<1>3. BlocksOf(ret) = [i \in 1..Len(ret) |-> ret[i].block]
  BY <1>1 DEF BlocksOf
<1>4. BlocksOf(ret) \in [1..Len(ret) -> BlockNo]
  BY <1>1, <1>2, <1>3
<1>5. BlocksOf(ret) \in Seq(BlockNo)
  BY <1>1, <1>3, <1>4, IsASeq
<1>6. QED BY <1>1, <1>2, <1>3, <1>5 DEF Blocks, Range

(* What is kept of the blocks that wait.                                    *)
LEMMA WaitsAt ==
  ASSUME NEW ret \in Seq(Wait), NEW I, I \subseteq DOMAIN ret
  PROVE  /\ At(ret, I) \in Seq(Wait) /\ Range(At(ret, I)) = {ret[i] : i \in I}
         /\ Blocks(At(ret, I)) = {ret[i].block : i \in I}
         /\ BlocksOf(At(ret, I)) = At(BlocksOf(ret), I)
         /\ IsInjective(BlocksOf(ret)) => IsInjective(BlocksOf(At(ret, I)))
<1> DEFINE n == Cardinality(I)
<1>1. /\ Len(ret) \in Nat /\ DOMAIN ret = 1..Len(ret)
      /\ BlocksOf(ret) \in Seq(BlockNo) /\ DOMAIN BlocksOf(ret) = DOMAIN ret
      /\ \A i \in DOMAIN ret : BlocksOf(ret)[i] = ret[i].block
  BY BlocksListed
<1>2. I \subseteq Nat /\ IsFiniteSet(I)
  <2>1. IsFiniteSet(1..Len(ret))
    BY <1>1, FS_Interval
  <2>2. I \in SUBSET (1..Len(ret))
    BY <1>1
  <2>3. QED BY <2>1, <2>2, FS_Subset
<1>3. \A k \in 1..n : Nth(I, k) \in I
  BY <1>2, NthNumber
<1>4. /\ At(ret, I) = [k \in 1..n |-> ret[Nth(I, k)]]
      /\ At(BlocksOf(ret), I) = [k \in 1..n |-> BlocksOf(ret)[Nth(I, k)]]
  BY DEF At
<1>5. BlocksOf(At(ret, I)) = At(BlocksOf(ret), I)
  <2> HIDE DEF n
  <2>1. BlocksOf(At(ret, I)) = [k \in 1..n |-> ret[Nth(I, k)].block]
    BY <1>4 DEF BlocksOf
  <2>2. \A k \in 1..n : BlocksOf(ret)[Nth(I, k)] = ret[Nth(I, k)].block
    BY <1>1, <1>3
  <2>3. QED BY <1>4, <2>1, <2>2
<1>6. At(ret, I) \in Seq(Wait) /\ Range(At(ret, I)) = {ret[i] : i \in I}
  BY AtPlaces
<1>7. /\ Range(At(BlocksOf(ret), I)) = {BlocksOf(ret)[i] : i \in I}
      /\ IsInjective(BlocksOf(ret)) => IsInjective(At(BlocksOf(ret), I))
  BY <1>1, AtPlaces
<1>8. {BlocksOf(ret)[i] : i \in I} = {ret[i].block : i \in I}
  BY <1>1
<1>9. QED BY <1>5, <1>6, <1>7, <1>8 DEF Blocks

(* Blocks let go of together wait under one epoch.                          *)
LEMMA WaitingListed ==
  ASSUME NEW b \in Seq(BlockNo), NEW e, e \in 1..MaxEpoch \/ b = <<>>
  PROVE  Waiting(b, e) \in Seq(Wait) /\ BlocksOf(Waiting(b, e)) = b /\ Blocks(Waiting(b, e)) = Range(b)
         /\ \A i \in DOMAIN Waiting(b, e) : Waiting(b, e)[i].epoch = e
<1>1. /\ Len(b) \in Nat /\ DOMAIN b = 1..Len(b) /\ \A i \in DOMAIN b : b[i] \in BlockNo
      /\ b = [i \in 1..Len(b) |-> b[i]]
  OBVIOUS
<1>2. Waiting(b, e) = [i \in 1..Len(b) |-> [epoch |-> e, block |-> b[i]]]
  BY <1>1 DEF Waiting
<1>3. b = <<>> => 1..Len(b) = {}
  OBVIOUS
<1>4. Waiting(b, e) \in [1..Len(b) -> Wait]
  BY <1>1, <1>2, <1>3 DEF Wait, BlockNo
<1>5. Waiting(b, e) \in Seq(Wait)
  BY <1>1, <1>2, <1>4, IsASeq
<1>6. BlocksOf(Waiting(b, e)) = [i \in 1..Len(b) |-> b[i]]
  BY <1>2 DEF BlocksOf
<1>7. DOMAIN Waiting(b, e) = 1..Len(b) /\ \A i \in 1..Len(b) : Waiting(b, e)[i].epoch = e
  BY <1>2
<1>8. QED BY ONLY <1>1, <1>5, <1>6, <1>7 DEF Blocks

(* A list of waiting blocks behind another.                                 *)
LEMMA WaitsBehind ==
  ASSUME NEW ret \in Seq(Wait), NEW more \in Seq(Wait)
  PROVE  /\ ret \o more \in Seq(Wait)
         /\ BlocksOf(ret \o more) = BlocksOf(ret) \o BlocksOf(more)
         /\ Blocks(ret \o more) = Blocks(ret) \cup Blocks(more)
         /\ Range(ret \o more) = Range(ret) \cup Range(more)
         /\ IsInjective(BlocksOf(ret \o more))
              <=> /\ IsInjective(BlocksOf(ret)) /\ IsInjective(BlocksOf(more))
                  /\ Blocks(ret) \cap Blocks(more) = {}
<1> DEFINE all == ret \o more
           m == Len(ret)
           n == Len(more)
<1>1. /\ m \in Nat /\ n \in Nat /\ all \in Seq(Wait) /\ Range(all) = Range(ret) \cup Range(more)
      /\ DOMAIN ret = 1..m /\ DOMAIN more = 1..n /\ DOMAIN all = 1..(m + n)
      /\ \A i \in 1..(m + n) : all[i] = IF i <= m THEN ret[i] ELSE more[i - m]
  BY Behind
<1>2. /\ BlocksOf(ret) \in Seq(BlockNo) /\ DOMAIN BlocksOf(ret) = 1..m
      /\ BlocksOf(more) \in Seq(BlockNo) /\ DOMAIN BlocksOf(more) = 1..n
      /\ BlocksOf(all) \in Seq(BlockNo) /\ DOMAIN BlocksOf(all) = 1..(m + n)
  BY <1>1, BlocksListed
<1>3. BlocksOf(ret) \o BlocksOf(more) \in Seq(BlockNo)
      /\ DOMAIN (BlocksOf(ret) \o BlocksOf(more)) = 1..(m + n)
  <2>1. Len(BlocksOf(ret)) = m /\ Len(BlocksOf(more)) = n
    BY <1>1, <1>2
  <2>2. QED BY <1>1, <1>2, <2>1
<1>4. ASSUME NEW i \in 1..(m + n)
      PROVE  BlocksOf(all)[i] = (BlocksOf(ret) \o BlocksOf(more))[i]
  <2>1. BlocksOf(all)[i] = all[i].block
    BY <1>1, BlocksListed
  <2>2. Len(BlocksOf(ret)) = m /\ Len(BlocksOf(more)) = n
    BY <1>1, <1>2
  <2>3. CASE i <= m
    <3>1. i \in 1..m /\ BlocksOf(ret)[i] = ret[i].block
      BY <1>1, <2>3, BlocksListed
    <3>2. (BlocksOf(ret) \o BlocksOf(more))[i] = BlocksOf(ret)[i]
      BY <1>1, <1>2, <2>2, <2>3
    <3>3. QED BY <1>1, <2>1, <2>3, <3>1, <3>2
  <2>4. CASE ~(i <= m)
    <3>1. i - m \in 1..n /\ BlocksOf(more)[i - m] = more[i - m].block
      <4>1. i - m \in 1..n
        BY <1>1, <2>4
      <4>2. QED BY <1>1, <4>1, BlocksListed
    <3>2. (BlocksOf(ret) \o BlocksOf(more))[i] = BlocksOf(more)[i - m]
      <4> DEFINE c == BlocksOf(ret) \o BlocksOf(more)
      <4>1. \A j \in 1..(m + n) : c[j] = IF j <= m THEN BlocksOf(ret)[j] ELSE BlocksOf(more)[j - m]
        BY <1>2, <2>2, ConcatProperties
      <4> HIDE DEF c, m, n
      <4>2. c[i] = IF i <= m THEN BlocksOf(ret)[i] ELSE BlocksOf(more)[i - m]
        BY <4>1
      <4>3. QED BY <2>4, <4>2 DEF c
    <3>3. all[i] = more[i - m]
      BY <1>1, <2>4
    <3>4. QED BY <2>1, <3>1, <3>2, <3>3
  <2>5. QED BY <2>3, <2>4
<1> HIDE DEF all, m, n
<1>5. BlocksOf(all) = BlocksOf(ret) \o BlocksOf(more)
  <2>1. Len(BlocksOf(all)) = m + n /\ Len(BlocksOf(ret) \o BlocksOf(more)) = m + n
    BY <1>1, <1>2, <1>3
  <2>2. QED BY <1>2, <1>3, <1>4, <2>1, SeqEqual
<1>6. /\ Range(BlocksOf(all)) = Range(BlocksOf(ret)) \cup Range(BlocksOf(more))
      /\ IsInjective(BlocksOf(all))
           <=> /\ IsInjective(BlocksOf(ret)) /\ IsInjective(BlocksOf(more))
               /\ Range(BlocksOf(ret)) \cap Range(BlocksOf(more)) = {}
  BY <1>2, <1>5, Behind
<1>7. QED BY <1>1, <1>5, <1>6 DEF Blocks, all

---------------------------------------------------------------------------
(* Headers, and what is in range. *)

Up == mode # "down"
Within == mode \in {"stmt", "raised", "txn"}
Writing == pc \in {"sync", "flip"}

\* Another copy of a header, whole or not.
Twin(g, h) ==
  IF h = NoHeader THEN g = NoHeader
  ELSE /\ g \in Header /\ g # NoHeader /\ g.epoch = h.epoch /\ g.roots = h.roots
       /\ g.count = h.count /\ g.list = h.list /\ g.chain = h.chain

\* What is in memory is in range, and goes with the process.
TypeInv ==
  /\ TypeOK
  /\ save.free \in Seq(BlockNo) /\ save.marked \in BOOLEAN
  /\ InSavepoint => save.began \in 1..MaxEpoch
  /\ Writing => db.epoch < MaxEpoch
  /\ Up => hdr["shared"] # NoHeader
  /\ ~Up => /\ free = <<>> /\ pending = <<>> /\ frozen = <<>> /\ retained = <<>>
            /\ dirty = {} /\ save = NoSave
            /\ \A x \in Holder \ OnDisk : hdr[x] = NoHeader
  /\ mode \in {"down", "recover"} => crashes > 0

(* A header in range, field by field.                                       *)
LEMMA HeaderParts ==
  ASSUME NEW h \in Header \cup {NoHeader}
  PROVE  /\ h.epoch \in 0..MaxEpoch
         /\ h # NoHeader => /\ h \in Header /\ h.epoch \in 1..MaxEpoch /\ h.roots \subseteq BlockNo
                            /\ h.count \in 0..MaxBlock /\ h.count \in Nat
                            /\ h.list \in Seq(BlockNo) /\ h.chain \in Seq(BlockNo) /\ h.ok \in BOOLEAN
                            /\ IsFiniteSet(h.roots)
         /\ Twin(h, h)
<1>1. ASSUME h # NoHeader
      PROVE  /\ h \in Header /\ h.epoch \in 1..MaxEpoch /\ h.roots \subseteq BlockNo
             /\ h.count \in 0..MaxBlock /\ h.count \in Nat
             /\ h.list \in Seq(BlockNo) /\ h.chain \in Seq(BlockNo) /\ h.ok \in BOOLEAN
             /\ IsFiniteSet(h.roots)
  <2>1. /\ h \in Header /\ h.epoch \in 1..MaxEpoch /\ h.roots \subseteq BlockNo
        /\ h.count \in 0..MaxBlock /\ h.count \in Nat
        /\ h.list \in Seq(BlockNo) /\ h.chain \in Seq(BlockNo) /\ h.ok \in BOOLEAN
    BY <1>1, BlockFileAssumption DEF Header, BlockNo
  <2>2. IsFiniteSet(BlockNo)
    BY BlockFileAssumption, FS_Interval DEF BlockNo
  <2>3. QED BY <2>1, <2>2, FS_Subset
<1>2. h = NoHeader => h.epoch = 0
  BY DEF NoHeader
<1>3. h.epoch \in 0..MaxEpoch
  BY <1>1, <1>2, BlockFileAssumption
<1>4. QED BY <1>1, <1>3 DEF Twin

(* The header of a record of fields in range.                               *)
LEMMA HeaderMade ==
  ASSUME NEW e \in 1..MaxEpoch, NEW r, r \subseteq BlockNo, NEW n \in 0..MaxBlock,
         NEW l \in Seq(BlockNo), NEW c \in Seq(BlockNo), NEW k \in BOOLEAN
  PROVE  LET h == [epoch |-> e, roots |-> r, count |-> n, list |-> l, chain |-> c, ok |-> k]
         IN  h \in Header /\ h # NoHeader
<1> DEFINE h == [epoch |-> e, roots |-> r, count |-> n, list |-> l, chain |-> c, ok |-> k]
<1>1. h \in Header
  BY DEF Header, BlockNo
<1>2. h.epoch # 0
  OBVIOUS
<1>3. h # NoHeader
  BY <1>2 DEF NoHeader
<1>4. QED BY <1>1, <1>3

(* A header is its six fields.                                              *)
LEMMA HeaderFields ==
  ASSUME NEW h \in Header
  PROVE  /\ h = [epoch |-> h.epoch, roots |-> h.roots, count |-> h.count,
                 list |-> h.list, chain |-> h.chain, ok |-> h.ok]
         /\ h # NoHeader /\ h.epoch # 0
<1>1. h.epoch \in 1..MaxEpoch /\ h.epoch # 0
  BY DEF Header
<1>2. NoHeader.epoch = 0
  BY DEF NoHeader
<1>3. h # NoHeader
  BY <1>1, <1>2
<1>4. QED BY <1>1, <1>3 DEF Header

(* write_block leaves of a header all but its being whole.                  *)
LEMMA OverwrittenTwin ==
  ASSUME NEW h \in Header \cup {NoHeader}, NEW B
  PROVE  /\ Overwritten(h, B) \in Header \cup {NoHeader} /\ Twin(Overwritten(h, B), h)
         /\ h # NoHeader => (Overwritten(h, B).ok <=> h.ok /\ Reach(h) \cap B = {})
<1>1. CASE h = NoHeader
  BY <1>1 DEF Overwritten, Twin
<1>2. CASE h # NoHeader
  <2> DEFINE k == h.ok /\ Reach(h) \cap B = {}
             g == [h EXCEPT !.ok = k]
  <2>1. Overwritten(h, B) = g /\ h \in Header
    BY <1>2 DEF Overwritten
  <2>2. k \in BOOLEAN /\ h.ok \in BOOLEAN
    BY <2>1 DEF Header
  <2> HIDE DEF k
  <2>3. /\ g.epoch = h.epoch /\ g.roots = h.roots /\ g.count = h.count
        /\ g.list = h.list /\ g.chain = h.chain /\ g.ok = k /\ g \in Header
    BY <2>1, <2>2 DEF Header
  <2>4. g # NoHeader
    BY <2>3, HeaderFields
  <2> HIDE DEF g
  <2>5. Twin(g, h)
    BY <1>2, <2>3, <2>4 DEF Twin
  <2>6. QED BY <2>1, <2>3, <2>5 DEF k
<1>3. QED BY <1>1, <1>2

(* What a copy of a header reaches.                                         *)
LEMMA TwinParts ==
  ASSUME NEW h \in Header \cup {NoHeader}, NEW g, Twin(g, h)
  PROVE  /\ g \in Header \cup {NoHeader} /\ (g = NoHeader <=> h = NoHeader) /\ g.epoch = h.epoch
         /\ h # NoHeader => /\ g.roots = h.roots /\ g.count = h.count
                            /\ g.list = h.list /\ g.chain = h.chain /\ Reach(g) = Reach(h)
BY DEF Twin, Reach

(* What the types say of the holders, ready to cite.                        *)
LEMMA HolderParts ==
  ASSUME TypeOK
  PROVE  /\ DOMAIN hdr = Holder
         /\ \A x \in Holder : hdr[x] \in Header \cup {NoHeader}
         /\ Holder = {"A", "B", "marker", "db", "kept", "shared", "staged"} \cup Reader
         /\ Reader \cap {"A", "B", "marker", "db", "kept", "shared", "staged"} = {}
         /\ OnDisk = {"A", "B", "marker"} /\ Slot = {"A", "B"} /\ active \in Slot
         /\ Newest(hdr) \in Slot
         /\ Range(free) \cup Range(pending) \cup Range(frozen) \cup Blocks(retained) \subseteq BlockNo
<1>1. /\ hdr \in [Holder -> Header \cup {NoHeader}] /\ active \in Slot
      /\ free \in Seq(BlockNo) /\ pending \in Seq(BlockNo) /\ frozen \in Seq(BlockNo)
      /\ retained \in Seq(Wait)
  BY DEF TypeOK, BlockNo, Wait
<1>2. Range(free) \cup Range(pending) \cup Range(frozen) \subseteq BlockNo
  BY <1>1, RangeOfSeq
<1>3. Blocks(retained) \subseteq BlockNo
  <2>1. retained \in Seq(Wait)
    BY <1>1
  <2>2. /\ Blocks(retained) = {retained[i].block : i \in DOMAIN retained}
        /\ \A i \in DOMAIN retained : retained[i].block \in BlockNo
    BY ONLY <2>1, BlocksListed
  <2>3. QED BY ONLY <2>2
<1>4. /\ Holder = {"A", "B", "marker", "db", "kept", "shared", "staged"} \cup Reader
      /\ Reader \cap {"A", "B", "marker", "db", "kept", "shared", "staged"} = {}
      /\ OnDisk = {"A", "B", "marker"} /\ Slot = {"A", "B"} /\ Newest(hdr) \in Slot
  BY ReaderAssumption DEF Holder, OnDisk, InMemory, Slot, Newest
<1>5. QED BY <1>1, <1>2, <1>3, <1>4

---------------------------------------------------------------------------
(* What a fold, a reclaim and a checkpoint do. *)

(* allocate_block: the block handed out was the last one free, or is new.   *)
LEMMA Allocated ==
  ASSUME NEW f \in Seq(BlockNo), NEW count \in Nat, NEW a, a = AllocateBlock(f, count)
  PROVE  /\ a.free \in Seq(BlockNo) /\ Range(a.free) \subseteq Range(f)
         /\ IsInjective(f) => IsInjective(a.free)
         /\ \/ /\ a.count = count /\ a.ptr \in Range(f) /\ a.ptr \in BlockNo
               /\ IsInjective(f) => a.ptr \notin Range(a.free)
            \/ a.count = count + 1 /\ a.ptr = count + 1 /\ f = <<>> /\ a.free = <<>>
<1>1. CASE f = <<>>
  <2>1. a = [ptr |-> count + 1, free |-> f, count |-> count + 1]
    BY <1>1 DEF AllocateBlock
  <2>2. a.ptr = count + 1 /\ a.free = <<>> /\ a.count = count + 1
    BY <1>1, <2>1
  <2>3. QED BY ONLY <1>1, <2>2, NothingListed
<1>2. CASE f # <<>>
  <2> DEFINE n == Len(f)
  <2>1. a = [ptr |-> f[n], free |-> SubSeq(f, 1, n - 1), count |-> count]
    BY <1>2 DEF AllocateBlock, Last, Front
  <2>2. n \in Nat \ {0} /\ n - 1 \in Nat /\ DOMAIN f = 1..n /\ n \in DOMAIN f /\ \A i \in 1..n : f[i] \in BlockNo
    BY <1>2, EmptySeq
  <2>3. /\ SubSeq(f, 1, n - 1) \in Seq(BlockNo)
        /\ Range(SubSeq(f, 1, n - 1)) = {f[i] : i \in 1..(n - 1)}
        /\ IsInjective(f) => IsInjective(SubSeq(f, 1, n - 1))
    <3>1. 1 \in Nat \ {0} /\ n - 1 \in Nat /\ n - 1 <= Len(f)
      BY <2>2
    <3>2. QED BY ONLY <3>1, f \in Seq(BlockNo), Part
  <2> HIDE DEF n
  <2>4. \A i \in 1..(n - 1) : i \in DOMAIN f /\ i # n
    <3>1. \A i \in 1..(n - 1) : i \in 1..n /\ i # n
      BY <2>2
    <3>2. QED BY <2>2, <3>1
  <2>5. Range(SubSeq(f, 1, n - 1)) \subseteq Range(f) /\ f[n] \in Range(f)
    BY <2>2, <2>3, <2>4 DEF Range
  <2>6. IsInjective(f) => f[n] \notin Range(SubSeq(f, 1, n - 1))
    BY <2>2, <2>3, <2>4 DEF IsInjective
  <2>7. QED BY <2>1, <2>2, <2>3, <2>5, <2>6
<1>3. QED BY <1>1, <1>2

(* What a fold does, one that fails included: it takes a block nothing else *)
(* has, or a new one, and frees blocks.                                     *)
Took(ptr, F) ==
  /\ DOMAIN hdr' = Holder /\ hdr' = [x \in Holder |-> hdr'[x]]
  /\ \A x \in Holder \ {"db"} : hdr'[x] = Overwritten(hdr[x], {ptr})
  /\ LET h == hdr'["db"]
     IN  /\ h \in Header /\ h # NoHeader
         /\ h.epoch >= db.epoch /\ h.list = db.list /\ h.chain = db.chain
         /\ h.ok <=> db.ok /\ ptr \notin Reach(db)
         /\ h.roots \subseteq db.roots \cup {ptr}
         /\ \/ h.roots = (db.roots \ F) \cup {ptr}
            \/ mode' = "raised" \/ "carryon" \in Allow
         /\ \/ /\ h.count = db.count /\ ptr \in Range(free)
               /\ IsInjective(free) => ptr \notin Range(free')
            \/ h.count = db.count + 1 /\ ptr = db.count + 1 /\ free = <<>> /\ free' = <<>>
  /\ free' \in Seq(BlockNo) /\ Range(free') \subseteq Range(free)
  /\ IsInjective(free) => IsInjective(free')
  /\ pending' \in Seq(BlockNo) /\ Range(pending') = Range(pending) \cup F
  /\ F \cap Range(pending) = {} /\ IsInjective(pending) => IsInjective(pending')
  /\ dirty' = dirty \cup {ptr}
  /\ UNCHANGED <<active, frozen, retained, published, crashes>>
  /\ \/ save' = save
     \/ save' = [save EXCEPT !.published = TRUE]
  /\ mode' = mode \/ (mode = "stmt" /\ mode' = "raised")

(* A fold takes one block from the free list or off the end of the file,    *)
(* frees the blocks it replaces, and leaves every other header but for its  *)
(* "ok".                                                                    *)
LEMMA FoldEffect ==
  ASSUME TypeInv, SavepointInv, NEW F \in Freed, mode # "down",
         StagedFold(F) \/ CheckpointFold(F) \/ FoldFails(F)
  PROVE  \E ptr \in BlockNo : Took(ptr, F)
<1> DEFINE a == AllocateBlock(free, db.count)
           W == WriteBlocks({a.ptr})
<1>1. /\ db # NoHeader /\ db \in Header \cup {NoHeader} /\ hdr["db"] = db
      /\ free \in Seq(BlockNo) /\ pending \in Seq(BlockNo)
      /\ DOMAIN hdr = Holder /\ "db" \in Holder
      /\ \A x \in Holder : hdr[x] \in Header \cup {NoHeader}
  BY HolderParts DEF SavepointInv, WriterInv, db, TypeInv, TypeOK, BlockNo
<1>2. /\ db \in Header /\ db.epoch \in 1..MaxEpoch /\ db.roots \subseteq BlockNo
      /\ db.count \in 0..MaxBlock /\ db.count \in Nat /\ MaxBlock \in Nat /\ MaxEpoch \in Nat
      /\ db.list \in Seq(BlockNo) /\ db.chain \in Seq(BlockNo) /\ db.ok \in BOOLEAN
      /\ IsFiniteSet(db.roots)
  BY <1>1, HeaderParts, BlockFileAssumption
<1>3. /\ a.free \in Seq(BlockNo) /\ Range(a.free) \subseteq Range(free)
      /\ IsInjective(free) => IsInjective(a.free)
      /\ \/ /\ a.count = db.count /\ a.ptr \in Range(free) /\ a.ptr \in BlockNo
            /\ IsInjective(free) => a.ptr \notin Range(a.free)
         \/ a.count = db.count + 1 /\ a.ptr = db.count + 1 /\ free = <<>> /\ a.free = <<>>
  BY <1>1, <1>2, Allocated
<1> HIDE DEF a
<1>4. /\ a.count <= MaxBlock /\ free' = a.free /\ dirty' = dirty \cup {a.ptr}
      /\ pending' = pending \o Ascending(F)
      /\ UNCHANGED <<active, frozen, retained, published, crashes>>
      /\ save' = save \/ save' = [save EXCEPT !.published = TRUE]
      /\ mode' = mode \/ (mode = "stmt" /\ mode' = "raised")
  <2>1. CASE FoldFails(F)
    BY <2>1 DEF a, FoldFails
  <2>2. CASE StagedFold(F)
    BY <2>2 DEF a, StagedFold, FoldInto
  <2>3. CASE CheckpointFold(F)
    BY <2>3 DEF a, CheckpointFold, FoldInto
  <2>4. QED BY <2>1, <2>2, <2>3
<1>5. a.ptr \in BlockNo /\ a.count \in 0..MaxBlock
  BY <1>2, <1>3, <1>4 DEF BlockNo
<1>6. /\ DOMAIN W = Holder /\ W = [x \in Holder |-> W[x]]
      /\ \A x \in Holder : W[x] = Overwritten(hdr[x], {a.ptr})
  BY DEF WriteBlocks
<1>7. /\ W["db"] \in Header /\ W["db"] # NoHeader /\ W["db"].epoch = db.epoch /\ W["db"].roots = db.roots
      /\ W["db"].list = db.list /\ W["db"].chain = db.chain
      /\ W["db"].ok <=> db.ok /\ a.ptr \notin Reach(db)
  <2>1. /\ Twin(W["db"], db) /\ W["db"] \in Header \cup {NoHeader}
        /\ W["db"].ok <=> db.ok /\ Reach(db) \cap {a.ptr} = {}
    <3>1. W["db"] = Overwritten(db, {a.ptr})
      BY <1>1, <1>6
    <3>2. QED BY <1>1, <3>1, OverwrittenTwin
  <2>2. Reach(db) \cap {a.ptr} = {} <=> a.ptr \notin Reach(db)
    OBVIOUS
  <2>3. QED BY <1>1, <1>2, <2>1, <2>2 DEF Twin
<1> HIDE DEF W
<1>8. F \subseteq db.roots /\ F \subseteq BlockNo /\ F \subseteq Nat /\ IsFiniteSet(F)
  <2>1. F \subseteq db.roots /\ F \subseteq BlockNo
    BY <1>2 DEF Freed
  <2>2. QED BY <1>2, <2>1, FS_Subset DEF BlockNo
<1>9. /\ Ascending(F) \in Seq(BlockNo) /\ Range(Ascending(F)) = F /\ IsInjective(Ascending(F))
  <2>1. Ascending(F) \in Seq(F) /\ Range(Ascending(F)) = F /\ IsInjective(Ascending(F))
    BY <1>8, AscendingList
  <2>2. QED BY <1>8, <2>1, SeqMonotonic
<1>10. /\ pending' \in Seq(BlockNo) /\ Range(pending') = Range(pending) \cup F
       /\ (F \cap Range(pending) = {} /\ IsInjective(pending)) => IsInjective(pending')
  BY <1>1, <1>4, <1>9, Behind
<1>11. CASE FoldFails(F)
  <2>1. hdr' = [W EXCEPT !["db"].count = a.count]
    BY <1>11 DEF FoldFails, W, a
  <2> DEFINE h == [W["db"] EXCEPT !.count = a.count]
  <2>2. /\ DOMAIN hdr' = Holder /\ hdr' = [x \in Holder |-> hdr'[x]]
        /\ \A x \in Holder \ {"db"} : hdr'[x] = W[x] /\ hdr'["db"] = h
    BY <1>1, <1>6, <2>1
  <2>3. /\ h \in Header /\ h.epoch = db.epoch /\ h.roots = db.roots /\ h.list = db.list
        /\ h.chain = db.chain /\ h.ok = W["db"].ok /\ h.count = a.count
    BY <1>5, <1>7 DEF Header
  <2>4. h # NoHeader
    BY <2>3, HeaderFields
  <2> HIDE DEF h
  <2>5. hdr'["db"] = h /\ \A x \in Holder \ {"db"} : hdr'[x] = Overwritten(hdr[x], {a.ptr})
    <3>1. hdr'["db"] = h
      BY <1>6, <2>1, <1>1 DEF h
    <3>2. QED BY <1>6, <2>2, <3>1
  <2>6. h.epoch >= db.epoch
    BY <1>2, <2>3
  <2>8. mode' = "raised" \/ "carryon" \in Allow
    BY <1>11 DEF FoldFails
  <2>7. QED BY <1>3, <1>4, <1>5, <1>7, <1>10, <2>8, <2>2, <2>3, <2>4, <2>5, <2>6 DEF Took
<1>12. CASE ~FoldFails(F)
  <2>1. PICK next \in {0, 1} : db.epoch + next <= MaxEpoch
                 /\ hdr' = [W EXCEPT !["db"] = Replaced(@, F, a.ptr, a.count, next)]
    <3>1. CASE StagedFold(F)
      BY <1>2, <3>1 DEF StagedFold, FoldInto, W, a
    <3>2. CASE CheckpointFold(F)
      BY <1>2, <3>2 DEF CheckpointFold, FoldInto, W, a
    <3>3. QED BY <1>12, <3>1, <3>2
  <2> DEFINE h == Replaced(W["db"], F, a.ptr, a.count, next)
  <2>2. hdr'["db"] = h /\ DOMAIN hdr' = Holder /\ hdr' = [x \in Holder |-> hdr'[x]]
        /\ \A x \in Holder \ {"db"} : hdr'[x] = Overwritten(hdr[x], {a.ptr})
    BY <1>1, <1>6, <2>1
  <2>3. /\ h \in Header /\ h.epoch = db.epoch + next /\ h.roots = (db.roots \ F) \cup {a.ptr}
        /\ h.list = db.list /\ h.chain = db.chain /\ h.ok = W["db"].ok /\ h.count = a.count
    <3>1. db.epoch + next \in 1..MaxEpoch /\ (db.roots \ F) \cup {a.ptr} \subseteq BlockNo
      BY <1>2, <1>5, <2>1
    <3>2. QED BY <1>5, <1>7, <3>1 DEF Header, Replaced, BlockNo
  <2>4. h # NoHeader
    BY <2>3, HeaderFields
  <2> HIDE DEF h
  <2>5. h.epoch >= db.epoch
    BY <1>2, <2>3
  <2>6. QED BY <1>3, <1>4, <1>5, <1>7, <1>10, <2>2, <2>3, <2>4, <2>5 DEF Took
<1>13. QED BY <1>11, <1>12

(* reclaim: the floor is at or below the published epoch and every lease.   *)
LEMMA FloorBelow ==
  ASSUME NEW h \in [Holder -> Header \cup {NoHeader}]
  PROVE  /\ Floor(h) \in Nat /\ Floor(h) <= h["shared"].epoch
         /\ \A r \in Reader : h[r] # NoHeader => Floor(h) <= h[r].epoch
<1> DEFINE S == {h["shared"].epoch} \cup {h[r].epoch : r \in {r \in Reader : h[r] # NoHeader}}
<1>1. \A x \in Holder : h[x].epoch \in Nat
  BY HeaderParts, BlockFileAssumption
<1>2. "shared" \in Holder /\ Reader \subseteq Holder
  BY DEF Holder, InMemory
<1>3. S \subseteq Nat /\ S # {} /\ h["shared"].epoch \in S
      /\ \A r \in Reader : h[r] # NoHeader => h[r].epoch \in S
  BY <1>1, <1>2
<1>4. Floor(h) = Min(S)
  BY DEF Floor
<1> HIDE DEF S
<1>5. Min(S) \in S /\ \A y \in S : Min(S) <= y
  BY <1>3, MinLeast
<1>6. QED BY ONLY <1>3, <1>4, <1>5

\* Blocks let go of below a floor.
LetGo(ret, floor) == {ret[i].block : i \in {i \in DOMAIN ret : ret[i].epoch < floor}}

(* release_retained: what waits is let go of, or waits on.                  *)
LEMMA Splits ==
  ASSUME NEW ret \in Seq(Wait), NEW floor \in Int
  PROVE  /\ Ready(ret, floor) \in Seq(BlockNo) /\ Range(Ready(ret, floor)) = LetGo(ret, floor)
         /\ StillRetained(ret, floor) \in Seq(Wait)
         /\ Range(StillRetained(ret, floor)) = {ret[i] : i \in {i \in DOMAIN ret : ret[i].epoch >= floor}}
         /\ Blocks(StillRetained(ret, floor)) \cup LetGo(ret, floor) = Blocks(ret)
         /\ IsInjective(BlocksOf(ret)) =>
              /\ IsInjective(Ready(ret, floor)) /\ IsInjective(BlocksOf(StillRetained(ret, floor)))
              /\ Blocks(StillRetained(ret, floor)) \cap LetGo(ret, floor) = {}
<1> DEFINE I == {i \in DOMAIN ret : ret[i].epoch < floor}
           J == {i \in DOMAIN ret : ret[i].epoch >= floor}
<1>1. /\ BlocksOf(ret) \in Seq(BlockNo) /\ DOMAIN BlocksOf(ret) = DOMAIN ret
      /\ \A i \in DOMAIN ret : BlocksOf(ret)[i] = ret[i].block /\ ret[i].epoch \in 1..MaxEpoch
      /\ Blocks(ret) = {ret[i].block : i \in DOMAIN ret}
  BY BlocksListed
<1>2. /\ Ready(ret, floor) = At(BlocksOf(ret), I) /\ StillRetained(ret, floor) = At(ret, J)
      /\ LetGo(ret, floor) = {ret[i].block : i \in I}
  BY DEF Ready, StillRetained, LetGo
<1>3. \A i \in DOMAIN ret : (i \in I \/ i \in J) /\ ~(i \in I /\ i \in J)
  BY <1>1
<1>4. I \subseteq DOMAIN ret /\ J \subseteq DOMAIN ret
  OBVIOUS
<1>5. /\ At(BlocksOf(ret), I) \in Seq(BlockNo) /\ Range(At(BlocksOf(ret), I)) = {BlocksOf(ret)[i] : i \in I}
      /\ IsInjective(BlocksOf(ret)) => IsInjective(At(BlocksOf(ret), I))
  BY <1>1, <1>4, AtPlaces
<1>6. /\ At(ret, J) \in Seq(Wait) /\ Range(At(ret, J)) = {ret[i] : i \in J}
      /\ Blocks(At(ret, J)) = {ret[i].block : i \in J}
      /\ IsInjective(BlocksOf(ret)) => IsInjective(BlocksOf(At(ret, J)))
  BY <1>4, WaitsAt
<1>7. {BlocksOf(ret)[i] : i \in I} = {ret[i].block : i \in I}
  BY <1>1
<1> HIDE DEF I, J
<1>8. {ret[i].block : i \in J} \cup {ret[i].block : i \in I} = Blocks(ret)
  BY <1>1, <1>3, <1>4
<1>9. IsInjective(BlocksOf(ret)) => {ret[i].block : i \in J} \cap {ret[i].block : i \in I} = {}
  <2>1. ASSUME IsInjective(BlocksOf(ret)), NEW i \in J, NEW j \in I, ret[i].block = ret[j].block
        PROVE  FALSE
    <3>1. i \in DOMAIN ret /\ j \in DOMAIN ret /\ BlocksOf(ret)[i] = BlocksOf(ret)[j]
      BY <1>1, <1>4, <2>1
    <3>2. i = j
      BY <1>1, <2>1, <3>1 DEF IsInjective
    <3>3. QED BY <1>3, <2>1, <3>1, <3>2
  <2>2. QED BY <2>1
<1>10. Range(StillRetained(ret, floor)) = {ret[i] : i \in {i \in DOMAIN ret : ret[i].epoch >= floor}}
  BY <1>2, <1>6 DEF J
<1>11. QED BY ONLY <1>2, <1>5, <1>6, <1>7, <1>8, <1>9, <1>10

\* What reclaim does to the lists: ret is split at a floor.
Reclaimed(ret, fre, fro, inside, floor) ==
  /\ retained' \in Seq(Wait) /\ free' \in Seq(BlockNo) /\ frozen' \in Seq(BlockNo)
  /\ \A i \in DOMAIN retained' :
       \E j \in DOMAIN ret : retained'[i] = ret[j] /\ ret[j].epoch >= floor
  /\ Blocks(retained') \cup LetGo(ret, floor) = Blocks(ret)
  /\ inside => /\ Range(free') = Range(fre) \cup (LetGo(ret, floor) \cap Range(save.free))
               /\ Range(frozen') = Range(fro) \cup (LetGo(ret, floor) \ Range(save.free))
  /\ ~inside => Range(free') = Range(fre) \cup LetGo(ret, floor) /\ frozen' = fro
  /\ IsInjective(BlocksOf(ret)) =>
       /\ IsInjective(BlocksOf(retained')) /\ Blocks(retained') \cap LetGo(ret, floor) = {}
       /\ IsInjective(fre) /\ Range(fre) \cap Blocks(ret) = {} => IsInjective(free')
       /\ IsInjective(fro) /\ Range(fro) \cap Blocks(ret) = {} => IsInjective(frozen')

(* reclaim: what is let go of is free, or frozen if the savepoint may not   *)
(* have it.                                                                 *)
LEMMA ReclaimEffect ==
  ASSUME NEW h \in [Holder -> Header \cup {NoHeader}], NEW ret \in Seq(Wait),
         NEW fre \in Seq(BlockNo), NEW fro \in Seq(BlockNo), NEW inside \in BOOLEAN,
         Reclaim(h, ret, fre, fro, inside), save.free \in Seq(BlockNo)
  PROVE  Reclaimed(ret, fre, fro, inside, Floor(h))
<1> DEFINE f == Floor(h)
           go == LetGo(ret, f)
           rd == Ready(ret, f)
<1>1. f \in Nat /\ f \in Int
  BY FloorBelow
<1>2. /\ retained' = StillRetained(ret, f) /\ free' = fre \o Reusable(rd, inside)
      /\ frozen' = fro \o Unusable(rd, inside)
  BY DEF Reclaim
<1>3. /\ rd \in Seq(BlockNo) /\ Range(rd) = go
      /\ retained' \in Seq(Wait)
      /\ \A i \in DOMAIN retained' : \E j \in DOMAIN ret : retained'[i] = ret[j] /\ ret[j].epoch >= f
      /\ Blocks(retained') \cup go = Blocks(ret)
      /\ IsInjective(BlocksOf(ret)) =>
           /\ IsInjective(rd) /\ IsInjective(BlocksOf(retained')) /\ Blocks(retained') \cap go = {}
  <2>1. Range(StillRetained(ret, f)) = {ret[i] : i \in {i \in DOMAIN ret : ret[i].epoch >= f}}
    BY <1>1, Splits
  <2>2. ASSUME NEW i \in DOMAIN retained'
        PROVE  \E j \in DOMAIN ret : retained'[i] = ret[j] /\ ret[j].epoch >= f
    BY <1>2, <2>1 DEF Range
  <2>3. QED BY <1>1, <1>2, <2>2, Splits
<1> HIDE DEF f, go, rd
<1>4. CASE inside
  <2>1. /\ free' = fre \o Among(rd, Range(save.free)) /\ frozen' = fro \o Outside(rd, Range(save.free))
    BY <1>2, <1>4 DEF Reusable, Unusable
  <2>2. /\ Among(rd, Range(save.free)) \in Seq(BlockNo)
        /\ Range(Among(rd, Range(save.free))) = go \cap Range(save.free)
        /\ Outside(rd, Range(save.free)) \in Seq(BlockNo)
        /\ Range(Outside(rd, Range(save.free))) = go \ Range(save.free)
        /\ IsInjective(rd) => /\ IsInjective(Among(rd, Range(save.free)))
                              /\ IsInjective(Outside(rd, Range(save.free)))
    BY <1>3, Parted
  <2>3. /\ free' \in Seq(BlockNo) /\ Range(free') = Range(fre) \cup (go \cap Range(save.free))
        /\ frozen' \in Seq(BlockNo) /\ Range(frozen') = Range(fro) \cup (go \ Range(save.free))
    BY <2>1, <2>2, Behind
  <2>4. IsInjective(rd) /\ IsInjective(fre) /\ Range(fre) \cap Blocks(ret) = {} => IsInjective(free')
    BY <1>3, <2>1, <2>2, Behind
  <2>5. IsInjective(rd) /\ IsInjective(fro) /\ Range(fro) \cap Blocks(ret) = {} => IsInjective(frozen')
    BY <1>3, <2>1, <2>2, Behind
  <2>6. QED BY ONLY <1>3, <1>4, <2>3, <2>4, <2>5 DEF f, go, Reclaimed
<1>5. CASE ~inside
  <2>1. free' = fre \o rd /\ frozen' = fro
    BY <1>2, <1>5, ConcatEmptySeq DEF Reusable, Unusable
  <2>2. free' \in Seq(BlockNo) /\ Range(free') = Range(fre) \cup go
    BY <1>3, <2>1, Behind
  <2>3. IsInjective(rd) /\ IsInjective(fre) /\ Range(fre) \cap Blocks(ret) = {} => IsInjective(free')
    BY <1>3, <2>1, Behind
  <2>4. QED BY ONLY <1>3, <1>5, <2>1, <2>2, <2>3, fro \in Seq(BlockNo) DEF f, go, Reclaimed
<1>6. QED BY <1>4, <1>5

\* Nothing is in two places, none twice, and all of it is below the count:
\* what h reaches, and what is in the lists f, p, z and waiting in ret.
Apart(h, f, p, z, ret) ==
  /\ IsInjective(h.chain) /\ IsInjective(f) /\ IsInjective(p) /\ IsInjective(z)
  /\ IsInjective(BlocksOf(ret))
  /\ h.roots \cap (Range(h.chain) \cup Range(f) \cup Range(p) \cup Range(z) \cup Blocks(ret)) = {}
  /\ Range(h.chain) \cap (Range(f) \cup Range(p) \cup Range(z) \cup Blocks(ret)) = {}
  /\ Range(f) \cap (Range(p) \cup Range(z) \cup Blocks(ret)) = {}
  /\ Range(p) \cap (Range(z) \cup Blocks(ret)) = {}
  /\ Range(z) \cap Blocks(ret) = {}
  /\ Reach(h) \cup Range(f) \cup Range(p) \cup Range(z) \cup Blocks(ret) \subseteq 1..h.count

Listable == Apart(db, free, pending, frozen, retained)

\* What a checkpoint does when it writes the free list w.
Rest(w) == Range(w.list) \cup Range(w.unused)
Reached == Range(pending) \cup Range(db.chain)
Lists(w) ==
  /\ w.count \in Nat /\ w.count >= db.count /\ w.count <= MaxBlock
  /\ w.list \in Seq(BlockNo) /\ w.chain \in Seq(BlockNo)
  /\ Range(w.chain) \subseteq Range(free) \cup ((db.count + 1)..w.count)
  /\ Rest(w) \subseteq Range(free) \cup Range(frozen) \cup Reached
  /\ free' \in Seq(BlockNo) /\ frozen' \in Seq(BlockNo) /\ retained' \in Seq(Wait)
  /\ InSavepoint => /\ Range(free') = (Rest(w) \ Reached) \cap Range(save.free)
                    /\ Range(frozen') = (Rest(w) \ Reached) \ Range(save.free)
  /\ ~InSavepoint => Range(free') = Rest(w) \ Reached /\ frozen' = <<>>
  /\ Blocks(retained') = Blocks(retained) \cup (Rest(w) \cap Reached)
  /\ \A i \in DOMAIN retained' :
       \/ \E j \in DOMAIN retained : retained'[i] = retained[j]
       \/ retained'[i].epoch = db.epoch /\ retained'[i].block \in Rest(w) \cap Reached
  /\ Listable => /\ IsInjective(w.list) /\ IsInjective(w.chain)
                 /\ Range(w.chain) \cap Rest(w) = {}
                 /\ IsInjective(free') /\ IsInjective(frozen') /\ IsInjective(BlocksOf(retained'))

(* Everything free, one list behind another: what comes first stays first.  *)
LEMMA FourLists ==
  ASSUME NEW T, NEW a \in Seq(T), NEW b \in Seq(T), NEW c \in Seq(T), NEW d \in Seq(T)
  PROVE  LET all == a \o b \o c \o d
         IN  /\ all \in Seq(T) /\ Len(a) \in 0..Len(all)
             /\ Range(all) = Range(a) \cup Range(b) \cup Range(c) \cup Range(d)
             /\ {all[i] : i \in 1..Len(a)} \subseteq Range(a)
             /\ /\ IsInjective(a) /\ IsInjective(b) /\ IsInjective(c) /\ IsInjective(d)
                /\ Range(a) \cap (Range(b) \cup Range(c) \cup Range(d)) = {}
                /\ Range(b) \cap (Range(c) \cup Range(d)) = {}
                /\ Range(c) \cap Range(d) = {}
                => IsInjective(all)
<1> DEFINE ab == a \o b
           abc == ab \o c
           all == abc \o d
<1>1. /\ ab \in Seq(T) /\ Range(ab) = Range(a) \cup Range(b) /\ Len(ab) = Len(a) + Len(b)
      /\ IsInjective(a) /\ IsInjective(b) /\ Range(a) \cap Range(b) = {} => IsInjective(ab)
      /\ Len(a) \in Nat /\ Len(b) \in Nat /\ Len(c) \in Nat /\ Len(d) \in Nat
      /\ \A i \in 1..Len(a) : ab[i] = a[i]
  BY Behind
<1> HIDE DEF ab
<1>2. /\ abc \in Seq(T) /\ Range(abc) = Range(ab) \cup Range(c) /\ Len(abc) = Len(ab) + Len(c)
      /\ IsInjective(ab) /\ IsInjective(c) /\ Range(ab) \cap Range(c) = {} => IsInjective(abc)
      /\ \A i \in 1..Len(ab) : abc[i] = ab[i]
  <2>1. ab \in Seq(T)
    BY <1>1
  <2>2. QED BY ONLY <2>1, c \in Seq(T), Behind
<1> HIDE DEF abc
<1>3. /\ all \in Seq(T) /\ Range(all) = Range(abc) \cup Range(d) /\ Len(all) = Len(abc) + Len(d)
      /\ IsInjective(abc) /\ IsInjective(d) /\ Range(abc) \cap Range(d) = {} => IsInjective(all)
      /\ \A i \in 1..Len(abc) : all[i] = abc[i]
  <2>1. abc \in Seq(T)
    BY <1>2
  <2>2. QED BY ONLY <2>1, d \in Seq(T), Behind
<1> HIDE DEF all
<1>4. \A i \in 1..Len(a) : all[i] = a[i] /\ a[i] \in Range(a)
  <2> SUFFICES ASSUME NEW i \in 1..Len(a) PROVE all[i] = a[i] /\ a[i] \in Range(a)
    OBVIOUS
  <2>1. i \in 1..Len(ab) /\ i \in 1..Len(abc)
    BY <1>1, <1>2
  <2>2. all[i] = a[i]
    BY <1>1, <1>2, <1>3, <2>1
  <2>3. QED BY <2>2 DEF Range
<1>5. /\ IsInjective(a) /\ IsInjective(b) /\ IsInjective(c) /\ IsInjective(d)
      /\ Range(a) \cap (Range(b) \cup Range(c) \cup Range(d)) = {}
      /\ Range(b) \cap (Range(c) \cup Range(d)) = {}
      /\ Range(c) \cap Range(d) = {}
      => IsInjective(all)
  BY ONLY <1>1, <1>2, <1>3
<1>6. Len(a) \in 0..Len(all)
  BY <1>1, <1>2, <1>3
<1>7. Range(all) = Range(a) \cup Range(b) \cup Range(c) \cup Range(d)
  BY <1>1, <1>2, <1>3
<1>8. all = a \o b \o c \o d
  BY DEF all, abc, ab
<1>9. QED BY <1>3, <1>4, <1>5, <1>6, <1>7, <1>8

(* checkpoint: what writing the free list does, list by list.               *)
LEMMA ListsEffect ==
  ASSUME TypeInv, SavepointInv, CheckpointChain
  PROVE  \E w : /\ Lists(w)
                /\ hdr' = [x \in Holder |->
                      LET h == Overwritten([Kept(hdr) EXCEPT !["db"] = Unchained(@)][x], Range(w.chain))
                      IN  IF x = "db" THEN Listed(h, w) ELSE h]
                /\ dirty' = (IF KeepDue THEN {} ELSE dirty) \cup Range(w.chain)
<1> DEFINE all == free \o frozen \o pending \o db.chain
           reached == Range(pending) \cup Range(db.chain)
           w == WriteChain(all, Len(free), db.count)
           rest == w.list \o w.unused
           held == Among(rest, reached)
           avail == Outside(rest, reached)
<1>1. /\ pc = "chain" /\ w.count <= MaxBlock
      /\ free' = Reusable(avail, InSavepoint) /\ frozen' = Unusable(avail, InSavepoint)
      /\ retained' = retained \o Waiting(held, db.epoch)
      /\ hdr' = [x \in Holder |->
                   LET h == Overwritten([Kept(hdr) EXCEPT !["db"] = Unchained(@)][x], Range(w.chain))
                   IN  IF x = "db" THEN Listed(h, w) ELSE h]
      /\ dirty' = (IF KeepDue THEN {} ELSE dirty) \cup Range(w.chain)
  BY Zenon DEF CheckpointChain
<1>2. /\ db # NoHeader /\ db \in Header \cup {NoHeader}
      /\ free \in Seq(BlockNo) /\ pending \in Seq(BlockNo) /\ frozen \in Seq(BlockNo)
      /\ retained \in Seq(Wait) /\ save.free \in Seq(BlockNo)
  BY <1>1, HolderParts DEF SavepointInv, WriterInv, ControlInv, db, TypeInv, TypeOK, BlockNo, Wait
<1>3. /\ db.chain \in Seq(BlockNo) /\ db.count \in Nat /\ db.epoch \in 1..MaxEpoch
  BY <1>2, HeaderParts
<1>4. /\ all \in Seq(BlockNo) /\ Len(free) \in 0..Len(all)
      /\ Range(all) = Range(free) \cup Range(frozen) \cup Range(pending) \cup Range(db.chain)
      /\ {all[i] : i \in 1..Len(free)} \subseteq Range(free)
      /\ /\ IsInjective(free) /\ IsInjective(frozen) /\ IsInjective(pending) /\ IsInjective(db.chain)
         /\ Range(free) \cap (Range(frozen) \cup Range(pending) \cup Range(db.chain)) = {}
         /\ Range(frozen) \cap (Range(pending) \cup Range(db.chain)) = {}
         /\ Range(pending) \cap Range(db.chain) = {}
         => IsInjective(all)
  BY <1>2, <1>3, FourLists
<1> HIDE DEF all
<1>5. Listable => IsInjective(all) /\ Range(all) \subseteq 1..db.count
  <2> SUFFICES ASSUME Listable PROVE IsInjective(all) /\ Range(all) \subseteq 1..db.count
    OBVIOUS
  <2>1. /\ IsInjective(db.chain) /\ IsInjective(free) /\ IsInjective(pending) /\ IsInjective(frozen)
        /\ Range(db.chain) \cap (Range(free) \cup Range(pending) \cup Range(frozen)) = {}
        /\ Range(free) \cap (Range(pending) \cup Range(frozen)) = {}
        /\ Range(pending) \cap Range(frozen) = {}
        /\ Range(db.chain) \cup Range(free) \cup Range(pending) \cup Range(frozen) \subseteq 1..db.count
    BY DEF Listable, Apart, Reach
  <2>2. IsInjective(all)
    BY ONLY <1>4, <2>1
  <2>3. QED BY ONLY <1>4, <2>1, <2>2
<1>6. Range(all) = Range(free) \cup Range(frozen) \cup reached
  BY <1>4
<1> HIDE DEF reached
<1>8. /\ w.count \in Nat /\ w.count >= db.count
      /\ w.list \in Seq(BlockNo) /\ w.unused \in Seq(BlockNo) /\ w.chain \in Seq(BlockNo)
      /\ Range(w.list) \cup Range(w.unused) \subseteq Range(all)
      /\ Range(w.chain) \subseteq {all[i] : i \in 1..Len(free)} \cup ((db.count + 1)..w.count)
      /\ Listable =>
           /\ IsInjective(w.list) /\ IsInjective(w.chain) /\ IsInjective(w.unused)
           /\ Range(w.list) \cap Range(w.unused) = {}
           /\ Range(w.chain) \cap (Range(w.list) \cup Range(w.unused)) = {}
  <2> HIDE DEF Listable
  <2>1. /\ all \in Seq(BlockNo) /\ db.count \in Nat /\ Len(free) \in 0..Len(all)
        /\ w = WriteChain(all, Len(free), db.count) /\ w.count <= MaxBlock
    BY <1>1, <1>3, <1>4
  <2> HIDE DEF w
  <2>2. QED BY ONLY <1>5, <2>1, ChainWritten
<1> HIDE DEF w, Listable
<1>9. /\ rest \in Seq(BlockNo) /\ Range(rest) = Rest(w) /\ (Listable => IsInjective(rest))
  BY <1>8, Behind DEF Rest
<1> HIDE DEF rest
<1>10. /\ held \in Seq(BlockNo) /\ Range(held) = Rest(w) \cap reached
       /\ avail \in Seq(BlockNo) /\ Range(avail) = Rest(w) \ reached
       /\ Listable => IsInjective(held) /\ IsInjective(avail)
  BY <1>9, Parted
<1> HIDE DEF held, avail
<1>13. /\ free' \in Seq(BlockNo) /\ frozen' \in Seq(BlockNo)
       /\ InSavepoint => /\ Range(free') = (Rest(w) \ reached) \cap Range(save.free)
                         /\ Range(frozen') = (Rest(w) \ reached) \ Range(save.free)
       /\ ~InSavepoint => Range(free') = Rest(w) \ reached /\ frozen' = <<>>
       /\ Listable => IsInjective(free') /\ IsInjective(frozen')
  <2>1. CASE InSavepoint
    <3>1. free' = Among(avail, Range(save.free)) /\ frozen' = Outside(avail, Range(save.free))
      BY <1>1, <2>1 DEF Reusable, Unusable
    <3>2. /\ free' \in Seq(BlockNo) /\ Range(free') = (Rest(w) \ reached) \cap Range(save.free)
          /\ frozen' \in Seq(BlockNo) /\ Range(frozen') = (Rest(w) \ reached) \ Range(save.free)
          /\ Listable => IsInjective(free') /\ IsInjective(frozen')
      BY <1>10, <3>1, Parted
    <3>3. QED BY <2>1, <3>2
  <2>2. CASE ~InSavepoint
    <3>1. free' = avail /\ frozen' = <<>>
      BY <1>1, <2>2 DEF Reusable, Unusable
    <3>2. QED BY <1>10, <2>2, <3>1, NothingListed
  <2>3. QED BY <2>1, <2>2
<1>14. /\ Waiting(held, db.epoch) \in Seq(Wait) /\ BlocksOf(Waiting(held, db.epoch)) = held
       /\ Blocks(Waiting(held, db.epoch)) = Rest(w) \cap reached
       /\ \A i \in DOMAIN Waiting(held, db.epoch) : Waiting(held, db.epoch)[i].epoch = db.epoch
  BY <1>3, <1>10, WaitingListed
<1>15. /\ retained' \in Seq(Wait) /\ Blocks(retained') = Blocks(retained) \cup (Rest(w) \cap reached)
       /\ Range(retained') = Range(retained) \cup Range(Waiting(held, db.epoch))
  BY <1>1, <1>2, <1>14, WaitsBehind
<1>16. ASSUME NEW i \in DOMAIN retained'
       PROVE  \/ \E j \in DOMAIN retained : retained'[i] = retained[j]
              \/ retained'[i].epoch = db.epoch /\ retained'[i].block \in Rest(w) \cap reached
  <2>1. retained'[i] \in Range(retained) \/ retained'[i] \in Range(Waiting(held, db.epoch))
    BY <1>15 DEF Range
  <2>2. CASE retained'[i] \in Range(retained)
    BY <2>2 DEF Range
  <2>3. CASE retained'[i] \in Range(Waiting(held, db.epoch))
    <3>1. PICK j \in DOMAIN Waiting(held, db.epoch) : retained'[i] = Waiting(held, db.epoch)[j]
      BY <2>3 DEF Range
    <3>2. Waiting(held, db.epoch)[j].block \in Blocks(Waiting(held, db.epoch))
      BY <1>14, <3>1, BlocksListed
    <3>3. QED BY <1>14, <3>1, <3>2
  <2>4. QED BY <2>1, <2>2, <2>3
<1>17. Listable => IsInjective(BlocksOf(retained'))
  <2> SUFFICES ASSUME Listable PROVE IsInjective(BlocksOf(retained'))
    OBVIOUS
  <2>1. IsInjective(BlocksOf(retained)) /\ Blocks(retained) \cap reached = {}
    BY DEF Listable, Apart, reached
  <2>2. IsInjective(BlocksOf(Waiting(held, db.epoch))) /\ Blocks(retained) \cap Blocks(Waiting(held, db.epoch)) = {}
    BY <1>10, <1>14, <2>1
  <2>3. QED BY <1>1, <1>2, <1>14, <2>1, <2>2, WaitsBehind
<1>18. Range(w.chain) \subseteq Range(free) \cup ((db.count + 1)..w.count)
  BY <1>4, <1>8
<1>19. Rest(w) \subseteq Range(free) \cup Range(frozen) \cup reached
  BY <1>6, <1>8 DEF Rest
<1>20. reached = Reached
  BY DEF reached, Reached
<1>21. Lists(w)
  BY ONLY <1>1, <1>8, <1>13, <1>15, <1>16, <1>17, <1>18, <1>19, <1>20 DEF Lists, Rest
<1>22. QED BY <1>1, <1>21

(* keep_savepoint: the marker may take the kept header, in range too.       *)
LEMMA KeptTypes ==
  ASSUME TypeInv, SavepointInv
  PROVE  /\ DOMAIN Kept(hdr) = Holder
         /\ \A x \in Holder : /\ Kept(hdr)[x] \in Header \cup {NoHeader}
                              /\ Kept(hdr)[x] = IF x = "marker" /\ KeepDue THEN hdr["kept"] ELSE hdr[x]
         /\ Marked.free = save.free /\ Marked.across = save.across /\ Marked.began = save.began
         /\ Marked.published = save.published
         /\ Marked.marked = IF KeepDue THEN TRUE ELSE save.marked
<1>1. TypeOK /\ SaveRecord
  BY DEF TypeInv, SavepointInv
<1>2. /\ DOMAIN hdr = Holder /\ \A x \in Holder : hdr[x] \in Header \cup {NoHeader}
      /\ "kept" \in Holder /\ "marker" \in Holder
  BY <1>1, HolderParts
<1>3. CASE KeepDue
  <2>1. Kept(hdr) = [hdr EXCEPT !["marker"] = hdr["kept"]] /\ Marked = [save EXCEPT !.marked = TRUE]
    BY <1>3 DEF Kept, Marked
  <2>2. /\ Marked.free = save.free /\ Marked.across = save.across /\ Marked.began = save.began
        /\ Marked.published = save.published /\ Marked.marked = TRUE
    BY <1>1, <2>1 DEF SaveRecord
  <2>3. QED BY <1>2, <1>3, <2>1, <2>2
<1>4. CASE ~KeepDue
  BY <1>2, <1>4 DEF Kept, Marked
<1>5. QED BY <1>3, <1>4

\* What a checkpoint does to the headers when it writes the free list w.
Relists(w) ==
  /\ DOMAIN hdr' = Holder /\ hdr' = [x \in Holder |-> hdr'[x]]
  /\ \A x \in Holder \ {"db"} : hdr'[x] = Overwritten(Kept(hdr)[x], Range(w.chain))
  /\ LET h == hdr'["db"]
     IN  /\ h \in Header /\ h # NoHeader /\ h.epoch = db.epoch /\ h.roots = db.roots
         /\ h.count = w.count /\ h.list = w.list /\ h.chain = w.chain
         /\ h.ok <=> db.ok /\ db.roots \cap Range(w.chain) = {}
  /\ dirty' = (IF KeepDue THEN {} ELSE dirty) \cup Range(w.chain)
  /\ pending' = <<>> /\ pc' = "sync"
  /\ save'.free = save.free /\ save'.across = save.across /\ save'.began = save.began
  /\ save'.marked = (IF KeepDue THEN TRUE ELSE save.marked) /\ save'.published = InSavepoint
  /\ UNCHANGED <<active, mode, published, crashes, fails>>

(* checkpoint: the writer lists what is free, in a chain of its own.        *)
LEMMA ChainEffect ==
  ASSUME TypeInv, SavepointInv, CheckpointChain
  PROVE  \E w : Lists(w) /\ Relists(w)
<1>1. PICK w : /\ Lists(w)
               /\ hdr' = [x \in Holder |->
                     LET h == Overwritten([Kept(hdr) EXCEPT !["db"] = Unchained(@)][x], Range(w.chain))
                     IN  IF x = "db" THEN Listed(h, w) ELSE h]
               /\ dirty' = (IF KeepDue THEN {} ELSE dirty) \cup Range(w.chain)
  BY Zenon, ListsEffect
<1> DEFINE K == [Kept(hdr) EXCEPT !["db"] = Unchained(@)]
           C == Range(w.chain)
           u == Overwritten(Unchained(db), C)
<1>2. /\ TypeOK /\ SaveRecord /\ pc = "chain"
      /\ db # NoHeader /\ hdr["db"] = db /\ db \in Header \cup {NoHeader} /\ "db" \in Holder
  BY HolderParts DEF TypeInv, SavepointInv, WriterInv, ControlInv, CheckpointChain, db
<1>3. /\ DOMAIN Kept(hdr) = Holder /\ Kept(hdr)["db"] = db
      /\ Marked.free = save.free /\ Marked.across = save.across /\ Marked.began = save.began
      /\ Marked.marked = IF KeepDue THEN TRUE ELSE save.marked
  BY <1>2, KeptTypes
<1>4. K["db"] = Unchained(db) /\ \A x \in Holder \ {"db"} : K[x] = Kept(hdr)[x]
  BY <1>2, <1>3
<1> HIDE DEF K, C
<1>5. hdr' = [x \in Holder |-> LET h == Overwritten(K[x], C) IN IF x = "db" THEN Listed(h, w) ELSE h]
  BY <1>1 DEF K, C
<1>6. /\ DOMAIN hdr' = Holder /\ hdr' = [x \in Holder |-> hdr'[x]] /\ hdr'["db"] = Listed(u, w)
      /\ \A x \in Holder \ {"db"} : hdr'[x] = Overwritten(Kept(hdr)[x], C)
  BY <1>2, <1>4, <1>5
<1>7. /\ Unchained(db) \in Header /\ Unchained(db).epoch = db.epoch /\ Unchained(db).roots = db.roots
      /\ Unchained(db).ok = db.ok /\ Unchained(db).chain = <<>>
  <2>1. db \in Header /\ <<>> \in Seq(1..MaxBlock)
    BY <1>2
  <2>2. Unchained(db) = [db EXCEPT !.chain = <<>>]
    BY DEF Unchained
  <2> HIDE DEF db
  <2>3. /\ Unchained(db).epoch = db.epoch /\ Unchained(db).roots = db.roots
        /\ Unchained(db).ok = db.ok /\ Unchained(db).chain = <<>>
    BY <2>1, <2>2 DEF Header
  <2>4. Unchained(db) \in Header
    BY <2>1, <2>2 DEF Header
  <2>5. QED BY <2>3, <2>4
<1>8. Reach(Unchained(db)) = db.roots
  BY <1>7, NothingListed DEF Reach
<1>9. /\ u \in Header /\ u # NoHeader /\ u.epoch = db.epoch /\ u.roots = db.roots
      /\ u.ok <=> db.ok /\ db.roots \cap C = {}
  <2>1. Unchained(db) # NoHeader
    BY <1>7, HeaderFields
  <2>2. /\ Twin(u, Unchained(db)) /\ u \in Header \cup {NoHeader}
        /\ u.ok <=> Unchained(db).ok /\ Reach(Unchained(db)) \cap C = {}
    BY <1>7, <2>1, OverwrittenTwin
  <2>3. QED BY <1>7, <1>8, <2>1, <2>2 DEF Twin
<1> HIDE DEF u
<1> DEFINE h == Listed(u, w)
<1>10. /\ h \in Header /\ h.epoch = db.epoch /\ h.roots = db.roots /\ h.ok = u.ok
       /\ h.count = w.count /\ h.list = w.list /\ h.chain = w.chain
  <2>1. w.list \in Seq(1..MaxBlock) /\ w.chain \in Seq(1..MaxBlock) /\ w.count \in 0..MaxBlock
    BY <1>1, BlockFileAssumption DEF Lists, BlockNo
  <2>2. QED BY <1>9, <2>1 DEF Header, Listed
<1>11. h # NoHeader
  BY <1>10, HeaderFields
<1> HIDE DEF h
<1>12. /\ save' = [Marked EXCEPT !.published = InSavepoint] /\ pending' = <<>> /\ pc' = "sync"
       /\ UNCHANGED <<active, mode, published, crashes, fails>>
  BY DEF CheckpointChain
<1>13. /\ save'.free = save.free /\ save'.across = save.across /\ save'.began = save.began
       /\ save'.marked = (IF KeepDue THEN TRUE ELSE save.marked) /\ save'.published = InSavepoint
  <2>1. DOMAIN Marked = DOMAIN save
    BY KeptHeaders
  <2>2. QED BY <1>2, <1>3, <1>12, <2>1 DEF SaveRecord
<1>14. hdr'["db"] = h
  BY <1>6 DEF h
<1>15. Relists(w)
  BY <1>1, <1>6, <1>9, <1>10, <1>11, <1>12, <1>13, <1>14 DEF Relists, C
<1>16. QED BY <1>1, <1>15

---------------------------------------------------------------------------
(* Every step keeps the state in range. *)

Headers == [Holder -> Header \cup {NoHeader}]

(* What the types say, variable by variable.                                *)
LEMMA TypeParts ==
  ASSUME TypeInv
  PROVE  /\ hdr \in Headers /\ DOMAIN hdr = Holder /\ hdr["db"] = db
         /\ \A x \in Holder : hdr[x] \in Header \cup {NoHeader}
         /\ active \in Slot /\ Inactive \in Slot /\ Inactive # active
         /\ free \in Seq(BlockNo) /\ pending \in Seq(BlockNo) /\ frozen \in Seq(BlockNo)
         /\ retained \in Seq(Wait) /\ dirty \subseteq BlockNo
         /\ published \in 0..MaxEpoch /\ crashes \in 0..MaxCrash /\ fails \in 0..MaxFail
         /\ save.free \in Seq(BlockNo)
<1>1. TypeOK /\ save.free \in Seq(BlockNo)
  BY DEF TypeInv
<1>2. /\ hdr \in Headers /\ active \in Slot /\ dirty \subseteq BlockNo
      /\ free \in Seq(BlockNo) /\ pending \in Seq(BlockNo) /\ frozen \in Seq(BlockNo)
      /\ retained \in Seq(Wait)
      /\ published \in 0..MaxEpoch /\ crashes \in 0..MaxCrash /\ fails \in 0..MaxFail
  BY <1>1 DEF TypeOK, BlockNo, Wait, Headers
<1>3. Inactive \in Slot /\ Inactive # active
  BY <1>2 DEF Inactive, Slot
<1>4. QED BY <1>1, <1>2, <1>3, HolderParts DEF db

(* The writer is on a header while the file is open.                        *)
LEMMA WriterThere ==
  ASSUME TypeInv, SavepointInv, mode # "down"
  PROVE  /\ db \in Header /\ db # NoHeader /\ hdr["db"] = db /\ db.epoch \in 1..MaxEpoch
         /\ db.roots \subseteq BlockNo /\ IsFiniteSet(db.roots) /\ db.count \in Nat /\ db.count <= MaxBlock
         /\ db.list \in Seq(BlockNo) /\ db.chain \in Seq(BlockNo) /\ db.ok \in BOOLEAN
         /\ hdr["shared"] \in Header /\ hdr["shared"] # NoHeader
<1>1. db # NoHeader /\ hdr["shared"] # NoHeader
  BY DEF SavepointInv, WriterInv, TypeInv, Up
<1>2. db \in Header \cup {NoHeader} /\ hdr["db"] = db /\ hdr["shared"] \in Header \cup {NoHeader}
  BY HolderParts DEF TypeInv, db
<1>3. QED BY <1>1, <1>2, HeaderParts, BlockFileAssumption

(* The types of the next state from those of its parts.                     *)
LEMMA TypesAgain ==
  ASSUME SavepointInv', hdr' \in Headers, free' \in Seq(BlockNo), pending' \in Seq(BlockNo),
         frozen' \in Seq(BlockNo), retained' \in Seq(Wait), dirty' \subseteq BlockNo,
         published' \in 0..MaxEpoch, crashes' \in 0..MaxCrash, fails' \in 0..MaxFail
  PROVE  TypeOK'
BY DEF SavepointInv, ControlInv, TypeOK, Headers, BlockNo, Wait

(* observe, Lease::drop, publish_staged: a header in range is handed on.    *)
LEMMA ReadersTypes ==
  ASSUME TypeInv, SavepointInv, SavepointInv',
         (\E r \in Reader : Observe(r) \/ Idle(r)) \/ PublishStaged
  PROVE  TypeInv'
<1>1. /\ UNCHANGED <<active, free, pending, frozen, retained, save, mode, pc, dirty,
                     published, crashes, fails>>
      /\ mode # "down" \/ \A x \in Holder : x \notin OnDisk => hdr[x] = NoHeader
  BY DEF Observe, Idle, PublishStaged, TypeInv, Up
<1>2. /\ hdr' \in Headers /\ \A x \in OnDisk \cup {"db"} : hdr'[x] = hdr[x]
      /\ mode # "down" /\ hdr'["shared"] # NoHeader
  <2>0. TypeOK
    BY DEF TypeInv
  <2>1. CASE \E r \in Reader : Observe(r)
    BY <2>0, <2>1, TypeParts, HolderParts DEF Observe, Headers, TypeInv, Up
  <2>2. CASE \E r \in Reader : Idle(r)
    <3>1. PICK r \in Reader : Idle(r)
      BY <2>2
    <3>2. mode # "down"
      BY <2>0, <3>1, HolderParts DEF Idle, TypeInv, Up
    <3>3. hdr' = [hdr EXCEPT ![r] = NoHeader]
      BY <3>1 DEF Idle
    <3>4. QED BY <2>0, <3>2, <3>3, TypeParts, HolderParts DEF Headers, TypeInv, Up
  <2>3. CASE PublishStaged
    <3>1. mode # "down"
      BY <2>0, <2>3, HolderParts DEF PublishStaged, TypeInv, Up
    <3>2. QED BY <2>0, <2>3, <3>1, TypeParts, HolderParts DEF PublishStaged, Headers, TypeInv, Up
  <2>4. QED BY <2>1, <2>2, <2>3
<1>3. TypeOK'
  BY <1>1, <1>2, TypeParts, TypesAgain
<1>4. db' = db
  BY <1>2 DEF db
<1>5. QED BY <1>1, <1>2, <1>3, <1>4 DEF TypeInv, Up, InSavepoint, Writing

(* hold, the folds and the ends of a statement while the file is open: the  *)
(* types of the headers, the lists and the savepoint are all there is to    *)
(* it.                                                                      *)
LEMMA OpenTypes ==
  ASSUME TypeInv, SavepointInv', mode # "down", mode' # "down",
         hdr' \in Headers, hdr'["shared"] # NoHeader,
         free' \in Seq(BlockNo), pending' \in Seq(BlockNo),
         frozen' \in Seq(BlockNo), retained' \in Seq(Wait), dirty' \subseteq BlockNo,
         published' \in 0..MaxEpoch, crashes' = crashes, fails' \in 0..MaxFail,
         save'.free \in Seq(BlockNo), save'.marked \in BOOLEAN,
         InSavepoint' => save'.began \in 1..MaxEpoch,
         Writing' => db'.epoch < MaxEpoch, mode' = "recover" => mode = "recover"
  PROVE  TypeInv'
<1>1. TypeOK'
  BY TypeParts, TypesAgain
<1>2. QED BY <1>1 DEF TypeInv, Up

(* hold keeps the state in range: the lists come from reclaim.              *)
LEMMA HoldTypes ==
  ASSUME TypeInv, SavepointInv, SavepointInv', NEW across \in BOOLEAN, NEW settled \in BOOLEAN,
         Hold(across, settled)
  PROVE  TypeInv'
<1> DEFINE h == IF settled THEN [hdr EXCEPT !["shared"] = db] ELSE hdr
<1>1. /\ mode = "idle" /\ pc = "none" /\ hdr' = [h EXCEPT !["kept"] = db]
      /\ Reclaim(h, retained, free, frozen, FALSE)
      /\ save' = [free |-> free', across |-> across, published |-> FALSE,
                  marked |-> FALSE, began |-> db.epoch]
      /\ mode' = (IF across THEN "txn" ELSE "stmt")
      /\ UNCHANGED <<active, pending, pc, dirty, published, crashes, fails>>
  BY DEF Hold
<1>2. h \in Headers /\ h["shared"] # NoHeader /\ hdr' \in Headers /\ hdr'["shared"] # NoHeader
  BY <1>1, TypeParts, HolderParts, WriterThere DEF Headers, TypeInv
<1> HIDE DEF h
<1>3. retained' \in Seq(Wait) /\ free' \in Seq(BlockNo) /\ frozen' \in Seq(BlockNo)
  <2>1. FALSE \in BOOLEAN
    OBVIOUS
  <2>2. QED BY <1>1, <1>2, <2>1, TypeParts, ReclaimEffect DEF Headers, Reclaimed
<1>4. /\ save'.free \in Seq(BlockNo) /\ save'.marked \in BOOLEAN /\ save'.began \in 1..MaxEpoch
      /\ ~Writing' /\ mode # "down" /\ mode' \in {"stmt", "txn"}
  BY <1>1, <1>3, WriterThere DEF Writing
<1>5. QED BY <1>1, <1>2, <1>3, <1>4, TypeParts, OpenTypes

(* A fold keeps the state in range, one that fails partway too.             *)
LEMMA FoldTypes ==
  ASSUME TypeInv, SavepointInv, SavepointInv', NEW F \in Freed, mode # "down",
         StagedFold(F) \/ CheckpointFold(F) \/ FoldFails(F)
  PROVE  TypeInv'
<1>1. PICK ptr \in BlockNo : Took(ptr, F)
  BY FoldEffect
<1>2. /\ ~Writing' /\ fails' \in 0..MaxFail
  <2>1. fails \in 0..MaxFail /\ MaxFail \in Nat
    BY TypeParts, BlockFileAssumption
  <2>2. CASE StagedFold(F)
    BY <2>1, <2>2 DEF StagedFold, Writing, FoldInto
  <2>3. CASE CheckpointFold(F)
    BY <2>1, <2>3 DEF CheckpointFold, Writing, FoldInto
  <2>4. CASE FoldFails(F)
    BY <2>1, <2>4 DEF FoldFails, Writing
  <2>5. QED BY <2>2, <2>3, <2>4
<1>3. hdr' \in Headers /\ hdr'["shared"] # NoHeader
  <2>1. \A x \in Holder \ {"db"} : /\ hdr'[x] \in Header \cup {NoHeader}
                                   /\ hdr[x] # NoHeader => hdr'[x] # NoHeader
    <3> SUFFICES ASSUME NEW x \in Holder \ {"db"}
                 PROVE  /\ hdr'[x] \in Header \cup {NoHeader}
                        /\ hdr[x] # NoHeader => hdr'[x] # NoHeader
      OBVIOUS
    <3>1. hdr[x] \in Header \cup {NoHeader} /\ hdr'[x] = Overwritten(hdr[x], {ptr})
      BY <1>1, TypeParts DEF Took
    <3>2. QED BY <3>1, OverwrittenTwin, TwinParts
  <2>2. hdr'["db"] \in Header /\ DOMAIN hdr' = Holder
    BY <1>1 DEF Took
  <2>3. "shared" \in Holder \ {"db"} /\ hdr["shared"] # NoHeader
    BY WriterThere, HolderParts DEF TypeInv
  <2>4. hdr' = [x \in Holder |-> hdr'[x]]
    BY <1>1 DEF Took
  <2>5. QED BY <2>1, <2>2, <2>3, <2>4 DEF Headers
<1>4. /\ save'.free = save.free /\ save'.marked = save.marked /\ save'.began = save.began
  BY <1>1 DEF Took, SavepointInv, SaveRecord
<1>5. mode' # "down" /\ (mode' = "recover" => mode = "recover") /\ (InSavepoint' => InSavepoint)
  BY <1>1 DEF Took, InSavepoint
<1>6. QED BY <1>1, <1>2, <1>3, <1>4, <1>5, TypeParts, OpenTypes DEF Took, TypeInv

(* A step that leaves the lists and the headers' places alone.              *)
LEMMA StillTypes ==
  ASSUME TypeInv, SavepointInv', mode # "down", mode' # "down",
         hdr' \in Headers, hdr'["shared"] # NoHeader,
         UNCHANGED <<free, pending, frozen, retained, crashes, fails>>,
         dirty' \subseteq BlockNo, published' \in 0..MaxEpoch,
         save'.free = save.free, save'.marked \in BOOLEAN, save'.began = save.began,
         InSavepoint' => InSavepoint,
         Writing' => db'.epoch < MaxEpoch, mode' = "recover" => mode = "recover"
  PROVE  TypeInv'
<1>1. /\ free \in Seq(BlockNo) /\ pending \in Seq(BlockNo) /\ frozen \in Seq(BlockNo)
      /\ retained \in Seq(Wait) /\ save.free \in Seq(BlockNo) /\ fails \in 0..MaxFail
  BY TypeParts
<1>2. InSavepoint => save.began \in 1..MaxEpoch
  BY DEF TypeInv
<1>3. QED BY <1>1, <1>2, OpenTypes

(* keep_savepoint and stage_deferred keep the state in range.               *)
LEMMA KeepTypes ==
  ASSUME TypeInv, SavepointInv, SavepointInv', KeepSavepoint \/ StageDeferred
  PROVE  TypeInv'
<1>1. /\ mode \in {"stmt", "txn"} /\ mode' = mode /\ ~Writing'
      /\ UNCHANGED <<free, pending, frozen, retained, crashes, fails, published>>
      /\ dirty' = {} \/ dirty' = dirty
  BY DEF KeepSavepoint, StageDeferred, InSavepoint, Writing, SavepointInv, ControlInv
<1>2. /\ save'.free = save.free /\ save'.marked \in BOOLEAN /\ save'.began = save.began
  <2>1. CASE KeepSavepoint
    <3>1. save' = Marked /\ save.marked \in BOOLEAN
      BY <2>1 DEF KeepSavepoint, TypeInv
    <3>2. QED BY <3>1, KeptTypes
  <2>2. CASE StageDeferred
    BY <2>2 DEF StageDeferred, SavepointInv, SaveRecord, TypeInv
  <2>3. QED BY <2>1, <2>2
<1>3. hdr' \in Headers /\ hdr'["shared"] # NoHeader
  <2>1. CASE KeepSavepoint
    <3>1. hdr' = Kept(hdr) /\ "shared" \in Holder /\ hdr["shared"] # NoHeader /\ "kept" \in Holder
      BY <1>1, <2>1, HolderParts, WriterThere DEF KeepSavepoint, TypeInv
    <3>2. \A x \in Holder : hdr'[x] \in Header \cup {NoHeader}
      BY <3>1, KeptTypes
    <3>3. hdr'["shared"] = hdr["shared"]
      BY <3>1, KeptTypes
    <3>4. hdr' = [x \in Holder |-> hdr'[x]]
      BY <3>1, TypeParts DEF Kept, Headers
    <3>5. QED BY <3>1, <3>2, <3>3, <3>4 DEF Headers
  <2>2. CASE StageDeferred
    BY <1>1, <2>2, TypeParts, WriterThere DEF StageDeferred
  <2>3. QED BY <2>1, <2>2
<1>4. dirty' \subseteq BlockNo /\ published \in 0..MaxEpoch
  BY <1>1, TypeParts
<1>5. mode # "down" /\ mode' # "down" /\ mode' # "recover" /\ (InSavepoint' => InSavepoint)
  BY <1>1 DEF InSavepoint
<1>6. QED BY <1>1, <1>2, <1>3, <1>4, <1>5, StillTypes

(* The chain a checkpoint writes is in range, and an epoch is left to flip  *)
(* to.                                                                      *)
LEMMA ChainTypes ==
  ASSUME TypeInv, SavepointInv, SavepointInv', CheckpointChain
  PROVE  TypeInv'
<1>1. PICK w : Lists(w) /\ Relists(w)
  BY Zenon, ChainEffect
<1>2. mode # "down" /\ mode' = mode /\ db.epoch < MaxEpoch /\ dirty \subseteq BlockNo
  BY TypeParts DEF CheckpointChain, SavepointInv, ControlInv
<1>3. hdr' \in Headers /\ hdr'["shared"] # NoHeader
  <2>1. ASSUME NEW x \in Holder \ {"db"}
        PROVE  /\ hdr'[x] \in Header \cup {NoHeader}
               /\ Kept(hdr)[x] # NoHeader => hdr'[x] # NoHeader
    <3>1. Kept(hdr)[x] \in Header \cup {NoHeader} /\ hdr'[x] = Overwritten(Kept(hdr)[x], Range(w.chain))
      BY <1>1, KeptTypes DEF Relists
    <3>2. QED BY <3>1, OverwrittenTwin, TwinParts
  <2>2. "shared" \in Holder \ {"db"} /\ Kept(hdr)["shared"] = hdr["shared"] /\ hdr["shared"] # NoHeader
    BY <1>2, KeptTypes, WriterThere, HolderParts DEF TypeInv
  <2>3. hdr'["db"] \in Header /\ hdr' = [x \in Holder |-> hdr'[x]]
    BY <1>1 DEF Relists
  <2>4. QED BY <2>1, <2>2, <2>3 DEF Headers
<1>4. dirty' \subseteq BlockNo /\ pending' \in Seq(BlockNo)
  <2>1. Range(w.chain) \subseteq BlockNo
    BY <1>1, RangeOfSeq DEF Lists
  <2>2. QED BY <1>1, <1>2, <2>1 DEF Relists
<1>5. /\ save'.free \in Seq(BlockNo) /\ save'.marked \in BOOLEAN
      /\ InSavepoint' => save'.began \in 1..MaxEpoch
  BY <1>1, <1>2 DEF Relists, TypeInv, InSavepoint
<1>6. db'.epoch < MaxEpoch
  BY <1>1, <1>2 DEF Relists, db
<1>7. /\ free' \in Seq(BlockNo) /\ frozen' \in Seq(BlockNo) /\ retained' \in Seq(Wait)
      /\ published' = published /\ crashes' = crashes /\ fails' = fails
  BY <1>1 DEF Lists, Relists
<1>8. QED BY <1>2, <1>3, <1>4, <1>5, <1>6, <1>7, TypeParts, OpenTypes

(* The flip publishes the next epoch, in range.                             *)
LEMMA FlipTypes ==
  ASSUME TypeInv, SavepointInv, SavepointInv', CheckpointSync \/ CheckpointFlip
  PROVE  TypeInv'
<1>1. /\ mode # "down" /\ mode' = mode /\ db.epoch < MaxEpoch
      /\ UNCHANGED <<free, pending, frozen, retained, crashes, fails, published, save>>
      /\ dirty' = {} \/ dirty' = dirty
  BY DEF CheckpointSync, CheckpointFlip, SavepointInv, ControlInv, TypeInv, Writing
<1>2. hdr' \in Headers /\ hdr'["shared"] # NoHeader /\ (Writing' => db'.epoch < MaxEpoch)
  <2>1. CASE CheckpointSync
    BY <1>1, <2>1, TypeParts, WriterThere DEF CheckpointSync, db
  <2>2. CASE CheckpointFlip
    <3>1. /\ hdr' = [hdr EXCEPT ![Inactive] = Flipped, !["db"] = Flipped] /\ ~Writing'
      BY <2>2 DEF CheckpointFlip, Writing
    <3>2. Flipped \in Header
      <4>1. db \in Header /\ db.epoch + 1 \in 1..MaxEpoch
        BY <1>1, WriterThere, BlockFileAssumption
      <4>2. QED BY <4>1 DEF Flipped, Header
    <3>3. Inactive # "shared" /\ "shared" \in Holder /\ hdr["shared"] # NoHeader
      BY <1>1, TypeParts, HolderParts, WriterThere DEF TypeInv
    <3>4. QED BY <3>1, <3>2, <3>3, TypeParts DEF Headers
  <2>3. QED BY <2>1, <2>2
<1>3. dirty' \subseteq BlockNo /\ save.marked \in BOOLEAN /\ published \in 0..MaxEpoch
  BY <1>1, TypeParts DEF TypeInv
<1>4. QED BY <1>1, <1>2, <1>3, StillTypes DEF InSavepoint

(* release_savepoint: what was frozen waits with the rest.                  *)
LEMMA ReleasedTypes ==
  ASSUME TypeInv, InSavepoint
  PROVE  /\ Released(retained) \in Seq(Wait)
         /\ Waiting(frozen, save.began) \in Seq(Wait) /\ BlocksOf(Waiting(frozen, save.began)) = frozen
         /\ Blocks(Waiting(frozen, save.began)) = Range(frozen)
         /\ \A i \in DOMAIN Waiting(frozen, save.began) : Waiting(frozen, save.began)[i].epoch = save.began
         /\ Blocks(Released(retained)) = Blocks(retained) \cup Range(frozen)
<1>1. save.began \in 1..MaxEpoch /\ frozen \in Seq(BlockNo) /\ retained \in Seq(Wait)
  BY TypeParts DEF TypeInv
<1>2. /\ Waiting(frozen, save.began) \in Seq(Wait) /\ BlocksOf(Waiting(frozen, save.began)) = frozen
      /\ Blocks(Waiting(frozen, save.began)) = Range(frozen)
      /\ \A i \in DOMAIN Waiting(frozen, save.began) : Waiting(frozen, save.began)[i].epoch = save.began
  BY <1>1, WaitingListed
<1>3. QED BY <1>1, <1>2, WaitsBehind DEF Released

(* The headers once a savepoint has ended.                                  *)
LEMMA UnmarkedTypes ==
  ASSUME TypeInv, mode # "down", SavepointInv
  PROVE  /\ Unmarked(hdr) \in Headers
         /\ \A x \in Holder \ {"kept", "marker"} : Unmarked(hdr)[x] = hdr[x]
         /\ Unmarked(hdr)["kept"] = NoHeader
         /\ Unmarked(hdr)["marker"] = IF save.marked THEN NoHeader ELSE hdr["marker"]
BY TypeParts, HolderParts DEF Unmarked, Headers, TypeInv

(* settle and COMMIT keep the state in range.                               *)
LEMMA SettleTypes ==
  ASSUME TypeInv, SavepointInv, SavepointInv', SettleKeeps \/ SettleInside \/ Commit
  PROVE  TypeInv'
<1>1. /\ InSavepoint /\ mode # "down" /\ mode' # "down" /\ mode' # "recover" /\ ~Writing'
      /\ UNCHANGED <<pending, dirty, published, crashes, fails>>
      /\ (save' = NoSave /\ ~InSavepoint') \/ save' = save
  BY DEF SettleKeeps, SettleInside, Commit, InSavepoint, Writing
<1>2. /\ hdr["shared"] # NoHeader /\ {"shared", "staged", "db"} \subseteq Holder \ {"kept", "marker"}
      /\ hdr["db"] \in Header \cup {NoHeader} /\ hdr["db"] = db
  BY <1>1, WriterThere, HolderParts DEF TypeInv
<1>3. /\ hdr' \in Headers /\ hdr'["shared"] # NoHeader
      /\ free' \in Seq(BlockNo) /\ frozen' \in Seq(BlockNo) /\ retained' \in Seq(Wait)
  <2>1. CASE SettleKeeps
    <3> DEFINE h == [Unmarked(hdr) EXCEPT !["staged"] = db]
    <3>1. hdr' = h /\ Reclaim(h, Released(retained), free, <<>>, FALSE)
      BY <2>1 DEF SettleKeeps
    <3>2. h \in Headers /\ h["shared"] # NoHeader
      BY <1>1, <1>2, UnmarkedTypes DEF Headers
    <3> HIDE DEF h
    <3>3. Released(retained) \in Seq(Wait) /\ <<>> \in Seq(BlockNo) /\ FALSE \in BOOLEAN
      BY <1>1, ReleasedTypes
    <3>4. QED BY <3>1, <3>2, <3>3, TypeParts, ReclaimEffect DEF Headers, Reclaimed
  <2>2. CASE SettleInside
    <3> DEFINE h == [hdr EXCEPT !["staged"] = db]
    <3>1. hdr' = h /\ Reclaim(h, retained, free, frozen, TRUE)
      BY <2>2 DEF SettleInside
    <3>2. h \in Headers /\ h["shared"] # NoHeader /\ TRUE \in BOOLEAN
      BY <1>1, <1>2, TypeParts DEF Headers
    <3> HIDE DEF h
    <3>3. QED BY <3>1, <3>2, TypeParts, ReclaimEffect DEF Headers, Reclaimed
  <2>3. CASE Commit
    <3>1. hdr' = Unmarked(hdr) /\ retained' = Released(retained) /\ frozen' = <<>> /\ free' = free
      BY <2>3 DEF Commit
    <3>2. QED BY <1>1, <1>2, <3>1, UnmarkedTypes, ReleasedTypes, TypeParts
  <2>4. QED BY <2>1, <2>2, <2>3
<1>4. /\ save'.free \in Seq(BlockNo) /\ save'.marked \in BOOLEAN
      /\ InSavepoint' => save'.began \in 1..MaxEpoch
  <2>1. NoSave.free \in Seq(BlockNo) /\ NoSave.marked \in BOOLEAN
    BY DEF NoSave
  <2>2. save.free \in Seq(BlockNo) /\ save.marked \in BOOLEAN /\ save.began \in 1..MaxEpoch
    BY <1>1 DEF TypeInv
  <2>3. QED BY <1>1, <2>1, <2>2
<1>5. QED BY <1>1, <1>3, <1>4, TypeParts, OpenTypes

(* rollback_savepoint: the kept header in range, and the lists that go with *)
(* it.                                                                      *)
LEMMA RollbackTypes ==
  ASSUME TypeInv, SavepointInv, SavepointInv', RollbackSavepoint
  PROVE  TypeInv'
<1> DEFINE h == [hdr["kept"] EXCEPT !.epoch = db.epoch]
           I == {i \in DOMAIN retained : retained[i].epoch < hdr["kept"].epoch}
<1>1. /\ Within /\ mode # "down" /\ mode' = "undo" /\ ~Writing' /\ ~InSavepoint'
      /\ hdr' = [hdr EXCEPT !["db"] = h] /\ free' = save.free /\ pending' = <<>> /\ frozen' = <<>>
      /\ retained' = At(retained, I)
      /\ UNCHANGED <<active, save, dirty, published, crashes, fails>>
  BY DEF RollbackSavepoint, Within, Writing, LetGoBefore, InSavepoint
<1>2. hdr["kept"] # NoHeader /\ hdr["kept"] \in Header \cup {NoHeader} /\ db.epoch \in 1..MaxEpoch
  BY <1>1, HolderParts, WriterThere DEF SavepointInv, SaveInv, Saved, Within, TypeInv
<1>3. h \in Header
  BY <1>2 DEF Header
<1> HIDE DEF h
<1>4. hdr' \in Headers /\ hdr'["shared"] # NoHeader
  BY <1>1, <1>3, TypeParts, HolderParts, WriterThere DEF Headers, TypeInv
<1>5. I \subseteq DOMAIN retained
  OBVIOUS
<1>6. retained' \in Seq(Wait) /\ <<>> \in Seq(BlockNo)
  BY <1>1, <1>5, TypeParts, WaitsAt
<1>7. save.marked \in BOOLEAN
  BY DEF TypeInv
<1>8. QED BY <1>1, <1>4, <1>6, <1>7, TypeParts, OpenTypes

(* undo, once the marker is gone.                                           *)
LEMMA UndoneTypes ==
  ASSUME TypeInv, SavepointInv, SavepointInv', UndoDone
  PROVE  TypeInv'
<1> DEFINE h == [Unmarked(hdr) EXCEPT !["shared"] = db, !["staged"] = NoHeader]
<1>1. /\ mode = "undo" /\ mode' = "idle" /\ ~Writing' /\ ~InSavepoint' /\ save' = NoSave
      /\ hdr' = h /\ Reclaim(h, retained, free, frozen, FALSE)
      /\ UNCHANGED <<active, pending, dirty, published, crashes, fails>>
  BY DEF UndoDone, Writing, InSavepoint
<1>2. h \in Headers /\ h["shared"] # NoHeader
  BY <1>1, UnmarkedTypes, WriterThere, HolderParts DEF Headers, TypeInv
<1> HIDE DEF h
<1>3. FALSE \in BOOLEAN
  OBVIOUS
<1>4. free' \in Seq(BlockNo) /\ frozen' \in Seq(BlockNo) /\ retained' \in Seq(Wait)
  BY <1>1, <1>2, <1>3, TypeParts, ReclaimEffect DEF Headers, Reclaimed
<1>5. save'.free \in Seq(BlockNo) /\ save'.marked \in BOOLEAN
  BY <1>1 DEF NoSave
<1>6. QED BY <1>1, <1>2, <1>4, <1>5, TypeParts, OpenTypes

(* A crash takes what is in memory; the slots and the marker stay in range. *)
LEMMA CrashTypes ==
  ASSUME TypeInv, SavepointInv, SavepointInv', NEW slot \in FlipOutcomes, Crash(slot)
  PROVE  TypeInv'
<1> DEFINE left(x) == IF x = Inactive THEN slot ELSE hdr[x]
<1>1. /\ mode # "down" /\ mode' = "down" /\ pc' = "none" /\ dirty' = {} /\ save' = NoSave
      /\ free' = <<>> /\ pending' = <<>> /\ frozen' = <<>> /\ retained' = <<>>
      /\ published' = 0 /\ crashes' = crashes + 1 /\ crashes < MaxCrash /\ fails' = fails
      /\ hdr' = [x \in Holder |-> IF x \notin OnDisk THEN NoHeader ELSE Overwritten(left(x), dirty)]
  BY DEF Crash
<1>2. slot \in Header \cup {NoHeader}
  <2>1. hdr[Inactive] \in Header \cup {NoHeader}
    BY TypeParts, HolderParts DEF TypeInv
  <2>2. CASE pc = "flip"
    <3>1. db \in Header /\ db.epoch + 1 \in 1..MaxEpoch
      BY <1>1, <2>2, WriterThere, BlockFileAssumption DEF TypeInv, Writing
    <3>2. Flipped \in Header
      BY <3>1 DEF Flipped, Header
    <3>3. QED BY <2>1, <2>2, <3>2 DEF FlipOutcomes
  <2>3. CASE pc # "flip"
    BY <2>1, <2>3 DEF FlipOutcomes
  <2>4. QED BY <2>2, <2>3
<1>3. ASSUME NEW x \in Holder PROVE left(x) \in Header \cup {NoHeader}
  BY <1>2, TypeParts
<1> HIDE DEF left
<1>4. hdr' \in Headers /\ \A x \in Holder \ OnDisk : hdr'[x] = NoHeader
  <2>1. \A x \in Holder : Overwritten(left(x), dirty) \in Header \cup {NoHeader}
    BY <1>3, OverwrittenTwin
  <2>2. QED BY <1>1, <2>1 DEF Headers
<1>5. /\ <<>> \in Seq(BlockNo) /\ <<>> \in Seq(Wait) /\ crashes' \in 0..MaxCrash /\ crashes' > 0
      /\ fails' \in 0..MaxFail /\ 0 \in 0..MaxEpoch /\ {} \subseteq BlockNo
  BY <1>1, TypeParts, BlockFileAssumption
<1>6. TypeOK'
  BY <1>1, <1>4, <1>5, TypesAgain
<1>7. QED BY <1>1, <1>4, <1>5, <1>6 DEF TypeInv, Up, InSavepoint, Writing, NoSave

\* What an open goes by: the newest slot.
Cur == hdr[Newest(hdr)]

(* open_kind: the header adopted is there.                                  *)
LEMMA AdoptedThere ==
  ASSUME TypeInv, SavepointInv
  PROVE  /\ Cur \in Header /\ Cur # NoHeader /\ Newest(hdr) \in Slot
         /\ Adopted(hdr) \in Header /\ Adopted(hdr) # NoHeader
         /\ \/ Adopted(hdr) = hdr["marker"] /\ hdr["marker"] # NoHeader
            \/ Adopted(hdr) = Cur
<1>1. /\ hdr[Newest(hdr)] # NoHeader /\ hdr[Newest(hdr)] \in Header \cup {NoHeader}
      /\ hdr["marker"] \in Header \cup {NoHeader} /\ Newest(hdr) \in Slot
  BY HolderParts DEF SavepointInv, SlotsInv, TypeInv
<1>2. QED BY <1>1 DEF Cur, Adopted, MarkerWins

(* An open takes its lists from the header it adopts, in range.             *)
LEMMA OpenedTypes ==
  ASSUME TypeInv, SavepointInv, SavepointInv', Open
  PROVE  TypeInv'
<1> DEFINE h == Adopted(hdr)
<1>1. /\ mode = "down" /\ mode' \in {"recover", "idle"} /\ hdr' = [hdr EXCEPT !["db"] = h, !["shared"] = h]
      /\ free' = h.list /\ UNCHANGED <<pending, frozen, retained, save, pc, dirty, crashes, fails>>
      /\ published' = (IF hdr["marker"] # NoHeader THEN Cur.epoch ELSE 0)
  BY DEF Open, Cur
<1>2. h \in Header /\ h # NoHeader /\ h.list \in Seq(BlockNo) /\ Cur.epoch \in 0..MaxEpoch
  BY AdoptedThere, HeaderParts
<1> HIDE DEF h
<1>3. hdr' \in Headers /\ hdr'["shared"] # NoHeader
  BY <1>1, <1>2, TypeParts, HolderParts DEF Headers, TypeInv
<1>4. published' \in 0..MaxEpoch
  BY <1>1, <1>2, BlockFileAssumption
<1>5. TypeOK'
  BY <1>1, <1>2, <1>3, <1>4, TypeParts, TypesAgain
<1>6. pc = "none" /\ pc' = "none" /\ crashes > 0
  BY <1>1 DEF SavepointInv, ControlInv, TypeInv
<1>7. QED BY <1>1, <1>2, <1>3, <1>5, <1>6 DEF TypeInv, Up, InSavepoint, Writing

(* finish_rollback takes the epoch the crash left, in range.                *)
LEMMA RecoveryTypes ==
  ASSUME TypeInv, SavepointInv, SavepointInv', FinishRollback \/ ForgetKept
  PROVE  TypeInv'
<1>1. /\ mode = "recover" /\ mode' \in {"recover", "idle"} /\ ~Writing' /\ ~InSavepoint'
      /\ UNCHANGED <<free, pending, frozen, retained, save, dirty, crashes, fails>>
      /\ published' = published \/ published' = 0
  BY DEF FinishRollback, ForgetKept, Writing, InSavepoint
<1>2. hdr' \in Headers /\ hdr'["shared"] # NoHeader
  <2>1. CASE FinishRollback
    <3> DEFINE e == IF published > db.epoch THEN published ELSE db.epoch
               h == [db EXCEPT !.epoch = e]
    <3>1. hdr' = [hdr EXCEPT !["db"] = h]
      BY <2>1, TypeParts, HolderParts DEF FinishRollback, TypeInv
    <3>2. e \in 1..MaxEpoch /\ db \in Header
      BY <1>1, TypeParts, WriterThere, BlockFileAssumption
    <3> HIDE DEF e
    <3>3. h \in Header
      BY <3>2 DEF Header
    <3> HIDE DEF h
    <3>4. QED BY <1>1, <3>1, <3>3, TypeParts, HolderParts, WriterThere DEF Headers, TypeInv
  <2>2. CASE ForgetKept
    BY <1>1, <2>2, TypeParts, HolderParts, WriterThere DEF ForgetKept, Headers, TypeInv
  <2>3. QED BY <2>1, <2>2
<1>3. published' \in 0..MaxEpoch /\ save.marked \in BOOLEAN
  BY <1>1, TypeParts, BlockFileAssumption DEF TypeInv
<1>4. QED BY <1>1, <1>2, <1>3, TypeParts, StillTypes DEF InSavepoint

(* A new file.                                                              *)
LEMMA InitTypes ==
  ASSUME Init, SavepointInv
  PROVE  TypeInv
<1> DEFINE fresh == [epoch |-> 1, roots |-> {}, count |-> 0,
                     list |-> <<>>, chain |-> <<>>, ok |-> TRUE]
<1>1. /\ hdr = [x \in Holder |-> IF x \in {"A", "db", "shared"} THEN fresh ELSE NoHeader]
      /\ active = "A" /\ free = <<>> /\ pending = <<>> /\ frozen = <<>>
      /\ retained = <<>> /\ save = NoSave /\ mode = "idle" /\ pc = "none"
      /\ dirty = {} /\ published = 0 /\ crashes = 0 /\ fails = 0
  BY DEF Init
<1>2. fresh \in Header /\ fresh # NoHeader
  <2>1. 1 \in 1..MaxEpoch /\ {} \subseteq BlockNo /\ 0 \in 0..MaxBlock /\ <<>> \in Seq(BlockNo)
    BY BlockFileAssumption
  <2>2. QED BY <2>1, HeaderMade
<1> HIDE DEF fresh
<1>3. hdr \in Headers /\ hdr["shared"] # NoHeader
  BY <1>1, <1>2 DEF Headers, Holder, InMemory
<1>4. TypeOK
  BY <1>1, <1>3, BlockFileAssumption DEF TypeOK, Headers, Slot
<1>5. QED BY <1>1, <1>3, <1>4 DEF TypeInv, Up, InSavepoint, Writing, NoSave

(* Every step of the file keeps its state in range.                         *)
LEMMA TypesStep ==
  ASSUME TypeInv, SavepointInv, SavepointInv', [Next]_vars
  PROVE  TypeInv'
<1>1. CASE UNCHANGED vars
  BY <1>1 DEF vars, TypeInv, TypeOK, Up, InSavepoint, Writing, db
<1>2. CASE (\E r \in Reader : Observe(r) \/ Idle(r)) \/ PublishStaged
  BY <1>2, ReadersTypes
<1>3. CASE \E across, settled \in BOOLEAN : Hold(across, settled)
  BY <1>3, HoldTypes
<1>4. CASE KeepSavepoint \/ StageDeferred
  BY <1>4, KeepTypes
<1>5. CASE mode # "down" /\ \E F \in Freed : StagedFold(F) \/ CheckpointFold(F) \/ FoldFails(F)
  BY <1>5, FoldTypes
<1>6. CASE CheckpointChain \/ CheckpointSync \/ CheckpointFlip
  BY <1>6, ChainTypes, FlipTypes
<1>7. CASE SettleKeeps \/ SettleInside \/ Commit
  BY <1>7, SettleTypes
<1>8. CASE RollbackSavepoint \/ UndoDone
  BY <1>8, RollbackTypes, UndoneTypes
<1>9. CASE \E slot \in FlipOutcomes : Crash(slot)
  BY <1>9, CrashTypes
<1>10. CASE Open \/ FinishRollback \/ ForgetKept
  BY <1>10, OpenedTypes, RecoveryTypes
<1>11. QED BY <1>1, <1>2, <1>3, <1>4, <1>5, <1>6, <1>7, <1>8, <1>9, <1>10 DEF Next

---------------------------------------------------------------------------
(* What holds of the blocks: in memory, on disk, and under the leases. *)

\* A header an open can start from: its chain, its list and its roots are
\* apart, and within its count.
HeaderSound(h) ==
  /\ IsInjective(h.chain) /\ IsInjective(h.list) /\ h.roots \cap Range(h.chain) = {}
  /\ Range(h.list) \cap Reach(h) = {} /\ Reach(h) \cup Range(h.list) \subseteq 1..h.count

\* No block of the writer is in two places; blocks are frozen only inside a
\* transaction; the writer is whole, and its list within its count.
PlacesInv ==
  /\ mode \notin {"down", "raised"} => Listable
  /\ Up => IsInjective(BlocksOf(retained)) /\ db.ok /\ Range(db.list) \subseteq 1..db.count
  /\ mode # "txn" => frozen = <<>>

\* What a rollback goes back to: the kept header is whole, and apart from
\* what was free then and what the readers of older epochs still hold.
KeptBack(k) ==
  /\ IsInjective(k.chain) /\ IsInjective(save.free)
  /\ k.roots \cap Range(k.chain) = {} /\ Reach(k) \cap Range(save.free) = {}
  /\ LetGo(retained, k.epoch) \cap (Reach(k) \cup Range(save.free)) = {}
  /\ Reach(k) \cup Range(save.free) \cup LetGo(retained, k.epoch) \cup Range(k.list) \subseteq 1..k.count
  /\ k.ok /\ k.count <= db.count /\ Range(free) \subseteq Range(save.free) /\ save.began = k.epoch
KeptInv == Within => KeptBack(hdr["kept"])

SlotsSound == /\ \A s \in Slot : hdr[s] # NoHeader => HeaderSound(hdr[s])
              /\ Writing => HeaderSound(db)

MemInv == PlacesInv /\ KeptInv /\ SlotsSound

\* A header of the disk no step of the writer touches.
SameLists(g, h) == g.list = h.list /\ g.chain = h.chain
Clear(h) == Reach(h) \cap Range(free) = {} /\ Reach(h) \subseteq 1..db.count
Safe(h) == h.ok /\ Reach(h) \cap dirty = {} /\ (Up => Clear(h))

\* The marker holds a header an open can start from, at most as new as what
\* is published; a transaction keeps one it can put there.
MarkerSound ==
  hdr["marker"] # NoHeader =>
    /\ HeaderSound(hdr["marker"]) /\ Safe(hdr["marker"]) /\ hdr["marker"].epoch <= Cur.epoch
    /\ hdr["marker"].epoch = Cur.epoch => SameLists(hdr["marker"], Cur)
KeptSound ==
  /\ mode = "txn" => /\ HeaderSound(hdr["kept"]) /\ hdr["kept"].epoch <= Cur.epoch
                     /\ save.marked => Twin(hdr["marker"], hdr["kept"])
  /\ mode \in {"stmt", "raised"} => ~save.marked
  /\ mode = "stmt" => ~save.across /\ (pc \in {"kept", "chain"} => ~save.published)

\* The writer, the savepoint and a recovery are on the lists they were read
\* from until a checkpoint writes new ones.
LinkInv ==
  /\ Up /\ ~Writing /\ (mode \in {"undo", "recover"} => pc = "forget") => SameLists(db, Cur)
  /\ Within /\ Cur.epoch <= hdr["kept"].epoch => SameLists(hdr["kept"], Cur)
  /\ Unset => Twin(db, hdr["marker"])

\* The newest slot matters when there is no marker, or none that is older,
\* and until the rollback of an older one begins.
CurMatters == \/ hdr["marker"] = NoHeader \/ hdr["marker"].epoch = Cur.epoch
              \/ mode \in {"idle", "stmt", "raised", "txn"} \/ pc = "forget"
CurInv ==
  /\ CurMatters => /\ Safe(Cur)
                   /\ ~Writing => Reach(Cur) \cap (Blocks(retained) \cup Range(frozen)) = {}
  /\ pc = "flip" => dirty = {}
  /\ Within /\ Cur.epoch <= hdr["kept"].epoch =>
       Reach(Cur) \cap Range(save.free) = {} /\ Reach(Cur) \subseteq 1..hdr["kept"].count

DiskInv == MarkerSound /\ KeptSound /\ LinkInv /\ CurInv

\* A header a reader has, or may get: its blocks wait for it if they wait.
Leased(h) ==
  /\ Up /\ h.ok /\ Clear(h) /\ h.epoch <= db.epoch
  /\ \A i \in DOMAIN retained : retained[i].block \in Reach(h) => retained[i].epoch >= h.epoch
  /\ Within => Reach(h) \cap Range(save.free) = {} /\ Reach(h) \subseteq 1..hdr["kept"].count
LeaseInv ==
  /\ mode # "txn"
  /\ \A y \in Reader \cup {"shared"} : hdr[y] # NoHeader => Leased(hdr[y])
  /\ hdr["staged"] # NoHeader /\ hdr["staged"].epoch > hdr["shared"].epoch => Leased(hdr["staged"])

---------------------------------------------------------------------------
(* In memory: every block is in one place. *)

\* Another epoch of the same header.
SameButEpoch(g, h) == /\ g.roots = h.roots /\ g.chain = h.chain /\ g.list = h.list
                      /\ g.count = h.count /\ g.ok = h.ok

(* finish_rollback and the flip give a header another epoch and no other    *)
(* block.                                                                   *)
LEMMA SameReach ==
  ASSUME NEW g, NEW h, SameButEpoch(g, h)
  PROVE  Reach(g) = Reach(h) /\ HeaderSound(g) = HeaderSound(h)
BY DEF SameButEpoch, Reach, HeaderSound

(* The handles on other connections, publish_staged, stage_deferred, the    *)
(* sync and the flip: no list of blocks changes.                            *)
LEMMA MemStill ==
  ASSUME MemInv, mode # "down", SameButEpoch(db', db),
         Within => hdr'["kept"] = hdr["kept"],
         \A s \in Slot : hdr'[s] = hdr[s] \/ HeaderSound(hdr'[s]),
         UNCHANGED <<free, pending, frozen, retained>>,
         save'.free = save.free, save'.began = save.began,
         mode' = mode \/ (mode = "recover" /\ mode' = "idle"), Writing' => Writing
  PROVE  MemInv'
<1>1. Listable => Listable'
  BY SameReach DEF Listable, Apart, SameButEpoch
<1>2. PlacesInv'
  BY <1>1 DEF MemInv, PlacesInv, Up, SameButEpoch
<1>3. KeptInv'
  <2>1. Within' => Within
    BY DEF Within
  <2>2. KeptBack(hdr["kept"]) /\ hdr'["kept"] = hdr["kept"] => KeptBack(hdr["kept"])'
    BY DEF KeptBack, SameButEpoch, LetGo
  <2>3. QED BY <2>1, <2>2 DEF MemInv, KeptInv
<1>4. SlotsSound'
  BY SameReach DEF MemInv, SlotsSound
<1>5. QED BY <1>2, <1>3, <1>4 DEF MemInv

(* reclaim: what no reader holds any more moves, and stays in one place.    *)
LEMMA ReclaimedApart ==
  ASSUME NEW d, NEW h \in Headers, NEW ret \in Seq(Wait), NEW f \in Seq(BlockNo), NEW p,
         NEW z \in Seq(BlockNo), NEW inside \in BOOLEAN, Reclaim(h, ret, f, z, inside),
         save.free \in Seq(BlockNo), Apart(d, f, p, z, ret)
  PROVE  Apart(d, free', p, frozen', retained')
<1> DEFINE go == LetGo(ret, Floor(h))
<1>0. h \in [Holder -> Header \cup {NoHeader}]
  BY DEF Headers
<1>1. /\ Blocks(retained') \cup go = Blocks(ret)
      /\ inside => /\ Range(free') = Range(f) \cup (go \cap Range(save.free))
                   /\ Range(frozen') = Range(z) \cup (go \ Range(save.free))
      /\ ~inside => Range(free') = Range(f) \cup go /\ frozen' = z
      /\ IsInjective(BlocksOf(ret)) =>
           /\ IsInjective(BlocksOf(retained')) /\ Blocks(retained') \cap go = {}
           /\ IsInjective(f) /\ Range(f) \cap Blocks(ret) = {} => IsInjective(free')
           /\ IsInjective(z) /\ Range(z) \cap Blocks(ret) = {} => IsInjective(frozen')
  <2>1. Reclaimed(ret, f, z, inside, Floor(h))
    BY <1>0, ReclaimEffect
  <2>2. QED BY ONLY <2>1 DEF Reclaimed, go
<1> HIDE DEF go
<1>2. /\ IsInjective(d.chain) /\ IsInjective(f) /\ IsInjective(p) /\ IsInjective(z)
      /\ IsInjective(BlocksOf(ret))
      /\ d.roots \cap (Range(d.chain) \cup Range(f) \cup Range(p) \cup Range(z) \cup Blocks(ret)) = {}
      /\ Range(d.chain) \cap (Range(f) \cup Range(p) \cup Range(z) \cup Blocks(ret)) = {}
      /\ Range(f) \cap (Range(p) \cup Range(z) \cup Blocks(ret)) = {}
      /\ Range(p) \cap (Range(z) \cup Blocks(ret)) = {}
      /\ Range(z) \cap Blocks(ret) = {}
      /\ Reach(d) \cup Range(f) \cup Range(p) \cup Range(z) \cup Blocks(ret) \subseteq 1..d.count
  BY DEF Apart
<1>3. Range(f) \cap Blocks(ret) = {}
  BY ONLY <1>2
<1>4. IsInjective(free') /\ IsInjective(frozen') /\ IsInjective(BlocksOf(retained'))
      /\ Blocks(retained') \cap go = {}
  BY ONLY <1>1, <1>2, <1>3
<1>5. /\ Range(free') \subseteq Range(f) \cup go /\ Range(frozen') \subseteq Range(z) \cup go
      /\ Range(free') \cap Range(frozen') = {}
      /\ Blocks(retained') \subseteq Blocks(ret) /\ go \subseteq Blocks(ret)
  <2>1. CASE inside
    BY ONLY <1>1, <1>2, <2>1
  <2>2. CASE ~inside
    BY ONLY <1>1, <1>2, <2>2
  <2>3. QED BY <2>1, <2>2
<1>6. /\ d.roots \cap (Range(d.chain) \cup Range(free') \cup Range(p) \cup Range(frozen') \cup Blocks(retained')) = {}
      /\ Range(d.chain) \cap (Range(free') \cup Range(p) \cup Range(frozen') \cup Blocks(retained')) = {}
  BY ONLY <1>2, <1>5
<1>7. /\ Range(free') \cap (Range(p) \cup Range(frozen') \cup Blocks(retained')) = {}
      /\ Range(p) \cap (Range(frozen') \cup Blocks(retained')) = {}
      /\ Range(frozen') \cap Blocks(retained') = {}
  BY ONLY <1>2, <1>4, <1>5
<1>8. Reach(d) \cup Range(free') \cup Range(p) \cup Range(frozen') \cup Blocks(retained') \subseteq 1..d.count
  BY ONLY <1>2, <1>5
<1>9. QED BY <1>2, <1>4, <1>6, <1>7, <1>8 DEF Apart

(* release_savepoint: what was frozen waits, and stays in one place.        *)
LEMMA ReleasedApart ==
  ASSUME TypeInv, InSavepoint, NEW d, NEW f, NEW p, Apart(d, f, p, frozen, retained)
  PROVE  Apart(d, f, p, <<>>, Released(retained))
<1>1. /\ Released(retained) \in Seq(Wait)
      /\ Waiting(frozen, save.began) \in Seq(Wait) /\ BlocksOf(Waiting(frozen, save.began)) = frozen
      /\ Blocks(Waiting(frozen, save.began)) = Range(frozen)
      /\ Blocks(Released(retained)) = Blocks(retained) \cup Range(frozen)
  BY ReleasedTypes
<1>2. retained \in Seq(Wait)
  BY TypeParts
<1>3. IsInjective(BlocksOf(Released(retained)))
  <2>1. IsInjective(BlocksOf(retained)) /\ IsInjective(frozen) /\ Blocks(retained) \cap Range(frozen) = {}
    BY DEF Apart
  <2>2. QED BY <1>1, <1>2, <2>1, WaitsBehind DEF Released
<1>4. QED BY <1>1, <1>3, NothingListed DEF Apart

(* write_block leaves a header that reaches none of the blocks as it was.   *)
LEMMA NotTouched ==
  ASSUME NEW h \in Header \cup {NoHeader}, NEW B, h = NoHeader \/ Reach(h) \cap B = {}
  PROVE  Overwritten(h, B) = h
<1>1. CASE h = NoHeader
  BY <1>1 DEF Overwritten
<1>2. CASE h # NoHeader
  <2>1. /\ Overwritten(h, B) = [h EXCEPT !.ok = h.ok /\ Reach(h) \cap B = {}]
        /\ h \in Header /\ Reach(h) \cap B = {}
    BY <1>2 DEF Overwritten
  <2>2. h.ok \in BOOLEAN
    BY <2>1 DEF Header
  <2> DEFINE k == h.ok /\ Reach(h) \cap B = {}
  <2>3. k = h.ok
    BY <2>1, <2>2
  <2> HIDE DEF k
  <2>4. Overwritten(h, B) = [h EXCEPT !.ok = k]
    BY <2>1 DEF k
  <2>5. [h EXCEPT !.ok = h.ok] = h
    BY <2>1 DEF Header
  <2>6. QED BY <2>3, <2>4, <2>5
<1>3. QED BY <1>1, <1>2

(* allocate_block: a header clear of what is free is not written into.      *)
LEMMA FoldSpares ==
  ASSUME TypeInv, NEW ptr \in BlockNo, NEW F, Took(ptr, F), db.count \in Nat,
         NEW x \in Holder \ {"db"}, hdr[x] = NoHeader \/ Clear(hdr[x])
  PROVE  /\ hdr'[x] = hdr[x]
         /\ hdr[x] # NoHeader => Clear(hdr[x])' /\ ptr \notin Reach(hdr[x])
<1>1. hdr[x] \in Header \cup {NoHeader} /\ hdr'[x] = Overwritten(hdr[x], {ptr})
  BY TypeParts DEF Took
<1>2. /\ hdr'["db"].count = db.count \/ hdr'["db"].count = db.count + 1
      /\ ptr \in Range(free) \/ ptr = db.count + 1
      /\ Range(free') \subseteq Range(free) /\ hdr'["db"] = db'
  BY DEF Took, db
<1>3. CASE hdr[x] = NoHeader
  BY <1>1, <1>3, NotTouched
<1>4. CASE hdr[x] # NoHeader
  <2>1. Reach(hdr[x]) \cap Range(free) = {} /\ Reach(hdr[x]) \subseteq 1..db.count
    BY <1>4 DEF Clear
  <2>2. ptr \notin Reach(hdr[x])
    BY <1>2, <2>1
  <2>3. hdr'[x] = hdr[x]
    BY <1>1, <2>2, NotTouched
  <2>4. Clear(hdr[x])'
    BY <1>2, <2>1, <2>3 DEF Clear
  <2>5. QED BY <2>2, <2>3, <2>4
<1>5. QED BY <1>3, <1>4

(* The writer's lists after a fold that went through.                       *)
LEMMA FoldListed ==
  ASSUME TypeInv, SavepointInv, NEW F \in Freed, mode # "down", NEW ptr \in BlockNo, Took(ptr, F),
         Listable, db'.roots = (db.roots \ F) \cup {ptr}
  PROVE  Listable'
<1>1. /\ db'.chain = db.chain /\ db' = hdr'["db"]
      /\ \/ db'.count = db.count /\ ptr \in Range(free) /\ (IsInjective(free) => ptr \notin Range(free'))
         \/ db'.count = db.count + 1 /\ ptr = db.count + 1 /\ free' = <<>>
      /\ Range(free') \subseteq Range(free) /\ (IsInjective(free) => IsInjective(free'))
      /\ Range(pending') = Range(pending) \cup F
      /\ (F \cap Range(pending) = {} /\ IsInjective(pending)) => IsInjective(pending')
      /\ frozen' = frozen /\ retained' = retained
  BY DEF Took, db
<1>2. db.count \in Nat /\ F \subseteq db.roots /\ db.roots \subseteq BlockNo
  BY WriterThere DEF Freed
<1>3. /\ IsInjective(db.chain) /\ IsInjective(free) /\ IsInjective(pending) /\ IsInjective(frozen)
      /\ IsInjective(BlocksOf(retained))
      /\ db.roots \cap (Range(db.chain) \cup Range(free) \cup Range(pending) \cup Range(frozen) \cup Blocks(retained)) = {}
      /\ Range(db.chain) \cap (Range(free) \cup Range(pending) \cup Range(frozen) \cup Blocks(retained)) = {}
      /\ Range(free) \cap (Range(pending) \cup Range(frozen) \cup Blocks(retained)) = {}
      /\ Range(pending) \cap (Range(frozen) \cup Blocks(retained)) = {}
      /\ Range(frozen) \cap Blocks(retained) = {}
      /\ db.roots \cup Range(db.chain) \cup Range(free) \cup Range(pending) \cup Range(frozen) \cup Blocks(retained)
           \subseteq 1..db.count
  BY DEF Listable, Apart, Reach
<1>4. Range(<<>>) = {}
  BY NothingListed
<1>5. ptr \notin db.roots \cup Range(db.chain) \cup Range(free') \cup Range(pending) \cup Range(frozen) \cup Blocks(retained)
  <2>1. CASE ptr \in Range(free)
    <3>1. ptr \notin Range(free')
      BY ONLY <1>1, <1>3, <1>4, <2>1
    <3>2. QED BY ONLY <1>3, <2>1, <3>1
  <2>2. CASE ptr = db.count + 1
    <3>1. ptr \notin 1..db.count
      BY <1>2, <2>2
    <3>2. QED BY ONLY <1>1, <1>3, <3>1
  <2>3. QED BY <1>1, <2>1, <2>2
<1>6. db'.count \in Nat /\ db.count <= db'.count /\ ptr \in 1..db'.count
  <2>1. CASE ptr \in Range(free)
    BY <1>1, <1>2, <1>3, <2>1
  <2>2. CASE ptr = db.count + 1
    BY <1>1, <1>2, <1>3, <2>2
  <2>3. QED BY <1>1, <2>1, <2>2
<1>7. 1..db.count \subseteq 1..db'.count
  BY <1>2, <1>6
<1>8. IsInjective(free') /\ IsInjective(pending')
  BY ONLY <1>1, <1>2, <1>3
<1>9. /\ db'.roots \cap (Range(db.chain) \cup Range(free') \cup Range(pending') \cup Range(frozen) \cup Blocks(retained)) = {}
      /\ Range(db.chain) \cap (Range(free') \cup Range(pending') \cup Range(frozen) \cup Blocks(retained)) = {}
  BY ONLY <1>1, <1>2, <1>3, <1>5, db'.roots = (db.roots \ F) \cup {ptr}
<1>10. /\ Range(free') \cap (Range(pending') \cup Range(frozen) \cup Blocks(retained)) = {}
       /\ Range(pending') \cap (Range(frozen) \cup Blocks(retained)) = {}
  BY ONLY <1>1, <1>2, <1>3
<1>11. db'.roots \cup Range(db.chain) \cup Range(free') \cup Range(pending') \cup Range(frozen) \cup Blocks(retained)
         \subseteq 1..db'.count
  BY ONLY <1>1, <1>2, <1>3, <1>6, <1>7, db'.roots = (db.roots \ F) \cup {ptr}
<1>12. QED BY <1>1, <1>3, <1>8, <1>9, <1>10, <1>11 DEF Listable, Apart, Reach

(* A savepoint after a fold: the rollback finds what it needs.              *)
LEMMA FoldKeeps ==
  ASSUME TypeInv, SavepointInv, KeptInv, NEW ptr \in BlockNo, NEW F, Took(ptr, F), Within, mode # "down"
  PROVE  KeptInv'
<1> DEFINE k == hdr["kept"]
<1>1. /\ KeptBack(k) /\ db.count \in Nat /\ k # NoHeader /\ k.count \in Nat /\ "kept" \in Holder \ {"db"}
      /\ k \in Header \cup {NoHeader}
  BY WriterThere, HolderParts, HeaderParts DEF KeptInv, SavepointInv, SaveInv, Saved, Within, TypeInv
<1>2. Clear(k)
  <2>1. /\ Reach(k) \cap Range(save.free) = {} /\ Range(free) \subseteq Range(save.free)
        /\ Reach(k) \subseteq 1..k.count /\ k.count <= db.count
    BY <1>1 DEF KeptBack
  <2>2. 1..k.count \subseteq 1..db.count
    BY <1>1, <2>1
  <2>3. QED BY ONLY <2>1, <2>2 DEF Clear
<1>3. hdr'["kept"] = k
  BY <1>1, <1>2, FoldSpares
<1>4. /\ retained' = retained /\ save'.free = save.free /\ save'.began = save.began
      /\ Range(free') \subseteq Range(free)
  BY DEF Took, SavepointInv, SaveRecord
<1>5. db'.count >= db.count
  BY <1>1 DEF Took, db
<1>6. db'.count \in Nat
  BY <1>1 DEF Took, db
<1>7. KeptBack(hdr["kept"])'
  BY <1>1, <1>3, <1>4, <1>5, <1>6 DEF KeptBack, LetGo
<1>8. QED BY <1>7 DEF KeptInv

(* Copies of the slots are as sound as the slots.                           *)
LEMMA TwinSound ==
  ASSUME NEW h \in Header \cup {NoHeader}, NEW g, Twin(g, h), h = NoHeader \/ HeaderSound(h)
  PROVE  g = NoHeader \/ HeaderSound(g)
BY TwinParts DEF HeaderSound

(* A fold, or a fold that fails, leaves every block in one place, or a      *)
(* statement to be undone.                                                  *)
LEMMA MemFold ==
  ASSUME TypeInv, SavepointInv, MemInv, "carryon" \notin Allow, NEW F \in Freed, mode # "down",
         StagedFold(F) \/ CheckpointFold(F) \/ FoldFails(F)
  PROVE  MemInv'
<1>1. PICK ptr \in BlockNo : Took(ptr, F)
  BY FoldEffect
<1>2. /\ mode \in {"idle", "stmt", "txn"} /\ ~Writing' /\ mode' # "down"
      /\ mode' = mode \/ (mode = "stmt" /\ mode' = "raised")
  <2>1. mode \in {"idle", "stmt", "txn"}
    BY DEF StagedFold, CheckpointFold, FoldFails, SavepointInv, ControlInv
  <2>2. CASE StagedFold(F)
    BY <2>1, <2>2 DEF StagedFold, Writing
  <2>3. CASE CheckpointFold(F)
    BY <2>1, <2>3 DEF CheckpointFold, Writing
  <2>4. CASE FoldFails(F)
    BY <2>1, <2>4 DEF FoldFails, Writing
  <2>5. QED BY <2>1, <2>2, <2>3, <2>4
<1>3. Listable /\ db.count \in Nat /\ db.ok /\ Range(db.list) \subseteq 1..db.count
  BY <1>2, WriterThere DEF MemInv, PlacesInv, Up
<1>4. db'.ok /\ Range(db'.list) \subseteq 1..db'.count
  <2>1. ptr \notin Reach(db)
    <3>1. ptr \in Range(free) \/ ptr = db.count + 1
      BY <1>1 DEF Took
    <3>2. Reach(db) \cap Range(free) = {} /\ Reach(db) \subseteq 1..db.count
      BY <1>3 DEF Listable, Apart, Reach
    <3>3. QED BY <1>3, <3>1, <3>2
  <2>2. db'.ok /\ db'.list = db.list /\ (db'.count = db.count \/ db'.count = db.count + 1)
    BY <1>1, <1>3, <2>1 DEF Took, db
  <2>3. QED BY <1>3, <2>2
<1>5. IsInjective(BlocksOf(retained')) /\ frozen' = frozen
  BY <1>1, <1>3 DEF Took, Listable, Apart
<1>6. mode' # "raised" => Listable'
  <2> SUFFICES ASSUME mode' # "raised" PROVE Listable'
    OBVIOUS
  <2>1. db'.roots = (db.roots \ F) \cup {ptr}
    BY <1>1 DEF Took, db
  <2>2. QED BY <1>1, <1>3, <2>1, FoldListed
<1>7. PlacesInv'
  BY <1>2, <1>4, <1>5, <1>6 DEF PlacesInv, MemInv, Up
<1>8. KeptInv'
  <2>1. CASE Within
    BY <1>1, <1>2, <2>1, FoldKeeps DEF MemInv
  <2>2. CASE ~Within
    BY <1>2, <2>2 DEF KeptInv, Within
  <2>3. QED BY <2>1, <2>2
<1>9. SlotsSound'
  <2>1. ASSUME NEW s \in Slot PROVE hdr'[s] # NoHeader => HeaderSound(hdr'[s])
    <3>1. s \in Holder \ {"db"} /\ hdr[s] \in Header \cup {NoHeader}
      BY HolderParts DEF TypeInv
    <3>2. hdr'[s] = Overwritten(hdr[s], {ptr})
      BY <1>1, <3>1 DEF Took
    <3>3. QED BY <3>1, <3>2, OverwrittenTwin, TwinSound DEF MemInv, SlotsSound
  <2>2. QED BY <1>2, <2>1 DEF SlotsSound
<1>10. QED BY <1>7, <1>8, <1>9 DEF MemInv

(* checkpoint: a header clear of what is free is not written into by the    *)
(* chain, and is clear of what is free afterwards unless it has it frozen.  *)
LEMMA ChainSpares ==
  ASSUME TypeInv, SavepointInv, NEW w, Lists(w), Relists(w), db.count \in Nat,
         NEW x \in Holder \ {"db"}, Kept(hdr)[x] = NoHeader \/ Clear(Kept(hdr)[x])
  PROVE  /\ hdr'[x] = Kept(hdr)[x]
         /\ hdr'[x] # NoHeader =>
              /\ Reach(hdr'[x]) \cap Range(w.chain) = {} /\ Reach(hdr'[x]) \subseteq 1..db'.count
              /\ Reach(hdr'[x]) \cap Range(frozen) = {} \/ (InSavepoint /\ Reach(hdr'[x]) \cap Range(save.free) = {})
                   => Clear(hdr[x])'
<1> DEFINE h == Kept(hdr)[x]
<1>1. h \in Header \cup {NoHeader} /\ hdr'[x] = Overwritten(h, Range(w.chain))
  BY KeptTypes DEF Relists
<1> HIDE DEF h
<1>2. /\ Range(w.chain) \subseteq Range(free) \cup ((db.count + 1)..w.count) /\ db.count <= w.count /\ w.count \in Nat
      /\ Rest(w) \subseteq Range(free) \cup Range(frozen) \cup Reached
      /\ InSavepoint => Range(free') = (Rest(w) \ Reached) \cap Range(save.free)
      /\ ~InSavepoint => Range(free') = Rest(w) \ Reached
      /\ db'.count = w.count
  BY DEF Lists, Relists, db
<1>3. CASE h = NoHeader
  BY <1>1, <1>3, NotTouched DEF h
<1>4. CASE h # NoHeader
  <2>1. Reach(h) \cap Range(free) = {} /\ Reach(h) \subseteq 1..db.count
    BY <1>4 DEF Clear, h
  <2>2. (1..db.count) \cap ((db.count + 1)..w.count) = {} /\ 1..db.count \subseteq 1..w.count
    BY <1>2
  <2>3. Reach(h) \cap Range(w.chain) = {} /\ Reach(h) \subseteq 1..w.count
    BY ONLY <1>2, <2>1, <2>2
  <2>4. hdr'[x] = h
    BY <1>1, <2>3, NotTouched
  <2>5. ASSUME Reach(h) \cap Range(frozen) = {} \/ (InSavepoint /\ Reach(h) \cap Range(save.free) = {})
        PROVE  Clear(hdr[x])'
    <3>1. Range(free') \subseteq Range(free) \cup Range(frozen) /\ (InSavepoint => Range(free') \subseteq Range(save.free))
      BY ONLY <1>2
    <3>2. Reach(h) \cap Range(free') = {}
      BY ONLY <2>1, <2>5, <3>1
    <3>3. QED BY <1>2, <2>3, <2>4, <3>2 DEF Clear
  <2>6. QED BY <1>2, <2>3, <2>4, <2>5 DEF h
<1>5. QED BY <1>3, <1>4

(* checkpoint: the new lists, the new chain and what waits are apart.       *)
LEMMA ChainListed ==
  ASSUME Listable, db.count \in Nat, NEW w, Lists(w), Relists(w)
  PROVE  Listable' /\ HeaderSound(db') /\ Range(db'.list) \subseteq 1..db'.count
<1> DEFINE C == Range(w.chain)
           new == (db.count + 1)..w.count
<1>1. /\ db'.roots = db.roots /\ db'.chain = w.chain /\ db'.list = w.list /\ db'.count = w.count
      /\ pending' = <<>>
  BY DEF Relists, db
<1>2. /\ w.count \in Nat /\ db.count <= w.count
      /\ C \subseteq Range(free) \cup new /\ Rest(w) \subseteq Range(free) \cup Range(frozen) \cup Reached
      /\ InSavepoint => /\ Range(free') = (Rest(w) \ Reached) \cap Range(save.free)
                        /\ Range(frozen') = (Rest(w) \ Reached) \ Range(save.free)
      /\ ~InSavepoint => Range(free') = Rest(w) \ Reached /\ frozen' = <<>>
      /\ Blocks(retained') = Blocks(retained) \cup (Rest(w) \cap Reached)
      /\ IsInjective(w.list) /\ IsInjective(w.chain) /\ C \cap Rest(w) = {} /\ Range(w.list) \subseteq Rest(w)
      /\ IsInjective(free') /\ IsInjective(frozen') /\ IsInjective(BlocksOf(retained'))
  BY DEF Lists, Rest
<1>3. /\ db.roots \cap (Range(db.chain) \cup Range(free) \cup Range(pending) \cup Range(frozen) \cup Blocks(retained)) = {}
      /\ Range(db.chain) \cap (Range(free) \cup Range(pending) \cup Range(frozen) \cup Blocks(retained)) = {}
      /\ Range(free) \cap (Range(pending) \cup Range(frozen) \cup Blocks(retained)) = {}
      /\ Range(pending) \cap (Range(frozen) \cup Blocks(retained)) = {}
      /\ Range(frozen) \cap Blocks(retained) = {}
      /\ db.roots \cup Range(db.chain) \cup Range(free) \cup Range(pending) \cup Range(frozen) \cup Blocks(retained)
           \subseteq 1..db.count
  BY DEF Listable, Apart, Reach
<1>4. Range(<<>>) = {} /\ IsInjective(<<>>)
  BY NothingListed
<1>5. (1..db.count) \cap new = {} /\ 1..db.count \subseteq 1..w.count /\ new \subseteq 1..w.count
  BY <1>2
<1> HIDE DEF new, C
<1>6. Reached = Range(pending) \cup Range(db.chain)
  BY DEF Reached
<1>7. /\ Range(free') \subseteq Rest(w) \ Reached /\ Range(frozen') \subseteq Rest(w) \ Reached
      /\ Range(free') \cap Range(frozen') = {}
  BY ONLY <1>2, <1>4
<1>8. db.roots \cap (C \cup Rest(w) \cup Blocks(retained')) = {}
  BY ONLY <1>2, <1>3, <1>5, <1>6
<1>9. C \cap (Rest(w) \cup Blocks(retained')) = {}
  BY ONLY <1>2, <1>3, <1>5, <1>6
<1>10. (Rest(w) \ Reached) \cap Blocks(retained') = {}
  BY ONLY <1>2, <1>3, <1>6
<1>11. db.roots \cup C \cup Rest(w) \cup Blocks(retained') \subseteq 1..w.count
  BY ONLY <1>2, <1>3, <1>5, <1>6
<1>12. Listable'
  <2>1. /\ db.roots \cap (C \cup Range(free') \cup Range(<<>>) \cup Range(frozen') \cup Blocks(retained')) = {}
        /\ C \cap (Range(free') \cup Range(<<>>) \cup Range(frozen') \cup Blocks(retained')) = {}
        /\ Range(free') \cap (Range(<<>>) \cup Range(frozen') \cup Blocks(retained')) = {}
        /\ Range(<<>>) \cap (Range(frozen') \cup Blocks(retained')) = {}
        /\ Range(frozen') \cap Blocks(retained') = {}
        /\ db.roots \cup C \cup Range(free') \cup Range(<<>>) \cup Range(frozen') \cup Blocks(retained') \subseteq 1..w.count
    BY ONLY <1>4, <1>7, <1>8, <1>9, <1>10, <1>11
  <2>2. QED BY <1>1, <1>2, <1>4, <2>1 DEF Listable, Apart, Reach, C
<1>13. HeaderSound(db') /\ Range(db'.list) \subseteq 1..db'.count
  <2>1. /\ db.roots \cap C = {} /\ Range(w.list) \cap (db.roots \cup C) = {}
        /\ db.roots \cup C \cup Range(w.list) \subseteq 1..w.count
    BY ONLY <1>2, <1>8, <1>9, <1>11
  <2>2. QED BY <1>1, <1>2, <2>1 DEF HeaderSound, Reach, C
<1>14. QED BY <1>12, <1>13

(* What older readers hold is what they held before.                        *)
LEMMA ChainHolds ==
  ASSUME TypeInv, SavepointInv, NEW w, Lists(w), NEW e, e \in Int, e <= db.epoch, db.epoch \in Nat
  PROVE  LetGo(retained', e) \subseteq LetGo(retained, e)
<1> SUFFICES ASSUME NEW i \in DOMAIN retained', retained'[i].epoch < e
             PROVE  retained'[i].block \in LetGo(retained, e)
  BY DEF LetGo
<1>1. \/ \E j \in DOMAIN retained : retained'[i] = retained[j]
      \/ retained'[i].epoch = db.epoch
  BY DEF Lists
<1>2. retained'[i].epoch # db.epoch
  OBVIOUS
<1>3. QED BY <1>1, <1>2 DEF LetGo

(* A checkpoint moves what was freed behind the readers, and every block    *)
(* stays in one place.                                                      *)
LEMMA MemChain ==
  ASSUME TypeInv, SavepointInv, MemInv, CheckpointChain
  PROVE  MemInv'
<1>1. PICK w : Lists(w) /\ Relists(w)
  BY Zenon, ChainEffect
<1>2. mode \notin {"down", "raised"} /\ mode' = mode
  BY DEF CheckpointChain, SavepointInv, ControlInv
<1>3. Listable /\ db.count \in Nat /\ db.ok /\ db.epoch \in Nat
  BY <1>2, WriterThere DEF MemInv, PlacesInv, Up
<1>4. Listable' /\ HeaderSound(db') /\ Range(db'.list) \subseteq 1..db'.count
  BY <1>1, <1>3, ChainListed
<1>5. db'.ok
  <2>1. db.roots \cap Range(w.chain) = {}
    <3>1. db.roots \cap Range(free) = {} /\ db.roots \subseteq 1..db.count
      BY <1>3 DEF Listable, Apart, Reach
    <3>2. Range(w.chain) \subseteq Range(free) \cup ((db.count + 1)..w.count)
      BY <1>1 DEF Lists
    <3>3. (1..db.count) \cap ((db.count + 1)..w.count) = {}
      BY <1>3
    <3>4. QED BY ONLY <3>1, <3>2, <3>3
  <2>2. QED BY <1>1, <1>3, <2>1 DEF Relists, db
<1>6. ASSUME Within PROVE KeptBack(hdr["kept"])'
  <2> DEFINE k == hdr["kept"]
  <2>1. /\ KeptBack(k) /\ k # NoHeader /\ k \in Header \cup {NoHeader} /\ k.epoch <= db.epoch /\ k.epoch \in Int
        /\ k.count \in Nat /\ "kept" \in Holder \ {"db"} /\ Kept(hdr)["kept"] = k /\ InSavepoint
    <3>1. KeptBack(k) /\ k # NoHeader /\ k.epoch <= db.epoch /\ InSavepoint
      BY <1>2, <1>6 DEF MemInv, KeptInv, SavepointInv, SaveInv, Saved, Within, InSavepoint
    <3>2. k \in Header \cup {NoHeader} /\ "kept" \in Holder \ {"db"} /\ Kept(hdr)["kept"] = k
      BY HolderParts, KeptTypes DEF TypeInv
    <3>3. k.epoch \in Int /\ k.count \in Nat
      BY <3>1, <3>2, HeaderParts, BlockFileAssumption
    <3>4. QED BY <3>1, <3>2, <3>3
  <2> HIDE DEF k
  <2>2. Clear(k)
    <3>1. /\ Reach(k) \cap Range(save.free) = {} /\ Range(free) \subseteq Range(save.free)
          /\ Reach(k) \subseteq 1..k.count /\ k.count <= db.count
      BY <2>1 DEF KeptBack
    <3>2. 1..k.count \subseteq 1..db.count
      BY <1>3, <2>1, <3>1
    <3>3. QED BY ONLY <3>1, <3>2 DEF Clear
  <2>3. hdr'["kept"] = k
    BY <1>1, <1>3, <2>1, <2>2, ChainSpares
  <2>4. LetGo(retained', k.epoch) \subseteq LetGo(retained, k.epoch)
    BY <1>1, <1>3, <2>1, ChainHolds
  <2>5. Range(free') \subseteq Range(save.free) /\ save'.free = save.free /\ save'.began = save.began
    BY <1>1, <2>1 DEF Lists, Relists
  <2>6. db'.count >= db.count /\ db'.count \in Nat
    BY <1>1 DEF Lists, Relists, db
  <2>7. db'.count >= k.count
    BY <1>3, <2>1, <2>6 DEF KeptBack
  <2>8. QED BY <2>1, <2>3, <2>4, <2>5, <2>7 DEF KeptBack
<1>7. mode # "txn" => frozen' = <<>>
  <2> SUFFICES ASSUME mode # "txn" PROVE frozen' = <<>>
    OBVIOUS
  <2>1. frozen = <<>> /\ Range(<<>>) = {} /\ frozen' \in Seq(BlockNo)
    BY <1>1, NothingListed DEF MemInv, PlacesInv, Lists
  <2>2. CASE InSavepoint
    <3>1. Range(free) \subseteq Range(save.free)
      BY <2>2 DEF MemInv, KeptInv, KeptBack, Within, InSavepoint
    <3>2. /\ Range(frozen') = (Rest(w) \ Reached) \ Range(save.free)
          /\ Rest(w) \subseteq Range(free) \cup Range(frozen) \cup Reached
      BY <1>1, <2>2 DEF Lists
    <3>3. Range(frozen') = {}
      BY ONLY <2>1, <3>1, <3>2
    <3>4. QED BY <2>1, <3>3 DEF Range
  <2>3. CASE ~InSavepoint
    BY <1>1, <2>3 DEF Lists
  <2>4. QED BY <2>2, <2>3
<1>8. PlacesInv'
  BY <1>1, <1>2, <1>4, <1>5, <1>7 DEF PlacesInv, Listable, Apart
<1>9. KeptInv'
  BY <1>2, <1>6 DEF KeptInv, Within
<1>10. SlotsSound'
  <2>1. ASSUME NEW s \in Slot PROVE hdr'[s] # NoHeader => HeaderSound(hdr'[s])
    <3>1. /\ s \in Holder \ {"db"} /\ s # "marker" /\ hdr[s] \in Header \cup {NoHeader}
          /\ Kept(hdr)[s] = hdr[s]
      BY HolderParts, KeptTypes DEF TypeInv
    <3>2. hdr'[s] = Overwritten(hdr[s], Range(w.chain))
      BY <1>1, <3>1 DEF Relists
    <3>3. QED BY <3>1, <3>2, OverwrittenTwin, TwinSound DEF MemInv, SlotsSound
  <2>2. QED BY <1>4, <2>1 DEF SlotsSound
<1>11. QED BY <1>8, <1>9, <1>10 DEF MemInv

(* The steps that move no block: observe, Lease::drop, publish_staged,      *)
(* keep_savepoint, stage_deferred, the sync, the flip, and the two ends of  *)
(* a recovery.                                                              *)
LEMMA MemQuiet ==
  ASSUME TypeInv, SavepointInv, MemInv, mode # "down",
         \/ (\E r \in Reader : Observe(r) \/ Idle(r)) \/ PublishStaged
         \/ KeepSavepoint \/ StageDeferred \/ CheckpointSync \/ CheckpointFlip
         \/ FinishRollback \/ ForgetKept
  PROVE  MemInv'
<1>0. /\ "db" \in Holder /\ Slot \subseteq Holder /\ "kept" \in Holder /\ "staged" \notin Slot
      /\ "marker" \notin Slot /\ "shared" \notin Slot /\ "db" \notin Slot /\ "kept" \notin Slot
      /\ Reader \cap (Slot \cup {"db", "kept"}) = {} /\ hdr["db"] = db /\ DOMAIN hdr = Holder
      /\ db \in Header /\ db.epoch \in Nat
  <2>1. TypeOK
    BY DEF TypeInv
  <2>2. db \in Header /\ db.epoch \in Nat
    BY WriterThere, BlockFileAssumption
  <2>3. QED BY <2>1, <2>2, HolderParts DEF db
<1>1. UNCHANGED <<free, pending, frozen, retained>>
  BY DEF Observe, Idle, PublishStaged, KeepSavepoint, StageDeferred, CheckpointSync, CheckpointFlip,
         FinishRollback, ForgetKept
<1>2. mode' = mode \/ (mode = "recover" /\ mode' = "idle")
  BY DEF Observe, Idle, PublishStaged, KeepSavepoint, StageDeferred, CheckpointSync, CheckpointFlip,
         FinishRollback, ForgetKept
<1>3. Writing' => Writing
  BY DEF Observe, Idle, PublishStaged, KeepSavepoint, StageDeferred, CheckpointSync, CheckpointFlip,
         FinishRollback, ForgetKept, Writing
<1>4. save'.free = save.free /\ save'.began = save.began
  <2>1. CASE KeepSavepoint
    <3>1. save' = Marked
      BY <2>1 DEF KeepSavepoint
    <3>2. QED BY <3>1, KeptTypes
  <2>2. CASE StageDeferred
    <3>1. save' = [save EXCEPT !.published = TRUE]
      BY <2>2 DEF StageDeferred
    <3>2. QED BY <3>1 DEF SavepointInv, SaveRecord
  <2>3. CASE ~KeepSavepoint /\ ~StageDeferred
    BY <2>3 DEF Observe, Idle, PublishStaged, CheckpointSync, CheckpointFlip, FinishRollback, ForgetKept
  <2>4. QED BY <2>1, <2>2, <2>3
<1>5. /\ SameButEpoch(db', db) /\ (Within => hdr'["kept"] = hdr["kept"])
      /\ \A s \in Slot : hdr'[s] = hdr[s] \/ HeaderSound(hdr'[s])
  <2>1. CASE CheckpointFlip
    <3>1. hdr' = [hdr EXCEPT ![Inactive] = Flipped, !["db"] = Flipped] /\ Inactive \in Slot /\ Writing
      BY <2>1, TypeParts DEF CheckpointFlip, Writing
    <3>2. SameButEpoch(Flipped, db)
      BY <1>0 DEF Flipped, SameButEpoch, Header
    <3>3. HeaderSound(Flipped)
      BY <3>1, <3>2, SameReach DEF MemInv, SlotsSound
    <3>4. db' = Flipped /\ hdr'["kept"] = hdr["kept"]
      BY <1>0, <3>1 DEF db
    <3>5. \A s \in Slot : hdr'[s] = hdr[s] \/ hdr'[s] = Flipped
      BY <1>0, <3>1
    <3>6. QED BY <3>2, <3>3, <3>4, <3>5
  <2>2. CASE FinishRollback
    <3> DEFINE e == IF published > db.epoch THEN published ELSE db.epoch
               h == [db EXCEPT !.epoch = e]
    <3>1. hdr' = [hdr EXCEPT !["db"] = h]
      BY <1>0, <2>2 DEF FinishRollback
    <3>2. SameButEpoch(h, db)
      BY <1>0 DEF SameButEpoch, Header
    <3> HIDE DEF h
    <3>3. db' = h /\ hdr'["kept"] = hdr["kept"] /\ \A s \in Slot : hdr'[s] = hdr[s]
      BY <1>0, <3>1 DEF db
    <3>4. QED BY <3>2, <3>3
  <2>3. CASE KeepSavepoint
    <3>1. hdr' = Kept(hdr)
      BY <2>3 DEF KeepSavepoint
    <3>2. \A x \in Holder \ {"marker"} : hdr'[x] = hdr[x]
      BY <3>1, KeptTypes
    <3>3. QED BY <1>0, <3>2 DEF SameButEpoch, db
  <2>4. CASE (\E r \in Reader : Observe(r) \/ Idle(r)) \/ PublishStaged \/ StageDeferred \/ CheckpointSync \/ ForgetKept
    BY <1>0, <2>4 DEF Observe, Idle, PublishStaged, StageDeferred, CheckpointSync, ForgetKept, SameButEpoch, db
  <2>5. QED BY <2>1, <2>2, <2>3, <2>4
<1>6. QED BY <1>1, <1>2, <1>3, <1>4, <1>5, MemStill

(* What older readers hold is some of what waits.                           *)
LEMMA LetGoAmong ==
  ASSUME NEW ret \in Seq(Wait), NEW e
  PROVE  LetGo(ret, e) \subseteq Blocks(ret)
BY BlocksListed DEF LetGo

(* hold: the savepoint keeps the lists as they are after the reclaim.       *)
LEMMA MemHold ==
  ASSUME TypeInv, TypeInv', SavepointInv, MemInv, NEW across \in BOOLEAN, NEW settled \in BOOLEAN,
         Hold(across, settled)
  PROVE  MemInv'
<1> DEFINE h == IF settled THEN [hdr EXCEPT !["shared"] = db] ELSE hdr
<1>1. /\ mode = "idle" /\ pc = "none" /\ hdr' = [h EXCEPT !["kept"] = db]
      /\ Reclaim(h, retained, free, frozen, FALSE) /\ pending' = pending
      /\ save' = [free |-> free', across |-> across, published |-> FALSE,
                  marked |-> FALSE, began |-> db.epoch]
      /\ mode' = (IF across THEN "txn" ELSE "stmt") /\ pc' = pc
  BY DEF Hold
<1>2. /\ h \in Headers /\ h["db"] = db /\ \A s \in Slot : h[s] = hdr[s] /\ s # "kept"
      /\ "kept" \in Holder /\ "db" \in Holder
  BY <1>1, TypeParts, HolderParts, WriterThere DEF Headers, TypeInv
<1> HIDE DEF h
<1>3. hdr'["kept"] = db /\ db' = db /\ \A s \in Slot : hdr'[s] = hdr[s]
  BY <1>1, <1>2 DEF db, Headers
<1>4. Listable /\ frozen = <<>> /\ db.ok /\ Range(db.list) \subseteq 1..db.count /\ db.count \in Nat
  BY <1>1, WriterThere DEF MemInv, PlacesInv, Up
<1>5. Apart(db, free', pending, frozen', retained')
  <2>1. FALSE \in BOOLEAN /\ Apart(db, free, pending, frozen, retained)
    BY <1>4 DEF Listable
  <2>2. QED BY <1>1, <1>2, <2>1, TypeParts, ReclaimedApart
<1>6. frozen' = <<>> /\ retained' \in Seq(Wait)
  <2>1. Reclaimed(retained, free, frozen, FALSE, Floor(h))
    <3>1. FALSE \in BOOLEAN
      OBVIOUS
    <3>2. QED BY <1>1, <1>2, <3>1, TypeParts, ReclaimEffect DEF Headers
  <2>2. QED BY <1>4, <2>1 DEF Reclaimed
<1>7. PlacesInv'
  BY <1>1, <1>3, <1>4, <1>5, <1>6 DEF PlacesInv, Listable, Apart
<1>8. KeptBack(hdr["kept"])'
  <2>1. LetGo(retained', db.epoch) \subseteq Blocks(retained')
    BY <1>6, LetGoAmong
  <2>2. save'.free = free' /\ save'.began = db.epoch
    BY <1>1
  <2>3. /\ IsInjective(db.chain) /\ IsInjective(free') /\ db.roots \cap Range(db.chain) = {}
        /\ Reach(db) \cap Range(free') = {} /\ Blocks(retained') \cap (Reach(db) \cup Range(free')) = {}
        /\ Reach(db) \cup Range(free') \cup Blocks(retained') \subseteq 1..db.count
    BY <1>5 DEF Apart, Reach
  <2>4. db.count <= db.count
    BY <1>4
  <2>5. QED BY <1>3, <1>4, <2>1, <2>2, <2>3, <2>4 DEF KeptBack
<1>9. SlotsSound'
  BY <1>1, <1>3 DEF MemInv, SlotsSound, Writing
<1>10. QED BY <1>7, <1>8, <1>9 DEF MemInv, KeptInv

(* reclaim after a statement: the lists, with nothing frozen outside a      *)
(* transaction.                                                             *)
LEMMA ReclaimedOutside ==
  ASSUME TypeInv, NEW d, NEW h \in Headers, NEW ret \in Seq(Wait),
         Reclaim(h, ret, free, <<>>, FALSE), Apart(d, free, pending, <<>>, ret)
  PROVE  Apart(d, free', pending, frozen', retained') /\ frozen' = <<>>
<1>1. FALSE \in BOOLEAN /\ <<>> \in Seq(BlockNo) /\ h \in [Holder -> Header \cup {NoHeader}]
  BY DEF Headers
<1>2. Reclaimed(ret, free, <<>>, FALSE, Floor(h))
  BY <1>1, TypeParts, ReclaimEffect
<1>3. frozen' = <<>>
  BY <1>2 DEF Reclaimed
<1>4. QED BY <1>1, <1>3, TypeParts, ReclaimedApart

(* settle and undo: what is released and reclaimed stays in one place.      *)
LEMMA MemSettle ==
  ASSUME TypeInv, SavepointInv, MemInv, SettleKeeps \/ UndoDone
  PROVE  MemInv'
<1>1. PICK h, ret : /\ hdr' = h /\ h \in Headers /\ ret \in Seq(Wait)
                    /\ \A x \in Slot \cup {"db"} : h[x] = hdr[x]
                    /\ Reclaim(h, ret, free, <<>>, FALSE) /\ Apart(db, free, pending, <<>>, ret)
  <2>1. Listable /\ mode # "down" /\ mode # "txn" /\ frozen = <<>> /\ mode # "raised"
    BY DEF SettleKeeps, UndoDone, MemInv, PlacesInv
  <2>2. {"db", "staged", "shared", "kept", "marker"} \cup Slot \subseteq Holder
        /\ Slot \cap {"db", "staged", "shared", "kept", "marker"} = {} /\ hdr["db"] = db
    BY TypeParts, HolderParts DEF TypeInv
  <2>3. CASE SettleKeeps
    <3> DEFINE h == [Unmarked(hdr) EXCEPT !["staged"] = db]
    <3>1. hdr' = h /\ Reclaim(h, Released(retained), free, <<>>, FALSE) /\ InSavepoint
      BY <2>3 DEF SettleKeeps, InSavepoint
    <3>2. /\ Unmarked(hdr) \in Headers
          /\ \A x \in Holder \ {"kept", "marker"} : Unmarked(hdr)[x] = hdr[x]
      BY <2>1, UnmarkedTypes
    <3>3. h \in Headers /\ \A x \in Slot \cup {"db"} : h[x] = hdr[x]
      BY <2>2, <3>2, TypeParts DEF Headers
    <3> HIDE DEF h
    <3>4. Apart(db, free, pending, <<>>, Released(retained)) /\ Released(retained) \in Seq(Wait)
      BY <2>1, <3>1, ReleasedApart, ReleasedTypes DEF Listable
    <3>5. QED BY <3>1, <3>3, <3>4
  <2>4. CASE UndoDone
    <3> DEFINE h == [Unmarked(hdr) EXCEPT !["shared"] = db, !["staged"] = NoHeader]
    <3>1. hdr' = h /\ Reclaim(h, retained, free, frozen, FALSE)
      BY <2>4 DEF UndoDone
    <3>2. /\ Unmarked(hdr) \in Headers
          /\ \A x \in Holder \ {"kept", "marker"} : Unmarked(hdr)[x] = hdr[x]
      BY <2>1, UnmarkedTypes
    <3>3. h \in Headers /\ \A x \in Slot \cup {"db"} : h[x] = hdr[x]
      BY <2>2, <3>2, TypeParts DEF Headers
    <3> HIDE DEF h
    <3>4. QED BY <2>1, <3>1, <3>3, TypeParts DEF Listable
  <2>5. QED BY <2>3, <2>4
<1>2. /\ mode # "down" /\ mode' = "idle" /\ ~Writing' /\ pending' = pending
      /\ mode \notin {"raised", "txn"} /\ "db" \notin Slot
  BY DEF SettleKeeps, UndoDone, Writing, Slot
<1>3. db' = db /\ \A s \in Slot : hdr'[s] = hdr[s]
  BY <1>1, TypeParts DEF db
<1>4. Apart(db, free', pending, frozen', retained') /\ frozen' = <<>>
  BY <1>1, ReclaimedOutside
<1>5. PlacesInv'
  BY <1>2, <1>3, <1>4 DEF MemInv, PlacesInv, Listable, Apart, Up
<1>6. KeptInv' /\ SlotsSound'
  BY <1>2, <1>3 DEF MemInv, SlotsSound, KeptInv, Within
<1>7. QED BY <1>5, <1>6 DEF MemInv

(* COMMIT: what was frozen waits for the readers, in one place.             *)
LEMMA MemCommit ==
  ASSUME TypeInv, SavepointInv, MemInv, Commit
  PROVE  MemInv'
<1>1. /\ InSavepoint /\ mode = "txn" /\ mode' = "idle" /\ ~Writing'
      /\ hdr' = Unmarked(hdr) /\ retained' = Released(retained) /\ frozen' = <<>>
      /\ free' = free /\ pending' = pending
  BY DEF Commit, InSavepoint, Writing
<1>2. db' = db /\ \A s \in Slot : hdr'[s] = hdr[s]
  <2>1. "db" \in Holder \ {"kept", "marker"} /\ Slot \subseteq Holder \ {"kept", "marker"}
    BY HolderParts DEF TypeInv
  <2>2. QED BY <1>1, <2>1, UnmarkedTypes DEF db
<1>3. Apart(db, free, pending, <<>>, Released(retained))
  BY <1>1, ReleasedApart DEF MemInv, PlacesInv, Listable
<1>4. PlacesInv'
  BY <1>1, <1>2, <1>3 DEF MemInv, PlacesInv, Listable, Apart, Up
<1>5. KeptInv' /\ SlotsSound'
  BY <1>1, <1>2 DEF MemInv, SlotsSound, KeptInv, Within
<1>6. QED BY <1>4, <1>5 DEF MemInv

(* settle inside a transaction: what is reclaimed is free again only if the *)
(* savepoint had it free.                                                   *)
LEMMA MemInside ==
  ASSUME TypeInv, SavepointInv, MemInv, SettleInside
  PROVE  MemInv'
<1> DEFINE h == [hdr EXCEPT !["staged"] = db]
<1>1. /\ mode = "txn" /\ mode' = mode /\ pc' = pc /\ save' = save /\ pending' = pending
      /\ hdr' = h /\ Reclaim(h, retained, free, frozen, TRUE)
  BY DEF SettleInside
<1>2. /\ h \in Headers /\ h["db"] = db /\ h["kept"] = hdr["kept"] /\ \A s \in Slot : h[s] = hdr[s]
  BY TypeParts, HolderParts DEF Headers, TypeInv
<1> HIDE DEF h
<1>3. db' = db /\ hdr'["kept"] = hdr["kept"] /\ \A s \in Slot : hdr'[s] = hdr[s]
  BY <1>1, <1>2 DEF db
<1>4. Listable /\ TRUE \in BOOLEAN /\ KeptBack(hdr["kept"])
  BY <1>1 DEF MemInv, PlacesInv, KeptInv, Within
<1>5. Apart(db, free', pending, frozen', retained')
  BY <1>1, <1>2, <1>4, TypeParts, ReclaimedApart DEF Listable
<1>6. Reclaimed(retained, free, frozen, TRUE, Floor(h))
  BY <1>1, <1>2, <1>4, TypeParts, ReclaimEffect DEF Headers
<1>7. PlacesInv'
  BY <1>1, <1>3, <1>5 DEF MemInv, PlacesInv, Listable, Apart, Up
<1>8. KeptBack(hdr["kept"])'
  <2>1. Range(free') \subseteq Range(free) \cup Range(save.free)
    BY <1>6 DEF Reclaimed
  <2>2. LetGo(retained', hdr["kept"].epoch) \subseteq LetGo(retained, hdr["kept"].epoch)
    BY <1>6 DEF Reclaimed, LetGo
  <2>3. QED BY <1>1, <1>3, <1>4, <2>1, <2>2 DEF KeptBack
<1>9. SlotsSound'
  BY <1>1, <1>3 DEF MemInv, SlotsSound, Writing
<1>10. QED BY <1>7, <1>8, <1>9 DEF MemInv, KeptInv

(* rollback_savepoint: the kept header and the lists kept with it are       *)
(* apart, and so is what the readers of older epochs hold.                  *)
LEMMA MemRollback ==
  ASSUME TypeInv, SavepointInv, MemInv, RollbackSavepoint
  PROVE  MemInv'
<1> DEFINE k == hdr["kept"]
           h == [k EXCEPT !.epoch = db.epoch]
           I == {i \in DOMAIN retained : retained[i].epoch < k.epoch}
<1>1. /\ Within /\ mode # "down" /\ mode' = "undo" /\ ~Writing'
      /\ hdr' = [hdr EXCEPT !["db"] = h] /\ free' = save.free /\ pending' = <<>> /\ frozen' = <<>>
      /\ retained' = At(retained, I)
  BY DEF RollbackSavepoint, Within, Writing, LetGoBefore
<1>2. /\ KeptBack(k) /\ k # NoHeader /\ k \in Header \cup {NoHeader}
      /\ IsInjective(BlocksOf(retained)) /\ retained \in Seq(Wait)
      /\ "db" \in Holder /\ "db" \notin Slot
  BY <1>1, TypeParts, HolderParts DEF MemInv, KeptInv, PlacesInv, Up, SavepointInv, SaveInv, Saved, Within, TypeInv
<1> HIDE DEF k
<1>3. SameButEpoch(h, k)
  BY <1>2 DEF Header, SameButEpoch
<1> HIDE DEF h
<1>4. db' = h /\ \A s \in Slot : hdr'[s] = hdr[s]
  BY <1>1, <1>2, TypeParts DEF db
<1>5. Blocks(retained') = LetGo(retained, k.epoch) /\ IsInjective(BlocksOf(retained'))
  <2>1. I \subseteq DOMAIN retained
    OBVIOUS
  <2>2. Blocks(retained') = {retained[i].block : i \in I}
    BY <1>1, <1>2, <2>1, WaitsAt
  <2>3. IsInjective(BlocksOf(retained'))
    BY <1>1, <1>2, <2>1, WaitsAt
  <2>4. QED BY <2>2, <2>3 DEF LetGo
<1>6. Listable'
  <2>1. Range(<<>>) = {} /\ IsInjective(<<>>)
    BY NothingListed
  <2>2. /\ IsInjective(k.chain) /\ IsInjective(save.free)
        /\ k.roots \cap Range(k.chain) = {} /\ Reach(k) \cap Range(save.free) = {}
        /\ LetGo(retained, k.epoch) \cap (Reach(k) \cup Range(save.free)) = {}
        /\ Reach(k) \cup Range(save.free) \cup LetGo(retained, k.epoch) \subseteq 1..k.count
        /\ Reach(k) = k.roots \cup Range(k.chain)
    BY <1>2 DEF KeptBack, Reach
  <2>3. /\ k.roots \cap (Range(k.chain) \cup Range(save.free) \cup Range(<<>>) \cup Blocks(retained')) = {}
        /\ Range(k.chain) \cap (Range(save.free) \cup Range(<<>>) \cup Blocks(retained')) = {}
        /\ Range(save.free) \cap (Range(<<>>) \cup Blocks(retained')) = {}
        /\ Reach(k) \cup Range(save.free) \cup Range(<<>>) \cup Blocks(retained') \subseteq 1..k.count
    BY ONLY <1>5, <2>1, <2>2
  <2>4. h.roots = k.roots /\ h.chain = k.chain /\ h.count = k.count /\ Reach(h) = Reach(k)
    BY <1>3, SameReach DEF SameButEpoch
  <2>5. Apart(h, save.free, <<>>, <<>>, retained')
    BY <1>5, <2>1, <2>2, <2>3, <2>4 DEF Apart
  <2>6. QED BY <1>1, <1>4, <2>5 DEF Listable
<1>7. db'.ok /\ Range(db'.list) \subseteq 1..db'.count
  BY <1>2, <1>3, <1>4 DEF KeptBack, SameButEpoch
<1>8. PlacesInv'
  BY <1>1, <1>5, <1>6, <1>7 DEF PlacesInv
<1>9. KeptInv' /\ SlotsSound'
  BY <1>1, <1>4 DEF MemInv, SlotsSound, KeptInv, Within
<1>10. QED BY <1>8, <1>9 DEF MemInv

(* What a crash leaves of each slot and of the marker.                      *)
LEMMA CrashLeaves ==
  ASSUME TypeInv, SavepointInv, NEW slot \in FlipOutcomes, Crash(slot)
  PROVE  /\ \A x \in OnDisk \ {Inactive} : hdr'[x] = Overwritten(hdr[x], dirty)
         /\ hdr'[Inactive] = Overwritten(slot, dirty) /\ Inactive \in Slot
         /\ slot = hdr[Inactive] \/ (pc = "flip" /\ slot = NoHeader) \/ (pc = "flip" /\ slot = Flipped)
         /\ mode # "down" /\ mode' = "down" /\ pc' = "none" /\ dirty' = {}
         /\ free' = <<>> /\ frozen' = <<>> /\ retained' = <<>> /\ save' = NoSave
         /\ db \in Header /\ db # NoHeader
         /\ pc = "flip" => /\ Flipped \in Header /\ Flipped # NoHeader
                           /\ SameButEpoch(Flipped, db) /\ Flipped.epoch = db.epoch + 1
<1>1. /\ mode # "down"
      /\ hdr' = [x \in Holder |-> IF x \notin OnDisk THEN NoHeader
                                  ELSE Overwritten(IF x = Inactive THEN slot ELSE hdr[x], dirty)]
      /\ mode' = "down" /\ pc' = "none" /\ dirty' = {}
      /\ free' = <<>> /\ frozen' = <<>> /\ retained' = <<>> /\ save' = NoSave
  BY DEF Crash
<1>2. OnDisk \subseteq Holder /\ Inactive \in Slot /\ Slot \subseteq OnDisk
  BY TypeParts DEF Holder, OnDisk
<1>3. /\ \A x \in OnDisk \ {Inactive} : hdr'[x] = Overwritten(hdr[x], dirty)
      /\ hdr'[Inactive] = Overwritten(slot, dirty)
  BY <1>1, <1>2
<1>4. slot = hdr[Inactive] \/ (pc = "flip" /\ slot = NoHeader) \/ (pc = "flip" /\ slot = Flipped)
  BY DEF FlipOutcomes
<1>5. db \in Header /\ db # NoHeader
  BY <1>1, WriterThere
<1>6. ASSUME pc = "flip"
      PROVE  /\ Flipped \in Header /\ Flipped # NoHeader
             /\ SameButEpoch(Flipped, db) /\ Flipped.epoch = db.epoch + 1
  <2>1. db.epoch + 1 \in 1..MaxEpoch
    BY <1>1, <1>6, WriterThere, BlockFileAssumption DEF TypeInv, Writing
  <2>2. Flipped = [db EXCEPT !.epoch = db.epoch + 1]
    BY DEF Flipped
  <2> HIDE DEF db
  <2>3. Flipped \in Header /\ SameButEpoch(Flipped, db) /\ Flipped.epoch = db.epoch + 1
    BY <1>5, <2>1, <2>2 DEF Header, SameButEpoch
  <2>4. QED BY <2>3, HeaderFields
<1>7. QED BY <1>1, <1>2, <1>3, <1>4, <1>5, <1>6

(* A crash leaves sound slots, a torn flip included.                        *)
LEMMA MemCrash ==
  ASSUME TypeInv, SavepointInv, MemInv, NEW slot \in FlipOutcomes, Crash(slot)
  PROVE  MemInv'
<1>1. /\ \A x \in OnDisk \ {Inactive} : hdr'[x] = Overwritten(hdr[x], dirty)
      /\ hdr'[Inactive] = Overwritten(slot, dirty) /\ Inactive \in Slot
      /\ slot = hdr[Inactive] \/ (pc = "flip" /\ slot = NoHeader) \/ (pc = "flip" /\ slot = Flipped)
      /\ mode' = "down" /\ pc' = "none" /\ frozen' = <<>>
      /\ pc = "flip" => Flipped \in Header /\ SameButEpoch(Flipped, db)
  BY CrashLeaves
<1>2. Slot \subseteq OnDisk /\ Slot \subseteq Holder /\ \A x \in Holder : hdr[x] \in Header \cup {NoHeader}
  BY TypeParts DEF OnDisk, Holder
<1>3. ASSUME NEW s \in Slot PROVE hdr'[s] # NoHeader => HeaderSound(hdr'[s])
  <2>1. PICK h \in Header \cup {NoHeader} : hdr'[s] = Overwritten(h, dirty) /\ (h = NoHeader \/ HeaderSound(h))
    <3>1. CASE s # Inactive
      BY <1>1, <1>2, <3>1 DEF MemInv, SlotsSound
    <3>2. CASE s = Inactive
      <4>1. CASE slot = hdr[Inactive]
        BY <1>1, <1>2, <3>2, <4>1 DEF MemInv, SlotsSound
      <4>2. CASE slot = NoHeader
        BY <1>1, <3>2, <4>2
      <4>3. CASE pc = "flip" /\ slot = Flipped
        <5>1. HeaderSound(Flipped)
          BY <1>1, <4>3, SameReach DEF MemInv, SlotsSound, Writing
        <5>2. QED BY <1>1, <3>2, <4>3, <5>1
      <4>4. QED BY <1>1, <4>1, <4>2, <4>3
    <3>3. QED BY <3>1, <3>2
  <2>2. QED BY <2>1, OverwrittenTwin, TwinSound
<1>4. SlotsSound'
  BY <1>1, <1>3 DEF SlotsSound, Writing
<1>5. PlacesInv' /\ KeptInv'
  BY <1>1 DEF PlacesInv, KeptInv, Up, Within
<1>6. QED BY <1>4, <1>5 DEF MemInv

(* open_kind: the lists of the header adopted are the writer's.             *)
LEMMA MemOpen ==
  ASSUME TypeInv, SavepointInv, MemInv, Open, HeaderSound(Adopted(hdr)), Adopted(hdr).ok
  PROVE  MemInv'
<1> DEFINE h == Adopted(hdr)
<1>1. /\ mode = "down" /\ mode' \in {"recover", "idle"} /\ hdr' = [hdr EXCEPT !["db"] = h, !["shared"] = h]
      /\ free' = h.list /\ UNCHANGED <<pending, frozen, retained, pc>>
  BY DEF Open
<1>2. /\ pending = <<>> /\ frozen = <<>> /\ retained = <<>> /\ pc = "none"
      /\ "db" \in Holder /\ "db" \notin Slot /\ "shared" \notin Slot /\ Slot \subseteq Holder
  BY <1>1, HolderParts DEF TypeInv, Up, SavepointInv, ControlInv
<1>3. HeaderSound(h) /\ h.ok
  OBVIOUS
<1> HIDE DEF h
<1>4. db' = h /\ \A s \in Slot : hdr'[s] = hdr[s]
  <2>1. DOMAIN hdr = Holder
    BY TypeParts
  <2>2. hdr'["db"] = h
    BY ONLY <1>1, <1>2, <2>1
  <2>3. \A s \in Slot : hdr'[s] = hdr[s]
    BY ONLY <1>1, <1>2, <2>1
  <2>4. QED BY <2>2, <2>3 DEF db
<1>5. Range(<<>>) = {} /\ IsInjective(<<>>) /\ BlocksOf(<<>>) = <<>> /\ Blocks(<<>>) = {}
  <2>1. BlocksOf(<<>>) = <<>>
    BY DEF BlocksOf
  <2>2. QED BY <2>1, NothingListed DEF Blocks
<1>6. Apart(h, h.list, <<>>, <<>>, <<>>)
  BY <1>3, <1>5 DEF HeaderSound, Apart, Reach
<1>7. Listable'
  BY <1>1, <1>2, <1>4, <1>6 DEF Listable
<1>8. Range(h.list) \subseteq 1..h.count
  BY <1>3 DEF HeaderSound
<1>9. PlacesInv'
  BY <1>1, <1>2, <1>3, <1>4, <1>5, <1>7, <1>8 DEF PlacesInv
<1>10. KeptInv' /\ SlotsSound'
  BY <1>1, <1>2, <1>4 DEF MemInv, SlotsSound, KeptInv, Within, Writing
<1>11. QED BY <1>9, <1>10 DEF MemInv

(* A new file has no blocks.                                                *)
LEMMA FreshSound ==
  LET h == [epoch |-> 1, roots |-> {}, count |-> 0, list |-> <<>>, chain |-> <<>>, ok |-> TRUE]
  IN  HeaderSound(h) /\ Reach(h) = {} /\ Apart(h, <<>>, <<>>, <<>>, <<>>)
<1>1. Range(<<>>) = {} /\ IsInjective(<<>>)
  BY NothingListed
<1>2. BlocksOf(<<>>) = <<>>
  BY DEF BlocksOf
<1>3. QED BY <1>1, <1>2 DEF HeaderSound, Reach, Apart, Blocks

(* A new file has nothing in two places.                                    *)
LEMMA InitMem == Init => MemInv
<1> SUFFICES ASSUME Init PROVE MemInv
  OBVIOUS
<1> DEFINE fresh == [epoch |-> 1, roots |-> {}, count |-> 0,
                     list |-> <<>>, chain |-> <<>>, ok |-> TRUE]
<1>1. /\ hdr = [x \in Holder |-> IF x \in {"A", "db", "shared"} THEN fresh ELSE NoHeader]
      /\ free = <<>> /\ pending = <<>> /\ frozen = <<>> /\ retained = <<>>
      /\ mode = "idle" /\ pc = "none"
  BY DEF Init
<1>2. HeaderSound(fresh) /\ Apart(fresh, <<>>, <<>>, <<>>, <<>>) /\ fresh.ok /\ Range(fresh.list) \subseteq 1..fresh.count
  <2>1. Range(<<>>) = {}
    BY NothingListed
  <2>2. QED BY <2>1, FreshSound
<1> HIDE DEF fresh
<1>3. "db" \in Holder /\ Slot \subseteq Holder
  BY DEF Holder, InMemory, OnDisk
<1>4. db = fresh /\ \A s \in Slot : hdr[s] = NoHeader \/ hdr[s] = fresh
  BY <1>1, <1>3 DEF db
<1>5. PlacesInv
  BY <1>1, <1>2, <1>4 DEF PlacesInv, Listable, Apart
<1>6. KeptInv /\ SlotsSound
  BY <1>1, <1>2, <1>4 DEF KeptInv, SlotsSound, Within, Writing
<1>7. QED BY <1>5, <1>6 DEF MemInv

(* Every step of the file keeps its blocks in one place, once an open finds *)
(* a sound header.                                                          *)
LEMMA MemStep ==
  ASSUME TypeInv, TypeInv', SavepointInv, MemInv, "carryon" \notin Allow, [Next]_vars,
         mode = "down" => HeaderSound(Adopted(hdr)) /\ Adopted(hdr).ok
  PROVE  MemInv'
<1>1. CASE UNCHANGED vars
  BY <1>1 DEF vars, MemInv, PlacesInv, KeptInv, KeptBack, SlotsSound, Listable, Up, Within, Writing, db
<1>2. CASE (\E r \in Reader : Observe(r) \/ Idle(r)) \/ PublishStaged
             \/ KeepSavepoint \/ StageDeferred \/ CheckpointSync \/ CheckpointFlip
             \/ FinishRollback \/ ForgetKept
  <2>1. mode # "down"
    <3>1. \A x \in Reader \cup {"staged"} : x \in Holder \ OnDisk
      BY HolderParts DEF TypeInv
    <3>2. mode = "down" => pc = "none" /\ \A x \in Reader \cup {"staged"} : hdr[x] = NoHeader
      BY <3>1 DEF TypeInv, Up, SavepointInv, ControlInv
    <3>3. QED BY <1>2, <3>2 DEF Observe, Idle, PublishStaged, KeepSavepoint, InSavepoint, StageDeferred,
                                CheckpointSync, CheckpointFlip, FinishRollback, ForgetKept
  <2>2. QED BY <1>2, <2>1, MemQuiet
<1>3. CASE \E across, settled \in BOOLEAN : Hold(across, settled)
  BY <1>3, MemHold
<1>4. CASE mode # "down" /\ \E F \in Freed : StagedFold(F) \/ CheckpointFold(F) \/ FoldFails(F)
  BY <1>4, MemFold
<1>5. CASE CheckpointChain
  BY <1>5, MemChain
<1>6. CASE SettleKeeps \/ UndoDone
  BY <1>6, MemSettle
<1>7. CASE SettleInside \/ Commit \/ RollbackSavepoint
  BY <1>7, MemInside, MemCommit, MemRollback
<1>8. CASE \E slot \in FlipOutcomes : Crash(slot)
  BY <1>8, MemCrash
<1>9. CASE Open
  BY <1>9, MemOpen DEF Open
<1>10. QED BY <1>1, <1>2, <1>3, <1>4, <1>5, <1>6, <1>7, <1>8, <1>9 DEF Next

---------------------------------------------------------------------------
(* On disk: what the next open would read is whole. *)

(* Where the published header is, and the types of what an open reads.      *)
LEMMA DiskParts ==
  ASSUME TypeInv, SavepointInv
  PROVE  /\ Cur \in Header /\ Cur # NoHeader /\ Cur.epoch \in Nat /\ Newest(hdr) \in Slot
         /\ Up => Cur = hdr[active] /\ active = Newest(hdr) /\ hdr["db"] = db /\ db \in Header
                  /\ db # NoHeader /\ db.count \in Nat /\ db.epoch \in Nat /\ (~Unset => db.epoch >= Cur.epoch)
         /\ hdr["marker"] \in Header \cup {NoHeader} /\ hdr["kept"] \in Header \cup {NoHeader}
         /\ hdr["marker"].epoch \in Nat /\ hdr["kept"].epoch \in Nat
         /\ Saved => hdr["kept"] # NoHeader /\ hdr["kept"].epoch <= db.epoch /\ hdr["kept"].count \in Nat
         /\ {"A", "B", "marker", "kept", "db"} \subseteq Holder /\ Slot = {"A", "B"}
         /\ Inactive \in Slot /\ Inactive # active
<1>1. /\ Cur \in Header /\ Cur # NoHeader /\ Newest(hdr) \in Slot
      /\ hdr["marker"] \in Header \cup {NoHeader} /\ hdr["kept"] \in Header \cup {NoHeader}
      /\ {"A", "B", "marker", "kept", "db"} \subseteq Holder /\ Slot = {"A", "B"}
      /\ Inactive \in Slot /\ Inactive # active
  BY AdoptedThere, TypeParts, HolderParts DEF TypeInv
<1>2. Cur.epoch \in Nat /\ hdr["marker"].epoch \in Nat /\ hdr["kept"].epoch \in Nat
  BY <1>1, HeaderParts, BlockFileAssumption
<1>3. Up => Cur = hdr[active] /\ active = Newest(hdr) /\ hdr["db"] = db /\ db \in Header
            /\ db # NoHeader /\ db.count \in Nat /\ db.epoch \in Nat /\ (~Unset => db.epoch >= Cur.epoch)
  <2> SUFFICES ASSUME Up PROVE Cur = hdr[active] /\ active = Newest(hdr) /\ hdr["db"] = db /\ db \in Header
            /\ db # NoHeader /\ db.count \in Nat /\ db.epoch \in Nat /\ (~Unset => db.epoch >= Cur.epoch)
    OBVIOUS
  <2>1. active = Newest(hdr) /\ Cur = hdr[active]
    BY DEF Up, SavepointInv, SlotsInv, Cur
  <2>2. ~Unset => db.epoch >= Cur.epoch
    BY <2>1 DEF Up, SavepointInv, WriterInv
  <2>3. /\ db \in Header /\ db # NoHeader /\ hdr["db"] = db /\ db.count \in Nat /\ db.epoch \in Nat
    BY WriterThere, BlockFileAssumption DEF Up
  <2>4. QED BY <2>1, <2>2, <2>3
<1>4. Saved => hdr["kept"] # NoHeader /\ hdr["kept"].epoch <= db.epoch /\ hdr["kept"].count \in Nat
  BY <1>1, HeaderParts DEF SavepointInv, SaveInv
<1>5. QED BY <1>1, <1>2, <1>3, <1>4

(* Copies of the slots leave the newest one where it is.                    *)
LEMMA CurTwin ==
  ASSUME TypeInv, Twin(hdr'["A"], hdr["A"]), Twin(hdr'["B"], hdr["B"])
  PROVE  /\ Newest(hdr') = Newest(hdr) /\ Twin(Cur', Cur)
         /\ hdr'["A"] = hdr["A"] /\ hdr'["B"] = hdr["B"] => Cur' = Cur
<1>1. /\ hdr["A"] \in Header \cup {NoHeader} /\ hdr["B"] \in Header \cup {NoHeader}
  BY HolderParts DEF TypeInv
<1>2. /\ hdr'["A"] = NoHeader <=> hdr["A"] = NoHeader
      /\ hdr'["B"] = NoHeader <=> hdr["B"] = NoHeader
      /\ hdr'["A"].epoch = hdr["A"].epoch /\ hdr'["B"].epoch = hdr["B"].epoch
  BY <1>1, TwinParts
<1>3. Newest(hdr') = Newest(hdr)
  BY <1>2 DEF Newest
<1>4. QED BY <1>3 DEF Cur, Newest

(* A step that leaves the slots alone leaves the published header.          *)
LEMMA CurSame ==
  ASSUME TypeInv, hdr'["A"] = hdr["A"], hdr'["B"] = hdr["B"]
  PROVE  Cur' = Cur
BY DEF Cur, Newest

(* The steps of the readers, and publish_staged.                            *)
LEMMA DiskReaders ==
  ASSUME TypeInv, SavepointInv, DiskInv, (\E r \in Reader : Observe(r) \/ Idle(r)) \/ PublishStaged
  PROVE  DiskInv'
<1>1. /\ UNCHANGED <<free, frozen, retained, save, mode, pc, dirty>>
      /\ \A x \in {"A", "B", "marker", "kept", "db"} : hdr'[x] = hdr[x]
  BY HolderParts DEF TypeInv, Observe, Idle, PublishStaged
<1>2. Cur' = Cur /\ db' = db /\ (CurMatters' <=> CurMatters)
  BY <1>1, CurSame DEF db, CurMatters
<1>3. MarkerSound'
  BY <1>1, <1>2 DEF DiskInv, MarkerSound, Safe, Clear, Up
<1>4. KeptSound' /\ LinkInv'
  BY <1>1, <1>2 DEF DiskInv, KeptSound, LinkInv, Up, Writing, Within, Unset
<1>5. CurInv'
  BY <1>1, <1>2 DEF DiskInv, CurInv, Safe, Clear, Up, Within, Writing
<1>6. QED BY <1>3, <1>4, <1>5 DEF DiskInv

(* hold: the header kept is the published one, or a fold past it.  A        *)
(* transaction begins on the published one.                                 *)
LEMMA DiskHold ==
  ASSUME TypeInv, SavepointInv, MemInv, DiskInv, Allow \subseteq {"explicit"},
         NEW across \in BOOLEAN, NEW settled \in BOOLEAN, Hold(across, settled)
  PROVE  DiskInv'
<1> DEFINE h == IF settled THEN [hdr EXCEPT !["shared"] = db] ELSE hdr
<1>1. /\ mode = "idle" /\ pc = "none" /\ hdr' = [h EXCEPT !["kept"] = db]
      /\ Reclaim(h, retained, free, frozen, FALSE) /\ pending' = pending
      /\ save' = [free |-> free', across |-> across, published |-> FALSE,
                  marked |-> FALSE, began |-> db.epoch]
      /\ mode' = (IF across THEN "txn" ELSE "stmt") /\ pc' = pc /\ dirty' = dirty
      /\ across => db.epoch = hdr[active].epoch
  BY DEF Hold
<1>2. /\ h \in Headers /\ \A x \in {"A", "B", "marker", "db"} : h[x] = hdr[x] /\ x # "kept"
      /\ "kept" \in Holder
  BY <1>1, TypeParts, HolderParts, WriterThere DEF Headers, TypeInv
<1>3. FALSE \in BOOLEAN /\ Up /\ Up'
  BY <1>1 DEF Up
<1>4. Reclaimed(retained, free, frozen, FALSE, Floor(h))
  BY <1>1, <1>2, <1>3, TypeParts, ReclaimEffect DEF Headers
<1> HIDE DEF h
<1>5. /\ hdr'["kept"] = db /\ \A x \in {"A", "B", "marker", "db"} : hdr'[x] = hdr[x]
  BY <1>1, <1>2 DEF Headers
<1>6. Cur' = Cur /\ db' = db /\ hdr["marker"] = NoHeader /\ CurMatters
  BY <1>1, <1>5, CurSame DEF db, SavepointInv, MarkerInv, CurMatters
<1>7. /\ Safe(Cur) /\ Reach(Cur) \cap (Blocks(retained) \cup Range(frozen)) = {} /\ SameLists(db, Cur)
      /\ Cur = hdr[active]
  BY <1>1, <1>3, <1>6, DiskParts DEF DiskInv, CurInv, LinkInv, Writing
<1>8. /\ Range(free') \subseteq Range(free) \cup Blocks(retained) /\ frozen' = frozen
      /\ Blocks(retained') \subseteq Blocks(retained)
  BY <1>4 DEF Reclaimed
<1>9. Reach(Cur) \cap Range(free') = {} /\ Reach(Cur) \subseteq 1..db.count /\ Clear(Cur)'
  BY <1>3, <1>6, <1>7, <1>8 DEF Safe, Clear
<1>10. MarkerSound'
  BY <1>5, <1>6 DEF MarkerSound
<1>11. KeptSound'
  <2>1. ASSUME across PROVE HeaderSound(db) /\ db.epoch = Cur.epoch
    <3>1. db.epoch = Cur.epoch /\ db.roots = Cur.roots
      BY <1>1, <1>3, <1>7, <2>1 DEF SavepointInv, WriterInv
    <3>2. HeaderSound(Cur) /\ Listable /\ Range(db.list) \subseteq 1..db.count
      BY <1>1, <1>3, DiskParts DEF MemInv, SlotsSound, PlacesInv, Cur
    <3>3. Reach(db) = Reach(Cur)
      BY <1>7, <3>1 DEF SameLists, Reach
    <3>4. QED BY <1>7, <3>1, <3>2, <3>3 DEF HeaderSound, SameLists, Listable, Apart
  <2>2. Cur.epoch <= Cur.epoch
    BY DiskParts
  <2>3. save'.marked = FALSE /\ save'.across = across /\ pc' = "none"
    BY <1>1
  <2>4. QED BY <1>1, <1>5, <1>6, <2>1, <2>2, <2>3 DEF KeptSound
<1>12. LinkInv'
  BY <1>1, <1>5, <1>6, <1>7 DEF LinkInv, Unset
<1>13. CurInv'
  <2>1. Safe(Cur)'
    BY <1>1, <1>6, <1>7, <1>9 DEF Safe
  <2>2. Reach(Cur) \cap (Blocks(retained') \cup Range(frozen')) = {}
    BY ONLY <1>7, <1>8
  <2>3. save'.free = free'
    BY <1>1
  <2>4. QED BY <1>1, <1>5, <1>6, <1>9, <2>1, <2>2, <2>3 DEF CurInv
<1>14. QED BY <1>10, <1>11, <1>12, <1>13 DEF DiskInv

(* begin_savepoint: what the savepoint kept is clear of what is free.       *)
LEMMA KeptClear ==
  ASSUME TypeInv, SavepointInv, KeptInv, Within
  PROVE  /\ hdr["kept"].ok /\ Clear(hdr["kept"]) /\ Reach(hdr["kept"]) \cap Range(save.free) = {}
         /\ Reach(hdr["kept"]) \subseteq 1..hdr["kept"].count /\ hdr["kept"].count <= db.count
         /\ Range(free) \subseteq Range(save.free)
<1>1. /\ KeptBack(hdr["kept"]) /\ db.count \in Nat /\ hdr["kept"].count \in Nat
  BY DiskParts DEF KeptInv, Within, Saved, Up
<1>2. 1..hdr["kept"].count \subseteq 1..db.count
  BY <1>1 DEF KeptBack
<1>3. QED BY <1>1, <1>2 DEF KeptBack, Clear

(* keep_savepoint: when the kept header goes to the marker, in a            *)
(* transaction, an open may start from it.                                  *)
LEMMA KeptReady ==
  ASSUME TypeInv, SavepointInv, MemInv, DiskInv, mode = "txn"
  PROVE  LET k == hdr["kept"]
         IN  /\ HeaderSound(k) /\ k.ok /\ Clear(k) /\ k.epoch <= Cur.epoch /\ k # NoHeader
             /\ k.epoch = Cur.epoch => SameLists(k, Cur)
             /\ Reach(k) \cap Range(save.free) = {} /\ Range(free) \subseteq Range(save.free)
<1>1. Within /\ Saved
  BY DEF Within, Saved
<1>2. HeaderSound(hdr["kept"]) /\ hdr["kept"].epoch <= Cur.epoch
  BY DEF DiskInv, KeptSound
<1>3. hdr["kept"].epoch = Cur.epoch => SameLists(hdr["kept"], Cur)
  BY <1>1, DiskParts DEF DiskInv, LinkInv
<1>4. QED BY <1>1, <1>2, <1>3, KeptClear, DiskParts DEF MemInv

(* keep_savepoint: a statement's own commit needs no marker, having         *)
(* published nothing before.                                                *)
LEMMA NotDue ==
  ASSUME DiskInv, mode = "stmt", pc = "chain" \/ (pc = "none" /\ ~save.published)
  PROVE  ~KeepDue
BY DEF DiskInv, KeptSound, KeepDue

(* keep_savepoint: the header put in the marker is one an open may start    *)
(* from, and nothing else on disk moves.                                    *)
LEMMA DiskKeep ==
  ASSUME TypeInv, SavepointInv, MemInv, DiskInv, Allow \subseteq {"explicit"}, KeepSavepoint
  PROVE  DiskInv'
<1>1. /\ mode \in {"stmt", "txn"} /\ pc = "none" /\ mode' = mode /\ pc' = "kept"
      /\ hdr' = Kept(hdr) /\ save' = Marked /\ (KeepDue => dirty' = {}) /\ (~KeepDue => dirty' = dirty)
      /\ UNCHANGED <<free, pending, frozen, retained>>
      /\ mode = "stmt" => ~save.published
  BY DEF KeepSavepoint, InSavepoint
<1>2. mode = "stmt" => ~KeepDue
  BY <1>1, NotDue
<1>3. /\ \A x \in {"A", "B", "kept", "db"} : hdr'[x] = hdr[x]
      /\ hdr'["marker"] = (IF KeepDue THEN hdr["kept"] ELSE hdr["marker"])
      /\ save'.free = save.free /\ save'.across = save.across /\ save'.published = save.published
      /\ save'.marked = (IF KeepDue THEN TRUE ELSE save.marked)
  BY <1>1, KeptTypes, DiskParts
<1>4. Cur' = Cur /\ db' = db
  BY <1>3, CurSame DEF db
<1>5. Up /\ Up' /\ CurMatters /\ CurMatters' /\ Within /\ Within' /\ ~Writing /\ ~Writing' /\ ~Unset'
  BY <1>1 DEF Up, CurMatters, Within, Writing, Unset
<1>6. dirty' = dirty \/ dirty' = {}
  BY <1>1
<1>7. MarkerSound'
  <2>1. CASE KeepDue
    <3>1. mode = "txn"
      BY <1>1, <1>2, <2>1
    <3>2. Safe(hdr["marker"])'
      BY <1>1, <1>3, <1>4, <2>1, <3>1, KeptReady DEF Safe, Clear
    <3>3. QED BY <1>3, <1>4, <2>1, <3>1, <3>2, KeptReady DEF MarkerSound
  <2>2. CASE ~KeepDue
    BY <1>1, <1>3, <1>4, <1>5, <2>2 DEF DiskInv, MarkerSound, Safe, Clear
  <2>3. QED BY <2>1, <2>2
<1>8. KeptSound'
  <2>1. CASE KeepDue
    <3>1. mode = "txn"
      BY <1>1, <1>2, <2>1
    <3>2. Twin(hdr["kept"], hdr["kept"])
      BY HeaderParts, DiskParts
    <3>3. QED BY <1>1, <1>3, <1>4, <2>1, <3>1, <3>2 DEF DiskInv, KeptSound
  <2>2. CASE ~KeepDue
    BY <1>1, <1>3, <1>4, <2>2 DEF DiskInv, KeptSound
  <2>3. QED BY <2>1, <2>2
<1>9. LinkInv'
  BY <1>1, <1>3, <1>4, <1>5 DEF DiskInv, LinkInv
<1>10. CurInv'
  <2>1. Safe(Cur)'
    BY <1>1, <1>4, <1>5, <1>6 DEF DiskInv, CurInv, Safe, Clear
  <2>2. QED BY <1>1, <1>3, <1>4, <1>5, <2>1 DEF DiskInv, CurInv
<1>11. QED BY <1>7, <1>8, <1>9, <1>10 DEF DiskInv

(* stage_deferred, and the sync of a checkpoint.                            *)
LEMMA DiskDeferred ==
  ASSUME TypeInv, SavepointInv, DiskInv, StageDeferred \/ CheckpointSync
  PROVE  DiskInv'
<1>1. /\ UNCHANGED <<hdr, free, frozen, retained, mode>>
      /\ save'.free = save.free /\ save'.across = save.across /\ save'.marked = save.marked
      /\ dirty' = dirty \/ dirty' = {}
      /\ \/ mode \in {"stmt", "txn"} /\ pc = "kept" /\ pc' = "none"
         \/ pc = "sync" /\ pc' = "flip" /\ dirty' = {}
  <2>1. CASE StageDeferred
    <3>1. /\ pc = "kept" /\ pc' = "none" /\ save' = [save EXCEPT !.published = TRUE]
          /\ UNCHANGED <<hdr, free, frozen, retained, mode, dirty>>
      BY <2>1 DEF StageDeferred
    <3>2. save'.free = save.free /\ save'.across = save.across /\ save'.marked = save.marked
      BY <3>1 DEF SavepointInv, SaveRecord
    <3>3. QED BY <3>1, <3>2 DEF SavepointInv, ControlInv
  <2>2. CASE CheckpointSync
    BY <2>2 DEF CheckpointSync
  <2>3. QED BY <2>1, <2>2
<1>2. /\ Cur' = Cur /\ db' = db /\ (Up' <=> Up) /\ (Within' <=> Within) /\ ~Unset'
      /\ (CurMatters' => CurMatters) /\ (Writing' => Writing) /\ (Writing => Writing')
  BY <1>1 DEF Cur, db, Up, Within, Unset, CurMatters, Writing
<1>3. MarkerSound'
  BY <1>1, <1>2 DEF DiskInv, MarkerSound, Safe, Clear
<1>4. KeptSound'
  BY <1>1, <1>2 DEF DiskInv, KeptSound
<1>5. LinkInv'
  BY <1>1, <1>2 DEF DiskInv, LinkInv, Writing
<1>6. CurInv'
  <2>1. CurMatters' => Safe(Cur)' /\ (~Writing' => Reach(Cur) \cap (Blocks(retained') \cup Range(frozen')) = {})
    BY <1>1, <1>2 DEF DiskInv, CurInv, Safe, Clear
  <2>2. mode # "down"
    BY <1>1 DEF SavepointInv, ControlInv
  <2>3. QED BY <1>1, <1>2, <2>1, <2>2 DEF DiskInv, CurInv
<1>7. QED BY <1>3, <1>4, <1>5, <1>6 DEF DiskInv

(* A fold writes into no block the published header, the marker or the kept *)
(* header reaches.                                                          *)
LEMMA DiskFold ==
  ASSUME TypeInv, SavepointInv, MemInv, DiskInv, Allow \subseteq {"explicit"},
         NEW F \in Freed, mode # "down", StagedFold(F) \/ CheckpointFold(F) \/ FoldFails(F)
  PROVE  DiskInv'
<1>1. PICK ptr \in BlockNo : Took(ptr, F)
  BY FoldEffect
<1>2. /\ mode \in {"idle", "stmt", "txn"} /\ pc \in {"none", "kept"} /\ pc' \in {"none", "chain"}
      /\ mode' = mode \/ (mode = "stmt" /\ mode' = "raised" /\ pc' = "none")
      /\ (mode' = "stmt" /\ pc' = "chain" /\ pc = "none") => ~save.published
      /\ pc' = "chain" => save' = save
  <2>1. CASE StagedFold(F)
    BY <2>1 DEF StagedFold, SavepointInv, ControlInv
  <2>2. CASE CheckpointFold(F)
    BY <2>2 DEF CheckpointFold
  <2>3. CASE FoldFails(F)
    BY <2>3 DEF FoldFails
  <2>4. QED BY <2>1, <2>2, <2>3
<1>3. /\ UNCHANGED <<frozen, retained>> /\ dirty' = dirty \cup {ptr}
      /\ save'.free = save.free /\ save'.across = save.across /\ save'.marked = save.marked
  BY <1>1 DEF Took, SavepointInv, SaveRecord
<1>4. /\ Up /\ Up' /\ CurMatters /\ CurMatters' /\ ~Writing /\ ~Writing' /\ ~Unset'
      /\ (Within' <=> Within)
  BY <1>2 DEF Up, CurMatters, Writing, Unset, Within
<1>5. db'.list = db.list /\ db'.chain = db.chain /\ db.count \in Nat
  BY <1>1, <1>4, DiskParts DEF Took, db
<1>6. Safe(Cur) /\ Reach(Cur) \cap (Blocks(retained) \cup Range(frozen)) = {}
  BY <1>4 DEF DiskInv, CurInv
<1>7. /\ hdr'[Newest(hdr)] = hdr[Newest(hdr)] /\ Clear(hdr[Newest(hdr)])' /\ ptr \notin Reach(Cur)
  <2>1. Newest(hdr) \in Holder \ {"db"} /\ Clear(hdr[Newest(hdr)]) /\ hdr[Newest(hdr)] # NoHeader
    BY <1>4, <1>6, DiskParts DEF Safe, Cur
  <2>2. /\ hdr'[Newest(hdr)] = hdr[Newest(hdr)] /\ ptr \notin Reach(hdr[Newest(hdr)])
        /\ Reach(hdr[Newest(hdr)]) \cap Range(free') = {} /\ Reach(hdr[Newest(hdr)]) \subseteq 1..db'.count
    <3>1. /\ hdr'[Newest(hdr)] = hdr[Newest(hdr)] /\ ptr \notin Reach(hdr[Newest(hdr)])
      BY <1>1, <1>5, <2>1, FoldSpares
    <3>2. /\ Range(free') \subseteq Range(free) /\ (db'.count = db.count \/ db'.count = db.count + 1)
      BY <1>1 DEF Took, db
    <3>3. QED BY <1>5, <2>1, <3>1, <3>2 DEF Clear
  <2>3. Newest(hdr') = Newest(hdr)
    <3>1. /\ {"A", "B"} \subseteq Holder \ {"db"} /\ hdr["A"] \in Header \cup {NoHeader}
          /\ hdr["B"] \in Header \cup {NoHeader}
      BY HolderParts, DiskParts DEF TypeInv
    <3>2. Twin(hdr'["A"], hdr["A"]) /\ Twin(hdr'["B"], hdr["B"])
      BY <1>1, <3>1, OverwrittenTwin DEF Took
    <3>3. QED BY <3>2, CurTwin
  <2>4. QED BY <2>2, <2>3 DEF Clear, Cur
<1>8. Cur' = Cur
  <2>1. /\ {"A", "B"} \subseteq Holder \ {"db"} /\ hdr["A"] \in Header \cup {NoHeader}
        /\ hdr["B"] \in Header \cup {NoHeader}
    BY HolderParts, DiskParts DEF TypeInv
  <2>2. Twin(hdr'["A"], hdr["A"]) /\ Twin(hdr'["B"], hdr["B"])
    BY <1>1, <2>1, OverwrittenTwin DEF Took
  <2>3. Newest(hdr') = Newest(hdr)
    BY <2>2, CurTwin
  <2>4. QED BY <1>7, <2>3 DEF Cur
<1>9. Safe(Cur)'
  <2>1. Reach(Cur) \cap Range(free') = {} /\ Reach(Cur) \subseteq 1..db'.count
    <3>1. /\ Range(free') \subseteq Range(free) /\ (db'.count = db.count \/ db'.count = db.count + 1)
      BY <1>1 DEF Took, db
    <3>2. Reach(Cur) \cap Range(free) = {} /\ Reach(Cur) \subseteq 1..db.count
      BY <1>4, <1>6 DEF Safe, Clear
    <3>3. QED BY <1>5, <3>1, <3>2
  <2>2. Cur.ok /\ Reach(Cur) \cap dirty' = {}
    BY <1>3, <1>6, <1>7 DEF Safe
  <2>3. QED BY <1>8, <2>1, <2>2 DEF Safe, Clear
<1>10. /\ hdr'["marker"] = hdr["marker"]
       /\ hdr["marker"] # NoHeader => Safe(hdr["marker"])'
  <2>1. hdr["marker"] # NoHeader => Safe(hdr["marker"])
    BY DEF DiskInv, MarkerSound
  <2>2. "marker" \in Holder \ {"db"} /\ (hdr["marker"] = NoHeader \/ Clear(hdr["marker"]))
    BY <1>4, <2>1, DiskParts DEF Safe
  <2>3. /\ hdr'["marker"] = hdr["marker"]
        /\ hdr["marker"] # NoHeader => Clear(hdr["marker"])' /\ ptr \notin Reach(hdr["marker"])
    BY <1>1, <1>5, <2>2, FoldSpares
  <2>4. QED BY <1>3, <2>1, <2>3 DEF Safe
<1>11. Within => hdr'["kept"] = hdr["kept"]
  BY <1>1, <1>5, KeptClear, DiskParts, FoldSpares DEF MemInv
<1>12. MarkerSound'
  BY <1>8, <1>10 DEF DiskInv, MarkerSound
<1>13. KeptSound'
  <2>1. mode' = "txn" => mode = "txn" /\ Within
    BY <1>2 DEF Within
  <2>2. mode' = "stmt" /\ pc' = "chain" => ~save'.published
    BY <1>2 DEF DiskInv, KeptSound
  <2>3. mode' \in {"stmt", "raised"} => mode \in {"stmt", "raised"} /\ (mode' = "stmt" => mode = "stmt")
    BY <1>2
  <2>4. mode' = "stmt" => pc' # "kept"
    BY <1>2
  <2>5. QED BY <1>3, <1>8, <1>10, <1>11, <2>1, <2>2, <2>3, <2>4 DEF DiskInv, KeptSound
<1>14. LinkInv'
  BY <1>2, <1>4, <1>5, <1>8, <1>11 DEF DiskInv, LinkInv, SameLists
<1>15. CurInv'
  BY <1>2, <1>3, <1>4, <1>6, <1>8, <1>9, <1>11 DEF DiskInv, CurInv
<1>16. QED BY <1>12, <1>13, <1>14, <1>15 DEF DiskInv

(* checkpoint: the chain is written into no block that the published        *)
(* header, the marker or the kept header reaches, and what becomes free is  *)
(* clear of them.                                                           *)
LEMMA DiskChain ==
  ASSUME TypeInv, SavepointInv, MemInv, DiskInv, Allow \subseteq {"explicit"}, CheckpointChain
  PROVE  DiskInv'
<1>1. PICK w : Lists(w) /\ Relists(w)
  BY Zenon, ChainEffect
<1>2. /\ pc = "chain" /\ pc' = "sync" /\ mode' = mode /\ mode \notin {"down", "raised"}
      /\ Up /\ Up' /\ Writing' /\ ~Writing /\ (Within' <=> Within) /\ ~Unset'
      /\ dirty' = (IF KeepDue THEN {} ELSE dirty) \cup Range(w.chain)
      /\ save'.free = save.free /\ save'.across = save.across
      /\ save'.marked = (IF KeepDue THEN TRUE ELSE save.marked)
  BY <1>1 DEF Relists, CheckpointChain, SavepointInv, ControlInv, Up, Writing, Within, Unset
<1>3. db.count \in Nat /\ Newest(hdr) \in Slot /\ Cur # NoHeader /\ Slot = {"A", "B"}
  BY <1>2, DiskParts
<1>4. KeepDue => mode = "txn"
  <2>1. KeepDue => mode \in {"stmt", "txn"}
    BY DEF KeepDue, InSavepoint
  <2>2. QED BY <1>2, <2>1, NotDue
<1>5. /\ \A x \in {"A", "B", "kept"} : Kept(hdr)[x] = hdr[x] /\ x \in Holder \ {"db"}
      /\ Kept(hdr)["marker"] = (IF KeepDue THEN hdr["kept"] ELSE hdr["marker"])
      /\ "marker" \in Holder \ {"db"}
  BY KeptTypes, DiskParts
<1>6. \A x \in {"A", "B"} : Twin(hdr'[x], hdr[x])
  <2>1. \A x \in {"A", "B"} : hdr[x] \in Header \cup {NoHeader} /\ hdr'[x] = Overwritten(hdr[x], Range(w.chain))
    BY <1>1, <1>5, HolderParts DEF TypeInv, Relists
  <2>2. QED BY <2>1, OverwrittenTwin
<1>7. Newest(hdr') = Newest(hdr) /\ Twin(Cur', Cur)
  BY <1>6, CurTwin
<1>8. /\ Cur'.epoch = Cur.epoch /\ Cur'.list = Cur.list /\ Cur'.chain = Cur.chain /\ Reach(Cur') = Reach(Cur)
  BY <1>7, TwinParts, DiskParts
<1>9. CurMatters' => CurMatters
  <2>1. ASSUME ~KeepDue PROVE Twin(hdr'["marker"], hdr["marker"])
    BY <1>1, <1>5, <2>1, OverwrittenTwin, DiskParts DEF Relists
  <2>2. CASE KeepDue
    BY <1>4, <2>2 DEF CurMatters
  <2>3. CASE ~KeepDue
    <3>1. hdr["marker"] = NoHeader <=> hdr'["marker"] = NoHeader
      BY <2>1, <2>3, TwinParts, DiskParts
    <3>2. hdr'["marker"].epoch = hdr["marker"].epoch
      BY <2>1, <2>3, TwinParts, DiskParts
    <3>3. QED BY <1>2, <1>8, <3>1, <3>2 DEF CurMatters
  <2>4. QED BY <2>2, <2>3
<1>10. ASSUME CurMatters PROVE Cur' = Cur /\ Safe(Cur)'
  <2>1. Safe(Cur) /\ Clear(Cur) /\ Reach(Cur) \cap Range(frozen) = {}
    BY <1>2, <1>10 DEF DiskInv, CurInv, Safe
  <2>2. Newest(hdr) \in Holder \ {"db"} /\ Kept(hdr)[Newest(hdr)] = Cur
    BY <1>3, <1>5 DEF Cur
  <2>3. /\ hdr'[Newest(hdr)] = Cur /\ Reach(Cur) \cap Range(w.chain) = {}
        /\ Reach(Cur) \subseteq 1..db'.count /\ Reach(Cur) \cap Range(free') = {}
    <3>1. PICK x \in Holder \ {"db"} : x = Newest(hdr) /\ Kept(hdr)[x] = Cur
      BY <2>2
    <3>2. hdr'[x] = Cur
      BY <1>1, <1>3, <2>1, <3>1, ChainSpares
    <3>3. Reach(hdr'[x]) \cap Range(frozen) = {}
      BY <2>1, <3>2
    <3>4. Clear(hdr[x])' /\ Reach(Cur) \cap Range(w.chain) = {}
      BY <1>1, <1>3, <2>1, <3>1, <3>2, <3>3, ChainSpares
    <3>5. QED BY <3>1, <3>2, <3>4 DEF Clear
  <2>4. Cur' = Cur /\ Clear(Cur)'
    <3>1. Cur' = hdr'[Newest(hdr)]
      BY <1>7 DEF Cur
    <3>2. Cur' = Cur
      BY <2>3, <3>1
    <3>3. QED BY <2>3, <3>2 DEF Clear
  <2>5. Reach(Cur) \cap dirty' = {}
    BY <1>2, <2>1, <2>3 DEF Safe
  <2>6. QED BY <2>1, <2>4, <2>5 DEF Safe
<1>11. Within => hdr'["kept"] = hdr["kept"]
  BY <1>1, <1>3, <1>5, KeptClear, ChainSpares DEF MemInv
<1>12. ASSUME hdr'["marker"] # NoHeader
       PROVE  /\ hdr'["marker"] = (IF KeepDue THEN hdr["kept"] ELSE hdr["marker"])
              /\ Safe(hdr["marker"])' /\ HeaderSound(hdr'["marker"]) /\ hdr'["marker"].epoch <= Cur.epoch
              /\ hdr'["marker"].epoch = Cur.epoch => SameLists(hdr'["marker"], Cur)
  <2> DEFINE m == IF KeepDue THEN hdr["kept"] ELSE hdr["marker"]
  <2>1. m \in Header \cup {NoHeader} /\ hdr'["marker"] = Overwritten(m, Range(w.chain)) /\ m = Kept(hdr)["marker"]
    BY <1>1, <1>5, DiskParts DEF Relists
  <2>2. m # NoHeader
    BY <1>12, <2>1 DEF Overwritten
  <2>3. /\ m.ok /\ Clear(m) /\ HeaderSound(m) /\ m.epoch <= Cur.epoch
        /\ m.epoch = Cur.epoch => SameLists(m, Cur)
        /\ Reach(m) \cap (IF KeepDue THEN {} ELSE dirty) = {}
    <3>1. CASE KeepDue
      BY <1>4, <3>1, KeptReady
    <3>2. CASE ~KeepDue
      BY <1>2, <2>2, <3>2 DEF DiskInv, MarkerSound, Safe
    <3>3. QED BY <3>1, <3>2
  <2>4. Reach(m) \cap Range(frozen) = {} \/ (InSavepoint /\ Reach(m) \cap Range(save.free) = {})
    <3>1. CASE mode = "txn"
      <4>1. Reach(hdr["kept"]) \cap Range(save.free) = {} /\ InSavepoint
        BY <3>1, KeptReady DEF InSavepoint
      <4>2. CASE KeepDue
        BY <4>1, <4>2
      <4>3. CASE ~KeepDue
        <5>1. hdr["marker"] # NoHeader /\ save.marked
          BY <2>2, <3>1, <4>3 DEF SavepointInv, SaveInv, Saved
        <5>2. Twin(hdr["marker"], hdr["kept"]) /\ hdr["kept"] # NoHeader
          BY <3>1, <5>1, KeptReady DEF DiskInv, KeptSound
        <5>3. Reach(hdr["marker"]) = Reach(hdr["kept"])
          BY <5>2, TwinParts, DiskParts
        <5>4. QED BY <4>1, <4>3, <5>3
      <4>4. QED BY <4>2, <4>3
    <3>2. CASE mode # "txn"
      <4>1. frozen = <<>>
        BY <3>2 DEF MemInv, PlacesInv
      <4>2. QED BY <4>1, NothingListed
    <3>3. QED BY <3>1, <3>2
  <2> HIDE DEF m
  <2>5. hdr'["marker"] = m /\ Reach(m) \cap Range(w.chain) = {}
    BY <1>1, <1>3, <1>5, <2>1, <2>2, <2>3, ChainSpares
  <2>6. Clear(hdr["marker"])'
    BY <1>1, <1>3, <1>5, <2>1, <2>2, <2>3, <2>4, <2>5, ChainSpares
  <2>7. Safe(hdr["marker"])'
    BY <1>2, <2>3, <2>5, <2>6 DEF Safe
  <2>8. QED BY <2>3, <2>5, <2>7 DEF m
<1>13. MarkerSound'
  BY <1>8, <1>12 DEF MarkerSound, SameLists
<1>14. KeptSound'
  <2>1. ASSUME mode = "txn"
        PROVE  /\ HeaderSound(hdr'["kept"]) /\ hdr'["kept"].epoch <= Cur'.epoch
               /\ save'.marked => Twin(hdr'["marker"], hdr'["kept"])
    <3>1. HeaderSound(hdr["kept"]) /\ hdr["kept"].epoch <= Cur.epoch /\ hdr'["kept"] = hdr["kept"]
          /\ hdr["kept"] # NoHeader /\ Clear(hdr["kept"])
      BY <1>11, <2>1, KeptReady DEF Within
    <3>2. ASSUME save'.marked PROVE Twin(hdr'["marker"], hdr["kept"])
      <4>1. CASE KeepDue
        <5>1. hdr'["marker"] = hdr["kept"]
          BY <1>1, <1>3, <1>5, <3>1, <4>1, ChainSpares
        <5>2. QED BY <5>1, HeaderParts, DiskParts
      <4>2. CASE ~KeepDue
        <5>1. Twin(hdr["marker"], hdr["kept"])
          BY <1>2, <2>1, <3>2, <4>2 DEF DiskInv, KeptSound
        <5>2. hdr["marker"] # NoHeader
          BY <3>1, <5>1 DEF Twin
        <5>3. Clear(hdr["marker"])
          BY <1>2, <5>2 DEF DiskInv, MarkerSound, Safe
        <5>4. hdr'["marker"] = hdr["marker"]
          BY <1>1, <1>3, <1>5, <4>2, <5>3, ChainSpares
        <5>5. QED BY <5>1, <5>4
      <4>3. QED BY <4>1, <4>2
    <3>3. QED BY <1>8, <3>1, <3>2
  <2>2. mode \in {"stmt", "raised"} => ~save'.marked
    BY <1>2, <1>4 DEF DiskInv, KeptSound
  <2>3. mode = "stmt" => ~save'.across
    BY <1>2 DEF DiskInv, KeptSound
  <2>4. QED BY <1>2, <2>1, <2>2, <2>3 DEF KeptSound
<1>15. LinkInv'
  BY <1>2, <1>8, <1>11 DEF DiskInv, LinkInv, SameLists
<1>16. CurInv'
  <2>1. Within /\ Cur'.epoch <= hdr'["kept"].epoch =>
          Reach(Cur') \cap Range(save'.free) = {} /\ Reach(Cur') \subseteq 1..hdr'["kept"].count
    BY <1>2, <1>8, <1>11 DEF DiskInv, CurInv
  <2>2. QED BY <1>2, <1>9, <1>10, <2>1 DEF CurInv
<1>17. QED BY <1>13, <1>14, <1>15, <1>16 DEF DiskInv

(* checkpoint: the header a flip publishes is the writer's, whole and clear *)
(* of what is free, waits or is frozen; the marker is behind it.            *)
LEMMA DiskFlip ==
  ASSUME TypeInv, SavepointInv, SavepointInv', MemInv, DiskInv, CheckpointFlip
  PROVE  DiskInv'
<1>1. /\ pc = "flip" /\ mode \notin {"down", "raised"} /\ mode' = mode /\ Up /\ Up' /\ ~Writing' /\ ~Unset
      /\ pc' = (IF mode \in {"undo", "recover"} THEN "forget" ELSE "none") /\ ~Unset'
      /\ (Within' <=> Within)
      /\ hdr' = [hdr EXCEPT ![Inactive] = Flipped, !["db"] = Flipped] /\ active' = Inactive
      /\ UNCHANGED <<free, pending, frozen, retained, save, dirty>>
  BY DEF CheckpointFlip, SavepointInv, ControlInv, Up, Writing, Unset, Within
<1>2. /\ db \in Header /\ db.epoch \in Nat /\ db.epoch >= Cur.epoch /\ Cur.epoch \in Nat
      /\ hdr["marker"].epoch \in Nat /\ hdr["kept"].epoch \in Nat
      /\ Saved => hdr["kept"].epoch <= db.epoch
  BY <1>1, DiskParts
<1>3. /\ hdr'["marker"] = hdr["marker"] /\ hdr'["kept"] = hdr["kept"] /\ db' = Flipped
      /\ hdr'[Inactive] = Flipped
  BY <1>1, HolderParts, DiskParts DEF TypeInv, db
<1>4. Cur' = Flipped
  <2>1. active' = Newest(hdr')
    BY <1>1 DEF SavepointInv, SlotsInv
  <2>2. QED BY <1>1, <1>3, <2>1 DEF Cur
<1>5. SameButEpoch(Flipped, db) /\ Flipped.epoch = db.epoch + 1
  BY <1>2, HeaderFields DEF Flipped, SameButEpoch, Header
<1>6. Reach(Flipped) = Reach(db) /\ Flipped.count = db.count /\ Flipped.ok = db.ok
  BY <1>5, SameReach DEF SameButEpoch
<1>7. /\ Reach(db) \cap (Range(free) \cup Blocks(retained) \cup Range(frozen)) = {} /\ Reach(db) \subseteq 1..db.count
      /\ db.ok
  <2>1. Listable /\ db.ok
    BY <1>1 DEF MemInv, PlacesInv
  <2>2. QED BY <2>1 DEF Listable, Apart, Reach
<1>8. MarkerSound'
  <2>1. hdr["marker"] # NoHeader => Safe(hdr["marker"]) /\ HeaderSound(hdr["marker"]) /\ hdr["marker"].epoch <= Cur.epoch
    BY DEF DiskInv, MarkerSound
  <2>2. hdr["marker"] # NoHeader => Safe(hdr["marker"])'
    BY <1>1, <1>3, <1>6, <2>1 DEF Safe, Clear
  <2>3. QED BY <1>2, <1>3, <1>4, <1>5, <2>1, <2>2 DEF MarkerSound
<1>9. KeptSound'
  BY <1>1, <1>2, <1>3, <1>4, <1>5 DEF DiskInv, KeptSound
<1>10. LinkInv'
  <2>1. Within => Cur'.epoch > hdr["kept"].epoch
    BY <1>2, <1>4, <1>5 DEF Within, Saved
  <2>2. SameLists(db', Cur')
    BY <1>3, <1>4 DEF SameLists
  <2>3. QED BY <1>1, <1>2, <1>3, <1>4, <1>5, <2>1, <2>2 DEF LinkInv
<1>11. CurInv'
  <2>1. Within => Cur'.epoch > hdr["kept"].epoch
    BY <1>2, <1>4, <1>5 DEF Within, Saved
  <2>2. dirty' = {}
    BY <1>1 DEF DiskInv, CurInv
  <2>3. Safe(Cur)'
    BY <1>1, <1>3, <1>4, <1>6, <1>7, <2>2 DEF Safe, Clear
  <2>4. Reach(Cur') \cap (Blocks(retained') \cup Range(frozen')) = {}
    BY <1>1, <1>4, <1>6, <1>7
  <2>5. QED BY <1>1, <1>2, <1>3, <1>4, <1>5, <2>1, <2>3, <2>4 DEF CurInv
<1>12. QED BY <1>8, <1>9, <1>10, <1>11 DEF DiskInv

(* settle and undo: what a reclaim outside a savepoint frees was waiting or *)
(* frozen, and the slots and the writer stay.                               *)
LEMMA SettledMoves ==
  ASSUME TypeInv, SavepointInv, SettleKeeps \/ UndoDone \/ Commit
  PROVE  /\ \A x \in {"A", "B", "db"} : hdr'[x] = hdr[x]
         /\ Range(free') \subseteq Range(free) \cup Blocks(retained) \cup Range(frozen)
         /\ Blocks(retained') \subseteq Blocks(retained) \cup Range(frozen)
         /\ frozen' \in {frozen, <<>>} /\ dirty' = dirty /\ mode' = "idle" /\ pc' = "none"
         /\ (mode \in {"stmt", "txn"} /\ pc = "none") \/ (mode = "undo" /\ pc = "forget")
<1>1. /\ {"A", "B", "db"} \subseteq Holder \ {"kept", "marker", "staged", "shared"}
      /\ {"kept", "marker", "staged", "shared"} \subseteq Holder
  BY HolderParts DEF TypeInv
<1>2. mode # "down" => Unmarked(hdr) \in Headers /\ \A x \in {"A", "B", "db"} : Unmarked(hdr)[x] = hdr[x]
  BY <1>1, UnmarkedTypes
<1>3. FALSE \in BOOLEAN /\ <<>> \in Seq(BlockNo) /\ Range(<<>>) = {}
  BY NothingListed
<1>4. CASE SettleKeeps
  <2> DEFINE h == [Unmarked(hdr) EXCEPT !["staged"] = db]
  <2>1. hdr' = h /\ Reclaim(h, Released(retained), free, <<>>, FALSE) /\ InSavepoint
        /\ mode = "stmt" /\ pc = "none" /\ pc' = pc /\ mode' = "idle" /\ dirty' = dirty
    BY <1>4 DEF SettleKeeps, InSavepoint
  <2>2. h \in Headers /\ \A x \in {"A", "B", "db"} : h[x] = hdr[x]
    BY <1>1, <1>2, <2>1, TypeParts DEF Headers
  <2> HIDE DEF h
  <2>3. Released(retained) \in Seq(Wait) /\ Blocks(Released(retained)) = Blocks(retained) \cup Range(frozen)
    BY <2>1, ReleasedTypes
  <2>4. Reclaimed(Released(retained), free, <<>>, FALSE, Floor(h))
    BY <1>3, <2>1, <2>2, <2>3, TypeParts, ReclaimEffect DEF Headers
  <2>5. /\ Range(free') = Range(free) \cup LetGo(Released(retained), Floor(h)) /\ frozen' = <<>>
        /\ Blocks(retained') \cup LetGo(Released(retained), Floor(h)) = Blocks(Released(retained))
    BY <2>4 DEF Reclaimed
  <2>6. \A x \in {"A", "B", "db"} : hdr'[x] = hdr[x]
    BY <2>1, <2>2
  <2>7. Range(free') \subseteq Range(free) \cup Blocks(retained) \cup Range(frozen)
    BY <2>3, <2>5
  <2>8. QED BY <2>1, <2>3, <2>5, <2>6, <2>7
<1>5. CASE UndoDone
  <2> DEFINE h == [Unmarked(hdr) EXCEPT !["shared"] = db, !["staged"] = NoHeader]
  <2>1. hdr' = h /\ Reclaim(h, retained, free, frozen, FALSE)
        /\ mode = "undo" /\ pc = "forget" /\ pc' = "none" /\ mode' = "idle" /\ dirty' = dirty
    BY <1>5 DEF UndoDone
  <2>2. h \in Headers /\ \A x \in {"A", "B", "db"} : h[x] = hdr[x]
    BY <1>1, <1>2, <2>1, TypeParts DEF Headers
  <2> HIDE DEF h
  <2>3. Reclaimed(retained, free, frozen, FALSE, Floor(h))
    BY <1>3, <2>1, <2>2, TypeParts, ReclaimEffect DEF Headers
  <2>4. /\ Range(free') = Range(free) \cup LetGo(retained, Floor(h)) /\ frozen' = frozen
        /\ Blocks(retained') \cup LetGo(retained, Floor(h)) = Blocks(retained)
    BY <2>3 DEF Reclaimed
  <2>5. QED BY <2>1, <2>2, <2>4
<1>6. CASE Commit
  <2>1. /\ hdr' = Unmarked(hdr) /\ mode = "txn" /\ pc = "none" /\ pc' = pc /\ mode' = "idle" /\ dirty' = dirty
        /\ free' = free /\ retained' = Released(retained) /\ frozen' = <<>> /\ InSavepoint
    BY <1>6 DEF Commit, InSavepoint
  <2>2. Blocks(retained') \subseteq Blocks(retained) \cup Range(frozen)
    BY <2>1, ReleasedTypes
  <2>3. \A x \in {"A", "B", "db"} : hdr'[x] = hdr[x]
    BY <1>2, <2>1
  <2>4. QED BY <2>1, <2>2, <2>3
<1>7. QED BY <1>4, <1>5, <1>6

(* settle, undo and COMMIT: the published header is clear of what becomes   *)
(* free.                                                                    *)
LEMMA DiskSettle ==
  ASSUME TypeInv, SavepointInv, SavepointInv', MemInv, DiskInv, SettleKeeps \/ UndoDone \/ Commit
  PROVE  DiskInv'
<1>1. /\ \A x \in {"A", "B", "db"} : hdr'[x] = hdr[x]
      /\ Range(free') \subseteq Range(free) \cup Blocks(retained) \cup Range(frozen)
      /\ Blocks(retained') \subseteq Blocks(retained) \cup Range(frozen)
      /\ frozen' \in {frozen, <<>>} /\ dirty' = dirty /\ mode' = "idle" /\ pc' = "none"
      /\ (mode \in {"stmt", "txn"} /\ pc = "none") \/ (mode = "undo" /\ pc = "forget")
  BY SettledMoves
<1>2. Cur' = Cur /\ db' = db /\ hdr'["marker"] = NoHeader
  BY <1>1, CurSame DEF db, SavepointInv, MarkerInv
<1>3. Up /\ Up' /\ CurMatters /\ ~Writing /\ ~Within' /\ ~Unset'
  BY <1>1 DEF Up, CurMatters, Writing, Within, Unset
<1>4. Safe(Cur) /\ Reach(Cur) \cap (Blocks(retained) \cup Range(frozen)) = {} /\ SameLists(db, Cur)
  BY <1>1, <1>3 DEF DiskInv, CurInv, LinkInv
<1>5. Range(frozen') \subseteq Range(frozen)
  BY <1>1, NothingListed
<1>6. Reach(Cur) \cap (Blocks(retained') \cup Range(frozen')) = {} /\ Reach(Cur) \cap Range(free') = {}
  BY <1>1, <1>3, <1>4, <1>5 DEF Safe, Clear
<1>7. Safe(Cur)'
  BY <1>1, <1>2, <1>3, <1>4, <1>6 DEF Safe, Clear
<1>8. MarkerSound' /\ KeptSound'
  BY <1>1, <1>2 DEF MarkerSound, KeptSound
<1>9. LinkInv' /\ CurInv'
  BY <1>1, <1>2, <1>3, <1>4, <1>6, <1>7 DEF LinkInv, CurInv
<1>10. QED BY <1>8, <1>9 DEF DiskInv

(* settle of a statement inside a transaction: what the savepoint may write *)
(* into again was free when it began, and the kept header is clear of it.   *)
LEMMA DiskInside ==
  ASSUME TypeInv, SavepointInv, MemInv, DiskInv, SettleInside
  PROVE  DiskInv'
<1> DEFINE h == [hdr EXCEPT !["staged"] = db]
<1>1. /\ mode = "txn" /\ mode' = mode /\ pc = "none" /\ pc' = pc /\ save' = save /\ dirty' = dirty
      /\ hdr' = h /\ Reclaim(h, retained, free, frozen, TRUE)
  BY DEF SettleInside
<1>2. h \in Headers /\ \A x \in {"A", "B", "db", "kept", "marker"} : h[x] = hdr[x]
  BY TypeParts, HolderParts DEF Headers, TypeInv
<1> HIDE DEF h
<1>3. Reclaimed(retained, free, frozen, TRUE, Floor(h)) /\ TRUE \in BOOLEAN
  BY <1>1, <1>2, TypeParts, ReclaimEffect DEF Headers
<1>4. /\ Range(free') = Range(free) \cup (LetGo(retained, Floor(h)) \cap Range(save.free))
      /\ Range(frozen') = Range(frozen) \cup (LetGo(retained, Floor(h)) \ Range(save.free))
      /\ Blocks(retained') \cup LetGo(retained, Floor(h)) = Blocks(retained)
  BY <1>3 DEF Reclaimed
<1>5. /\ \A x \in {"A", "B", "db", "kept", "marker"} : hdr'[x] = hdr[x]
      /\ Cur' = Cur /\ db' = db
  BY <1>1, <1>2, CurSame DEF db
<1>6. Up /\ Up' /\ CurMatters /\ CurMatters' /\ ~Writing /\ ~Writing' /\ Within /\ Within' /\ ~Unset'
  BY <1>1 DEF Up, CurMatters, Writing, Within, Unset
<1>7. Safe(Cur) /\ Reach(Cur) \cap (Blocks(retained) \cup Range(frozen)) = {}
  BY <1>6 DEF DiskInv, CurInv
<1>8. /\ Reach(Cur) \cap (Blocks(retained') \cup Range(frozen')) = {} /\ Safe(Cur)'
  BY <1>1, <1>4, <1>5, <1>6, <1>7 DEF Safe, Clear
<1>9. ASSUME hdr["marker"] # NoHeader PROVE Safe(hdr["marker"])'
  <2>1. save.marked /\ Safe(hdr["marker"])
    BY <1>1, <1>9 DEF SavepointInv, SaveInv, Saved, DiskInv, MarkerSound
  <2>2. Twin(hdr["marker"], hdr["kept"]) /\ hdr["kept"] # NoHeader /\ Reach(hdr["kept"]) \cap Range(save.free) = {}
    BY <1>1, <2>1, KeptReady DEF DiskInv, KeptSound
  <2>3. Reach(hdr["marker"]) = Reach(hdr["kept"])
    BY <2>2, TwinParts, DiskParts
  <2>4. Reach(hdr["marker"]) \cap Range(free') = {}
    BY <1>4, <1>6, <2>1, <2>2, <2>3 DEF Safe, Clear
  <2>5. QED BY <1>1, <1>5, <1>6, <2>1, <2>4 DEF Safe, Clear
<1>10. MarkerSound'
  BY <1>5, <1>9 DEF DiskInv, MarkerSound
<1>11. KeptSound'
  BY <1>1, <1>5 DEF DiskInv, KeptSound
<1>12. LinkInv'
  BY <1>1, <1>5, <1>6 DEF DiskInv, LinkInv
<1>13. CurInv'
  BY <1>1, <1>5, <1>6, <1>8 DEF DiskInv, CurInv
<1>14. QED BY <1>10, <1>11, <1>12, <1>13 DEF DiskInv

(* rollback_savepoint: the header gone back to is the published one, or     *)
(* what is published is newer and the marker holds the one gone back to.    *)
LEMMA DiskRollback ==
  ASSUME TypeInv, SavepointInv, MemInv, DiskInv, Allow \subseteq {"explicit"}, RollbackSavepoint
  PROVE  DiskInv'
<1> DEFINE k == hdr["kept"]
           h == [k EXCEPT !.epoch = db.epoch]
           I == {i \in DOMAIN retained : retained[i].epoch < k.epoch}
<1>1. /\ mode \in {"stmt", "raised", "txn"} /\ pc = "none" /\ mode' = "undo"
      /\ pc' = (IF db.epoch # k.epoch THEN "chain" ELSE "forget")
      /\ hdr' = [hdr EXCEPT !["db"] = h] /\ free' = save.free /\ frozen' = <<>>
      /\ retained' = At(retained, I) /\ save' = save /\ dirty' = dirty
      /\ mode # "txn" => ~(hdr[active].epoch > k.epoch)
  BY DEF RollbackSavepoint, LetGoBefore
<1>2. /\ Up /\ Up' /\ Within /\ Saved /\ CurMatters /\ ~Writing /\ ~Writing' /\ ~Within' /\ ~Unset'
  BY <1>1 DEF Up, Within, Saved, CurMatters, Writing, Unset
<1>3. /\ Cur = hdr[active] /\ Cur.epoch \in Nat /\ k.epoch \in Nat /\ db.epoch \in Nat /\ db.epoch >= Cur.epoch
      /\ k \in Header /\ k # NoHeader
  BY <1>1, <1>2, DiskParts DEF Unset
<1>4. /\ k.ok /\ Reach(k) \cap Range(save.free) = {} /\ Reach(k) \subseteq 1..k.count
  BY <1>2, KeptClear DEF MemInv
<1> HIDE DEF k
<1>5. SameButEpoch(h, k)
  BY <1>3 DEF Header, SameButEpoch
<1> HIDE DEF h
<1>6. db' = h /\ \A x \in {"A", "B", "marker", "kept"} : hdr'[x] = hdr[x]
  BY <1>1, DiskParts, TypeParts DEF db
<1>7. Cur' = Cur /\ db'.count = k.count
  BY <1>5, <1>6, CurSame DEF SameButEpoch
<1>8. Blocks(retained') \subseteq Blocks(retained) /\ Range(frozen') = {}
  <2>1. I \subseteq DOMAIN retained /\ retained \in Seq(Wait)
    BY TypeParts
  <2>2. Blocks(retained') = {retained[i].block : i \in I}
    BY <1>1, <2>1, WaitsAt
  <2>3. Blocks(retained) = {retained[i].block : i \in DOMAIN retained}
    BY <2>1, BlocksListed
  <2>4. QED BY <1>1, <2>2, <2>3, NothingListed
<1>9. ASSUME hdr["marker"] # NoHeader
      PROVE  /\ Safe(hdr["marker"])' /\ hdr["marker"].epoch = k.epoch
  <2>1. save.marked
    BY <1>2, <1>9 DEF SavepointInv, SaveInv
  <2>2. mode = "txn"
    BY <1>1, <2>1 DEF DiskInv, KeptSound
  <2>3. Twin(hdr["marker"], k)
    BY <2>1, <2>2 DEF DiskInv, KeptSound, k
  <2>4. Reach(hdr["marker"]) = Reach(k) /\ hdr["marker"].epoch = k.epoch
    BY <1>3, <2>3, TwinParts
  <2>5. hdr["marker"].ok /\ Reach(hdr["marker"]) \cap dirty = {}
    BY <1>9 DEF DiskInv, MarkerSound, Safe
  <2>6. QED BY <1>1, <1>4, <1>6, <1>7, <2>4, <2>5 DEF Safe, Clear
<1>10. CurMatters' => Cur.epoch <= k.epoch
  <2>1. CASE hdr["marker"] = NoHeader
    <3>1. ~save.marked
      <4>1. save.marked => Like(hdr["marker"], k)
        BY <1>2 DEF SavepointInv, SaveInv, k
      <4>2. QED BY <1>3, <2>1, <4>1, HeaderThere DEF Like
    <3>2. mode = "txn" => hdr[active].epoch <= k.epoch
      BY <3>1 DEF SavepointInv, TxnInv, k
    <3>3. mode # "txn" => hdr[active].epoch <= k.epoch
      BY <1>1, <1>3
    <3>4. QED BY <1>3, <3>2, <3>3
  <2>2. CASE hdr["marker"] # NoHeader /\ hdr["marker"].epoch = Cur.epoch
    BY <1>3, <1>9, <2>2
  <2>3. CASE pc' = "forget"
    BY <1>1, <1>3, <2>3
  <2>4. QED BY <1>1, <1>6, <1>7, <2>1, <2>2, <2>3 DEF CurMatters
<1>11. ASSUME Cur.epoch <= k.epoch
       PROVE  /\ SameLists(k, Cur) /\ Safe(Cur)'
              /\ Reach(Cur) \cap (Blocks(retained') \cup Range(frozen')) = {}
  <2>1. /\ SameLists(k, Cur) /\ Reach(Cur) \cap Range(save.free) = {} /\ Reach(Cur) \subseteq 1..k.count
    BY <1>2, <1>11 DEF DiskInv, LinkInv, CurInv, k
  <2>2. Safe(Cur) /\ Reach(Cur) \cap (Blocks(retained) \cup Range(frozen)) = {}
    BY <1>2 DEF DiskInv, CurInv
  <2>3. Safe(Cur)'
    BY <1>1, <1>7, <2>1, <2>2 DEF Safe, Clear
  <2>4. QED BY <1>8, <2>1, <2>2, <2>3
<1>12. MarkerSound'
  BY <1>6, <1>7, <1>9 DEF DiskInv, MarkerSound
<1>13. KeptSound'
  BY <1>1 DEF KeptSound
<1>14. LinkInv'
  <2>1. pc' = "forget" => SameLists(db', Cur')
    <3>1. pc' = "forget" => Cur.epoch <= k.epoch
      BY <1>1, <1>3
    <3>2. QED BY <1>5, <1>6, <1>7, <1>11, <3>1 DEF SameLists, SameButEpoch
  <2>2. QED BY <1>1, <1>2, <2>1 DEF LinkInv
<1>15. CurInv'
  <2>1. pc' # "flip"
    BY <1>1
  <2>2. QED BY <1>2, <1>7, <1>10, <1>11, <2>1 DEF CurInv
<1>16. QED BY <1>12, <1>13, <1>14, <1>15 DEF DiskInv

(* checkpoint, open_kind: after a crash the newest slot is the one it was,  *)
(* less what was not synced, or the one the flip was writing, all of it     *)
(* synced before.                                                           *)
LEMMA CrashNewest ==
  ASSUME TypeInv, SavepointInv, MemInv, DiskInv, NEW slot \in FlipOutcomes, Crash(slot)
  PROVE  \/ Cur' = Overwritten(Cur, dirty)
         \/ pc = "flip" /\ Cur' = Flipped /\ Flipped.epoch = db.epoch + 1
<1>1. /\ \A x \in OnDisk \ {Inactive} : hdr'[x] = Overwritten(hdr[x], dirty)
      /\ hdr'[Inactive] = Overwritten(slot, dirty)
      /\ slot = hdr[Inactive] \/ (pc = "flip" /\ slot = NoHeader) \/ (pc = "flip" /\ slot = Flipped)
      /\ mode # "down"
      /\ pc = "flip" => Flipped \in Header /\ Flipped # NoHeader /\ Flipped.epoch = db.epoch + 1
  BY CrashLeaves
<1>2. /\ active \in Slot /\ Inactive \in Slot /\ Inactive # active /\ Slot = {"A", "B"}
      /\ {"A", "B"} \subseteq OnDisk /\ Cur = hdr[active] /\ Cur \in Header /\ Cur # NoHeader
      /\ hdr["A"] \in Header \cup {NoHeader} /\ hdr["B"] \in Header \cup {NoHeader}
      /\ Cur.epoch \in Nat /\ db.epoch \in Nat /\ (~Unset => db.epoch >= Cur.epoch)
  BY <1>1, DiskParts, HolderParts DEF TypeInv, Up
<1>3. CASE slot = hdr[Inactive]
  <2>1. hdr'["A"] = Overwritten(hdr["A"], dirty) /\ hdr'["B"] = Overwritten(hdr["B"], dirty)
    BY <1>1, <1>2, <1>3
  <2>2. Newest(hdr') = Newest(hdr) /\ Newest(hdr) \in {"A", "B"}
    BY <1>2, <2>1, OverwrittenTwin, CurTwin, DiskParts
  <2>3. QED BY <2>1, <2>2 DEF Cur
<1>4. CASE pc = "flip" /\ slot # hdr[Inactive]
  <2>1. dirty = {} /\ ~Unset
    BY <1>4 DEF DiskInv, CurInv, Unset
  <2>2. hdr'[Inactive] = slot /\ hdr'[active] = Cur /\ Overwritten(Cur, dirty) = Cur
    <3>1. slot \in Header \cup {NoHeader}
      BY <1>1, <1>4
    <3>2. hdr'[active] = Overwritten(Cur, dirty)
      BY <1>1, <1>2
    <3>3. QED BY <1>1, <1>2, <2>1, <3>1, <3>2, NotTouched
  <2>3. CASE slot = NoHeader
    <3>1. Newest(hdr') = active
      BY <1>2, <2>2, <2>3 DEF Newest, Inactive
    <3>2. QED BY <2>2, <3>1 DEF Cur
  <2>4. CASE slot = Flipped
    <3>1. Newest(hdr') = Inactive
      BY <1>1, <1>2, <1>4, <2>1, <2>2, <2>4 DEF Newest, Inactive
    <3>2. QED BY <1>1, <1>4, <2>2, <2>4, <3>1 DEF Cur
  <2>5. QED BY <1>1, <1>4, <2>3, <2>4
<1>5. QED BY <1>1, <1>3, <1>4

(* A crash between any two steps leaves a marker or a newest slot an open   *)
(* may start from.                                                          *)
LEMMA DiskCrash ==
  ASSUME TypeInv, SavepointInv, MemInv, DiskInv, NEW slot \in FlipOutcomes, Crash(slot)
  PROVE  DiskInv'
<1>1. /\ hdr'["marker"] = Overwritten(hdr["marker"], dirty)
      /\ mode # "down" /\ mode' = "down" /\ pc' = "none" /\ dirty' = {}
      /\ frozen' = <<>> /\ retained' = <<>>
  <2>1. "marker" \in OnDisk \ {Inactive}
    BY DEF Inactive, OnDisk, Slot
  <2>2. QED BY <2>1, CrashLeaves
<1>2. ~Up' /\ ~Within' /\ ~Unset' /\ ~Writing' /\ Up
  BY <1>1 DEF Up, Within, Unset, Writing
<1>3. hdr'["marker"] = hdr["marker"]
  <2>1. hdr["marker"] # NoHeader => Reach(hdr["marker"]) \cap dirty = {}
    BY DEF DiskInv, MarkerSound, Safe
  <2>2. QED BY <1>1, <2>1, NotTouched, DiskParts
<1>4. CurMatters' <=> (hdr["marker"] = NoHeader \/ hdr["marker"].epoch = Cur'.epoch)
  BY <1>1, <1>3 DEF CurMatters
<1>5. /\ hdr["marker"] # NoHeader =>
           /\ hdr["marker"].epoch <= Cur'.epoch
           /\ hdr["marker"].epoch = Cur'.epoch => SameLists(hdr["marker"], Cur')
      /\ CurMatters' => Safe(Cur)'
  <2>1. hdr["marker"] # NoHeader => /\ hdr["marker"].epoch <= Cur.epoch
                                    /\ hdr["marker"].epoch = Cur.epoch => SameLists(hdr["marker"], Cur)
    BY DEF DiskInv, MarkerSound
  <2>2. /\ Cur \in Header /\ Cur.epoch \in Nat /\ db.epoch \in Nat /\ hdr["marker"].epoch \in Nat
        /\ ~Unset => db.epoch >= Cur.epoch
    BY <1>2, DiskParts
  <2>3. CASE Cur' = Overwritten(Cur, dirty)
    <3>1. Twin(Cur', Cur) /\ Cur # NoHeader
      BY <2>2, <2>3, OverwrittenTwin, DiskParts
    <3>2. /\ Cur'.epoch = Cur.epoch /\ Cur'.list = Cur.list /\ Cur'.chain = Cur.chain
      BY <2>2, <3>1, TwinParts
    <3>3. ASSUME CurMatters' PROVE Safe(Cur)'
      <4>1. Safe(Cur)
        BY <1>4, <3>2, <3>3 DEF DiskInv, CurInv, CurMatters
      <4>2. Cur' = Cur
        BY <2>2, <2>3, <4>1, NotTouched DEF Safe
      <4>3. QED BY <1>1, <1>2, <4>1, <4>2 DEF Safe
    <3>4. QED BY <2>1, <3>2, <3>3 DEF SameLists
  <2>4. CASE pc = "flip" /\ Cur' = Flipped /\ Flipped.epoch = db.epoch + 1
    <3>1. ~Unset /\ db.ok /\ SameButEpoch(Flipped, db)
      BY <1>2, <2>4, CrashLeaves DEF Unset, MemInv, PlacesInv
    <3>2. Cur'.epoch > Cur.epoch /\ Cur'.epoch \in Nat
      BY <2>2, <2>4, <3>1
    <3>3. Safe(Cur)'
      BY <1>1, <1>2, <2>4, <3>1 DEF Safe, SameButEpoch
    <3>4. QED BY <2>1, <2>2, <3>2, <3>3
  <2>5. QED BY <2>3, <2>4, CrashNewest
<1>6. MarkerSound'
  <2>1. hdr["marker"] # NoHeader => HeaderSound(hdr["marker"]) /\ hdr["marker"].ok
    BY DEF DiskInv, MarkerSound, Safe
  <2>2. hdr["marker"] # NoHeader => Safe(hdr["marker"])'
    BY <1>1, <1>2, <1>3, <2>1 DEF Safe
  <2>3. QED BY <1>3, <1>5, <2>1, <2>2 DEF MarkerSound
<1>7. KeptSound' /\ LinkInv'
  BY <1>1, <1>2 DEF KeptSound, LinkInv
<1>8. CurInv'
  <2>1. Blocks(retained') = {} /\ Range(frozen') = {}
    <3>1. <<>> \in Seq(Wait) /\ DOMAIN <<>> = {} /\ Range(<<>>) = {}
      BY NothingListed
    <3>2. Blocks(<<>>) = {<<>>[i].block : i \in DOMAIN <<>>}
      BY <3>1, BlocksListed
    <3>3. QED BY <1>1, <3>1, <3>2
  <2>2. QED BY <1>1, <1>2, <1>5, <2>1 DEF CurInv
<1>9. QED BY <1>6, <1>7, <1>8 DEF DiskInv

(* open_kind: what the next open adopts is whole and sound: the marker, or  *)
(* the newest slot where there is none.                                     *)
LEMMA AdoptedSound ==
  ASSUME TypeInv, SavepointInv, MemInv, DiskInv
  PROVE  /\ hdr["marker"] = NoHeader => Adopted(hdr) = Cur /\ Safe(Cur)
         /\ hdr["marker"] # NoHeader => Adopted(hdr) = hdr["marker"] /\ Safe(hdr["marker"])
         /\ HeaderSound(Adopted(hdr)) /\ Adopted(hdr).ok
<1>1. CASE hdr["marker"] = NoHeader
  <2>1. Adopted(hdr) = Cur
    BY <1>1 DEF Adopted, MarkerWins, Cur
  <2>2. Safe(Cur) /\ HeaderSound(Cur)
    BY <1>1, DiskParts DEF DiskInv, CurInv, CurMatters, MemInv, SlotsSound, Cur
  <2>3. QED BY <1>1, <2>1, <2>2 DEF Safe
<1>2. CASE hdr["marker"] # NoHeader
  <2>1. /\ Safe(hdr["marker"]) /\ HeaderSound(hdr["marker"]) /\ hdr["marker"].epoch <= Cur.epoch
    BY <1>2 DEF DiskInv, MarkerSound
  <2>2. Adopted(hdr) = hdr["marker"]
    BY <1>2, <2>1 DEF Adopted, MarkerWins, Cur
  <2>3. QED BY <1>2, <2>1, <2>2 DEF Safe
<1>3. QED BY <1>1, <1>2

(* open_kind: the writer starts on the header adopted, with its free list.  *)
LEMMA DiskOpen ==
  ASSUME TypeInv, SavepointInv, MemInv, DiskInv, Open
  PROVE  DiskInv'
<1>0. PICK h : h = Adopted(hdr)
  OBVIOUS
<1>1. /\ mode = "down" /\ hdr' = [hdr EXCEPT !["db"] = h, !["shared"] = h] /\ free' = h.list
      /\ mode' = (IF hdr["marker"] # NoHeader THEN "recover" ELSE "idle")
      /\ UNCHANGED <<pending, frozen, retained, save, pc, dirty>>
  BY <1>0 DEF Open
<1>3. /\ db' = h /\ \A x \in {"A", "B", "marker"} : hdr'[x] = hdr[x]
  BY <1>1, TypeParts, HolderParts DEF db, TypeInv
<1>4. Cur' = Cur /\ Up' /\ ~Within' /\ pc' = "none" /\ ~Writing'
  BY <1>1, <1>3, CurSame DEF Up, Within, Writing, SavepointInv, ControlInv
<1>5. dirty' = {} /\ Blocks(retained') = {} /\ Range(frozen') = {}
  <2>1. dirty = {} /\ retained = <<>> /\ frozen = <<>>
    BY <1>1 DEF TypeInv, Up
  <2>2. <<>> \in Seq(Wait) /\ DOMAIN <<>> = {} /\ Range(<<>>) = {}
    BY NothingListed
  <2>3. Blocks(<<>>) = {<<>>[i].block : i \in DOMAIN <<>>}
    BY <2>2, BlocksListed
  <2>4. QED BY <1>1, <2>1, <2>2, <2>3
<1>6. /\ HeaderSound(h) /\ h.ok
      /\ hdr["marker"] = NoHeader => h = Cur
      /\ hdr["marker"] # NoHeader => h = hdr["marker"]
  BY <1>0, AdoptedSound
<1>8. MarkerSound'
  <2>1. hdr["marker"] # NoHeader => Safe(hdr["marker"])'
    BY <1>1, <1>3, <1>5, <1>6 DEF Safe, Clear, HeaderSound
  <2>2. QED BY <1>3, <1>4, <2>1 DEF DiskInv, MarkerSound
<1>9. KeptSound'
  BY <1>1 DEF KeptSound
<1>10. LinkInv'
  <2>1. hdr["marker"] = NoHeader => SameLists(db', Cur')
    BY <1>3, <1>4, <1>6 DEF SameLists
  <2>2. hdr["marker"] # NoHeader => Twin(db', hdr'["marker"])
    BY <1>3, <1>6, HeaderParts, DiskParts
  <2>3. QED BY <1>1, <1>3, <1>4, <2>1, <2>2 DEF LinkInv, Unset
<1>11. ASSUME CurMatters' PROVE Safe(Cur)'
  <2>1. CASE hdr["marker"] = NoHeader
    BY <1>1, <1>3, <1>4, <1>5, <1>6, <2>1 DEF Safe, Clear, HeaderSound
  <2>2. CASE hdr["marker"] # NoHeader
    <3>1. hdr["marker"].epoch = Cur.epoch
      BY <1>1, <1>3, <1>4, <1>11, <2>2 DEF CurMatters
    <3>2. Cur.roots = h.roots /\ SameLists(h, Cur) /\ Safe(Cur)
      <4>1. Cur.roots = h.roots
        BY <1>6, <2>2, <3>1 DEF SavepointInv, MarkerInv, Cur
      <4>2. SameLists(h, Cur)
        BY <1>6, <2>2, <3>1 DEF DiskInv, MarkerSound
      <4>3. Safe(Cur)
        BY <3>1 DEF DiskInv, CurInv, CurMatters
      <4>4. QED BY <4>1, <4>2, <4>3
    <3>3. Reach(Cur) = Reach(h)
      BY <3>2 DEF SameLists, Reach
    <3>4. QED BY <1>1, <1>3, <1>4, <1>5, <1>6, <3>2, <3>3 DEF Safe, Clear, HeaderSound
  <2>3. QED BY <2>1, <2>2
<1>12. CurInv'
  BY <1>4, <1>5, <1>11 DEF CurInv
<1>13. QED BY <1>8, <1>9, <1>10, <1>12 DEF DiskInv

(* finish_rollback: a header that is what is published already needs no     *)
(* checkpoint, and its lists are the published ones.                        *)
LEMMA DiskFinish ==
  ASSUME TypeInv, SavepointInv, DiskInv, FinishRollback
  PROVE  DiskInv'
<1> DEFINE e == IF published > db.epoch THEN published ELSE db.epoch
<1>1. /\ Unset /\ Up /\ Up' /\ mode = "recover" /\ mode' = mode /\ ~Within' /\ ~Writing' /\ ~Unset'
      /\ pc' = (IF published > db.epoch THEN "chain" ELSE "forget")
      /\ UNCHANGED <<free, frozen, retained, save, dirty>> /\ pc = "none" /\ ~Writing
  BY DEF FinishRollback, Unset, Up, Within, Writing
<1>2. hdr' = [hdr EXCEPT !["db"] = [@ EXCEPT !.epoch = e]]
  BY DEF FinishRollback, db
<1> HIDE DEF e
<1>3. /\ \A x \in {"A", "B", "marker"} : hdr'[x] = hdr[x]
      /\ db' = [db EXCEPT !.epoch = e] /\ db \in Header
  BY <1>1, <1>2, DiskParts, TypeParts DEF db
<1>4. SameButEpoch(db', db) /\ Cur' = Cur
  BY <1>3, CurSame DEF SameButEpoch, Header
<1>5. ASSUME pc' = "forget" PROVE hdr["marker"].epoch = Cur.epoch /\ SameLists(db', Cur)
  <2>1. /\ hdr["marker"] # NoHeader /\ published = Cur.epoch /\ db.epoch <= published
        /\ db.epoch < published => hdr["marker"].epoch = db.epoch
    BY <1>1, DiskParts DEF SavepointInv, RecoverInv
  <2>2. ~(published > db.epoch) /\ published \in Nat /\ db.epoch \in Nat
    BY <1>1, <1>5, <2>1, DiskParts
  <2>3. Twin(db, hdr["marker"])
    BY <1>1 DEF DiskInv, LinkInv
  <2>4. hdr["marker"].epoch = Cur.epoch /\ db.list = hdr["marker"].list /\ db.chain = hdr["marker"].chain
    BY <2>1, <2>2, <2>3, TwinParts, DiskParts
  <2>5. SameLists(hdr["marker"], Cur)
    BY <2>1, <2>4 DEF DiskInv, MarkerSound
  <2>6. QED BY <1>4, <2>4, <2>5 DEF SameLists, SameButEpoch
<1>6. MarkerSound'
  BY <1>1, <1>3, <1>4 DEF DiskInv, MarkerSound, Safe, Clear, SameButEpoch
<1>7. KeptSound'
  BY <1>1 DEF KeptSound
<1>8. LinkInv'
  BY <1>1, <1>4, <1>5 DEF LinkInv
<1>9. CurInv'
  <2>1. CurMatters' => CurMatters
    BY <1>1, <1>3, <1>4, <1>5 DEF CurMatters
  <2>2. pc' # "flip"
    BY <1>1
  <2>3. CurMatters' => Safe(Cur)' /\ Reach(Cur') \cap (Blocks(retained') \cup Range(frozen')) = {}
    BY <1>1, <1>4, <2>1 DEF DiskInv, CurInv, Safe, Clear, SameButEpoch
  <2>4. QED BY <1>1, <2>2, <2>3 DEF CurInv
<1>10. QED BY <1>6, <1>7, <1>8, <1>9 DEF DiskInv

(* The end of a recovery: the marker goes, and the newest slot is the       *)
(* writer's.                                                                *)
LEMMA DiskForget ==
  ASSUME TypeInv, SavepointInv, DiskInv, ForgetKept
  PROVE  DiskInv'
<1>1. /\ mode = "recover" /\ pc = "forget" /\ mode' = "idle" /\ pc' = "none"
      /\ hdr' = [hdr EXCEPT !["marker"] = NoHeader, !["shared"] = db]
      /\ UNCHANGED <<free, frozen, retained, save, dirty>>
  BY DEF ForgetKept
<1>2. Up /\ Up' /\ ~Within' /\ ~Writing /\ ~Writing' /\ ~Unset' /\ CurMatters
  BY <1>1 DEF Up, Within, Writing, Unset, CurMatters
<1>3. /\ \A x \in {"A", "B", "db"} : hdr'[x] = hdr[x]
      /\ hdr'["marker"] = NoHeader
  BY <1>1, HolderParts DEF TypeInv
<1>4. Cur' = Cur /\ db' = db
  BY <1>3, CurSame DEF db
<1>5. /\ Safe(Cur) /\ Reach(Cur) \cap (Blocks(retained) \cup Range(frozen)) = {} /\ SameLists(db, Cur)
  BY <1>1, <1>2 DEF DiskInv, CurInv, LinkInv
<1>6. Safe(Cur)'
  BY <1>1, <1>2, <1>4, <1>5 DEF Safe, Clear
<1>7. MarkerSound' /\ KeptSound'
  BY <1>1, <1>3 DEF MarkerSound, KeptSound
<1>8. LinkInv' /\ CurInv'
  BY <1>1, <1>2, <1>4, <1>5, <1>6 DEF LinkInv, CurInv
<1>9. QED BY <1>7, <1>8 DEF DiskInv

(* A new file: slot A holds an empty header, and so does the writer.        *)
LEMMA InitDisk == Init => DiskInv
<1> DEFINE fresh == [epoch |-> 1, roots |-> {}, count |-> 0, list |-> <<>>, chain |-> <<>>, ok |-> TRUE]
<1> SUFFICES ASSUME Init PROVE DiskInv
  OBVIOUS
<1>1. /\ hdr = [x \in Holder |-> IF x \in {"A", "db", "shared"} THEN fresh ELSE NoHeader]
      /\ free = <<>> /\ frozen = <<>> /\ retained = <<>> /\ mode = "idle" /\ pc = "none" /\ dirty = {}
  BY DEF Init
<1>2. Reach(fresh) = {} /\ fresh.ok /\ fresh.epoch = 1 /\ fresh # NoHeader
  BY FreshSound DEF NoHeader
<1> HIDE DEF fresh
<1>3. {"A", "B", "marker", "db"} \subseteq Holder
  BY DEF Holder, OnDisk, InMemory, Slot
<1>4. hdr["A"] = fresh /\ hdr["B"] = NoHeader /\ hdr["marker"] = NoHeader /\ db = fresh
  BY <1>1, <1>3 DEF db
<1>5. Cur = fresh
  BY <1>2, <1>4 DEF Cur, Newest
<1>6. Safe(Cur)
  BY <1>1, <1>2, <1>5 DEF Safe, Clear
<1>7. MarkerSound /\ KeptSound
  BY <1>1, <1>4 DEF MarkerSound, KeptSound
<1>8. LinkInv /\ CurInv
  BY <1>1, <1>2, <1>4, <1>5, <1>6 DEF LinkInv, CurInv, Within, Unset, SameLists
<1>9. QED BY <1>7, <1>8 DEF DiskInv

(* Every step keeps what is on disk sound.                                  *)
LEMMA DiskStep ==
  ASSUME TypeInv, SavepointInv, SavepointInv', MemInv, DiskInv, Allow \subseteq {"explicit"}, [Next]_vars
  PROVE  DiskInv'
<1>1. CASE (\E r \in Reader : Observe(r) \/ Idle(r)) \/ PublishStaged
  BY <1>1, DiskReaders
<1>2. CASE \E across, settled \in BOOLEAN : Hold(across, settled)
  BY <1>2, DiskHold
<1>3. CASE KeepSavepoint
  BY <1>3, DiskKeep
<1>4. CASE StageDeferred \/ CheckpointSync
  BY <1>4, DiskDeferred
<1>5. CASE mode # "down" /\ \E F \in Freed : StagedFold(F) \/ CheckpointFold(F) \/ FoldFails(F)
  BY <1>5, DiskFold
<1>6. CASE CheckpointChain
  BY <1>6, DiskChain
<1>7. CASE CheckpointFlip
  BY <1>7, DiskFlip
<1>8. CASE SettleKeeps \/ UndoDone \/ Commit
  BY <1>8, DiskSettle
<1>9. CASE SettleInside
  BY <1>9, DiskInside
<1>10. CASE RollbackSavepoint
  BY <1>10, DiskRollback
<1>11. CASE \E slot \in FlipOutcomes : Crash(slot)
  BY <1>11, DiskCrash
<1>12. CASE Open
  BY <1>12, DiskOpen
<1>13. CASE FinishRollback
  BY <1>13, DiskFinish
<1>14. CASE ForgetKept
  BY <1>14, DiskForget
<1>15. CASE UNCHANGED vars
  <2>1. UNCHANGED <<hdr, free, pending, frozen, retained, save, mode, pc, dirty>>
    BY <1>15 DEF vars
  <2>2. db' = db /\ Cur' = Cur
    BY <2>1, CurSame DEF db
  <2>3. MarkerSound' /\ KeptSound'
    BY <2>1, <2>2 DEF DiskInv, MarkerSound, KeptSound, Safe, Clear, Up
  <2>4. LinkInv'
    BY <2>1, <2>2 DEF DiskInv, LinkInv, Up, Writing, Within, Unset
  <2>5. CurInv'
    BY <2>1, <2>2 DEF DiskInv, CurInv, CurMatters, Safe, Clear, Up, Writing, Within
  <2>6. QED BY <2>3, <2>4, <2>5 DEF DiskInv
<1>16. QED BY <1>1, <1>2, <1>3, <1>4, <1>5, <1>6, <1>7, <1>8, <1>9, <1>10, <1>11, <1>12, <1>13, <1>14, <1>15
           DEF Next

---------------------------------------------------------------------------
(* Leases: what a reader took stays whole. *)

Reading == Reader \cup {"shared", "staged"}

(* The holders a reader's header is in, or comes from.                      *)
LEMMA ReadingParts ==
  ASSUME TypeInv, SavepointInv
  PROVE  /\ Reading \subseteq Holder \ {"A", "B", "marker", "db", "kept", Inactive}
         /\ \A y \in Reading : hdr[y] \in Header \cup {NoHeader} /\ hdr[y].epoch \in Nat
         /\ Up => db.epoch \in Nat /\ db.count \in Nat /\ hdr["db"] = db
<1>1. Reading \subseteq Holder \ {"A", "B", "marker", "db", "kept", Inactive}
  BY HolderParts DEF TypeInv, Reading, Inactive
<1>2. \A y \in Holder : hdr[y] \in Header \cup {NoHeader} /\ hdr[y].epoch \in Nat
  BY TypeParts, HeaderParts, BlockFileAssumption
<1>3. QED BY <1>1, <1>2, DiskParts

(* A leased header the step leaves clear is leased still.                   *)
LEMMA LeaseOn ==
  ASSUME NEW y, hdr'[y] = hdr[y], Leased(hdr[y]), hdr[y].epoch \in Nat, Up',
         db.epoch \in Nat, db'.epoch \in Nat, db'.epoch >= db.epoch,
         Reach(hdr[y]) \cap Range(free') = {}, Reach(hdr[y]) \subseteq 1..db'.count,
         \A i \in DOMAIN retained' : retained'[i].block \in Reach(hdr[y]) => retained'[i].epoch >= hdr[y].epoch,
         Within' => Reach(hdr[y]) \cap Range(save'.free) = {} /\ Reach(hdr[y]) \subseteq 1..hdr'["kept"].count
  PROVE  Leased(hdr[y])'
BY DEF Leased, Clear

(* Leases that stand keep their headers, whatever the step.                 *)
LEMMA LeaseAll ==
  ASSUME LeaseInv, mode' # "txn",
         \A y \in Reading : /\ hdr'[y] = NoHeader <=> hdr[y] = NoHeader
                            /\ hdr'[y].epoch = hdr[y].epoch
                            /\ hdr[y] # NoHeader /\ Leased(hdr[y]) => Leased(hdr[y])'
  PROVE  LeaseInv'
BY DEF LeaseInv, Reading

(* The header the writer is on once nothing is undone: it may be shared.    *)
LEMMA LeasedWriter ==
  ASSUME PlacesInv', Up', ~Within', mode' # "raised", db'.epoch \in Nat
  PROVE  Leased(db)'
<1>1. Listable' /\ db'.ok
  BY DEF PlacesInv, Up
<1>2. Clear(db)'
  <2>1. Reach(db') \cap Range(free') = {} /\ Reach(db') \subseteq 1..db'.count
    BY <1>1 DEF Listable, Apart, Reach
  <2>2. QED BY <2>1 DEF Clear, db
<1>3. Reach(db') \cap Blocks(retained') = {}
  BY <1>1 DEF Listable, Apart, Reach
<1>4. \A i \in DOMAIN retained' : retained'[i].block \in Blocks(retained')
  BY DEF Blocks, BlocksOf, Range
<1>5. QED BY <1>1, <1>2, <1>3, <1>4 DEF Leased

(* The steps that move no block and free none.                              *)
LEMMA LeaseStill ==
  ASSUME TypeInv, SavepointInv, LeaseInv, Up, Up', mode' # "txn",
         \A y \in Reading : hdr'[y] = hdr[y],
         UNCHANGED <<free, retained>>, save'.free = save.free, db'.count = db.count,
         db'.epoch \in Nat, db'.epoch >= db.epoch,
         Within' => Within /\ hdr'["kept"] = hdr["kept"]
  PROVE  LeaseInv'
<1>1. ASSUME NEW y \in Reading, Leased(hdr[y]) PROVE Leased(hdr[y])'
  <2>1. hdr'[y] = hdr[y] /\ hdr[y].epoch \in Nat /\ db.epoch \in Nat
    BY ReadingParts
  <2>2. /\ Reach(hdr[y]) \cap Range(free') = {} /\ Reach(hdr[y]) \subseteq 1..db'.count
        /\ \A i \in DOMAIN retained' : retained'[i].block \in Reach(hdr[y]) => retained'[i].epoch >= hdr[y].epoch
    BY <1>1 DEF Leased, Clear
  <2>3. Within' => Reach(hdr[y]) \cap Range(save'.free) = {} /\ Reach(hdr[y]) \subseteq 1..hdr'["kept"].count
    BY <1>1 DEF Leased
  <2>4. QED BY <1>1, <2>1, <2>2, <2>3, LeaseOn
<1>2. QED BY <1>1, LeaseAll

(* observe: a reader takes the lease with the state, which is leased.       *)
LEMMA LeaseReaders ==
  ASSUME TypeInv, SavepointInv, LeaseInv, (\E r \in Reader : Observe(r) \/ Idle(r)) \/ PublishStaged
  PROVE  LeaseInv'
<1>1. UNCHANGED <<free, retained, save, mode>>
  BY DEF Observe, Idle, PublishStaged
<1>2. /\ Reading \subseteq Holder \ {"A", "B", "marker", "db", "kept", Inactive}
      /\ \A x \in {"db", "kept"} : hdr'[x] = hdr[x]
  BY ReadingParts, HolderParts DEF TypeInv, Observe, Idle, PublishStaged
<1>3. db' = db
  BY <1>2 DEF db
<1>4. \A h : Leased(h) => Up /\ h.ok /\ Clear(h) /\ h.epoch <= db.epoch
  BY DEF Leased
<1>5. ASSUME NEW h, NEW y \in Reading, hdr'[y] = h, Leased(h) PROVE Leased(hdr[y])'
  BY <1>1, <1>2, <1>3, <1>5 DEF Leased, Clear, Up, Within
<1>6. CASE PublishStaged
  <2>1. /\ hdr["staged"] # NoHeader
        /\ hdr'["shared"] = IF hdr["staged"].epoch > hdr["shared"].epoch THEN hdr["staged"] ELSE hdr["shared"]
        /\ hdr'["staged"] = NoHeader /\ \A r \in Reader : hdr'[r] = hdr[r]
    BY <1>6, ReadingParts, HolderParts, TypeParts DEF TypeInv, PublishStaged, Reading
  <2>2. hdr["shared"] # NoHeader \/ hdr'["shared"] = hdr["staged"] \/ hdr'["shared"] = NoHeader
    BY <2>1
  <2>3. \A y \in Reader \cup {"shared"} : hdr'[y] # NoHeader => Leased(hdr[y])'
    BY <1>5, <2>1, <2>2 DEF LeaseInv, Reading
  <2>4. QED BY <1>1, <2>1, <2>3 DEF LeaseInv
<1>7. CASE \E r \in Reader : Observe(r) \/ Idle(r)
  <2>1. /\ hdr'["shared"] = hdr["shared"] /\ hdr'["staged"] = hdr["staged"]
        /\ \A r \in Reader : hdr'[r] \in {hdr[r], NoHeader, hdr["shared"]}
    BY <1>7, HolderParts, TypeParts DEF TypeInv, Observe, Idle
  <2>2. \A y \in Reader \cup {"shared"} : hdr'[y] # NoHeader => Leased(hdr[y])'
    BY <1>5, <2>1 DEF LeaseInv, Reading
  <2>3. hdr["staged"] # NoHeader /\ hdr["staged"].epoch > hdr["shared"].epoch => Leased(hdr["staged"])'
    BY <1>5, <2>1 DEF LeaseInv, Reading
  <2>4. QED BY <1>1, <2>1, <2>2, <2>3 DEF LeaseInv
<1>8. QED BY <1>6, <1>7

(* A fold writes into no block a reader's header reaches.                   *)
LEMMA LeaseFold ==
  ASSUME TypeInv, SavepointInv, MemInv, LeaseInv, NEW F \in Freed, mode # "down",
         StagedFold(F) \/ CheckpointFold(F) \/ FoldFails(F)
  PROVE  LeaseInv'
<1>1. PICK ptr \in BlockNo : Took(ptr, F)
  BY FoldEffect
<1>2. /\ Up /\ Up' /\ (Within' <=> Within) /\ mode' # "txn" /\ save'.free = save.free /\ retained' = retained
      /\ db'.epoch \in Nat /\ db'.epoch >= db.epoch /\ db.epoch \in Nat /\ db.count \in Nat
  <2>1. mode' = mode \/ (mode = "stmt" /\ mode' = "raised")
    BY <1>1 DEF Took
  <2>2. save'.free = save.free /\ retained' = retained /\ db' \in Header /\ db'.epoch >= db.epoch
    BY <1>1 DEF Took, SavepointInv, SaveRecord, db
  <2>3. db'.epoch \in Nat
    BY <2>2, HeaderParts, BlockFileAssumption
  <2>4. QED BY <2>1, <2>2, <2>3, ReadingParts DEF Up, Within, LeaseInv
<1>3. \A y \in Reading : y \in Holder \ {"db"} /\ hdr[y] \in Header \cup {NoHeader} /\ hdr[y].epoch \in Nat
  BY ReadingParts
<1>4. Within => hdr'["kept"] = hdr["kept"]
  BY <1>1, <1>2, KeptClear, DiskParts, FoldSpares DEF MemInv
<1>5. ASSUME NEW y \in Reading
      PROVE  /\ hdr'[y] = NoHeader <=> hdr[y] = NoHeader
             /\ hdr'[y].epoch = hdr[y].epoch
  <2>1. Twin(hdr'[y], hdr[y])
    BY <1>1, <1>3, OverwrittenTwin DEF Took
  <2>2. QED BY <1>3, <2>1, TwinParts
<1>6. ASSUME NEW y \in Reading, hdr[y] # NoHeader, Leased(hdr[y]) PROVE Leased(hdr[y])'
  <2>1. hdr'[y] = hdr[y] /\ Clear(hdr[y])'
    BY <1>1, <1>2, <1>3, <1>6, FoldSpares DEF Leased
  <2>2. Reach(hdr[y]) \cap Range(free') = {} /\ Reach(hdr[y]) \subseteq 1..db'.count
    BY <2>1 DEF Clear
  <2>3. \A i \in DOMAIN retained' : retained'[i].block \in Reach(hdr[y]) => retained'[i].epoch >= hdr[y].epoch
    BY <1>2, <1>6 DEF Leased
  <2>4. Within' => Reach(hdr[y]) \cap Range(save'.free) = {} /\ Reach(hdr[y]) \subseteq 1..hdr'["kept"].count
    BY <1>2, <1>4, <1>6 DEF Leased
  <2>5. QED BY <1>2, <1>3, <1>6, <2>1, <2>2, <2>3, <2>4, LeaseOn
<1>7. QED BY <1>2, <1>5, <1>6, LeaseAll

(* reclaim: the floor spares every block a lease at or above it may reach.  *)
LEMMA LeaseSpared ==
  ASSUME TypeInv, NEW ret \in Seq(Wait), \A i \in DOMAIN ret : \E j \in DOMAIN retained : ret[i] = retained[j],
         NEW floor \in Nat, Reclaimed(ret, free, frozen, FALSE, floor),
         NEW g, Leased(g), g.epoch \in Nat, floor <= g.epoch
  PROVE  /\ Reach(g) \cap Range(free') = {}
         /\ \A i \in DOMAIN retained' : retained'[i].block \in Reach(g) => retained'[i].epoch >= g.epoch
<1>1. /\ Range(free') = Range(free) \cup LetGo(ret, floor)
      /\ \A i \in DOMAIN retained' : \E j \in DOMAIN ret : retained'[i] = ret[j]
  BY DEF Reclaimed
<1>2. /\ Reach(g) \cap Range(free) = {}
      /\ \A i \in DOMAIN retained : retained[i].block \in Reach(g) => retained[i].epoch >= g.epoch
  BY DEF Leased, Clear
<1>3. \A i \in DOMAIN ret : ret[i].epoch \in Nat
  BY BlocksListed, BlockFileAssumption
<1>4. \A i \in DOMAIN ret : ret[i].block \in Reach(g) => ret[i].epoch >= g.epoch
  BY <1>2
<1>5. LetGo(ret, floor) \cap Reach(g) = {}
  BY <1>3, <1>4 DEF LetGo
<1>6. QED BY <1>1, <1>2, <1>4, <1>5

(* hold: what is let go of when a statement begins is below every lease,    *)
(* and the savepoint may write into what is free then.                      *)
LEMMA LeaseHold ==
  ASSUME TypeInv, SavepointInv, MemInv, MemInv', LeaseInv, "explicit" \notin Allow,
         NEW across \in BOOLEAN, NEW settled \in BOOLEAN, Hold(across, settled)
  PROVE  LeaseInv'
<1> DEFINE h == IF settled THEN [hdr EXCEPT !["shared"] = db] ELSE hdr
<1>1. /\ mode = "idle" /\ hdr' = [h EXCEPT !["kept"] = db] /\ mode' = "stmt"
      /\ Reclaim(h, retained, free, frozen, FALSE) /\ save'.free = free' /\ FALSE \in BOOLEAN
  BY DEF Hold
<1>2. /\ h \in Headers /\ h["db"] = db /\ h["staged"] = hdr["staged"] /\ \A r \in Reader : h[r] = hdr[r]
      /\ h["shared"] = (IF settled THEN db ELSE hdr["shared"])
  BY <1>1, TypeParts, HolderParts, WriterThere DEF Headers, TypeInv
<1> HIDE DEF h
<1>3. Reclaimed(retained, free, frozen, FALSE, Floor(h)) /\ retained \in Seq(Wait)
  BY <1>1, <1>2, TypeParts, ReclaimEffect DEF Headers
<1>4. /\ Floor(h) \in Nat /\ Floor(h) <= h["shared"].epoch
      /\ \A r \in Reader : hdr[r] # NoHeader => Floor(h) <= hdr[r].epoch
  BY <1>2, FloorBelow DEF Headers
<1>5. /\ \A y \in Reading : hdr'[y] = h[y] /\ y \in Holder
      /\ db' = db /\ hdr'["kept"] = db /\ db.epoch \in Nat /\ Up /\ Up'
  BY <1>1, <1>2, ReadingParts, HolderParts DEF Headers, db, TypeInv, Up
<1>6. ASSUME NEW y \in Reading, hdr'[y] = hdr[y], Leased(hdr[y]), Floor(h) <= hdr[y].epoch
      PROVE  Leased(hdr[y])'
  <2>1. hdr[y].epoch \in Nat /\ Reach(hdr[y]) \subseteq 1..db.count
    BY <1>6, ReadingParts DEF Leased, Clear
  <2>2. /\ Reach(hdr[y]) \cap Range(free') = {}
        /\ \A i \in DOMAIN retained' : retained'[i].block \in Reach(hdr[y]) => retained'[i].epoch >= hdr[y].epoch
    BY <1>3, <1>4, <1>6, <2>1, LeaseSpared
  <2>3. QED BY <1>1, <1>5, <1>6, <2>1, <2>2, LeaseOn
<1>7. Leased(db)'
  <2>1. Listable' /\ db'.ok /\ KeptBack(hdr["kept"])'
    BY <1>1 DEF MemInv, PlacesInv, KeptInv, Up, Within
  <2>2. Reach(db') \cap Range(free') = {} /\ Reach(db') \subseteq 1..db'.count /\ Reach(db') \cap Blocks(retained') = {}
    BY <2>1 DEF Listable, Apart, Reach
  <2>3. \A i \in DOMAIN retained' : retained'[i].block \in Blocks(retained')
    BY DEF Blocks, BlocksOf, Range
  <2>4. Clear(db)'
    BY <2>2 DEF Clear, db
  <2>5. QED BY <1>1, <1>5, <2>1, <2>2, <2>3, <2>4 DEF Leased
<1>8. \A r \in Reader : hdr'[r] # NoHeader => Leased(hdr[r])'
  BY <1>2, <1>4, <1>5, <1>6 DEF LeaseInv, Reading
<1>9. Leased(hdr["shared"])' /\ h["shared"].epoch >= hdr["shared"].epoch
  <2>1. Leased(hdr["shared"]) /\ hdr["shared"].epoch \in Nat /\ hdr["shared"].epoch <= db.epoch
    BY <1>5, ReadingParts DEF LeaseInv, TypeInv, Reading, Leased
  <2>2. CASE settled
    <3>1. hdr'["shared"] = db'
      BY <1>2, <1>5, <2>2 DEF Reading
    <3>2. QED BY <1>2, <1>7, <2>1, <2>2, <3>1 DEF Leased, Clear
  <2>3. CASE ~settled
    BY <1>2, <1>4, <1>5, <1>6, <2>1, <2>3 DEF Reading
  <2>4. QED BY <2>2, <2>3
<1>10. hdr["staged"] # NoHeader /\ hdr["staged"].epoch > h["shared"].epoch => Leased(hdr["staged"])'
  <2>1. /\ hdr["staged"].epoch \in Nat /\ hdr["shared"].epoch \in Nat /\ h["shared"].epoch \in Nat
    BY <1>2, <1>5, ReadingParts DEF Reading
  <2>2. QED BY <1>2, <1>4, <1>5, <1>6, <1>9, <2>1 DEF LeaseInv, Reading
<1>11. hdr'["staged"] = hdr["staged"] /\ hdr'["shared"] = h["shared"]
  BY <1>2, <1>5 DEF Reading
<1>12. QED BY <1>1, <1>8, <1>9, <1>10, <1>11 DEF LeaseInv

(* checkpoint: the chain goes to no block a reader's header reaches, and    *)
(* what it lets go of is let go of under the newest epoch.                  *)
LEMMA LeaseChain ==
  ASSUME TypeInv, SavepointInv, MemInv, LeaseInv, CheckpointChain
  PROVE  LeaseInv'
<1>1. PICK w : Lists(w) /\ Relists(w)
  BY Zenon, ChainEffect
<1>2. /\ Up /\ Up' /\ (Within' <=> Within) /\ mode' = mode /\ mode # "txn" /\ save'.free = save.free
      /\ db.epoch \in Nat /\ db.count \in Nat
  BY <1>1, ReadingParts DEF Relists, CheckpointChain, SavepointInv, ControlInv, Up, Within, LeaseInv
<1>3. \A y \in Reading : /\ y \in Holder \ {"db"} /\ hdr[y] \in Header \cup {NoHeader} /\ hdr[y].epoch \in Nat
                         /\ Kept(hdr)[y] = hdr[y]
  BY ReadingParts, KeptTypes
<1>4. Within => hdr'["kept"] = hdr["kept"]
  <2>1. Kept(hdr)["kept"] = hdr["kept"] /\ "kept" \in Holder \ {"db"}
    BY KeptTypes, DiskParts
  <2>2. QED BY <1>1, <1>2, <2>1, KeptClear, ChainSpares DEF MemInv
<1>5. ASSUME NEW y \in Reading
      PROVE  /\ hdr'[y] = NoHeader <=> hdr[y] = NoHeader
             /\ hdr'[y].epoch = hdr[y].epoch
  <2>1. Twin(hdr'[y], hdr[y])
    BY <1>1, <1>3, OverwrittenTwin DEF Relists
  <2>2. QED BY <1>3, <2>1, TwinParts
<1>6. Range(frozen) = {}
  BY <1>2, NothingListed DEF MemInv, PlacesInv
<1>7. db'.epoch = db.epoch
  BY <1>1 DEF Relists, db
<1>8. ASSUME NEW y \in Reading, hdr[y] # NoHeader, Leased(hdr[y]) PROVE Leased(hdr[y])'
  <2>1. hdr'[y] = hdr[y]
    BY <1>1, <1>2, <1>3, <1>8, ChainSpares DEF Leased
  <2>2. Clear(hdr[y])'
    BY <1>1, <1>2, <1>3, <1>6, <1>8, <2>1, ChainSpares DEF Leased
  <2>3. Reach(hdr[y]) \cap Range(free') = {} /\ Reach(hdr[y]) \subseteq 1..db'.count
    BY <2>1, <2>2 DEF Clear
  <2>4. \A i \in DOMAIN retained' : retained'[i].block \in Reach(hdr[y]) => retained'[i].epoch >= hdr[y].epoch
    <3>1. \A i \in DOMAIN retained' : \/ \E j \in DOMAIN retained : retained'[i] = retained[j]
                                      \/ retained'[i].epoch = db.epoch
      BY <1>1 DEF Lists
    <3>2. /\ \A i \in DOMAIN retained : retained[i].block \in Reach(hdr[y]) => retained[i].epoch >= hdr[y].epoch
          /\ hdr[y].epoch <= db.epoch
      BY <1>8 DEF Leased
    <3>3. QED BY <1>2, <1>3, <3>1, <3>2
  <2>5. Within' => Reach(hdr[y]) \cap Range(save'.free) = {} /\ Reach(hdr[y]) \subseteq 1..hdr'["kept"].count
    BY <1>2, <1>4, <1>8 DEF Leased
  <2>6. QED BY <1>2, <1>3, <1>7, <1>8, <2>1, <2>3, <2>4, <2>5, LeaseOn
<1>9. QED BY <1>2, <1>5, <1>8, LeaseAll

(* settle and undo: the reclaim at the end of a statement spares the        *)
(* leases, and the writer's header may be published.                        *)
LEMMA LeaseSettle ==
  ASSUME TypeInv, SavepointInv, MemInv, MemInv', LeaseInv, SettleKeeps \/ UndoDone
  PROVE  LeaseInv'
<1>1. /\ Up /\ Up' /\ ~Within' /\ mode' = "idle" /\ mode # "txn"
  BY DEF SettleKeeps, UndoDone, Up, Within
<1>2. /\ Reading \subseteq Holder \ {"A", "B", "marker", "db", "kept"} /\ "db" \in Holder
      /\ \A y \in Reading : hdr[y] \in Header \cup {NoHeader} /\ hdr[y].epoch \in Nat
      /\ db.epoch \in Nat /\ db.count \in Nat /\ hdr["db"] = db
      /\ {"shared", "staged"} \subseteq Reading /\ Reader \subseteq Reading /\ Reader \cap {"shared", "staged"} = {}
  BY <1>1, ReadingParts, HolderParts DEF Reading, TypeInv
<1>3. frozen = <<>> /\ FALSE \in BOOLEAN /\ <<>> \in Seq(BlockNo)
  BY <1>1, NothingListed DEF MemInv, PlacesInv
<1>4. PICK h, ret : /\ hdr' = h /\ h \in Headers /\ ret \in Seq(Wait)
                    /\ \A i \in DOMAIN ret : \E j \in DOMAIN retained : ret[i] = retained[j]
                    /\ \A r \in Reader : h[r] = hdr[r]
                    /\ h["db"] = db
                    /\ \/ h["shared"] = hdr["shared"] /\ h["staged"] = db
                       \/ h["shared"] = db /\ h["staged"] = NoHeader
                    /\ Reclaim(h, ret, free, frozen, FALSE)
  <2>1. /\ Unmarked(hdr) \in Headers /\ \A x \in Holder \ {"kept", "marker"} : Unmarked(hdr)[x] = hdr[x]
    BY <1>1, UnmarkedTypes DEF Up
  <2>2. \A r \in Reader : r \in Holder \ {"kept", "marker", "shared", "staged"}
    BY <1>2
  <2>3. CASE SettleKeeps
    <3> DEFINE h == [Unmarked(hdr) EXCEPT !["staged"] = db]
    <3>1. hdr' = h /\ Reclaim(h, Released(retained), free, frozen, FALSE) /\ InSavepoint
      BY <1>3, <2>3 DEF SettleKeeps, InSavepoint
    <3>2. /\ h \in Headers /\ \A r \in Reader : h[r] = hdr[r]
          /\ h["shared"] = hdr["shared"] /\ h["staged"] = db /\ h["db"] = db
      BY <1>2, <2>1, <2>2, TypeParts, WriterThere, <1>1 DEF Headers, Up
    <3> HIDE DEF h
    <3>3. /\ Released(retained) \in Seq(Wait) /\ Waiting(frozen, save.began) \in Seq(Wait)
          /\ retained \in Seq(Wait)
      BY <3>1, ReleasedTypes, TypeParts
    <3>4. Range(Released(retained)) = Range(retained) \cup Range(Waiting(frozen, save.began))
      BY <3>3, WaitsBehind DEF Released
    <3>5. Range(Waiting(frozen, save.began)) = {}
      BY <1>3 DEF Waiting, Range
    <3>6. \A i \in DOMAIN Released(retained) : \E j \in DOMAIN retained : Released(retained)[i] = retained[j]
      BY <3>4, <3>5 DEF Range
    <3>7. QED BY <3>1, <3>2, <3>3, <3>6
  <2>4. CASE UndoDone
    <3> DEFINE h == [Unmarked(hdr) EXCEPT !["shared"] = db, !["staged"] = NoHeader]
    <3>1. hdr' = h /\ Reclaim(h, retained, free, frozen, FALSE)
      BY <2>4 DEF UndoDone
    <3>2. /\ h \in Headers /\ \A r \in Reader : h[r] = hdr[r]
          /\ h["shared"] = db /\ h["staged"] = NoHeader /\ h["db"] = db
      BY <1>2, <2>1, <2>2, TypeParts, WriterThere, <1>1 DEF Headers, Up
    <3> HIDE DEF h
    <3>3. QED BY <3>1, <3>2, TypeParts
  <2>5. QED BY <2>3, <2>4
<1>5. Reclaimed(ret, free, frozen, FALSE, Floor(h))
  BY <1>3, <1>4, TypeParts, ReclaimEffect DEF Headers
<1>6. /\ Floor(h) \in Nat /\ Floor(h) <= h["shared"].epoch
      /\ \A r \in Reader : hdr[r] # NoHeader => Floor(h) <= hdr[r].epoch
  BY <1>4, FloorBelow DEF Headers
<1>7. db' = db
  BY <1>4 DEF db
<1>8. Leased(db)'
  BY <1>1, <1>2, <1>7, LeasedWriter DEF MemInv
<1>9. ASSUME NEW y \in Reading, hdr'[y] = hdr[y], Leased(hdr[y]), Floor(h) <= hdr[y].epoch
      PROVE  Leased(hdr[y])'
  <2>1. hdr[y].epoch \in Nat /\ Reach(hdr[y]) \subseteq 1..db.count
    BY <1>2, <1>9 DEF Leased, Clear
  <2>2. /\ Reach(hdr[y]) \cap Range(free') = {}
        /\ \A i \in DOMAIN retained' : retained'[i].block \in Reach(hdr[y]) => retained'[i].epoch >= hdr[y].epoch
    BY <1>4, <1>5, <1>6, <1>9, <2>1, LeaseSpared
  <2>3. QED BY <1>1, <1>2, <1>7, <1>9, <2>1, <2>2, LeaseOn
<1>10. ASSUME NEW y \in Reading, hdr'[y] = db PROVE Leased(hdr[y])'
  BY <1>7, <1>8, <1>10 DEF Leased, Clear
<1>11. \A r \in Reader : hdr'[r] # NoHeader => Leased(hdr[r])'
  BY <1>2, <1>4, <1>6, <1>9 DEF LeaseInv
<1>12. hdr'["shared"] # NoHeader => Leased(hdr["shared"])'
  BY <1>2, <1>4, <1>6, <1>9, <1>10 DEF LeaseInv
<1>13. hdr'["staged"] # NoHeader => Leased(hdr["staged"])'
  BY <1>2, <1>4, <1>10
<1>14. QED BY <1>1, <1>11, <1>12, <1>13 DEF LeaseInv

(* rollback_savepoint: the lists the savepoint began with are clear of      *)
(* every lease too, and what readers hold goes on waiting.                  *)
LEMMA LeaseRollback ==
  ASSUME TypeInv, SavepointInv, MemInv, LeaseInv, RollbackSavepoint
  PROVE  LeaseInv'
<1> DEFINE k == hdr["kept"]
           I == {i \in DOMAIN retained : retained[i].epoch < k.epoch}
<1>1. /\ Up /\ Up' /\ Within /\ ~Within' /\ mode' = "undo"
      /\ hdr' = [hdr EXCEPT !["db"] = [k EXCEPT !.epoch = db.epoch]] /\ free' = save.free
      /\ retained' = At(retained, I)
  BY DEF RollbackSavepoint, Up, Within, LetGoBefore
<1>2. /\ k \in Header /\ db.epoch \in Nat /\ Reading \subseteq Holder \ {"db"}
      /\ \A y \in Reading : hdr'[y] = hdr[y] /\ hdr[y].epoch \in Nat
      /\ hdr'["db"] = [k EXCEPT !.epoch = db.epoch]
  BY <1>1, ReadingParts, DiskParts, TypeParts DEF Within, Saved
<1> HIDE DEF k
<1>3. db'.count = k.count /\ db'.epoch = db.epoch
  BY <1>2 DEF db, Header
<1>4. \A i \in DOMAIN retained' : \E j \in DOMAIN retained : retained'[i] = retained[j]
  <2>1. I \subseteq DOMAIN retained /\ retained \in Seq(Wait)
    BY TypeParts
  <2>2. Range(At(retained, I)) = {retained[i] : i \in I}
    BY <2>1, WaitsAt
  <2>3. \A i \in DOMAIN retained' : retained'[i] \in {retained[j] : j \in I}
    BY <1>1, <2>2 DEF Range
  <2>4. QED BY <2>1, <2>3
<1>5. ASSUME NEW y \in Reading, Leased(hdr[y]) PROVE Leased(hdr[y])'
  <2>1. /\ Reach(hdr[y]) \cap Range(save.free) = {} /\ Reach(hdr[y]) \subseteq 1..k.count
        /\ \A i \in DOMAIN retained : retained[i].block \in Reach(hdr[y]) => retained[i].epoch >= hdr[y].epoch
    BY <1>1, <1>5 DEF Leased, k
  <2>2. \A i \in DOMAIN retained' : retained'[i].block \in Reach(hdr[y]) => retained'[i].epoch >= hdr[y].epoch
    BY <1>4, <2>1
  <2>3. QED BY <1>1, <1>2, <1>3, <1>5, <2>1, <2>2, LeaseOn
<1>6. QED BY <1>1, <1>2, <1>5, LeaseAll

(* keep_savepoint, stage_deferred, the sync, the flip and finish_rollback   *)
(* write none of a reader's blocks and free none.                           *)
LEMMA LeaseQuiet ==
  ASSUME TypeInv, SavepointInv, LeaseInv,
         KeepSavepoint \/ StageDeferred \/ CheckpointSync \/ CheckpointFlip \/ FinishRollback
  PROVE  LeaseInv'
<1>1. /\ UNCHANGED <<free, retained, mode>> /\ Up /\ Up' /\ (Within' <=> Within) /\ mode # "txn"
  BY DEF KeepSavepoint, InSavepoint, StageDeferred, CheckpointSync, CheckpointFlip, FinishRollback,
         SavepointInv, ControlInv, Up, Within, LeaseInv
<1>2. /\ Reading \subseteq Holder \ {"A", "B", "marker", "db", "kept", Inactive}
      /\ db \in Header /\ db.epoch \in Nat /\ DOMAIN hdr = Holder
      /\ {"kept", "db"} \subseteq Holder /\ Inactive \in Slot /\ Slot = {"A", "B"}
  BY <1>1, ReadingParts, DiskParts, TypeParts
<1>3. save'.free = save.free
  <2>1. CASE KeepSavepoint
    BY <2>1, KeptTypes DEF KeepSavepoint
  <2>2. CASE StageDeferred
    BY <2>2 DEF StageDeferred, SavepointInv, SaveRecord
  <2>3. CASE CheckpointSync \/ CheckpointFlip \/ FinishRollback
    BY <2>3 DEF CheckpointSync, CheckpointFlip, FinishRollback
  <2>4. QED BY <2>1, <2>2, <2>3
<1>4. /\ \A y \in Reading \cup {"kept"} : hdr'[y] = hdr[y]
      /\ db'.count = db.count /\ db'.epoch \in Nat /\ db'.epoch >= db.epoch
  <2>1. CASE KeepSavepoint
    <3>1. hdr' = Kept(hdr)
      BY <2>1 DEF KeepSavepoint
    <3>2. \A x \in Holder \ {"marker"} : hdr'[x] = hdr[x]
      BY <3>1, KeptTypes
    <3>3. QED BY <1>2, <3>2 DEF db
  <2>2. CASE StageDeferred \/ CheckpointSync
    BY <1>2, <2>2 DEF StageDeferred, CheckpointSync, db
  <2>3. CASE CheckpointFlip
    <3>1. hdr' = [hdr EXCEPT ![Inactive] = Flipped, !["db"] = Flipped]
      BY <2>3 DEF CheckpointFlip
    <3>2. Flipped.count = db.count /\ Flipped.epoch = db.epoch + 1
      BY <1>2 DEF Flipped, Header
    <3>3. db' = Flipped /\ \A y \in Reading \cup {"kept"} : hdr'[y] = hdr[y]
      BY <1>2, <3>1 DEF db
    <3>4. QED BY <1>2, <3>2, <3>3
  <2>4. CASE FinishRollback
    <3> DEFINE e == IF published > db.epoch THEN published ELSE db.epoch
               h == [db EXCEPT !.epoch = e]
    <3>1. hdr' = [hdr EXCEPT !["db"] = h]
      BY <1>2, <2>4 DEF FinishRollback, db
    <3>2. h.count = db.count /\ h.epoch = e
      BY <1>2 DEF Header
    <3>3. e \in Nat /\ e >= db.epoch
      BY <1>2, TypeParts, BlockFileAssumption
    <3> HIDE DEF e, h
    <3>4. db' = h /\ \A y \in Reading \cup {"kept"} : hdr'[y] = hdr[y]
      BY <1>2, <3>1 DEF db
    <3>5. QED BY <3>2, <3>3, <3>4
  <2>5. QED BY <2>1, <2>2, <2>3, <2>4
<1>5. QED BY <1>1, <1>3, <1>4, LeaseStill

(* A crash ends every lease; an open, and the end of a recovery, share the  *)
(* header the writer is on.                                                 *)
LEMMA LeaseRestart ==
  ASSUME TypeInv, TypeInv', SavepointInv, SavepointInv', MemInv', LeaseInv,
         (\E slot \in FlipOutcomes : Crash(slot)) \/ Open \/ ForgetKept
  PROVE  LeaseInv'
<1>1. /\ Reading \subseteq Holder \ {"A", "B", "marker", "db", "kept", Inactive} /\ Reading \cap OnDisk = {}
      /\ "shared" \in Reading /\ "staged" \in Reading /\ Reader \subseteq Reading /\ Reader \cap {"shared", "staged"} = {}
      /\ DOMAIN hdr = Holder /\ "db" \in Holder
  BY ReadingParts, HolderParts, TypeParts DEF TypeInv, Reading
<1>2. CASE \E slot \in FlipOutcomes : Crash(slot)
  <2>1. mode' = "down" /\ \A y \in Reading : hdr'[y] = NoHeader
    BY <1>1, <1>2 DEF Crash
  <2>2. QED BY <1>1, <2>1 DEF LeaseInv
<1>3. ASSUME mode' \in {"idle", "recover"} PROVE Leased(db)'
  <2>1. Up' /\ ~Within' /\ mode' # "raised"
    BY <1>3 DEF Up, Within
  <2>2. db'.epoch \in Nat
    <3>1. db' \in Header \cup {NoHeader}
      BY <1>1 DEF TypeInv, TypeOK, db
    <3>2. QED BY <3>1, HeaderParts, BlockFileAssumption
  <2>3. QED BY <2>1, <2>2, LeasedWriter DEF MemInv
<1>4. ASSUME NEW y \in Reading, hdr'[y] = db', mode' \in {"idle", "recover"} PROVE Leased(hdr[y])'
  BY <1>3, <1>4 DEF Leased, Clear
<1>5. CASE Open
  <2>1. /\ mode' \in {"idle", "recover"} /\ mode = "down"
        /\ hdr' = [hdr EXCEPT !["db"] = Adopted(hdr), !["shared"] = Adopted(hdr)]
    BY <1>5 DEF Open
  <2>2. \A y \in Reading \ {"shared"} : hdr'[y] = hdr[y] /\ hdr[y] = NoHeader
    BY <1>1, <2>1 DEF TypeInv, Up
  <2>3. hdr'["shared"] = db'
    BY <1>1, <2>1 DEF db
  <2>4. QED BY <1>1, <1>4, <2>1, <2>2, <2>3 DEF LeaseInv
<1>6. CASE ForgetKept
  <2>1. /\ mode = "recover" /\ mode' = "idle" /\ hdr' = [hdr EXCEPT !["marker"] = NoHeader, !["shared"] = db]
        /\ UNCHANGED <<free, retained>>
    BY <1>6 DEF ForgetKept
  <2>2. /\ hdr'["shared"] = db /\ db' = db /\ \A y \in Reading \ {"shared"} : hdr'[y] = hdr[y]
    BY <1>1, <2>1 DEF db
  <2>3. /\ db.epoch \in Nat /\ \A y \in Reading : hdr[y].epoch \in Nat
    BY <2>1, ReadingParts DEF Up
  <2>4. ASSUME NEW y \in Reading \ {"shared"}, Leased(hdr[y]) PROVE Leased(hdr[y])'
    BY <2>1, <2>2, <2>4 DEF Leased, Clear, Up, Within
  <2>5. hdr["shared"].epoch <= db.epoch
    BY <1>1, <2>1 DEF LeaseInv, TypeInv, Up, Leased
  <2>6. Leased(hdr["shared"])'
    BY <1>1, <1>4, <2>1, <2>2
  <2>7. \A r \in Reader : hdr'[r] # NoHeader => Leased(hdr[r])'
    BY <1>1, <2>2, <2>4 DEF LeaseInv
  <2>8. hdr'["staged"] # NoHeader /\ hdr'["staged"].epoch > hdr'["shared"].epoch => Leased(hdr["staged"])'
    BY <1>1, <2>2, <2>3, <2>4, <2>5 DEF LeaseInv
  <2>9. QED BY <2>1, <2>6, <2>7, <2>8 DEF LeaseInv
<1>7. QED BY <1>2, <1>5, <1>6

(* A new file is published as it is.                                        *)
LEMMA InitLease == Init => LeaseInv
<1> DEFINE fresh == [epoch |-> 1, roots |-> {}, count |-> 0, list |-> <<>>, chain |-> <<>>, ok |-> TRUE]
<1> SUFFICES ASSUME Init PROVE LeaseInv
  OBVIOUS
<1>1. /\ hdr = [x \in Holder |-> IF x \in {"A", "db", "shared"} THEN fresh ELSE NoHeader]
      /\ free = <<>> /\ retained = <<>> /\ mode = "idle"
  BY DEF Init
<1>2. Reach(fresh) = {} /\ fresh.ok /\ fresh.epoch = 1
  BY FreshSound
<1> HIDE DEF fresh
<1>3. {"db", "shared", "staged"} \cup Reader \subseteq Holder /\ Reader \cap {"A", "db", "shared"} = {}
  BY ReaderAssumption DEF Holder, OnDisk, InMemory, Slot
<1>4. db = fresh /\ hdr["shared"] = fresh /\ hdr["staged"] = NoHeader /\ \A r \in Reader : hdr[r] = NoHeader
  BY <1>1, <1>3 DEF db
<1>5. Leased(hdr["shared"])
  BY <1>1, <1>2, <1>4 DEF Leased, Clear, Up, Within
<1>6. QED BY <1>1, <1>4, <1>5 DEF LeaseInv

(* Every step keeps the blocks of every lease.                              *)
LEMMA LeaseStep ==
  ASSUME TypeInv, TypeInv', SavepointInv, SavepointInv', MemInv, MemInv', LeaseInv,
         "explicit" \notin Allow, [Next]_vars
  PROVE  LeaseInv'
<1>1. mode # "txn"
  BY DEF LeaseInv
<1>2. CASE (\E r \in Reader : Observe(r) \/ Idle(r)) \/ PublishStaged
  BY <1>2, LeaseReaders
<1>3. CASE \E across, settled \in BOOLEAN : Hold(across, settled)
  BY <1>3, LeaseHold
<1>4. CASE KeepSavepoint \/ StageDeferred \/ CheckpointSync \/ CheckpointFlip \/ FinishRollback
  BY <1>4, LeaseQuiet
<1>5. CASE mode # "down" /\ \E F \in Freed : StagedFold(F) \/ CheckpointFold(F) \/ FoldFails(F)
  BY <1>5, LeaseFold
<1>6. CASE CheckpointChain
  BY <1>6, LeaseChain
<1>7. CASE SettleKeeps \/ UndoDone
  BY <1>7, LeaseSettle
<1>8. CASE SettleInside \/ Commit
  BY <1>1, <1>8 DEF SettleInside, Commit
<1>9. CASE RollbackSavepoint
  BY <1>9, LeaseRollback
<1>10. CASE (\E slot \in FlipOutcomes : Crash(slot)) \/ Open \/ ForgetKept
  BY <1>10, LeaseRestart
<1>11. CASE UNCHANGED vars
  BY <1>11 DEF vars, LeaseInv, Leased, Clear, Up, Within, db
<1>12. QED BY <1>2, <1>3, <1>4, <1>5, <1>6, <1>7, <1>8, <1>9, <1>10, <1>11 DEF Next

---------------------------------------------------------------------------
(* The theorems about blocks. *)

(* allocate_block, free_block, checkpoint: every header and every list of   *)
(* blocks stays within the file, whatever the callers do.                   *)
THEOREM BlocksInRange == Spec => []TypeInv
<1>1. Init /\ SavepointInv => TypeInv
  BY InitTypes
<1>2. TypeInv /\ SavepointInv /\ SavepointInv' /\ [Next]_vars => TypeInv'
  BY TypesStep
<1>3. QED BY <1>1, <1>2, SavepointInductive, PTL DEF Spec

\* What the proofs need of the callers: a fold that failed is undone, and
\* where the process may crash, a statement commits once, raises before it has
\* checkpointed, and a transaction begins on what is published.
CallersUndo == "carryon" \notin Allow /\ (MaxCrash = 0 \/ Allow \subseteq {"explicit"})

\* All of it: the disk where the process may crash, the leases where no
\* transaction runs across statements.
FileInv ==
  /\ TypeInv /\ SavepointInv /\ MemInv
  /\ Allow \subseteq {"explicit"} => DiskInv
  /\ "explicit" \notin Allow => LeaseInv

(* Every step of the file keeps all of it, whatever the callers do of what  *)
(* CallersUndo leaves them.                                                 *)
THEOREM FileInductive == ASSUME CallersUndo PROVE Spec => []FileInv
<1>1. Init => MemInv /\ DiskInv /\ LeaseInv
  BY InitMem, InitDisk, InitLease
<1>2. ASSUME TypeInv, TypeInv', SavepointInv, SavepointInv', FileInv, [Next]_vars PROVE FileInv'
  <2>1. MemInv /\ (Allow \subseteq {"explicit"} => DiskInv) /\ ("explicit" \notin Allow => LeaseInv)
    BY <1>2 DEF FileInv
  <2>2. mode = "down" => HeaderSound(Adopted(hdr)) /\ Adopted(hdr).ok
    <3>1. CASE Allow \subseteq {"explicit"}
      BY <1>2, <2>1, <3>1, AdoptedSound
    <3>2. CASE MaxCrash = 0
      <4>1. crashes \in 0..0
        BY <1>2, <3>2, TypeParts
      <4>2. mode # "down"
        BY <1>2, <4>1 DEF TypeInv
      <4>3. QED BY <4>2
    <3>3. QED BY <3>1, <3>2 DEF CallersUndo
  <2>3. MemInv'
    BY <1>2, <2>1, <2>2, MemStep DEF CallersUndo
  <2>4. Allow \subseteq {"explicit"} => DiskInv'
    BY <1>2, <2>1, DiskStep
  <2>5. "explicit" \notin Allow => LeaseInv'
    BY <1>2, <2>1, <2>3, LeaseStep
  <2>6. QED BY <1>2, <2>3, <2>4, <2>5 DEF FileInv
<1>3. Init /\ TypeInv /\ SavepointInv => FileInv
  BY <1>1 DEF FileInv
<1>4. FileInv /\ TypeInv /\ TypeInv' /\ SavepointInv /\ SavepointInv' /\ [Next]_vars => FileInv'
  BY <1>2
<1>5. QED BY <1>3, <1>4, BlocksInRange, SavepointInductive, PTL DEF Spec

(* checkpoint, keep_savepoint, open_kind: at every moment a crash can fall, *)
(* the header the next open would adopt is whole: nothing it reaches has    *)
(* been overwritten or left unsynced.                                       *)
THEOREM RecoveryWhole == ASSUME Allow \subseteq {"explicit"} PROVE Spec => []RecoveryIntact
<1>1. FileInv => RecoveryIntact
  <2> SUFFICES ASSUME FileInv PROVE RecoveryIntact
    OBVIOUS
  <2> DEFINE h == [x \in Holder |-> IF x \in OnDisk THEN Overwritten(hdr[x], dirty) ELSE hdr[x]]
  <2>1. TypeInv /\ SavepointInv /\ MemInv /\ DiskInv
    BY DEF FileInv
  <2>2. /\ \A x \in {"A", "B", "marker"} : h[x] = Overwritten(hdr[x], dirty) /\ hdr[x] \in Header \cup {NoHeader}
    BY <2>1, TypeParts DEF OnDisk, Slot, Holder
  <2>3. RecoveryIntact <=> Adopted(h).ok
    BY DEF RecoveryIntact
  <2> HIDE DEF h
  <2>4. \A x \in {"A", "B", "marker"} : /\ h[x] = NoHeader <=> hdr[x] = NoHeader
                                        /\ h[x].epoch = hdr[x].epoch
    BY <2>2, OverwrittenTwin, TwinParts
  <2>5. Newest(h) = Newest(hdr) /\ Newest(hdr) \in {"A", "B"}
    BY <2>4 DEF Newest
  <2>6. MarkerWins(h) <=> MarkerWins(hdr)
    BY <2>4, <2>5 DEF MarkerWins
  <2>7. CASE hdr["marker"] = NoHeader
    <3>1. Safe(Cur) /\ ~MarkerWins(hdr)
      BY <2>1, <2>7, AdoptedSound DEF MarkerWins
    <3>2. h[Newest(hdr)] = Cur
      BY <2>1, <2>2, <2>5, <3>1, NotTouched DEF Safe, Cur
    <3>3. QED BY <2>3, <2>5, <2>6, <3>1, <3>2 DEF Adopted, Safe
  <2>8. CASE hdr["marker"] # NoHeader
    <3>1. Safe(hdr["marker"]) /\ hdr["marker"].epoch <= Cur.epoch
      BY <2>1, <2>8 DEF DiskInv, MarkerSound
    <3>2. h["marker"] = hdr["marker"]
      BY <2>2, <3>1, NotTouched DEF Safe
    <3>3. MarkerWins(hdr)
      BY <2>8, <3>1 DEF MarkerWins, Cur
    <3>4. QED BY <2>3, <2>6, <3>1, <3>2, <3>3 DEF Adopted, Safe
  <2>9. QED BY <2>7, <2>8
<1>2. CallersUndo
  BY DEF CallersUndo
<1>3. QED BY <1>1, <1>2, FileInductive, PTL

(* allocate_block: the writer is never on a header with a block written     *)
(* into, through every fold, checkpoint, rollback and recovery.             *)
THEOREM WriterWhole == ASSUME CallersUndo PROVE Spec => []WriterIntact
<1>1. FileInv => WriterIntact
  BY DEF FileInv, MemInv, PlacesInv, Up, WriterIntact
<1>2. QED BY <1>1, FileInductive, PTL

(* free_block, checkpoint, release_retained, rollback_savepoint: no block   *)
(* is in two lists or twice in one, and a published free list names nothing *)
(* in use.                                                                  *)
THEOREM ListsSound == ASSUME CallersUndo PROVE Spec => []ListInv
<1>1. FileInv => ListInv
  <2> SUFFICES ASSUME FileInv PROVE ListInv
    OBVIOUS
  <2>1. TypeInv /\ SavepointInv /\ MemInv /\ TypeOK
    BY DEF FileInv, TypeInv
  <2>2. ASSUME mode \notin {"down", "raised"}
        PROVE  IsInjective(SetToSeq(db.roots) \o db.chain \o free \o pending \o frozen \o BlocksOf(retained))
    <3>1. Apart(db, free, pending, frozen, retained)
      BY <2>1, <2>2 DEF MemInv, PlacesInv, Listable
    <3>2. /\ db.roots \subseteq BlockNo /\ IsFiniteSet(db.roots) /\ db.chain \in Seq(BlockNo)
          /\ free \in Seq(BlockNo) /\ pending \in Seq(BlockNo) /\ frozen \in Seq(BlockNo)
          /\ BlocksOf(retained) \in Seq(BlockNo)
      BY <2>1, <2>2, TypeParts, WriterThere, BlocksListed
    <3> DEFINE r == SetToSeq(db.roots)
               a == r \o db.chain
               b == a \o free
               c == b \o pending
               d == c \o frozen
    <3>3. r \in Seq(db.roots) /\ Range(r) = db.roots /\ IsInjective(r)
      BY <3>2, SetAsList
    <3>4. r \in Seq(BlockNo)
      BY <3>2, <3>3
    <3> HIDE DEF r
    <3>5. a \in Seq(BlockNo) /\ Range(a) = db.roots \cup Range(db.chain) /\ IsInjective(a)
      <4>1. db.roots \cap Range(db.chain) = {} /\ IsInjective(db.chain)
        BY <3>1 DEF Apart
      <4>2. QED BY <3>2, <3>3, <3>4, <4>1, Behind
    <3> HIDE DEF a
    <3>6. b \in Seq(BlockNo) /\ Range(b) = Range(a) \cup Range(free) /\ IsInjective(b)
      <4>1. Range(a) \cap Range(free) = {} /\ IsInjective(free)
        BY <3>1, <3>5 DEF Apart
      <4>2. QED BY <3>2, <3>5, <4>1, Behind
    <3> HIDE DEF b
    <3>7. c \in Seq(BlockNo) /\ Range(c) = Range(b) \cup Range(pending) /\ IsInjective(c)
      <4>1. Range(b) \cap Range(pending) = {} /\ IsInjective(pending)
        BY <3>1, <3>5, <3>6 DEF Apart
      <4>2. QED BY <3>2, <3>6, <4>1, Behind
    <3> HIDE DEF c
    <3>8. d \in Seq(BlockNo) /\ Range(d) = Range(c) \cup Range(frozen) /\ IsInjective(d)
      <4>1. Range(c) \cap Range(frozen) = {} /\ IsInjective(frozen)
        BY <3>1, <3>5, <3>6, <3>7 DEF Apart
      <4>2. QED BY <3>2, <3>7, <4>1, Behind
    <3> HIDE DEF d
    <3>9. Range(d) \cap Range(BlocksOf(retained)) = {} /\ IsInjective(BlocksOf(retained))
      BY <3>1, <3>5, <3>6, <3>7, <3>8 DEF Apart, Blocks
    <3>10. IsInjective(d \o BlocksOf(retained))
      BY <3>2, <3>8, <3>9, Behind
    <3>11. QED BY <3>10 DEF a, b, c, d, r
  <2>3. PlacesDisjoint
    BY <2>2 DEF PlacesDisjoint
  <2>4. ListSound
    BY <2>1 DEF MemInv, SlotsSound, HeaderSound, ListSound
  <2>5. QED BY <2>1, <2>3, <2>4 DEF ListInv
<1>2. QED BY <1>1, FileInductive, PTL

(* observe, reclaim: outside transactions, a reader's header stays whole    *)
(* while its lease stands.                                                  *)
THEOREM LeasesWhole ==
  ASSUME CallersUndo, "explicit" \notin Allow PROVE Spec => []LeasedIntact
<1>1. FileInv => LeasedIntact
  BY DEF FileInv, LeaseInv, Leased, LeasedIntact
<1>2. QED BY <1>1, FileInductive, PTL
============================================================================
