------------------------------- MODULE Overlay -------------------------------
(***************************************************************************)
(* How a committed statement becomes readable (zu/src/write.rs,            *)
(* zu-zu1/src/txn.rs and fold.rs). A commit goes to the log and to the     *)
(* overlay store (Mvcc). It is then either folded, which rebuilds the      *)
(* tables from the overlays, or deferred, which adds it to a patch every   *)
(* reader lays over the tables it has loaded. So one statement is carried  *)
(* out three times, by the patch, by the fold and by the replay of the     *)
(* log, and the three have to leave the same graph.                        *)
(*                                                                         *)
(* Rows are 1, 2, ... A chain of the store is read at the store's newest   *)
(* epoch only, so a cell's chain is its last entry here. The sizes that    *)
(* end a run of deferred commits (DEFERRED_COMMITS, DEFERRED_CELLS, ...)   *)
(* are left open, so any commit may fold; the blocks a fold takes are      *)
(* counted as one, against checkpoint_due's slack. Values are carried and  *)
(* never compared, so each commit writes one of its own, its epoch, and    *)
(* the file was loaded with 0. Sync of the log is GroupCommit's, a crash   *)
(* inside a transaction Recovery's.                                        *)
(***************************************************************************)
EXTENDS Integers, Sequences, FiniteSets, SequencesExt

CONSTANTS
  Label,      \* labels a row may carry beside its table's own
  Null,       \* the absence of a value
  Zero,       \* what a column without a mask reads where a row holds nothing
  MaxRows,    \* bound: rows of the node table
  MaxCommit,  \* bound: commits
  Slack,      \* staged folds after which a checkpoint is due
  Allow       \* hazards exercised, a subset of Behaviours

\* "staleupdate" - an edge is put back over a pair that was written onto and
\*                 taken away since the log was last cut.
\* "nulledge"    - an edge with nothing in a column whose edges all hold a value.
Behaviours == {"staleupdate", "nulledge"}

ASSUME OverlayAssumption ==
  MaxRows \in Nat /\ MaxCommit \in Nat /\ Slack \in Nat /\ Allow \subseteq Behaviours

VARIABLES
  base,    \* the tables the header in memory names, staged folds included
  header,  \* its epoch
  staged,  \* folds since the last checkpoint (Zu1File::unpublished_blocks)
  disk,    \* [tables, floor]: what the header on disk names
  log,     \* the sidecar: frames [epoch, ops]
  mvcc,    \* the overlay store
  patch,   \* Writer::patches
  reader   \* another session: [epoch, tables], what it has loaded

vars == <<base, header, staged, disk, log, mvcc, patch, reader>>

Value == 0..MaxCommit
Cell == Value \cup {Null}
NoCells == << >>  \* the empty function

-----------------------------------------------------------------------------
(* The operations a transaction stages (txn.rs, Op).                        *)

OpRow(v) == [op |-> "rows", val |-> v]
OpEdge(p, v) == [op |-> "edge", pair |-> p, val |-> v]
OpCell(r, v) == [op |-> "cell", row |-> r, val |-> v]
OpEdgeCell(p, v) == [op |-> "ecell", pair |-> p, val |-> v]
OpLabels(r, add, remove) == [op |-> "label", row |-> r, add |-> add, remove |-> remove]
OpDead(p) == [op |-> "dead", pair |-> p]
OpGone(r) == [op |-> "gone", row |-> r]

Only(ops, kinds) == SelectSeq(ops, LAMBDA o : o.op \in kinds)
PairsOf(ops, kind) == {o.pair : o \in {x \in ToSet(ops) : x.op = kind}}

\* build_records: the order the log keeps a transaction's operations in.
Records(ops) ==
  Only(ops, {"rows", "edge"}) \o Only(ops, {"cell"}) \o Only(ops, {"ecell"})
    \o Only(ops, {"label"}) \o Only(ops, {"dead"}) \o Only(ops, {"gone"})

-----------------------------------------------------------------------------
(* The overlay store.                                                       *)

\* Mvcc::new, with the persisted tombstones seeded back.
Fresh(epoch, tables) ==
  [epoch |-> epoch, appended |-> << >>, updates |-> NoCells, tombs |-> tables.gone,
   labels |-> NoCells, edges |-> << >>, dead |-> NoCells, eupdates |-> NoCells]

Set(f, k, v) == [x \in DOMAIN f \cup {k} |-> IF x = k THEN v ELSE f[x]]
Get(f, k, none) == IF k \in DOMAIN f THEN f[k] ELSE none

\* Mvcc::apply and the replay's arms, one operation at an epoch.
ApplyOp(m, o, e) ==
  CASE o.op = "rows" -> [m EXCEPT !.appended = Append(@, o.val)]
    [] o.op = "edge" -> [m EXCEPT !.edges = Append(@, [epoch |-> e, pair |-> o.pair, val |-> o.val])]
    [] o.op = "cell" -> [m EXCEPT !.updates = Set(@, o.row, o.val)]
    [] o.op = "ecell" -> [m EXCEPT !.eupdates = Set(@, o.pair, o.val)]
    [] o.op = "label" -> [m EXCEPT !.labels =
         Set(@, o.row, Append(Get(@, o.row, << >>), [add |-> o.add, remove |-> o.remove]))]
    [] o.op = "dead" -> [m EXCEPT !.dead = Set(@, o.pair, Get(@, o.pair, {}) \cup {e})]
    [] o.op = "gone" -> [m EXCEPT !.tombs = @ \cup {o.row}]

Apply(m, ops, e) ==
  [FoldLeft(LAMBDA acc, o : ApplyOp(acc, o, e), m, ops) EXCEPT !.epoch = e]

\* Mvcc::edge_gone: a pair was taken away at or after the epoch it was added at.
EdgeGone(m, pair, since) == \E e \in Get(m.dead, pair, {}) : since <= e

\* Mutant: an added edge that was taken away again is folded in all the same.
AddedAll(m) == m.edges

\* Mvcc::edge_cells: the added edges that are still there.
Added(m) == SelectSeq(m.edges, LAMBDA x : ~EdgeGone(m, x.pair, x.epoch))

\* Mvcc::label_changes: a row's changes as one pair of masks.
LabelChange(chain) ==
  FoldLeft(LAMBDA acc, c : [add |-> (acc.add \ c.remove) \cup c.add,
                            remove |-> (acc.remove \ c.add) \cup c.remove],
           [add |-> {}, remove |-> {}], chain)

-----------------------------------------------------------------------------
(* The fold: new tables out of the old ones and the store.                  *)

FoldCells(t, m) ==
  LET was == t.cells \o m.appended
  IN  [i \in 1..Len(was) |-> Get(m.updates, i, was[i])]

FoldMarks(t, m) ==
  [i \in 1..(Len(t.cells) + Len(m.appended)) |->
     LET word == IF i <= Len(t.marks) THEN t.marks[i] ELSE {}
         c == LabelChange(Get(m.labels, i, << >>))
     IN  (word \cup c.add) \ c.remove]

\* fold_tombstones
FoldGone(t, m) == t.gone \cup m.tombs

\* fold_rel: the edges of the base that are not dead, and the added ones.
MergedEdges(t, m) ==
  LET kept == DOMAIN t.edges \ DOMAIN m.dead
      added == ToSet(Added(m))
  IN  [p \in kept \cup {x.pair : x \in added} |->
         IF p \in kept THEN t.edges[p] ELSE (CHOOSE x \in added : x.pair = p).val]

\* fold_rel_props: the values written onto a pair, over those.
FoldEdges(t, m) ==
  LET merged == MergedEdges(t, m)
  IN  [p \in DOMAIN merged |-> Get(m.eupdates, p, merged[p])]

Fold(t, m) ==
  [cells |-> FoldCells(t, m), marks |-> FoldMarks(t, m),
   gone |-> FoldGone(t, m), edges |-> FoldEdges(t, m)]

\* recover: the frames above the header's floor, replayed in record order.
Recovered ==
  FoldLeft(LAMBDA m, f : Apply(m, f.ops, f.epoch), Fresh(disk.floor, disk.tables),
           SelectSeq(log, LAMBDA f : f.epoch > disk.floor))

-----------------------------------------------------------------------------
(* The patch.                                                               *)

NoPatch ==
  [cells |-> NoCells, rows |-> << >>, marks |-> NoCells, gone |-> {},
   adds |-> NoCells, dead |-> {}, ecells |-> NoCells, erows |-> << >>]

\* A column keeps a mask when some row of it holds nothing (Validity::write).
Nullable(column) == Null \in column
NodeColumn(t) == ToSet(t.cells)
EdgeColumn(t) == {t.edges[p] : p \in DOMAIN t.edges}

Before(p, q) == p[1] < q[1] \/ (p[1] = q[1] /\ p[2] < q[2])
EdgeCount(t) == Cardinality(DOMAIN t.edges)

\* GraphReader::edge_run: where in load order the file holds the pair.
Ordinal(t, pair) == Cardinality({p \in DOMAIN t.edges : Before(p, pair)}) + 1

\* A reader asks whether a row holds a value only of a column that has a mask.
Seen(v, column) == IF v = Null /\ ~Nullable(column) THEN Zero ELSE v

\* The graph a reader sees who lays patch p over tables t.
View(t, p) ==
  LET cell(i) == IF i <= Len(t.cells) THEN Get(p.cells, i, t.cells[i])
                 ELSE Seen(p.rows[i - Len(t.cells)], NodeColumn(t))
      ecell(q) == IF q \in DOMAIN p.adds
                  THEN Seen(p.erows[p.adds[q] - EdgeCount(t)], EdgeColumn(t))
                  ELSE Get(p.ecells, Ordinal(t, q), t.edges[q])
      rows == 1..(Len(t.cells) + Len(p.rows))
      word(i) == IF i <= Len(t.marks) THEN t.marks[i] ELSE {}
  IN  [cells |-> [i \in rows |-> cell(i)],
       marks |-> [i \in rows |-> Get(p.marks, i, word(i))],
       gone |-> t.gone \cup p.gone,
       edges |-> [q \in (DOMAIN t.edges \ p.dead) \cup DOMAIN p.adds |-> ecell(q)]]

-----------------------------------------------------------------------------
(* Writer::defers: whether every operation of the commit is one the patch   *)
(* can carry. The readers it asks are the file's, so the file's edges and   *)
(* the patch's are asked separately.                                        *)

\* The rows the commit has put on the end of the table before operation i.
Appending(ops, i) == Len(Only(SubSeq(ops, 1, i - 1), {"rows"}))
Held(p) == Len(base.cells) + Len(p.rows)

\* Writer::patchable, with RowPatch::settable for a row the run appended
Patchable(p, o) ==
  /\ o.val # Null
  /\ ~Nullable(NodeColumn(base))
  /\ o.row <= Held(p)

\* Writer::edge_cells
EdgeCellPatchable(p, o) ==
  /\ o.val # Null
  /\ ~Nullable(EdgeColumn(base))
  /\ \/ o.pair \in DOMAIN p.adds
     \/ o.pair \notin p.dead /\ o.pair \in DOMAIN base.edges

\* Writer::edge_patchable
EdgePatchable(p, ops, i) ==
  LET pair == ops[i].pair IN
  /\ pair \notin DOMAIN p.adds
  /\ {pair[1], pair[2]} \subseteq 1..(Held(p) + Appending(ops, i))
  /\ pair \in p.dead \/ pair \notin DOMAIN base.edges

\* Writer::appendable
Appendable(o) == o.val = Null => Nullable(NodeColumn(base))

\* Writer::removable: nothing the file, the patch or the commit itself holds
\* runs onto the row once the pairs taken away are gone.
Removable(p, ops, i) ==
  LET row == ops[i].row
      gone == p.dead \cup PairsOf(ops, "dead")
      on == {q \in DOMAIN base.edges \cup DOMAIN p.adds \cup PairsOf(ops, "edge") :
               row \in {q[1], q[2]}}
  IN  /\ row <= Held(p) + Appending(ops, i)
      /\ on \subseteq gone

Takes(p, ops, i) ==
  LET o == ops[i] IN
  CASE o.op = "cell" -> Patchable(p, o)
    [] o.op = "ecell" -> EdgeCellPatchable(p, o)
    [] o.op = "edge" -> EdgePatchable(p, ops, i)
    [] o.op = "rows" -> Appendable(o)
    [] o.op = "gone" -> Removable(p, ops, i)
    [] o.op = "label" -> o.row <= Held(p)
    [] o.op = "dead" -> TRUE

Defers(p, ops) == \A i \in DOMAIN ops : Takes(p, ops, i)

-----------------------------------------------------------------------------
(* Writer::stage_patch, one operation. A row of the node table and one of   *)
(* the rel table past what the file holds lies in the patch's own rows.     *)

\* Mutant: putting a pair back revives the file's copy of it.
AddEdgeUnmarks(p, pair, v) ==
  [p EXCEPT !.adds = Set(@, pair, EdgeCount(base) + Len(p.erows) + 1),
            !.erows = Append(@, v), !.dead = @ \ {pair}]

\* EdgePatch::add: the next ordinal, and the row of values under it.
AddEdge(p, pair, v) ==
  [p EXCEPT !.adds = Set(@, pair, EdgeCount(base) + Len(p.erows) + 1),
            !.erows = Append(@, v)]

\* EdgePatch::remove: the patch's own copy comes out of its lists, and its
\* ordinal stays spent; a pair of the file's is marked.
RemoveEdge(p, pair) ==
  IF pair \in DOMAIN p.adds
  THEN [p EXCEPT !.adds = [q \in DOMAIN @ \ {pair} |-> @[q]]]
  ELSE [p EXCEPT !.dead = @ \cup {pair}]

SetCell(p, row, v) ==
  IF row > Len(base.cells)
  THEN [p EXCEPT !.rows[row - Len(base.cells)] = v]
  ELSE [p EXCEPT !.cells = Set(@, row, v)]

SetEdgeCell(p, pair, v) ==
  IF pair \in DOMAIN p.adds
  THEN [p EXCEPT !.erows[p.adds[pair] - EdgeCount(base)] = v]
  ELSE [p EXCEPT !.ecells = Set(@, Ordinal(base, pair), v)]

\* Writer::marked: the word the row is left with.
Marked(p, o) ==
  LET stored == IF o.row <= Len(base.marks) THEN base.marks[o.row] ELSE {}
  IN  (Get(p.marks, o.row, stored) \cup o.add) \ o.remove

StageOp(p, o) ==
  CASE o.op = "cell" -> SetCell(p, o.row, o.val)
    [] o.op = "ecell" -> SetEdgeCell(p, o.pair, o.val)
    [] o.op = "edge" -> AddEdge(p, o.pair, o.val)
    [] o.op = "rows" -> [p EXCEPT !.rows = Append(@, o.val)]
    [] o.op = "gone" -> [p EXCEPT !.gone = @ \cup {o.row}]
    [] o.op = "label" -> [p EXCEPT !.marks = Set(@, o.row, Marked(p, o))]
    [] o.op = "dead" -> RemoveEdge(p, o.pair)

StagePatch(p, ops) == FoldLeft(StageOp, p, ops)

-----------------------------------------------------------------------------
(* The steps.                                                               *)

\* Writer::write, once the statement has staged ops: the frames, the store, and
\* then the patch or a fold, which checkpoints when one is due.
Deferred(ops) ==
  /\ Defers(patch, ops)
  /\ patch' = StagePatch(patch, ops)
  /\ log' = Append(log, [epoch |-> mvcc.epoch + 1, ops |-> Records(ops)])
  /\ mvcc' = Apply(mvcc, ops, mvcc.epoch + 1)
  /\ UNCHANGED <<base, header, staged, disk>>

\* Mutants: the fold leaves the epoch where it was; it cuts the log.
StagedFoldSameEpoch(frames, store) ==
  /\ base' = Fold(base, store)
  /\ header' = header
  /\ staged' = staged + 1
  /\ patch' = NoPatch
  /\ log' = frames
  /\ mvcc' = Fresh(store.epoch, base')
  /\ UNCHANGED disk

StagedFoldCuts(frames, store) ==
  /\ base' = Fold(base, store)
  /\ header' = header + 1
  /\ staged' = staged + 1
  /\ patch' = NoPatch
  /\ log' = << >>
  /\ mvcc' = Fresh(store.epoch, base')
  /\ UNCHANGED disk

\* staged_fold and sealed: the header in memory moves, the log stays.
StagedFold(frames, store) ==
  /\ base' = Fold(base, store)
  /\ header' = header + 1
  /\ staged' = staged + 1
  /\ patch' = NoPatch
  /\ log' = frames
  /\ mvcc' = Fresh(store.epoch, base')
  /\ UNCHANGED disk

\* checkpoint_fold and sealed: the header is published and the log cut.
CheckpointFold(tables, store) ==
  /\ base' = Fold(tables, store)
  /\ header' = header + 1
  /\ staged' = 0
  /\ patch' = NoPatch
  /\ disk' = [tables |-> base', floor |-> store.epoch]
  /\ log' = << >>
  /\ mvcc' = Fresh(store.epoch, base')

CheckpointDue == staged >= Slack

Write(ops) ==
  LET e == mvcc.epoch + 1
      store == Apply(mvcc, ops, e)
  IN  /\ \/ ~CheckpointDue /\ Deferred(ops)
         \/ ~CheckpointDue /\ StagedFold(Append(log, [epoch |-> e, ops |-> Records(ops)]), store)
         \/ CheckpointDue /\ CheckpointFold(base, store)
      /\ UNCHANGED reader

\* What the statements stage, over the graph the session reads (insert.rs,
\* set.rs, delete.rs). A statement matches rows that are there.
Now == View(base, patch)
LiveRows == 1..Len(Now.cells) \ Now.gone
Room == Len(Now.cells) < MaxRows

\* What a statement writes: its own value, or nothing.
Mine == {mvcc.epoch + 1}
MineOrNull == Mine \cup {Null}
EdgeValues ==
  IF Nullable(EdgeColumn(base)) \/ "nulledge" \in Allow THEN MineOrNull ELSE Mine

InsertNode(v) == Room /\ Write(<<OpRow(v)>>)

\* The pairs a frame of the log writes onto.
Rewritten == UNION {PairsOf(f.ops, "ecell") : f \in ToSet(log)}

\* refuse_duplicate_pairs: a pair runs once through a table with properties.
InsertEdge(a, b, v) ==
  /\ <<a, b>> \notin DOMAIN Now.edges
  /\ <<a, b>> \in Rewritten => "staleupdate" \in Allow
  /\ Write(<<OpEdge(<<a, b>>, v)>>)

\* Mutant: the new row's number is taken from the file, without the patch's rows.
InsertPathFile(a, v, w) ==
  Room /\ Write(<<OpRow(v), OpEdge(<<a, Len(base.cells) + 1>>, w)>>)

InsertPath(a, v, w) ==
  Room /\ Write(<<OpRow(v), OpEdge(<<a, Len(Now.cells) + 1>>, w)>>)

SetNode(a, v) == Write(<<OpCell(a, v)>>)
SetEdge(p, v) == Write(<<OpEdgeCell(p, v)>>)
SetLabels(a, add, remove) == Write(<<OpLabels(a, add, remove)>>)
DeleteEdge(p) == Write(<<OpDead(p)>>)

\* The edges on the row, and then the row.
DetachDelete(a) ==
  LET on == {p \in DOMAIN Now.edges : a \in {p[1], p[2]}}
  IN  Write([i \in 1..Cardinality(on) |-> OpDead(SetToSeq(on)[i])] \o <<OpGone(a)>>)

\* Writer::fold with no statement behind it (WriteSide::fold_writer, before the
\* file is lent out or let go of).
FoldWriter ==
  /\ log # << >>
  /\ CheckpointFold(base, mvcc)
  /\ UNCHANGED reader

\* The process stops and the file is opened again: recover, and Writer::open's
\* fold of what it found. Sessions begin afresh.
Restart ==
  /\ log # << >>
  /\ CheckpointFold(disk.tables, Recovered)
  /\ reader' = [epoch |-> header', tables |-> base']

\* Session::sync: the header is followed; a moved epoch drops what was loaded
\* under the old one (refresh). The patch is handed over either way
\* (hand_patches), to be laid over the tables the session then has.
Sync ==
  /\ reader.epoch # header
  /\ reader' = [epoch |-> header, tables |-> base]
  /\ UNCHANGED <<base, header, staged, disk, log, mvcc, patch>>

Statement ==
  \/ \E v \in MineOrNull : InsertNode(v)
  \/ \E a, b \in LiveRows, v \in EdgeValues : InsertEdge(a, b, v)
  \/ \E a \in LiveRows, v \in Mine, w \in EdgeValues : InsertPath(a, v, w)
  \/ \E a \in LiveRows, v \in MineOrNull : SetNode(a, v)
  \/ \E p \in DOMAIN Now.edges, v \in MineOrNull : SetEdge(p, v)
  \/ \E a \in LiveRows, l \in Label : SetLabels(a, {l}, {}) \/ SetLabels(a, {}, {l})
  \/ \E p \in DOMAIN Now.edges : DeleteEdge(p)
  \/ \E a \in LiveRows : DetachDelete(a)

\* The bound: nothing happens after the last commit.
More == mvcc.epoch < MaxCommit

Next == More /\ (Statement \/ FoldWriter \/ Restart \/ Sync)

\* A loaded file: two rows, and an edge each way between them.
Loaded ==
  [cells |-> <<0, 0>>, marks |-> <<{}, {}>>, gone |-> {},
   edges |-> [p \in {<<1, 2>>, <<2, 1>>} |-> 0]]

Init ==
  /\ base = Loaded
  /\ header = 1
  /\ staged = 0
  /\ disk = [tables |-> base, floor |-> 0]
  /\ log = << >>
  /\ mvcc = Fresh(0, base)
  /\ patch = NoPatch
  /\ reader = [epoch |-> 1, tables |-> base]

Spec == Init /\ [][Next]_vars

-----------------------------------------------------------------------------
(* Properties.                                                              *)

G == INSTANCE GraphStore WITH db <- Now

\* Every commit, deferred or folded, moves the graph a reader sees by exactly
\* what its statement says, and a fold, a restart or a sync moves it by nothing.
Implements == G!Spec

\* Writer::patches: a reader that has the patch reads the database a fold would
\* have left behind, at every moment and not only when a fold comes.
FoldAgrees == Fold(base, mvcc) = Now

\* Recovery: the log over the header on disk gives back the same database,
\* whatever was folded or deferred since, and in the records' order.
ReplayAgrees == Fold(disk.tables, Recovered) = Now

\* Session::sync: a session that keeps what it loaded, the epoch not having moved,
\* lays the patch it is handed over the tables the patch was made over, so it
\* reads the same graph as the session that writes.
ReaderCurrent == reader.epoch = header => View(reader.tables, patch) = Now

\* EdgePatch::add and Writer::removable: no pair runs twice, once in the file and
\* once in the patch, no two edges share a row of values, and no edge runs onto
\* a row that is gone.
EdgesSound ==
  /\ DOMAIN patch.adds \cap DOMAIN base.edges \subseteq patch.dead
  /\ \A p, q \in DOMAIN patch.adds : p # q => patch.adds[p] # patch.adds[q]
  /\ UNION {{p[1], p[2]} : p \in DOMAIN Now.edges} \subseteq LiveRows

TypeOK ==
  /\ header \in Nat /\ staged \in 0..Slack
  /\ \A t \in {base, disk.tables} :
       /\ t.cells \in Seq(Cell)
       /\ t.marks \in Seq(SUBSET Label)
       /\ Len(t.marks) = Len(t.cells)
       /\ t.gone \subseteq 1..Len(t.cells)
       /\ \A p \in DOMAIN t.edges : t.edges[p] \in Cell
  /\ disk.floor <= mvcc.epoch
  /\ patch.erows \in Seq(Cell)
  /\ \A p \in DOMAIN patch.adds : patch.adds[p] - EdgeCount(base) \in DOMAIN patch.erows
  /\ DOMAIN patch.ecells \subseteq 1..EdgeCount(base)
  /\ DOMAIN patch.cells \subseteq 1..Len(base.cells)

\* Writer::stage_patch and EdgePatch: the tables, the store and the patch stay
\* well formed, rows past the file included, and the edges sound.
OverlayInv == TypeOK /\ EdgesSound
=============================================================================
