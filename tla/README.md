# A TLA+ model of zu's storage, commit and execution paths

zu is an embedded graph database in Rust. This directory models the parts of it
that are concurrent, that fail half way, or that carry one change out in more
than one way: the write-ahead log and its group commit, the single-file block
store with its checkpoints, savepoints and recovery, the write side that
connections share and the registry of open files, the epochs readers pin, the
overlays and patches a commit is read through before it is folded, the manifest
protocol of the S3 engine, and the executor's worker pool with the query that
runs over it. Modules are checked with TLC on small instances; for eight of
them inductive invariants and the properties they give are proved with TLAPS for
every value of the constants.

Paths below are relative to the repository. `zu-zu1` is `crates/zu-zu1/src`,
`zu` is `crates/zu/src`, `zu-s3` is `crates/zu-s3/src`, `zu-exec` is
`crates/zu-exec/src`.

## 1. Inventory

| Component | State | Operations | Interacts with |
|---|---|---|---|
| Reader epoch ledger (`zu-zu1/epoch.rs`) | committed epoch, one atomic pin slot per reader | `pin`, `unpin`, `advance`, `horizon` | readers write their slot, the writer reads all of them; no lock |
| Write-ahead log (`zu-zu1/wal.rs`) | the frames, their length, and `Marks` under a mutex: staged, durable, running, failed, waiting, group, cost | `append`, `flush`, `stage_commit`, `sync_through`, `truncate`, `rollback_above`, `open_on`, `replay` | every writer; one of the waiters syncs for all |
| Block file (`zu-zu1/file.rs`, `meta.rs`) | two header slots and a marker slot, free list on disk, `free`, `pending_free`, `frozen`, `retained` in memory, an open savepoint | `allocate_block`, `free_block`, `begin/keep/release/rollback_savepoint`, `checkpoint`, `open_kind`, `finish_rollback`, `release_retained` | folds write it, readers on other connections read headers it has replaced |
| Fold (`zu-zu1/fold.rs`) | none of its own | `recover`, `checkpoint_fold`, `staged_fold`, `fold` | moves commits from the log into the base file |
| Shared file handle (`zu/shared.rs`) | the gate (the write side or a line of slots), the published state, stamps, leases | `take`, `put`, `stage`, `publish`, `publish_staged`, `observe`, `reclaim` | all sessions on a file |
| Registry of open files (`zu/shared.rs`) | a process-wide map from a path to a `Weak` handle, under a mutex | `attach`, `settled_registry`, `install`, `replay_sidecar`, `Drop` | sessions that open and close; the last to let go folds |
| Session write path (`zu/session.rs`) | side in hand, savepoint, pending state, owed byte | `enter`, `leave`, `hold`, `settle`, `undo`, `durable`, `share`, `transaction`, `write`, `file_mut`, drop | drives everything above in a fixed order |
| Statement writer (`zu/write.rs`) | the log, the overlay store, patches | `open`, `write` (keep, stage, defer or fold), `defers`, `stage_patch`, `fold`, `discard_above` | session, fold, log |
| Write statements (`zu/insert.rs`, `set.rs`, `delete.rs`) | none of their own | what each statement stages into a transaction | statement writer |
| Overlay store and MVCC (`zu-zu1/txn.rs`) | commits not folded, the epoch | `stage_commit`, `apply`, `recover_with`, `edge_gone`, `label_changes`, snapshots | writer, fold, readers |
| Snapshot reads (`zu/snapshot.rs`) | leased base and patches | `set_patches`, column readers | published state |
| S3 engine (`zu-s3/store.rs`) | `CURRENT` manifest, per-epoch snapshots | `read_current`, `commit`, `take_over`, `publish` | other writers through the object store only |
| Worker pool (`zu-exec/pool.rs`) | a queue, counters beside it, a latch per batch | `submit`, `worker_loop`, `Pending::wait`, drop | threads that run queries, pool threads |
| Parallel run (`zu-exec/run.rs`) | a claim counter, `StopState`, a slot per morsel | `drive`, `Worker::work`, `run_morsel`, `quota_met` | worker pool, the caller's interrupt |
| Everything else | table layout, ingest, block cache, query front end, interpreter, operators, encodings, clients | sequential or pure | see PROJECT.json and section 6 |

What is hard here, and what would make each part correct:

* **Lock-free pins.** A reader loads an epoch and stores it in its slot while
  the writer advances and scans. No pin a reader holds may fall below a
  reclaimed horizon, and `pin` must return.
* **Group commit.** The leader syncs without the mutex. A commit may be
  answered only when a sync issued after its frames were written has landed, a
  failed sync must wake its sleepers, and there is one leader at a time.
* **Blocks.** A block goes through five lists and three kinds of headers. No
  header somebody will still read (the next open, the writer, the savepoint, a
  leased reader) may lose a block it reaches, at any moment a crash can fall.
* **Recovery.** Log, base and marker reach the disk at different times. What
  was acknowledged survives, what was undone stays undone, nothing is applied
  twice or out of order, and recovery ends although it may itself crash.
* **The shared side.** The side is in one place and goes to writers in the
  order they asked; only durable states are shown, never backwards, and an
  answered statement is visible to the next one.
* **Opening while closing.** The last reference to a file folds it as it goes,
  while another connection may be opening the same path. At no time may two
  handles be able to write one file, an open may not read a header that is
  about to move, and no answered commit may be left behind by a fold that
  fails.
* **One statement, three times.** A commit is carried out by the patch that
  readers lay over their tables, by the fold that rebuilds the tables, and by
  the replay of the log after a crash. All three must leave the same graph,
  and it must be the graph the statement says.
* **Fencing.** S3 writers share nothing but conditional puts. A put that was
  given up may arrive at any later time; an epoch has one manifest for ever,
  and whoever was superseded changes nothing.
* **Pool and morsels.** Counters are read outside the mutex, workers and
  submitters spin before they park, jobs borrow the submitter's stack, and
  morsels end in any order. No wake-up may be lost, no borrow may outlive its
  frame, and the answer must be the one a single worker gives.

PROJECT.json lists the hazards one by one, each at the line where it bites. It
credits a property with a hazard only when a run has the hazard's case. Where the
code goes wrong in that case, so that every passing run leaves it out, the hazard
names no property, or is worded as the case that is covered, and its note names
the item of section 5 that shows the rest: a cut under a sync (item 2), a
savepoint over staged folds (3), readers inside another's transaction (4), a
checkpoint inside a savepoint (5), the side kept by a failed sync (6), a drop
between count and upgrade (7), a fold that fails and is carried on from (10), a
torn log (11).

## 2. Modules

| Module | Models | Proofs |
|---|---|---|
| `EpochLedger` | `EpochLedger` of epoch.rs, one step per atomic access | `EpochLedgerProofs` |
| `GroupCommit` | `Commits`/`Marks` of wal.rs as writers drive them | `GroupCommitProofs` |
| `BlockFile` | allocation, checkpoint, savepoint, marker and open of file.rs, with the leases of shared.rs | `BlockFileProofs` |
| `Recovery` | wal.rs, fold.rs, the savepoint and the session across crashes | `RecoveryProofs` |
| `FileHandle` | the gate and publishing of shared.rs with the session steps around them | `FileHandleProofs` |
| `Registry` | the registry of shared.rs, handles from open to the fold of their drop | `RegistryProofs` |
| `GraphStore` | abstract: what each write statement does to a graph | |
| `Overlay` | write.rs, txn.rs, fold.rs over the data of one node and one edge table; implements `GraphStore` | |
| `EpochChain` | abstract: a chain of manifests, one per epoch | |
| `S3Manifest` | store.rs of zu-s3; implements `EpochChain` | `S3ManifestProofs` |
| `WorkerPool` | pool.rs of zu-exec | `WorkerPoolProofs` |
| `MorselRun` (`MCMorselRun`) | run.rs of zu-exec, composed with `WorkerPool` | |

The four storage modules cut one path at different heights: `Overlay` has the
data and takes the log and blocks for granted, `Recovery` has the log and the
base as sequences of commits, `BlockFile` has the blocks and takes what is in
them for granted, `GroupCommit` has the one sync. `FileHandle` and `Registry`
are the threads above them.

Operators named `...Late`, `...Again`, `...Silent` and so on under a comment
"Mutant" are deliberately wrong variants of the definition that follows them;
no specification uses them. PROJECT.json says which property each one breaks.

### EpochLedger
`committed` and `slots` are the ledger's atomics. `pin` is
`PinStart; PinLoad; PinStore; PinCheck`, where the check goes round again when
the epoch moved; `horizon` is a load of `committed` and one load per slot.
All accesses in the code are SeqCst, so interleaving them is exact. `EMPTY` is
any value above every epoch (`u64::MAX` in the code). `reclaimed` is a history
variable: the highest horizon a checkpoint has acted on.

### GroupCommit
`len`, `staged`, `durable`, `running`, `failed`, `waiting`, `group` and `timed`
are the fields of `Wal` and `Marks`; `running` keeps whether there is a leader
(the byte it reaches is the leader's `target`), and `timed` whether a sync has
been timed, which together with `group` decides if a leader pauses. One action
is one critical section of the marks mutex. `SyncIssue` and `SyncOk`/`SyncFail`
are apart because `sync_data` runs with no lock: `covers` records which commits
the file held when it was issued. `CheckpointCut` is the write whose fold
checkpoints: base synced, header flipped, `truncate`, `reset(0, false)`.
`platter` and `acked` are history variables, and so is `raced`: a cut fell
while some leader had read its target and its sync had not ended.

### BlockFile
`hdr` gives every holder of a header its header: slots A and B and the marker
on disk, the writing handle, the savepoint's kept header, the published and the
staged state, and each reader's lease. A header's `ok` turns FALSE when a block
it reaches is overwritten, or lost by a crash before a sync; the module's
question is whether a header that will still be read can turn bad.
`WriteChain` is the free-list arithmetic of `checkpoint` (`reserved`, the chain
written into the list's own blocks, the file extended when there are too few).
A checkpoint is three steps a crash can fall between: chain, sync, flip; a crash in the
flip leaves the old slot, a torn one or the new one. The lists in memory take
their values in the first step, as nothing reads them before the last. Writing
the marker and syncing it is one step: a torn marker fails its checksum and is
no marker. A fold writes one block and frees at most `MaxFreed`. `retained` is
the code's list of groups laid out flat, an epoch beside each block; `At` keeps
the entries a condition names, in their order, which is what `Vec::retain` and
`partition` do (`Ready`, `StillRetained`, `Among`, `Outside`, `LetGoBefore`).

### Recovery
The database is the sequence of commits in the base followed by those in the
overlay. The log is an array of cells, a begin and a commit cell per commit,
once as the process wrote it (`cache`) and once as the disk has it (`disk`);
`Writeback` brings a cell to the disk at any time, a sync brings all. The header
slots are one atomic cell here, since BlockFile is about how a flip is made so.
`status` is what the caller of each commit knows: staged, acked, undone, or
unsure when a crash came before the answer. A statement or a transaction
commits any number of times; a transaction has its marker before its first
commit, a statement before its second, and what has a marker when the process
dies is to be undone whole. Opening after a crash is
`Open; RecoverCut; FinishRollback; ForgetKept; ReplayLog; OpenFold; Truncate`,
with a crash possible between any two. An answer follows a sync of the log
(`Durable`) unless a checkpoint has cut the log meanwhile: then what was waited
for is sealed in the base file and `sync_through` returns at once
(`DurableSealed`), while the cut itself may not be on the disk yet. `Replay` lists the commit cells past the
header by position (`Commits` are where they are, `Nth` the next of them) and
delivers those with their begin under them, in the order of the log.

### FileHandle
A state of the database is the number of commits it holds. The gate is `home`,
`waiting`, `popped` (taken off the line under the gate's lock and not yet
handed the side) and `filled` (slots). A statement goes through
`Take*; Enter; Write*; StageSide; Put; Sync; Publish; Finish`. The sync here is
one step whose detail GroupCommit has. `keeps` are sessions that hold the side
between statements: `file_mut` leaves them so on purpose, a failed `enter` by
accident. An explicit transaction also holds the side across statements; the
gate sees of it what it sees of `file_mut`, and its states are BlockFile's and
Recovery's subject.

### Registry
`lock` is the thread in the registry's mutex, `entry` the `Weak` it holds,
`owners` the sessions with an `Arc` of a handle. `attach` is `Settle` (the loop
that waits until the entry is gone or alive), then `Upgrade`, or `OpenFile` and
`Install`, which replays the sidecar; a drop is `LetGo`, `DropLock`, `DropFold`.
A handle has the state its header names (`file`), the state its writer holds
(`mem`) and the one it shows (`shown`); `base` and `log` are the disk. Folds
may fail at each place the code folds. A commit is one step, durable when
answered. `Replay` lists the frames of the log past the header by position
(`Above` is where they are, `Nth` the next of them), in the order of the log.

### Overlay and GraphStore
One node table with one column and one label set, one edge table with one
column; a pair of rows is joined by at most one edge. `Write(ops)` is
`Writer::write`: the records go to the log in the order of `build_records`, to
the store, and then the commit is deferred (`Defers`, one operator per condition
of `defers`) or folded. `View(t, p)` is what a reader sees with tables `t` under
patch `p`, `Fold(t, m)` what a fold of the store `m` leaves of `t`, `Recovered`
the store the log gives back over the header on disk. `GraphStore` says what
INSERT, SET, REMOVE, DELETE and DETACH DELETE do to a graph, and
`Implements` is the refinement `db <- View(base, patch)`.

Abstractions: chains of the store are read at the newest epoch, so a chain is
its last entry; each commit writes its epoch as its value (values are carried,
never compared); a value that cannot go into a column without a mask is one
that is absent (`Null`), which stands for the `soft` test too; the recent and
the sealed part of an edge patch are one function; any commit may fold, since
the sizes that force a fold only pick which; failing folds and transactions are
left to BlockFile and Recovery; a restart is recover and fold in one step. The
statements stage their operations in the order of `build_records`, so that its
regrouping of a commit by kind changes nothing here. `MergedEdges` is the edge
list `fold_rel` builds, `FoldEdges` what `fold_rel_props` lays over it.

### S3Manifest and EpochChain
The store has `current` with its version and one `snapshot` per epoch. A
publish is two puts apart: `PutSnapshot` (create only), `PutCurrent`
(conditional on the version its `Current` carries). Between and after them a
writer may crash, or give the request up (`late`), and the store may apply it
at any later time or never. The version is a counter, so it stands for the
ETag and never repeats. Calls that are refused before a request is sent are
guards. `EpochChain` is a sequence that only grows: each manifest's epoch is one
more, and a manifest of another writer keeps the segments. The refinement maps
the chain to the snapshots up to `CURRENT`.

### WorkerPool, MorselRun
One action is one atomic access, or one critical section of the queue's mutex.
How long a spin lasts is a choice. What `submit` knows of `pending` is what its
`fetch_add` returned (`seen`); it loads `idle` later, in `SubmitCount`, and a
worker may have counted a job down in between. `Run` ends a job, with a panic or without;
`LastLock` and `LastNotify` are the end of the latch's `count_down`, apart from
the decrement. `SubmitSpawnFails` is the panic of `expect` on a failed spawn.
`MorselRun` extends the pool with what the jobs do: claim a morsel, scan it one
chunk at a time, finish it, fail, panic, be interrupted; a job may end only
when its worker has (`PoolWorkerStep`). What a worker keeps of a morsel is an
initial piece of it, so a count stands for the rows.

### Behaviours kept apart
`BlockFile`, `Recovery`, `FileHandle`, `Registry` and `Overlay` take a constant
`Allow`: behaviours of the callers or the disk that the code permits and that
break a property. Runs expected to pass leave out the ones that break theirs.
So what passes holds *given* that none of the excluded behaviours happens, and
what is excluded is listed in section 5 with how to see it.

## 3. Runs

All runs are TLC, breadth first, complete within their bounds.

| Run | Bounds | Shows |
|---|---|---|
| `epoch_ledger` | 2 slots, 4 epochs | `HeldPinNotReclaimed`; `PinReturns` under fairness |
| `group_commit` | 3 writers, 3 commits, flushes of 1-2 bytes, log of 4, 1 cut, 1 failed sync | `AckedUnlessRaced`, `SettledUnlessRaced`, `LeaderInv`; `SyncThroughReturns` |
| `block_file_crash` | 5 blocks, 5 epochs, 2 crashes, transactions | `RecoveryIntact`, `WriterIntact`, `ListInv`, `RollbackWins`, `CrashRollsBack` |
| `block_file_readers` | 1 reader, 5 blocks, 5 epochs, 1 failing fold, statements that commit repeatedly | `LeasedIntact` |
| `recovery` | 3 commits in statements and transactions of any size, 6 cells, 2 crashes | `AckedSurvive`, `UndoneStaysUndone`, `ReplayInv`; `ComesBack` |
| `file_handle` | 3 sessions, 2 commits, 4 statements, failing syncs, `file_mut` | `NoneForgotten`, `ShownIsDurable`, `AnsweredIsShown`, `FirstComeFirstServed`, `NeverBackwards`; `TakeReturns` |
| `registry` | 3 sessions, 3 handles, 2 commits, failing folds | `RegistryInv`, `DiskComplete`, `ConnectedSeeAll`; `AttachReturns` |
| `overlay` | 4 rows, 3 commits, a checkpoint after 2 staged folds | `FoldAgrees`, `ReplayAgrees`, `ReaderCurrent`, `OverlayInv`; the refinement `Implements` |
| `overlay_stale_update` | the same, with an edge put back after it was written onto and deleted | `FoldAgrees`: **violated** |
| `s3_manifest` | 2 writers, 2 segment sets, 3 epochs, 2 requests given up | `ManifestInv`, `SupersededFenced`, `SwingWins`; the refinement `ImplementsChain`; `RaceResolves` |
| `worker_pool` | 2 submitters, 2 threads, batches of 1-2 jobs, failing spawns | `PoolInv`, `BorrowsLive`; `BatchReturns` |
| `morsel_run` | 1 submitter, 2 threads, 2-3 morsels, LIMIT of 1, 2 or none, errors, panics, interrupts | `AnswerIsSequential` |

Where a run names an invariant of several parts, the parts have names of their
own: `LeaderInv` is `OneLeader` and `WaitingExact`; `ListInv` is `PlacesDisjoint`
and `ListSound`, `ReplayInv` is `AppliedOnceInOrder`, `RegistryInv` is
`OneWriteSide`, `OverlayInv` is `EdgesSound`, `PoolInv` is `LatchExact` and
`CountersTrue`, each with the module's `TypeOK`. `PlacesDisjoint` is silent
while the file is closed and between a statement that raised and its rollback,
which drops the lists of memory and puts back the savepoint's.

Why these bounds: three writers are a leader, a sleeper and one who stages
meanwhile; one cut and one failed sync each meet every one of those. Two slots
are one the scan has passed and one it has not. Five blocks with two free-list
entries to a chain block (`ChainCap = 2`) reach a list that fills its own
blocks, one that extends the file, and an empty one. Two crashes reach a crash
inside the recovery from another. Five epochs are a state to go back to, two
checkpoints inside a transaction and the flip of its rollback, or that of a
recovery (six give the same answers, in four times the states). Three commits
are one before, one inside and one after a transaction. Three sessions make a
line of two behind a holder; in the registry they are one that drops, one that
opens and one that still uses the file, and three handles a predecessor and a
successor of each. In the overlay three commits are a write, its undoing and a
third on top, in every mix of deferred and folded, over a table that begins
with two rows and an edge each way; four rows let two be appended. Two S3
writers are an owner and a usurper; three epochs are one won, one contested
and one past the limit; two lost requests are both puts of one publish, or one
put of each writer. Two threads beside the submitter are one that fills the
quota and one that is ahead of it; the shapes have an empty morsel in the
middle, a morsel that overfills the quota and one that just reaches it. Two
submitters contend for the queue and the spawn. Only `morsel_run` uses
symmetry, of the pool threads, and it checks invariants alone.

`CHECK_DEADLOCK FALSE` is set where the bounds let everything finish (all
statements run, all crashes used) or where an idle process may stay idle.

Fairness. EpochLedger: a reader inside `pin` and a scan that began go on;
nobody has to unpin or commit, and `PinReturns` holds because the commits are
finite, which is what the retry loop needs in the code too. GroupCommit: weak
fairness of each thread inside `sync_through`, a landed or failed `sync_data`
included; spurious wake-ups are possible and not assumed. Recovery: what a
rollback or an open has begun goes on, and a file that is down is opened again;
crashes are bounded. FileHandle: threads inside a statement go on, the notified
waiter runs; no fairness on dropping a session or on starting a statement,
neither of which the code forces. Registry: strong fairness on getting the
registry's mutex, which a thread asks for again and again in a loop that sleeps
between (a mutex that starved one thread for ever would break `AttachReturns`),
weak fairness on what a thread does inside. S3Manifest: a writer that has won
its snapshot sends the swing or gives it up. WorkerPool: threads inside the pool
are scheduled and jobs end; nobody has to submit.

## 4. Proofs

`tlapm` checks every theorem for arbitrary constants under the `ASSUME`s of the
modules: finite sets of writers, submitters and threads (`FiniteAssumption`),
bounds that are natural numbers, and names that do not collide (`NoOneAssumption`,
`NoneAssumption`, `ReaderAssumption`: "nobody" is no session and no submitter, and
a reader is not called `"db"`). The bounds are arbitrary naturals, so the theorems
cover every finite behaviour.

* **EpochLedger.** `LedgerInvariant: Spec => []IInv`, `PinSafety`. That held
  pins are above what is reclaimed is not inductive: a scan may be past a slot
  when its pin completes. `IInv` adds that no scan's minimum exceeds
  `committed`, that a slot in the check phase holds what its reader loaded, and
  that a scan's minimum is at most every held pin in the part it has passed.
* **GroupCommit.** `GroupInvariant`, `AckedDurable`, `SettledDurable`. `GroupInv`
  says that, until a cut races a sync, `staged` is the length of the log,
  `durable` is at most that, every logged commit ending at or below `durable`
  is on the platter (`LogInv`), and each call knows its byte, with a leader's
  target never above `staged` and every commit ending at or below the target
  among what its sync covers (`CallInv`). The last needs the end of a new commit
  to lie above every target read, which is where the critical section matters.
  The theorems say that the one interleaving `raced` records is the only way
  an answered commit can be missing from the disk; item 2 of section 5 shows
  that it is one.
  `LeaderInvariant` is about the other half of group commit, and has an
  inductive invariant of its own, `LeadInv`: every caller owed a wake-up is
  counted once (`CountedInv`), so that `waiting`, which a leader reads to decide
  whether to pause and which every return takes one from, never drifts from the
  number of callers inside. It holds through failed syncs and cuts alike, with
  no exception for `raced`.
* **BlockFile.** `SavepointInductive: Spec => []SavepointInv`, `RollbackIsRead`,
  `CrashIsRollback`, for every behaviour in `Behaviours`, any number of readers,
  blocks, crashes and failing folds, and flips that tear. Both ask which header
  an open adopts, which compares three epochs, so the proof looks at five holders
  (two slots, marker, writer, kept header) and of a header only at its epoch and
  its roots: `OverwrittenLike`, `ListedLike` and their kind say that writing blocks
  and moving them between lists leaves those alone. `SavepointInv` says that the
  active slot is the newest while the file is open and there is always one that
  decodes (`SlotsInv`, so an open never finds two empty slots), that the writer is
  at or past it and, when level with it and not in a checkpoint, on its roots
  (`WriterInv`), that the kept header stands the same way to both (`SaveInv`), that
  a marker of the published epoch has the published roots (`MarkerInv`), that a
  transaction flips nothing before its marker is written (`TxnInv`), and what a
  recovery knows before its flip (`RecoverInv`).
  Whether a header is *whole* is not part of it and does depend on what callers
  do. That is `FileInductive: Spec => []FileInv`, from which follow
  `RecoveryWhole` (`RecoveryIntact`), `WriterWhole` (`WriterIntact`), `ListsSound`
  (`ListInv`) and `LeasesWhole` (`LeasedIntact`), for any number of readers,
  blocks, epochs, crashes and failing folds. It is built in layers, each of which
  takes the one before for granted:
  - `TypeInv` (`BlocksInRange`, no assumption on callers): headers and lists name
    blocks of the file, and a checkpoint's chain extends it when it must.
  - `MemInv`: the writer's roots, its chain and the four lists are disjoint and
    without repetition (`PlacesInv`); what a savepoint would go back to, the
    kept header, the free list beside it and what older checkpoints let go of,
    is disjoint as well and within the kept high-water mark (`KeptBack`), or a
    rollback would leave a block in two places; and what a slot publishes as
    free is not in use (`SlotsSound`), or an open would begin in such a state.
  - `DiskInv`: the marker, when there is one, and the newest slot, as long as an
    open may still adopt it (`CurMatters`), reach no block that is free to be
    written and none the disk may not have yet (`Safe`). It needs that writer and
    newest slot are on the same free list and chain between checkpoints
    (`LinkInv`): what `MemInv` keeps apart from the writer's chain is then apart
    from the published one.
  - `LeaseInv`: a block a reader reaches is in no list to allocate from, and if
    it waits, it waits under an epoch at or above the reader's (`Leased`). The
    published state and the one staged to follow it count as readers, because a
    statement may lease them next.

  The assumptions are the ones under which it is true. `CallersUndo`: a fold that
  failed is undone (item 10 of section 5), and if the process may crash, no
  transaction begins on unpublished folds (3), no statement raises after
  checkpointing (9) and none commits twice (3 again). `RecoveryWhole` asks
  the same of `Allow`, and `LeasesWhole` that no transaction runs across
  statements (4). Where nothing crashes those three are allowed: what memory
  holds stays sound, and leases do as well outside transactions.
  The runs' configurations meet the assumptions.

  Lists are the bulk of the proof. `NthNumber` and `AtPlaces` count positions, so
  that what is left of a list is known by its places and no induction is needed;
  `Behind` and `FourLists` say when lists one behind another are without
  repetition; `ListsEffect` and `ChainEffect` say once what a checkpoint
  does to every list and header, and each layer cites them.
* **FileHandle.** `FileHandleInvariant`, `NobodyForgotten`, `OnlyDurableShown`,
  `AnsweredShown`, and the action properties `ShownNeverBackwards`,
  `ServedInOrder`. `IInv` is `OneSide` (the side is in one place), `LineInv`
  (who waits is in line or has been handed the side, once, and the line is the
  order of asking) and `StateInv` (stamps order staged states as commits do, a
  debt covers the state staged with it). `NeverBackwards` needs the last:
  publishing compares stamps, and the property is about states.
* **S3Manifest.** `ManifestInvariant`, `Fencing`, `HeldStays`, `SwingNeverLoses`,
  and `Refinement: Spec => Chain!Spec`, for any sets of writers and segments and
  any number of lost requests. `ManifestInv` adds to the types that the
  snapshots are consecutive with at most one ahead of `CURRENT`
  (`SnapshotsChained`), that every request still in the network, late ones
  included, names the epoch after the version it expects and, if it is the
  swing, the manifest of a snapshot that exists (`RequestSound`), that the
  winner of a snapshot is the only one who can swing (`WinnerAlone`), and
  `HeldIsHistory`. Fencing is not inductive without it: that a superseded
  create fails rests on the snapshot of its epoch being there already.

* **WorkerPool.** `PoolInductive: Spec => []PoolIInv`, `PoolInvariant`,
  `BorrowsStayLive`. `LatchExact` (a latch counts the jobs of its batch that are
  queued or in a worker's hands) is the heart of it; it needs lemmas that count
  positions of a sequence (`PositionsTail`, `PositionsBatch`) and holders of a job
  (`AtMove`). `BorrowsLive` adds that a submitter outside its batch has a latch
  at zero. `WorkersExact` strengthens the counters: the workers counted are those
  born and those a submitter has still to spawn, unless a spawn failed.
* **Registry.** `RegistryInductive: Spec => []RegistryIInv`, `RegistryInvariant`,
  `NothingAnsweredIsLost`, `ConnectionsSeeAll`, each under
  `"latedrop" \notin Allow`, which is item 7 of section 5: with it they are false.
  The control part says which handle is alive, on its way out or gone, and that
  only one can still write (`OneSide`); the data part that the base holds the
  first commits and the frames of the log run on from there, so that what
  `Replay` lists is the rest, in order (`ReplayInOrder`, `ReplayWhole`), at every
  place a fold may fail (`FoldSide`).

* **Recovery.** `RecoveryInductive: Spec => []Inv`, `AckedCommitsSurvive`,
  `UndoneCommitsStayUndone`, `ReplayAppliesOnceInOrder`, for any number of
  commits, any length of log and any number of crashes, under `Allow = {}`: the
  disk keeps the order of writes, no checkpoint falls inside a savepoint over
  commits only the log held, and no rollback passes a checkpoint whose cut is
  not on the disk. These are items 5, 11 and 12 of section 5; with any of them
  some of the three theorems are false.
  None of the properties says anything while a rollback or a recovery is half
  done, so the invariant speaks of one sequence `W` of commits, bound by an
  existential quantifier, for which the database stands at every step
  (`State(W, lo)`): what the header and the overlay hold while a writer is at
  work; what is below the floor once a rollback has cut the log; what the next
  open would bring back once the process is gone; and what the replay found of
  that once it has run. Every header in play is a beginning of `W` (`HdrOK`).
  `Written` says the log as written is the frames of `W` from `lo` on; `Live`
  that whatever commit above the published header the disk has, it has with
  everything before it, which is what an ordered disk gives and a torn one does
  not; `Acked` that a commit somebody was told of, above the published header,
  is on the disk; `StatusInv` that commits are numbered in the order made, that
  none in `W` is undone and every acknowledged one is in it; `SaveInv` how a
  savepoint's header, floor and marker stand to what is published. A step is
  proved by naming the `W` after it (`StageCommit` appends, `Undo` and `Crash`
  cut at the floor, `ReplayLog` cuts at the last commit found). `LogBelow`,
  `CutPlace`, `IntactPlace`, `ReplayDelivers` and `NthEven` say what the log's
  operators return on such logs, by counting positions.

TLC checks the properties the theorems end in, and of the inductive invariants
`ManifestInv`; the rest hold by their proofs.

Only model-checked:

* all liveness (`PinReturns`, `SyncThroughReturns`, `ComesBack`, `TakeReturns`,
  `AttachReturns`, `BatchReturns`, `RaceResolves`), since reasoning about fairness
  is outside the prover;
* `Overlay` and `MorselRun`, whose fold and answer are folds over data.

## 5. Where code and comments disagree

The first has a run, and PROJECT.json quotes the lines. Each of the others is
seen by taking the named configuration and changing it as stated; TLC then
reports the named property violated.

1. *A value written onto an edge outlives the edge* (`overlay_stale_update`;
   txn.rs `edge_updates`, fold.rs `fold_rel_props`). SET on an edge, DELETE of
   it and INSERT over the same pair: a reader with the patch sees the inserted
   value, and after the fold, or after a crash (`ReplayAgrees` is violated too),
   the old one.
2. *A cut under a sync* (wal.rs `sync_through`, `reset`; `GroupCommit.cfg`,
   `MaxFails = 0`, `AckedIsDurable`): `durable` ends above `staged`, and later
   commits are answered without a sync.
3. *A transaction over staged folds* (file.rs `begin_savepoint`;
   `BlockFileCrash.cfg`, `Allow = {"explicit", "unfolded"}`, `PlacesDisjoint`):
   the kept header has new roots and an old free list; a recovery frees live
   blocks. The comment there requires a folded file, which callers do not
   ensure. A statement that commits twice over staged folds does the same
   without a transaction (`Allow = {"multipart"}`, `MaxCrash = 1`).
4. *Reading inside another's transaction* (session.rs `settle`, file.rs
   `rollback_savepoint`; `BlockFileReaders.cfg`, `Allow = {"explicit"}`,
   `MaxFail = 0`, `LeasedIntact`): states of an open transaction are published,
   and after ROLLBACK the blocks a reader leased are handed out.
5. *A checkpoint inside a savepoint over deferred commits* (fold.rs
   `checkpoint_fold`; `Recovery.cfg`, `Allow = {"foldover"}`, `MaxCrash = 0`,
   `AckedSurvive`): rolling back loses commits acknowledged before.
6. *A sync that fails in `Session::enter`* (`FileHandle.cfg`,
   `Allow = {"syncfails"}`, property `TakenIsPutBack`): the session keeps the
   side, and no later statement of it puts the side back until it is dropped.
7. *The last reference goes between count and upgrade* (shared.rs
   `settled_registry` and `attach`; `Registry.cfg`, `Allow = {"latedrop"}`,
   `OneWriteSide`): the wait looks at the strong count, the upgrade comes after
   it, and when it fails `attach` opens a second handle while the first has its
   fold ahead of it. The comment says that an entry that is there and cannot be
   upgraded means wait.
8. *An absent value on an edge* (write.rs:867; `OverlayStaleUpdate.cfg`,
   `Allow = {"nulledge"}`, `FoldAgrees`): an edge with nothing in a column whose
   edges all hold a value is deferred and reads as zero until a fold makes it
   null. props.rs:3145 calls it a patch the writer should not have built.
9. `BlockFileCrash.cfg`, `Allow = {"raise"}`, `MaxCrash = 1`, `RecoveryIntact`: a
   statement that checkpointed and then raised rolls back by writing the free
   list over the chain the durable header names, before the flip.
10. `BlockFileReaders.cfg`, `Allow = {"carryon"}`, `ListSound`: a fold that fails
    after freeing what it replaces leaves live blocks on the pending list, and
    the next checkpoint publishes them as free (fold.rs:149 says nothing has
    changed on error).
11. `Recovery.cfg`, `Allow = {"tear"}`, `AppliedOnceInOrder`: the cut of the log
    is not synced; a disk that keeps a later frame and not an earlier one leaves
    frames of two generations side by side, and all of them verify. It takes
    frames of equal length at equal offsets.
12. `Recovery.cfg`, `Allow = {"cutback"}`, `UndoneStaysUndone`: a rollback past a
    checkpoint restores the old floor while the cut may not be on the disk.

What reading and the traces show, with no property of its own:

* A statement that commits several times is whole after a crash only while it
  has its marker. A crash after its first commit and before the second, or
  after `settle` has cleared the marker and before the sync has every frame,
  leaves a part of it. Recovery marks such commits as unsure.
* Blocks in `retained` over a second checkpoint are on no published list, so a
  crash leaks them (file.rs:426 says they are listed).
* The SAFETY comment of `submit` (pool.rs:212) rests on `Pending`, which does not
  exist yet when a failed spawn panics; `BorrowsLive` excepts that
  unwinding.
* A worker past the quota that fails makes an error of a parallel query that a
  single worker would have answered; `AnswerIsSequential` is about the queries
  that answer. The head test of `quota_met` can be dropped without losing it.
* A fold that fails in `fold_writer` (shared.rs:230) has dropped the writer, and
  what is then published is the file without the log: readers go back until
  somebody opens a writer. `ConnectedSeeAll` excepts this, `DiskComplete` shows
  that nothing is lost.
* `Session::file_mut` says the side is held until the session's next statement
  or its drop; the next statement finds the side in hand and does not put it
  back.
* `removable` says a fold prunes the edges of rows that are gone; `fold_rel` does
  not, and no statement leaves such an edge (`EdgesSound`).

## 6. Not modelled, and the plan

Most lines of this repository are a query language: parser, binder, planner,
compiler, interpreter, vector operators. They are sequential functions of their
input, over a syntax of hundreds of forms; a model of them would restate them,
and the repository's own tests run them against expected answers. The map
therefore covers a small share of all lines, and most of the code that keeps
state which outlives a call, is shared by threads or must survive a crash.

Left out for that reason: table layout, graph and property encoding, statistics,
graph algorithms, the query language, the interpreter, vector kernels, clients
and tools. SQLite storage relies on SQLite's own transactions. In the modelled
files: the log's record codec, packing of small payloads into blocks, columns
and key indexes beyond one of each in `Overlay`, MERGE and catalog statements,
the parsing of a manifest. The block cache is a pool of shards with one lock
each; what could go wrong, an image of a block that has been handed out again,
is a question of leases, which `BlockFile` asks.

What is left is proof: of `Overlay`, that its edges are sound (`EdgesSound`),
which needs that ordinals of added edges only grow. The other properties of
`Overlay`, and the answer of `MorselRun`, are equalities between folds over data
and stay with TLC.
