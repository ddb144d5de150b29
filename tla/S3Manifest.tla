----------------------------- MODULE S3Manifest -----------------------------
(***************************************************************************)
(* The manifest commit protocol of the S3 engine (zu-s3/src/store.rs).     *)
(*                                                                         *)
(* The object store keeps manifest/CURRENT and one immutable snapshot per  *)
(* epoch.  A writer publishes a manifest with two conditional puts: first  *)
(* the snapshot (PutMode::Create), then CURRENT (Create for the first one, *)
(* Update(token) after it).  Between and after the two puts a writer may   *)
(* crash, or give a request up as failed that the store applies later.     *)
(*                                                                         *)
(* An object's version is a counter, 0 for an object that is not there, so *)
(* a conditional put of CURRENT is accepted exactly when the version it    *)
(* expects is the one the store has: 0 is PutMode::Create.  Calls refused  *)
(* before any request is sent (a foreign writer id, a wrong epoch, a       *)
(* manifest owned by somebody else, an epoch past u64) change nothing and  *)
(* are guards here; MaxEpoch is u64::MAX.                                  *)
(***************************************************************************)
EXTENDS Naturals, Sequences, FiniteSets

CONSTANTS
    Writers,    \* writer ids
    Segments,   \* segment sets a manifest can name
    MaxEpoch,   \* the largest epoch
    MaxLate,    \* bound: requests given up by their writer
    NoManifest  \* an object that does not exist

ASSUME MaxEpochAssumption == MaxEpoch \in Nat
ASSUME MaxLateAssumption == MaxLate \in Nat

Epochs == 0..MaxEpoch
Manifest == [epoch : Epochs, writer_id : Writers, segments : Segments]

ASSUME NoManifestAssumption == NoManifest \notin Manifest

VARIABLES
    current,    \* the manifest in manifest/CURRENT
    version,    \* the version of manifest/CURRENT, 0 while there is none
    snapshot,   \* per epoch, the object manifest/{epoch}.zum
    held,       \* per writer, the Current in its hands; version 0 is None
    op,         \* per writer, the publish under way
    late        \* requests nobody waits for any more; the network still has them

vars == <<current, version, snapshot, held, op, late>>

Version == 0..(MaxEpoch + 1)
Current == [manifest : Manifest \cup {NoManifest}, version : Version]
Put == [step : {"snapshot", "swing"}, next : Manifest, expected : Version]
Idle == [step |-> "idle"]

NoCurrent == [manifest |-> NoManifest, version |-> 0]

-----------------------------------------------------------------------------
Init ==
    /\ current = NoManifest
    /\ version = 0
    /\ snapshot = [e \in Epochs |-> NoManifest]
    /\ held = [w \in Writers |-> NoCurrent]
    /\ op = [w \in Writers |-> Idle]
    /\ late = {}

\* The object store's answer to a conditional put.
Accepts(put) ==
    IF put.step = "snapshot"
    THEN snapshot[put.next.epoch] = NoManifest
    ELSE version = put.expected

\* The object store applies a put it accepts.
Apply(put) ==
    IF put.step = "snapshot"
    THEN /\ snapshot' = [snapshot EXCEPT ![put.next.epoch] = put.next]
         /\ UNCHANGED <<current, version>>
    ELSE /\ current' = put.next
         /\ version' = version + 1
         /\ UNCHANGED snapshot

ReadCurrent(w) ==
    /\ op[w] = Idle
    /\ held' = [held EXCEPT ![w] = [manifest |-> current, version |-> version]]
    /\ UNCHANGED <<current, version, snapshot, op, late>>

\* Mutant: CURRENT is always put with PutMode::Create.
PublishCreates(w, next, expected) ==
    /\ op[w] = Idle
    /\ op' = [op EXCEPT ![w] = [step |-> "snapshot", next |-> next, expected |-> 0]]
    /\ UNCHANGED <<current, version, snapshot, held, late>>

\* publish begins with the put of the snapshot.
Publish(w, next, expected) ==
    /\ op[w] = Idle
    /\ op' = [op EXCEPT ![w] = [step |-> "snapshot", next |-> next,
                                expected |-> expected]]
    /\ UNCHANGED <<current, version, snapshot, held, late>>

\* Mutant: the epoch wraps.
HasNextUnchecked(manifest) == TRUE

\* checked_add: the last epoch has no successor.
HasNext(manifest) == manifest.epoch < MaxEpoch

\* Mutant: commit does not ask who owns the manifest it was given.
MayCommitUnowned(w, next, expected) ==
    /\ next.writer_id = w
    /\ IF expected.version = 0
       THEN next.epoch = 0
       ELSE next.epoch = expected.manifest.epoch + 1

\* Mutant: any later epoch will do, not only the next.
MayCommitAhead(w, next, expected) ==
    /\ next.writer_id = w
    /\ expected.version > 0 => /\ expected.manifest.writer_id = w
                               /\ next.epoch > expected.manifest.epoch

\* The manifests commit lets through on top of what the caller observed.
MayCommit(w, next, expected) ==
    /\ next.writer_id = w
    /\ IF expected.version = 0
       THEN next.epoch = 0
       ELSE /\ expected.manifest.writer_id = w
            /\ HasNext(expected.manifest)
            /\ next.epoch = expected.manifest.epoch + 1

\* The caller passes the Current it holds, or None.
Commit(w) ==
    \E next \in Manifest, expected \in {held[w], NoCurrent} :
        /\ MayCommit(w, next, expected)
        /\ Publish(w, next, expected.version)

\* The same segments under the next epoch, with this writer's id.
TakeOver(w) ==
    /\ current # NoManifest
    /\ HasNext(current)
    /\ Publish(w, [epoch |-> current.epoch + 1, writer_id |-> w,
                   segments |-> current.segments], version)

\* The answer of the first put: go on to CURRENT, or a Conflict.
PutSnapshot(w) ==
    /\ op[w].step = "snapshot"
    /\ \/ /\ Accepts(op[w])
          /\ Apply(op[w])
          /\ op' = [op EXCEPT ![w] = [op[w] EXCEPT !.step = "swing"]]
       \/ /\ ~Accepts(op[w])
          /\ op' = [op EXCEPT ![w] = Idle]
          /\ UNCHANGED <<current, version, snapshot>>
    /\ UNCHANGED <<held, late>>

\* What a successful swap hands the caller: the manifest and its new token.
Handed(put) == [manifest |-> put.next, version |-> version + 1]

\* The answer of the second put: the caller's new Current, or a Conflict.
PutCurrent(w) ==
    /\ op[w].step = "swing"
    /\ op' = [op EXCEPT ![w] = Idle]
    /\ \/ /\ Accepts(op[w])
          /\ Apply(op[w])
          /\ held' = [held EXCEPT ![w] = Handed(op[w])]
       \/ /\ ~Accepts(op[w])
          /\ UNCHANGED <<current, version, snapshot, held>>
    /\ UNCHANGED late

\* The request in flight is left to the network.
GiveUp(w) ==
    /\ op' = [op EXCEPT ![w] = Idle]
    /\ late' = IF op[w] = Idle THEN late ELSE late \cup {op[w]}
    /\ Cardinality(late') <= MaxLate
    /\ UNCHANGED <<current, version, snapshot>>

\* An I/O error is returned; the caller keeps the Current it had.
PutFails(w) == op[w] # Idle /\ GiveUp(w) /\ UNCHANGED held

\* The process dies and a new one starts with the same writer id.
Crash(w) == GiveUp(w) /\ held' = [held EXCEPT ![w] = NoCurrent]

\* A given-up request reaches the store after all: late, more than once, or,
\* when this step is not taken, never.
LateArrives(put) ==
    /\ Accepts(put)
    /\ Apply(put)
    /\ UNCHANGED <<held, op, late>>

Next ==
    \/ \E w \in Writers :
          \/ ReadCurrent(w) \/ Commit(w) \/ TakeOver(w)
          \/ PutSnapshot(w) \/ PutCurrent(w)
          \/ PutFails(w) \/ Crash(w)
    \/ \E put \in late : LateArrives(put)

\* A writer that sent a put hears of it, or gives it up.
Fairness == \A w \in Writers : WF_vars(PutCurrent(w))

Spec == Init /\ [][Next]_vars /\ Fairness

-----------------------------------------------------------------------------
TypeOK ==
    /\ current \in Manifest \cup {NoManifest}
    /\ version \in Version
    /\ snapshot \in [Epochs -> Manifest \cup {NoManifest}]
    /\ held \in [Writers -> Current]
    /\ op \in [Writers -> Put \cup {Idle}]
    /\ late \in SUBSET Put

\* Every request that can still reach the store.
Requests == late \cup {op[w] : w \in {v \in Writers : op[v] # Idle}}

\* The history the snapshots keep, up to the epoch CURRENT is at.
History == [i \in 1..version |-> snapshot[i - 1]]

Chain == INSTANCE EpochChain WITH chain <- History

(***************************************************************************)
(* The snapshots up to CURRENT form the chain of EpochChain: each epoch is *)
(* published once, none is rewritten or skipped, and a writer that is not  *)
(* the owner never changes the segments ("the epoch-named snapshots        *)
(* provide the immutable history").                                        *)
(***************************************************************************)
ImplementsChain == Chain!Spec

(***************************************************************************)
(* A put that rests on a superseded token fails, the Create of a snapshot  *)
(* included ("every conditional put by the previous writer fails from then *)
(* on"), whoever sent it and however late it arrives.                      *)
(***************************************************************************)
SupersededFenced ==
    \A put \in Requests :
        put.expected # version => ~Accepts(put)

(***************************************************************************)
(* What a writer was given, by a successful commit or by a read, is and    *)
(* stays in the history: no crash, race or late request takes it back.     *)
(***************************************************************************)
HeldIsHistory ==
    \A w \in Writers :
        held[w].version > 0 =>
            /\ held[w].version <= version
            /\ held[w].manifest = snapshot[held[w].version - 1]

(***************************************************************************)
(* The race for an epoch is decided by the snapshot: a writer whose        *)
(* snapshot was created never loses the swap of CURRENT.                   *)
(***************************************************************************)
SwingWins == \A w \in Writers : op[w].step = "swing" => Accepts(op[w])

(***************************************************************************)
(* An epoch that was won is published, unless its writer gave up one of    *)
(* the two puts ("an orphan snapshot left by a crashed writer blocks that  *)
(* epoch"): a caller that lost a race and retries is not kept waiting by a *)
(* writer that is alive.                                                   *)
(***************************************************************************)
RaceResolves ==
    \A e \in Epochs :
        snapshot[e] # NoManifest ~>
            (version > e \/ \E put \in late : put.next = snapshot[e])

-----------------------------------------------------------------------------
\* The snapshots are consecutive, at most one of them is ahead of CURRENT,
\* and each follows from the one before it.
SnapshotsChained ==
    /\ version = 0 => current = NoManifest
    /\ version > 0 => current = snapshot[version - 1]
    /\ \A e \in Epochs : e < version => snapshot[e] # NoManifest
    /\ \A e \in Epochs :
          snapshot[e] # NoManifest =>
              /\ snapshot[e].epoch = e
              /\ e <= version
              /\ e > 0 => Chain!Succeeds(snapshot[e], snapshot[e - 1])

\* A request carries the epoch its token leads to, follows from the manifest
\* the token stands for, and swings CURRENT only to the snapshot it created.
RequestSound(put) ==
    /\ put.expected = put.next.epoch
    /\ put.expected <= version
    /\ put.expected > 0 => Chain!Succeeds(put.next, snapshot[put.expected - 1])
    /\ put.step = "swing" => snapshot[put.next.epoch] = put.next

\* A writer's requests carry its own id, and the one that won an epoch is
\* the only one that swings CURRENT to it.
WinnerAlone ==
    \A w \in Writers : op[w] # Idle =>
        /\ op[w].next.writer_id = w
        /\ op[w].step = "swing" =>
              /\ op[w].expected = version
              /\ \A put \in late : put.step = "swing" => put.next # op[w].next

(***************************************************************************)
(* The inductive invariant of the commit protocol: the chain of snapshots, *)
(* what every outstanding request rests on, and who may swing CURRENT.     *)
(***************************************************************************)
ManifestInv ==
    /\ TypeOK
    /\ SnapshotsChained
    /\ \A put \in Requests : RequestSound(put)
    /\ WinnerAlone
    /\ HeldIsHistory
=============================================================================
