-------------------------- MODULE S3ManifestProofs --------------------------
(***************************************************************************)
(* Proofs about the manifest commit protocol, for every set of writers and *)
(* segments, every number of epochs and every number of lost requests.     *)
(***************************************************************************)
EXTENDS S3Manifest, SequenceTheorems, TLAPS

USE DEF Epochs

\* A writer's publish is idle or a put.
LEMMA OpCases ==
    ASSUME TypeOK, NEW w \in Writers
    PROVE  /\ op[w] = Idle \/ op[w] \in Put
           /\ op[w].step = "snapshot" => op[w] \in Put /\ op[w] # Idle
           /\ op[w].step = "swing" => op[w] \in Put /\ op[w] # Idle
           /\ op[w] \in Put => op[w] # Idle
  BY DEF TypeOK, Put, Idle

\* The requests that can reach the store are sound, one by one.
LEMMA RequestsSplit ==
    (\A put \in Requests : RequestSound(put)) <=>
        /\ \A put \in late : RequestSound(put)
        /\ \A w \in Writers : op[w] # Idle => RequestSound(op[w])
  BY DEF Requests

LEMMA InitInv == Init => ManifestInv
  <1> SUFFICES ASSUME Init PROVE ManifestInv
    OBVIOUS
  <1>1. TypeOK
    BY MaxEpochAssumption DEF Init, TypeOK, Version, Current, NoCurrent
  <1>2. SnapshotsChained
    BY MaxEpochAssumption DEF Init, SnapshotsChained
  <1>3. \A put \in Requests : RequestSound(put)
    BY DEF Init, Requests
  <1>4. WinnerAlone
    BY DEF Init, WinnerAlone
  <1>5. HeldIsHistory
    BY DEF Init, HeldIsHistory, NoCurrent
  <1> QED
    BY <1>1, <1>2, <1>3, <1>4, <1>5 DEF ManifestInv

-----------------------------------------------------------------------------
\* A read changes only what its writer holds.
LEMMA ReadCurrentInv ==
    ASSUME ManifestInv, NEW w \in Writers, ReadCurrent(w)
    PROVE  ManifestInv'
  <1> USE DEF ManifestInv, ReadCurrent
  <1>1. TypeOK'
    BY MaxEpochAssumption DEF TypeOK, Current, Version
  <1>2. SnapshotsChained'
    BY DEF SnapshotsChained
  <1>3. (\A put \in Requests : RequestSound(put))'
    BY DEF Requests, RequestSound
  <1>4. WinnerAlone'
    BY DEF WinnerAlone
  <1>5. HeldIsHistory'
    <2>1. version > 0 => current = snapshot[version - 1]
      BY DEF SnapshotsChained
    <2> QED
      BY <2>1, MaxEpochAssumption DEF HeldIsHistory, TypeOK, Version
  <1> QED
    BY <1>1, <1>2, <1>3, <1>4, <1>5

\* A publish begins with a request that is sound.
LEMMA PublishInv ==
    ASSUME ManifestInv, NEW w \in Writers, NEW next \in Manifest, NEW expected \in Version,
           Publish(w, next, expected),
           next.writer_id = w, expected = next.epoch, expected <= version,
           expected > 0 => Chain!Succeeds(next, snapshot[expected - 1])
    PROVE  ManifestInv'
  <1> USE DEF ManifestInv, Publish
  <1> DEFINE put == [step |-> "snapshot", next |-> next, expected |-> expected]
  <1>0. put \in Put /\ put # Idle /\ op'[w] = put /\ put.step # "swing"
    BY DEF TypeOK, Put, Idle
  <1>1. TypeOK'
    BY <1>0 DEF TypeOK
  <1>2. SnapshotsChained'
    BY DEF SnapshotsChained
  <1>3. (\A p \in Requests : RequestSound(p))'
    <2>1. RequestSound(put)'
      BY DEF RequestSound
    <2>2. \A p \in Requests : RequestSound(p)'
      BY DEF RequestSound
    <2>3. Requests' \subseteq Requests \cup {put}
      BY <1>0 DEF Requests, TypeOK
    <2> QED
      BY <2>1, <2>2, <2>3
  <1>4. WinnerAlone'
    BY <1>0 DEF WinnerAlone, TypeOK
  <1>5. HeldIsHistory'
    BY DEF HeldIsHistory
  <1> QED
    BY <1>1, <1>2, <1>3, <1>4, <1>5

LEMMA CommitInv ==
    ASSUME ManifestInv, NEW w \in Writers, Commit(w)
    PROVE  ManifestInv'
  <1>1. PICK next \in Manifest, expected \in {held[w], NoCurrent} :
            MayCommit(w, next, expected) /\ Publish(w, next, expected.version)
    BY DEF Commit
  <1>2. TypeOK /\ held[w] \in Current /\ NoCurrent \in Current /\ version \in Nat
    BY MaxEpochAssumption DEF ManifestInv, TypeOK, Current, NoCurrent, Version
  <1>3. expected.version \in Version
    BY <1>2 DEF Current
  <1>4. CASE expected.version = 0
    BY <1>1, <1>2, <1>3, <1>4, PublishInv DEF MayCommit
  <1>5. CASE expected.version # 0
    <2>1. expected = held[w] /\ expected.version > 0 /\ expected.version \in Nat
      BY <1>3, <1>5, MaxEpochAssumption DEF NoCurrent, Version
    <2>2. /\ expected.version <= version
          /\ expected.manifest = snapshot[expected.version - 1]
      BY <2>1 DEF ManifestInv, HeldIsHistory
    <2>3. expected.version - 1 \in Epochs /\ expected.version - 1 < version
      BY <2>1, <2>2, <1>2, <1>3, MaxEpochAssumption DEF Version
    <2>4. expected.manifest.epoch = expected.version - 1
      BY <2>2, <2>3 DEF ManifestInv, SnapshotsChained
    <2>5. next.epoch = expected.version /\ next.writer_id = expected.manifest.writer_id
          /\ next.writer_id = w
      BY <1>1, <1>5, <2>1, <2>4 DEF MayCommit
    <2>6. Chain!Succeeds(next, snapshot[expected.version - 1])
      BY <2>2, <2>5 DEF Chain!Succeeds
    <2> QED
      BY <1>1, <1>3, <2>2, <2>5, <2>6, PublishInv
  <1> QED
    BY <1>4, <1>5

LEMMA TakeOverInv ==
    ASSUME ManifestInv, NEW w \in Writers, TakeOver(w)
    PROVE  ManifestInv'
  <1> DEFINE next == [epoch |-> current.epoch + 1, writer_id |-> w,
                      segments |-> current.segments]
  <1>1. TypeOK /\ version \in Version /\ version \in Nat /\ current \in Manifest
    BY MaxEpochAssumption DEF ManifestInv, TypeOK, Version, TakeOver
  <1>2. version > 0 /\ current = snapshot[version - 1]
    BY <1>1 DEF ManifestInv, SnapshotsChained, TakeOver
  <1>3. version - 1 \in Epochs
    BY <1>1, <1>2, MaxEpochAssumption DEF Version
  <1>4. current.epoch = version - 1
    BY <1>1, <1>2, <1>3, NoManifestAssumption DEF ManifestInv, SnapshotsChained
  <1>5. next \in Manifest
    BY <1>1, MaxEpochAssumption DEF TakeOver, HasNext, Manifest
  <1>6. Chain!Succeeds(next, snapshot[version - 1])
    BY <1>2 DEF Chain!Succeeds
  <1>7. Publish(w, next, version)
    BY DEF TakeOver
  <1>8. next.writer_id = w /\ version = next.epoch /\ version <= version
    BY <1>1, <1>4
  <1> HIDE DEF next
  <1> QED
    BY <1>1, <1>5, <1>6, <1>7, <1>8, PublishInv

-----------------------------------------------------------------------------
\* The store creates a snapshot: the chain grows by one link ahead of CURRENT,
\* and what the outstanding requests and the writers rest on stays put.
LEMMA CreateSound ==
    ASSUME ManifestInv, NEW put \in Put, RequestSound(put),
           put.step = "snapshot", Accepts(put), Apply(put)
    PROVE  /\ current' \in Manifest \cup {NoManifest}
           /\ version' \in Version
           /\ snapshot' \in [Epochs -> Manifest \cup {NoManifest}]
           /\ SnapshotsChained'
           /\ \A p \in Put : RequestSound(p) => RequestSound(p)'
           /\ snapshot'[put.next.epoch] = put.next
           /\ put.expected = version
           /\ version' = version
           /\ \A e \in Epochs : e < version => snapshot'[e] = snapshot[e]
  <1> DEFINE e0 == put.next.epoch
  <1>1. /\ e0 \in Epochs /\ put.next \in Manifest /\ e0 = put.expected /\ e0 <= version
        /\ snapshot[e0] = NoManifest /\ put.next # NoManifest
    BY NoManifestAssumption DEF Put, Manifest, RequestSound, Accepts
  <1>2. /\ snapshot' = [snapshot EXCEPT ![e0] = put.next]
        /\ current' = current /\ version' = version
    BY DEF Apply
  <1>3. version \in Nat /\ e0 \in Nat /\ version \in Version
    BY <1>1, MaxEpochAssumption DEF ManifestInv, TypeOK, Version
  <1>4. e0 = version
    BY <1>1, <1>3 DEF ManifestInv, SnapshotsChained
  <1>5. /\ snapshot' \in [Epochs -> Manifest \cup {NoManifest}]
        /\ snapshot'[e0] = put.next
        /\ \A e \in Epochs : e # e0 => snapshot'[e] = snapshot[e]
    BY <1>1, <1>2 DEF ManifestInv, TypeOK
  <1>6. SnapshotsChained'
    <2>1. (version = 0 => current = NoManifest)'
      BY <1>2 DEF ManifestInv, SnapshotsChained
    <2>2. (version > 0 => current = snapshot[version - 1])'
      <3> SUFFICES ASSUME version > 0 PROVE current = snapshot'[version - 1]
        BY <1>2
      <3>1. version - 1 \in Epochs /\ version - 1 # e0
        BY <1>3, <1>4, MaxEpochAssumption DEF Version
      <3> QED
        BY <3>1, <1>5 DEF ManifestInv, SnapshotsChained
    <2>3. (\A e \in Epochs : e < version => snapshot[e] # NoManifest)'
      BY <1>1, <1>2, <1>5 DEF ManifestInv, SnapshotsChained
    <2>4. \A e \in Epochs : snapshot'[e] # NoManifest =>
              /\ snapshot'[e].epoch = e
              /\ e <= version'
              /\ e > 0 => Chain!Succeeds(snapshot'[e], snapshot'[e - 1])
      <3> SUFFICES ASSUME NEW e \in Epochs, snapshot'[e] # NoManifest
                   PROVE  /\ snapshot'[e].epoch = e
                          /\ e <= version'
                          /\ e > 0 => Chain!Succeeds(snapshot'[e], snapshot'[e - 1])
        OBVIOUS
      <3>1. CASE e = e0
        <4>1. e > 0 => e - 1 \in Epochs /\ e - 1 # e0
          BY <3>1, MaxEpochAssumption
        <4>2. e > 0 => Chain!Succeeds(put.next, snapshot[e - 1])
          BY <3>1, <1>1 DEF RequestSound
        <4> QED
          BY <3>1, <4>1, <4>2, <1>1, <1>2, <1>5
      <3>2. CASE e # e0
        <4>1. e > 0 => e - 1 \in Epochs
          BY MaxEpochAssumption
        <4>2. e <= version /\ e < e0
          BY <3>2, <1>3, <1>4, <1>5, MaxEpochAssumption DEF ManifestInv, SnapshotsChained
        <4>3. e > 0 => e - 1 # e0
          BY <4>2, <1>3, MaxEpochAssumption
        <4> QED
          BY <3>2, <4>1, <4>2, <4>3, <1>2, <1>5 DEF ManifestInv, SnapshotsChained
      <3> QED
        BY <3>1, <3>2
    <2> QED
      BY <2>1, <2>2, <2>3, <2>4 DEF SnapshotsChained
  <1>7. ASSUME NEW p \in Put, RequestSound(p) PROVE RequestSound(p)'
    <2>1. p.next.epoch \in Epochs /\ p.expected \in Nat /\ p.next \in Manifest
      BY MaxEpochAssumption DEF Put, Manifest, Version
    <2>2. p.expected > 0 => p.expected - 1 \in Epochs /\ p.expected - 1 # e0
      BY <1>3, <1>4, <1>7, <2>1, MaxEpochAssumption DEF RequestSound
    <2>3. p.step = "swing" => p.next.epoch # e0
      BY <1>1, <1>7, <2>1, NoManifestAssumption DEF RequestSound
    <2> QED
      BY <1>2, <1>5, <1>7, <2>1, <2>2, <2>3 DEF RequestSound
  <1> QED
    BY <1>1, <1>2, <1>3, <1>4, <1>5, <1>6, <1>7 DEF ManifestInv, TypeOK

\* The store swings CURRENT: to the one snapshot ahead of it.
LEMMA SwingSound ==
    ASSUME ManifestInv, NEW put \in Put, RequestSound(put),
           put.step = "swing", Accepts(put), Apply(put)
    PROVE  /\ current' \in Manifest \cup {NoManifest}
           /\ version' \in Version
           /\ snapshot' = snapshot
           /\ version' = version + 1
           /\ version \in Epochs
           /\ put.next = snapshot[version]
           /\ SnapshotsChained'
           /\ \A p \in Put : RequestSound(p) => RequestSound(p)'
  <1>1. /\ put.next \in Manifest /\ put.next # NoManifest /\ put.next.epoch \in Epochs
        /\ put.expected = version /\ put.next.epoch = version
        /\ snapshot[version] = put.next
    BY NoManifestAssumption DEF Put, Manifest, RequestSound, Accepts
  <1>2. snapshot' = snapshot /\ version' = version + 1 /\ current' = put.next
    BY DEF Apply
  <1>3. version \in Nat /\ version \in Epochs /\ version' \in Version /\ version' - 1 = version
    BY <1>1, <1>2, MaxEpochAssumption DEF Version
  <1>4. SnapshotsChained'
    <2>1. \A e \in Epochs : e < version + 1 => snapshot[e] # NoManifest
      BY <1>1, <1>3, MaxEpochAssumption DEF ManifestInv, SnapshotsChained
    <2>2. \A e \in Epochs : e <= version => e <= version + 1
      BY <1>3, MaxEpochAssumption
    <2> QED
      BY <1>1, <1>2, <1>3, <2>1, <2>2 DEF ManifestInv, SnapshotsChained
  <1>5. ASSUME NEW p \in Put, RequestSound(p) PROVE RequestSound(p)'
    <2>1. p.expected \in Nat
      BY MaxEpochAssumption DEF Put, Version
    <2> QED
      BY <1>2, <1>3, <1>5, <2>1 DEF RequestSound
  <1> QED
    BY <1>1, <1>2, <1>3, <1>4, <1>5

LEMMA PutSnapshotInv ==
    ASSUME ManifestInv, NEW w \in Writers, PutSnapshot(w)
    PROVE  ManifestInv'
  <1>1. TypeOK /\ op[w] \in Put /\ op[w] # Idle /\ op[w].step = "snapshot"
        /\ RequestSound(op[w]) /\ op[w].next.writer_id = w
    BY OpCases DEF ManifestInv, PutSnapshot, Requests, WinnerAlone
  <1>2. held' = held /\ late' = late
    BY DEF PutSnapshot
  <1>3. CASE Accepts(op[w]) /\ Apply(op[w])
             /\ op' = [op EXCEPT ![w] = [op[w] EXCEPT !.step = "swing"]]
    <2>0. PICK won : won = [op[w] EXCEPT !.step = "swing"]
      OBVIOUS
    <2>1. won \in Put /\ won # Idle /\ won.next = op[w].next
          /\ won.expected = op[w].expected /\ won.step = "swing"
      BY <1>1, <2>0 DEF Put, Idle
    <2>2. op' = [op EXCEPT ![w] = won] /\ op'[w] = won /\ op' \in [Writers -> Put \cup {Idle}]
          /\ \A v \in Writers : v # w => op'[v] = op[v]
      BY <1>3, <2>0, <2>1, <1>1 DEF TypeOK
    <2>3. /\ current' \in Manifest \cup {NoManifest}
          /\ version' \in Version
          /\ snapshot' \in [Epochs -> Manifest \cup {NoManifest}]
          /\ SnapshotsChained'
          /\ \A p \in Put : RequestSound(p) => RequestSound(p)'
          /\ snapshot'[op[w].next.epoch] = op[w].next
          /\ op[w].expected = version
          /\ version' = version
          /\ \A e \in Epochs : e < version => snapshot'[e] = snapshot[e]
      BY <1>1, <1>3, CreateSound
    <2>4. TypeOK'
      BY <2>2, <2>3, <1>1, <1>2 DEF TypeOK
    <2>5. (\A put \in Requests : RequestSound(put))'
      <3>1. RequestSound(won)'
        BY <2>1, <2>3, <1>1 DEF RequestSound
      <3>2. Requests' \subseteq Requests \cup {won}
        BY <1>2, <2>2 DEF Requests
      <3>3. Requests \subseteq Put
        BY <1>1 DEF Requests, TypeOK
      <3> QED
        BY <3>1, <3>2, <3>3, <2>3 DEF ManifestInv
    <2>6. WinnerAlone'
      <3>1. op[w].next.epoch \in Epochs /\ snapshot[op[w].next.epoch] = NoManifest
        BY <1>1, <1>3 DEF Accepts, Put, Manifest
      <3>2. \A put \in late : put.step = "swing" => put.next # won.next
        <4> SUFFICES ASSUME NEW put \in late, put.step = "swing", put.next = won.next
                     PROVE FALSE
          OBVIOUS
        <4>1. snapshot[put.next.epoch] = put.next /\ put.next \in Manifest
          BY <1>1 DEF ManifestInv, Requests, RequestSound, TypeOK, Put
        <4> QED
          BY <4>1, <2>1, <3>1, NoManifestAssumption
      <3> QED
        BY <3>2, <2>1, <2>2, <2>3, <1>1, <1>2 DEF ManifestInv, WinnerAlone
    <2>7. HeldIsHistory'
      <3> SUFFICES ASSUME NEW v \in Writers, held[v].version > 0
                   PROVE  /\ held[v].version <= version'
                          /\ held[v].manifest = snapshot'[held[v].version - 1]
        BY <1>2 DEF HeldIsHistory
      <3>1. held[v].version <= version /\ held[v].manifest = snapshot[held[v].version - 1]
        BY DEF ManifestInv, HeldIsHistory
      <3>2. held[v].version - 1 \in Epochs /\ held[v].version - 1 < version
        BY <1>1, <3>1, MaxEpochAssumption DEF TypeOK, Current, Version
      <3> QED
        BY <2>3, <3>1, <3>2
    <2> QED
      BY <2>3, <2>4, <2>5, <2>6, <2>7 DEF ManifestInv
  <1>4. CASE /\ ~Accepts(op[w]) /\ op' = [op EXCEPT ![w] = Idle]
             /\ UNCHANGED <<current, version, snapshot>>
    <2>1. op'[w] = Idle /\ op' \in [Writers -> Put \cup {Idle}]
          /\ \A v \in Writers : v # w => op'[v] = op[v]
      BY <1>4, <1>1 DEF TypeOK
    <2>2. TypeOK'
      BY <1>2, <1>4, <2>1, <1>1 DEF TypeOK
    <2>3. SnapshotsChained' /\ HeldIsHistory'
      BY <1>2, <1>4 DEF ManifestInv, SnapshotsChained, HeldIsHistory
    <2>4. (\A put \in Requests : RequestSound(put))'
      <3>1. Requests' \subseteq Requests
        BY <1>2, <2>1 DEF Requests
      <3> QED
        BY <3>1, <1>4 DEF ManifestInv, RequestSound
    <2>5. WinnerAlone'
      BY <1>2, <1>4, <2>1 DEF ManifestInv, WinnerAlone
    <2> QED
      BY <2>2, <2>3, <2>4, <2>5 DEF ManifestInv
  <1> QED
    BY <1>3, <1>4 DEF PutSnapshot

LEMMA PutCurrentInv ==
    ASSUME ManifestInv, NEW w \in Writers, PutCurrent(w)
    PROVE  ManifestInv'
  <1>1. TypeOK /\ op[w] \in Put /\ op[w] # Idle /\ op[w].step = "swing"
        /\ RequestSound(op[w]) /\ op[w].next.writer_id = w /\ op[w].expected = version
    BY OpCases DEF ManifestInv, PutCurrent, Requests, WinnerAlone
  <1>2. Accepts(op[w])
    BY <1>1 DEF Accepts
  <1>3. late' = late /\ op' = [op EXCEPT ![w] = Idle] /\ Apply(op[w])
        /\ held' = [held EXCEPT ![w] = Handed(op[w])]
    BY <1>2 DEF PutCurrent
  <1>4. /\ current' \in Manifest \cup {NoManifest}
        /\ version' \in Version
        /\ snapshot' = snapshot
        /\ version' = version + 1
        /\ version \in Epochs
        /\ op[w].next = snapshot[version]
        /\ SnapshotsChained'
        /\ \A p \in Put : RequestSound(p) => RequestSound(p)'
    BY <1>1, <1>2, <1>3, SwingSound
  <1>5. op'[w] = Idle /\ op' \in [Writers -> Put \cup {Idle}]
        /\ \A v \in Writers : v # w => op'[v] = op[v]
    BY <1>1, <1>3 DEF TypeOK
  <1>6. TypeOK'
    <2>1. Handed(op[w]) \in Current
      BY <1>1, <1>4 DEF Handed, Current, Put
    <2> QED
      BY <1>1, <1>3, <1>4, <1>5, <2>1 DEF TypeOK
  <1>7. (\A put \in Requests : RequestSound(put))'
    <2>1. Requests' \subseteq Requests /\ Requests \subseteq Put
      BY <1>1, <1>3, <1>5 DEF Requests, TypeOK
    <2> QED
      BY <2>1, <1>4 DEF ManifestInv
  <1>8. WinnerAlone'
    <2> SUFFICES ASSUME NEW v \in Writers, v # w, op[v] # Idle
                 PROVE  op[v].next.writer_id = v /\ op[v].step # "swing"
      BY <1>5 DEF WinnerAlone
    <2>1. op[v].next.writer_id = v
      BY DEF ManifestInv, WinnerAlone
    <2>2. ASSUME op[v].step = "swing" PROVE FALSE
      <3>1. op[v].expected = version /\ op[v].expected = op[v].next.epoch
            /\ snapshot[op[v].next.epoch] = op[v].next
        BY <2>2 DEF ManifestInv, WinnerAlone, Requests, RequestSound
      <3>2. op[v].next = op[w].next
        BY <3>1, <1>4
      <3> QED
        BY <3>2, <2>1, <1>1
    <2> QED
      BY <2>1, <2>2
  <1>9. HeldIsHistory'
    <2> SUFFICES ASSUME NEW v \in Writers, held'[v].version > 0
                 PROVE  /\ held'[v].version <= version + 1
                        /\ held'[v].manifest = snapshot[held'[v].version - 1]
      BY <1>4 DEF HeldIsHistory
    <2>0. version \in Nat
      BY <1>4, MaxEpochAssumption
    <2>1. CASE v = w
      <3>1. held'[v] = [manifest |-> op[w].next, version |-> version + 1]
        BY <2>1, <1>1, <1>3 DEF TypeOK, Handed
      <3>2. (version + 1) - 1 = version
        BY <2>0
      <3> QED
        BY <2>0, <3>1, <3>2, <1>4
    <2>2. CASE v # w
      <3>1. held'[v] = held[v] /\ held[v].version \in Nat
        BY <2>2, <1>1, <1>3, MaxEpochAssumption DEF TypeOK, Current, Version
      <3> QED
        BY <2>0, <3>1 DEF ManifestInv, HeldIsHistory
    <2> QED
      BY <2>1, <2>2
  <1> QED
    BY <1>4, <1>6, <1>7, <1>8, <1>9 DEF ManifestInv

-----------------------------------------------------------------------------
\* A request given up stays sound; its writer is idle.
LEMMA GiveUpInv ==
    ASSUME ManifestInv, NEW w \in Writers, GiveUp(w),
           held' \in [Writers -> Current], HeldIsHistory'
    PROVE  ManifestInv'
  <1>1. TypeOK /\ (op[w] = Idle \/ op[w] \in Put)
    BY OpCases DEF ManifestInv
  <1>2. current' = current /\ version' = version /\ snapshot' = snapshot
        /\ op' = [op EXCEPT ![w] = Idle]
        /\ late' = IF op[w] = Idle THEN late ELSE late \cup {op[w]}
    BY DEF GiveUp
  <1>3. op'[w] = Idle /\ op' \in [Writers -> Put \cup {Idle}]
        /\ \A v \in Writers : v # w => op'[v] = op[v]
    BY <1>1, <1>2 DEF TypeOK
  <1>4. TypeOK'
    BY <1>1, <1>2, <1>3 DEF TypeOK
  <1>5. SnapshotsChained'
    BY <1>2 DEF ManifestInv, SnapshotsChained
  <1>6. (\A put \in Requests : RequestSound(put))'
    <2>1. Requests' \subseteq Requests
      BY <1>2, <1>3 DEF Requests
    <2> QED
      BY <2>1, <1>2 DEF ManifestInv, RequestSound
  <1>7. WinnerAlone'
    <2> SUFFICES ASSUME NEW v \in Writers, v # w, op[v] # Idle, op[v].step = "swing",
                        NEW put \in late', put.step = "swing"
                 PROVE  put.next # op[v].next
      BY <1>2, <1>3 DEF ManifestInv, WinnerAlone
    <2>1. CASE put \in late
      BY <2>1 DEF ManifestInv, WinnerAlone
    <2>2. CASE put \notin late
      <3>1. put = op[w] /\ op[w] # Idle
        BY <2>2, <1>2
      <3> QED
        BY <3>1 DEF ManifestInv, WinnerAlone
    <2> QED
      BY <2>1, <2>2
  <1> QED
    BY <1>4, <1>5, <1>6, <1>7 DEF ManifestInv

LEMMA PutFailsInv ==
    ASSUME ManifestInv, NEW w \in Writers, PutFails(w)
    PROVE  ManifestInv'
  <1>1. held' \in [Writers -> Current] /\ HeldIsHistory'
    BY DEF ManifestInv, TypeOK, PutFails, GiveUp, HeldIsHistory
  <1> QED
    BY <1>1, GiveUpInv DEF PutFails

LEMMA CrashInv ==
    ASSUME ManifestInv, NEW w \in Writers, Crash(w)
    PROVE  ManifestInv'
  <1>1. held' \in [Writers -> Current] /\ HeldIsHistory'
    BY MaxEpochAssumption
       DEF ManifestInv, TypeOK, Crash, GiveUp, HeldIsHistory, NoCurrent, Current, Version
  <1> QED
    BY <1>1, GiveUpInv DEF Crash

LEMMA LateArrivesInv ==
    ASSUME ManifestInv, NEW put \in late, LateArrives(put)
    PROVE  ManifestInv'
  <1>1. TypeOK /\ put \in Put /\ RequestSound(put) /\ Accepts(put) /\ Apply(put)
        /\ held' = held /\ op' = op /\ late' = late
    BY DEF ManifestInv, TypeOK, Requests, LateArrives
  <1>2. Requests' = Requests /\ Requests \subseteq Put
    BY <1>1 DEF Requests, TypeOK
  <1>3. CASE put.step = "snapshot"
    <2>1. /\ current' \in Manifest \cup {NoManifest}
          /\ version' \in Version
          /\ snapshot' \in [Epochs -> Manifest \cup {NoManifest}]
          /\ SnapshotsChained'
          /\ \A p \in Put : RequestSound(p) => RequestSound(p)'
          /\ version' = version
          /\ \A e \in Epochs : e < version => snapshot'[e] = snapshot[e]
      BY <1>1, <1>3, CreateSound
    <2>2. TypeOK'
      BY <1>1, <2>1 DEF TypeOK
    <2>3. WinnerAlone'
      BY <1>1, <2>1 DEF ManifestInv, WinnerAlone
    <2>4. HeldIsHistory'
      <3> SUFFICES ASSUME NEW v \in Writers, held[v].version > 0
                   PROVE  /\ held[v].version <= version'
                          /\ held[v].manifest = snapshot'[held[v].version - 1]
        BY <1>1 DEF HeldIsHistory
      <3>1. held[v].version <= version /\ held[v].manifest = snapshot[held[v].version - 1]
        BY DEF ManifestInv, HeldIsHistory
      <3>2. held[v].version - 1 \in Epochs /\ held[v].version - 1 < version
        BY <1>1, <3>1, MaxEpochAssumption DEF TypeOK, Current, Version
      <3> QED
        BY <2>1, <3>1, <3>2
    <2> QED
      BY <1>2, <2>1, <2>2, <2>3, <2>4 DEF ManifestInv
  <1>4. CASE put.step = "swing"
    <2>1. /\ current' \in Manifest \cup {NoManifest}
          /\ version' \in Version
          /\ snapshot' = snapshot
          /\ version' = version + 1
          /\ version \in Epochs
          /\ put.next = snapshot[version]
          /\ SnapshotsChained'
          /\ \A p \in Put : RequestSound(p) => RequestSound(p)'
      BY <1>1, <1>4, SwingSound
    <2>2. TypeOK'
      BY <1>1, <2>1 DEF TypeOK
    <2>3. WinnerAlone'
      <3> SUFFICES ASSUME NEW v \in Writers, op[v] # Idle, op[v].step = "swing"
                   PROVE  FALSE
        BY <1>1 DEF ManifestInv, WinnerAlone
      <3>1. op[v].expected = version /\ op[v].expected = op[v].next.epoch
            /\ snapshot[op[v].next.epoch] = op[v].next /\ put.next # op[v].next
        BY <1>4 DEF ManifestInv, WinnerAlone, Requests, RequestSound
      <3> QED
        BY <3>1, <2>1
    <2>4. HeldIsHistory'
      <3>1. \A v \in Writers : held[v].version \in Nat
        BY <1>1, MaxEpochAssumption DEF TypeOK, Current, Version
      <3>2. version \in Nat
        BY <2>1, MaxEpochAssumption
      <3> QED
        BY <1>1, <2>1, <3>1, <3>2 DEF ManifestInv, HeldIsHistory
    <2> QED
      BY <1>2, <2>1, <2>2, <2>3, <2>4 DEF ManifestInv
  <1> QED
    BY <1>1, <1>3, <1>4 DEF Put

-----------------------------------------------------------------------------
\* Every step of the protocol keeps the invariant.
LEMMA NextInv == ManifestInv /\ [Next]_vars => ManifestInv'
  <1> SUFFICES ASSUME ManifestInv, [Next]_vars PROVE ManifestInv'
    OBVIOUS
  <1>1. ASSUME NEW w \in Writers,
               \/ ReadCurrent(w) \/ Commit(w) \/ TakeOver(w)
               \/ PutSnapshot(w) \/ PutCurrent(w) \/ PutFails(w) \/ Crash(w)
        PROVE  ManifestInv'
    BY <1>1, ReadCurrentInv, CommitInv, TakeOverInv, PutSnapshotInv, PutCurrentInv,
       PutFailsInv, CrashInv
  <1>2. ASSUME NEW put \in late, LateArrives(put) PROVE ManifestInv'
    BY <1>2, LateArrivesInv
  <1>3. CASE UNCHANGED vars
    BY <1>3 DEF vars, ManifestInv, TypeOK, SnapshotsChained, Requests, RequestSound,
                WinnerAlone, HeldIsHistory
  <1> QED
    BY <1>1, <1>2, <1>3 DEF Next

(***************************************************************************)
(* The inductive invariant holds in every reachable state of the commit    *)
(* protocol (store.rs commit, take_over, publish).                         *)
(***************************************************************************)
THEOREM ManifestInvariant == Spec => []ManifestInv
  BY InitInv, NextInv, PTL DEF Spec

(***************************************************************************)
(* What read_current, commit or take_over gave a writer stays in the       *)
(* history.                                                                *)
(***************************************************************************)
THEOREM HeldStays == Spec => []HeldIsHistory
  <1>1. ManifestInv => HeldIsHistory
    BY DEF ManifestInv
  <1> QED
    BY <1>1, ManifestInvariant, PTL

(***************************************************************************)
(* A put on a superseded token fails, the Create of a snapshot included.   *)
(***************************************************************************)
THEOREM Fencing == Spec => []SupersededFenced
  <1>1. ManifestInv => SupersededFenced
    <2> SUFFICES ASSUME ManifestInv, NEW put \in Requests, put.expected # version,
                        put.step = "snapshot"
                 PROVE  snapshot[put.next.epoch] # NoManifest
      BY DEF SupersededFenced, Accepts
    <2>1. put \in Put /\ RequestSound(put)
      BY DEF ManifestInv, TypeOK, Requests
    <2>2. put.next.epoch \in Epochs /\ put.next.epoch = put.expected
          /\ put.expected <= version
      BY <2>1 DEF RequestSound, Put, Manifest
    <2>3. put.next.epoch < version
      BY <2>2, MaxEpochAssumption DEF ManifestInv, TypeOK, Version
    <2> QED
      BY <2>2, <2>3 DEF ManifestInv, SnapshotsChained
  <1> QED
    BY <1>1, ManifestInvariant, PTL

(***************************************************************************)
(* The second put of publish never loses: the snapshot decided the race.   *)
(***************************************************************************)
THEOREM SwingNeverLoses == Spec => []SwingWins
  <1>1. ManifestInv => SwingWins
    BY OpCases DEF ManifestInv, SwingWins, WinnerAlone, Accepts
  <1> QED
    BY <1>1, ManifestInvariant, PTL

-----------------------------------------------------------------------------
\* The mapped chain is a sequence of manifests.
LEMMA HistoryIsSeq ==
    ASSUME ManifestInv
    PROVE  /\ version \in Nat
           /\ History \in Seq(Manifest)
           /\ Len(History) = version
           /\ \A i \in 1..version : History[i] = snapshot[i - 1]
  <1>1. version \in Nat /\ version <= MaxEpoch + 1
    BY MaxEpochAssumption DEF ManifestInv, TypeOK, Version
  <1>2. \A i \in 1..version : i - 1 \in Epochs /\ i - 1 < version
    BY <1>1, MaxEpochAssumption
  <1>3. \A i \in 1..version : snapshot[i - 1] \in Manifest
    BY <1>2 DEF ManifestInv, TypeOK, SnapshotsChained
  <1> QED
    BY <1>1, <1>3 DEF History

\* A swing of CURRENT appends the snapshot it publishes to the chain.
LEMMA SwingExtends ==
    ASSUME ManifestInv, ManifestInv', NEW put \in Put, RequestSound(put),
           put.step = "swing", Accepts(put), Apply(put)
    PROVE  Chain!Next
  <1>1. /\ snapshot' = snapshot /\ version' = version + 1 /\ version \in Epochs
        /\ put.next = snapshot[version] /\ put.next.epoch = version
        /\ put.next \in Manifest
    BY SwingSound DEF RequestSound, Accepts, Put
  <1>2. version \in Nat /\ History \in Seq(Manifest) /\ Len(History) = version
        /\ \A i \in 1..version : History[i] = snapshot[i - 1]
    BY HistoryIsSeq
  <1>3. History' = Append(History, put.next)
    <2>1. History' = [i \in 1..(version + 1) |-> snapshot[i - 1]]
      BY <1>1 DEF History
    <2>2. \A i \in 1..(version + 1) :
              snapshot[i - 1] = IF i <= version THEN History[i] ELSE put.next
      BY <1>1, <1>2
    <2>3. Append(History, put.next)
            = [i \in 1..(version + 1) |-> IF i <= version THEN History[i] ELSE put.next]
      BY <1>2, AppendProperties
    <2> QED
      BY <2>1, <2>2, <2>3
  <1>4. History # <<>> => Chain!Succeeds(put.next, History[Len(History)])
    <2> SUFFICES ASSUME version > 0
                 PROVE  Chain!Succeeds(put.next, History[version])
      BY <1>2
    <2>1. History[version] = snapshot[version - 1]
      BY <1>2
    <2> QED
      BY <2>1, <1>1 DEF RequestSound, Accepts
  <1> QED
    BY <1>1, <1>2, <1>3, <1>4
       DEF Chain!Next, Chain!Extend, Chain!Manifest, Manifest

\* A step that leaves CURRENT alone leaves the chain alone: it rewrites no
\* snapshot at or below CURRENT's epoch.
LEMMA ChainKept ==
    ASSUME ManifestInv, version' = version,
           \A e \in Epochs : e < version => snapshot'[e] = snapshot[e]
    PROVE  History' = History
  <1>1. version \in Nat /\ version <= MaxEpoch + 1
    BY MaxEpochAssumption DEF ManifestInv, TypeOK, Version
  <1>2. \A i \in 1..version : i - 1 \in Epochs /\ i - 1 < version
    BY <1>1, MaxEpochAssumption
  <1> QED
    BY <1>2 DEF History

\* Whatever the store applies is a step of the chain or none.
LEMMA ApplyRefines ==
    ASSUME ManifestInv, ManifestInv', NEW put \in Put, RequestSound(put),
           Accepts(put), Apply(put)
    PROVE  Chain!Next \/ History' = History
  <1>1. CASE put.step = "snapshot"
    <2>1. version' = version /\ \A e \in Epochs : e < version => snapshot'[e] = snapshot[e]
      BY <1>1, CreateSound
    <2> QED
      BY <2>1, ChainKept
  <1>2. CASE put.step = "swing"
    BY <1>2, SwingExtends
  <1> QED
    BY <1>1, <1>2 DEF Put

LEMMA StepRefines ==
    ManifestInv /\ ManifestInv' /\ [Next]_vars => [Chain!Next]_History
  <1> SUFFICES ASSUME ManifestInv, ManifestInv', [Next]_vars
               PROVE  Chain!Next \/ History' = History
    OBVIOUS
  <1>1. CASE UNCHANGED <<version, snapshot>>
    BY <1>1, ChainKept
  <1>2. ASSUME NEW w \in Writers, PutSnapshot(w) \/ PutCurrent(w)
        PROVE  Chain!Next \/ History' = History
    <2>1. op[w] \in Put /\ RequestSound(op[w])
      BY <1>2, OpCases DEF ManifestInv, Requests, PutSnapshot, PutCurrent
    <2>2. \/ Accepts(op[w]) /\ Apply(op[w])
          \/ UNCHANGED <<version, snapshot>>
      BY <1>2 DEF PutSnapshot, PutCurrent
    <2> QED
      BY <2>1, <2>2, <1>1, ApplyRefines
  <1>3. ASSUME NEW put \in late, LateArrives(put)
        PROVE  Chain!Next \/ History' = History
    <2>1. put \in Put /\ RequestSound(put)
      BY DEF ManifestInv, TypeOK, Requests
    <2> QED
      BY <1>3, <2>1, ApplyRefines DEF LateArrives
  <1>4. ASSUME NEW w \in Writers,
               ReadCurrent(w) \/ Commit(w) \/ TakeOver(w) \/ PutFails(w) \/ Crash(w)
        PROVE  UNCHANGED <<version, snapshot>>
    BY <1>4 DEF ReadCurrent, Commit, TakeOver, Publish, PutFails, Crash, GiveUp
  <1>5. CASE UNCHANGED vars
    BY <1>5, <1>1 DEF vars
  <1> QED
    BY <1>1, <1>2, <1>3, <1>4, <1>5 DEF Next

(***************************************************************************)
(* The commit protocol implements the append-only chain of EpochChain: the *)
(* snapshots are its immutable history, whoever writes, crashes or arrives *)
(* late.                                                                   *)
(***************************************************************************)
THEOREM Refinement == Spec => ImplementsChain
  <1>1. Init => Chain!Init
    BY DEF Init, Chain!Init, History
  <1> QED
    BY <1>1, StepRefines, ManifestInvariant, PTL DEF Spec, ImplementsChain, Chain!Spec
=============================================================================
