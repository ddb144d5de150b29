------------------------- MODULE GroupCommitProofs -------------------------
(* Proofs about group commit, for any number of writers, commits, cuts and  *)
(* failed syncs: one leader at a time and an exact count of who waits, and  *)
(* only durable commits acknowledged as long as no checkpoint cuts the log  *)
(* under a sync whose target was read.                                      *)
EXTENDS GroupCommit, FiniteSetTheorems, TLAPS

(* The empty log of a freshly opened writer (Commits::new). *)
LEMMA InitGroup == Init => GroupInv
<1> SUFFICES ASSUME Init PROVE GroupInv
  OBVIOUS
<1> USE WriterAssumption, BoundAssumption DEF Init, NewCommits
<1>1. FlagsOK
  BY DEF FlagsOK
<1>2. TypeOK
  BY <1>1 DEF TypeOK, Id, Inside
<1>3. LogInv
  BY DEF LogInv
<1>4. QED BY <1>2, <1>3 DEF GroupInv, CallOK, CallInv, Inside

(* The flags stay Boolean whatever step is taken. *)
LEMMA FlagsStep ==
  ASSUME FlagsOK, NEW w \in Writers, WriteSide(w) \/ SyncThrough(w) \/ Wake(w)
  PROVE  FlagsOK'
<1>1. CASE WriteSide(w)
  <2>1. UNCHANGED <<running, failed, timed>>
    BY <1>1 DEF WriteSide, Take, CheckpointCut, Release, Spill, StageCommit, marks
  <2>2. counted' \in [Writers -> BOOLEAN]
    BY <1>1 DEF FlagsOK, WriteSide, Take, CheckpointCut, Release, Spill, StageCommit
  <2>3. raced' \in BOOLEAN
    <3>1. CASE CheckpointCut(w)
      BY <3>1 DEF CheckpointCut
    <3>2. CASE raced' = raced
      BY <3>2 DEF FlagsOK
    <3>3. QED
      BY <1>1, <3>1, <3>2 DEF WriteSide, Take, Release, Spill, StageCommit, ghosts
  <2>4. QED BY <2>1, <2>2, <2>3 DEF FlagsOK
<1>2. CASE SyncThrough(w) \/ Wake(w)
  <2>1. counted' \in [Writers -> BOOLEAN]
    BY <1>2 DEF FlagsOK, SyncThrough, Return, Wait, Wake, LeadPausing, LeadNow,
                SyncIssue, SyncOk, SyncFail, Count
  <2>2. running' \in BOOLEAN /\ failed' \in BOOLEAN /\ timed' \in BOOLEAN
    BY <1>2 DEF FlagsOK, SyncThrough, Return, Wait, Wake, LeadPausing, LeadNow,
                SyncIssue, SyncOk, SyncFail, marks
  <2>3. raced' = raced
    BY <1>2 DEF SyncThrough, Return, Wait, Wake, LeadPausing, LeadNow,
                SyncIssue, SyncOk, SyncFail, ghosts
  <2>4. QED BY <2>1, <2>2, <2>3 DEF FlagsOK
<1>3. QED BY <1>1, <1>2

(* A race is never forgotten. *)
LEMMA RacedStep ==
  ASSUME NEW w \in Writers, WriteSide(w) \/ SyncThrough(w) \/ Wake(w)
  PROVE  ~raced' => ~raced
<1>1. CASE CheckpointCut(w)
  BY <1>1 DEF CheckpointCut
<1>2. CASE ~CheckpointCut(w)
  BY <1>2 DEF WriteSide, SyncThrough, Take, Release, Spill, StageCommit, Return,
              Wait, Wake, LeadPausing, LeadNow, SyncIssue, SyncOk, SyncFail, ghosts
<1>3. QED BY <1>1, <1>2

(* Types, and who may be where, through the write side's steps. *)
LEMMA WriteSideTypes ==
  ASSUME TypeOK, \A v \in Writers : CallOK(v), NEW w \in Writers, WriteSide(w)
  PROVE  TypeOK' /\ \A v \in Writers : CallOK(v)'
<1> USE WriterAssumption, BoundAssumption DEF Id, Inside
<1>0. FlagsOK'
  BY FlagsStep DEF TypeOK
<1>1. CASE Take(w)
  BY <1>0, <1>1 DEF Take, TypeOK, CallOK, marks, ghosts
<1>2. CASE CheckpointCut(w)
  <2>1. mine[w] \in Id /\ side = w
    BY <1>2 DEF CheckpointCut, CallOK
  <2>2. /\ platter' \in SUBSET Id /\ acked' \in SUBSET Id /\ logged' \in SUBSET Id
        /\ cuts' \in 0 .. MaxCuts
    <3>1. /\ platter' = platter \cup logged /\ acked' = acked \cup {mine[w]}
          /\ logged' = {} /\ cuts' = cuts + 1 /\ cuts < MaxCuts
      BY <1>2 DEF CheckpointCut
    <3>2. platter \in SUBSET Id /\ acked \in SUBSET Id /\ logged \in SUBSET Id
      BY DEF TypeOK
    <3>3. cuts' \in 0 .. MaxCuts
      BY <3>1 DEF TypeOK
    <3>4. QED BY <2>1, <3>1, <3>2, <3>3
  <2>3. TypeOK'
    BY <1>0, <1>2, <2>2 DEF CheckpointCut, TypeOK
  <2>4. QED BY <1>2, <2>1, <2>3 DEF CheckpointCut, TypeOK, CallOK
<1>3. CASE Release(w)
  BY <1>0, <1>3 DEF Release, TypeOK, CallOK, marks, ghosts
<1>4. ASSUME NEW n \in 1 .. MaxSize, Spill(w, n)
      PROVE  TypeOK' /\ \A v \in Writers : CallOK(v)'
  BY <1>0, <1>4 DEF Spill, Flush, Largest, TypeOK, CallOK, ghosts
<1>5. ASSUME NEW n \in 1 .. MaxSize, StageCommit(w, n)
      PROVE  TypeOK' /\ \A v \in Writers : CallOK(v)'
  <2>1. serial + 1 \in Id /\ side = w
    BY <1>5 DEF StageCommit, TypeOK, CallOK
  <2>2. len' \in Nat /\ staged' \in Nat
    BY <1>5 DEF StageCommit, Flush, Largest, TypeOK
  <2>3. /\ need' \in [Writers -> Nat] /\ mine' \in [Writers -> 0 .. MaxCommits]
        /\ pc' \in [Writers -> {"idle", "write", "staged"} \cup Inside]
        /\ end' \in [Id -> Nat]
    BY <1>5, <2>1 DEF StageCommit, TypeOK
  <2>4. logged' \in SUBSET Id /\ serial' \in 0 .. MaxCommits
    BY <1>5, <2>1 DEF StageCommit, TypeOK
  <2>5. TypeOK'
    BY <1>0, <1>5, <2>2, <2>3, <2>4 DEF StageCommit, TypeOK
  <2>6. QED BY <1>5, <2>1, <2>5 DEF StageCommit, TypeOK, CallOK
<1>6. QED BY <1>1, <1>2, <1>3, <1>4, <1>5 DEF WriteSide

(* Types, and who may be where, through the steps of sync_through. *)
LEMMA SyncThroughTypes ==
  ASSUME TypeOK, \A v \in Writers : CallOK(v), NEW w \in Writers,
         SyncThrough(w) \/ Wake(w)
  PROVE  TypeOK' /\ \A v \in Writers : CallOK(v)'
<1> USE WriterAssumption, BoundAssumption DEF Id, Inside
<1>0. FlagsOK'
  BY FlagsStep DEF TypeOK
<1>1. CASE Return(w)
  <2>1. waiting' \in Int /\ acked' \in SUBSET Id
    BY <1>1 DEF Return, TypeOK, CallOK
  <2>2. QED BY <1>0, <1>1, <2>1 DEF Return, TypeOK, CallOK
<1>2. CASE Wait(w)
  <2>1. waiting' \in Int
    BY <1>2 DEF Wait, Count, TypeOK
  <2>2. QED BY <1>0, <1>2, <2>1 DEF Wait, TypeOK, CallOK, ghosts
<1>3. CASE Wake(w)
  BY <1>0, <1>3 DEF Wake, TypeOK, CallOK, marks, ghosts
<1>4. CASE LeadPausing(w)
  <2>1. waiting' \in Int
    BY <1>4 DEF LeadPausing, Count, TypeOK
  <2>2. QED BY <1>0, <1>4, <2>1 DEF LeadPausing, TypeOK, CallOK, ghosts
<1>5. CASE LeadNow(w)
  <2>1. waiting' \in Int /\ pc[w] \in {"enter", "gather"}
    BY <1>5 DEF LeadNow, Count, TypeOK
  <2>2. /\ target' = [target EXCEPT ![w] = staged] /\ pc' = [pc EXCEPT ![w] = "sync"]
        /\ UNCHANGED <<side, need, len, staged, durable, group, ghosts, cuts, fails>>
    BY <1>5 DEF LeadNow
  <2>3. QED BY <1>0, <2>1, <2>2 DEF TypeOK, CallOK, ghosts
<1>6. CASE SyncIssue(w)
  BY <1>0, <1>6 DEF SyncIssue, TypeOK, CallOK, marks
<1>7. CASE SyncOk(w)
  <2>1. mine[w] \in Id /\ covers[w] \in SUBSET Id
    BY <1>7 DEF SyncOk, TypeOK, CallOK
  <2>2. platter' \in SUBSET Id /\ acked' \in SUBSET Id
    BY <1>7, <2>1 DEF SyncOk, TypeOK
  <2>3. durable' \in Nat /\ waiting' \in Int /\ group' \in Int
    BY <1>7 DEF SyncOk, Largest, TypeOK
  <2>4. pc' \in [Writers -> {"idle", "write", "staged"} \cup Inside]
    BY <1>7 DEF SyncOk, NotifyAll, TypeOK
  <2>5. TypeOK'
    BY <1>0, <1>7, <2>2, <2>3, <2>4 DEF SyncOk, TypeOK
  <2>6. QED BY <1>7, <2>5 DEF SyncOk, NotifyAll, TypeOK, CallOK
<1>8. CASE SyncFail(w)
  <2>1. TypeOK'
    BY <1>0, <1>8 DEF SyncFail, NotifyAll, TypeOK, ghosts
  <2>2. QED BY <1>8, <2>1 DEF SyncFail, NotifyAll, TypeOK, CallOK, ghosts
<1>9. QED BY <1>1, <1>2, <1>3, <1>4, <1>5, <1>6, <1>7, <1>8 DEF SyncThrough

(* Taking, spilling, staging and releasing preserve what the marks say of   *)
(* the log: a new commit ends above every byte any sync in the air has      *)
(* claimed.  A cut does too when no sync has read its target.               *)
LEMMA WriteSideLog ==
  ASSUME TypeOK, \A v \in Writers : CallOK(v), LogInv, \A v \in Writers : CallInv(v),
         NEW w \in Writers, WriteSide(w), ~raced'
  PROVE  LogInv' /\ \A v \in Writers : CallInv(v)'
<1> USE WriterAssumption, BoundAssumption DEF Id, Inside
<1>1. CASE Take(w)
  BY <1>1 DEF Take, TypeOK, LogInv, CallInv, marks, ghosts
<1>2. CASE CheckpointCut(w)
  <2>1. \A v \in Writers : pc[v] \notin {"sync", "syncing"}
    BY <1>2 DEF CheckpointCut
  <2>2. platter' = platter \cup logged /\ logged' = {} /\ mine' = mine
    BY <1>2 DEF CheckpointCut
  <2>3. \A v \in Writers : pc[v] \in {"staged"} \cup Inside => mine[v] \in platter'
    BY <2>2 DEF CallInv
  <2>4. acked' \subseteq platter'
    BY <1>2, <2>2, <2>3 DEF CheckpointCut, LogInv
  <2>5. LogInv'
    BY <1>2, <2>2, <2>4 DEF CheckpointCut, LogInv
  <2>6. QED BY <1>2, <2>1, <2>2, <2>3, <2>5 DEF CheckpointCut, TypeOK, CallInv
<1>3. CASE Release(w)
  BY <1>3 DEF Release, TypeOK, LogInv, CallInv, marks, ghosts
<1>4. ASSUME NEW n \in 1 .. MaxSize, Spill(w, n)
      PROVE  LogInv' /\ \A v \in Writers : CallInv(v)'
  BY <1>4 DEF Spill, Flush, Largest, TypeOK, LogInv, CallInv, ghosts
<1>5. ASSUME NEW n \in 1 .. MaxSize, StageCommit(w, n)
      PROVE  LogInv' /\ \A v \in Writers : CallInv(v)'
  <2>1. serial' = serial + 1 /\ serial + 1 \in Id /\ serial + 1 \notin logged
    BY <1>5 DEF StageCommit, TypeOK, LogInv, CallOK
  <2>2. staged' = len' /\ len' = len + n /\ len' \in Nat /\ len < len'
    BY <1>5 DEF StageCommit, Flush, Largest, TypeOK, LogInv
  <2>3. logged' = logged \cup {serial'} /\ logged' \subseteq 1 .. serial'
    BY <1>5, <2>1 DEF StageCommit, TypeOK, LogInv
  <2>4. \A i \in logged : end'[i] = end[i] /\ i # serial' /\ i \in Id
    BY <1>5, <2>1 DEF StageCommit, TypeOK
  <2>5. end'[serial'] = len'
    BY <1>5, <2>1, <2>2 DEF StageCommit, TypeOK
  <2>6. LogInv'
    <3>1. UNCHANGED <<durable, platter, acked>> /\ durable <= len /\ durable \in Nat
      BY <1>5 DEF StageCommit, TypeOK, LogInv
    <3>2. \A i \in logged : end[i] \in Nat /\ end[i] <= len /\ len \in Nat
      BY <2>4 DEF TypeOK, LogInv
    <3>3. \A i \in logged' : end'[i] <= len'
      BY <2>2, <2>3, <2>4, <2>5, <3>2
    <3>4. \A i \in logged' : end'[i] <= durable' => i \in platter'
      <4> SUFFICES ASSUME NEW i \in logged', end'[i] <= durable' PROVE i \in platter'
        OBVIOUS
      <4>1. CASE i \in logged
        BY <2>4, <3>1, <4>1 DEF LogInv
      <4>2. CASE i = serial'
        BY <2>2, <2>5, <3>1, <4>2 DEF TypeOK
      <4>3. QED BY <2>3, <4>1, <4>2
    <3>5. staged' = len' /\ durable' <= staged' /\ acked' \subseteq platter'
      BY <2>2, <3>1 DEF TypeOK, LogInv
    <3>6. QED BY <2>3, <3>3, <3>4, <3>5 DEF LogInv
  <2>7. ASSUME NEW v \in Writers PROVE CallInv(v)'
    <3>1. CASE v = w
      <4>1. pc'[v] = "staged" /\ mine'[v] = serial' /\ need'[v] = len'
        BY <1>5, <2>1, <2>2, <3>1 DEF StageCommit, TypeOK
      <4>2. mine'[v] \in logged' /\ need'[v] = end'[mine'[v]]
        BY <2>3, <2>5, <4>1
      <4>3. QED BY <4>1, <4>2 DEF CallInv
    <3>2. CASE v # w
      <4>1. UNCHANGED <<platter, covers, target>> /\ pc'[v] = pc[v]
            /\ need'[v] = need[v] /\ mine'[v] = mine[v]
        BY <1>5, <3>2 DEF StageCommit, TypeOK
      <4>2. \A i \in logged' : i \in logged \/ (i = serial' /\ end'[i] > staged)
        BY <2>2, <2>3, <2>5 DEF LogInv
      <4>3. pc[v] = "syncing" => \A i \in logged' : end'[i] <= target[v] => i \in covers[v]
        <5> SUFFICES ASSUME pc[v] = "syncing", NEW i \in logged', end'[i] <= target[v]
                     PROVE  i \in covers[v]
          OBVIOUS
        <5>1. CASE i \in logged
          BY <2>4, <5>1 DEF CallInv
        <5>2. CASE i = serial' /\ end'[i] > staged
          <6>1. target[v] <= staged /\ target[v] \in Nat /\ staged \in Nat /\ end'[i] \in Nat
            BY <2>2, <2>5, <5>2 DEF CallInv, TypeOK
          <6>2. QED BY <5>2, <6>1
        <5>3. QED BY <4>2, <5>1, <5>2
      <4>4. pc[v] \in {"sync", "syncing"} => target[v] <= staged'
        BY <2>2 DEF CallInv, TypeOK, LogInv
      <4>5. QED BY <2>3, <2>4, <4>1, <4>3, <4>4 DEF CallInv
    <3>3. QED BY <3>1, <3>2
  <2>8. QED BY <2>6, <2>7
<1>6. QED BY <1>1, <1>2, <1>3, <1>4, <1>5 DEF WriteSide

(* Every step of sync_through preserves it: the target is read under the    *)
(* mutex, so it never passes what the issued sync covers.                   *)
LEMMA SyncThroughLog ==
  ASSUME TypeOK, \A v \in Writers : CallOK(v), LogInv, \A v \in Writers : CallInv(v),
         NEW w \in Writers, SyncThrough(w) \/ Wake(w)
  PROVE  LogInv' /\ \A v \in Writers : CallInv(v)'
<1> USE WriterAssumption, BoundAssumption DEF Id, Inside
<1>1. CASE Return(w)
  <2>1. mine[w] \in platter
    BY <1>1 DEF Return, Reached, TypeOK, LogInv, CallInv
  <2>2. LogInv'
    BY <1>1, <2>1 DEF Return, LogInv
  <2>3. QED BY <1>1, <2>2 DEF Return, TypeOK, CallInv
<1>2. CASE Wait(w)
  BY <1>2 DEF Wait, TypeOK, LogInv, CallInv, ghosts
<1>3. CASE Wake(w)
  BY <1>3 DEF Wake, TypeOK, LogInv, CallInv, marks, ghosts
<1>4. CASE LeadPausing(w)
  BY <1>4 DEF LeadPausing, TypeOK, LogInv, CallInv, ghosts
<1>5. CASE LeadNow(w)
  <2>1. pc[w] \in {"enter", "gather"}
    BY <1>5 DEF LeadNow
  <2>2. /\ target' = [target EXCEPT ![w] = staged] /\ pc' = [pc EXCEPT ![w] = "sync"]
        /\ UNCHANGED <<side, need, len, staged, durable, group, ghosts, cuts, fails>>
    BY <1>5 DEF LeadNow
  <2>3. LogInv'
    BY <2>2 DEF LogInv, ghosts
  <2>4. mine[w] \in platter \/ need[w] <= staged
    BY <2>1 DEF LogInv, CallInv
  <2>5. QED BY <2>1, <2>2, <2>3, <2>4 DEF TypeOK, CallInv, ghosts
<1>6. CASE SyncIssue(w)
  BY <1>6 DEF SyncIssue, TypeOK, LogInv, CallInv, marks
<1>7. CASE SyncOk(w)
  <2>1. /\ durable' \in Nat /\ durable' <= staged
        /\ durable' = durable \/ durable' = target[w]
    BY <1>7 DEF SyncOk, Largest, TypeOK, LogInv, CallInv
  <2>2. platter' = platter \cup covers[w] /\ acked' = acked \cup {mine[w]}
        /\ UNCHANGED <<logged, end, len, staged, serial, mine, need, target, covers>>
    BY <1>7 DEF SyncOk
  <2>3. mine[w] \in platter'
    BY <1>7, <2>2 DEF SyncOk, TypeOK, CallInv
  <2>4. \A i \in logged : end[i] <= durable' => i \in platter'
    BY <1>7, <2>1, <2>2 DEF SyncOk, LogInv, CallInv
  <2>5. LogInv'
    BY <2>1, <2>2, <2>3, <2>4 DEF LogInv
  <2>6. ASSUME NEW v \in Writers PROVE CallInv(v)'
    <3>1. v = w => pc'[v] = "idle"
      BY <1>7 DEF SyncOk, NotifyAll
    <3>2. v # w => pc'[v] = pc[v] \/ (pc[v] = "asleep" /\ pc'[v] = "enter")
      BY <1>7 DEF SyncOk, NotifyAll
    <3>3. QED BY <2>2, <3>1, <3>2 DEF CallInv
  <2>7. QED BY <2>5, <2>6
<1>8. CASE SyncFail(w)
  <2>1. LogInv'
    BY <1>8 DEF SyncFail, LogInv, ghosts
  <2>2. ASSUME NEW v \in Writers PROVE CallInv(v)'
    BY <1>8 DEF SyncFail, NotifyAll, TypeOK, CallInv, ghosts
  <2>3. QED BY <2>1, <2>2
<1>9. QED BY <1>1, <1>2, <1>3, <1>4, <1>5, <1>6, <1>7, <1>8 DEF SyncThrough

(* Commits: the marks bound what every call needs and what the platter      *)
(* holds, until a cut races a sync.                                         *)
THEOREM GroupInvariant == Spec => []GroupInv
<1>1. GroupInv /\ [Next]_vars => GroupInv'
  <2> SUFFICES ASSUME GroupInv, [Next]_vars PROVE GroupInv'
    OBVIOUS
  <2>1. ASSUME NEW w \in Writers, WriteSide(w) \/ SyncThrough(w) \/ Wake(w)
        PROVE  GroupInv'
    <3>1. TypeOK' /\ \A v \in Writers : CallOK(v)'
      BY <2>1, WriteSideTypes, SyncThroughTypes DEF GroupInv
    <3>2. ~raced' => ~raced
      BY <2>1, RacedStep DEF GroupInv
    <3>3. ~raced' => LogInv' /\ \A v \in Writers : CallInv(v)'
      BY <2>1, <3>2, WriteSideLog, SyncThroughLog DEF GroupInv
    <3>4. QED BY <3>1, <3>3 DEF GroupInv
  <2>2. CASE UNCHANGED vars
    BY <2>2 DEF vars, marks, ghosts, GroupInv, TypeOK, FlagsOK, CallOK, LogInv, CallInv
  <2>3. QED BY <2>1, <2>2 DEF Next
<1>2. QED BY InitGroup, <1>1, PTL DEF Spec

(* wal.rs, sync_through: an Ok means the commit is on the platter, unless a *)
(* cut has raced a sync.                                                    *)
THEOREM AckedDurable == Spec => []AckedUnlessRaced
<1>1. GroupInv => AckedUnlessRaced
  BY DEF GroupInv, LogInv, AckedUnlessRaced, AckedIsDurable
<1>2. QED BY GroupInvariant, <1>1, PTL

(* wal.rs, settled: a settled log holds only durable commits, so what the   *)
(* write side holds may be shown to readers, unless a cut has raced a sync. *)
THEOREM SettledDurable == Spec => []SettledUnlessRaced
<1>1. GroupInv => SettledUnlessRaced
  BY BoundAssumption DEF GroupInv, TypeOK, LogInv, Id, SettledUnlessRaced,
     SettledIsDurable, Settled
<1>2. QED BY GroupInvariant, <1>1, PTL

---------------------------------------------------------------------------
(* One leader, and who waits. *)

Leading == {"gather", "sync", "syncing"}

\* The calls Marks::waiting counts.
Owed == {w \in Writers : pc[w] \in Inside /\ counted[w]}

\* A call that sleeps or leads has been counted.
CountedInv == \A w \in Writers : pc[w] \in {"asleep"} \cup Leading => counted[w]

LeadInv == TypeOK /\ CountedInv /\ OneLeader /\ WaitingExact

(* Marks::waiting follows the set of counted calls: joining it once and     *)
(* leaving it once moves the count by one.                                  *)
LEMMA OwedCount ==
  ASSUME TypeOK, NEW w \in Writers
  PROVE  /\ Cardinality(Owed) \in Nat
         /\ Cardinality(Owed \cup {w}) =
              IF w \in Owed THEN Cardinality(Owed) ELSE Cardinality(Owed) + 1
         /\ Cardinality(Owed \ {w}) =
              IF w \in Owed THEN Cardinality(Owed) - 1 ELSE Cardinality(Owed)
<1>1. Owed \subseteq Writers
  BY DEF Owed
<1>2. IsFiniteSet(Owed)
  BY <1>1, WriterAssumption, FS_Subset
<1>3. QED BY <1>2, FS_AddElement, FS_RemoveElement, FS_CardinalityType

(* One step moves one call into the set, out of it, or leaves it alone; the *)
(* sleepers a notify wakes stay in it.                                      *)
LEMMA OwedStep ==
  ASSUME TypeOK, CountedInv, NEW w \in Writers,
         WriteSide(w) \/ SyncThrough(w) \/ Wake(w), TypeOK'
  PROVE  /\ Wait(w) \/ LeadPausing(w) \/ LeadNow(w) => Owed' = Owed \cup {w}
         /\ Return(w) \/ SyncOk(w) \/ SyncFail(w) => Owed' = Owed \ {w}
         /\ WriteSide(w) \/ Wake(w) \/ SyncIssue(w) => Owed' = Owed
<1> USE DEF Inside, Leading, CountedInv, Owed
<1>1. ASSUME Wait(w) \/ LeadPausing(w) \/ LeadNow(w)
      PROVE  Owed' = Owed \cup {w}
  <2>1. /\ pc'[w] \in Inside /\ counted'[w]
        /\ \A v \in Writers \ {w} : pc'[v] = pc[v] /\ counted'[v] = counted[v]
    BY <1>1 DEF Wait, LeadPausing, LeadNow, Count, TypeOK, FlagsOK
  <2>2. QED BY <2>1
<1>2. ASSUME Return(w) \/ SyncOk(w) \/ SyncFail(w)
      PROVE  Owed' = Owed \ {w}
  <2>1. counted' = counted /\ pc'[w] = "idle"
    BY <1>2 DEF Return, SyncOk, SyncFail, NotifyAll, TypeOK
  <2>2. ASSUME NEW v \in Writers \ {w}
        PROVE  pc'[v] \in Inside <=> pc[v] \in Inside
    BY <1>2 DEF Return, SyncOk, SyncFail, NotifyAll, TypeOK
  <2>3. QED BY <2>1, <2>2
<1>3. ASSUME WriteSide(w) \/ Wake(w) \/ SyncIssue(w)
      PROVE  Owed' = Owed
  <2>1. CASE Release(w)
    BY <2>1 DEF Release, TypeOK, FlagsOK
  <2>2. CASE ~Release(w)
    <3>1. counted' = counted
      BY <1>3, <2>2 DEF WriteSide, Take, CheckpointCut, Spill, StageCommit, Wake,
         SyncIssue
    <3>2. ASSUME NEW v \in Writers PROVE pc'[v] \in Inside <=> pc[v] \in Inside
      BY <1>3, <2>2 DEF WriteSide, Take, CheckpointCut, Spill, StageCommit, Wake,
         SyncIssue, TypeOK
    <3>3. QED BY <3>1, <3>2
  <2>3. QED BY <2>1, <2>2
<1>4. QED BY <1>1, <1>2, <1>3

(* The count moves with the set. *)
LEMMA WaitingStep ==
  ASSUME LeadInv, NEW w \in Writers, WriteSide(w) \/ SyncThrough(w) \/ Wake(w), TypeOK'
  PROVE  WaitingExact'
<1> DEFINE n == Cardinality(Owed)
<1>1. waiting = n
  BY DEF LeadInv, WaitingExact, Owed
<1>2. WaitingExact' <=> waiting' = Cardinality(Owed')
  BY DEF WaitingExact, Owed
<1>3. CASE Wait(w) \/ LeadPausing(w) \/ LeadNow(w)
  <2>1. w \in Owed <=> counted[w]
    BY <1>3 DEF Wait, LeadPausing, LeadNow, Inside, Leading, Owed, LeadInv, TypeOK
  <2>2. waiting' = IF counted[w] THEN waiting ELSE waiting + 1
    BY <1>3 DEF Wait, LeadPausing, LeadNow, Count, LeadInv, CountedInv, Leading
  <2>3. Owed' = Owed \cup {w}
    BY <1>3, OwedStep DEF LeadInv
  <2>4. Cardinality(Owed \cup {w}) = IF counted[w] THEN n ELSE n + 1
    BY <2>1, OwedCount DEF LeadInv
  <2>5. QED BY <1>1, <1>2, <2>2, <2>3, <2>4
<1>4. CASE Return(w) \/ SyncOk(w) \/ SyncFail(w)
  <2>1. w \in Owed <=> counted[w]
    BY <1>4 DEF Return, SyncOk, SyncFail, Inside, Owed
  <2>2. waiting' = IF counted[w] THEN waiting - 1 ELSE waiting
    BY <1>4 DEF Return, SyncOk, SyncFail, LeadInv, CountedInv, Leading
  <2>3. Owed' = Owed \ {w}
    BY <1>4, OwedStep DEF LeadInv
  <2>4. Cardinality(Owed \ {w}) = IF counted[w] THEN n - 1 ELSE n
    BY <2>1, OwedCount DEF LeadInv
  <2>5. QED BY <1>1, <1>2, <2>2, <2>3, <2>4
<1>5. CASE WriteSide(w) \/ Wake(w) \/ SyncIssue(w)
  <2>1. waiting' = waiting
    BY <1>5 DEF WriteSide, Take, CheckpointCut, Release, Spill, StageCommit, Wake,
       SyncIssue, marks
  <2>2. Owed' = Owed
    BY <1>5, OwedStep DEF LeadInv
  <2>3. QED BY <1>1, <1>2, <2>1, <2>2
<1>6. QED BY <1>3, <1>4, <1>5 DEF SyncThrough

(* running is set by the only way in to a lead and cleared by the only two  *)
(* ways out.                                                                *)
LEMMA LeaderStep ==
  ASSUME LeadInv, NEW w \in Writers, WriteSide(w) \/ SyncThrough(w) \/ Wake(w), TypeOK'
  PROVE  CountedInv' /\ OneLeader'
<1> USE DEF LeadInv, CountedInv, OneLeader, Leading
<1>1. CASE LeadPausing(w) \/ LeadNow(w)
  <2>1. /\ running' /\ pc'[w] \in Leading /\ counted'[w]
        /\ \A v \in Writers \ {w} : pc'[v] = pc[v] /\ counted'[v] = counted[v]
    BY <1>1 DEF LeadPausing, LeadNow, Count, TypeOK, FlagsOK
  <2>2. \A v \in Writers \ {w} : pc[v] \notin Leading
    BY <1>1 DEF LeadPausing, LeadNow
  <2>3. QED BY <2>1, <2>2
<1>2. CASE SyncOk(w) \/ SyncFail(w)
  <2>1. /\ ~running' /\ pc'[w] = "idle" /\ counted' = counted
        /\ \A v \in Writers \ {w} :
             pc'[v] = pc[v] \/ (pc[v] = "asleep" /\ pc'[v] = "enter")
    BY <1>2 DEF SyncOk, SyncFail, NotifyAll
  <2>2. \A v \in Writers \ {w} : pc[v] \notin Leading
    BY <1>2 DEF SyncOk, SyncFail
  <2>3. QED BY <2>1, <2>2
<1>3. CASE WriteSide(w) \/ Return(w) \/ Wait(w) \/ Wake(w) \/ SyncIssue(w)
  <2>1. running' = running
    BY <1>3 DEF WriteSide, Take, CheckpointCut, Release, Spill, StageCommit, Return,
       Wait, Wake, SyncIssue, marks
  <2>2. pc'[w] \in Leading <=> pc[w] \in Leading
    BY <1>3 DEF WriteSide, Take, CheckpointCut, Release, Spill, StageCommit, Return,
       Wait, Wake, SyncIssue, TypeOK
  <2>3. pc'[w] \in {"asleep"} \cup Leading => counted'[w]
    BY <1>3 DEF WriteSide, Take, CheckpointCut, Release, Spill, StageCommit, Return,
       Wait, Wake, SyncIssue, Count, TypeOK, FlagsOK
  <2>4. \A v \in Writers \ {w} : pc'[v] = pc[v] /\ counted'[v] = counted[v]
    BY <1>3 DEF WriteSide, Take, CheckpointCut, Release, Spill, StageCommit, Return,
       Wait, Wake, SyncIssue, Count, TypeOK, FlagsOK
  <2>5. QED BY <2>1, <2>2, <2>3, <2>4
<1>4. QED BY <1>1, <1>2, <1>3 DEF SyncThrough

(* wal.rs, Commits: at most one call leads, exactly while `running` says    *)
(* so, and Marks::waiting is the number of calls still owed something,      *)
(* through every failed sync, spurious wake and cut.                        *)
THEOREM LeaderInvariant == Spec => []LeaderInv
<1>1. Init => LeadInv
  <2> SUFFICES ASSUME Init PROVE LeadInv
    OBVIOUS
  <2>1. TypeOK
    BY InitGroup DEF GroupInv
  <2>2. CountedInv /\ OneLeader
    BY DEF Init, NewCommits, CountedInv, OneLeader, Leading
  <2>3. {w \in Writers : pc[w] \in Inside /\ counted[w]} = {}
    BY DEF Init
  <2>4. QED BY <2>1, <2>2, <2>3, FS_EmptySet DEF Init, NewCommits, LeadInv, WaitingExact
<1>2. LeadInv /\ GroupInv /\ [Next]_vars /\ GroupInv' => LeadInv'
  <2> SUFFICES ASSUME LeadInv, [Next]_vars, GroupInv' PROVE LeadInv'
    OBVIOUS
  <2>1. TypeOK'
    BY DEF GroupInv
  <2>2. ASSUME NEW w \in Writers, WriteSide(w) \/ SyncThrough(w) \/ Wake(w)
        PROVE  LeadInv'
    BY <2>1, <2>2, WaitingStep, LeaderStep DEF LeadInv
  <2>3. CASE UNCHANGED vars
    BY <2>1, <2>3 DEF vars, marks, LeadInv, CountedInv, OneLeader, WaitingExact
  <2>4. QED BY <2>2, <2>3 DEF Next
<1>3. LeadInv => LeaderInv
  BY DEF LeadInv, LeaderInv
<1>4. QED BY <1>1, <1>2, <1>3, GroupInvariant, PTL DEF Spec
============================================================================
