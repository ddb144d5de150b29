-------------------------- MODULE WorkerPoolProofs --------------------------
(* Proofs about the worker pool of zu-exec/src/pool.rs, for any number of   *)
(* submitters, threads, jobs and batches: the latches and the counters are  *)
(* exact, and a job never outlives the submit that lent it its stack unless *)
(* a spawn failed.                                                          *)
EXTENDS WorkerPool, FiniteSetTheorems, FunctionTheorems, SequenceTheorems, TLAPS

---------------------------------------------------------------------------
(* Counting positions of a sequence. *)

Positions(q, l) == {i \in 1..Len(q) : q[i] = l}

(* A queue has finitely many places. *)
LEMMA PositionsFinite ==
  ASSUME NEW S, NEW q \in Seq(S), NEW l
  PROVE  IsFiniteSet(Positions(q, l)) /\ Cardinality(Positions(q, l)) \in Nat
<1>1. Positions(q, l) \subseteq 1..Len(q) /\ IsFiniteSet(1..Len(q))
  BY FS_Interval, LenProperties DEF Positions
<1>2. QED BY <1>1, FS_Subset, FS_CardinalityType

(* pop_front takes one job away, the one it returns. *)
LEMMA PositionsTail ==
  ASSUME NEW S, NEW q \in Seq(S), q # <<>>, NEW l
  PROVE  /\ Tail(q) \in Seq(S) /\ Len(Tail(q)) = Len(q) - 1 /\ Head(q) \in S
         /\ Len(q) \in Nat \ {0}
         /\ Cardinality(Positions(q, l)) =
              Cardinality(Positions(Tail(q), l)) + (IF Head(q) = l THEN 1 ELSE 0)
<1>1. /\ Tail(q) \in Seq(S) /\ Len(Tail(q)) = Len(q) - 1 /\ Head(q) \in S
      /\ Len(q) \in Nat \ {0} /\ Head(q) = q[1]
      /\ \A i \in 1..(Len(q) - 1) : Tail(q)[i] = q[i + 1]
  BY HeadTailProperties, LenProperties
<1> DEFINE P == Positions(q, l) \ {1}
           T == Positions(Tail(q), l)
           f == [i \in T |-> i + 1]
<1>2. f \in Bijection(T, P)
  <2>1. f \in [T -> P]
    BY <1>1 DEF Positions
  <2>2. \A i, j \in T : f[i] = f[j] => i = j
    BY DEF Positions
  <2>3. \A p \in P : \E i \in T : f[i] = p
    <3> TAKE p \in P
    <3>1. p - 1 \in T /\ f[p - 1] = p
      BY <1>1 DEF Positions
    <3>2. QED BY <3>1
  <2>4. QED BY <2>1, <2>2, <2>3 DEF Bijection, Injection, Surjection, IsInjective
<1>3. Cardinality(P) = Cardinality(T)
  <2>1. IsFiniteSet(T)
    BY <1>1, PositionsFinite
  <2>2. ExistsBijection(T, P)
    BY <1>2 DEF ExistsBijection
  <2> HIDE DEF P, T
  <2>3. QED BY <2>1, <2>2, FS_Bijection
<1>4. 1 \in Positions(q, l) <=> Head(q) = l
  BY <1>1 DEF Positions
<1>5. IsFiniteSet(Positions(q, l)) /\ Cardinality(Positions(q, l)) \in Nat
  BY PositionsFinite
<1>6. Cardinality(P) = IF 1 \in Positions(q, l) THEN Cardinality(Positions(q, l)) - 1
                       ELSE Cardinality(Positions(q, l))
  BY <1>5, FS_RemoveElement
<1>7. QED BY <1>1, <1>3, <1>4, <1>5, <1>6

(* A batch of n jobs goes on the end of the queue. *)
LEMMA PositionsBatch ==
  ASSUME NEW S, NEW q \in Seq(S), NEW m \in S, NEW n \in Nat, NEW l
  PROVE  LET r == q \o [i \in 1..n |-> m]
         IN  /\ r \in Seq(S) /\ Len(r) = Len(q) + n
             /\ Cardinality(Positions(r, l)) =
                  Cardinality(Positions(q, l)) + (IF l = m THEN n ELSE 0)
<1> DEFINE b == [i \in 1..n |-> m]
           r == q \o b
<1>1. b \in Seq(S) /\ Len(b) = n
  BY IsASeq, LenProperties
<1>2. /\ r \in Seq(S) /\ Len(r) = Len(q) + n
      /\ \A i \in 1..Len(q) + n : r[i] = IF i <= Len(q) THEN q[i] ELSE m
  BY <1>1, ConcatProperties, LenProperties
<1>3. Len(q) \in Nat
  BY LenProperties
<1>4. CASE l # m
  <2>1. Positions(r, l) = Positions(q, l)
    BY <1>2, <1>3, <1>4 DEF Positions
  <2>2. QED BY <1>2, <1>4, <2>1, PositionsFinite
<1>5. CASE l = m
  <2> DEFINE N == (Len(q) + 1)..(Len(q) + n)
  <2>1. Positions(r, l) = Positions(q, l) \cup N
    <3> HIDE DEF r
    <3>1. \A i \in 1..Len(r) : i \in 1..Len(q) \/ i \in N
      BY <1>2, <1>3
    <3>2. \A i \in 1..Len(q) : i \in 1..Len(r) /\ r[i] = q[i]
      BY <1>2, <1>3
    <3>3. \A i \in N : i \in 1..Len(r) /\ r[i] = m
      BY <1>2, <1>3
    <3> HIDE DEF N
    <3>4. QED BY <1>5, <3>1, <3>2, <3>3 DEF Positions
  <2>2. Positions(q, l) \cap N = {}
    BY <1>3 DEF Positions
  <2>3. IsFiniteSet(N) /\ Cardinality(N) = n
    <3>1. Len(q) + 1 \in Int /\ Len(q) + n \in Int
      BY <1>3
    <3>2. /\ IsFiniteSet(N)
          /\ Cardinality(N) = IF Len(q) + 1 > Len(q) + n THEN 0
                              ELSE (Len(q) + n) - (Len(q) + 1) + 1
      BY <3>1, FS_Interval
    <3> HIDE DEF N
    <3>3. QED BY <1>3, <3>2
  <2>4. /\ IsFiniteSet(Positions(q, l)) /\ Cardinality(Positions(q, l)) \in Nat
        /\ Cardinality({}) = 0
    BY PositionsFinite, FS_EmptySet
  <2> HIDE DEF N
  <2>5. Cardinality(Positions(q, l) \cup N)
          = Cardinality(Positions(q, l)) + Cardinality(N)
    <3>1. Cardinality(Positions(q, l) \cup N) = Cardinality(Positions(q, l))
            + Cardinality(N) - Cardinality(Positions(q, l) \cap N)
      BY <2>3, <2>4, FS_Union
    <3>2. Cardinality(Positions(q, l) \cap N) = 0
      BY <2>2, <2>4, Zenon
    <3>3. QED BY <2>3, <2>4, <3>1, <3>2
  <2>6. QED BY <1>2, <1>5, <2>1, <2>3, <2>5
<1>6. QED BY <1>4, <1>5

---------------------------------------------------------------------------
(* The inductive invariant. *)

IdlePcs == {"spin", "spun", "unidle", "lock", "parked"}
PoppedPcs == {"popped", "spun"}
HeldPcs == {"popped", "spun", "unidle", "run"}
Born == Threads \ At({"unborn"})

\* The threads counted and not yet spawned, one pair each.
Owing == {p \in Submitters \X (1..cap) : p[2] <= spawn[p[1]]}

\* What a thread's place in the code says of what it holds.
ControlInv ==
  /\ \A t \in Threads : wpc[t] \in HeldPcs \cup {"last", "notify"} => hand[t] \in Batches
  /\ \A s \in Submitters : spc[s] = "spawn" <=> spawn[s] > 0
  /\ \A s \in Submitters : spc[s] # "idle" => batch[s] \in 1..MaxBatches

\* Every worker the pool counts is alive or about to be spawned.
WorkersExact == ~unwound => workers = Cardinality(Born) + Cardinality(Owing)

IdleExact == idle = Cardinality(At(IdlePcs))
PendingExact == pending = Len(queue) + Cardinality(At(PoppedPcs))

PoolIInv ==
  /\ TypeOK /\ ControlInv
  /\ LatchExact /\ IdleExact /\ PendingExact /\ WorkersExact
  /\ BorrowsLive

---------------------------------------------------------------------------
(* How the counted sets move. *)

(* One thread going from one place to another changes how many are in a set *)
(* of places by what it leaves and what it enters.                          *)
LEMMA AtMove ==
  ASSUME TypeOK, NEW t \in Threads, NEW STATE from, NEW STATE to,
         WorkerGoes(t, from, to), NEW P
  PROVE  /\ Cardinality(At(P)) \in Nat
         /\ Cardinality(At(P)') = Cardinality(At(P))
              + (IF to \in P THEN 1 ELSE 0) - (IF from \in P THEN 1 ELSE 0)
<1>1. IsFiniteSet(At(P)) /\ Cardinality(At(P)) \in Nat
  BY FiniteAssumption, FS_Subset, FS_CardinalityType DEF At
<1>2. t \in At(P) <=> from \in P
  BY DEF At, WorkerGoes
<1>3. CASE to \in P
  <2>1. At(P)' = At(P) \cup {t}
    BY <1>3 DEF At, WorkerGoes, TypeOK
  <2>2. QED BY <1>1, <1>2, <1>3, <2>1, FS_AddElement
<1>4. CASE to \notin P
  <2>1. At(P)' = At(P) \ {t}
    BY <1>4 DEF At, WorkerGoes, TypeOK
  <2>2. Cardinality(At(P) \ {t}) = IF t \in At(P) THEN Cardinality(At(P)) - 1
                                   ELSE Cardinality(At(P))
    BY <1>1, FS_RemoveElement
  <2>3. QED BY <1>1, <1>2, <1>4, <2>1, <2>2
<1>5. QED BY <1>3, <1>4

(* No set of threads is larger than the pool. *)
LEMMA AtBound ==
  ASSUME NEW P
  PROVE  /\ cap \in Nat /\ Cardinality(At(P)) \in 0..cap
         /\ \A t \in At(P) : Cardinality(At(P)) > 0
<1>1. At(P) \subseteq Threads
  BY DEF At
<1>2. /\ IsFiniteSet(At(P)) /\ Cardinality(At(P)) \in Nat /\ cap \in Nat
      /\ Cardinality(At(P)) <= cap
  BY <1>1, FiniteAssumption, FS_Subset, FS_CardinalityType DEF cap
<1>3. ASSUME NEW t \in At(P) PROVE Cardinality(At(P)) # 0
  BY <1>2, <1>3, FS_EmptySet
<1>4. QED BY <1>2, <1>3

(* Threads that leave the taken jobs where they are leave Held alone. *)
LEMMA HeldSame ==
  ASSUME TypeOK, NEW t \in Threads, NEW STATE from, NEW STATE to,
         WorkerGoes(t, from, to), from \in HeldPcs <=> to \in HeldPcs,
         \A u \in Threads : wpc[u] \in HeldPcs => hand'[u] = hand[u], NEW l
  PROVE  Held(l)' = Held(l)
<1>1. \A u \in Threads : wpc'[u] \in HeldPcs <=> wpc[u] \in HeldPcs
  BY DEF WorkerGoes, TypeOK
<1>2. QED BY <1>1 DEF Held, At, HeldPcs

(* The jobs of a batch in workers' hands can be counted. *)
LEMMA HeldFinite ==
  ASSUME NEW l
  PROVE  IsFiniteSet(Held(l)) /\ Cardinality(Held(l)) \in Nat
<1>1. Held(l) \subseteq Threads
  BY DEF Held, At
<1>2. QED BY <1>1, FiniteAssumption, FS_Subset, FS_CardinalityType

(* Queued is the count of a batch's places in the queue. *)
LEMMA QueuedPositions ==
  ASSUME TypeOK, NEW l
  PROVE  Queued(l) = Positions(queue, l)
BY LenProperties DEF TypeOK, Queued, Positions

(* pop_front moves a job from the queue to a worker's hands: the latch of   *)
(* its batch counts it all the same.                                        *)
LEMMA TakeLatch ==
  ASSUME TypeOK, TypeOK', LatchExact, NEW t \in Threads, NEW STATE from, NEW STATE to,
         WorkerGoes(t, from, to), from \notin HeldPcs, to \in HeldPcs,
         queue # <<>>, Take(t), left' = left
  PROVE  LatchExact'
<1> SUFFICES ASSUME NEW l \in Batches
             PROVE  left'[l] = Cardinality(Queued(l)') + Cardinality(Held(l)')
  BY DEF LatchExact
<1> DEFINE one == IF Head(queue) = l THEN 1 ELSE 0
<1>1. Cardinality(Queued(l)) = Cardinality(Queued(l)') + one
  <2>1. Cardinality(Positions(queue, l)) = Cardinality(Positions(Tail(queue), l)) + one
    <3>1. queue \in Seq(Batches) /\ queue # <<>>
      BY DEF TypeOK
    <3>2. Cardinality(Positions(queue, l))
            = Cardinality(Positions(Tail(queue), l)) + (IF Head(queue) = l THEN 1 ELSE 0)
      BY ONLY PositionsTail, <3>1
    <3>3. QED BY <3>2
  <2>2. Queued(l)' = Positions(Tail(queue), l)
    <3>1. Queued(l)' = Positions(queue', l)
      BY LenProperties DEF TypeOK, Queued, Positions
    <3>2. QED BY <3>1 DEF Take
  <2>3. QED BY <2>1, <2>2, QueuedPositions
<1>2. Cardinality(Held(l)') = Cardinality(Held(l)) + one
  <2>1. \A u \in Threads : u # t => (u \in Held(l)' <=> u \in Held(l))
    BY DEF Held, At, WorkerGoes, Take, TypeOK
  <2>2. t \notin Held(l) /\ (t \in Held(l)' <=> Head(queue) = l)
    BY DEF Held, At, WorkerGoes, Take, TypeOK, HeldPcs
  <2>3. Held(l) \subseteq Threads /\ Held(l)' \subseteq Threads
    BY DEF Held, At
  <2>4. CASE Head(queue) = l
    <3>1. Held(l)' = Held(l) \cup {t}
      BY <2>1, <2>2, <2>3, <2>4
    <3>2. QED BY <2>2, <2>4, <3>1, HeldFinite, FS_AddElement
  <2>5. CASE Head(queue) # l
    <3>1. Held(l)' = Held(l)
      <4>1. \A u \in Threads : u \in Held(l)' <=> u \in Held(l)
        BY <2>1, <2>2, <2>5
      <4>2. QED BY <2>3, <4>1
    <3>2. QED BY <2>5, <3>1, HeldFinite
  <2>6. QED BY <2>4, <2>5
<1>3. /\ left[l] = Cardinality(Queued(l)) + Cardinality(Held(l))
      /\ Cardinality(Held(l)) \in Nat /\ Cardinality(Queued(l)') \in Nat
  <2>1. Cardinality(Queued(l)') \in Nat
    <3>1. Queued(l)' = Positions(queue', l)
      BY LenProperties DEF TypeOK, Queued, Positions
    <3>2. QED BY <3>1, PositionsFinite DEF TypeOK
  <2>2. QED BY <2>1, HeldFinite DEF LatchExact
<1>4. QED BY <1>1, <1>2, <1>3

---------------------------------------------------------------------------
(* Types. *)

(* Mutexes and the flag of a failed spawn stay Boolean. *)
LEMMA FlagsStep ==
  ASSUME TypeOK, Next
  PROVE  mu' \in [Batches -> BOOLEAN] /\ unwound' \in BOOLEAN
<1>1. CASE \E s \in Submitters : WaitLock(s) \/ WaitCheck(s) \/ WaitSleep(s)
  <2>1. PICK s \in Submitters : WaitLock(s) \/ WaitCheck(s) \/ WaitSleep(s)
    BY <1>1
  <2>2. mu' = mu \/ mu' = [mu EXCEPT ![Latch(s)] = TRUE]
                 \/ mu' = [mu EXCEPT ![Latch(s)] = FALSE]
    BY <2>1 DEF WaitLock, WaitCheck, WaitSleep
  <2>3. unwound' = unwound
    BY <2>1 DEF WaitLock, WaitCheck, WaitSleep
  <2>4. QED BY <2>2, <2>3 DEF TypeOK
<1>2. CASE mu' = mu /\ unwound' \in {unwound, TRUE}
  BY <1>2 DEF TypeOK
<1>3. QED
  BY <1>1, <1>2 DEF Next, SubmitterStep, WorkerStep, SubmitPush, SubmitSpawnFails,
     SubmitCount, SubmitSpawn, SubmitNotify, OwnShare, WaitSpin, Pop, PopCounted, GoIdle,
     Spin, Unidle, TakeOrPark, Run, LastLock, LastNotify, latches

(* A batch pushed has a number within the bound, and a latch. *)
LEMMA PushRoom ==
  ASSUME TypeOK, NEW s \in Submitters, batch[s] < MaxBatches
  PROVE  batch[s] + 1 \in 1..MaxBatches /\ <<s, batch[s] + 1>> \in Batches
<1>1. batch[s] \in 0..MaxBatches
  BY DEF TypeOK
<1>2. batch[s] + 1 \in 1..MaxBatches
  BY <1>1, BoundsAssumption
<1>3. QED BY <1>2 DEF Batches

(* submit asks for no more threads than there is room for. *)
LEMMA SpawnCountRange ==
  ASSUME NEW q \in Nat, NEW f \in Nat, NEW r \in Nat
  PROVE  SpawnCount(q, f, r) \in 0..r
BY DEF SpawnCount

(* submit and Pending::wait keep the types. *)
LEMMA SubmitterTypes ==
  ASSUME PoolIInv, Next, NEW s \in Submitters,
         SubmitPush(s) \/ SubmitSpawnFails(s) \/ SubmitterStep(s)
  PROVE  TypeOK'
<1> USE BoundsAssumption DEF PoolIInv, WorkerPcs, SubmitterPcs, SubmitterGoes
<1>0. mu' \in [Batches -> BOOLEAN] /\ unwound' \in BOOLEAN /\ cap \in Nat
  BY FlagsStep, AtBound
<1>1. CASE SubmitPush(s)
  <2>1. PICK n \in 0..MaxJobs :
          /\ batch[s] < MaxBatches
          /\ SubmitterGoes(s, "idle", IF n = 0 THEN "own" ELSE "count")
          /\ batch' = [batch EXCEPT ![s] = @ + 1]
          /\ left' = [left EXCEPT ![<<s, batch[s] + 1>>] = n]
          /\ queue' = queue \o [i \in 1..n |-> <<s, batch[s] + 1>>]
          /\ pending' = pending + n
          /\ seen' = IF n = 0 THEN 0 ELSE pending + n
          /\ lock' = IF n = 0 THEN None ELSE s
          /\ UNCHANGED <<workers, idle, wpc, hand, spawn>>
    BY <1>1 DEF SubmitPush
  <2>2. batch[s] + 1 \in 1..MaxBatches /\ <<s, batch[s] + 1>> \in Batches
    BY <2>1, PushRoom
  <2>3. queue' \in Seq(Batches)
    BY <2>1, <2>2, PositionsBatch DEF TypeOK
  <2>4. seen' \in Nat /\ pending' \in Nat
    BY <2>1 DEF TypeOK
  <2>5. spc' \in [Submitters -> SubmitterPcs] /\ batch' \in [Submitters -> 0..MaxBatches]
    BY <2>1, <2>2 DEF TypeOK
  <2>6. left' \in [Batches -> 0..MaxJobs]
    BY <2>1, <2>2 DEF TypeOK
  <2>7. lock' \in Submitters \cup {None}
    BY <2>1
  <2>8. QED BY <1>0, <2>1, <2>3, <2>4, <2>5, <2>6, <2>7 DEF TypeOK
<1>2. CASE SubmitCount(s)
  <2> DEFINE n == SpawnCount(seen, idle, cap - workers)
  <2>1. n \in 0..(cap - workers)
    <3>1. seen \in Nat /\ idle \in Nat /\ cap - workers \in Nat
      BY <1>0 DEF TypeOK
    <3>2. QED BY <3>1, SpawnCountRange
  <2>2. /\ workers' = workers + n /\ spawn' = [spawn EXCEPT ![s] = n] /\ lock' = None
        /\ seen' = 0
        /\ spc' = [spc EXCEPT ![s] = IF n = 0 THEN "notify" ELSE "spawn"]
        /\ UNCHANGED <<queue, idle, pending, wpc, hand, left, batch>>
    BY <1>2 DEF SubmitCount, latches
  <2> HIDE DEF n
  <2>3. QED BY <1>0, <2>1, <2>2 DEF TypeOK
<1>3. CASE SubmitSpawn(s)
  <2>1. spawn[s] > 0
    BY <1>3 DEF SubmitSpawn, ControlInv
  <2>2. PICK t \in Threads :
          /\ wpc' = [wpc EXCEPT ![t] = "pop"]
          /\ spc' = [spc EXCEPT ![s] = IF spawn[s] = 1 THEN "notify" ELSE "spawn"]
          /\ spawn' = [spawn EXCEPT ![s] = @ - 1]
          /\ UNCHANGED <<queue, lock, workers, idle, pending, seen, hand, left, batch>>
    BY <1>3 DEF SubmitSpawn, WorkerGoes, latches
  <2>3. QED BY <1>0, <2>1, <2>2 DEF TypeOK
<1>4. CASE SubmitSpawnFails(s)
  BY <1>0, <1>4 DEF SubmitSpawnFails, TypeOK, pool, latches
<1>5. CASE SubmitNotify(s)
  BY <1>0, <1>5 DEF SubmitNotify, TypeOK, latches
<1>6. CASE OwnShare(s) \/ WaitSpin(s)
  BY <1>0, <1>6 DEF OwnShare, WaitSpin, TypeOK, pool, latches
<1>7. CASE WaitLock(s) \/ WaitCheck(s) \/ WaitSleep(s)
  <2>1. /\ \E p \in SubmitterPcs : spc' = [spc EXCEPT ![s] = p]
        /\ UNCHANGED <<pool, left, batch, spawn>>
    BY <1>7 DEF WaitLock, WaitCheck, WaitSleep
  <2>2. QED BY <1>0, <2>1 DEF TypeOK, pool
<1>8. QED BY <1>1, <1>2, <1>3, <1>4, <1>5, <1>6, <1>7 DEF SubmitterStep

(* worker_loop keeps the types: no counter goes below zero or past the cap. *)
LEMMA WorkerTypes ==
  ASSUME PoolIInv, Next, NEW t \in Threads, WorkerStep(t)
  PROVE  TypeOK'
<1> USE BoundsAssumption DEF PoolIInv, WorkerPcs, SubmitterPcs
<1>0. mu' \in [Batches -> BOOLEAN] /\ unwound' \in BOOLEAN /\ cap \in Nat
  BY FlagsStep, AtBound
<1>1. ASSUME queue # <<>>, Take(t)
      PROVE  /\ queue' \in Seq(Batches) /\ hand' \in [Threads -> Batches \cup {NoJob}]
             /\ Len(queue) > 0
  <2>1. Tail(queue) \in Seq(Batches) /\ Head(queue) \in Batches /\ Len(queue) > 0
    BY <1>1, PositionsTail DEF TypeOK
  <2>2. QED BY <1>1, <2>1 DEF Take, TypeOK
<1>2. CASE Pop(t)
  BY <1>0, <1>1, <1>2 DEF Pop, WorkerGoes, TypeOK, latches
<1>3. CASE PopCounted(t)
  <2>1. t \in At(PoppedPcs)
    BY <1>3 DEF PopCounted, WorkerGoes, At, PoppedPcs
  <2>2. pending - 1 \in Nat
    BY <2>1, AtBound, LenProperties DEF PendingExact, TypeOK
  <2>3. QED BY <1>0, <1>3, <2>2 DEF PopCounted, WorkerGoes, TypeOK, latches
<1>4. CASE GoIdle(t)
  <2>1. WorkerGoes(t, "empty", "spin") /\ idle' = idle + 1
        /\ UNCHANGED <<queue, lock, workers, pending, seen, hand, left, spc, batch, spawn>>
    BY <1>4 DEF GoIdle, latches
  <2>2. idle' = Cardinality(At(IdlePcs)')
    BY <2>1, AtMove DEF IdleExact, IdlePcs
  <2>3. Cardinality(At(IdlePcs)') <= cap
    <3>1. At(IdlePcs)' \subseteq Threads
      BY DEF At
    <3>2. QED BY <3>1, FiniteAssumption, FS_Subset DEF cap
  <2>4. idle' \in 0..cap
    BY <2>1, <2>2, <2>3, <1>0 DEF TypeOK
  <2>5. QED BY <1>0, <2>1, <2>4 DEF WorkerGoes, TypeOK
<1>5. CASE Spin(t)
  BY <1>0, <1>1, <1>5 DEF Spin, WorkerGoes, TypeOK, latches
<1>6. CASE Unidle(t)
  <2>1. t \in At(IdlePcs)
    BY <1>6 DEF Unidle, WorkerGoes, At, IdlePcs
  <2>2. idle - 1 \in 0..cap
    BY <2>1, AtBound DEF IdleExact, TypeOK
  <2>3. QED BY <1>0, <1>6, <2>2 DEF Unidle, WorkerGoes, TypeOK, latches
<1>7. CASE TakeOrPark(t)
  <2>1. t \in At(IdlePcs)
    BY <1>7 DEF TakeOrPark, WorkerGoes, At, IdlePcs
  <2>2. idle - 1 \in 0..cap
    BY <2>1, AtBound DEF IdleExact, TypeOK
  <2>3. Len(queue) > 0 => pending - 1 \in Nat
    BY AtBound, LenProperties DEF PendingExact, TypeOK
  <2>4. QED BY <1>0, <1>1, <1>7, <2>2, <2>3 DEF TakeOrPark, WorkerGoes, TypeOK, latches
<1>8. CASE Run(t)
  <2>1. t \in Held(hand[t]) /\ hand[t] \in Batches
    BY <1>8 DEF Run, WorkerGoes, Held, At, ControlInv, HeldPcs
  <2>2. Cardinality(Held(hand[t])) # 0
    BY <2>1, HeldFinite, FS_EmptySet
  <2>3. /\ Cardinality(Queued(hand[t])) \in Nat
        /\ left[hand[t]] = Cardinality(Queued(hand[t])) + Cardinality(Held(hand[t]))
    BY <2>1, QueuedPositions, PositionsFinite DEF LatchExact, TypeOK
  <2>4. left[hand[t]] - 1 \in 0..MaxJobs
    BY <2>1, <2>2, <2>3, HeldFinite DEF TypeOK
  <2>5. left' \in [Batches -> 0..MaxJobs]
    BY <1>8, <2>1, <2>4 DEF Run, TypeOK
  <2>6. hand' \in [Threads -> Batches \cup {NoJob}]
    BY <1>8 DEF Run, TypeOK
  <2>7. wpc' \in [Threads -> WorkerPcs]
    BY <1>8 DEF Run, WorkerGoes, TypeOK
  <2>8. QED BY <1>0, <1>8, <2>5, <2>6, <2>7 DEF Run, TypeOK
<1>9. CASE LastLock(t) \/ LastNotify(t)
  BY <1>0, <1>9 DEF LastLock, LastNotify, WorkerGoes, TypeOK, latches
<1>10. QED
  BY <1>2, <1>3, <1>4, <1>5, <1>6, <1>7, <1>8, <1>9 DEF WorkerStep

---------------------------------------------------------------------------
(* Control, counters, latches and borrows, step by step. *)

(* Where a thread is says what it holds, after a submitter's step too. *)
LEMMA SubmitterControl ==
  ASSUME PoolIInv, TypeOK', NEW s \in Submitters,
         SubmitPush(s) \/ SubmitSpawnFails(s) \/ SubmitterStep(s)
  PROVE  ControlInv'
<1> USE BoundsAssumption DEF PoolIInv, SubmitterGoes
<1>0. hand' = hand /\ \A t \in Threads :
        wpc'[t] = wpc[t] \/ wpc'[t] \in {"pop", "lock"}
  BY DEF SubmitterStep, SubmitPush, SubmitSpawnFails, SubmitCount, SubmitSpawn,
     SubmitNotify, OwnShare, WaitSpin, WaitLock, WaitCheck, WaitSleep, WorkerGoes,
     TypeOK, pool
<1>1. \A t \in Threads :
        wpc'[t] \in HeldPcs \cup {"last", "notify"} => hand'[t] \in Batches
  BY <1>0 DEF ControlInv, HeldPcs
<1>2. \A r \in Submitters \ {s} :
        spc'[r] = spc[r] /\ spawn'[r] = spawn[r] /\ batch'[r] = batch[r]
  BY DEF SubmitterStep, SubmitPush, SubmitSpawnFails, SubmitCount, SubmitSpawn,
     SubmitNotify, OwnShare, WaitSpin, WaitLock, WaitCheck, WaitSleep, TypeOK
<1>3. spc'[s] = "spawn" <=> spawn'[s] > 0
  <2>1. CASE SubmitCount(s)
    <3> DEFINE n == SpawnCount(seen, idle, cap - workers)
    <3>1. spc'[s] = (IF n = 0 THEN "notify" ELSE "spawn") /\ spawn'[s] = n
      BY <2>1 DEF SubmitCount, TypeOK
    <3>2. n \in Nat
      BY <3>1 DEF TypeOK
    <3> HIDE DEF n
    <3>3. QED BY <3>1, <3>2
  <2>2. CASE SubmitSpawn(s)
    BY <2>2 DEF SubmitSpawn, ControlInv, TypeOK
  <2>3. CASE SubmitSpawnFails(s)
    BY <2>3 DEF SubmitSpawnFails, TypeOK
  <2>4. CASE ~SubmitCount(s) /\ ~SubmitSpawn(s) /\ ~SubmitSpawnFails(s)
    <3>1. spawn' = spawn /\ spc[s] # "spawn" /\ spc'[s] # "spawn"
      BY <2>4 DEF SubmitterStep, SubmitPush, SubmitNotify, OwnShare, WaitSpin, WaitLock,
         WaitCheck, WaitSleep, TypeOK
    <3>2. QED BY <3>1 DEF ControlInv
  <2>5. QED BY <2>1, <2>2, <2>3, <2>4
<1>4. spc'[s] # "idle" => batch'[s] \in 1..MaxBatches
  <2>1. CASE SubmitPush(s)
    BY <2>1 DEF SubmitPush, TypeOK
  <2>2. CASE ~SubmitPush(s)
    <3>1. batch' = batch /\ spc[s] # "idle"
      BY <2>2 DEF SubmitterStep, SubmitSpawnFails, SubmitCount, SubmitSpawn,
         SubmitNotify, OwnShare, WaitSpin, WaitLock, WaitCheck, WaitSleep
    <3>2. QED BY <3>1 DEF ControlInv
  <2>3. QED BY <2>1, <2>2
<1>5. QED BY <1>1, <1>2, <1>3, <1>4 DEF ControlInv

(* And after a worker's. *)
LEMMA WorkerControl ==
  ASSUME PoolIInv, TypeOK', NEW t \in Threads, WorkerStep(t)
  PROVE  ControlInv'
<1> USE DEF PoolIInv
<1>1. UNCHANGED <<spawn, batch>>
  BY DEF WorkerStep, Pop, PopCounted, GoIdle, Spin, Unidle, TakeOrPark, Run, LastLock,
     LastNotify
<1>2. \A s \in Submitters : spc'[s] = spc[s] \/ (spc[s] = "asleep" /\ spc'[s] = "lock")
  BY DEF WorkerStep, Pop, PopCounted, GoIdle, Spin, Unidle, TakeOrPark, Run, LastLock,
     LastNotify
<1>3. ASSUME NEW u \in Threads, u # t PROVE wpc'[u] = wpc[u] /\ hand'[u] = hand[u]
  BY <1>3 DEF WorkerStep, Pop, PopCounted, GoIdle, Spin, Unidle, TakeOrPark, Run,
     LastLock, LastNotify, WorkerGoes, Take, TypeOK
<1>4. wpc'[t] \in HeldPcs \cup {"last", "notify"} => hand'[t] \in Batches
  <2>1. ASSUME queue # <<>>, Take(t) PROVE hand'[t] \in Batches
    BY <2>1, PositionsTail DEF Take, TypeOK
  <2>2. CASE Pop(t) \/ Spin(t) \/ TakeOrPark(t)
    BY <2>1, <2>2 DEF Pop, Spin, TakeOrPark, WorkerGoes, TypeOK, HeldPcs
  <2>3. CASE PopCounted(t) \/ GoIdle(t) \/ Unidle(t) \/ LastLock(t) \/ LastNotify(t)
    BY <2>3 DEF PopCounted, GoIdle, Unidle, LastLock, LastNotify, WorkerGoes, TypeOK,
       HeldPcs, ControlInv
  <2>4. CASE Run(t)
    BY <2>4 DEF Run, WorkerGoes, TypeOK, HeldPcs, ControlInv
  <2>5. QED BY <2>2, <2>3, <2>4 DEF WorkerStep
<1>5. QED BY <1>1, <1>2, <1>3, <1>4 DEF ControlInv

(* idle and pending move with the threads and the queue they count. *)
LEMMA CountersStep ==
  ASSUME PoolIInv, TypeOK', Next
  PROVE  IdleExact' /\ PendingExact'
<1> USE DEF PoolIInv
<1> DEFINE i == Cardinality(At(IdlePcs))
           p == Cardinality(At(PoppedPcs))
<1>0. idle = i /\ pending = Len(queue) + p /\ i \in Nat /\ p \in Nat /\ Len(queue) \in Nat
  BY AtBound, LenProperties DEF IdleExact, PendingExact, TypeOK
<1>a. (IdleExact' <=> idle' = Cardinality(At(IdlePcs)'))
      /\ (PendingExact' <=> pending' = Len(queue') + Cardinality(At(PoppedPcs)'))
  BY DEF IdleExact, PendingExact
<1> HIDE DEF i, p
<1>1. ASSUME NEW t \in Threads, NEW STATE from, NEW STATE to, WorkerGoes(t, from, to)
      PROVE  /\ Cardinality(At(IdlePcs)') = i
                  + (IF to \in IdlePcs THEN 1 ELSE 0) - (IF from \in IdlePcs THEN 1 ELSE 0)
             /\ Cardinality(At(PoppedPcs)') = p
                  + (IF to \in PoppedPcs THEN 1 ELSE 0) - (IF from \in PoppedPcs THEN 1 ELSE 0)
  BY <1>1, AtMove DEF i, p
<1>2. ASSUME NEW t \in Threads, queue # <<>>, Take(t)
      PROVE  Len(queue') = Len(queue) - 1
  BY <1>2, PositionsTail DEF Take, TypeOK
<1> USE DEF IdlePcs, PoppedPcs
<1>3. ASSUME NEW t \in Threads, WorkerStep(t)
      PROVE  idle' = Cardinality(At(IdlePcs)')
             /\ pending' = Len(queue') + Cardinality(At(PoppedPcs)')
  <2>1. CASE Pop(t)
    BY <1>0, <1>1, <1>2, <2>1 DEF Pop
  <2>2. CASE PopCounted(t)
    BY <1>0, <1>1, <2>2 DEF PopCounted
  <2>3. CASE GoIdle(t)
    BY <1>0, <1>1, <2>3 DEF GoIdle
  <2>4. CASE Spin(t)
    BY <1>0, <1>1, <1>2, <2>4 DEF Spin
  <2>5. CASE Unidle(t)
    BY <1>0, <1>1, <2>5 DEF Unidle
  <2>6. CASE TakeOrPark(t)
    BY <1>0, <1>1, <1>2, <2>6 DEF TakeOrPark
  <2>7. CASE Run(t)
    BY <1>0, <1>1, <2>7 DEF Run
  <2>8. CASE LastLock(t) \/ LastNotify(t)
    BY <1>0, <1>1, <2>8 DEF LastLock, LastNotify
  <2>9. QED
    BY <1>3, <2>1, <2>2, <2>3, <2>4, <2>5, <2>6, <2>7, <2>8 DEF WorkerStep
<1>4. ASSUME NEW s \in Submitters, SubmitPush(s) \/ SubmitSpawnFails(s) \/ SubmitterStep(s)
      PROVE  idle' = Cardinality(At(IdlePcs)')
             /\ pending' = Len(queue') + Cardinality(At(PoppedPcs)')
  <2>1. CASE SubmitSpawn(s)
    BY <1>0, <1>1, <2>1 DEF SubmitSpawn
  <2>2. CASE SubmitNotify(s)
    <3>1. At(IdlePcs)' = At(IdlePcs) /\ At(PoppedPcs)' = At(PoppedPcs)
      BY <2>2 DEF SubmitNotify, At, TypeOK
    <3>2. QED BY <1>0, <2>2, <3>1 DEF SubmitNotify, i, p
  <2>3. CASE SubmitPush(s)
    <3>1. PICK n \in 0..MaxJobs :
            /\ queue' = queue \o [j \in 1..n |-> <<s, batch[s] + 1>>]
            /\ pending' = pending + n /\ batch[s] < MaxBatches
      BY <2>3 DEF SubmitPush
    <3>2. idle' = idle /\ At(IdlePcs)' = At(IdlePcs) /\ At(PoppedPcs)' = At(PoppedPcs)
      BY <2>3 DEF SubmitPush, At
    <3>3. <<s, batch[s] + 1>> \in Batches /\ n \in Nat
      <4>1. n \in Nat
        BY BoundsAssumption
      <4>2. QED BY <3>1, <4>1, PushRoom
    <3>4. Len(queue') = Len(queue) + n
      BY <3>1, <3>3, PositionsBatch DEF TypeOK
    <3>5. QED BY <1>0, <3>1, <3>2, <3>3, <3>4 DEF i, p
  <2>4. CASE UNCHANGED <<wpc, queue, idle, pending>>
    <3>1. At(IdlePcs)' = At(IdlePcs) /\ At(PoppedPcs)' = At(PoppedPcs)
      BY <2>4 DEF At
    <3>2. QED BY <1>0, <2>4, <3>1 DEF i, p
  <2>5. QED
    BY <1>4, <2>1, <2>2, <2>3, <2>4 DEF SubmitterStep, SubmitSpawnFails, SubmitCount,
       OwnShare, WaitSpin, WaitLock, WaitCheck, WaitSleep, pool
<1>5. QED BY <1>a, <1>3, <1>4 DEF Next

(* Threads counted and not yet spawned form a finite set. *)
LEMMA OwingFinite ==
  ASSUME TypeOK
  PROVE  IsFiniteSet(Owing) /\ Cardinality(Owing) \in Nat
<1>1. cap \in Nat
  BY AtBound
<1>2. IsFiniteSet(Submitters \X (1..cap))
  <2>1. IsFiniteSet(1..cap)
    BY <1>1, FS_Interval
  <2>2. QED BY <2>1, FiniteAssumption, FS_Product
<1>3. Owing \subseteq Submitters \X (1..cap)
  BY DEF Owing
<1>4. QED BY <1>2, <1>3, FS_Subset, FS_CardinalityType

(* submit counts the threads it spawns before it spawns them, and each one  *)
(* it spawns was counted.                                                   *)
LEMMA WorkersStep ==
  ASSUME PoolIInv, TypeOK', Next
  PROVE  WorkersExact'
<1> USE DEF PoolIInv
<1> DEFINE BornPcs == WorkerPcs \ {"unborn"}
           o == Cardinality(Owing)
           b == Cardinality(At(BornPcs))
<1>0. o \in Nat /\ b \in Nat /\ cap \in Nat /\ IsFiniteSet(Owing)
  BY OwingFinite, AtBound
<1>1. Born = At(BornPcs) /\ Born' = At(BornPcs)'
  BY DEF Born, At, TypeOK
<1>2. ~unwound => workers = b + o
  BY <1>1 DEF WorkersExact
<1>3. SUFFICES ASSUME ~unwound' PROVE workers' = Cardinality(At(BornPcs)') + Cardinality(Owing')
  BY <1>1 DEF WorkersExact
<1>4. ASSUME NEW s \in Submitters, SubmitCount(s)
      PROVE  workers' = Cardinality(At(BornPcs)') + Cardinality(Owing')
  <2> DEFINE n == SpawnCount(seen, idle, cap - workers)
             new == {s} \X (1..n)
  <2>1. /\ workers' = workers + n /\ spawn' = [spawn EXCEPT ![s] = n]
        /\ UNCHANGED <<wpc, unwound>> /\ spc[s] = "count"
    BY <1>4 DEF SubmitCount, SubmitterGoes
  <2>2. n \in 0..cap
    BY <2>1 DEF TypeOK
  <2> HIDE DEF n
  <2>3. spawn[s] = 0
    <3>1. spawn[s] \in 0..cap
      BY DEF TypeOK
    <3>2. ~(spawn[s] > 0)
      BY <2>1 DEF ControlInv
    <3>3. QED BY <1>0, <3>1, <3>2
  <2>4. Owing' = Owing \cup new
    <3>1. \A p \in Submitters \X (1..cap) :
            p[2] <= spawn'[p[1]] <=> p \in new \/ p[2] <= spawn[p[1]]
      BY <1>0, <2>1, <2>2, <2>3 DEF TypeOK
    <3>2. new \subseteq Submitters \X (1..cap)
      BY <1>0, <2>2
    <3>3. QED BY <3>1, <3>2 DEF Owing
  <2>5. Owing \cap new = {}
    BY <1>0, <2>2, <2>3 DEF Owing
  <2>6. IsFiniteSet(new) /\ Cardinality(new) = n
    <3>1. IsFiniteSet({s}) /\ Cardinality({s}) = 1
      BY FS_Singleton
    <3>2. IsFiniteSet(1..n) /\ Cardinality(1..n) = n
      <4>1. n \in Int /\ n >= 0 /\ 1 \in Int
        BY <1>0, <2>2
      <4>2. IsFiniteSet(1..n) /\ Cardinality(1..n) = IF 1 > n THEN 0 ELSE n - 1 + 1
        BY <4>1, FS_Interval
      <4>3. QED BY <4>1, <4>2
    <3>3. IsFiniteSet(new) /\ Cardinality(new) = Cardinality({s}) * Cardinality(1..n)
      BY <3>1, <3>2, FS_Product
    <3>4. QED BY <1>0, <2>2, <3>1, <3>2, <3>3
  <2> HIDE DEF new
  <2>7. Cardinality(Owing') = o + n
    <3>1. Cardinality(Owing \cup new) = o + Cardinality(new) - Cardinality(Owing \cap new)
      BY <1>0, <2>6, FS_Union
    <3>2. Cardinality(Owing \cap new) = 0
      BY <2>5, FS_EmptySet, Zenon
    <3>3. QED BY <1>0, <2>2, <2>4, <2>6, <3>1, <3>2
  <2>8. At(BornPcs)' = At(BornPcs)
    BY <2>1 DEF At
  <2>9. QED BY <1>0, <1>2, <1>3, <2>1, <2>2, <2>7, <2>8
<1>5. ASSUME NEW s \in Submitters, SubmitSpawn(s)
      PROVE  workers' = Cardinality(At(BornPcs)') + Cardinality(Owing')
  <2>1. PICK t \in Threads : WorkerGoes(t, "unborn", "pop")
    BY <1>5 DEF SubmitSpawn
  <2>2. /\ spawn' = [spawn EXCEPT ![s] = spawn[s] - 1] /\ spawn[s] \in 1..cap
        /\ UNCHANGED <<workers, unwound>>
    BY <1>5, <1>0 DEF SubmitSpawn, SubmitterGoes, ControlInv, TypeOK
  <2>3. Cardinality(At(BornPcs)') = b + 1
    <3>1. "pop" \in BornPcs /\ "unborn" \notin BornPcs
      BY DEF WorkerPcs
    <3> HIDE DEF BornPcs
    <3>2. QED BY <1>0, <2>1, <3>1, AtMove
  <2>4. Owing' = Owing \ {<<s, spawn[s]>>} /\ <<s, spawn[s]>> \in Owing
    <3>1. <<s, spawn[s]>> \in Owing
      BY <2>2 DEF Owing
    <3>2. \A p \in Submitters \X (1..cap) :
            p[2] <= spawn'[p[1]] <=> p[2] <= spawn[p[1]] /\ p # <<s, spawn[s]>>
      BY <1>0, <2>2 DEF TypeOK
    <3>3. QED BY <3>1, <3>2 DEF Owing
  <2>5. Cardinality(Owing') = o - 1
    BY <1>0, <2>4, FS_RemoveElement
  <2>6. QED BY <1>0, <1>2, <1>3, <2>2, <2>3, <2>5
<1>6. CASE UNCHANGED <<workers, spawn, unwound>> /\ At(BornPcs)' = At(BornPcs)
  <2>1. Owing' = Owing
    BY <1>6 DEF Owing
  <2>2. QED BY <1>2, <1>3, <1>6, <2>1
<1>7. ASSUME NEW t \in Threads, WorkerStep(t)
      PROVE  UNCHANGED <<workers, spawn, unwound>> /\ At(BornPcs)' = At(BornPcs)
  <2>1. \A u \in Threads : wpc'[u] = "unborn" <=> wpc[u] = "unborn"
    BY <1>7 DEF WorkerStep, Pop, PopCounted, GoIdle, Spin, Unidle, TakeOrPark, Run,
       LastLock, LastNotify, WorkerGoes, TypeOK
  <2>2. At(BornPcs)' = At(BornPcs)
    BY <2>1 DEF At, TypeOK
  <2>3. QED BY <1>7, <2>2 DEF WorkerStep, Pop, PopCounted, GoIdle, Spin, Unidle,
                 TakeOrPark, Run, LastLock, LastNotify
<1>8. ASSUME NEW s \in Submitters,
             \/ SubmitPush(s) \/ SubmitNotify(s) \/ OwnShare(s) \/ WaitSpin(s)
             \/ WaitLock(s) \/ WaitCheck(s) \/ WaitSleep(s)
      PROVE  UNCHANGED <<workers, spawn, unwound>> /\ At(BornPcs)' = At(BornPcs)
  <2>1. \A u \in Threads : wpc'[u] = "unborn" <=> wpc[u] = "unborn"
    BY <1>8 DEF SubmitPush, SubmitNotify, OwnShare, WaitSpin, WaitLock, WaitCheck,
       WaitSleep, pool
  <2>2. At(BornPcs)' = At(BornPcs)
    BY <2>1 DEF At, TypeOK
  <2>3. QED BY <1>8, <2>2 DEF SubmitPush, SubmitNotify, OwnShare, WaitSpin, WaitLock,
                 WaitCheck, WaitSleep, pool
<1>9. ASSUME NEW s \in Submitters, SubmitSpawnFails(s) PROVE FALSE
  BY <1>3, <1>9 DEF SubmitSpawnFails
<1>10. QED
  BY <1>4, <1>5, <1>6, <1>7, <1>8, <1>9 DEF Next, SubmitterStep

(* A job is counted by the latch of its batch from the push that queues it  *)
(* to the run that ends it.                                                 *)
LEMMA LatchStep ==
  ASSUME PoolIInv, TypeOK', Next
  PROVE  LatchExact'
<1> USE DEF PoolIInv
<1>0. ASSUME NEW l \in Batches
      PROVE  /\ left[l] = Cardinality(Queued(l)) + Cardinality(Held(l))
             /\ Cardinality(Queued(l)) \in Nat /\ Cardinality(Held(l)) \in Nat
             /\ Queued(l) = Positions(queue, l) /\ Queued(l)' = Positions(queue', l)
  <2>1. Queued(l)' = Positions(queue', l)
    BY LenProperties DEF TypeOK, Queued, Positions
  <2>2. QED BY <1>0, <2>1, HeldFinite, QueuedPositions, PositionsFinite
            DEF LatchExact, TypeOK
<1>1. ASSUME UNCHANGED <<left, queue>>, \A l \in Batches : Held(l)' = Held(l)
      PROVE  LatchExact'
  BY <1>0, <1>1 DEF LatchExact
<1>2. ASSUME NEW t \in Threads, WorkerStep(t) PROVE LatchExact'
  <2>1. CASE queue # <<>> /\ Take(t)
    <3>1. \E from \in WorkerPcs \ HeldPcs, to \in HeldPcs :
            WorkerGoes(t, from, to) /\ left' = left
      BY <1>2, <2>1 DEF WorkerStep, Pop, Spin, TakeOrPark, latches, PopCounted, GoIdle,
         Unidle, Run, LastLock, LastNotify, Take, WorkerPcs, HeldPcs
    <3>2. QED BY <2>1, <3>1, TakeLatch
  <2>2. CASE Run(t)
    <3>1. /\ hand[t] \in Batches /\ wpc[t] = "run" /\ t \in Held(hand[t])
          /\ wpc' = [wpc EXCEPT ![t] = IF left[hand[t]] = 1 THEN "last" ELSE "pop"]
          /\ left' = [left EXCEPT ![hand[t]] = left[hand[t]] - 1] /\ queue' = queue
          /\ \A u \in Threads : u # t => hand'[u] = hand[u]
      BY <2>2 DEF Run, WorkerGoes, ControlInv, HeldPcs, Held, At, TypeOK
    <3>2. ASSUME NEW l \in Batches PROVE Held(l)' = Held(l) \ {t}
      <4>1. \A u \in Threads : u \in Held(l)' <=> u \in Held(l) /\ u # t
        BY <3>1 DEF Held, At, TypeOK
      <4>2. Held(l) \subseteq Threads /\ Held(l)' \subseteq Threads
        BY DEF Held, At
      <4>3. QED BY <4>1, <4>2
    <3>3. ASSUME NEW l \in Batches
          PROVE  left'[l] = Cardinality(Queued(l)') + Cardinality(Held(l)')
      <4>1. Queued(l)' = Queued(l)
        BY <1>0, <3>1
      <4>2. t \in Held(l) <=> l = hand[t]
        BY <3>1 DEF Held
      <4>3. Cardinality(Held(l) \ {t}) = IF t \in Held(l) THEN Cardinality(Held(l)) - 1
                                         ELSE Cardinality(Held(l))
        BY HeldFinite, FS_RemoveElement
      <4>4. left'[l] = IF l = hand[t] THEN left[l] - 1 ELSE left[l]
        BY <3>1 DEF TypeOK
      <4>5. /\ left[l] = Cardinality(Queued(l)) + Cardinality(Held(l))
            /\ Cardinality(Queued(l)) \in Nat /\ Cardinality(Held(l)) \in Nat
        BY <1>0, <3>3
      <4>6. Held(l)' = Held(l) \ {t}
        BY <3>2, <3>3
      <4>7. QED BY <4>1, <4>2, <4>3, <4>4, <4>5, <4>6
    <3>4. QED BY <3>3 DEF LatchExact
  <2>3. CASE ~(queue # <<>> /\ Take(t)) /\ ~Run(t)
    <3>1. UNCHANGED <<left, queue>>
      BY <1>2, <2>3 DEF WorkerStep, Pop, PopCounted, GoIdle, Spin, Unidle, TakeOrPark,
         LastLock, LastNotify, latches
    <3>2. \A u \in Threads : wpc[u] \in HeldPcs => hand'[u] = hand[u]
      BY <1>2, <2>3 DEF WorkerStep, Pop, PopCounted, GoIdle, Spin, Unidle, TakeOrPark,
         LastLock, LastNotify, WorkerGoes, HeldPcs, TypeOK
    <3>3. \A u \in Threads : wpc'[u] \in HeldPcs <=> wpc[u] \in HeldPcs
      BY <1>2, <2>3 DEF WorkerStep, Pop, PopCounted, GoIdle, Spin, Unidle, TakeOrPark,
         LastLock, LastNotify, WorkerGoes, HeldPcs, TypeOK
    <3>4. \A l \in Batches : Held(l)' = Held(l)
      BY <3>2, <3>3 DEF Held, At, HeldPcs
    <3>5. QED BY <1>1, <3>1, <3>4
  <2>4. QED BY <2>1, <2>2, <2>3
<1>3. ASSUME NEW s \in Submitters, SubmitPush(s) \/ SubmitSpawnFails(s) \/ SubmitterStep(s)
      PROVE  LatchExact'
  <2>1. \A l \in Batches : Held(l)' = Held(l)
    <3>1. hand' = hand /\ \A u \in Threads : wpc'[u] \in HeldPcs <=> wpc[u] \in HeldPcs
      BY <1>3 DEF SubmitterStep, SubmitPush, SubmitSpawnFails, SubmitCount, SubmitSpawn,
         SubmitNotify, OwnShare, WaitSpin, WaitLock, WaitCheck, WaitSleep, WorkerGoes,
         HeldPcs, TypeOK, pool
    <3>2. QED BY <3>1 DEF Held, At, HeldPcs
  <2>2. CASE SubmitPush(s)
    <3> DEFINE m == <<s, batch[s] + 1>>
    <3>1. PICK n \in 0..MaxJobs :
            /\ batch[s] < MaxBatches /\ spc[s] = "idle"
            /\ left' = [left EXCEPT ![m] = n]
            /\ queue' = queue \o [i \in 1..n |-> m]
      BY <2>2 DEF SubmitPush, SubmitterGoes
    <3>2. n \in Nat /\ batch[s] + 1 \in 1..MaxBatches
      <4>1. n \in Nat
        BY BoundsAssumption
      <4>2. QED BY <3>1, <4>1, PushRoom
    <3>3. m \in Batches
      BY <3>2 DEF Batches
    <3>4. left[m] = 0
      <4>1. spc[s] = "idle" /\ batch[s] < MaxBatches
        BY <3>1
      <4>2. left[m] \in Nat
        BY <3>3 DEF TypeOK
      <4>3. ~(left[m] > 0)
        BY <3>2, <4>1 DEF BorrowsLive
      <4>4. QED BY <4>2, <4>3
    <3> HIDE DEF m
    <3>5. ASSUME NEW l \in Batches
          PROVE  left'[l] = Cardinality(Queued(l)') + Cardinality(Held(l)')
      <4>1. Cardinality(Queued(l)') = Cardinality(Queued(l)) + (IF l = m THEN n ELSE 0)
        <5>1. Cardinality(Positions(queue \o [i \in 1..n |-> m], l))
                = Cardinality(Positions(queue, l)) + (IF l = m THEN n ELSE 0)
          <6>1. queue \in Seq(Batches)
            BY DEF TypeOK
          <6>2. QED BY <3>2, <3>3, <6>1, PositionsBatch
        <5>2. QED BY <1>0, <3>1, <5>1
      <4>2. left'[l] = IF l = m THEN n ELSE left[l]
        BY <3>1, <3>3 DEF TypeOK
      <4>3. Cardinality(Held(l)') = Cardinality(Held(l))
        BY <2>1
      <4>4. QED BY <1>0, <3>2, <3>4, <4>1, <4>2, <4>3
    <3>6. QED BY <3>5 DEF LatchExact
  <2>3. CASE ~SubmitPush(s)
    <3>1. UNCHANGED <<left, queue>>
      BY <1>3, <2>3 DEF SubmitterStep, SubmitSpawnFails, SubmitCount, SubmitSpawn,
         SubmitNotify, OwnShare, WaitSpin, WaitLock, WaitCheck, WaitSleep, pool, latches
    <3>2. QED BY <1>1, <2>1, <3>1
  <2>4. QED BY <2>2, <2>3
<1>4. QED BY <1>2, <1>3 DEF Next

(* A submitter leaves its batch only when the latch is at zero, and starts  *)
(* another only then.                                                       *)
LEMMA BorrowsStep ==
  ASSUME PoolIInv, TypeOK', Next
  PROVE  BorrowsLive'
<1> USE DEF PoolIInv
<1> SUFFICES ASSUME NEW s \in Submitters, NEW b \in 1..MaxBatches, left'[<<s, b>>] > 0
             PROVE  spc'[s] = "unwound" \/ (batch'[s] = b /\ spc'[s] # "idle")
  BY DEF BorrowsLive
<1>0. /\ <<s, b>> \in Batches /\ left[<<s, b>>] \in Nat
      /\ left[<<s, b>>] > 0 => spc[s] = "unwound" \/ (batch[s] = b /\ spc[s] # "idle")
  <2>1. <<s, b>> \in Batches
    BY DEF Batches
  <2>2. left[<<s, b>>] \in Nat
    BY <2>1, BoundsAssumption DEF TypeOK
  <2>3. QED BY <2>1, <2>2 DEF BorrowsLive
<1>1. ASSUME NEW t \in Threads, WorkerStep(t)
      PROVE  spc'[s] = "unwound" \/ (batch'[s] = b /\ spc'[s] # "idle")
  <2>1. batch' = batch /\ (spc'[s] = spc[s] \/ (spc[s] = "asleep" /\ spc'[s] = "lock"))
    BY <1>1 DEF WorkerStep, Pop, PopCounted, GoIdle, Spin, Unidle, TakeOrPark, Run,
       LastLock, LastNotify
  <2>2. CASE Run(t)
    <3>1. hand[t] \in Batches /\ left' = [left EXCEPT ![hand[t]] = left[hand[t]] - 1]
      BY <2>2 DEF Run, WorkerGoes, ControlInv, HeldPcs
    <3>2. left'[<<s, b>>] =
            IF hand[t] = <<s, b>> THEN left[<<s, b>>] - 1 ELSE left[<<s, b>>]
      BY <1>0, <3>1 DEF TypeOK
    <3>3. left[<<s, b>>] > 0
      BY <1>0, <3>2
    <3>4. QED BY <1>0, <2>1, <3>3
  <2>3. CASE left' = left
    BY <1>0, <2>1, <2>3
  <2>4. QED
    BY <1>1, <2>2, <2>3 DEF WorkerStep, Pop, PopCounted, GoIdle, Spin, Unidle,
       TakeOrPark, LastLock, LastNotify, latches
<1>2. ASSUME NEW r \in Submitters, SubmitPush(r)
      PROVE  spc'[s] = "unwound" \/ (batch'[s] = b /\ spc'[s] # "idle")
  <2>1. PICK n \in 0..MaxJobs :
          /\ batch[r] < MaxBatches /\ spc[r] = "idle"
          /\ spc' = [spc EXCEPT ![r] = IF n = 0 THEN "own" ELSE "count"]
          /\ batch' = [batch EXCEPT ![r] = batch[r] + 1]
          /\ left' = [left EXCEPT ![<<r, batch[r] + 1>>] = n]
    BY <1>2 DEF SubmitPush, SubmitterGoes
  <2>2. CASE s = r /\ b = batch[r] + 1
    BY <2>1, <2>2 DEF TypeOK
  <2>3. CASE s # r \/ b # batch[r] + 1
    <3>1. <<s, b>> # <<r, batch[r] + 1>>
      BY <2>3
    <3>2. left[<<s, b>>] > 0
      BY <1>0, <2>1, <3>1 DEF TypeOK
    <3>3. s # r
      BY <1>0, <2>1, <3>2
    <3>4. QED BY <1>0, <2>1, <3>2, <3>3 DEF TypeOK
  <2>4. QED BY <2>2, <2>3
<1>3. ASSUME NEW r \in Submitters, SubmitSpawnFails(r) \/ SubmitterStep(r)
      PROVE  spc'[s] = "unwound" \/ (batch'[s] = b /\ spc'[s] # "idle")
  <2>1. left' = left /\ batch' = batch
    BY <1>3 DEF SubmitterStep, SubmitSpawnFails, SubmitCount, SubmitSpawn, SubmitNotify,
       OwnShare, WaitSpin, WaitLock, WaitCheck, WaitSleep, latches
  <2>2. spc[r] \notin {"idle", "unwound"} /\ \A q \in Submitters : q # r => spc'[q] = spc[q]
    BY <1>3 DEF SubmitterStep, SubmitSpawnFails, SubmitCount, SubmitSpawn, SubmitNotify,
       OwnShare, WaitSpin, WaitLock, WaitCheck, WaitSleep, SubmitterGoes, TypeOK
  <2>3. spc'[r] = "idle" => left[<<r, batch[r]>>] = 0
    BY <1>3 DEF SubmitterStep, SubmitSpawnFails, SubmitCount, SubmitSpawn, SubmitNotify,
       OwnShare, WaitSpin, WaitLock, WaitCheck, WaitSleep, SubmitterGoes, TypeOK, Latch
  <2>4. QED BY <1>0, <2>1, <2>2, <2>3
<1>4. QED BY <1>1, <1>2, <1>3 DEF Next

---------------------------------------------------------------------------
(* The theorems. *)

(* An empty pool. *)
LEMMA InitPool == Init => PoolIInv
<1> SUFFICES ASSUME Init PROVE PoolIInv
  OBVIOUS
<1> USE BoundsAssumption DEF Init
<1>0. cap \in Nat
  BY AtBound
<1>1. TypeOK
  <2>1. <<>> \in Seq(Batches)
    BY EmptySeq
  <2>2. mu \in [Batches -> BOOLEAN] /\ unwound \in BOOLEAN
    OBVIOUS
  <2>3. QED BY <1>0, <2>1, <2>2 DEF TypeOK, WorkerPcs, SubmitterPcs
<1>2. ControlInv /\ BorrowsLive
  BY DEF ControlInv, BorrowsLive, HeldPcs, Batches
<1>3. /\ At(IdlePcs) = {} /\ At(PoppedPcs) = {} /\ Born = {} /\ Owing = {}
      /\ \A l \in Batches : Queued(l) = {} /\ Held(l) = {}
  BY DEF At, IdlePcs, PoppedPcs, Born, Owing, Queued, Held
<1>4. Cardinality({}) = 0 /\ Len(queue) = 0
  BY FS_EmptySet, EmptySeq
<1>5. IdleExact /\ PendingExact /\ WorkersExact
  BY <1>3, <1>4 DEF IdleExact, PendingExact, WorkersExact
<1>6. LatchExact
  <2>1. ASSUME NEW l \in Batches
        PROVE  left[l] = 0 /\ Cardinality(Queued(l)) = 0 /\ Cardinality(Held(l)) = 0
    BY <1>3, <1>4
  <2>2. QED BY <2>1 DEF LatchExact
<1>7. QED BY <1>1, <1>2, <1>5, <1>6 DEF PoolIInv

(* pool.rs: books and borrows through every interleaving of submits, spawns *)
(* that fail, spins, parks and panics.                                      *)
THEOREM PoolInductive == Spec => []PoolIInv
<1>1. PoolIInv /\ [Next]_vars => PoolIInv'
  <2> SUFFICES ASSUME PoolIInv, [Next]_vars PROVE PoolIInv'
    OBVIOUS
  <2>1. CASE Next
    <3>1. TypeOK'
      BY <2>1, SubmitterTypes, WorkerTypes DEF Next
    <3>2. ControlInv'
      BY <2>1, <3>1, SubmitterControl, WorkerControl DEF Next
    <3>3. QED
      BY <2>1, <3>1, <3>2, CountersStep, WorkersStep, LatchStep, BorrowsStep DEF PoolIInv
  <2>2. CASE UNCHANGED vars
    <3>1. TypeOK' /\ ControlInv'
      BY <2>2 DEF vars, PoolIInv, TypeOK, ControlInv
    <3>2. LatchExact' /\ IdleExact' /\ PendingExact' /\ WorkersExact' /\ BorrowsLive'
      BY <2>2 DEF vars, PoolIInv, LatchExact, IdleExact, PendingExact, WorkersExact,
         BorrowsLive, At, Queued, Held, Born, Owing
    <3>3. QED BY <3>1, <3>2 DEF PoolIInv
  <2>3. QED BY <2>1, <2>2
<1>2. QED BY InitPool, <1>1, PTL DEF Spec

(* pool.rs: "Each job runs exactly once, panics included", and idle,        *)
(* pending and workers, read outside the mutex that guards what they count, *)
(* are true up to the step under way.                                       *)
THEOREM PoolInvariant == Spec => []PoolInv
<1>1. PoolIInv => PoolInv
  <2> SUFFICES ASSUME PoolIInv PROVE PoolInv
    OBVIOUS
  <2>1. ASSUME ~unwound, NEW s \in Submitters
        PROVE  Cardinality(Born) + spawn[s] <= workers
    <3> DEFINE mine == {s} \X (1..spawn[s])
    <3>1. spawn[s] \in 0..cap /\ cap \in Nat
      BY AtBound DEF PoolIInv, TypeOK
    <3>2. mine \subseteq Owing
      BY <3>1 DEF Owing
    <3>3. Cardinality(mine) = spawn[s]
      <4>1. IsFiniteSet({s}) /\ Cardinality({s}) = 1
        BY FS_Singleton
      <4>2. /\ IsFiniteSet(1..spawn[s])
            /\ Cardinality(1..spawn[s]) = IF 1 > spawn[s] THEN 0 ELSE spawn[s] - 1 + 1
        <5>1. spawn[s] \in Int /\ 1 \in Int
          BY <3>1
        <5>2. QED BY <5>1, FS_Interval
      <4>3. Cardinality(mine) = Cardinality({s}) * Cardinality(1..spawn[s])
        BY <4>1, <4>2, FS_Product
      <4>4. Cardinality(1..spawn[s]) = spawn[s]
        BY <3>1, <4>2
      <4>5. QED BY <3>1, <4>1, <4>3, <4>4
    <3> HIDE DEF mine
    <3>4. Cardinality(mine) <= Cardinality(Owing) /\ Cardinality(Owing) \in Nat
      BY <3>2, OwingFinite, FS_Subset DEF PoolIInv
    <3>5. workers = Cardinality(Born) + Cardinality(Owing)
      BY <2>1 DEF PoolIInv, WorkersExact
    <3>6. Cardinality(Born) \in Nat
      <4>1. Born \subseteq Threads
        BY DEF Born
      <4>2. QED BY <4>1, FiniteAssumption, FS_Subset, FS_CardinalityType
    <3>7. QED BY <3>1, <3>3, <3>4, <3>5, <3>6
  <2>2. CountersTrue
    BY <2>1 DEF PoolIInv, IdleExact, PendingExact, CountersTrue, Born, IdlePcs, PoppedPcs
  <2>3. QED BY <2>2 DEF PoolIInv, PoolInv
<1>2. QED BY PoolInductive, <1>1, PTL

(* The SAFETY comment of submit: as long as a job that borrows its stack is *)
(* queued or running the submitter is inside submit or Pending::wait, the   *)
(* wait its own panic enters included, unless a failed spawn unwound it.    *)
THEOREM BorrowsStayLive == Spec => []BorrowsLive
<1>1. PoolIInv => BorrowsLive
  BY DEF PoolIInv
<1>2. QED BY PoolInductive, <1>1, PTL
===========================================================================
