----------------------------- MODULE WorkerPool -----------------------------
(***************************************************************************)
(* The persistent worker pool of the executor (zu-exec/src/pool.rs).       *)
(*                                                                         *)
(* Threads that run queries submit batches of jobs that borrow their       *)
(* stacks; pool workers, spawned on first use, take the jobs off a shared  *)
(* queue.  A worker that finds nothing spins on the pending counter, then  *)
(* parks on the condition variable ready; a submitter waits on the latch   *)
(* of its batch, spinning first and then parked on done.  A job is named   *)
(* by the batch it belongs to, which is also the name of its latch.        *)
(*                                                                         *)
(* One action is one atomic access, or one critical section: nobody looks  *)
(* at the queue without its mutex.  The spins' clocks are choices.         *)
(***************************************************************************)
EXTENDS Naturals, Integers, Sequences, FiniteSets

CONSTANTS
    Submitters,  \* threads that run queries
    Threads,     \* pool threads, as many as the host's parallelism
    MaxJobs,     \* bound: jobs in a batch
    MaxBatches   \* bound: batches a submitter submits

ASSUME BoundsAssumption == MaxJobs \in Nat /\ MaxBatches \in Nat
ASSUME FiniteAssumption == IsFiniteSet(Submitters) /\ IsFiniteSet(Threads)

VARIABLES
    queue,    \* jobs: the batch of each queued job, in order
    lock,     \* the submitter inside submit's critical section, or None
    workers,  \* workers alive, as the pool counts them
    idle,     \* workers spinning or parked, as the pool counts them
    pending,  \* queued jobs, mirrored outside the mutex
    seen,     \* what the add of the submitter in the critical section left
    wpc,      \* per pool thread, where it is
    hand,     \* per pool thread, the job it took, or NoJob
    left,     \* per latch, the jobs still to finish
    mu,       \* per latch, whether its submitter holds the mutex
    spc,      \* per submitter, where it is
    batch,    \* per submitter, the number of its batch
    spawn,    \* per submitter, the threads it still has to spawn
    unwound   \* whether a spawn failed and its submit unwound

pool == <<queue, lock, workers, idle, pending, seen, wpc, hand>>
latches == <<left, mu>>
vars == <<queue, lock, workers, idle, pending, seen, wpc, hand, left, mu, spc,
          batch, spawn, unwound>>

None == "none"
ASSUME NoneAssumption == None \notin Submitters
NoJob == <<>>
cap == Cardinality(Threads)
Batches == Submitters \X (1..MaxBatches)
Latch(s) == <<s, batch[s]>>

WorkerPcs == {"unborn", "pop", "popped", "empty", "spin", "spun", "unidle",
              "lock", "parked", "run", "last", "notify"}
SubmitterPcs == {"idle", "count", "spawn", "notify", "own", "spin", "lock",
                 "check", "sleep", "asleep", "unwound"}

Init ==
    /\ queue = <<>> /\ lock = None
    /\ workers = 0 /\ idle = 0 /\ pending = 0 /\ seen = 0
    /\ wpc = [t \in Threads |-> "unborn"]
    /\ hand = [t \in Threads |-> NoJob]
    /\ left = [l \in Batches |-> 0]
    /\ mu = [l \in Batches |-> FALSE]
    /\ spc = [s \in Submitters |-> "idle"]
    /\ batch = [s \in Submitters |-> 0]
    /\ spawn = [s \in Submitters |-> 0]
    /\ unwound = FALSE

WorkerGoes(t, from, to) ==
    /\ wpc[t] = from
    /\ wpc' = [wpc EXCEPT ![t] = to]

SubmitterGoes(s, from, to) ==
    /\ spc[s] = from
    /\ spc' = [spc EXCEPT ![s] = to]

-----------------------------------------------------------------------------
(* submit *)

\* The whole batch goes under one lock; a batch of no jobs is done at once.
\* What the fetch_add returned is all submit ever knows of pending.
SubmitPush(s) ==
    \E n \in 0..MaxJobs :
        /\ batch[s] < MaxBatches
        /\ SubmitterGoes(s, "idle", IF n = 0 THEN "own" ELSE "count")
        /\ lock = None
        /\ batch' = [batch EXCEPT ![s] = @ + 1]
        /\ left' = [left EXCEPT ![<<s, batch[s] + 1>>] = n]
        /\ queue' = queue \o [i \in 1..n |-> <<s, batch[s] + 1>>]
        /\ pending' = pending + n
        /\ seen' = IF n = 0 THEN 0 ELSE pending + n
        /\ lock' = IF n = 0 THEN None ELSE s
        /\ UNCHANGED <<workers, idle, wpc, hand, mu, spawn, unwound>>

\* Both subtractions saturate.
SpawnCount(queued, free, room) ==
    LET wanted == IF queued < free THEN 0 ELSE queued - free
        allowed == IF room < 0 THEN 0 ELSE room
    IN  IF wanted < allowed THEN wanted ELSE allowed

\* The loads of idle and workers come after the add: a worker may have
\* counted a job down since.
SubmitCount(s) ==
    LET n == SpawnCount(seen, idle, cap - workers)
    IN  /\ SubmitterGoes(s, "count", IF n = 0 THEN "notify" ELSE "spawn")
        /\ workers' = workers + n
        /\ spawn' = [spawn EXCEPT ![s] = n]
        /\ lock' = None
        /\ seen' = 0
        /\ UNCHANGED <<queue, idle, pending, wpc, hand, latches, batch, unwound>>

SubmitSpawn(s) ==
    \E t \in Threads :
        /\ WorkerGoes(t, "unborn", "pop")
        /\ SubmitterGoes(s, "spawn", IF spawn[s] = 1 THEN "notify" ELSE "spawn")
        /\ spawn' = [spawn EXCEPT ![s] = @ - 1]
        /\ UNCHANGED <<queue, lock, workers, idle, pending, seen, hand,
                       latches, batch, unwound>>

\* spawn(...).expect(...): submit unwinds before there is a Pending to wait,
\* with the batch queued and every thread it meant to spawn counted.
SubmitSpawnFails(s) ==
    /\ ~unwound
    /\ SubmitterGoes(s, "spawn", "unwound")
    /\ spawn' = [spawn EXCEPT ![s] = 0]
    /\ unwound' = TRUE
    /\ UNCHANGED <<pool, latches, batch>>

\* notify_all on ready.
SubmitNotify(s) ==
    /\ SubmitterGoes(s, "notify", "own")
    /\ wpc' = [t \in Threads |-> IF wpc[t] = "parked" THEN "lock" ELSE wpc[t]]
    /\ UNCHANGED <<queue, lock, workers, idle, pending, seen, hand, latches,
                   batch, spawn, unwound>>

-----------------------------------------------------------------------------
(* Pending::wait, entered by drop too when the caller's own share panics *)

\* Mutant: a Pending dropped by a panic does not wait.
OwnShareDropped(s) ==
    /\ SubmitterGoes(s, "own", "spin") \/ SubmitterGoes(s, "own", "idle")
    /\ UNCHANGED <<pool, latches, batch, spawn, unwound>>

OwnShare(s) ==
    /\ SubmitterGoes(s, "own", "spin")
    /\ UNCHANGED <<pool, latches, batch, spawn, unwound>>

WaitSpin(s) ==
    /\ \/ SubmitterGoes(s, "spin", "idle") /\ left[Latch(s)] = 0
       \/ SubmitterGoes(s, "spin", "lock")
    /\ UNCHANGED <<pool, latches, batch, spawn, unwound>>

WaitLock(s) ==
    /\ SubmitterGoes(s, "lock", "check")
    /\ mu' = [mu EXCEPT ![Latch(s)] = TRUE]
    /\ UNCHANGED <<pool, left, batch, spawn, unwound>>

WaitCheck(s) ==
    /\ \/ /\ SubmitterGoes(s, "check", "idle")
          /\ left[Latch(s)] = 0
          /\ mu' = [mu EXCEPT ![Latch(s)] = FALSE]
       \/ /\ SubmitterGoes(s, "check", "sleep")
          /\ left[Latch(s)] > 0
          /\ UNCHANGED mu
    /\ UNCHANGED <<pool, left, batch, spawn, unwound>>

WaitSleep(s) ==
    /\ SubmitterGoes(s, "sleep", "asleep")
    /\ mu' = [mu EXCEPT ![Latch(s)] = FALSE]
    /\ UNCHANGED <<pool, left, batch, spawn, unwound>>

-----------------------------------------------------------------------------
(* worker_loop *)

\* Mutant: the job is left at the head of the queue.
TakeKeeps(t) ==
    /\ hand' = [hand EXCEPT ![t] = Head(queue)]
    /\ UNCHANGED queue

\* pop_front under the queue's mutex.
Take(t) ==
    /\ hand' = [hand EXCEPT ![t] = Head(queue)]
    /\ queue' = Tail(queue)

Pop(t) ==
    /\ lock = None
    /\ \/ queue # <<>> /\ Take(t) /\ WorkerGoes(t, "pop", "popped")
       \/ queue = <<>> /\ WorkerGoes(t, "pop", "empty") /\ UNCHANGED <<queue, hand>>
    /\ UNCHANGED <<lock, workers, idle, pending, seen, latches, spc, batch,
                   spawn, unwound>>

\* pop's fetch_sub comes after the mutex is let go of.
PopCounted(t) ==
    /\ \/ WorkerGoes(t, "popped", "run")
       \/ WorkerGoes(t, "spun", "unidle")
    /\ pending' = pending - 1
    /\ UNCHANGED <<queue, lock, workers, idle, seen, hand, latches, spc, batch,
                   spawn, unwound>>

GoIdle(t) ==
    /\ WorkerGoes(t, "empty", "spin")
    /\ idle' = idle + 1
    /\ UNCHANGED <<queue, lock, workers, pending, seen, hand, latches, spc,
                   batch, spawn, unwound>>

Spin(t) ==
    /\ \/ /\ pending > 0 /\ lock = None /\ queue # <<>>
          /\ Take(t)
          /\ WorkerGoes(t, "spin", "spun")
       \/ WorkerGoes(t, "spin", "lock") /\ UNCHANGED <<queue, hand>>
    /\ UNCHANGED <<lock, workers, idle, pending, seen, latches, spc, batch,
                   spawn, unwound>>

Unidle(t) ==
    /\ WorkerGoes(t, "unidle", "run")
    /\ idle' = idle - 1
    /\ UNCHANGED <<queue, lock, workers, pending, seen, hand, latches, spc,
                   batch, spawn, unwound>>

\* Take a job or wait on ready, without letting go of the mutex in between.
TakeOrPark(t) ==
    /\ lock = None
    /\ \/ /\ queue # <<>>
          /\ Take(t)
          /\ WorkerGoes(t, "lock", "run")
          /\ pending' = pending - 1
          /\ idle' = idle - 1
       \/ /\ queue = <<>>
          /\ WorkerGoes(t, "lock", "parked")
          /\ UNCHANGED <<queue, pending, idle, hand>>
    /\ UNCHANGED <<lock, workers, seen, latches, spc, batch, spawn, unwound>>

\* The job has run, or panicked: either way its guard counts down, and the
\* unwind stops in worker_loop.
Run(t) ==
    /\ WorkerGoes(t, "run", IF left[hand[t]] = 1 THEN "last" ELSE "pop")
    /\ left' = [left EXCEPT ![hand[t]] = @ - 1]
    /\ hand' = IF left[hand[t]] = 1 THEN hand ELSE [hand EXCEPT ![t] = NoJob]
    /\ UNCHANGED <<queue, lock, workers, idle, pending, seen, mu, spc, batch,
                   spawn, unwound>>

\* Mutant: notify_all without taking the mutex first.
LastLockSkipped(t) ==
    /\ WorkerGoes(t, "last", "notify")
    /\ UNCHANGED <<queue, lock, workers, idle, pending, seen, hand, latches, spc, batch,
                   spawn, unwound>>

\* The last job of the batch takes the latch's mutex and drops it.
LastLock(t) ==
    /\ WorkerGoes(t, "last", "notify")
    /\ ~mu[hand[t]]
    /\ UNCHANGED <<queue, lock, workers, idle, pending, seen, hand, latches, spc, batch,
                   spawn, unwound>>

\* notify_all on the latch's done.
LastNotify(t) ==
    /\ WorkerGoes(t, "notify", "pop")
    /\ spc' = [s \in Submitters |->
                  IF spc[s] = "asleep" /\ Latch(s) = hand[t] THEN "lock" ELSE spc[s]]
    /\ hand' = [hand EXCEPT ![t] = NoJob]
    /\ UNCHANGED <<queue, lock, workers, idle, pending, seen, latches, batch,
                   spawn, unwound>>

-----------------------------------------------------------------------------
SubmitterStep(s) ==
    \/ SubmitCount(s) \/ SubmitSpawn(s) \/ SubmitNotify(s)
    \/ OwnShare(s) \/ WaitSpin(s) \/ WaitLock(s) \/ WaitCheck(s) \/ WaitSleep(s)

WorkerStep(t) ==
    \/ Pop(t) \/ PopCounted(t) \/ GoIdle(t) \/ Spin(t) \/ Unidle(t) \/ TakeOrPark(t)
    \/ Run(t) \/ LastLock(t) \/ LastNotify(t)

Next ==
    \/ \E s \in Submitters : SubmitPush(s) \/ SubmitSpawnFails(s) \/ SubmitterStep(s)
    \/ \E t \in Threads : WorkerStep(t)

\* Every thread inside the pool is scheduled and jobs end; nobody has to
\* submit.
Fairness ==
    /\ \A s \in Submitters : WF_vars(SubmitterStep(s))
    /\ \A t \in Threads : WF_vars(WorkerStep(t))

Spec == Init /\ [][Next]_vars /\ Fairness

-----------------------------------------------------------------------------
TypeOK ==
    /\ queue \in Seq(Batches) /\ lock \in Submitters \cup {None}
    /\ workers \in 0..cap /\ idle \in 0..cap /\ pending \in Nat /\ seen \in Nat
    /\ wpc \in [Threads -> WorkerPcs]
    /\ hand \in [Threads -> Batches \cup {NoJob}]
    /\ left \in [Batches -> 0..MaxJobs]
    /\ mu \in [Batches -> BOOLEAN]
    /\ spc \in [Submitters -> SubmitterPcs]
    /\ batch \in [Submitters -> 0..MaxBatches]
    /\ spawn \in [Submitters -> 0..cap]
    /\ unwound \in BOOLEAN

At(pcs) == {t \in Threads : wpc[t] \in pcs}
Queued(l) == {i \in DOMAIN queue : queue[i] = l}
Held(l) == {t \in At({"popped", "spun", "unidle", "run"}) : hand[t] = l}

(***************************************************************************)
(* A latch counts exactly the jobs of its batch that are queued or in a    *)
(* worker's hands: "Each job runs exactly once, panics included".          *)
(***************************************************************************)
LatchExact ==
    \A l \in Batches : left[l] = Cardinality(Queued(l)) + Cardinality(Held(l))

(***************************************************************************)
(* Jobs borrow the submitter's stack: as long as a job of a batch is       *)
(* queued or running its submitter is still inside that batch, unless a    *)
(* failed spawn unwound it (the SAFETY comment of submit).                 *)
(***************************************************************************)
BorrowsLive ==
    \A s \in Submitters, b \in 1..MaxBatches :
        left[<<s, b>>] > 0 =>
            spc[s] = "unwound" \/ (batch[s] = b /\ spc[s] # "idle")

(***************************************************************************)
(* The counters submit reads outside the queue's mutex are true: the       *)
(* workers alive or being spawned, the ones about to look for a job, and   *)
(* the jobs queued, each up to the step under way.                         *)
(***************************************************************************)
CountersTrue ==
    /\ idle = Cardinality(At({"spin", "spun", "unidle", "lock", "parked"}))
    /\ pending = Len(queue) + Cardinality(At({"popped", "spun"}))
    /\ ~unwound => \A s \in Submitters :
          Cardinality(Threads \ At({"unborn"})) + spawn[s] <= workers

(***************************************************************************)
(* pool.rs keeps its books across submits, spins, parks and panics: the    *)
(* workers stay under the cap, the latches are exact, the counters true.   *)
(***************************************************************************)
PoolInv == TypeOK /\ LatchExact /\ CountersTrue

(***************************************************************************)
(* Nobody waits for ever: a batch that was submitted comes back, whoever   *)
(* spins, parks or is woken in between, unless a spawn failed.             *)
(***************************************************************************)
BatchReturns ==
    \A s \in Submitters :
        spc[s] # "idle" ~> (spc[s] = "idle" \/ unwound)
=============================================================================
