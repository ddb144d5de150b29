----------------------------- MODULE MorselRun ------------------------------
(***************************************************************************)
(* A query run over its morsels (zu-exec/src/run.rs drive, Worker::work,   *)
(* StopState) on the worker pool: the submitter and the pool workers its   *)
(* batch got claim morsels off one counter, scan them chunk by chunk, and  *)
(* stop early once the finished prefix of the scan fills a LIMIT, once one *)
(* of them fails, or once the caller interrupts the statement.             *)
(*                                                                         *)
(* A batch of WorkerPool is one query.  Its shape gives the rows of each   *)
(* morsel, one row a chunk, in scan order; what a claimer kept of a morsel *)
(* is always an initial piece of it, so a count stands for the rows.  A    *)
(* query of no morsels stands for the merge jobs of sink.rs and group.rs,  *)
(* which only use the pool.                                                *)
(***************************************************************************)
EXTENDS WorkerPool, SequencesExt

CONSTANTS
    Shapes,  \* per submitter, the morsels its queries can have
    Quotas   \* the rows a query's LIMIT (with its SKIP) needs; NoQuota for none

NoQuota == 1000000
Claimers == Submitters \cup Threads

VARIABLES
    shape,   \* per query, its morsels
    needed,  \* per query, the rows that close its quota
    claim,   \* per query, the morsels claimed
    stop,    \* per query, the early-stop flag
    asked,   \* per query, whether the caller interrupted it
    counts,  \* per query and morsel, the rows a finished morsel kept, or -1
    at,      \* per claimer, the morsel it is on: 0 between two, Done at the end
    local,   \* per claimer, the rows it has of that morsel
    faults   \* per query, whether a worker returned an error, or panicked

query == <<shape, needed, claim, stop, asked, counts, at, local, faults>>
allvars == <<vars, query>>

Done == -1

QueryOf(c) == IF c \in Submitters THEN Latch(c) ELSE hand[c]

\* The claimer is where drive has it run Worker::work.
Working(c) == IF c \in Submitters THEN spc[c] = "own" ELSE wpc[c] = "run"

RunInit ==
    /\ Init
    /\ shape \in {f \in [Batches -> UNION {Shapes[s] : s \in Submitters}] :
                     \A l \in Batches : f[l] \in Shapes[l[1]]}
    /\ needed \in [Batches -> Quotas]
    /\ \A l \in Batches : shape[l] = <<>> => needed[l] = NoQuota
    /\ claim = [l \in Batches |-> 0]
    /\ stop = [l \in Batches |-> FALSE]
    /\ asked = [l \in Batches |-> FALSE]
    /\ counts = [l \in Batches |-> [m \in 1..Len(shape[l]) |-> -1]]
    /\ at = [c \in Claimers |-> 0]
    /\ local = [c \in Claimers |-> 0]
    /\ faults = [l \in Batches |-> {}]

-----------------------------------------------------------------------------
(* StopState *)

Stopped(q) == stop[q] \/ asked[q]

\* The contiguous run of finished morsels, and its rows.
Prefix(cs) == CHOOSE p \in 0..Len(cs) :
    /\ \A m \in 1..p : cs[m] >= 0
    /\ p < Len(cs) => cs[p + 1] < 0

RowsOf(cs) == FoldLeft(LAMBDA sum, n : sum + n, 0, cs)

PrefixRows(cs) == RowsOf(SubSeq(cs, 1, Prefix(cs)))

\* Mutant: every finished morsel counts towards the quota.
QuotaFilledAnywhere(q, cs) == RowsOf([m \in 1..Len(cs) |-> IF cs[m] < 0 THEN 0 ELSE cs[m]])
                                  >= needed[q]

\* morsel_done's test, with the morsel recorded.
QuotaFilled(q, cs) == PrefixRows(cs) >= needed[q]

\* quota_met: this worker heads the prefix and its rows close the quota.
QuotaMet(q, m, rows) ==
    /\ Prefix(counts[q]) = m - 1
    /\ PrefixRows(counts[q]) + rows >= needed[q]

-----------------------------------------------------------------------------
(* Worker::work *)

\* fetch_add on the claim counter, then the stop flag.
Claim(c) ==
    LET q == QueryOf(c)
        m == claim[q] + 1
    IN  /\ Working(c) /\ at[c] = 0
        /\ claim' = [claim EXCEPT ![q] = IF m > Len(shape[q]) THEN @ ELSE m]
        /\ at' = [at EXCEPT ![c] = IF m > Len(shape[q]) \/ Stopped(q) THEN Done ELSE m]
        /\ local' = [local EXCEPT ![c] = 0]
        /\ UNCHANGED <<vars, shape, needed, stop, asked, counts, faults>>

\* The morsel has nothing more for this worker to do.
MorselOver(q, m, rows) == Stopped(q) \/ rows = shape[q][m] \/ (rows > 0 /\ QuotaMet(q, m, rows))

\* One chunk of the morsel.
Chunk(c) ==
    LET q == QueryOf(c)
    IN  /\ Working(c) /\ at[c] > 0
        /\ ~MorselOver(q, at[c], local[c])
        /\ local' = [local EXCEPT ![c] = @ + 1]
        /\ UNCHANGED <<vars, shape, needed, claim, stop, asked, counts, at, faults>>

\* The batch is kept, and morsel_done records it.
MorselDone(c) ==
    LET q == QueryOf(c)
        cs == [counts[q] EXCEPT ![at[c]] = local[c]]
    IN  /\ Working(c) /\ at[c] > 0
        /\ MorselOver(q, at[c], local[c])
        /\ counts' = [counts EXCEPT ![q] = cs]
        /\ stop' = [stop EXCEPT ![q] = @ \/ QuotaFilled(q, cs)]
        /\ at' = [at EXCEPT ![c] = 0]
        /\ UNCHANGED <<vars, shape, needed, claim, asked, local, faults>>

\* run_morsel returns an error: the others are told to stop.
MorselFails(c) ==
    LET q == QueryOf(c)
    IN  /\ Working(c) /\ at[c] > 0
        /\ stop' = [stop EXCEPT ![q] = TRUE]
        /\ faults' = [faults EXCEPT ![q] = @ \cup {"error"}]
        /\ at' = [at EXCEPT ![c] = Done]
        /\ UNCHANGED <<vars, shape, needed, claim, asked, counts, local>>

\* A panic unwinds the worker; nobody else is told.
MorselPanics(c) ==
    LET q == QueryOf(c)
    IN  /\ Working(c) /\ at[c] > 0
        /\ faults' = [faults EXCEPT ![q] = @ \cup {"panic"}]
        /\ at' = [at EXCEPT ![c] = Done]
        /\ UNCHANGED <<vars, shape, needed, claim, stop, asked, counts, local>>

\* Another thread raises the statement's interrupt.
Interrupt(s) ==
    /\ spc[s] \notin {"idle", "unwound"}
    /\ shape[Latch(s)] # <<>>
    /\ asked' = [asked EXCEPT ![Latch(s)] = TRUE]
    /\ UNCHANGED <<vars, shape, needed, claim, stop, counts, at, local, faults>>

\* The claimer's work is over: the pool takes it from here.
WorkEnds(c) ==
    /\ at[c] = Done
    /\ IF c \in Submitters THEN OwnShare(c) ELSE Run(c)
    /\ at' = [at EXCEPT ![c] = 0]
    /\ UNCHANGED <<shape, needed, claim, stop, asked, counts, local, faults>>

-----------------------------------------------------------------------------
PoolSubmitterStep(s) ==
    \/ SubmitCount(s) \/ SubmitSpawn(s) \/ SubmitNotify(s)
    \/ WaitSpin(s) \/ WaitLock(s) \/ WaitCheck(s) \/ WaitSleep(s)

PoolWorkerStep(t) ==
    \/ Pop(t) \/ PopCounted(t) \/ GoIdle(t) \/ Spin(t) \/ Unidle(t) \/ TakeOrPark(t)
    \/ LastLock(t) \/ LastNotify(t)

WorkStep(c) == Claim(c) \/ Chunk(c) \/ MorselDone(c) \/ WorkEnds(c)

RunNext ==
    \/ \E s \in Submitters :
          /\ SubmitPush(s) \/ SubmitSpawnFails(s) \/ PoolSubmitterStep(s)
          /\ UNCHANGED query
    \/ \E t \in Threads : PoolWorkerStep(t) /\ UNCHANGED query
    \/ \E c \in Claimers : WorkStep(c) \/ MorselFails(c) \/ MorselPanics(c)
    \/ \E s \in Submitters : Interrupt(s)

RunSpec == RunInit /\ [][RunNext]_allvars

-----------------------------------------------------------------------------
\* drive: an error or an empty slot ends the query without an answer.
Driven(q) == faults[q] = {}

\* run asks for the interrupt once more, before anything is assembled.
Answers(q) == Driven(q) /\ ~asked[q]

\* The rows of the first batches, in morsel order, cut at the quota: each
\* row is named by its morsel and its place in it.
Stitched(cs) == FoldLeft(LAMBDA rows, m : rows \o [i \in 1..cs[m] |-> <<m, i>>], <<>>,
                         [m \in 1..Len(cs) |-> m])
Limited(rows, n) == IF Len(rows) <= n THEN rows ELSE SubSeq(rows, 1, n)

Kept(cs) == [m \in 1..Len(cs) |-> IF cs[m] < 0 THEN 0 ELSE cs[m]]

(***************************************************************************)
(* A query that answers gives the rows one worker walking the scan would   *)
(* have given: no claim order, early stop or panic loses or reorders any   *)
(* ("the parallel answer is the sequential one either way").               *)
(***************************************************************************)
AnswerIsSequential ==
    \A s \in Submitters :
        (spc[s] = "idle" /\ batch[s] > 0 /\ Answers(Latch(s))) =>
            LET q == Latch(s)
            IN  Limited(Stitched(Kept(counts[q])), needed[q])
                    = Limited(Stitched(shape[q]), needed[q])
=============================================================================
