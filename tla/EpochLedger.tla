---------------------------- MODULE EpochLedger ----------------------------
(***************************************************************************)
(* The snapshot epoch ledger of zu-zu1/src/epoch.rs: readers pin the       *)
(* committed epoch into a slot, the writer advances it and asks for the    *)
(* horizon below which a checkpoint may reclaim.                           *)
(*                                                                         *)
(* Every atomic access is a step of its own, so all interleavings of the   *)
(* store-then-re-read loop of `pin` with the publish-then-scan of          *)
(* `horizon` are reached.  All accesses are SeqCst, hence one total order; *)
(* the fences add nothing to an interleaving and have no step.             *)
(***************************************************************************)
EXTENDS Naturals

CONSTANTS
  READER_SLOTS,   \* number of reader slots; slot numbers are 0..READER_SLOTS-1
  MaxEpoch        \* bound: the writer commits no epoch above this one

ASSUME SlotsAssumption == READER_SLOTS \in Nat
ASSUME EpochAssumption == MaxEpoch \in Nat

VARIABLES
  committed,   \* the ledger's committed epoch
  slots,       \* the ledger's pin slots, EMPTY when unpinned
  rpc,         \* where each reader is: "idle", "load", "store", "check", "held"
  local,       \* the epoch the reader loaded last (`epoch` in pin)
  wpc,         \* where the writer is: "idle" or "scan"
  next,        \* first slot the writer's horizon scan has not loaded yet
  horizon,     \* the scan's running minimum
  reclaimed    \* the highest horizon a checkpoint has acted on

vars == <<committed, slots, rpc, local, wpc, next, horizon, reclaimed>>
readerVars == <<rpc, local>>
writerVars == <<wpc, next, horizon, reclaimed>>

Slot == 0 .. READER_SLOTS - 1
EMPTY == MaxEpoch + 1      \* u64::MAX: above every epoch
Epoch == 0 .. MaxEpoch

TypeOK ==
  /\ committed \in Epoch
  /\ slots \in [Slot -> Epoch \cup {EMPTY}]
  /\ rpc \in [Slot -> {"idle", "load", "store", "check", "held"}]
  /\ local \in [Slot -> Epoch]
  /\ wpc \in {"idle", "scan"}
  /\ next \in 0 .. READER_SLOTS
  /\ horizon \in Epoch
  /\ reclaimed \in Epoch

Init ==
  /\ committed = 0
  /\ slots = [s \in Slot |-> EMPTY]
  /\ rpc = [s \in Slot |-> "idle"]
  /\ local = [s \in Slot |-> 0]
  /\ wpc = "idle"
  /\ next = 0
  /\ horizon = 0
  /\ reclaimed = 0

---------------------------------------------------------------------------
(* The reader: pin(slot) is PinStart, PinLoad, PinStore, PinCheck, the     *)
(* last of which returns or goes round again; unpin(slot) is Unpin.        *)

PinStart(s) ==
  /\ rpc[s] = "idle"
  /\ rpc' = [rpc EXCEPT ![s] = "load"]
  /\ UNCHANGED <<committed, slots, local, writerVars>>

PinLoad(s) ==
  /\ rpc[s] = "load"
  /\ local' = [local EXCEPT ![s] = committed]
  /\ rpc' = [rpc EXCEPT ![s] = "store"]
  /\ UNCHANGED <<committed, slots, writerVars>>

PinStore(s) ==
  /\ rpc[s] = "store"
  /\ slots' = [slots EXCEPT ![s] = local[s]]
  /\ rpc' = [rpc EXCEPT ![s] = "check"]
  /\ UNCHANGED <<committed, local, writerVars>>

\* Mutant: pin without the re-read, so the first store is trusted.
PinCheckNoReread(s) ==
  /\ rpc[s] = "check"
  /\ rpc' = [rpc EXCEPT ![s] = "held"]
  /\ UNCHANGED <<committed, slots, local, writerVars>>

\* Mutant: a retry that stores again the epoch it loaded first.
PinCheckStaleRetry(s) ==
  /\ rpc[s] = "check"
  /\ rpc' = [rpc EXCEPT ![s] = IF committed = local[s] THEN "held" ELSE "store"]
  /\ UNCHANGED <<committed, slots, local, writerVars>>

PinCheck(s) ==
  /\ rpc[s] = "check"
  /\ rpc' = [rpc EXCEPT ![s] = IF committed = local[s] THEN "held" ELSE "load"]
  /\ UNCHANGED <<committed, slots, local, writerVars>>

Unpin(s) ==
  /\ rpc[s] = "held"
  /\ slots' = [slots EXCEPT ![s] = EMPTY]
  /\ rpc' = [rpc EXCEPT ![s] = "idle"]
  /\ UNCHANGED <<committed, local, writerVars>>

(* The writer thread: advance between scans, and horizon as a load of the  *)
(* committed epoch followed by one load per slot in slot order.            *)

Advance(e) ==
  /\ wpc = "idle"
  /\ e > committed
  /\ committed' = e
  /\ UNCHANGED <<slots, readerVars, writerVars>>

HorizonStart ==
  /\ wpc = "idle"
  /\ wpc' = "scan"
  /\ horizon' = committed
  /\ next' = 0
  /\ UNCHANGED <<committed, slots, readerVars, reclaimed>>

HorizonScan ==
  /\ wpc = "scan"
  /\ next < READER_SLOTS
  /\ horizon' = IF slots[next] # EMPTY /\ slots[next] < horizon
                THEN slots[next] ELSE horizon
  /\ next' = next + 1
  /\ UNCHANGED <<committed, slots, readerVars, wpc, reclaimed>>

\* horizon returns and the checkpoint reclaims everything below it; what an
\* earlier checkpoint reclaimed stays reclaimed.
HorizonReturn ==
  /\ wpc = "scan"
  /\ next = READER_SLOTS
  /\ wpc' = "idle"
  /\ reclaimed' = IF horizon > reclaimed THEN horizon ELSE reclaimed
  /\ UNCHANGED <<committed, slots, readerVars, next, horizon>>

Reader(s) == PinStart(s) \/ PinLoad(s) \/ PinStore(s) \/ PinCheck(s) \/ Unpin(s)
Writer == (\E e \in Epoch : Advance(e)) \/ HorizonStart \/ HorizonScan \/ HorizonReturn

Next == (\E s \in Slot : Reader(s)) \/ Writer

Spec == Init /\ [][Next]_vars

\* A reader inside pin keeps running, and so does a scan that began.  Nothing
\* obliges a reader to unpin or the writer to commit.
FairSpec ==
  /\ Spec
  /\ \A s \in Slot : WF_vars(PinLoad(s) \/ PinStore(s) \/ PinCheck(s))
  /\ WF_vars(HorizonScan \/ HorizonReturn)

---------------------------------------------------------------------------
(* Properties. *)

(* epoch.rs, pin: "The returned epoch is never below a horizon the writer  *)
(* computes."  A snapshot a reader holds is never below what a checkpoint  *)
(* has reclaimed, whatever the interleaving of its store and re-read with  *)
(* the scan.                                                               *)
HeldPinNotReclaimed ==
  \A s \in Slot : rpc[s] = "held" => local[s] >= reclaimed

(* What makes it inductive: a completed scan prefix already respects every *)
(* pin held in it, and a pin that completes during a scan is at the        *)
(* committed epoch, which no scan exceeds.                                 *)
IInv ==
  /\ TypeOK
  /\ reclaimed <= committed
  /\ horizon <= committed
  /\ \A s \in Slot : rpc[s] \in {"check", "held"} => slots[s] = local[s]
  /\ \A s \in Slot : rpc[s] = "held" =>
       /\ local[s] >= reclaimed
       /\ (wpc = "scan" /\ s < next) => horizon <= local[s]

(* epoch.rs, pin: the retry loop ends once the writer stops committing,    *)
(* so a reader is not livelocked by the scans, only by commits.            *)
PinReturns ==
  \A s \in Slot : rpc[s] = "load" ~> (rpc[s] = "held")
============================================================================
