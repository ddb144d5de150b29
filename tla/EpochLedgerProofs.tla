------------------------- MODULE EpochLedgerProofs -------------------------
(* Proof that no checkpoint reclaims past a held pin, for every number of  *)
(* reader slots and every bound on the epochs.                             *)
EXTENDS EpochLedger, TLAPS

(* The initial ledger of EpochLedger::new satisfies the invariant. *)
LEMMA InitIInv == Init => IInv
BY SlotsAssumption, EpochAssumption
   DEF Init, IInv, TypeOK, Slot, Epoch, EMPTY

(* A step of a reader's pin or unpin preserves the invariant: a pin that   *)
(* completes is at the committed epoch, which bounds horizon and reclaimed.*)
LEMMA ReaderIInv ==
  ASSUME IInv, NEW s \in Slot, Reader(s)
  PROVE  IInv'
<1> USE SlotsAssumption, EpochAssumption DEF Slot, Epoch, EMPTY
<1>1. TypeOK'
  <2>1. CASE PinStart(s)
    BY <2>1 DEF PinStart, IInv, TypeOK, writerVars
  <2>2. CASE PinLoad(s)
    BY <2>2 DEF PinLoad, IInv, TypeOK, writerVars
  <2>3. CASE PinStore(s)
    BY <2>3 DEF PinStore, IInv, TypeOK, writerVars
  <2>4. CASE PinCheck(s)
    BY <2>4 DEF PinCheck, IInv, TypeOK, writerVars
  <2>5. CASE Unpin(s)
    BY <2>5 DEF Unpin, IInv, TypeOK, writerVars
  <2>6. QED BY <2>1, <2>2, <2>3, <2>4, <2>5 DEF Reader
<1>2. (reclaimed <= committed /\ horizon <= committed)'
  BY DEF Reader, PinStart, PinLoad, PinStore, PinCheck, Unpin, IInv, writerVars
<1>3. ASSUME NEW t \in Slot
      PROVE  (/\ rpc[t] \in {"check", "held"} => slots[t] = local[t]
              /\ rpc[t] = "held" =>
                   /\ local[t] >= reclaimed
                   /\ (wpc = "scan" /\ t < next) => horizon <= local[t])'
  <2>1. CASE PinStart(s)
    BY <2>1 DEF PinStart, IInv, TypeOK, writerVars
  <2>2. CASE PinLoad(s)
    BY <2>2 DEF PinLoad, IInv, TypeOK, writerVars
  <2>3. CASE PinStore(s)
    BY <2>3 DEF PinStore, IInv, TypeOK, writerVars
  <2>4. CASE PinCheck(s)
    BY <2>4 DEF PinCheck, IInv, TypeOK, writerVars
  <2>5. CASE Unpin(s)
    BY <2>5 DEF Unpin, IInv, TypeOK, writerVars
  <2>6. QED BY <2>1, <2>2, <2>3, <2>4, <2>5 DEF Reader
<1>4. QED BY <1>1, <1>2, <1>3 DEF IInv

(* Advancing the committed epoch, scanning and returning a horizon         *)
(* preserve the invariant.                                                 *)
LEMMA WriterIInv ==
  ASSUME IInv, Writer
  PROVE  IInv'
<1> USE SlotsAssumption, EpochAssumption DEF Slot, Epoch, EMPTY
<1>1. ASSUME NEW e \in Epoch, Advance(e)
      PROVE  IInv'
  BY <1>1 DEF Advance, IInv, TypeOK, readerVars, writerVars
<1>2. CASE HorizonStart
  BY <1>2 DEF HorizonStart, IInv, TypeOK, readerVars
<1>3. CASE HorizonScan
  <2>1. horizon' \in Epoch /\ horizon' <= horizon
    BY <1>3 DEF HorizonScan, IInv, TypeOK
  <2>2. TypeOK'
    BY <1>3, <2>1 DEF HorizonScan, IInv, TypeOK, readerVars
  <2>3. ASSUME NEW s \in Slot, rpc[s] = "held", s < next'
        PROVE  horizon' <= local[s]
    <3>1. CASE s = next
      BY <1>3, <2>3, <3>1 DEF HorizonScan, IInv, TypeOK
    <3>2. CASE s < next
      BY <1>3, <2>1, <2>3, <3>2 DEF HorizonScan, IInv, TypeOK
    <3>3. QED BY <1>3, <2>3, <3>1, <3>2 DEF HorizonScan, IInv, TypeOK
  <2>4. QED
    BY <1>3, <2>1, <2>2, <2>3 DEF HorizonScan, IInv, TypeOK, readerVars
<1>4. CASE HorizonReturn
  BY <1>4 DEF HorizonReturn, IInv, TypeOK, readerVars
<1>5. QED BY <1>1, <1>2, <1>3, <1>4 DEF Writer

(* The inductive invariant of the ledger: a scanned slot's pin bounds the  *)
(* running horizon (epoch.rs, horizon) and a completed pin equals its slot.*)
THEOREM LedgerInvariant == Spec => []IInv
<1>1. IInv /\ [Next]_vars => IInv'
  <2> SUFFICES ASSUME IInv, [Next]_vars PROVE IInv'
    OBVIOUS
  <2>1. ASSUME NEW s \in Slot, Reader(s) PROVE IInv'
    BY <2>1, ReaderIInv
  <2>2. CASE Writer
    BY <2>2, WriterIInv
  <2>3. CASE UNCHANGED vars
    BY <2>3 DEF vars, IInv, TypeOK
  <2>4. QED BY <2>1, <2>2, <2>3 DEF Next
<1>2. QED BY InitIInv, <1>1, PTL DEF Spec

(* epoch.rs, pin: the returned epoch is never below a horizon the writer   *)
(* computed and a checkpoint acted on.                                     *)
THEOREM PinSafety == Spec => []HeldPinNotReclaimed
<1>1. IInv => HeldPinNotReclaimed
  BY DEF IInv, HeldPinNotReclaimed
<1>2. QED BY LedgerInvariant, <1>1, PTL
============================================================================
