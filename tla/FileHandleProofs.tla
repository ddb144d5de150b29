-------------------------- MODULE FileHandleProofs --------------------------
(* Proofs about the shared write side, for any number of connections,      *)
(* statements and commits: the side is in one place, nobody in line is     *)
(* forgotten, the line is served in order, what is shown is durable, never *)
(* goes backwards, and holds every statement that was answered.            *)
EXTENDS FileHandle, SequenceTheorems, TLAPS

(* A file just attached: the side at home and nobody waiting. *)
LEMMA InitIInv == Init => IInv
<1> SUFFICES ASSUME Init PROVE IInv
  OBVIOUS
<1>1. <<>> \in Seq(Session) /\ DOMAIN <<>> = {}
  BY EmptySeq
<1>2. TypeOK
  BY <1>1 DEF Init, TypeOK, PcValues, NoPending
<1>3. OneSide
  BY DEF Init, OneSide, Has, Holds
<1>4. LineInv
  BY <1>1 DEF Init, LineInv, Has, Holds
<1>5. StateInv
  BY DEF Init, StateInv, Pends, NoPending
<1>6. QED BY <1>2, <1>3, <1>4, <1>5 DEF IInv

(* Appending to a line keeps its head, and the tail of the longer line is  *)
(* the longer tail.                                                        *)
LEMMA AppendLine ==
  ASSUME NEW q \in Seq(Session), q # <<>>, NEW s \in Session
  PROVE  /\ Append(q, s) # <<>>
         /\ Head(Append(q, s)) = Head(q)
         /\ Tail(Append(q, s)) = Append(Tail(q), s)
BY HeadTailProperties, AppendProperties

(* Every step keeps the variables in their types. *)
LEMMA TypeStep ==
  ASSUME IInv, NEW s \in Session, Gate(s) \/ Entry(s) \/ Write(s) \/ Answer(s)
  PROVE  TypeOK'
<1> USE DEF IInv, gateVars, PcValues
<1>1. CASE TakeNow(s)
  BY <1>1 DEF TakeNow, TypeOK
<1>2. CASE TakeLater(s)
  BY <1>2, AppendProperties DEF TakeLater, TypeOK
<1>3. CASE TakeFilled(s)
  <2>1. Head(line) = s /\ line # <<>>
    BY <1>3 DEF TakeFilled, LineInv, OneSide, Has, TypeOK
  <2>2. Tail(line) \in Seq(Session)
    BY <2>1, HeadTailProperties DEF TypeOK
  <2>3. QED BY <1>3, <2>1, <2>2 DEF TakeFilled, Unqueued, TypeOK
<1>4. CASE Put(s)
  <2>1. waiting # <<>> => Head(waiting) \in Session /\ Tail(waiting) \in Seq(Session)
    BY HeadTailProperties DEF TypeOK
  <2>2. QED BY <1>4, <2>1 DEF Put, AfterPut, TypeOK
<1>5. CASE PutFill(s)
  BY <1>5 DEF PutFill, TypeOK
<1>6. CASE Write(s)
  <2>1. CASE WriteStaged(s)
    BY <2>1 DEF WriteStaged, TypeOK
  <2>2. CASE WriteCheckpoint(s)
    BY <2>2 DEF WriteCheckpoint, TypeOK
  <2>3. CASE WriteNothing(s)
    BY <2>3 DEF WriteNothing, TypeOK
  <2>4. QED BY <1>6, <2>1, <2>2, <2>3 DEF Write
<1>7. CASE StageSide(s)
  BY <1>7 DEF StageSide, TypeOK, Settled
<1>8. CASE Sync(s)
  BY <1>8 DEF Sync, TypeOK
<1>9. CASE SyncFails(s)
  BY <1>9 DEF SyncFails, TypeOK, NoPending
<1>10. CASE Publish(s)
  BY <1>10 DEF Publish, TypeOK, NoPending
<1>11. CASE Finish(s)
  BY <1>11 DEF Finish, TypeOK
<1>12. CASE EnterSyncFails(s)
  BY <1>12 DEF EnterSyncFails, Share, TypeOK
<1>13. CASE Drop(s)
  BY <1>13 DEF Drop, TypeOK
<1>14. CASE Entry(s)
  <2>1. CASE Enter(s)
    BY <2>1 DEF Enter, Share, TypeOK
  <2>2. CASE EnterFails(s)
    BY <2>2 DEF EnterFails, TypeOK
  <2>3. CASE Reenter(s)
    BY <2>3 DEF Reenter, TypeOK
  <2>4. CASE LeaveKept(s)
    BY <2>4 DEF LeaveKept, AfterPut, TypeOK
  <2>5. QED BY <1>14, <2>1, <2>2, <2>3, <2>4 DEF Entry
<1>15. CASE FileMut(s)
  BY <1>15 DEF FileMut, TypeOK
<1>16. QED BY <1>1, <1>2, <1>3, <1>4, <1>5, <1>6, <1>7, <1>8, <1>9, <1>10, <1>11,
              <1>12, <1>13, <1>14, <1>15 DEF Gate, Answer

(* A step outside the gate moves a session that is neither waiting nor     *)
(* handed the side, and leaves who holds it alone.                         *)
LEMMA OutsideStep ==
  ASSUME IInv, NEW s \in Session, Entry(s) \/ Write(s) \/ Answer(s)
  PROVE  /\ UNCHANGED gateVars
         /\ \A t \in Session : Holds(t)' <=> Holds(t)
         /\ \A t \in Session : pc'[t] = "waiting" <=> pc[t] = "waiting"
         /\ \A t \in keeps : pc'[t] \notin {"waiting", "taken", "failed"}
<1>0. pc \in [Session -> PcValues] /\ keeps \subseteq Session
      /\ \A t \in keeps : pc[t] \notin {"waiting", "taken", "failed"}
  BY DEF IInv, TypeOK, LineInv
<1>1. CASE Entry(s)
  BY <1>0, <1>1 DEF Entry, Enter, EnterFails, Reenter, LeaveKept, AfterPut, Holds, gateVars,
                    PcValues
<1>2. CASE Write(s)
  BY <1>0, <1>2 DEF Write, WriteStaged, WriteCheckpoint, WriteNothing, Holds, gateVars, PcValues
<1>3. CASE Answer(s)
  BY <1>0, <1>3 DEF Answer, StageSide, Sync, SyncFails, Publish, Finish, Holds, gateVars,
                    PcValues
<1>4. QED BY <1>1, <1>2, <1>3

(* The gate keeps the side in one place, and the line true. *)
LEMMA GateStep ==
  ASSUME IInv, NEW s \in Session, Gate(s) \/ Entry(s) \/ Write(s) \/ Answer(s)
  PROVE  OneSide' /\ LineInv'
<1> USE DEF IInv
<1>0. /\ pc \in [Session -> PcValues] /\ popped \subseteq Session /\ filled \subseteq Session
      /\ keeps \subseteq Session /\ waiting \in Seq(Session) /\ line \in Seq(Session)
  BY DEF TypeOK
<1>1. CASE TakeNow(s)
  BY <1>0, <1>1 DEF TakeNow, OneSide, LineInv, Has, Holds
<1>2. CASE TakeLater(s)
  <2>1. OneSide'
    BY <1>0, <1>2 DEF TakeLater, OneSide, Has, Holds
  <2>2. LineInv'
    <3>1. /\ ~home /\ home' = home /\ popped' = popped /\ filled' = filled
          /\ keeps' = keeps /\ s \notin keeps
      BY <1>2 DEF TakeLater, LineInv
    <3>2. \A t \in Session : (t # s => pc'[t] = pc[t]) /\ pc'[s] = "waiting" /\ pc[s] = "idle"
      BY <1>0, <1>2 DEF TakeLater
    <3>3. \A t \in Session : Has(t)' <=> Has(t)
      BY <3>1, <3>2 DEF Has, Holds
    <3>4. /\ DOMAIN waiting = 1 .. Len(waiting) /\ Len(waiting) \in Nat
          /\ waiting' \in Seq(Session) /\ DOMAIN waiting' = 1 .. Len(waiting) + 1
          /\ \A i \in 1 .. Len(waiting) : waiting'[i] = waiting[i] /\ waiting[i] \in Session
          /\ waiting'[Len(waiting) + 1] = s
      BY <1>0, <1>2, AppendProperties, LenProperties DEF TakeLater
    <3>5. ~Has(s)
      BY <1>0, <3>1, <3>2 DEF LineInv, Has, Holds
    <3>6. \A i \in DOMAIN waiting : waiting[i] # s
      BY <3>2 DEF LineInv
    <3>7. (\A i \in DOMAIN waiting : pc[waiting[i]] = "waiting" /\ ~Has(waiting[i]))'
      <4> SUFFICES ASSUME NEW i \in DOMAIN waiting', NEW x \in Session, x = waiting'[i]
                   PROVE  pc'[x] = "waiting" /\ ~Has(x)'
        BY <3>4
      <4>1. CASE i \in 1 .. Len(waiting)
        <5>1. x = waiting[i] /\ x # s
          BY <3>4, <3>6, <4>1
        <5>2. pc[x] = "waiting" /\ ~Has(x)
          BY <3>4, <4>1, <5>1 DEF LineInv
        <5>3. QED BY <3>2, <3>3, <5>1, <5>2
      <4>2. CASE i = Len(waiting) + 1
        BY <3>2, <3>3, <3>4, <3>5, <4>2
      <4>3. QED BY <3>4, <4>1, <4>2
    <3>8. \A i, j \in DOMAIN waiting' : waiting'[i] = waiting'[j] => i = j
      BY <3>4, <3>6 DEF LineInv
    <3>9. \A t \in Session : pc'[t] = "waiting" =>
            Has(t)' \/ \E i \in DOMAIN waiting' : waiting'[i] = t
      BY <3>2, <3>3, <3>4 DEF LineInv
    <3>10. \A t \in popped' \cup filled' : pc'[t] = "waiting"
      BY <1>0, <3>1, <3>2 DEF LineInv
    <3>11. /\ popped' \cup filled' = {} => line' = waiting'
           /\ popped' \cup filled' # {} =>
                line' # <<>> /\ Head(line') \in popped' \cup filled' /\ Tail(line') = waiting'
      BY <1>0, <1>2, <3>1, AppendLine DEF TakeLater, LineInv
    <3>12. \A t \in keeps' : pc'[t] \notin {"waiting", "taken", "failed"}
      BY <1>0, <3>1, <3>2 DEF LineInv
    <3>13. QED BY <3>1, <3>7, <3>8, <3>9, <3>10, <3>11, <3>12 DEF LineInv
  <2>3. QED BY <2>1, <2>2
<1>3. CASE TakeFilled(s)
  <2>1. s \in filled /\ s \notin popped /\ \A t \in popped \cup filled : t = s
    BY <1>0, <1>3 DEF TakeFilled, OneSide, Has
  <2>2. Head(line) = s /\ line # <<>> /\ popped = {} /\ filled = {s}
    BY <2>1 DEF LineInv
  <2>3. OneSide'
    BY <1>0, <1>3, <2>2 DEF TakeFilled, OneSide, Has, Holds
  <2>4. LineInv'
    BY <1>0, <1>3, <2>2 DEF TakeFilled, Unqueued, OneSide, LineInv, Has, Holds
  <2>5. QED BY <2>3, <2>4
<1>4. CASE Put(s)
  <2>1. popped = {} /\ filled = {} /\ keeps = {} /\ keeps' = {}
    BY <1>0, <1>4 DEF Put, Putting, OneSide, Has, Holds
  <2>2. CASE waiting = <<>>
    <3>1. home' /\ popped' = {} /\ filled' = {} /\ waiting' = <<>> /\ line' = line
      BY <1>4, <2>1, <2>2 DEF Put
    <3>2. \A t \in Session : ~Has(t)'
      BY <1>0, <1>4, <3>1 DEF Put, Putting, AfterPut, OneSide, Has, Holds
    <3>3. QED BY <1>0, <1>4, <2>1, <2>2, <3>1, <3>2
              DEF Put, Putting, AfterPut, OneSide, LineInv, Has, Holds
  <2>3. CASE waiting # <<>>
    <3>1. PICK h \in Session : h = Head(waiting) /\ h = waiting[1] /\ 1 \in DOMAIN waiting
      BY <1>0, <2>3, HeadTailProperties
    <3>2. OneSide'
      BY <1>0, <1>4, <2>1, <2>3, <3>1 DEF Put, Putting, AfterPut, OneSide, LineInv, Has, Holds
    <3>3. LineInv'
      <4>1. /\ ~home' /\ popped' = {h} /\ filled' = {} /\ line' = line
            /\ waiting' = Tail(waiting) /\ line = waiting
        BY <1>0, <1>4, <2>1, <2>3, <3>1 DEF Put, Putting, LineInv
      <4>2. \A t \in Session : /\ t # s => pc'[t] = pc[t]
                             /\ pc'[s] \in {"wait", "idle"} /\ pc[s] \in {"put", "failed"}
        BY <1>0, <1>4 DEF Put, Putting, AfterPut
      <4>3. \A t \in Session : Has(t)' <=> t = h
        BY <1>0, <2>1, <3>1, <4>1, <4>2 DEF OneSide, LineInv, Has, Holds
      <4>4. /\ DOMAIN waiting = 1 .. Len(waiting) /\ Len(waiting) \in Nat
            /\ DOMAIN waiting' = 1 .. Len(waiting) - 1
            /\ \A i \in 1 .. Len(waiting) - 1 : waiting'[i] = waiting[i + 1]
            /\ \A i \in 1 .. Len(waiting) : waiting[i] \in Session
        BY <1>0, <2>3, <4>1, HeadTailProperties, LenProperties
      <4>5. ASSUME NEW i \in DOMAIN waiting', NEW x \in Session, x = waiting'[i]
            PROVE  pc'[x] = "waiting" /\ ~Has(x)'
        <5>1. i + 1 \in DOMAIN waiting /\ x = waiting[i + 1] /\ i + 1 # 1
          BY <4>4, <4>5
        <5>2. x # h /\ pc[x] = "waiting"
          BY <3>1, <5>1 DEF LineInv
        <5>3. QED BY <4>2, <4>3, <5>2
      <4>6. (\A i \in DOMAIN waiting : pc[waiting[i]] = "waiting" /\ ~Has(waiting[i]))'
        <5>1. \A i \in DOMAIN waiting' : waiting'[i] \in Session
          BY <4>4
        <5>2. QED BY <4>5, <5>1
      <4>7. \A i, j \in DOMAIN waiting' : waiting'[i] = waiting'[j] => i = j
        <5>1. \A i, j \in DOMAIN waiting : waiting[i] = waiting[j] => i = j
          BY DEF LineInv
        <5>2. QED BY <4>4, <5>1
      <4>8. pc'[h] = "waiting"
        BY <3>1, <4>2 DEF LineInv
      <4>9. ASSUME NEW t \in Session, pc'[t] = "waiting"
            PROVE  Has(t)' \/ \E i \in DOMAIN waiting' : waiting'[i] = t
        <5>1. pc[t] = "waiting" /\ ~Has(t)
          BY <1>0, <2>1, <4>2, <4>9 DEF Has, Holds
        <5>2. PICK i \in DOMAIN waiting : waiting[i] = t
          BY <5>1 DEF LineInv
        <5>3. CASE i = 1
          BY <3>1, <4>3, <5>2, <5>3
        <5>4. CASE i # 1
          <6>1. i - 1 \in DOMAIN waiting' /\ waiting'[i - 1] = t
            BY <4>4, <5>2, <5>4
          <6>2. QED BY <6>1
        <5>5. QED BY <5>3, <5>4
      <4>10. QED BY <2>1, <2>3, <3>1, <4>1, <4>6, <4>7, <4>8, <4>9 DEF LineInv
    <3>4. QED BY <3>2, <3>3
  <2>4. QED BY <2>2, <2>3
<1>5. CASE PutFill(s)
  <2>1. s \in popped /\ s \notin filled /\ popped = {s} /\ filled = {}
    BY <1>0, <1>5 DEF PutFill, OneSide, Has
  <2>2. popped' = {} /\ filled' = {s} /\ UNCHANGED <<home, waiting, keeps, line, pc>>
    BY <1>5, <2>1 DEF PutFill
  <2>3. QED BY <1>0, <2>1, <2>2 DEF OneSide, LineInv, Has, Holds
<1>6. CASE Entry(s) \/ Write(s) \/ Answer(s)
  BY <1>0, <1>6, OutsideStep DEF OneSide, LineInv, Has, gateVars
<1>7. CASE EnterSyncFails(s)
  BY <1>0, <1>7 DEF EnterSyncFails, OneSide, LineInv, Has, Holds
<1>8. CASE Drop(s)
  BY <1>0, <1>8 DEF Drop, OneSide, LineInv, Has, Holds
<1>9. CASE FileMut(s)
  BY <1>0, <1>9 DEF FileMut, OneSide, LineInv, Has, Holds
<1>10. QED BY <1>1, <1>2, <1>3, <1>4, <1>5, <1>6, <1>7, <1>8, <1>9 DEF Gate

(* The states: one case per action that moves a state, a debt or a stamp.  *)
LEMMA StateStep ==
  ASSUME IInv, NEW s \in Session, Gate(s) \/ Entry(s) \/ Write(s) \/ Answer(s)
  PROVE  StateInv'
<1> USE DEF IInv
<1>0. /\ pc \in [Session -> PcValues] /\ end \in Nat /\ durable \in Nat /\ stamps \in Nat
      /\ shown \in [state : Nat, stamp : Nat]
      /\ pending \in [Session -> [state : Nat, stamp : Nat, settled : BOOLEAN]]
      /\ owed \in [Session -> Nat] /\ made \in [Session -> Nat]
  BY DEF TypeOK
<1>1. CASE TakeNow(s)
  BY <1>0, <1>1 DEF TakeNow, StateInv, Pends
<1>2. CASE TakeLater(s)
  BY <1>0, <1>2 DEF TakeLater, StateInv, Pends
<1>3. CASE TakeFilled(s)
  BY <1>0, <1>3 DEF TakeFilled, StateInv, Pends
<1>4. CASE Put(s)
  BY <1>0, <1>4 DEF Put, Putting, AfterPut, StateInv, Pends
<1>5. CASE PutFill(s)
  BY <1>0, <1>5 DEF PutFill, StateInv, Pends
<1>6. CASE WriteStaged(s)
  <2>1. \A t \in Session : pc[t] = "wrote" => t = s
    BY <1>6 DEF WriteStaged, OneSide, Has, Holds
  <2>2. QED BY <1>0, <1>6, <2>1 DEF WriteStaged, StateInv, Pends
<1>7. CASE WriteCheckpoint(s)
  <2>1. \A t \in Session : pc[t] = "wrote" => t = s
    BY <1>7 DEF WriteCheckpoint, OneSide, Has, Holds
  <2>2. QED BY <1>0, <1>7, <2>1 DEF WriteCheckpoint, StateInv, Pends
<1>8. CASE WriteNothing(s)
  BY <1>0, <1>8 DEF WriteNothing, StateInv, Pends
<1>9. CASE StageSide(s)
  <2>1. /\ pending'[s].state = end /\ pending'[s].stamp = stamps + 1
        /\ pending'[s].settled = (durable >= end)
        /\ \A t \in Session \ {s} : pending'[t] = pending[t] /\ pc'[t] = pc[t]
    BY <1>0, <1>9 DEF StageSide, Settled
  <2>2. /\ pc[s] = "wrote" /\ pc'[s] = "put" /\ stamps' = stamps + 1
        /\ UNCHANGED <<end, durable, shown, owed, made>>
    BY <1>0, <1>9 DEF StageSide
  <2>3. /\ pending'[s].settled => pending'[s].state <= durable
        /\ owed[s] = 0 /\ made[s] # 0 => pending'[s].settled
    BY <1>0, <2>1, <2>2 DEF StateInv
  <2>4. QED BY <1>0, <2>1, <2>2, <2>3 DEF StateInv, Pends
<1>10. CASE Sync(s)
  BY <1>0, <1>10 DEF Sync, StateInv, Pends
<1>11. CASE SyncFails(s)
  BY <1>0, <1>11 DEF SyncFails, StateInv, Pends, NoPending
<1>12. CASE Publish(s)
  BY <1>0, <1>12 DEF Publish, StateInv, Pends, NoPending
<1>13. CASE Finish(s)
  BY <1>0, <1>13 DEF Finish, StateInv, Pends
<1>14. CASE Enter(s)
  BY <1>0, <1>14 DEF Enter, StateInv, Pends, Share, Settled
<1>15. CASE EnterFails(s)
  BY <1>0, <1>15 DEF EnterFails, StateInv, Pends
<1>16. CASE EnterSyncFails(s)
  BY <1>0, <1>16 DEF EnterSyncFails, StateInv, Pends, Share, Settled
<1>17. CASE Reenter(s)
  BY <1>0, <1>17 DEF Reenter, StateInv, Pends
<1>18. CASE LeaveKept(s)
  BY <1>0, <1>18 DEF LeaveKept, AfterPut, StateInv, Pends
<1>19. CASE Drop(s)
  BY <1>0, <1>19 DEF Drop, StateInv, Pends
<1>20. CASE FileMut(s)
  BY <1>0, <1>20 DEF FileMut, StateInv, Pends
<1>21. QED BY <1>1, <1>2, <1>3, <1>4, <1>5, <1>6, <1>7, <1>8, <1>9, <1>10, <1>11,
              <1>12, <1>13, <1>14, <1>15, <1>16, <1>17, <1>18, <1>19, <1>20
           DEF Gate, Entry, Write, Answer

(* The invariant is inductive. *)
LEMMA Inductive == IInv /\ [Next]_vars => IInv'
<1> SUFFICES ASSUME IInv, [Next]_vars PROVE IInv'
  OBVIOUS
<1>1. CASE UNCHANGED vars
  BY <1>1 DEF vars, IInv, TypeOK, OneSide, LineInv, StateInv, Has, Holds, Pends
<1>2. ASSUME NEW s \in Session, Gate(s) \/ Entry(s) \/ Write(s) \/ Answer(s)
      PROVE  IInv'
  BY <1>2, TypeStep, GateStep, StateStep DEF IInv
<1>3. QED BY <1>1, <1>2 DEF Next

(* Every reachable state of the shared write side satisfies the invariant. *)
THEOREM FileHandleInvariant == Spec => []IInv
<1>1. QED BY InitIInv, Inductive, PTL DEF Spec

(* FileHandle::take and put: while the side is at home nobody is in line   *)
(* for it, in the queue or past it.                                        *)
THEOREM NobodyForgotten == Spec => []NoneForgotten
<1>1. IInv => NoneForgotten
  BY EmptySeq DEF IInv, OneSide, LineInv, NoneForgotten
<1>2. QED BY <1>1, FileHandleInvariant, PTL

(* Session::durable before FileHandle::publish: no connection is ever      *)
(* shown a commit the log could still lose.                                *)
THEOREM OnlyDurableShown == Spec => []ShownIsDurable
<1>1. IInv => ShownIsDurable
  BY DEF IInv, StateInv, ShownIsDurable
<1>2. QED BY <1>1, FileHandleInvariant, PTL

(* A statement that has been answered is visible to every connection.      *)
THEOREM AnsweredShown == Spec => []AnsweredIsShown
<1>1. IInv => AnsweredIsShown
  BY DEF IInv, TypeOK, StateInv, AnsweredIsShown
<1>2. QED BY <1>1, FileHandleInvariant, PTL

(* FileHandle::publish_staged checks the stamp: what readers are shown     *)
(* never goes back to an older state.                                      *)
THEOREM ShownNeverBackwards == Spec => NeverBackwards
<1>1. IInv /\ [Next]_vars => [shown'.state >= shown.state]_vars
  <2> SUFFICES ASSUME IInv, NEW s \in Session, Gate(s) \/ Entry(s) \/ Write(s) \/ Answer(s)
               PROVE  shown'.state >= shown.state
    BY DEF Next
  <2>1. shown \in [state : Nat, stamp : Nat] /\ end \in Nat /\ durable \in Nat
    BY DEF IInv, TypeOK
  <2>2. CASE UNCHANGED shown
    BY <2>1, <2>2
  <2>3. CASE Enter(s) \/ EnterSyncFails(s) \/ FileMut(s) \/ Drop(s)
    BY <2>1, <2>3 DEF Enter, EnterSyncFails, FileMut, Drop, Share, IInv, StateInv
  <2>4. CASE Publish(s)
    <3>1. pending[s] \in [state : Nat, stamp : Nat, settled : BOOLEAN]
      BY DEF IInv, TypeOK
    <3>2. shown.stamp < pending[s].stamp => shown.state <= pending[s].state
      BY <2>4 DEF Publish, Pends, IInv, StateInv
    <3>3. QED BY <2>1, <2>4, <3>1, <3>2 DEF Publish
  <2>5. QED BY <2>2, <2>3, <2>4
        DEF Gate, TakeNow, TakeFilled, TakeLater, Put, PutFill, Entry, EnterFails,
            Reenter, LeaveKept, Write, WriteStaged, WriteCheckpoint, WriteNothing,
            Answer, StageSide, Sync, SyncFails, Finish
<1>2. QED BY <1>1, FileHandleInvariant, PTL DEF Spec, NeverBackwards

(* The line in front of the side is first come, first served: a session    *)
(* comes to hold the side only when it asked before everyone still in line.*)
THEOREM ServedInOrder == Spec => FirstComeFirstServed
<1> DEFINE Served == \A s \in Session : ~Holds(s) /\ Holds(s)' => line = <<>> \/ Head(line) = s
<1>1. IInv /\ [Next]_vars => [Served]_vars
  <2> SUFFICES ASSUME IInv, NEW s \in Session, Gate(s) \/ Entry(s) \/ Write(s) \/ Answer(s),
                      NEW t \in Session, ~Holds(t), Holds(t)'
               PROVE  line = <<>> \/ Head(line) = t
    BY DEF Next
  <2>1. pc \in [Session -> PcValues]
    BY DEF IInv, TypeOK
  <2>2. CASE TakeNow(s)
    <3>1. popped \cup filled = {}
      BY <2>2 DEF TakeNow, IInv, TypeOK, OneSide, Has
    <3>2. QED BY <2>2, <3>1 DEF TakeNow, IInv, LineInv
  <2>3. CASE TakeFilled(s)
    <3>1. t = s
      BY <2>1, <2>3 DEF TakeFilled, Holds
    <3>2. \A u \in popped \cup filled : u = s
      BY <2>3 DEF TakeFilled, IInv, TypeOK, OneSide, Has
    <3>3. QED BY <2>3, <3>1, <3>2 DEF TakeFilled, IInv, LineInv
  <2>4. CASE \/ TakeLater(s) \/ Put(s) \/ PutFill(s)
            \/ EnterSyncFails(s) \/ FileMut(s) \/ Drop(s)
    BY <2>1, <2>4 DEF TakeLater, Put, AfterPut, PutFill, EnterSyncFails, FileMut, Drop, Holds
  <2>5. CASE Entry(s) \/ Write(s) \/ Answer(s)
    BY <2>5, OutsideStep
  <2>6. QED BY <2>2, <2>3, <2>4, <2>5 DEF Gate
<1>2. QED BY <1>1, FileHandleInvariant, PTL DEF Spec, FirstComeFirstServed
=============================================================================
