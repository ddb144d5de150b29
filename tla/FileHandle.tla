----------------------------- MODULE FileHandle -----------------------------
(***************************************************************************)
(* The write side several connections share on one file, and what they are *)
(* shown of it (crates/zu/src/shared.rs, session.rs): the line in front of *)
(* the side (Gate, FileHandle::take and put), the statement that writes    *)
(* (Session::enter, write, settle), and the group commit that publishes    *)
(* its state only once the log behind it is durable (Session::durable,     *)
(* FileHandle::stage, publish_staged, publish).                            *)
(*                                                                         *)
(* A state of the database is the number of commits it holds; the log is   *)
(* the same numbers, `end` of them written and `durable` on the platter.   *)
(***************************************************************************)
EXTENDS Integers, Sequences, FiniteSets

CONSTANTS
  Session,    \* connections with statements to run
  MaxCommit,  \* bound: commits
  MaxStmt,    \* bound: statements
  Allow       \* failures exercised, a subset of Behaviours

\* "syncfails" - Session::sync fails under Session::enter, with the side taken;
\* "filemut"   - a session borrows the file for an appender and keeps the side.
Behaviours == {"syncfails", "filemut"}

ASSUME FileHandleAssumption ==
  MaxCommit \in Nat /\ MaxStmt \in Nat /\ Allow \subseteq Behaviours

VARIABLES
  home,       \* Gate::side is here
  waiting,    \* Gate::waiting, the sessions in line
  popped,     \* sessions a put has popped and not yet handed the side to
  filled,     \* sessions whose Slot holds the side
  keeps,      \* sessions left with the side between statements
  pc,         \* where each session's statement is
  end,        \* commits written to the log, which is also the side's state
  durable,    \* commits the log (or the base file) has on the platter
  stamps,     \* FileHandle::staged, the order states were staged in
  shown,      \* Published: [state, stamp]
  pending,    \* Session::pending: [state, stamp, settled]
  owed,       \* Session::owed: the commit to wait for, 0 for none
  made,       \* ghost: the last commit the session's statement made
  line        \* ghost: sessions without the side, in the order they asked

gateVars == <<home, waiting, popped, filled, keeps, line>>
vars == <<home, waiting, popped, filled, keeps, pc, end, durable, stamps, shown,
          pending, owed, made, line>>

PcValues == {"idle", "waiting", "taken", "entered", "wrote", "put", "failed", "wait",
             "synced", "answered"}
NoPending == [state |-> 0, stamp |-> 0, settled |-> FALSE]

TypeOK ==
  /\ home \in BOOLEAN /\ waiting \in Seq(Session)
  /\ popped \in SUBSET Session /\ filled \in SUBSET Session
  /\ keeps \in SUBSET Session
  /\ pc \in [Session -> PcValues]
  /\ end \in Nat /\ durable \in Nat /\ stamps \in Nat
  /\ shown \in [state : Nat, stamp : Nat]
  /\ pending \in [Session -> [state : Nat, stamp : Nat, settled : BOOLEAN]]
  /\ owed \in [Session -> Nat] /\ made \in [Session -> Nat]
  /\ line \in Seq(Session)

\* Commits::settled: the log owes nothing.
Settled == durable >= end

\* The sessions with the side in their hands.
Holds(s) == pc[s] \in {"taken", "entered", "wrote", "put", "failed"} \/ s \in keeps

Init ==
  /\ home = TRUE /\ waiting = <<>> /\ popped = {} /\ filled = {} /\ keeps = {}
  /\ line = <<>>
  /\ pc = [s \in Session |-> "idle"]
  /\ end = 0 /\ durable = 0 /\ stamps = 0
  /\ shown = [state |-> 0, stamp |-> 0]
  /\ pending = [s \in Session |-> NoPending]
  /\ owed = [s \in Session |-> 0] /\ made = [s \in Session |-> 0]

------------------------------------------------------------------------------
(* The gate.                                                               *)

\* The bound on statements: one is counted when it stages its state.
MayStart == stamps + Cardinality({s \in Session : pc[s] \in {"waiting", "taken", "entered", "wrote"}})
            < MaxStmt

\* FileHandle::take with the side at home and nobody in line.
TakeNow(s) ==
  /\ pc[s] = "idle" /\ s \notin keeps /\ MayStart /\ waiting = <<>> /\ home
  /\ home' = FALSE
  /\ pc' = [pc EXCEPT ![s] = "taken"]
  /\ UNCHANGED <<waiting, popped, filled, keeps, line, end, durable, stamps, shown,
                 pending, owed, made>>

\* FileHandle::take otherwise: a slot at the back of the line.
TakeLater(s) ==
  /\ pc[s] = "idle" /\ s \notin keeps /\ MayStart /\ ~(waiting = <<>> /\ home)
  /\ waiting' = Append(waiting, s) /\ line' = Append(line, s)
  /\ pc' = [pc EXCEPT ![s] = "waiting"]
  /\ UNCHANGED <<home, popped, filled, keeps, end, durable, stamps, shown, pending, owed, made>>

\* The wait on the slot ends.
Unqueued(s) == IF Head(line) = s THEN Tail(line) ELSE SelectSeq(line, LAMBDA t : t # s)
TakeFilled(s) ==
  /\ pc[s] = "waiting" /\ s \in filled
  /\ filled' = filled \ {s}
  /\ line' = Unqueued(s)
  /\ pc' = [pc EXCEPT ![s] = "taken"]
  /\ UNCHANGED <<home, waiting, popped, keeps, end, durable, stamps, shown, pending,
                 owed, made>>

\* Session::enter once the side is in hand: share it if the log owes nothing.
\* FileHandle::publish takes the newest stamp, so that whatever is staged and
\* not installed yet is recognised as covered.
Share == IF Settled THEN [state |-> end, stamp |-> stamps] ELSE shown

\* The rest of Session::enter: the writer is open, the state is shared.
Enter(s) ==
  /\ pc[s] = "taken"
  /\ shown' = Share
  /\ pc' = [pc EXCEPT ![s] = "entered"]
  /\ UNCHANGED <<gateVars, end, durable, stamps, pending, owed, made>>

\* WriteSide::open_writer failed: the side goes back, then the error does.
EnterFails(s) ==
  /\ pc[s] = "taken"
  /\ pc' = [pc EXCEPT ![s] = "failed"]
  /\ UNCHANGED <<gateVars, end, durable, stamps, shown, pending, owed, made>>

\* Session::sync failed: the error goes back and the side stays.
EnterSyncFails(s) ==
  /\ pc[s] = "taken" /\ "syncfails" \in Allow
  /\ shown' = Share
  /\ keeps' = keeps \cup {s}
  /\ pc' = [pc EXCEPT ![s] = "idle"]
  /\ UNCHANGED <<home, waiting, popped, filled, line, end, durable, stamps, pending,
                 owed, made>>

\* Session::file_mut, for an appender: the writer is folded away, the state is
\* shared, and the session goes on holding the side between its statements.
FileMut(s) ==
  /\ pc[s] = "entered" /\ "filemut" \in Allow
  /\ durable' = end /\ shown' = [state |-> end, stamp |-> stamps]
  /\ keeps' = keeps \cup {s}
  /\ pc' = [pc EXCEPT ![s] = "idle"]
  /\ UNCHANGED <<home, waiting, popped, filled, line, end, stamps, pending, owed, made>>

\* Session::enter of a session that has the side already.
Reenter(s) ==
  /\ pc[s] = "idle" /\ s \in keeps /\ MayStart
  /\ pc' = [pc EXCEPT ![s] = "entered"]
  /\ UNCHANGED <<gateVars, end, durable, stamps, shown, pending, owed, made>>

\* Drop of that session: the writer is folded, the state shared, and then
\* the side goes back.
Drop(s) ==
  /\ pc[s] = "idle" /\ s \in keeps
  /\ durable' = end /\ shown' = [state |-> end, stamp |-> stamps]
  /\ keeps' = keeps \ {s}
  /\ pc' = [pc EXCEPT ![s] = "failed"]
  /\ UNCHANGED <<home, waiting, popped, filled, line, end, stamps, pending, owed, made>>

Putting(s) == pc[s] \in {"put", "failed"} /\ s \notin keeps
AfterPut(s) == [pc EXCEPT ![s] = IF pc[s] = "put" THEN "wait" ELSE "idle"]

\* Mutant: the side goes home whoever is in line.
PutHome(s) ==
  /\ Putting(s) /\ home' = TRUE /\ pc' = AfterPut(s)
  /\ UNCHANGED <<waiting, popped, filled, keeps, line, end, durable, stamps, shown,
                 pending, owed, made>>
\* Mutant: the side goes to the back of the line.
PutBack(s) ==
  /\ Putting(s)
  /\ IF waiting = <<>>
     THEN home' = TRUE /\ UNCHANGED <<waiting, popped>>
     ELSE /\ popped' = popped \cup {waiting[Len(waiting)]}
          /\ waiting' = SubSeq(waiting, 1, Len(waiting) - 1)
          /\ UNCHANGED home
  /\ pc' = AfterPut(s)
  /\ UNCHANGED <<filled, keeps, line, end, durable, stamps, shown, pending, owed, made>>
\* FileHandle::put: home when nobody is in line, else popped for the front.
Put(s) ==
  /\ Putting(s)
  /\ IF waiting = <<>>
     THEN home' = TRUE /\ UNCHANGED <<waiting, popped>>
     ELSE /\ popped' = popped \cup {Head(waiting)} /\ waiting' = Tail(waiting)
          /\ UNCHANGED home
  /\ pc' = AfterPut(s)
  /\ UNCHANGED <<filled, keeps, line, end, durable, stamps, shown, pending, owed, made>>

\* Session::leave of a statement that did not take the side: it stays.
LeaveKept(s) ==
  /\ pc[s] = "put" /\ s \in keeps
  /\ pc' = AfterPut(s)
  /\ UNCHANGED <<gateVars, end, durable, stamps, shown, pending, owed, made>>

\* The rest of put, out of the gate: the slot is filled and its owner woken.
PutFill(s) ==
  /\ s \in popped
  /\ popped' = popped \ {s} /\ filled' = filled \cup {s}
  /\ UNCHANGED <<home, waiting, keeps, line, pc, end, durable, stamps, shown, pending,
                 owed, made>>

------------------------------------------------------------------------------
(* The statement.                                                          *)

\* Session::write of a commit that stays in the log.
WriteStaged(s) ==
  /\ pc[s] = "entered" /\ end < MaxCommit
  /\ end' = end + 1
  /\ owed' = [owed EXCEPT ![s] = end + 1] /\ made' = [made EXCEPT ![s] = end + 1]
  /\ pc' = [pc EXCEPT ![s] = "wrote"]
  /\ UNCHANGED <<gateVars, durable, stamps, shown, pending>>

\* Session::write of a commit whose fold checkpoints: everything written is
\* in the base file, the log is cut, and the write owes nothing.
WriteCheckpoint(s) ==
  /\ pc[s] = "entered" /\ end < MaxCommit
  /\ end' = end + 1 /\ durable' = end + 1
  /\ made' = [made EXCEPT ![s] = end + 1]
  /\ pc' = [pc EXCEPT ![s] = "wrote"]
  /\ UNCHANGED <<gateVars, stamps, shown, pending, owed>>

\* A statement that changes nothing: it raised, or matched no row.
WriteNothing(s) ==
  /\ pc[s] = "entered"
  /\ pc' = [pc EXCEPT ![s] = "wrote"]
  /\ UNCHANGED <<gateVars, end, durable, stamps, shown, pending, owed, made>>

\* Mutant: the state is taken as durable whatever the log owes.
StageSideSettled(s) ==
  /\ pc[s] = "wrote"
  /\ stamps' = stamps + 1
  /\ pending' = [pending EXCEPT ![s] =
                   [state |-> end, stamp |-> stamps + 1, settled |-> TRUE]]
  /\ pc' = [pc EXCEPT ![s] = "put"]
  /\ UNCHANGED <<gateVars, end, durable, shown, owed, made>>
\* Mutant: every state is staged under the same stamp.
StageSideUnstamped(s) ==
  /\ pc[s] = "wrote"
  /\ pending' = [pending EXCEPT ![s] =
                   [state |-> end, stamp |-> stamps, settled |-> Settled]]
  /\ pc' = [pc EXCEPT ![s] = "put"]
  /\ UNCHANGED <<gateVars, end, durable, stamps, shown, owed, made>>

\* Session::stage_side, with the side still held.
StageSide(s) ==
  /\ pc[s] = "wrote"
  /\ stamps' = stamps + 1
  /\ pending' = [pending EXCEPT ![s] =
                   [state |-> end, stamp |-> stamps + 1, settled |-> Settled]]
  /\ pc' = [pc EXCEPT ![s] = "put"]
  /\ UNCHANGED <<gateVars, end, durable, shown, owed, made>>

\* Session::durable, with the side let go of: the wait, which covers whatever
\* anybody has written by the time the sync starts.
Sync(s) ==
  /\ pc[s] = "wait"
  /\ durable' = IF owed[s] > durable THEN end ELSE durable
  /\ pc' = [pc EXCEPT ![s] = "synced"]
  /\ UNCHANGED <<gateVars, end, stamps, shown, pending, owed, made>>

\* A sync that fails: the statement raises, and its state is not installed.
SyncFails(s) ==
  /\ pc[s] = "wait" /\ owed[s] > durable
  /\ owed' = [owed EXCEPT ![s] = 0] /\ pending' = [pending EXCEPT ![s] = NoPending]
  /\ made' = [made EXCEPT ![s] = 0]
  /\ pc' = [pc EXCEPT ![s] = "idle"]
  /\ UNCHANGED <<gateVars, end, durable, stamps, shown>>

\* Mutant: an older state is installed over a newer one.
PublishAlways(s) ==
  /\ pc[s] = "synced"
  /\ shown' = IF owed[s] # 0 \/ pending[s].settled
              THEN [state |-> pending[s].state, stamp |-> pending[s].stamp]
              ELSE shown
  /\ owed' = [owed EXCEPT ![s] = 0] /\ pending' = [pending EXCEPT ![s] = NoPending]
  /\ pc' = [pc EXCEPT ![s] = "answered"]
  /\ UNCHANGED <<gateVars, end, durable, stamps, made>>

\* ... and the publish: a state that was waited for, or that owed nothing
\* when it was taken, unless a newer one is in already.
Publish(s) ==
  /\ pc[s] = "synced"
  /\ shown' = IF (owed[s] # 0 \/ pending[s].settled) /\ pending[s].stamp > shown.stamp
              THEN [state |-> pending[s].state, stamp |-> pending[s].stamp]
              ELSE shown
  /\ owed' = [owed EXCEPT ![s] = 0] /\ pending' = [pending EXCEPT ![s] = NoPending]
  /\ pc' = [pc EXCEPT ![s] = "answered"]
  /\ UNCHANGED <<gateVars, end, durable, stamps, made>>

\* The session moves on to its next statement.
Finish(s) ==
  /\ pc[s] = "answered"
  /\ pc' = [pc EXCEPT ![s] = "idle"] /\ made' = [made EXCEPT ![s] = 0]
  /\ UNCHANGED <<gateVars, end, durable, stamps, shown, pending, owed>>

------------------------------------------------------------------------------
Gate(s) == \/ TakeNow(s) \/ TakeLater(s) \/ TakeFilled(s) \/ Put(s) \/ PutFill(s)
           \/ EnterSyncFails(s) \/ FileMut(s) \/ Drop(s)
Entry(s) == Enter(s) \/ EnterFails(s) \/ Reenter(s) \/ LeaveKept(s)
Write(s) == WriteStaged(s) \/ WriteCheckpoint(s) \/ WriteNothing(s)
Answer(s) == StageSide(s) \/ Sync(s) \/ SyncFails(s) \/ Publish(s) \/ Finish(s)

Next == \E s \in Session : Gate(s) \/ Entry(s) \/ Write(s) \/ Answer(s)

Spec == Init /\ [][Next]_vars

\* A thread inside a statement goes on running.
FairSpec ==
  /\ Spec
  /\ \A s \in Session : /\ WF_vars(TakeFilled(s)) /\ WF_vars(Put(s)) /\ WF_vars(PutFill(s))
                        /\ WF_vars(Enter(s) \/ EnterFails(s) \/ EnterSyncFails(s))
                        /\ WF_vars(LeaveKept(s))
                        /\ WF_vars(Write(s)) /\ WF_vars(Answer(s))

------------------------------------------------------------------------------
(* Properties.                                                             *)

\* The side is in one place: at home, on its way to a slot, in a slot, or in
\* one session's hands.  It is never lost and never in two.
Has(s) == Holds(s) \/ s \in popped \/ s \in filled
OneSide ==
  /\ home \/ \E s \in Session : Has(s)
  /\ home => \A s \in Session : ~Has(s)
  /\ \A s, t \in Session : Has(s) /\ Has(t) => s = t
  /\ \A s \in Session : s \in popped \cup filled => ~Holds(s)
  /\ popped \cap filled = {}

\* take, put: nobody is in line for a side at home; a waiter is only ever left
\* to sleep while somebody who will put the side back has it.
NoneForgotten == home => /\ waiting = <<>>
                         /\ \A s \in Session : pc[s] # "waiting"

\* take queues at the back and put pops the front: writers get the side in
\* the order they asked for it.
FirstComeFirstServed ==
  [][\A s \in Session : ~Holds(s) /\ Holds(s)' => line = <<>> \/ Head(line) = s]_vars

\* Session::durable, share: visibility follows durability, and no connection
\* is shown a commit a crash could take back.
ShownIsDurable == shown.state <= durable

\* publish_staged drops a state older than the one in place: the readers
\* never go backwards.
NeverBackwards == [][shown'.state >= shown.state]_vars

\* settle, durable: a statement that was answered is visible to the next statement, on any
\* connection.
AnsweredIsShown == \A s \in Session : pc[s] = "answered" => shown.state >= made[s]

\* take: whoever asks for the side gets it, or a session has been left with it
\* by a failed entry or for an appender.
TakeReturns == \A s \in Session : pc[s] = "waiting" ~> Holds(s) \/ keeps # {}

\* take and put "go in the same scope": whoever asks for the side gets it,
\* whatever failed under the session that had it (and nobody borrows the file).
TakenIsPutBack == \A s \in Session : pc[s] = "waiting" ~> Holds(s)

\* The strengthening the proofs use.  The line: whoever waits is in line or
\* has been handed the side, once.
LineInv ==
  /\ home => waiting = <<>>
  /\ \A i \in DOMAIN waiting : pc[waiting[i]] = "waiting" /\ ~Has(waiting[i])
  /\ \A i, j \in DOMAIN waiting : waiting[i] = waiting[j] => i = j
  /\ \A s \in popped \cup filled : pc[s] = "waiting"
  /\ \A s \in keeps : pc[s] \notin {"waiting", "taken", "failed"}
  /\ \A s \in Session : pc[s] = "waiting" =>
       Has(s) \/ \E i \in DOMAIN waiting : waiting[i] = s
  /\ popped \cup filled = {} => line = waiting
  /\ popped \cup filled # {} => /\ line # <<>> /\ Head(line) \in popped \cup filled
                                /\ Tail(line) = waiting

\* The states: stamps order them the way commits do, a debt covers the state
\* staged with it, and what a session made its state holds.
Pends(s) == pc[s] \in {"put", "wait", "synced"}
StateInv ==
  /\ durable <= end /\ shown.state <= durable /\ shown.stamp <= stamps
  /\ \A s \in Session :
       /\ owed[s] <= end /\ made[s] <= end
       /\ pc[s] = "wrote" /\ owed[s] # 0 => owed[s] = end
       /\ pc[s] = "wrote" /\ owed[s] = 0 /\ made[s] # 0 => durable = end
       /\ pc[s] \in {"idle", "waiting", "taken", "entered", "failed", "answered"} => owed[s] = 0
       /\ pc[s] \in {"idle", "waiting", "taken", "entered", "failed"} => made[s] = 0
       /\ pc[s] = "synced" => owed[s] <= durable
       /\ pc[s] = "answered" => made[s] <= shown.state
       /\ Pends(s) =>
            /\ made[s] <= pending[s].state /\ pending[s].state <= end
            /\ pending[s].stamp <= stamps
            /\ owed[s] # 0 => pending[s].state = owed[s]
            /\ pending[s].settled => pending[s].state <= durable
            /\ owed[s] = 0 /\ made[s] # 0 => pending[s].settled
            /\ pending[s].stamp <= shown.stamp => pending[s].state <= shown.state
            /\ shown.stamp < pending[s].stamp => shown.state <= pending[s].state
  /\ \A s, t \in Session : Pends(s) /\ Pends(t) /\ pending[s].stamp <= pending[t].stamp
                            => pending[s].state <= pending[t].state

\* FileHandle::take and put lose no side and no waiter, and Session::durable
\* shows no state out of turn: the inductive invariant of the whole protocol.
IInv == TypeOK /\ OneSide /\ LineInv /\ StateInv
==============================================================================
