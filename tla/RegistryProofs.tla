--------------------------- MODULE RegistryProofs ---------------------------
(* Proofs about the registry of open files of crates/zu/src/shared.rs, for  *)
(* any number of sessions, handles and commits, when no last reference is   *)
(* dropped between settled_registry's count and attach's upgrade: one write *)
(* side to a path, every commit answered on disk, and shown to whoever is   *)
(* connected.                                                               *)
EXTENDS Registry, FiniteSetTheorems, SequenceTheorems, TLAPS

---------------------------------------------------------------------------
(* The states of the database, and what recovery makes of a log. *)

Upto(n) == [i \in 1..n |-> i]

(* The state of the first n commits is a sequence of length n. *)
LEMMA UptoSeq ==
  ASSUME NEW n \in Nat
  PROVE  /\ Len(Upto(n)) = n /\ \A i \in 1..n : Upto(n)[i] = i
         /\ \A m \in Nat : n <= m => Upto(n) \in Seq(1..m)
<1>1. \A m \in Nat : n <= m => Upto(n) \in [1..n -> 1..m]
  BY DEF Upto
<1>2. \A m \in Nat : n <= m => Upto(n) \in Seq(1..m) /\ Len(Upto(n)) = n
  BY <1>1, IsASeq, LenProperties DEF Upto
<1>3. QED BY <1>2 DEF Upto

(* A commit adds the next one. *)
LEMMA UptoAppend ==
  ASSUME NEW n \in Nat
  PROVE  Append(Upto(n), n + 1) = Upto(n + 1)
<1>1. Upto(n) \in Seq(1..(n + 1)) /\ Len(Upto(n)) = n /\ \A i \in 1..n : Upto(n)[i] = i
  BY UptoSeq
<1>2. Upto(n + 1) \in Seq(1..(n + 1)) /\ Len(Upto(n + 1)) = n + 1
      /\ \A i \in 1..(n + 1) : Upto(n + 1)[i] = i
  BY UptoSeq
<1> HIDE DEF Upto
<1>3. /\ Append(Upto(n), n + 1) \in Seq(1..(n + 1))
      /\ Len(Append(Upto(n), n + 1)) = n + 1
      /\ \A i \in 1..n : Append(Upto(n), n + 1)[i] = i
      /\ Append(Upto(n), n + 1)[n + 1] = n + 1
  BY <1>1, AppendProperties
<1>4. \A i \in 1..(n + 1) : Append(Upto(n), n + 1)[i] = Upto(n + 1)[i]
  BY <1>2, <1>3
<1>5. QED BY <1>2, <1>3, <1>4, SeqEqual

(* The frames of a log that starts at commit b + 1, one for each commit.    *)
InOrder(frames, b) ==
  \A j \in 1..Len(frames) : frames[j] = [epoch |-> b + j, id |-> b + j]

(* recover_with over a log in order brings a state that holds some of its   *)
(* commits up to the last of them, applying none twice.                     *)
LEMMA ReplayInOrder ==
  ASSUME NEW F, NEW frames \in Seq(F), NEW b \in Nat, InOrder(frames, b),
         NEW n \in b..(b + Len(frames))
  PROVE  Replay(Upto(n), frames) = Upto(b + Len(frames))
<1> DEFINE k == Len(frames)
           a == Above(Upto(n), frames)
           x == [j \in 1..Cardinality(a) |-> frames[Nth(a, j)].id]
<1>1. k \in Nat /\ n \in Nat /\ b <= n /\ n <= b + k /\ b + k \in Nat
      /\ DOMAIN frames = 1..k /\ Len(Upto(n)) = n
  <2>1. k \in Nat /\ DOMAIN frames = 1..k
    BY LenProperties
  <2>2. n \in Nat /\ b <= n /\ n <= b + k /\ b + k \in Nat
    BY <2>1
  <2>3. QED BY <2>1, <2>2, UptoSeq
<1>2. a = (n - b + 1)..k
  BY <1>1 DEF Above, InOrder
<1>3. Cardinality(a) = b + k - n /\ Cardinality(a) \in Nat
  <2>1. Cardinality((n - b + 1)..k) = IF n - b + 1 > k THEN 0 ELSE k - (n - b + 1) + 1
    <3>1. n - b + 1 \in Int /\ k \in Int
      BY <1>1
    <3>2. QED BY <3>1, FS_Interval
  <2>2. QED BY <1>1, <1>2, <2>1
<1> HIDE DEF a, k
<1>4. ASSUME NEW j \in 1..(b + k - n) PROVE Nth(a, j) = n - b + j
  <2>1. ASSUME NEW i \in a PROVE Cardinality({m \in a : m <= i}) = i - (n - b)
    <3>1. {m \in a : m <= i} = (n - b + 1)..i /\ i \in Int /\ n - b + 1 \in Int /\ i >= n - b + 1
      BY <1>1, <1>2, <2>1
    <3>2. Cardinality((n - b + 1)..i) = IF n - b + 1 > i THEN 0 ELSE i - (n - b + 1) + 1
      BY <3>1, FS_Interval
    <3>3. Cardinality({m \in a : m <= i}) = Cardinality((n - b + 1)..i)
      BY <3>1
    <3>4. Cardinality((n - b + 1)..i) = i - (n - b)
      BY <1>1, <3>1, <3>2
    <3>5. QED BY <3>3, <3>4
  <2>2. n - b + j \in a /\ Cardinality({m \in a : m <= n - b + j}) = j
    <3>1. n - b + j \in a
      BY <1>1, <1>2
    <3>2. QED BY <1>1, <2>1, <3>1
  <2>3. \A i \in a : Cardinality({m \in a : m <= i}) = j => i = n - b + j
    BY <1>1, <1>2, <2>1
  <2>4. QED BY <2>2, <2>3 DEF Nth
<1>5. \A j \in 1..(b + k - n) : frames[Nth(a, j)].id = n + j
  BY <1>1, <1>4 DEF InOrder, k
<1>6. x \in Seq(1..(b + k)) /\ Len(x) = b + k - n /\ \A j \in 1..(b + k - n) : x[j] = n + j
  <2>1. x = [j \in 1..(b + k - n) |-> n + j]
    BY <1>3, <1>5
  <2> HIDE DEF x
  <2>2. x \in [1..(b + k - n) -> 1..(b + k)]
    BY <1>1, <2>1
  <2>3. QED BY <1>1, <1>3, <2>1, <2>2, IsASeq, LenProperties
<1> HIDE DEF x
<1>7. /\ Upto(n) \in Seq(1..(b + k)) /\ \A i \in 1..n : Upto(n)[i] = i
      /\ Upto(b + k) \in Seq(1..(b + k)) /\ Len(Upto(b + k)) = b + k
      /\ \A i \in 1..(b + k) : Upto(b + k)[i] = i
  <2>1. Upto(n) \in Seq(1..(b + k)) /\ \A i \in 1..n : Upto(n)[i] = i
    BY <1>1, UptoSeq
  <2>2. /\ Upto(b + k) \in Seq(1..(b + k)) /\ Len(Upto(b + k)) = b + k
        /\ \A i \in 1..(b + k) : Upto(b + k)[i] = i
    BY <1>1, UptoSeq
  <2>3. QED BY <2>1, <2>2
<1>8. /\ Upto(n) \o x \in Seq(1..(b + k)) /\ Len(Upto(n) \o x) = b + k
      /\ \A i \in 1..(b + k) : (Upto(n) \o x)[i] = i
  <2>1. /\ Upto(n) \o x \in Seq(1..(b + k)) /\ Len(Upto(n) \o x) = Len(Upto(n)) + Len(x)
        /\ \A i \in 1..(Len(Upto(n)) + Len(x)) :
             (Upto(n) \o x)[i] = IF i <= Len(Upto(n)) THEN Upto(n)[i] ELSE x[i - Len(Upto(n))]
    BY <1>6, <1>7, ConcatProperties
  <2>2. Len(Upto(n)) + Len(x) = b + k
    BY <1>1, <1>6
  <2>3. \A i \in 1..(b + k) : (Upto(n) \o x)[i] = IF i <= n THEN Upto(n)[i] ELSE x[i - n]
    BY <1>1, <2>1, <2>2
  <2>4. ASSUME NEW i \in 1..(b + k) PROVE (Upto(n) \o x)[i] = i
    <3>1. CASE i <= n
      BY <1>1, <1>7, <2>3, <3>1
    <3>2. CASE i > n
      <4>1. i - n \in 1..(b + k - n) /\ n + (i - n) = i
        BY <1>1, <3>2
      <4>2. x[i - n] = i
        BY <1>6, <4>1
      <4>3. ~(i <= n)
        BY <1>1, <3>2
      <4>4. (Upto(n) \o x)[i] = x[i - n]
        BY <2>3, <4>3
      <4>5. QED BY <4>2, <4>4
    <3>3. i \in Nat
      BY <1>1
    <3>4. i <= n \/ i > n
      BY <1>1, <3>3
    <3>5. QED BY <3>1, <3>2, <3>4
  <2>5. QED BY <2>1, <2>2, <2>4
<1>9. Upto(n) \o x = Upto(b + k)
  BY <1>7, <1>8, SeqEqual
<1>10. QED BY <1>9 DEF Replay, x, a, k

---------------------------------------------------------------------------
(* The inductive invariant. *)

Outside == {"idle", "attach", "settled"}
Attached == {"open", "closing"}

CtlTypes ==
  /\ lock \in Session \cup {NoOne} /\ entry \in Handle \cup {NoHandle}
  /\ owners \in [Handle -> SUBSET Session] /\ opened \in 0..MaxOpen
  /\ kept \in [Handle -> Session \cup {NoOne}]
  /\ \A h \in Handle : kept[h] \in owners[h] \cup {NoOne}
  /\ pc \in [Session -> PcValues] /\ at \in [Session -> Handle \cup {NoHandle}]

\* The mutex, and the handle a session has.
LockInv == \A s \in Session : lock = s <=> pc[s] \in {"settled", "install", "fold"}
AtInv ==
  /\ \A s \in Session : pc[s] \in Outside => at[s] = NoHandle
  /\ \A s \in Session : pc[s] \notin Outside => at[s] \in Handle /\ at[s] <= opened
OwnersInv ==
  \A s \in Session, h \in Handle : s \in owners[h] <=> at[s] = h /\ pc[s] \in Attached
KeptInv == \A s \in Session : pc[s] = "closing" => kept[at[s]] # s

\* The entry names the one handle that has owners or is on its way out, until
\* its drop has the mutex.
EntryInv ==
  /\ \A h \in Handle : owners[h] # {} => entry = h
  /\ \A s \in Session : pc[s] = "drop" => entry = at[s] /\ owners[at[s]] = {}
  /\ \A s, t \in Session : pc[s] = "drop" /\ pc[t] = "drop" => s = t
  /\ \A s \in Session : pc[s] = "fold" => entry = NoHandle

\* An attach past settled_registry finds owners or nobody, and opens alone.
AloneInv ==
  /\ \A s \in Session : pc[s] = "settled" => Settled
  /\ \A s \in Session : pc[s] = "install" =>
       (\A h \in Handle : owners[h] = {}) /\ \A t \in Session : pc[t] # "drop"

CtlInv == LockInv /\ AtInv /\ OwnersInv /\ KeptInv /\ EntryInv /\ AloneInv

(* The steps that move nobody and lend nothing. *)
LEMMA CtlSame ==
  ASSUME CtlInv, UNCHANGED <<lock, entry, owners, opened, kept, pc, at>>
  PROVE  CtlInv'
BY DEF CtlInv, LockInv, AtInv, OwnersInv, KeptInv, EntryInv, AloneInv, Settled

(* Attaching keeps one handle to the path. *)
LEMMA CtlAttach ==
  ASSUME CtlTypes, CtlInv, NEW s \in Session,
         Attach(s) \/ Settle(s) \/ Upgrade(s) \/ OpenFile(s) \/ Install(s) \/ AttachFails(s)
  PROVE  CtlInv'
<1> USE NoOneAssumption DEF CtlInv, CtlTypes, Outside, Attached, Go
<1>0. NoHandle \notin Handle /\ (\A n \in 0..MaxOpen : n < MaxOpen => n + 1 \in Handle)
  BY RegistryAssumption DEF Handle, NoHandle
<1>1. CASE Attach(s)
  BY <1>1 DEF Attach, sideVars, LockInv, AtInv, OwnersInv, KeptInv, EntryInv, AloneInv, Settled
<1>2. CASE Settle(s)
  BY <1>2 DEF Settle, sideVars, LockInv, AtInv, OwnersInv, KeptInv, EntryInv, AloneInv, Settled
<1>3. CASE Upgrade(s)
  <2>1. LockInv' /\ AtInv' /\ KeptInv'
    BY <1>3 DEF Upgrade, Upgradable, sideVars, LockInv, AtInv, KeptInv, OwnersInv
  <2>2. OwnersInv'
    BY <1>3 DEF Upgrade, Upgradable, OwnersInv, AtInv
  <2>3. EntryInv'
    BY <1>3 DEF Upgrade, Upgradable, EntryInv, LockInv
  <2>4. AloneInv'
    BY <1>3 DEF Upgrade, Upgradable, AloneInv, LockInv, Settled
  <2>5. QED BY <2>1, <2>2, <2>3, <2>4
<1>4. CASE OpenFile(s)
  <2>0. entry = NoHandle
    BY <1>4 DEF OpenFile, Upgradable, AloneInv, Settled
  <2>1. LockInv' /\ AtInv' /\ KeptInv'
    <3>1. /\ at' = [at EXCEPT ![s] = opened + 1] /\ opened + 1 \in Handle
          /\ opened' = opened + 1 /\ opened \in Nat /\ pc' = [pc EXCEPT ![s] = "install"]
      BY <1>0, <1>4, RegistryAssumption DEF OpenFile
    <3>2. AtInv'
      <4>1. \A h \in Handle : h <= opened => h <= opened'
        BY <3>1 DEF Handle
      <4>2. opened + 1 <= opened'
        BY <3>1
      <4>3. QED BY <3>1, <4>1, <4>2 DEF AtInv
    <3>3. QED BY <1>4, <3>1, <3>2 DEF OpenFile, LockInv, KeptInv
  <2>2. OwnersInv'
    BY <1>4, <2>0 DEF OpenFile, OwnersInv, AtInv, EntryInv
  <2>3. EntryInv'
    BY <1>4 DEF OpenFile, EntryInv
  <2>4. AloneInv'
    <3>1. (\A h \in Handle : owners[h] = {}) /\ \A t \in Session : pc[t] # "drop"
      BY <1>0, <2>0 DEF EntryInv, AtInv
    <3>2. \A t \in Session : t # s => pc[t] \notin {"settled", "install"}
      BY <1>4 DEF OpenFile, LockInv
    <3>3. QED BY <1>4, <3>1, <3>2 DEF OpenFile, AloneInv
  <2>5. QED BY <2>1, <2>2, <2>3, <2>4
<1>5. CASE Install(s)
  <2>0. /\ at[s] \in Handle /\ \A h \in Handle : owners[h] = {} /\ kept[h] = NoOne
        /\ \A t \in Session : pc[t] \notin Attached \cup {"drop"}
    <3>1. at[s] \in Handle /\ \A h \in Handle : owners[h] = {}
      BY <1>5 DEF Install, AtInv, AloneInv
    <3>2. \A t \in Session : pc[t] \notin Attached
      BY <3>1 DEF OwnersInv, AtInv
    <3>3. QED BY <1>5, <3>1, <3>2 DEF Install, AloneInv
  <2>1. LockInv' /\ AtInv' /\ KeptInv'
    BY <1>5, <2>0 DEF Install, LockInv, AtInv, KeptInv
  <2>2. OwnersInv'
    BY <1>5, <2>0 DEF Install, OwnersInv, AtInv
  <2>3. EntryInv'
    BY <1>5, <2>0 DEF Install, EntryInv, LockInv
  <2>4. AloneInv'
    BY <1>5, <2>0 DEF Install, AloneInv, LockInv, Settled
  <2>5. QED BY <2>1, <2>2, <2>3, <2>4
<1>6. CASE AttachFails(s)
  <2>1. LockInv' /\ AtInv' /\ KeptInv'
    BY <1>6 DEF AttachFails, sideVars, LockInv, AtInv, KeptInv
  <2>2. OwnersInv' /\ EntryInv' /\ AloneInv'
    BY <1>6 DEF AttachFails, OwnersInv, AtInv, EntryInv, AloneInv, Settled
  <2>3. QED BY <2>1, <2>2
<1>7. QED BY <1>1, <1>2, <1>3, <1>4, <1>5, <1>6

(* Lending the side and letting go keep it, as long as the last reference   *)
(* is not dropped under an attach past settled_registry.                    *)
LEMMA CtlLetGo ==
  ASSUME CtlTypes, CtlInv, "latedrop" \notin Allow, NEW s \in Session,
         FileMut(s) \/ FileMutFails(s) \/ ReturnSide(s) \/ LetGo(s) \/ DropLock(s) \/ DropFold(s)
  PROVE  CtlInv'
<1> USE NoOneAssumption DEF CtlInv, CtlTypes, Outside, Attached, Go
<1>0. NoHandle \notin Handle /\ (\A n \in 0..MaxOpen : n < MaxOpen => n + 1 \in Handle)
  BY RegistryAssumption DEF Handle, NoHandle
<1>1. CASE FileMut(s) \/ FileMutFails(s)
  <2>1. /\ pc[s] = "open" /\ kept' = [kept EXCEPT ![at[s]] = s]
        /\ UNCHANGED <<lock, entry, owners, opened, pc, at>>
    BY <1>1 DEF FileMut, FileMutFails, HasSide
  <2>2. QED BY <2>1 DEF LockInv, AtInv, OwnersInv, KeptInv, EntryInv, AloneInv, Settled
<1>2. CASE ReturnSide(s)
  <2>1. /\ pc[s] = "open" /\ kept' = [kept EXCEPT ![at[s]] = NoOne]
        /\ pc' = [pc EXCEPT ![s] = "closing"]
        /\ UNCHANGED <<lock, entry, owners, opened, at>>
    BY <1>2 DEF ReturnSide
  <2>2. LockInv' /\ AtInv' /\ KeptInv'
    BY <2>1 DEF LockInv, AtInv, KeptInv
  <2>3. OwnersInv' /\ EntryInv' /\ AloneInv'
    BY <2>1 DEF OwnersInv, EntryInv, AloneInv, Settled
  <2>4. QED BY <2>2, <2>3
<1>3. CASE LetGo(s)
  <2>0. /\ pc[s] \in Attached /\ at[s] \in Handle /\ s \in owners[at[s]] /\ entry = at[s]
        /\ kept[at[s]] # s
        /\ owners' = [owners EXCEPT ![at[s]] = @ \ {s}]
        /\ UNCHANGED <<lock, entry, opened, kept>>
    BY <1>3 DEF LetGo, MayLetGo, AtInv, OwnersInv, EntryInv, KeptInv, sideVars
  <2>1. CASE owners[at[s]] = {s}
    <3>1. pc' = [pc EXCEPT ![s] = "drop"] /\ at' = at /\ \A t \in Session : pc[t] # "settled"
      BY <1>3, <2>1 DEF LetGo
    <3>2. LockInv' /\ AtInv' /\ KeptInv'
      BY <2>0, <3>1 DEF LockInv, AtInv, KeptInv
    <3>3. OwnersInv'
      BY <2>0, <3>1 DEF OwnersInv
    <3>4. EntryInv'
      BY <2>0, <2>1, <3>1 DEF EntryInv, AtInv
    <3>5. AloneInv'
      BY <2>0, <3>1 DEF AloneInv
    <3>6. QED BY <3>2, <3>3, <3>4, <3>5
  <2>2. CASE owners[at[s]] # {s}
    <3>1. pc' = [pc EXCEPT ![s] = "idle"] /\ at' = [at EXCEPT ![s] = NoHandle]
      BY <1>3, <2>2 DEF LetGo
    <3>2. LockInv' /\ AtInv' /\ KeptInv'
      BY <2>0, <3>1 DEF LockInv, AtInv, KeptInv
    <3>3. OwnersInv'
      BY <2>0, <3>1 DEF OwnersInv
    <3>4. EntryInv'
      BY <2>0, <2>2, <3>1 DEF EntryInv
    <3>5. AloneInv'
      BY <2>0, <2>2, <3>1 DEF AloneInv, Settled
    <3>6. QED BY <3>2, <3>3, <3>4, <3>5
  <2>3. QED BY <2>1, <2>2
<1>4. CASE DropLock(s)
  <2>0. entry' = NoHandle /\ \A h \in Handle : owners[h] = {}
    BY <1>4 DEF DropLock, Cleared, Upgradable, EntryInv, AtInv
  <2>1. LockInv' /\ AtInv' /\ KeptInv'
    BY <1>4 DEF DropLock, sideVars, LockInv, AtInv, KeptInv
  <2>2. OwnersInv' /\ EntryInv'
    BY <1>4, <2>0 DEF DropLock, OwnersInv, EntryInv
  <2>3. AloneInv'
    BY <1>4, <2>0 DEF DropLock, AloneInv, Settled
  <2>4. QED BY <2>1, <2>2, <2>3
<1>5. CASE DropFold(s)
  <2>0. /\ pc[s] = "fold" /\ lock' = NoOne /\ at' = [at EXCEPT ![s] = NoHandle]
        /\ pc' = [pc EXCEPT ![s] = "idle"] /\ UNCHANGED <<entry, owners, opened, kept>>
    BY <1>5 DEF DropFold, LockInv
  <2>1. LockInv' /\ AtInv' /\ KeptInv'
    BY <2>0 DEF LockInv, AtInv, KeptInv
  <2>2. OwnersInv' /\ EntryInv' /\ AloneInv'
    BY <2>0 DEF OwnersInv, EntryInv, AloneInv, Settled
  <2>3. QED BY <2>1, <2>2
<1>6. QED BY <1>1, <1>2, <1>3, <1>4, <1>5

(* Between them: attach, settled_registry and drop leave one handle that    *)
(* can write the file, and none while another is being opened.              *)
LEMMA OneSide ==
  ASSUME CtlTypes, CtlInv
  PROVE  OneWriteSide
<1>0. NoHandle \notin Handle
  BY RegistryAssumption DEF Handle, NoHandle
<1>1. ASSUME NEW h \in Handle, Live(h)
      PROVE  entry = h \/ (entry = NoHandle /\ \E s \in Session : pc[s] = "fold" /\ at[s] = h)
  BY <1>1 DEF Live, CtlInv, EntryInv
<1>2. \A s, t \in Session : pc[s] = "fold" /\ pc[t] = "fold" => s = t
  BY DEF CtlInv, LockInv
<1>3. \A g, h \in Handle : Live(g) /\ Live(h) => g = h
  BY <1>0, <1>1, <1>2
<1>4. ASSUME NEW s \in Session, pc[s] = "install" PROVE ~\E h \in Handle : Live(h)
  BY <1>4 DEF Live, CtlInv, LockInv, AloneInv
<1>5. QED BY <1>3, <1>4 DEF OneWriteSide

(* A session that has the file, or is closing it, has the one live handle.  *)
LEMMA HasLive ==
  ASSUME CtlTypes, CtlInv, NEW s \in Session, pc[s] \in Attached \cup {"drop", "fold"}
  PROVE  /\ at[s] \in Handle /\ Live(at[s])
         /\ \A g \in Handle : Live(g) => g = at[s]
         /\ \A t \in Session : pc[t] # "install"
<1>1. at[s] \in Handle
  BY DEF CtlInv, AtInv, Outside, Attached
<1>2. Live(at[s])
  BY <1>1 DEF Live, CtlInv, OwnersInv, Attached
<1>3. QED BY <1>1, <1>2, OneSide DEF OneWriteSide

---------------------------------------------------------------------------
(* What the disk and the live side hold. *)

DataTypes ==
  /\ file \in [Handle -> Seq(1..MaxCommit)] /\ mem \in [Handle -> Seq(1..MaxCommit)]
  /\ shown \in [Handle -> Seq(1..MaxCommit)]
  /\ writer \in [Handle -> {"none", "clean", "dirty"}]
  /\ base \in Seq(1..MaxCommit) /\ log \in Seq([epoch : 1..MaxCommit, id : 1..MaxCommit])
  /\ commits \in 0..MaxCommit

\* The header names the first commits and the log has the others, in order.
DiskInv ==
  /\ base = Upto(Len(base)) /\ Len(base) + Len(log) = commits
  /\ InOrder(log, Len(base))

\* A state between the header's and everything.
Part(state) == \E n \in Len(base)..commits : state = Upto(n)

\* A writer holds everything, and knows whether its log is empty.
SideInv(h) ==
  /\ Part(file[h])
  /\ writer[h] # "none" => mem[h] = Upto(commits)
  /\ writer[h] = "clean" => log = <<>>
  /\ writer[h] = "dirty" => log # <<>>
  /\ shown[h] = Upto(commits) \/ (writer[h] = "none" /\ log # <<>>)

DataInv ==
  /\ DiskInv
  /\ \A h \in Handle : Live(h) => SideInv(h)
  /\ \A s \in Session : pc[s] = "install" => Part(file[at[s]]) /\ writer[at[s]] = "none"
  /\ \A h \in Handle : h > opened => writer[h] = "none"

(* The lengths the disk's invariant speaks of. *)
LEMMA DiskLengths ==
  ASSUME DataTypes, DiskInv
  PROVE  /\ Len(base) \in Nat /\ Len(log) \in Nat /\ commits \in Nat
         /\ Len(base) <= commits /\ commits <= MaxCommit
         /\ Upto(commits) \in Seq(1..MaxCommit) /\ Part(base)
         /\ log = <<>> => Len(base) = commits
<1>1. Len(base) \in Nat /\ Len(log) \in Nat /\ commits \in Nat /\ commits <= MaxCommit
  BY LenProperties, RegistryAssumption DEF DataTypes
<1>2. Len(base) <= commits /\ (log = <<>> => Len(base) = commits)
  <2>1. log = <<>> => Len(log) = 0
    BY EmptySeq
  <2>2. QED BY <1>1, <2>1 DEF DiskInv
<1>3. Upto(commits) \in Seq(1..MaxCommit)
  BY <1>1, UptoSeq, RegistryAssumption
<1>4. Part(base)
  BY <1>1, <1>2 DEF Part, DiskInv
<1>5. QED BY <1>1, <1>2, <1>3, <1>4

(* recover_with brings any state between the header's and everything up to  *)
(* everything; with an empty log it is everything already.                  *)
LEMMA ReplayWhole ==
  ASSUME DataTypes, DiskInv, NEW x, Part(x)
  PROVE  Replay(x, log) = Upto(commits) /\ (log = <<>> => x = Upto(commits))
<1>1. PICK n \in Len(base)..commits : x = Upto(n)
  BY DEF Part
<1>2. Len(base) \in Nat /\ Len(base) + Len(log) = commits /\ InOrder(log, Len(base))
      /\ log \in Seq([epoch : 1..MaxCommit, id : 1..MaxCommit])
  BY DiskLengths DEF DiskInv, DataTypes
<1>3. n \in Len(base)..(Len(base) + Len(log))
  BY <1>2
<1>4. Replay(Upto(n), log) = Upto(Len(base) + Len(log))
  BY <1>2, <1>3, ReplayInOrder
<1>5. log = <<>> => n = commits
  BY DiskLengths
<1>6. QED BY <1>1, <1>2, <1>4, <1>5

(* A header that names everything and an empty log. *)
LEMMA CutDisk ==
  ASSUME commits' \in Nat, base' = Upto(commits'), log' = <<>>
  PROVE  DiskInv' /\ Len(base') = commits' /\ \A x : x = Upto(commits') => Part(x)'
<1>1. Len(base') = commits' /\ Len(log') = 0
  BY UptoSeq, EmptySeq
<1>2. 1..Len(log') = {}
  BY <1>1
<1>3. DiskInv'
  <2>1. InOrder(log, Len(base))'
    BY <1>2 DEF InOrder
  <2>2. base' = Upto(Len(base'))
    BY <1>1, Zenon
  <2>3. Len(base') + Len(log') = commits'
    <3>1. \A m \in Nat : m + 0 = m
      OBVIOUS
    <3>2. QED BY <1>1, <3>1, Zenon
  <2>4. QED BY <2>1, <2>2, <2>3 DEF DiskInv
<1>4. ASSUME NEW x, x = Upto(commits') PROVE Part(x)'
  <2>1. commits' \in Len(base')..commits'
    BY <1>1
  <2>2. QED BY <1>4, <2>1 DEF Part
<1>5. QED BY <1>1, <1>3, <1>4

(* replay_sidecar leaves the header, the side and what is shown at          *)
(* everything, and an empty log.                                            *)
LEMMA SidecarSide ==
  ASSUME DataTypes, DiskInv, NEW h \in Handle, Part(file[h]), ReplaySidecar(h),
         commits' = commits
  PROVE  /\ DiskInv' /\ log' = <<>> /\ base' = Upto(commits)
         /\ file' = [file EXCEPT ![h] = Upto(commits)]
         /\ mem' = [mem EXCEPT ![h] = Upto(commits)]
         /\ shown' = [shown EXCEPT ![h] = Upto(commits)]
         /\ Part(file[h])'
<1>1. Replay(file[h], log) = Upto(commits)
  BY ReplayWhole
<1>2. /\ log' = <<>>
      /\ file' = [file EXCEPT ![h] = Upto(commits)]
      /\ mem' = [mem EXCEPT ![h] = Upto(commits)]
      /\ shown' = [shown EXCEPT ![h] = Upto(commits)]
      /\ base' = IF log = <<>> THEN base ELSE Upto(commits)
  BY <1>1 DEF ReplaySidecar
<1>3. base' = Upto(commits)
  BY <1>2, DiskLengths, ReplayWhole
<1>4. commits' \in Nat /\ base' = Upto(commits')
  BY <1>3, DiskLengths, Zenon
<1>5. DiskInv' /\ \A x : x = Upto(commits') => Part(x)'
  BY <1>2, <1>4, CutDisk
<1>6. file'[h] = Upto(commits')
  BY <1>2 DEF DataTypes
<1>7. Part(file[h])'
  <2>1. Len(base') = commits' /\ commits' \in Nat
    BY <1>2, <1>4, CutDisk
  <2>2. commits' \in Len(base')..commits'
    BY <2>1
  <2>3. QED BY <1>6, <2>2 DEF Part
<1>8. QED BY <1>2, <1>3, <1>5, <1>7

(* fold_writer, failing or not, whether what the file is at is then shown   *)
(* or not.                                                                  *)
LEMMA FoldSide ==
  ASSUME DataTypes, DiskInv, NEW h \in Handle, SideInv(h), commits' = commits,
         (FoldWriter(h) /\ mem' = mem) \/ FoldWriterFails(h),
         shown'[h] \in {shown[h], file'[h]}
  PROVE  DiskInv' /\ SideInv(h)'
<1>1. writer'[h] = "none"
  BY DEF FoldWriter, FoldWriterFails, DataTypes
<1>2. CASE writer[h] = "dirty" /\ FoldWriter(h)
  <2>1. base' = Upto(commits') /\ log' = <<>> /\ file'[h] = Upto(commits')
    BY <1>2 DEF FoldWriter, SideInv, DataTypes
  <2>2. commits' \in Nat
    BY DiskLengths
  <2>3. DiskInv' /\ Len(base') = commits'
    BY <2>1, <2>2, CutDisk
  <2>4. Part(file[h])'
    <3>1. commits' \in Len(base')..commits'
      BY <2>2, <2>3
    <3>2. QED BY <2>1, <3>1 DEF Part
  <2>5. shown[h] = Upto(commits)
    BY <1>2 DEF SideInv
  <2>6. shown'[h] = Upto(commits')
    BY <2>1, <2>5
  <2>7. QED BY <1>1, <2>3, <2>4, <2>6 DEF SideInv
<1>3. CASE ~(writer[h] = "dirty" /\ FoldWriter(h))
  <2>1. UNCHANGED <<base, log, file>>
    BY <1>3 DEF FoldWriter, FoldWriterFails
  <2>2. DiskInv' /\ Part(file[h])'
    BY <2>1 DEF DiskInv, SideInv, Part
  <2>3. log = <<>> => file[h] = Upto(commits)
    BY ReplayWhole DEF SideInv
  <2>4. shown'[h] = Upto(commits') \/ log' # <<>>
    BY <2>1, <2>3 DEF SideInv
  <2>5. QED BY <1>1, <2>2, <2>4 DEF SideInv
<1>4. QED BY <1>2, <1>3

(* A commit, deferred, staged or checkpointed: the log has its frame or the *)
(* header has everything.                                                   *)
LEMMA CommitSide ==
  ASSUME DataTypes, DiskInv, NEW s \in Session, at[s] \in Handle, SideInv(at[s]),
         NEW how \in {"defer", "stage", "checkpoint"}, Commit(s, how)
  PROVE  /\ DiskInv' /\ SideInv(at[s])' /\ DataTypes'
<1> DEFINE h == at[s]
           next == Upto(commits + 1)
           frame == [epoch |-> commits + 1, id |-> commits + 1]
<1>0. /\ commits \in Nat /\ commits + 1 \in 1..MaxCommit /\ commits + 1 \in Nat
      /\ Len(base) \in Nat /\ Len(log) \in Nat /\ Len(base) <= commits
  BY DiskLengths, RegistryAssumption DEF Commit
<1>1. Append(mem[h], commits + 1) = next /\ Len(next) = commits + 1
      /\ next \in Seq(1..MaxCommit)
  <2>1. mem[h] = Upto(commits)
    BY DEF Commit, SideInv
  <2>2. Append(Upto(commits), commits + 1) = next
    BY <1>0, UptoAppend
  <2>3. Len(next) = commits + 1 /\ next \in Seq(1..MaxCommit)
    <3>1. commits + 1 <= MaxCommit /\ MaxCommit \in Nat
      BY <1>0, RegistryAssumption
    <3>2. QED BY <1>0, <3>1, UptoSeq
  <2>4. QED BY <2>1, <2>2, <2>3
<1>2. /\ commits' = commits + 1
      /\ mem' = [mem EXCEPT ![h] = next] /\ shown' = [shown EXCEPT ![h] = next]
      /\ file' = [file EXCEPT ![h] = IF how = "defer" THEN file[h] ELSE next]
      /\ base' = IF how = "checkpoint" THEN next ELSE base
      /\ log' = IF how = "checkpoint" THEN <<>> ELSE Append(log, frame)
      /\ writer' = [writer EXCEPT ![h] = IF how = "checkpoint" THEN "clean" ELSE "dirty"]
      /\ UNCHANGED <<lock, entry, owners, opened, kept, pc, at>>
  BY <1>1 DEF Commit
<1> HIDE DEF next
<1>3. /\ mem'[h] = next /\ shown'[h] = next
      /\ file'[h] = (IF how = "defer" THEN file[h] ELSE next)
      /\ writer'[h] = (IF how = "checkpoint" THEN "clean" ELSE "dirty")
  BY <1>2 DEF DataTypes
<1>4. next = Upto(commits')
  BY <1>2 DEF next
<1>5. CASE how = "checkpoint"
  <2>1. commits' \in Nat /\ base' = Upto(commits') /\ log' = <<>>
    BY <1>0, <1>2, <1>4, <1>5
  <2>2. DiskInv' /\ Len(base') = commits'
    BY <2>1, CutDisk
  <2>3. Part(file[h])'
    <3>1. commits' \in Len(base')..commits'
      BY <2>1, <2>2
    <3>2. file'[h] = Upto(commits') /\ at' = at
      BY <1>2, <1>3, <1>4, <1>5
    <3>3. QED BY <3>1, <3>2 DEF Part
  <2>4. SideInv(at[s])'
    BY <1>2, <1>3, <1>4, <1>5, <2>1, <2>3 DEF SideInv
  <2>5. DataTypes'
    BY <1>0, <1>1, <1>2, <1>5, EmptySeq DEF DataTypes
  <2>6. QED BY <2>2, <2>4, <2>5
<1>6. CASE how # "checkpoint"
  <2>1. base' = base /\ log' = Append(log, frame)
    BY <1>2, <1>6
  <2>2. log \in Seq([epoch : 1..MaxCommit, id : 1..MaxCommit])
        /\ frame \in [epoch : 1..MaxCommit, id : 1..MaxCommit]
    BY <1>0 DEF DataTypes
  <2>3. /\ log' \in Seq([epoch : 1..MaxCommit, id : 1..MaxCommit])
        /\ Len(log') = Len(log) + 1 /\ log' # <<>>
        /\ \A j \in 1..Len(log) : log'[j] = log[j]
        /\ log'[Len(log) + 1] = frame
    BY <2>1, <2>2, AppendProperties
  <2>4. DiskInv'
    <3>1. Len(base) + (Len(log) + 1) = commits + 1
      BY <1>0 DEF DiskInv
    <3>2. ASSUME NEW j \in 1..(Len(log) + 1)
          PROVE  log'[j] = [epoch |-> Len(base) + j, id |-> Len(base) + j]
      <4>1. CASE j \in 1..Len(log)
        BY <2>3, <4>1 DEF DiskInv, InOrder
      <4>2. CASE j = Len(log) + 1
        BY <2>3, <3>1, <4>2
      <4>3. QED BY <1>0, <4>1, <4>2
    <3>3. \A j \in 1..Len(log') :
            log'[j] = [epoch |-> Len(base') + j, id |-> Len(base') + j]
      BY <2>1, <2>3, <3>2
    <3>4. InOrder(log, Len(base))'
      BY <3>3 DEF InOrder
    <3>5. base' = Upto(Len(base')) /\ Len(base') + Len(log') = commits'
      BY <1>2, <2>1, <2>3, <3>1 DEF DiskInv
    <3>6. QED BY <3>4, <3>5 DEF DiskInv
  <2>5. Part(file[h])'
    <3>1. PICK n \in Len(base)..commits : file[h] = Upto(n)
      BY DEF SideInv, Part
    <3>2. n \in Len(base')..commits' /\ commits' \in Len(base')..commits'
      BY <1>0, <1>2, <2>1
    <3>3. \E m \in Len(base')..commits' : file'[h] = Upto(m)
      BY <1>3, <1>4, <3>1, <3>2
    <3>4. QED BY <1>2, <3>3 DEF Part
  <2>6. SideInv(at[s])'
    BY <1>2, <1>3, <1>4, <1>6, <2>3, <2>5 DEF SideInv
  <2>7. DataTypes'
    BY <1>0, <1>1, <1>2, <1>6, <2>1, <2>3 DEF DataTypes
  <2>8. QED BY <2>4, <2>6, <2>7
<1>7. QED BY <1>5, <1>6

---------------------------------------------------------------------------
(* The steps. *)

Opening(s) ==
  Attach(s) \/ Settle(s) \/ Upgrade(s) \/ OpenFile(s) \/ AttachFails(s)
Using(s) ==
  \/ OpenWriter(s) \/ \E how \in {"defer", "stage", "checkpoint"} : Commit(s, how)
  \/ FileMut(s) \/ FileMutFails(s) \/ ReturnSide(s) \/ DropFold(s)

RegistryIInv == CtlTypes /\ DataTypes /\ CtlInv /\ DataInv

(* The registry's own state keeps its types. *)
LEMMA CtlTypesStep ==
  ASSUME CtlTypes, CtlInv, NEW s \in Session,
         Opening(s) \/ Install(s) \/ Using(s) \/ LetGo(s) \/ DropLock(s)
  PROVE  CtlTypes'
<1> USE NoOneAssumption DEF CtlTypes, PcValues, Go
<1>1. CASE Opening(s)
  <2>1. \A n \in 0..MaxOpen : n < MaxOpen => n + 1 \in Handle /\ n + 1 \in 0..MaxOpen
    BY RegistryAssumption DEF Handle
  <2>2. QED BY <1>1, <2>1 DEF Opening, Attach, Settle, Upgrade, Upgradable, OpenFile,
                 AttachFails, sideVars
<1>2. CASE Install(s)
  <2>1. at[s] \in Handle /\ owners[at[s]] = {} /\ kept[at[s]] = NoOne
    BY <1>2 DEF Install, CtlInv, AtInv, AloneInv, Outside
  <2>2. QED BY <1>2, <2>1 DEF Install
<1>3. CASE Using(s)
  <2>1. pc[s] \in {"open", "fold"}
    BY <1>3 DEF Using, OpenWriter, Commit, FileMut, FileMutFails, ReturnSide, DropFold, HasSide
  <2>2. at[s] \in Handle /\ (pc[s] = "open" => s \in owners[at[s]])
    BY <2>1 DEF CtlInv, AtInv, OwnersInv, Outside, Attached
  <2>3. /\ UNCHANGED <<entry, owners, opened>> /\ lock' \in {lock, NoOne}
        /\ \/ pc[s] = "open" /\ kept' = [kept EXCEPT ![at[s]] = s]
           \/ kept' = [kept EXCEPT ![at[s]] = NoOne]
           \/ kept' = kept
        /\ pc' = pc \/ pc' = [pc EXCEPT ![s] = "closing"] \/ pc' = [pc EXCEPT ![s] = "idle"]
        /\ at' = at \/ at' = [at EXCEPT ![s] = NoHandle]
    BY <1>3 DEF Using, OpenWriter, Commit, FileMut, FileMutFails, ReturnSide, DropFold, HasSide
  <2>4. QED BY <2>1, <2>2, <2>3
<1>4. CASE LetGo(s)
  <2>1. at[s] \in Handle /\ kept[at[s]] # s
    BY <1>4 DEF LetGo, MayLetGo, CtlInv, AtInv, KeptInv, Outside
  <2>2. /\ owners' = [owners EXCEPT ![at[s]] = owners[at[s]] \ {s}]
        /\ UNCHANGED <<lock, entry, opened, kept>>
        /\ pc' = [pc EXCEPT ![s] = "drop"] \/ pc' = [pc EXCEPT ![s] = "idle"]
        /\ at' = at \/ at' = [at EXCEPT ![s] = NoHandle]
    BY <1>4 DEF LetGo, sideVars
  <2>3. QED BY <2>1, <2>2
<1>5. CASE DropLock(s)
  BY <1>5 DEF DropLock, Cleared, sideVars
<1>6. QED BY <1>1, <1>2, <1>3, <1>4, <1>5

(* Attaching up to the install, letting go and taking the mutex to drop     *)
(* touch no data, and make no handle live that was not.                     *)
LEMMA DataMove ==
  ASSUME RegistryIInv, NEW s \in Session, Opening(s) \/ LetGo(s) \/ DropLock(s)
  PROVE  DataTypes' /\ DataInv'
<1> USE DEF RegistryIInv, Go
<1>1. UNCHANGED <<mem, writer, shown, kept, base, log, commits>>
  BY DEF Opening, Attach, Settle, Upgrade, OpenFile, AttachFails, LetGo, DropLock,
     sideVars, diskVars
<1>2. CASE OpenFile(s)
  <2>1. /\ opened + 1 \in Handle /\ file' = [file EXCEPT ![opened + 1] = base]
        /\ at' = [at EXCEPT ![s] = opened + 1] /\ pc' = [pc EXCEPT ![s] = "install"]
        /\ owners' = owners /\ pc[s] = "settled"
    BY <1>2, RegistryAssumption DEF OpenFile, CtlTypes, Handle
  <2>2. DataTypes'
    BY <1>1, <2>1 DEF DataTypes
  <2>3. \A h \in Handle : ~Live(h)'
    <3>1. entry = NoHandle /\ NoHandle \notin Handle
      BY <1>2, RegistryAssumption DEF OpenFile, Upgradable, CtlInv, AloneInv, Settled, Handle,
         NoHandle
    <3>2. \A h \in Handle : owners[h] = {}
      BY <3>1 DEF CtlInv, EntryInv
    <3>3. \A t \in Session : pc[t] # "drop" /\ pc[t] # "fold"
      BY <2>1, <3>1 DEF CtlInv, EntryInv, AtInv, LockInv, Outside
    <3>4. QED BY <2>1, <3>2, <3>3 DEF Live, CtlTypes
  <2>4. \A t \in Session : t # s => pc[t] # "install"
    BY <2>1 DEF CtlInv, LockInv
  <2>5. Part(file[at[s]])'
    <3>1. PICK n \in Len(base)..commits : base = Upto(n)
      BY DiskLengths DEF DataInv, Part
    <3>2. file'[at'[s]] = base
      BY <2>1 DEF DataTypes, CtlTypes
    <3>3. QED BY <1>1, <3>1, <3>2 DEF Part
  <2>6. DiskInv'
    BY <1>1 DEF DataInv, DiskInv
  <2>7. /\ opened' = opened + 1 /\ opened \in Nat /\ writer'[opened + 1] = "none"
        /\ \A h \in Handle : h > opened' => writer'[h] = "none"
    <3>1. opened' = opened + 1 /\ opened \in Nat
      BY <1>2, RegistryAssumption DEF OpenFile, CtlTypes
    <3>2. \A h \in Handle : h > opened + 1 => h > opened
      BY <3>1 DEF Handle
    <3>3. opened + 1 > opened
      BY <3>1
    <3>4. QED BY <1>1, <2>1, <3>1, <3>2, <3>3 DEF DataInv
  <2>8. \A t \in Session : (pc[t] = "install" => Part(file[at[t]]) /\ writer[at[t]] = "none")'
    BY <2>1, <2>4, <2>5, <2>7 DEF CtlTypes
  <2>9. QED BY <2>2, <2>3, <2>6, <2>7, <2>8 DEF DataInv
<1>3. CASE ~OpenFile(s)
  <2>1. file' = file
    BY <1>3 DEF Opening, Attach, Settle, Upgrade, AttachFails, LetGo, DropLock, sideVars
  <2>2. \A h \in Handle : Live(h)' => Live(h)
    <3>1. CASE Upgrade(s)
      BY <3>1 DEF Upgrade, Upgradable, Live, CtlTypes
    <3>2. CASE LetGo(s)
      <4>1. at[s] \in Handle /\ s \in owners[at[s]]
        BY <3>2 DEF LetGo, MayLetGo, CtlInv, AtInv, OwnersInv, Outside, Attached
      <4>2. QED BY <3>2, <4>1 DEF LetGo, Live, CtlTypes
    <3>3. CASE DropLock(s)
      BY <3>3 DEF DropLock, Live, CtlTypes
    <3>4. CASE Attach(s) \/ Settle(s) \/ AttachFails(s)
      BY <3>4 DEF Attach, Settle, AttachFails, Live, CtlTypes
    <3>5. QED BY <1>3, <3>1, <3>2, <3>3, <3>4 DEF Opening
  <2>3. \A t \in Session : pc'[t] = "install" => pc[t] = "install" /\ at'[t] = at[t]
    BY <1>3 DEF Opening, Attach, Settle, Upgrade, AttachFails, LetGo, DropLock, CtlTypes
  <2>4. DataTypes' /\ DiskInv'
    BY <1>1, <2>1 DEF DataTypes, DataInv, DiskInv
  <2>5. ASSUME NEW h \in Handle, Live(h)' PROVE SideInv(h)'
    <3>1. SideInv(h)
      BY <2>2, <2>5 DEF DataInv
    <3>2. QED BY <1>1, <2>1, <3>1 DEF SideInv, Part
  <2>6. ASSUME NEW t \in Session, pc'[t] = "install"
        PROVE  (Part(file[at[t]]) /\ writer[at[t]] = "none")'
    <3>1. Part(file[at[t]]) /\ writer[at[t]] = "none" /\ at'[t] = at[t]
      BY <2>3, <2>6 DEF DataInv
    <3>2. QED BY <1>1, <2>1, <3>1 DEF Part
  <2>7. opened' = opened
    BY <1>3 DEF Opening, Attach, Settle, Upgrade, AttachFails, LetGo, DropLock
  <2>8. QED BY <1>1, <2>4, <2>5, <2>6, <2>7 DEF DataInv
<1>4. QED BY <1>2, <1>3

(* The handle an attach opens starts with everything. *)
LEMMA DataInstall ==
  ASSUME RegistryIInv, CtlTypes', CtlInv', NEW s \in Session, Install(s)
  PROVE  DataTypes' /\ DataInv'
<1> USE DEF RegistryIInv, Go
<1>0. PICK h \in Handle : h = at[s]
  BY DEF Install, CtlInv, AtInv, Outside
<1>1. Part(file[h]) /\ writer[h] = "none" /\ pc[s] = "install"
  BY <1>0 DEF Install, DataInv
<1>2. /\ ReplaySidecar(h) /\ UNCHANGED <<opened, writer, commits>>
      /\ owners' = [owners EXCEPT ![h] = {s}]
  BY <1>0 DEF Install
<1>3. /\ DiskInv' /\ log' = <<>> /\ base' = Upto(commits)
      /\ file' = [file EXCEPT ![h] = Upto(commits)]
      /\ mem' = [mem EXCEPT ![h] = Upto(commits)]
      /\ shown' = [shown EXCEPT ![h] = Upto(commits)]
      /\ Part(file[h])'
  BY <1>1, <1>2, SidecarSide DEF DataInv
<1>4. Upto(commits) \in Seq(1..MaxCommit)
  BY DiskLengths DEF DataInv
<1>5. DataTypes'
  BY <1>2, <1>3, <1>4, EmptySeq DEF DataTypes
<1>6. (\A g \in Handle : Live(g)' => g = h) /\ \A t \in Session : pc'[t] # "install"
  <2>1. Live(h)'
    BY <1>2 DEF Live, CtlTypes
  <2>2. OneWriteSide'
    BY OneSide, PTL
  <2>3. QED BY <2>1, <2>2 DEF OneWriteSide
<1>7. SideInv(h)'
  <2>1. writer'[h] = "none" /\ shown'[h] = Upto(commits')
    BY <1>1, <1>2, <1>3 DEF DataTypes
  <2>2. QED BY <1>3, <2>1 DEF SideInv
<1>8. QED BY <1>2, <1>3, <1>5, <1>6, <1>7 DEF DataInv

(* Using the file, giving the side back and the fold of a drop. *)
LEMMA DataUse ==
  ASSUME RegistryIInv, NEW s \in Session, Using(s)
  PROVE  DataTypes' /\ DataInv'
<1> USE DEF RegistryIInv, Go
<1>0. pc[s] \in {"open", "fold"}
  BY DEF Using, OpenWriter, Commit, FileMut, FileMutFails, ReturnSide, DropFold, HasSide
<1>1. PICK h \in Handle : h = at[s] /\ h <= opened
  BY <1>0 DEF CtlInv, AtInv, Outside
<1>2. /\ Live(h) /\ (\A g \in Handle : Live(g) => g = h)
      /\ \A t \in Session : pc[t] # "install"
  BY <1>0, <1>1, HasLive DEF Attached
<1>3. DiskInv /\ SideInv(h)
  BY <1>2 DEF DataInv
<1>4. DiskInv' /\ SideInv(h)' /\ DataTypes'
  <2>0. Upto(commits) \in Seq(1..MaxCommit)
    BY <1>3, DiskLengths
  <2>1. CASE OpenWriter(s)
    <3>1. /\ ReplaySidecar(h) /\ commits' = commits
          /\ writer' = [writer EXCEPT ![h] = "clean"]
      BY <1>1, <2>1 DEF OpenWriter
    <3>2. /\ DiskInv' /\ log' = <<>> /\ base' = Upto(commits)
          /\ file' = [file EXCEPT ![h] = Upto(commits)]
          /\ mem' = [mem EXCEPT ![h] = Upto(commits)]
          /\ shown' = [shown EXCEPT ![h] = Upto(commits)]
          /\ Part(file[h])'
      BY <1>3, <3>1, SidecarSide DEF SideInv
    <3>3. writer'[h] = "clean" /\ mem'[h] = Upto(commits') /\ shown'[h] = Upto(commits')
      BY <3>1, <3>2 DEF DataTypes
    <3>4. SideInv(h)'
      BY <3>2, <3>3 DEF SideInv
    <3>5. DataTypes'
      BY <2>0, <3>1, <3>2, EmptySeq DEF DataTypes
    <3>6. QED BY <3>2, <3>4, <3>5
  <2>2. CASE \E how \in {"defer", "stage", "checkpoint"} : Commit(s, how)
    <3>1. DiskInv' /\ SideInv(at[s])' /\ DataTypes'
      BY <1>1, <1>3, <2>2, CommitSide
    <3>2. at'[s] = h
      BY <1>1, <2>2 DEF Commit
    <3>3. QED BY <3>1, <3>2 DEF SideInv, Part
  <2>3. CASE FileMut(s) \/ FileMutFails(s) \/ ReturnSide(s) \/ DropFold(s)
    <3>1. /\ (FoldWriter(h) /\ mem' = mem) \/ FoldWriterFails(h)
          /\ shown' = shown \/ shown' = [shown EXCEPT ![h] = file'[h]]
          /\ commits' = commits
      BY <1>1, <2>3 DEF FileMut, FileMutFails, ReturnSide, DropFold
    <3>2. shown'[h] \in {shown[h], file'[h]}
      BY <3>1 DEF DataTypes
    <3>3. DiskInv' /\ SideInv(h)'
      BY <1>3, <3>1, <3>2, FoldSide
    <3>4. /\ writer' \in [Handle -> {"none", "clean", "dirty"}]
          /\ file' \in [Handle -> Seq(1..MaxCommit)] /\ mem' \in [Handle -> Seq(1..MaxCommit)]
          /\ base' \in Seq(1..MaxCommit)
          /\ log' \in Seq([epoch : 1..MaxCommit, id : 1..MaxCommit])
      <4>1. <<>> \in Seq([epoch : 1..MaxCommit, id : 1..MaxCommit])
        BY EmptySeq
      <4>2. CASE FoldWriter(h) /\ mem' = mem
        BY <4>1, <4>2 DEF FoldWriter, DataTypes
      <4>3. CASE FoldWriterFails(h)
        BY <4>3 DEF FoldWriterFails, DataTypes
      <4>4. QED BY <3>1, <4>2, <4>3
    <3>5. shown' \in [Handle -> Seq(1..MaxCommit)]
      BY <3>1, <3>4 DEF DataTypes
    <3>6. QED BY <3>1, <3>3, <3>4, <3>5 DEF DataTypes
  <2>4. QED BY <2>1, <2>2, <2>3 DEF Using
<1>5. \A g \in Handle : Live(g)' => Live(g)
  <2>1. owners' = owners /\ \A t \in Session : t # s => pc'[t] = pc[t] /\ at'[t] = at[t]
    BY DEF Using, OpenWriter, Commit, FileMut, FileMutFails, ReturnSide, DropFold, CtlTypes
  <2>2. pc'[s] \in {"drop", "fold"} => pc'[s] = pc[s] /\ at'[s] = at[s]
    BY <1>0 DEF Using, OpenWriter, Commit, FileMut, FileMutFails, ReturnSide, DropFold, CtlTypes
  <2>3. QED BY <2>1, <2>2 DEF Live
<1>6. \A t \in Session : pc'[t] # "install"
  BY <1>2 DEF Using, OpenWriter, Commit, FileMut, FileMutFails, ReturnSide, DropFold, CtlTypes
<1>7. \A g \in Handle : g > opened' => writer'[g] = "none"
  <2>1. opened' = opened /\ \A g \in Handle : g # h => writer'[g] = writer[g]
    BY <1>1 DEF Using, OpenWriter, Commit, FileMut, FileMutFails, ReturnSide, DropFold,
       FoldWriter, FoldWriterFails, DataTypes
  <2>2. ~(h > opened)
    BY <1>1, RegistryAssumption DEF CtlTypes, Handle
  <2>3. QED BY <2>1, <2>2 DEF DataInv
<1>8. QED BY <1>2, <1>4, <1>5, <1>6, <1>7 DEF DataInv

---------------------------------------------------------------------------
(* The theorems. *)

(* A process that has opened nothing, over an empty file. *)
LEMMA InitRegistry == Init => RegistryIInv
<1> SUFFICES ASSUME Init PROVE RegistryIInv
  OBVIOUS
<1> USE RegistryAssumption, NoOneAssumption DEF Init
<1>1. CtlTypes
  BY DEF CtlTypes, PcValues
<1>2. <<>> \in Seq(1..MaxCommit) /\ <<>> \in Seq([epoch : 1..MaxCommit, id : 1..MaxCommit])
      /\ Len(<<>>) = 0
  BY EmptySeq
<1>3. DataTypes
  BY <1>2 DEF DataTypes
<1>4. CtlInv
  BY DEF CtlInv, LockInv, AtInv, OwnersInv, KeptInv, EntryInv, AloneInv, Outside, Attached
<1>5. DiskInv
  <2>1. Upto(0) = <<>>
    BY DEF Upto
  <2>2. base = Upto(Len(base))
    BY <1>2, <2>1
  <2>3. Len(base) + Len(log) = commits
    BY <1>2
  <2>4. InOrder(log, Len(base))
    BY <1>2 DEF InOrder
  <2>5. QED BY <2>2, <2>3, <2>4 DEF DiskInv
<1>6. \A h \in Handle : ~Live(h)
  BY DEF Live
<1>7. QED BY <1>1, <1>3, <1>4, <1>5, <1>6 DEF RegistryIInv, DataInv

(* shared.rs: the registry, the write side and the disk agree through every *)
(* interleaving of opens, commits, loans, closes and failed folds.          *)
THEOREM RegistryInductive ==
  ASSUME "latedrop" \notin Allow
  PROVE  Spec => []RegistryIInv
<1>1. RegistryIInv /\ [Next]_vars => RegistryIInv'
  <2> SUFFICES ASSUME RegistryIInv, [Next]_vars PROVE RegistryIInv'
    OBVIOUS
  <2> USE DEF RegistryIInv
  <2>1. ASSUME NEW s \in Session,
               Opening(s) \/ Install(s) \/ Using(s) \/ LetGo(s) \/ DropLock(s)
        PROVE  RegistryIInv'
    <3>1. CtlTypes'
      BY <2>1, CtlTypesStep
    <3>2. CtlInv'
      <4>1. CASE Opening(s) \/ Install(s)
        BY <4>1, CtlAttach DEF Opening
      <4>2. CASE \/ FileMut(s) \/ FileMutFails(s) \/ ReturnSide(s) \/ DropFold(s)
                 \/ LetGo(s) \/ DropLock(s)
        BY <4>2, CtlLetGo
      <4>3. CASE OpenWriter(s) \/ \E how \in {"defer", "stage", "checkpoint"} : Commit(s, how)
        <5>1. UNCHANGED <<lock, entry, owners, opened, kept, pc, at>>
          BY <4>3 DEF OpenWriter, Commit
        <5>2. QED BY <5>1, CtlSame
      <4>4. QED BY <2>1, <4>1, <4>2, <4>3 DEF Using
    <3>3. DataTypes' /\ DataInv'
      BY <2>1, <3>1, <3>2, DataMove, DataInstall, DataUse
    <3>4. QED BY <3>1, <3>2, <3>3
  <2>2. CASE UNCHANGED vars
    <3>1. CtlTypes' /\ DataTypes'
      BY <2>2 DEF vars, CtlTypes, DataTypes
    <3>2. CtlInv'
      BY <2>2, CtlSame DEF vars
    <3>3. DataInv'
      BY <2>2 DEF vars, DataInv, DiskInv, SideInv, Part, Live
    <3>4. QED BY <3>1, <3>2, <3>3
  <2>3. QED BY <2>1, <2>2 DEF Next, Opening, Using
<1>2. QED BY InitRegistry, <1>1, PTL DEF Spec

(* settled_registry, attach and FileHandle::drop: one handle to a path can  *)
(* write it, and none is opened while another can.                          *)
THEOREM RegistryInvariant ==
  ASSUME "latedrop" \notin Allow
  PROVE  Spec => []RegistryInv
<1>1. RegistryIInv => RegistryInv
  <2> SUFFICES ASSUME RegistryIInv PROVE RegistryInv
    OBVIOUS
  <2>1. OneWriteSide
    BY OneSide DEF RegistryIInv
  <2>2. TypeOK
    BY DEF RegistryIInv, CtlTypes, DataTypes, TypeOK
  <2>3. QED BY <2>1, <2>2 DEF RegistryInv
<1>2. QED BY RegistryInductive, <1>1, PTL

(* Whatever closes, opens and failed folds came between, a crash now would  *)
(* leave a header and a log that hold every commit answered, once and in    *)
(* order.                                                                   *)
THEOREM NothingAnsweredIsLost ==
  ASSUME "latedrop" \notin Allow
  PROVE  Spec => []DiskComplete
<1>1. RegistryIInv => DiskComplete
  <2> SUFFICES ASSUME RegistryIInv PROVE DiskComplete
    OBVIOUS
  <2>1. DataTypes /\ DiskInv
    BY DEF RegistryIInv, DataInv
  <2>2. Replay(base, log) = Upto(commits)
    BY <2>1, DiskLengths, ReplayWhole
  <2>3. QED BY <2>2 DEF DiskComplete, Everything, Upto
<1>2. QED BY RegistryInductive, <1>1, PTL

(* A connection is shown every commit answered before it asks, unless a     *)
(* fold failed and left its frames in a log that no writer has open.        *)
THEOREM ConnectionsSeeAll ==
  ASSUME "latedrop" \notin Allow
  PROVE  Spec => []ConnectedSeeAll
<1>1. RegistryIInv => ConnectedSeeAll
  <2> SUFFICES ASSUME RegistryIInv, NEW s \in Session, pc[s] = "open"
               PROVE  shown[at[s]] = Everything \/ (writer[at[s]] = "none" /\ log # <<>>)
    BY DEF ConnectedSeeAll
  <2>1. at[s] \in Handle /\ Live(at[s])
    BY HasLive DEF RegistryIInv, Attached
  <2>2. SideInv(at[s])
    BY <2>1 DEF RegistryIInv, DataInv
  <2>3. QED BY <2>2 DEF SideInv, Everything, Upto
<1>2. QED BY RegistryInductive, <1>1, PTL
===========================================================================
