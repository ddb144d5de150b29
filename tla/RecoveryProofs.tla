---------------------------- MODULE RecoveryProofs ----------------------------
(***************************************************************************)
(* What a commit is worth, for any number of commits, any log and any      *)
(* number of crashes, on a disk that keeps the order of writes.            *)
(*                                                                         *)
(* The argument follows one sequence W, the commits the database stands    *)
(* for: what the header and the overlay hold while a writer is at work,    *)
(* what is left of it once a rollback has begun, and after a crash what an *)
(* open would bring back, until the replay decides how much of it was on   *)
(* the disk.  Headers are prefixes of W, and above the published one every *)
(* commit frame the disk holds is a frame of W in its place.               *)
(***************************************************************************)
EXTENDS Recovery, FiniteSetTheorems, FunctionTheorems, WellFoundedInduction,
        SequenceTheorems, TLAPS

Hdr == [content : Seq(Txn), seq : Nat, epoch : Nat]

(* s is the beginning of W, and h a header of such a beginning. *)
Prefix(s, W) == Len(s) <= Len(W) /\ \A i \in 1..Len(s) : s[i] = W[i]
HdrOK(h, W)  == h.seq = Len(h.content) /\ Prefix(h.content, W)

(* Cell i of the log is a frame of W, the log having begun over `lo` commits. *)
BeginCell(W, e)  == [kind |-> "begin", epoch |-> e, id |-> W[e]]
CommitCell(W, e) == [kind |-> "commit", epoch |-> e, id |-> W[e]]
Frame(cells, i, lo, W) ==
  \E e \in (lo + 1)..Len(W) :
    \/ i = 2 * (e - lo) - 1 /\ cells[i] = BeginCell(W, e)
    \/ i = 2 * (e - lo) /\ cells[i] = CommitCell(W, e)

IsCommit(cells, i, e) == cells[i].kind = "commit" /\ cells[i].epoch = e

(* The log of a writer at work: the last commits of W and nothing more. *)
Written(lo, W) ==
  /\ len = 2 * (Len(W) - lo)
  /\ \A i \in 1..len : Frame(cache, i, lo, W)
  /\ \A i \in Index : i > len => cache[i] = Zero

(* Under a commit of W above s, everything is a frame of W.  No commit is    *)
(* above W.                                                                  *)
Log(cells, lo, W, s) ==
  \A i \in Index : \A e \in (s + 1)..Len(W) :
    IsCommit(cells, i, e) => \A j \in 1..i : Frame(cells, j, lo, W)
Capped(cells, W) == \A i \in Index : cells[i].kind = "commit" => cells[i].epoch <= Len(W)

(* Under a commit above s, the disk is what was written. *)
Live(s) ==
  \A i \in Index : disk[i].kind = "commit" /\ disk[i].epoch > s =>
    \A j \in 1..i : disk[j] = cache[j]

(* Commits above s that somebody counts on are on the disk. *)
Stored(e) == \E i \in Index : IsCommit(disk, i, e)
Acked(W, s) == \A e \in (s + 1)..Len(W) : status[W[e]] = "acked" => Stored(e)
Settled(W, s) ==
  owed \/ \A e \in (s + 1)..Len(W) : W[e] \in mine => Stored(e)

---------------------------------------------------------------------------
(* The parts of the inductive invariant.                                    *)

Working == mode \in {"idle", "stmt", "txn", "undo"}

Savepoints == [on : {TRUE}, base : Hdr, floor : Nat, across : BOOLEAN,
               published : BOOLEAN, marked : BOOLEAN]
Markers == [on : {TRUE}, base : Hdr, floor : Nat]

TypeInv ==
  /\ TypeOK
  /\ slot \in Hdr /\ base \in Hdr /\ overlay \in Seq(Txn) /\ floor \in Nat
  /\ marker \in Markers \cup {NoMarker} /\ save \in Savepoints \cup {NoSave}

ControlInv ==
  /\ mode \in {"idle", "down"} => pc = "none"
  /\ mode = "stmt" \/ mode = "txn" => pc \in {"none", "kept", "logged", "truncate"}
  /\ mode = "undo" => pc \in {"restore", "forget", "replay", "fold", "truncate"}
  /\ mode = "recover" => pc \in {"cut", "finish", "forget", "replay", "fold", "truncate"}
  /\ save.on <=> InSavepoint \/ (mode = "undo" /\ pc \in {"restore", "forget"})
  /\ Working => (marker.on <=> save.on /\ save.marked)
  /\ mode = "recover" => (marker.on <=> pc \in {"cut", "finish", "forget"})
  /\ pc = "kept" => Next1 <= MaxTxn /\ len + 2 <= MaxLog
                    /\ (save.across => save.marked)

(* Commits are numbered in the order they are made, and what is expected of *)
(* each one holds of W.                                                     *)
Owned(W, t) == \E e \in 1..Len(W) : W[e] = t
StatusInv(W) ==
  /\ \E k \in Len(W)..MaxTxn : \A t \in Txn : status[t] = "new" <=> t > k
  /\ \A i, j \in 1..Len(W) : i < j => W[i] < W[j]
  /\ \A i \in 1..Len(W) : status[W[i]] \notin {"new", "undone"}
  /\ \A t \in Txn : status[t] = "acked" \/ (status[t] = "staged" /\ t \notin mine)
                    => Owned(W, t)
  /\ \A t \in mine : status[t] = "staged"
  /\ ~save.on => mine = {}
  /\ ~Working => \A t \in Txn : status[t] # "staged"

(* The header a writer works over and the published one. *)
BaseInv ==
  /\ slot.epoch <= base.epoch /\ slot.seq <= base.seq
  /\ slot.epoch = base.epoch => slot = base

(* What a savepoint keeps.  V is what the savepoint is over. *)
SaveInv(V) ==
  /\ HdrOK(save.base, V) /\ save.base.seq <= save.floor /\ save.floor <= Len(V)
  /\ save.base.epoch <= base.epoch
  /\ slot.epoch <= save.base.epoch => slot.seq <= save.base.seq
  /\ slot.epoch = save.base.epoch => slot = save.base
  /\ slot.epoch > save.base.epoch => save.floor = save.base.seq
  /\ save.marked => marker.base = save.base /\ marker.floor = save.floor
  /\ save.across /\ ~save.marked => mine = {}
  /\ \A t \in Txn : t \in mine <=> \E e \in (save.floor + 1)..Len(V) : V[e] = t

(* What a rollback that has cut the log, and put the kept header back, leaves. *)
RestoreInv(W) ==
  /\ StatusInv(View) /\ HdrOK(base, View) /\ HdrOK(slot, View) /\ BaseInv
  /\ SaveInv(View) /\ Prefix(W, View) /\ Len(W) = save.floor
  /\ slot.epoch > save.base.epoch => disk = cache
RestoredInv(W) == HdrOK(base, W) /\ HdrOK(slot, W) /\ BaseInv
ForgetInv(W) ==
  /\ \A t \in mine : ~Owned(W, t)
  /\ save.across /\ ~save.marked => mine = {}
  /\ save.marked =>
       /\ HdrOK(marker.base, W) /\ marker.floor = Len(W)
       /\ marker.base.epoch <= slot.epoch => marker.base.seq = slot.seq
       /\ marker.base.epoch = slot.epoch => marker.base = slot

(* A writer between rollbacks. *)
ServeInv(W) ==
  /\ W = View /\ epoch = Len(W) /\ HdrOK(base, W) /\ HdrOK(slot, W) /\ BaseInv
  /\ pc = "truncate" => slot = base /\ base.seq = Len(W)
  /\ InSavepoint => SaveInv(W) /\ Settled(W, slot.seq)

WorkInv(W, lo) ==
  /\ Written(lo, W) /\ Live(slot.seq) /\ lo <= slot.seq
  /\ Acked(W, slot.seq)
  /\ pc = "restore" => RestoreInv(W)
  /\ pc \in {"forget", "replay"} => RestoredInv(W)
  /\ pc = "forget" => ForgetInv(W)
  /\ pc \notin {"restore", "forget", "replay"} => ServeInv(W)

(* A file that is down, or being recovered. *)
CrashInv(W, lo) ==
  /\ HdrOK(Kept, W) /\ Log(disk, lo, W, Kept.seq) /\ lo <= Kept.seq
  /\ Acked(W, Kept.seq)
  /\ marker.on => marker.floor = Len(W)
                  /\ (marker.base.epoch = slot.epoch => marker.base = slot)
  /\ ~marker.on => Capped(disk, W)

RecoverInv(W) ==
  /\ disk = cache /\ \A i \in Index : i > len => cache[i] = Zero
  /\ base.seq = Kept.seq /\ base.content = Kept.content
  /\ pc \in {"cut", "finish"} => base = Kept /\ floor = marker.floor
  /\ pc \notin {"cut", "finish"} => slot = base
  /\ pc # "cut" => Capped(disk, W)
  /\ pc \in {"fold", "truncate"} => W = View /\ epoch = Len(W)
  /\ pc = "fold" /\ len = 0 => overlay = <<>>
  /\ pc = "truncate" => base.seq = Len(W)

State(W, lo) ==
  /\ StatusInv(W)
  /\ Working => WorkInv(W, lo)
  /\ ~Working => CrashInv(W, lo)
  /\ mode = "recover" => RecoverInv(W)

Inv == TypeInv /\ ControlInv /\ \E W \in Seq(Txn), lo \in Nat : State(W, lo)

---------------------------------------------------------------------------
(* Sets of numbers.                                                         *)

(* Min is the least member of a set that has one. *)
LEMMA MinLeast ==
  ASSUME NEW S, S \subseteq Nat, S # {}
  PROVE  Min(S) \in S /\ \A y \in S : Min(S) <= y
<1>1. \E x \in S : \A y \in S : ~(<<y, x>> \in OpToRel(<, Nat))
  BY WFMin, NatLessThanWellFounded
<1>2. PICK x \in S : \A y \in S : ~(<<y, x>> \in OpToRel(<, Nat))
  BY <1>1
<1>3. \A y \in S : x <= y
  <2>1. ASSUME NEW y \in S, y < x PROVE FALSE
    <3>1. <<y, x>> \in OpToRel(<, Nat)
      BY <2>1 DEF OpToRel
    <3>2. QED BY <1>2, <3>1
  <2>2. QED BY <2>1
<1>4. QED BY <1>3 DEF Min

(* Max is the greatest member of a set that is bounded. *)
LEMMA MaxGreatest ==
  ASSUME NEW S, S \subseteq Nat, S # {}, NEW b \in Nat, \A y \in S : y <= b
  PROVE  Max(S) \in S /\ \A y \in S : y <= Max(S)
<1> DEFINE T == {b - y : y \in S}
<1>0. \A y \in S : b \in Nat /\ y \in Nat /\ y <= b /\ b - y \in Nat
  OBVIOUS
<1>1. T \subseteq Nat /\ T # {}
  BY <1>0
<1>2. PICK z \in T : \A y \in T : z <= y
  <2> HIDE DEF T
  <2>1. QED BY <1>1, MinLeast
<1>3. PICK x \in S : z = b - x
  BY <1>2
<1>4. \A y \in S : y <= x
  <2>1. \A y \in S : b - x <= b - y
    BY <1>2, <1>3
  <2>2. QED BY <1>0, <2>1
<1>5. QED BY <1>4 DEF Max

(* The k-th of the numbers 2 * (e - lo), for e from a + 1 on. *)
LEMMA NthEven ==
  ASSUME NEW lo \in Nat, NEW a \in Nat, lo <= a, NEW m \in Nat, a <= m, NEW S,
         S = {2 * (e - lo) : e \in (a + 1)..m}
  PROVE  Cardinality(S) = m - a /\ \A k \in 1..(m - a) : Nth(S, k) = 2 * (a + k - lo)
<1>0. \A e \in (a + 1)..m : 2 * (e - lo) \in S
  OBVIOUS
<1>1. ASSUME NEW n \in a..m
      PROVE  Cardinality({j \in S : j <= 2 * (n - lo)}) = n - a
  <2>0. ASSUME NEW k \in 1..(n - a)
        PROVE  2 * (a + k - lo) \in S /\ 2 * (a + k - lo) <= 2 * (n - lo)
    <3>1. a + k \in (a + 1)..m /\ a + k <= n
      OBVIOUS
    <3>2. 2 * (a + k - lo) \in S
      <4>1. \A x \in (a + 1)..m : x = a + k => 2 * (x - lo) \in S
        BY ONLY <1>0
      <4>2. QED BY ONLY <4>1, <3>1
    <3>3. QED BY <3>1, <3>2
  <2> DEFINE T == {j \in S : j <= 2 * (n - lo)}
             f == [k \in 1..(n - a) |-> 2 * (a + k - lo)]
  <2>1. f \in Bijection(1..(n - a), T)
    <3>1. f \in [1..(n - a) -> T]
      <4>1. \A k \in 1..(n - a) : 2 * (a + k - lo) \in T
        BY <2>0
      <4>2. QED BY <4>1
    <3>2. \A x, y \in 1..(n - a) : f[x] = f[y] => x = y
      OBVIOUS
    <3>3. ASSUME NEW j \in T PROVE \E k \in 1..(n - a) : f[k] = j
      <4>1. PICK e \in (a + 1)..m : j = 2 * (e - lo)
        OBVIOUS
      <4>2. e - a \in 1..(n - a) /\ f[e - a] = j
        BY <4>1
      <4>3. QED BY <4>2
    <3> HIDE DEF f, T
    <3>4. QED BY <3>1, <3>2, <3>3, Fun_IsBij
  <2>2. ExistsBijection(1..(n - a), T)
    BY <2>1 DEF ExistsBijection
  <2>3. IsFiniteSet(1..(n - a)) /\ Cardinality(1..(n - a)) = n - a
    <3>1. n - a \in Nat /\ (1 > n - a => n - a = 0)
      OBVIOUS
    <3>2. QED BY <3>1, FS_Interval
  <2> HIDE DEF T
  <2>4. Cardinality(T) = n - a
    BY <2>2, <2>3, FS_Bijection
  <2>5. QED BY <2>4 DEF T
<1>2. Cardinality(S) = m - a
  <2>1. S = {j \in S : j <= 2 * (m - lo)}
    OBVIOUS
  <2>2. QED BY <1>1, <2>1
<1>3. ASSUME NEW k \in 1..(m - a) PROVE Nth(S, k) = 2 * (a + k - lo)
  <2>0. a + k \in (a + 1)..m /\ a + k \in a..m /\ (a + k) - a = k
    OBVIOUS
  <2>1. /\ a + k \in (a + 1)..m /\ a + k \in a..m /\ (a + k) - a = k
        /\ 2 * (a + k - lo) \in S
    BY <2>0
  <2>2. Cardinality({j \in S : j <= 2 * (a + k - lo)}) = k
    BY <1>1, <2>1
  <2>3. ASSUME NEW i \in S, Cardinality({j \in S : j <= i}) = k
        PROVE  i = 2 * (a + k - lo)
    <3>1. PICK e \in (a + 1)..m : i = 2 * (e - lo)
      OBVIOUS
    <3>2. e \in a..m
      BY <3>1
    <3>3. k = e - a
      BY <1>1, <2>3, <3>1, <3>2
    <3>4. QED BY <3>1, <3>3
  <2>4. QED BY <2>1, <2>2, <2>3 DEF Nth
<1>4. QED BY <1>2, <1>3

---------------------------------------------------------------------------
(* Beginnings of sequences.                                                 *)

(* The first n members of W. *)
LEMMA FirstOf ==
  ASSUME NEW W \in Seq(Txn), NEW n \in 0..Len(W)
  PROVE  /\ SubSeq(W, 1, n) \in Seq(Txn) /\ Len(SubSeq(W, 1, n)) = n
         /\ \A i \in 1..n : SubSeq(W, 1, n)[i] = W[i]
         /\ Prefix(SubSeq(W, 1, n), W)
<1>1. /\ SubSeq(W, 1, n) \in Seq(Txn) /\ Len(SubSeq(W, 1, n)) = n
      /\ \A i \in 1..n : SubSeq(W, 1, n)[i] = W[i]
  OBVIOUS
<1>2. QED BY <1>1 DEF Prefix

(* What begins W and is no longer than another beginning begins that one. *)
LEMMA PrefixBelow ==
  ASSUME NEW s \in Seq(Txn), NEW U \in Seq(Txn), NEW W \in Seq(Txn),
         Prefix(s, W), Prefix(U, W), Len(s) <= Len(U)
  PROVE  Prefix(s, U)
BY LenProperties DEF Prefix

LEMMA PrefixTransitive ==
  ASSUME NEW s \in Seq(Txn), NEW U \in Seq(Txn), NEW W \in Seq(Txn),
         Prefix(s, U), Prefix(U, W)
  PROVE  Prefix(s, W)
BY LenProperties DEF Prefix

(* What is added at the end. *)
LEMMA PrefixAppend ==
  ASSUME NEW s \in Seq(Txn), NEW W \in Seq(Txn), NEW t \in Txn, Prefix(s, W)
  PROVE  /\ Append(W, t) \in Seq(Txn) /\ Len(Append(W, t)) = Len(W) + 1
         /\ \A i \in 1..Len(W) : Append(W, t)[i] = W[i]
         /\ Append(W, t)[Len(W) + 1] = t
         /\ Prefix(s, Append(W, t)) /\ Prefix(W, Append(W, t))
<1>1. /\ Append(W, t) \in Seq(Txn) /\ Len(Append(W, t)) = Len(W) + 1
      /\ \A i \in 1..Len(W) : Append(W, t)[i] = W[i]
      /\ Append(W, t)[Len(W) + 1] = t
  BY AppendProperties
<1>2. QED BY <1>1, LenProperties DEF Prefix

---------------------------------------------------------------------------
(* Reading a log.                                                           *)

(* What a frame says, and where it is. *)
LEMMA FrameCell ==
  ASSUME NEW C, NEW W \in Seq(Txn), NEW lo \in Nat, NEW i, Frame(C, i, lo, W)
  PROVE  /\ i \in Nat /\ C[i].kind \in {"begin", "commit"}
         /\ C[i].epoch \in (lo + 1)..Len(W) /\ C[i].id = W[C[i].epoch]
         /\ C[i].kind = "begin" <=> i = 2 * (C[i].epoch - lo) - 1
         /\ C[i].kind = "commit" <=> i = 2 * (C[i].epoch - lo)
         /\ C[i] # Zero
<1>1. PICK e \in (lo + 1)..Len(W) :
        \/ i = 2 * (e - lo) - 1 /\ C[i] = BeginCell(W, e)
        \/ i = 2 * (e - lo) /\ C[i] = CommitCell(W, e)
  BY DEF Frame
<1>2. e \in Nat /\ e > lo
  OBVIOUS
<1>3. CASE i = 2 * (e - lo) - 1 /\ C[i] = BeginCell(W, e)
  BY <1>2, <1>3 DEF BeginCell, Zero
<1>4. CASE i = 2 * (e - lo) /\ C[i] = CommitCell(W, e)
  BY <1>2, <1>4 DEF CommitCell, Zero
<1>5. QED BY <1>1, <1>3, <1>4

LEMMA FramePlace ==
  ASSUME NEW C, NEW W \in Seq(Txn), NEW lo \in Nat, NEW i, Frame(C, i, lo, W)
  PROVE  /\ C[i].epoch \in (lo + 1)..Len(W)
         /\ i = 2 * (C[i].epoch - lo) - 1 \/ i = 2 * (C[i].epoch - lo)
<1>1. PICK e \in (lo + 1)..Len(W) :
        \/ i = 2 * (e - lo) - 1 /\ C[i] = BeginCell(W, e)
        \/ i = 2 * (e - lo) /\ C[i] = CommitCell(W, e)
  BY DEF Frame
<1>2. C[i].epoch = e
  BY <1>1 DEF BeginCell, CommitCell
<1>3. i = 2 * (e - lo) - 1 \/ i = 2 * (e - lo)
  BY <1>1
<1>4. QED BY <1>2, <1>3

(* A frame of a sequence is one of every beginning that reaches it, and of  *)
(* every sequence it begins.                                                *)
LEMMA FrameShorter ==
  ASSUME NEW C, NEW W \in Seq(Txn), NEW U \in Seq(Txn), Prefix(U, W), NEW lo \in Nat,
         NEW i, Frame(C, i, lo, W), C[i].epoch <= Len(U)
  PROVE  Frame(C, i, lo, U)
<1>1. PICK e \in (lo + 1)..Len(W) :
        \/ i = 2 * (e - lo) - 1 /\ C[i] = BeginCell(W, e)
        \/ i = 2 * (e - lo) /\ C[i] = CommitCell(W, e)
  BY DEF Frame
<1>2. C[i].epoch = e
  BY <1>1 DEF BeginCell, CommitCell
<1>3. e \in (lo + 1)..Len(U) /\ e \in 1..Len(U)
  BY <1>2, LenProperties
<1>4. BeginCell(U, e) = BeginCell(W, e) /\ CommitCell(U, e) = CommitCell(W, e)
  BY <1>3 DEF BeginCell, CommitCell, Prefix
<1>5. QED BY <1>1, <1>3, <1>4 DEF Frame

LEMMA FrameLonger ==
  ASSUME NEW C, NEW W \in Seq(Txn), NEW U \in Seq(Txn), Prefix(U, W), NEW lo \in Nat,
         NEW i, Frame(C, i, lo, U)
  PROVE  Frame(C, i, lo, W)
<1>1. PICK e \in (lo + 1)..Len(U) :
        \/ i = 2 * (e - lo) - 1 /\ C[i] = BeginCell(U, e)
        \/ i = 2 * (e - lo) /\ C[i] = CommitCell(U, e)
  BY DEF Frame
<1>2. e \in (lo + 1)..Len(W) /\ e \in 1..Len(U)
  BY <1>1, LenProperties DEF Prefix
<1>3. BeginCell(U, e) = BeginCell(W, e) /\ CommitCell(U, e) = CommitCell(W, e)
  BY <1>2 DEF BeginCell, CommitCell, Prefix
<1>4. QED BY <1>1, <1>2, <1>3 DEF Frame

(* Cells alike hold the same frames. *)
LEMMA FrameSame ==
  ASSUME NEW C, NEW D, NEW W, NEW lo, NEW i, D[i] = C[i], Frame(C, i, lo, W)
  PROVE  Frame(D, i, lo, W)
BY DEF Frame

(* A commit of W above s is where W puts it, over everything before it. *)
LEMMA LogBelow ==
  ASSUME NEW C, NEW W \in Seq(Txn), NEW lo \in Nat, NEW s \in Nat, lo <= s,
         Log(C, lo, W, s), NEW i \in Index, NEW e \in (s + 1)..Len(W), IsCommit(C, i, e)
  PROVE  /\ i = 2 * (e - lo)
         /\ \A j \in 1..i : Frame(C, j, lo, W) /\ C[j].epoch <= e
<1>1. i \in Nat /\ i >= 1 /\ e \in Nat /\ e > lo
  BY DEF Index
<1>2. \A j \in 1..i : Frame(C, j, lo, W)
  BY DEF Log
<1>3. i = 2 * (e - lo)
  <2>1. Frame(C, i, lo, W)
    BY <1>1, <1>2
  <2>2. QED BY <2>1, FrameCell DEF IsCommit
<1>4. ASSUME NEW j \in 1..i PROVE C[j].epoch <= e
  <2>1. /\ C[j].epoch \in (lo + 1)..Len(W)
        /\ j = 2 * (C[j].epoch - lo) - 1 \/ j = 2 * (C[j].epoch - lo)
    BY <1>2, FramePlace
  <2>2. QED BY <1>1, <1>3, <2>1
<1>5. QED BY <1>2, <1>3, <1>4

(* A log of W is a log of what begins W. *)
LEMMA LogShorter ==
  ASSUME NEW C, NEW W \in Seq(Txn), NEW U \in Seq(Txn), Prefix(U, W), NEW lo \in Nat,
         NEW s \in Nat, lo <= s, Log(C, lo, W, s)
  PROVE  Log(C, lo, U, s)
<1> SUFFICES ASSUME NEW i \in Index, NEW e \in (s + 1)..Len(U), IsCommit(C, i, e),
                    NEW j \in 1..i
             PROVE  Frame(C, j, lo, U)
  BY DEF Log
<1>1. e \in (s + 1)..Len(W)
  BY LenProperties DEF Prefix
<1>2. Frame(C, j, lo, W) /\ C[j].epoch <= e
  BY <1>1, LogBelow
<1>3. C[j].epoch <= Len(U)
  <2>1. C[j].epoch \in (lo + 1)..Len(W)
    BY <1>2, FrameCell
  <2>2. QED BY <1>2, <2>1, LenProperties
<1>4. QED BY <1>2, <1>3, FrameShorter

(* The places of a log that starts after fold lo: the begin of commit x is at *)
(* 2 * (x - lo) - 1 and its commit frame one further, so no place holds both   *)
(* kinds and a place tells its commit (the alternation build_records writes).  *)
LEMMA PlacesDiffer ==
  \A e, x, lo \in Nat : /\ 2 * (e - lo) # 2 * (x - lo) - 1
                        /\ 2 * (e - lo) - 1 # 2 * (x - lo)
                        /\ 2 * (e - lo) = 2 * (x - lo) => x = e
                        /\ 2 * (e - lo) - 1 = 2 * (x - lo) - 1 => x = e
OBVIOUS

(* What replay delivers of a log of W above s is W from s on, to the last    *)
(* commit there is.                                                          *)
LEMMA ReplayDelivers ==
  ASSUME NEW C \in [Index -> Cell], NEW n \in 0..MaxLog, NEW W \in Seq(Txn),
         NEW lo \in Nat, NEW s \in Nat, lo <= s, s <= Len(W),
         Log(C, lo, W, s), Capped(C, W)
  PROVE  LET r == Replay(C, n, s)
         IN  /\ r.epoch \in s..Len(W)
             /\ r.out \in Seq(Txn) /\ Len(r.out) = r.epoch - s
             /\ \A k \in 1..(r.epoch - s) : r.out[k] = W[s + k]
             /\ \A i \in 1..n : \A e \in (s + 1)..Len(W) :
                  IsCommit(C, i, e) => e <= r.epoch
<1> DEFINE K == Commits(C, n, s)
           E == {s} \cup {C[i].epoch : i \in K}
           m == Max(E)
           whole == {i \in K \ {1} : C[i - 1].kind = "begin"}
<1> HIDE DEF K, E, m, whole
<1>00. \A j : Frame(C, j, lo, W) =>
                /\ C[j].kind \in {"begin", "commit"} /\ C[j].epoch \in Nat
                /\ C[j].id = W[C[j].epoch]
                /\ C[j].kind = "begin" => j = 2 * (C[j].epoch - lo) - 1
                /\ C[j].kind = "commit" => j = 2 * (C[j].epoch - lo)
  <2>1. ASSUME NEW j, Frame(C, j, lo, W)
        PROVE  /\ C[j].kind \in {"begin", "commit"} /\ C[j].epoch \in (lo + 1)..Len(W)
               /\ C[j].id = W[C[j].epoch]
               /\ C[j].kind = "begin" => j = 2 * (C[j].epoch - lo) - 1
               /\ C[j].kind = "commit" => j = 2 * (C[j].epoch - lo)
    BY <2>1, FrameCell
  <2>2. \A x : x \in (lo + 1)..Len(W) => x \in Nat
    OBVIOUS
  <2>3. QED BY <2>1, <2>2
<1> USE DEF K, E, m, whole
<1>0. MaxLog \in Nat /\ Len(W) \in Nat /\ \A i \in 1..n : i \in Index
  BY RecoveryAssumption, LenProperties DEF Index
<1>1. ASSUME NEW i \in K
      PROVE  /\ i \in 1..n /\ i \in Index /\ C[i].epoch \in (s + 1)..Len(W)
             /\ IsCommit(C, i, C[i].epoch)
  <2>1. i \in 1..n /\ i \in Index /\ C[i].kind = "commit" /\ C[i].epoch > s
    BY <1>0 DEF Commits
  <2>2. C[i].epoch \in Nat /\ C[i].epoch <= Len(W)
    BY <2>1 DEF Cell, Capped
  <2>3. QED BY <2>1, <2>2, <1>0 DEF IsCommit
<1>2. /\ m \in E /\ m \in s..Len(W) /\ \A y \in E : y <= m
  <2>1. E \subseteq Nat /\ E # {} /\ \A y \in E : y \in s..Len(W)
    BY <1>0, <1>1
  <2>2. \A y \in E : y <= Len(W)
    BY <2>1
  <2> HIDE DEF E
  <2>3. m \in E /\ \A y \in E : y <= m
    BY <1>0, <2>1, <2>2, MaxGreatest
  <2>4. QED BY <2>1, <2>3
<1> HIDE DEF m
<1>3. \A i \in K : C[i].epoch <= m /\ i = 2 * (C[i].epoch - lo)
  <2>1. \A i \in K : C[i].epoch <= m
    BY <1>2
  <2>2. ASSUME NEW i \in K PROVE i = 2 * (C[i].epoch - lo)
    BY <1>1, LogBelow
  <2>3. QED BY <2>1, <2>2
<1>4. ASSUME NEW e \in (s + 1)..m
      PROVE  /\ 2 * (e - lo) \in K /\ C[2 * (e - lo)].epoch = e
             /\ C[2 * (e - lo) - 1].kind = "begin" /\ C[2 * (e - lo) - 1].id = W[e]
             /\ 2 * (e - lo) # 1
  <2>1. PICK i \in K : C[i].epoch = m
    BY <1>2
  <2>2. m \in (s + 1)..Len(W) /\ IsCommit(C, i, m) /\ i \in 1..n /\ i \in Index
    BY <1>1, <2>1
  <2>3. i = 2 * (m - lo) /\ \A j \in 1..i : Frame(C, j, lo, W)
    BY <2>2, LogBelow
  <2>4. /\ 2 * (e - lo) \in 1..i /\ 2 * (e - lo) - 1 \in 1..i /\ e \in Nat
        /\ 2 * (e - lo) \in 1..n
    BY <2>2, <2>3
  <2>6. C[2 * (e - lo)].epoch = e /\ C[2 * (e - lo)].kind = "commit"
    <3>1. ASSUME NEW j \in 1..i, j = 2 * (e - lo) PROVE C[j].epoch = e /\ C[j].kind = "commit"
      <4>1. /\ C[j].kind \in {"begin", "commit"} /\ C[j].epoch \in Nat
            /\ C[j].kind = "begin" => j = 2 * (C[j].epoch - lo) - 1
            /\ C[j].kind = "commit" => j = 2 * (C[j].epoch - lo)
        <5>1. Frame(C, j, lo, W)
          BY <2>3
        <5>2. QED BY ONLY <5>1, <1>00
      <4>2. e \in Nat
        BY <2>4
      <4>3. PICK k, x : k = C[j].kind /\ x = C[j].epoch
        OBVIOUS
      <4>4. /\ k \in {"begin", "commit"} /\ x \in Nat
            /\ k = "begin" => j = 2 * (x - lo) - 1
            /\ k = "commit" => j = 2 * (x - lo)
        BY ONLY <4>1, <4>3
      <4>5. lo \in Nat /\ 2 * (e - lo) # 2 * (x - lo) - 1
        BY ONLY <4>2, <4>4, PlacesDiffer, lo \in Nat
      <4>6. k = "commit"
        BY ONLY <3>1, <4>4, <4>5
      <4>7. 2 * (e - lo) = 2 * (x - lo)
        BY ONLY <3>1, <4>4, <4>6
      <4>8. x = e
        BY ONLY <4>2, <4>4, <4>5, <4>7, PlacesDiffer
      <4>9. QED BY ONLY <4>3, <4>6, <4>8
    <3>2. QED BY <2>4, <3>1
  <2>8. /\ C[2 * (e - lo) - 1].epoch = e /\ C[2 * (e - lo) - 1].kind = "begin"
        /\ C[2 * (e - lo) - 1].id = W[e]
    <3>1. ASSUME NEW j \in 1..i, j = 2 * (e - lo) - 1
          PROVE  C[j].epoch = e /\ C[j].kind = "begin" /\ C[j].id = W[e]
      <4>1. /\ C[j].kind \in {"begin", "commit"} /\ C[j].epoch \in Nat
            /\ C[j].id = W[C[j].epoch]
            /\ C[j].kind = "begin" => j = 2 * (C[j].epoch - lo) - 1
            /\ C[j].kind = "commit" => j = 2 * (C[j].epoch - lo)
        <5>1. Frame(C, j, lo, W)
          BY <2>3
        <5>2. QED BY ONLY <5>1, <1>00
      <4>2. C[j].epoch = e /\ C[j].kind = "begin"
        <5>1. e \in Nat
          BY <2>4
        <5>2. PICK k, x : k = C[j].kind /\ x = C[j].epoch
          OBVIOUS
        <5>3. /\ k \in {"begin", "commit"} /\ x \in Nat
              /\ k = "begin" => j = 2 * (x - lo) - 1
              /\ k = "commit" => j = 2 * (x - lo)
          BY ONLY <4>1, <5>2
        <5>4. lo \in Nat /\ 2 * (e - lo) - 1 # 2 * (x - lo)
          BY ONLY <5>1, <5>3, PlacesDiffer, lo \in Nat
        <5>5. k = "begin"
          BY ONLY <3>1, <5>3, <5>4
        <5>6. 2 * (e - lo) - 1 = 2 * (x - lo) - 1
          BY ONLY <3>1, <5>3, <5>5
        <5>7. x = e
          BY ONLY <5>1, <5>3, <5>4, <5>6, PlacesDiffer
        <5>8. QED BY ONLY <5>2, <5>5, <5>7
      <4>3. QED BY <4>1, <4>2
    <3>2. QED BY <2>4, <3>1
  <2>9. 2 * (e - lo) \in K
    BY <2>4, <2>6 DEF Commits
  <2>10. QED BY <2>4, <2>6, <2>8, <2>9
<1>5. K = {2 * (e - lo) : e \in (s + 1)..m}
  <2>1. \A i \in K : \E e \in (s + 1)..m : i = 2 * (e - lo)
    <3>1. \A i \in K : C[i].epoch \in (s + 1)..m
      BY <1>1, <1>2, <1>3
    <3>2. QED BY <1>3, <3>1
  <2> HIDE DEF K
  <2>2. QED BY <1>4, <2>1
<1>6. whole = K
  <2>1. ASSUME NEW i \in K PROVE i # 1 /\ C[i - 1].kind = "begin"
    <3>1. PICK e \in (s + 1)..m : i = 2 * (e - lo)
      BY <1>5
    <3>2. QED BY <1>4, <3>1
  <2> HIDE DEF K
  <2>2. QED BY <2>1
<1> HIDE DEF K
<1>7. /\ Cardinality(K) = m - s
      /\ \A k \in 1..(m - s) : Nth(K, k) = 2 * (s + k - lo)
  <2>1. m \in Nat /\ s <= m
    BY <1>2
  <2>2. \A S : S = {2 * (e - lo) : e \in (s + 1)..m} =>
               /\ Cardinality(S) = m - s
               /\ \A k \in 1..(m - s) : Nth(S, k) = 2 * (s + k - lo)
    BY <2>1, NthEven
  <2>3. QED BY ONLY <1>5, <2>2
<1>8. Replay(C, n, s) = [out |-> [k \in 1..Cardinality(whole) |-> C[Nth(whole, k) - 1].id],
                         epoch |-> m]
  BY DEF Replay, K, E, whole, m
<1> HIDE DEF whole, E
<1> DEFINE out == [k \in 1..(m - s) |-> W[s + k]]
<1>9. Replay(C, n, s).epoch = m /\ Replay(C, n, s).out = out
  <2>1. ASSUME NEW k \in 1..(m - s) PROVE C[Nth(K, k) - 1].id = W[s + k]
    <3>1. s + k \in (s + 1)..m
      BY <1>2
    <3>2. C[2 * (s + k - lo) - 1].id = W[s + k]
      <4>1. \A x \in (s + 1)..m : x = s + k => C[2 * (x - lo) - 1].id = W[x]
        BY <1>4
      <4>2. QED BY ONLY <4>1, <3>1
    <3>3. QED BY <1>7, <3>2
  <2>2. [k \in 1..Cardinality(K) |-> C[Nth(K, k) - 1].id] = out
    <3>1. [k \in 1..(m - s) |-> C[Nth(K, k) - 1].id] = out
      BY <2>1
    <3> HIDE DEF out
    <3>2. QED BY <1>7, <3>1
  <2>3. Replay(C, n, s) = [out |-> out, epoch |-> m]
    BY ONLY <1>6, <1>8, <2>2
  <2>4. QED BY ONLY <2>3
<1>10. out \in Seq(Txn) /\ Len(out) = m - s /\ \A k \in 1..(m - s) : out[k] = W[s + k]
  <2>1. \A k \in 1..(m - s) : W[s + k] \in Txn
    <3>1. \A k \in 1..(m - s) : s + k \in 1..Len(W)
      BY <1>0, <1>2
    <3>2. QED BY <3>1, ElementOfSeq
  <2>2. out \in [1..(m - s) -> Txn] /\ m - s \in Nat
    <3>1. m - s \in Nat
      BY <1>2
    <3>2. out \in [1..(m - s) -> Txn]
      BY <2>1
    <3>3. QED BY <3>1, <3>2
  <2> HIDE DEF out
  <2>3. out \in Seq(Txn)
    BY <2>2, IsASeq
  <2>4. Len(out) = m - s
    BY <2>2, <2>3, LenProperties
  <2>5. \A k \in 1..(m - s) : out[k] = W[s + k]
    BY DEF out
  <2>6. QED BY <2>3, <2>4, <2>5
<1>11. ASSUME NEW i \in 1..n, NEW e \in (s + 1)..Len(W), IsCommit(C, i, e)
       PROVE  e <= m
  <2>1. i \in K /\ C[i].epoch = e
    BY <1>0, <1>11 DEF K, Commits, IsCommit
  <2>2. QED BY <1>3, <2>1
<1> HIDE DEF out
<1>12. QED BY <1>2, <1>9, <1>10, <1>11

(* The places of the log. *)
LEMMA Indices ==
  /\ MaxLog \in Nat
  /\ \A i \in Index : i \in Nat /\ i >= 1 /\ i <= MaxLog /\ \A j \in 1..i : j \in Index
BY RecoveryAssumption DEF Index

(* Wal::erase leaves what is before `from`, and zeros from there on. *)
LEMMA ErasedCells ==
  ASSUME NEW C \in [Index -> Cell], NEW from \in Nat
  PROVE  /\ Erased(C, from) \in [Index -> Cell]
         /\ \A i \in Index : /\ i < from => Erased(C, from)[i] = C[i]
                             /\ i >= from => Erased(C, from)[i] = Zero
<1>1. Zero \in Cell
  BY RecoveryAssumption DEF Zero, Cell
<1>2. \A i \in Index : i \in Int
  BY DEF Index
<1>3. QED BY <1>1, <1>2 DEF Erased

(* Wal::rollback_above keeps the frames up to the first above the floor. *)
LEMMA CutPlace ==
  ASSUME NEW C \in [Index -> Cell], NEW n \in 0..MaxLog, NEW f \in Nat
  PROVE  /\ CutAt(C, n, f) \in 0..n
         /\ \A j \in 1..CutAt(C, n, f) : C[j].epoch <= f
         /\ CutAt(C, n, f) < n => C[CutAt(C, n, f) + 1].epoch > f
<1> DEFINE above == {i \in 1..n : C[i].epoch > f}
<1>1. CutAt(C, n, f) = IF above = {} THEN n ELSE Min(above) - 1
  BY DEF CutAt
<1>2. n \in Nat /\ \A i \in 1..n : C[i].epoch \in Nat /\ i \in Nat
  BY RecoveryAssumption DEF Cell, Index
<1>3. CASE above = {}
  BY <1>1, <1>2, <1>3
<1>4. CASE above # {}
  <2>1. above \subseteq Nat
    BY <1>2
  <2>2. Min(above) \in above /\ \A y \in above : Min(above) <= y
    <3> HIDE DEF above
    <3>1. QED BY <1>4, <2>1, MinLeast
  <2> DEFINE k == Min(above)
  <2>3. k \in 1..n /\ C[k].epoch > f /\ \A j \in 1..n : C[j].epoch > f => k <= j
    BY <2>2
  <2>4. CutAt(C, n, f) = k - 1
    BY <1>1, <1>4
  <2> HIDE DEF k, above
  <2>5. k - 1 \in 0..n /\ (k - 1) + 1 = k
    BY <1>2, <2>3
  <2>6. \A j \in 1..(k - 1) : C[j].epoch <= f
    BY <1>2, <2>3
  <2>7. QED BY <2>3, <2>4, <2>5, <2>6
<1>5. QED BY <1>3, <1>4

(* next_frame stops at the first cell that is no frame. *)
LEMMA IntactPlace ==
  ASSUME NEW C \in [Index -> Cell]
  PROVE  /\ Intact(C) \in 0..MaxLog
         /\ \A j \in Index : (\A i \in 1..j : C[i].kind # "zero") => j <= Intact(C)
<1> DEFINE bad == {i \in Index : C[i].kind = "zero"}
<1>1. Intact(C) = IF bad = {} THEN MaxLog ELSE Min(bad) - 1
  BY DEF Intact
<1>2. MaxLog \in Nat
  BY RecoveryAssumption
<1>3. CASE bad = {}
  BY <1>1, <1>2, <1>3 DEF Index
<1>4. CASE bad # {}
  <2>1. bad \subseteq Nat
    BY DEF Index
  <2>2. Min(bad) \in bad
    <3> HIDE DEF bad
    <3>1. QED BY <1>4, <2>1, MinLeast
  <2> DEFINE k == Min(bad)
  <2>3. k \in 1..MaxLog /\ C[k].kind = "zero"
    BY <2>2 DEF Index
  <2>4. Intact(C) = k - 1
    BY <1>1, <1>4
  <2> HIDE DEF k, bad
  <2>5. k - 1 \in 0..MaxLog
    BY <1>2, <2>3
  <2>6. ASSUME NEW j \in Index, \A i \in 1..j : C[i].kind # "zero" PROVE j <= k - 1
    <3>1. j \in Nat /\ ~(k \in 1..j)
      BY <2>3, <2>6 DEF Index
    <3>2. QED BY <2>3, <3>1
  <2>7. QED BY <2>4, <2>5, <2>6
<1>5. QED BY <1>3, <1>4

(* What an erasure of the end of a log leaves is a log. *)
LEMMA LogErased ==
  ASSUME NEW C \in [Index -> Cell], NEW from \in Nat, NEW W \in Seq(Txn), NEW lo \in Nat,
         NEW s \in Nat, Log(C, lo, W, s)
  PROVE  Log(Erased(C, from), lo, W, s)
<1> DEFINE D == Erased(C, from)
<1> SUFFICES ASSUME NEW i \in Index, NEW e \in (s + 1)..Len(W), IsCommit(D, i, e),
                    NEW j \in 1..i
             PROVE  Frame(D, j, lo, W)
  BY DEF Log
<1>1. \A k \in Index : /\ k < from => D[k] = C[k]
                       /\ k >= from => D[k] = Zero
  BY ErasedCells
<1> HIDE DEF D
<1>2. i < from
  <2>1. D[i] # Zero
    BY DEF IsCommit, Zero
  <2>2. QED BY <1>1, <2>1 DEF Index
<1>3. j \in Index /\ j < from
  BY <1>2, Indices DEF Index
<1>4. IsCommit(C, i, e)
  BY <1>1, <1>2 DEF IsCommit
<1>5. Frame(C, j, lo, W)
  BY <1>4 DEF Log
<1>6. D[j] = C[j]
  BY <1>1, <1>3
<1>7. QED BY <1>5, <1>6, FrameSame

(* The commits of W above s are among the frames an open finds, and none of  *)
(* them is cut by a rollback to the end of W.                                *)
LEMMA OpenKeeps ==
  ASSUME NEW C \in [Index -> Cell], NEW W \in Seq(Txn), NEW lo \in Nat,
         NEW s \in Nat, lo <= s, Log(C, lo, W, s), NEW i \in Index,
         NEW e \in (s + 1)..Len(W), IsCommit(C, i, e)
  PROVE  IsCommit(Erased(C, Intact(C) + 1), i, e)
<1>1. \A j \in 1..i : C[j].kind # "zero"
  BY LogBelow, FrameCell
<1>2. i <= Intact(C) /\ Intact(C) \in Nat
  BY <1>1, IntactPlace, RecoveryAssumption
<1>3. i < Intact(C) + 1 /\ Intact(C) + 1 \in Nat
  BY <1>2 DEF Index
<1>4. Erased(C, Intact(C) + 1)[i] = C[i]
  BY <1>3, ErasedCells
<1>5. QED BY <1>4 DEF IsCommit

LEMMA CutKeeps ==
  ASSUME NEW C \in [Index -> Cell], NEW W \in Seq(Txn), NEW lo \in Nat,
         NEW s \in Nat, lo <= s, Log(C, lo, W, s), NEW n \in 0..MaxLog, NEW i \in 1..n,
         NEW e \in (s + 1)..Len(W), IsCommit(C, i, e), NEW f \in Nat, Len(W) <= f
  PROVE  IsCommit(Erased(C, CutAt(C, n, f) + 1), i, e)
<1> DEFINE c == CutAt(C, n, f)
<1>0. i \in Index /\ n \in Nat /\ i \in Nat
  BY RecoveryAssumption DEF Index
<1>1. \A j \in 1..i : C[j].epoch <= f
  <2>1. \A j \in 1..i : C[j].epoch <= e /\ C[j].epoch \in Nat
    <3>1. \A j \in 1..i : Frame(C, j, lo, W) /\ C[j].epoch <= e
      BY <1>0, LogBelow
    <3>2. \A j \in 1..i : C[j].epoch \in (lo + 1)..Len(W)
      BY <3>1, FrameCell
    <3>3. QED BY <3>1, <3>2
  <2>2. QED BY <2>1, LenProperties
<1>2. c \in 0..n /\ (c < n => C[c + 1].epoch > f)
  BY CutPlace
<1> HIDE DEF c
<1>3. i <= c
  <2>1. ASSUME c < i PROVE FALSE
    <3>1. c + 1 \in 1..i /\ c < n
      BY <1>0, <1>2, <2>1
    <3>2. \A j \in 1..i : C[j].epoch \in Nat /\ C[j].epoch <= f
      <4>1. \A j \in 1..i : C[j] \in Cell
        BY <1>0, Indices
      <4>2. QED BY <1>1, <4>1 DEF Cell
    <3>3. QED BY <1>2, <3>1, <3>2
  <2>2. QED BY <1>0, <1>2, <2>1
<1>4. c + 1 \in Nat /\ i < c + 1
  BY <1>0, <1>2, <1>3
<1>5. Erased(C, c + 1)[i] = C[i]
  BY <1>0, <1>4, ErasedCells
<1>6. QED BY <1>5 DEF IsCommit, c

(* Nothing above the floor is left by the cut. *)
LEMMA CutCapped ==
  ASSUME NEW C \in [Index -> Cell], NEW n \in 0..MaxLog, NEW f \in Nat, NEW W \in Seq(Txn),
         Len(W) = f
  PROVE  Capped(Erased(C, CutAt(C, n, f) + 1), W)
<1> DEFINE c == CutAt(C, n, f)
           D == Erased(C, c + 1)
<1>1. c \in 0..n /\ \A j \in 1..c : C[j].epoch <= f
  BY CutPlace
<1> HIDE DEF c
<1>2. c + 1 \in Nat /\ \A i \in Index : i < c + 1 => i \in 1..c
  BY <1>1, RecoveryAssumption DEF Index
<1>3. \A i \in Index : /\ i < c + 1 => D[i] = C[i]
                       /\ i >= c + 1 => D[i] = Zero
  BY <1>2, ErasedCells
<1> HIDE DEF D
<1>4. ASSUME NEW i \in Index, D[i].kind = "commit" PROVE D[i].epoch <= Len(W)
  <2>1. D[i] # Zero
    BY <1>4 DEF Zero
  <2>2. i < c + 1
    BY <1>2, <1>3, <2>1 DEF Index
  <2>3. QED BY <1>1, <1>2, <1>3, <2>2
<1>5. QED BY <1>4 DEF Capped, D, c

---------------------------------------------------------------------------
(* The state.                                                               *)

(* What is folded, and then what is not. *)
LEMMA ViewParts ==
  ASSUME base \in Hdr, overlay \in Seq(Txn)
  PROVE  /\ View \in Seq(Txn) /\ Len(View) = Len(base.content) + Len(overlay)
         /\ Len(base.content) \in Nat /\ Len(overlay) \in Nat
         /\ Prefix(base.content, View)
         /\ \A k \in 1..Len(overlay) : View[Len(base.content) + k] = overlay[k]
<1>1. base.content \in Seq(Txn)
  BY DEF Hdr
<1> DEFINE b == base.content
<1> HIDE DEF b
<1>2. b \in Seq(Txn)
  BY <1>1 DEF b
<1>3. /\ b \o overlay \in Seq(Txn) /\ Len(b \o overlay) = Len(b) + Len(overlay)
      /\ \A i \in 1..(Len(b) + Len(overlay)) :
           (b \o overlay)[i] = IF i <= Len(b) THEN b[i] ELSE overlay[i - Len(b)]
  BY <1>2, ConcatProperties
<1>4. Len(b) \in Nat /\ Len(overlay) \in Nat
  BY <1>2, LenProperties
<1>5. \A i \in 1..Len(b) : (b \o overlay)[i] = b[i]
  BY <1>3, <1>4
<1>6. \A k \in 1..Len(overlay) : (b \o overlay)[Len(b) + k] = overlay[k]
  BY <1>3, <1>4
<1>7. QED BY <1>3, <1>4, <1>5, <1>6 DEF View, Prefix, b

(* Two sequences with the same members are one. *)
LEMMA SameSeq ==
  ASSUME NEW U \in Seq(Txn), NEW W \in Seq(Txn), Len(U) = Len(W),
         \A i \in 1..Len(W) : U[i] = W[i]
  PROVE  U = W
BY SeqEqual

(* A beginning of W and the rest of W make up W. *)
LEMMA WholeParts ==
  ASSUME NEW b \in Seq(Txn), NEW o \in Seq(Txn), NEW W \in Seq(Txn), Prefix(b, W),
         Len(o) = Len(W) - Len(b), \A k \in 1..Len(o) : o[k] = W[Len(b) + k]
  PROVE  b \o o = W
<1>1. /\ Len(b) \in Nat /\ Len(o) \in Nat /\ Len(W) \in Nat
      /\ \A i \in 1..Len(b) : b[i] = W[i]
  BY LenProperties DEF Prefix
<1>2. /\ b \o o \in Seq(Txn) /\ Len(b \o o) = Len(b) + Len(o)
      /\ \A i \in 1..Len(b) : (b \o o)[i] = b[i]
      /\ \A i \in (Len(b) + 1)..(Len(b) + Len(o)) : (b \o o)[i] = o[i - Len(b)]
  BY ConcatProperties
<1>3. ASSUME NEW i \in 1..Len(W) PROVE (b \o o)[i] = W[i]
  <2>1. CASE i <= Len(b)
    BY <1>1, <1>2, <2>1
  <2>2. CASE i > Len(b)
    <3>1. i \in (Len(b) + 1)..(Len(b) + Len(o)) /\ i - Len(b) \in 1..Len(o)
          /\ Len(b) + (i - Len(b)) = i
      BY <1>1, <2>2
    <3>2. \A k \in 1..Len(o) : Len(b) + k = i => o[k] = W[i]
      OBVIOUS
    <3>3. o[i - Len(b)] = W[i]
      BY <3>1, <3>2
    <3>4. QED BY <1>2, <3>1, <3>3
  <2>3. QED BY <1>1, <2>1, <2>2
<1>4. Len(b \o o) = Len(W)
  BY <1>1, <1>2
<1>5. QED BY <1>2, <1>3, <1>4, SameSeq

(* The next commit gets the first number not used. *)
LEMMA NextNumber ==
  ASSUME NEW k \in 0..MaxTxn, \A t \in Txn : status[t] = "new" <=> t > k
  PROVE  Next1 = k + 1
<1>1. MaxTxn \in Nat /\ k \in Nat
  BY RecoveryAssumption
<1>2. {t \in Txn : status[t] # "new"} = 1..k
  BY <1>1 DEF Txn
<1>3. Cardinality(1..k) = k
  BY <1>1, FS_Interval
<1>4. QED BY <1>2, <1>3 DEF Next1

(* What the disk has of a log being written is a log. *)
LEMMA DiskLog ==
  ASSUME TypeInv, NEW W \in Seq(Txn), NEW lo \in Nat, NEW s \in Nat,
         Written(lo, W), Live(s)
  PROVE  Log(disk, lo, W, s) /\ (s <= Len(W) => Capped(disk, W))
<1>0. len \in Nat /\ disk \in [Index -> Cell] /\ cache \in [Index -> Cell]
  BY Indices DEF TypeInv, TypeOK
<1>1. ASSUME NEW i \in Index, disk[i].kind = "commit", disk[i].epoch > s
      PROVE  \A j \in 1..i : Frame(disk, j, lo, W)
  <2>1. \A j \in 1..i : disk[j] = cache[j]
    BY <1>1 DEF Live
  <2>2. i <= len
    <3>1. cache[i] # Zero
      BY <1>1, <2>1, Indices DEF Zero
    <3>2. QED BY <1>0, <3>1, Indices DEF Written
  <2>3. \A j \in 1..i : Frame(cache, j, lo, W)
    BY <1>0, <2>2, Indices DEF Written
  <2>4. QED BY <2>1, <2>3, FrameSame
<1>2. Log(disk, lo, W, s)
  BY <1>1 DEF Log, IsCommit
<1>3. ASSUME s <= Len(W) PROVE Capped(disk, W)
  <2>1. ASSUME NEW i \in Index, disk[i].kind = "commit" PROVE disk[i].epoch <= Len(W)
    <3>1. CASE disk[i].epoch > s
      <4>1. Frame(disk, i, lo, W)
        BY <1>1, <2>1, <3>1, Indices
      <4>2. QED BY <4>1, FrameCell
    <3>2. CASE ~(disk[i].epoch > s)
      <4>1. disk[i].epoch \in Nat
        BY <1>0 DEF Cell
      <4>2. QED BY <1>3, <3>2, <4>1, LenProperties
    <3>3. QED BY <3>1, <3>2
  <2>2. QED BY <2>1 DEF Capped
<1>4. QED BY <1>2, <1>3

(* The fields of a savepoint and of its marker. *)
LEMMA SavepointFields ==
  ASSUME TypeInv
  PROVE  /\ save.on => save \in Savepoints
         /\ save.on => /\ save.base \in Hdr /\ save.floor \in Nat
                       /\ save.base.seq \in Nat /\ save.base.epoch \in Nat
                       /\ save.base.content \in Seq(Txn)
         /\ marker.on => marker \in Markers
         /\ marker.on => /\ marker.base \in Hdr /\ marker.floor \in Nat
                         /\ marker.base.seq \in Nat /\ marker.base.epoch \in Nat
                         /\ marker.base.content \in Seq(Txn)
         /\ ~marker.on => marker = NoMarker
<1>1. \A h \in Hdr : h.seq \in Nat /\ h.epoch \in Nat /\ h.content \in Seq(Txn)
  BY DEF Hdr
<1>2. \A m \in Markers : m.on /\ m.base \in Hdr /\ m.floor \in Nat
  BY DEF Markers
<1>3. \A m \in Savepoints : m.on /\ m.base \in Hdr /\ m.floor \in Nat
  BY DEF Savepoints
<1>4. save \in Savepoints \/ (save = NoSave /\ ~save.on)
  BY DEF TypeInv, NoSave
<1>5. marker \in Markers \/ (marker = NoMarker /\ ~marker.on)
  BY DEF TypeInv, NoMarker
<1>6. QED BY <1>1, <1>2, <1>3, <1>4, <1>5

(* A log just created. *)
LEMMA InitInv == Init => Inv
<1> SUFFICES ASSUME Init PROVE Inv
  OBVIOUS
<1> USE DEF Init
<1>1. /\ <<>> \in Seq(Txn) /\ Len(<<>>) = 0 /\ MaxTxn \in Nat /\ MaxLog \in Nat /\ MaxCrash \in Nat
      /\ 1..0 = {}
  BY RecoveryAssumption
<1>2. Zero \in Cell
  BY <1>1 DEF Zero, Cell
<1>3. slot \in Hdr /\ base \in Hdr
  BY <1>1 DEF Hdr
<1>4. TypeInv
  <2>1. slot.epoch <= base.epoch /\ epoch \in 0..MaxTxn /\ floor \in Nat
    BY <1>1
  <2>2. TypeOK
    <3>1. cache \in [Index -> Cell] /\ disk \in [Index -> Cell]
      BY <1>2
    <3>2. len \in 0..MaxLog /\ mine \subseteq Txn
      BY <1>1
    <3>5. owed \in BOOLEAN
      OBVIOUS
    <3>3. status \in [Txn -> {"new", "staged", "acked", "unsure", "undone"}]
      OBVIOUS
    <3>4. QED BY <2>1, <3>1, <3>2, <3>3, <3>5 DEF TypeOK
  <2>3. ~marker.on /\ ~save.on /\ marker.on \in BOOLEAN /\ save.on \in BOOLEAN
    BY DEF NoMarker, NoSave
  <2>4. overlay \in Seq(Txn)
    BY <1>1
  <2>5. QED BY <1>3, <2>1, <2>2, <2>3, <2>4 DEF TypeInv
<1>5. ControlInv
  BY DEF ControlInv, InSavepoint, Working, NoMarker, NoSave
<1>6. View = <<>>
  <2>1. View \in Seq(Txn) /\ Len(View) = 0
    BY <1>1, <1>3, ViewParts
  <2>2. QED BY <2>1, EmptySeq
<1>7. State(<<>>, 0)
  <2>1. StatusInv(<<>>)
    <3>1. \A t \in Txn : t > 0
      BY <1>1 DEF Txn
    <3>2. \A t \in Txn : status[t] = "new"
      OBVIOUS
    <3>3. 0 \in Len(<<>>)..MaxTxn /\ mine = {} /\ Working /\ 1..Len(<<>>) = {}
      BY <1>1 DEF Working
    <3>4. QED BY <3>1, <3>2, <3>3 DEF StatusInv
  <2>2. \A i \in Index : i > 0 => cache[i] = Zero
    OBVIOUS
  <2>4. Written(0, <<>>)
    BY <1>1, <2>2 DEF Written
  <2>5. Live(slot.seq)
    BY DEF Live
  <2>6. (slot.seq + 1)..Len(<<>>) = {}
    BY <1>1
  <2>7. Acked(<<>>, slot.seq)
    BY <2>6 DEF Acked
  <2>8. HdrOK(base, <<>>) /\ HdrOK(slot, <<>>) /\ BaseInv
    BY <1>1 DEF HdrOK, Prefix, BaseInv
  <2>9. ServeInv(<<>>)
    BY <1>1, <1>6, <2>8 DEF ServeInv, InSavepoint
  <2>10. QED BY <2>1, <2>4, <2>5, <2>7, <2>9 DEF State, WorkInv, Working
<1>8. QED BY <1>1, <1>4, <1>5, <1>7 DEF Inv

---------------------------------------------------------------------------
(* Types.                                                                   *)

(* The log, its disk and its end. *)
LEMMA LogTypes ==
  ASSUME TypeInv, ControlInv, [Next]_vars
  PROVE  cache' \in [Index -> Cell] /\ disk' \in [Index -> Cell] /\ len' \in 0..MaxLog
<1>1. /\ cache \in [Index -> Cell] /\ disk \in [Index -> Cell] /\ len \in 0..MaxLog
      /\ MaxLog \in Nat /\ len \in Nat
  BY Indices DEF TypeInv, TypeOK
<1>2. CASE UNCHANGED logVars
  BY <1>1, <1>2 DEF logVars
<1>3. CASE \E i \in Index : Writeback(i)
  BY <1>1, <1>3 DEF Writeback
<1>4. CASE StageCommit
  <2>1. Next1 \in 0..MaxTxn /\ len + 2 \in 0..MaxLog
    <3>1. Next1 \in Nat
      <4>1. IsFiniteSet(Txn)
        BY RecoveryAssumption, FS_Interval DEF Txn
      <4>2. {t \in Txn : status[t] # "new"} \in SUBSET Txn
        OBVIOUS
      <4>3. QED BY <4>1, <4>2, FS_Subset, FS_CardinalityType DEF Next1
    <3>2. QED BY <1>1, <1>4, <3>1, RecoveryAssumption DEF StageCommit, ControlInv
  <2>2. epoch + 1 \in Nat
    BY RecoveryAssumption DEF TypeInv, TypeOK
  <2> DEFINE cell(kind) == [kind |-> kind, epoch |-> epoch + 1, id |-> Next1]
  <2>3. cell("begin") \in Cell /\ cell("commit") \in Cell
    BY <2>1, <2>2 DEF Cell
  <2> HIDE DEF cell
  <2>4. /\ cache' = [cache EXCEPT ![len + 1] = cell("begin"), ![len + 2] = cell("commit")]
        /\ disk' = disk /\ len' = len + 2
    BY <1>4 DEF StageCommit, cell
  <2>5. QED BY <1>1, <2>1, <2>3, <2>4
<1>5. CASE Truncate
  <2>1. Erased(cache, 1) \in [Index -> Cell]
    BY <1>1, ErasedCells
  <2>2. QED BY <1>1, <1>5, <2>1 DEF Truncate
<1>6. CASE Durable \/ DurableSealed \/ SettleInside
  BY <1>1, <1>6 DEF Durable, DurableSealed, SettleInside
<1>7. ASSUME NEW f \in Nat
      PROVE  /\ CutAt(cache, len, f) \in 0..len
             /\ Erased(cache, CutAt(cache, len, f) + 1) \in [Index -> Cell]
  <2>1. CutAt(cache, len, f) \in 0..len
    BY <1>1, CutPlace
  <2>2. CutAt(cache, len, f) + 1 \in Nat
    BY <2>1
  <2>3. QED BY <1>1, <2>1, <2>2, ErasedCells
<1>8. CASE Undo
  <2>1. save.floor \in Nat
    BY <1>8, SavepointFields DEF Undo, ControlInv
  <2>2. QED BY <1>1, <1>7, <1>8, <2>1 DEF Undo
<1>9. CASE RecoverCut
  <2>1. floor \in Nat
    BY DEF TypeInv
  <2>2. QED BY <1>1, <1>7, <1>9, <2>1 DEF RecoverCut
<1>10. CASE Crash
  BY <1>1, <1>10 DEF Crash
<1>11. CASE Open
  <2>1. Intact(disk) \in 0..MaxLog
    BY <1>1, IntactPlace
  <2>2. Intact(disk) + 1 \in Nat
    BY <2>1
  <2>3. Erased(disk, Intact(disk) + 1) \in [Index -> Cell]
    BY <1>1, <2>2, ErasedCells
  <2>4. QED BY <1>11, <2>1, <2>3 DEF Open
<1>12. QED
  <2>1. CASE \E across \in BOOLEAN : Hold(across)
    BY <1>2, <2>1 DEF Hold
  <2>2. CASE Keep
    BY <1>2, <2>2 DEF Keep
  <2>3. CASE Step
    BY <1>2, <1>4, <1>5, <1>6, <1>9, <1>11, <2>3 DEF Step, StageDeferred, StagedFold,
       CheckpointFold, Settle, Commit, RollbackSavepoint, UndoDone, FinishRollback,
       ForgetKept, ReplayLog, OpenFold
  <2>4. CASE UNCHANGED vars
    BY <1>2, <2>4 DEF vars, logVars
  <2>5. QED BY <1>3, <1>8, <1>10, <2>1, <2>2, <2>3, <2>4 DEF Next

(* The log a writer has written is a log of W above anything. *)
LEMMA CacheLog ==
  ASSUME TypeInv, NEW W \in Seq(Txn), NEW lo \in Nat, NEW s \in Nat, Written(lo, W)
  PROVE  Log(cache, lo, W, s) /\ Capped(cache, W)
<1>0. len \in Nat /\ cache \in [Index -> Cell]
  BY Indices DEF TypeInv, TypeOK
<1>1. ASSUME NEW i \in Index, cache[i].kind = "commit"
      PROVE  \A j \in 1..i : Frame(cache, j, lo, W)
  <2>1. cache[i] # Zero
    BY <1>1 DEF Zero
  <2>2. i <= len
    BY <1>0, <2>1, Indices DEF Written
  <2>3. QED BY <1>0, <2>2, Indices DEF Written
<1>2. Log(cache, lo, W, s)
  BY <1>1 DEF Log, IsCommit
<1>3. ASSUME NEW i \in Index, cache[i].kind = "commit" PROVE cache[i].epoch <= Len(W)
  <2>1. Frame(cache, i, lo, W)
    BY <1>1, <1>3, Indices
  <2>2. QED BY <2>1, FrameCell
<1>4. QED BY <1>2, <1>3 DEF Capped

(* Every commit of W the log has not dropped is in it, in its place. *)
LEMMA CacheHas ==
  ASSUME TypeInv, NEW W \in Seq(Txn), NEW lo \in Nat, Written(lo, W),
         NEW e \in (lo + 1)..Len(W)
  PROVE  \E i \in 1..len : i \in Index /\ IsCommit(cache, i, e) /\ cache[i] = CommitCell(W, e)
<1>0. len \in Nat /\ len = 2 * (Len(W) - lo) /\ e \in Nat /\ len <= MaxLog /\ Len(W) \in Nat
  BY Indices, LenProperties DEF TypeInv, TypeOK, Written
<1> DEFINE i == 2 * (e - lo)
<1>1. i \in 1..len /\ i \in Index
  BY <1>0, Indices DEF Index
<1>2. Frame(cache, i, lo, W)
  BY <1>1 DEF Written
<1>3. PICK x \in (lo + 1)..Len(W) :
        \/ i = 2 * (x - lo) - 1 /\ cache[i] = BeginCell(W, x)
        \/ i = 2 * (x - lo) /\ cache[i] = CommitCell(W, x)
  BY <1>2 DEF Frame
<1>4. x = e /\ cache[i] = CommitCell(W, x)
  <2>1. \A y \in Nat : 2 * (y - lo) - 1 # 2 * (e - lo) /\ (2 * (y - lo) = 2 * (e - lo) => y = e)
    BY <1>0
  <2>2. x \in Nat
    OBVIOUS
  <2>3. QED BY <1>3, <2>1, <2>2
<1>5. IsCommit(cache, i, e)
  BY <1>4 DEF IsCommit, CommitCell
<1>6. QED BY <1>1, <1>4, <1>5

(* recover_with brings back a beginning of W: every commit in the log and,   *)
(* of a log that is whole, all of W.                                         *)
LEMMA ReplayResult ==
  ASSUME TypeInv, ControlInv, NEW W \in Seq(Txn), NEW lo \in Nat, State(W, lo), ReplayLog
  PROVE  /\ epoch' \in base.seq..Len(W) /\ HdrOK(base, W)
         /\ overlay' \in Seq(Txn) /\ Len(overlay') = epoch' - base.seq
         /\ \A k \in 1..(epoch' - base.seq) : overlay'[k] = W[base.seq + k]
         /\ \A i \in 1..len : \A e \in (base.seq + 1)..Len(W) :
              IsCommit(cache, i, e) => e <= epoch'
         /\ mode = "undo" => epoch' = Len(W)
<1>0. /\ pc = "replay" /\ mode \in {"undo", "recover"} /\ base.seq \in Nat /\ slot.seq \in Nat
      /\ cache \in [Index -> Cell] /\ len \in 0..MaxLog /\ Len(W) \in Nat
  BY LenProperties DEF ReplayLog, ControlInv, TypeInv, TypeOK, Hdr
<1>1. /\ HdrOK(base, W) /\ lo <= base.seq /\ base.seq <= Len(W)
      /\ Log(cache, lo, W, base.seq) /\ Capped(cache, W)
  <2>1. CASE mode = "undo"
    <3>1. Written(lo, W) /\ lo <= slot.seq /\ RestoredInv(W)
      BY <1>0, <2>1 DEF State, WorkInv, Working
    <3>2. HdrOK(base, W) /\ lo <= base.seq /\ base.seq <= Len(W)
      BY <1>0, <3>1 DEF RestoredInv, BaseInv, HdrOK, Prefix
    <3>3. QED BY <1>0, <3>1, <3>2, CacheLog
  <2>2. CASE mode = "recover"
    <3>1. CrashInv(W, lo) /\ RecoverInv(W)
      BY <2>2 DEF State, Working
    <3>2. base.seq = Kept.seq /\ base.content = Kept.content /\ disk = cache
          /\ Capped(disk, W) /\ HdrOK(Kept, W) /\ Log(disk, lo, W, Kept.seq) /\ lo <= Kept.seq
      BY <1>0, <3>1 DEF CrashInv, RecoverInv
    <3>3. HdrOK(base, W) /\ base.seq <= Len(W)
      BY <3>2 DEF HdrOK, Prefix
    <3>4. QED BY <3>2, <3>3
  <2>3. QED BY <1>0, <2>1, <2>2
<1> DEFINE r == Replay(cache, len, base.seq)
<1>2. epoch' = r.epoch /\ overlay' = r.out
  BY DEF ReplayLog
<1>3. /\ r.epoch \in base.seq..Len(W)
      /\ r.out \in Seq(Txn) /\ Len(r.out) = r.epoch - base.seq
      /\ \A k \in 1..(r.epoch - base.seq) : r.out[k] = W[base.seq + k]
      /\ \A i \in 1..len : \A e \in (base.seq + 1)..Len(W) :
           IsCommit(cache, i, e) => e <= r.epoch
  BY <1>0, <1>1, ReplayDelivers
<1> HIDE DEF r
<1>4. ASSUME mode = "undo", epoch' # Len(W) PROVE FALSE
  <2>1. Len(W) \in (base.seq + 1)..Len(W) /\ Len(W) \in (lo + 1)..Len(W)
    BY <1>0, <1>1, <1>2, <1>3, <1>4
  <2>2. Written(lo, W)
    BY <1>0, <1>4 DEF State, WorkInv, Working
  <2>3. \E i \in 1..len : IsCommit(cache, i, Len(W))
    BY <2>1, <2>2, CacheHas
  <2>4. Len(W) <= r.epoch
    BY <1>3, <2>1, <2>3
  <2>5. QED BY <1>0, <1>2, <1>3, <1>4, <2>4
<1>5. QED BY <1>1, <1>2, <1>3, <1>4

(* A commit about to be logged gets a number that no commit has. *)
LEMMA KeptNumber ==
  ASSUME TypeInv, ControlInv, NEW W \in Seq(Txn), NEW lo \in Nat, State(W, lo), pc = "kept"
  PROVE  /\ Next1 \in Txn /\ Next1 \in Nat /\ Len(W) < Next1 /\ len + 2 <= MaxLog
         /\ \A t \in Txn : status[t] = "new" <=> t >= Next1
         /\ InSavepoint /\ ServeInv(W) /\ epoch = Len(W) /\ epoch + 1 \in 1..MaxTxn
<1>1. InSavepoint /\ Next1 <= MaxTxn /\ len + 2 <= MaxLog
  BY DEF ControlInv, TypeInv, TypeOK, InSavepoint
<1>2. ServeInv(W) /\ epoch = Len(W)
  BY <1>1 DEF State, WorkInv, Working, InSavepoint, ServeInv
<1>3. PICK k \in Len(W)..MaxTxn : \A t \in Txn : status[t] = "new" <=> t > k
  BY DEF State, StatusInv
<1>4. MaxTxn \in Nat /\ Len(W) \in Nat
  BY LenProperties, RecoveryAssumption
<1>5. Next1 = k + 1
  BY <1>3, <1>4, NextNumber
<1>6. /\ Next1 \in Txn /\ Next1 \in Nat /\ Len(W) < Next1 /\ epoch + 1 \in 1..MaxTxn
  BY <1>1, <1>2, <1>4, <1>5 DEF Txn
<1>7. \A t \in Txn : status[t] = "new" <=> t >= Next1
  BY <1>3, <1>4, <1>5 DEF Txn
<1>8. QED BY <1>1, <1>2, <1>6, <1>7

(* A sequence of W is no longer than there are commits. *)
LEMMA Bounded ==
  ASSUME NEW W \in Seq(Txn), NEW lo, State(W, lo)
  PROVE  Len(W) \in 0..MaxTxn
BY RecoveryAssumption, LenProperties DEF State, StatusInv

(* A header under another epoch. *)
LEMMA HeaderEpoch ==
  ASSUME NEW h \in Hdr, NEW n \in Nat
  PROVE  /\ [h EXCEPT !.epoch = n] \in Hdr /\ [h EXCEPT !.epoch = n].epoch = n
         /\ [h EXCEPT !.epoch = n].content = h.content
         /\ [h EXCEPT !.epoch = n].seq = h.seq
BY DEF Hdr

(* Headers, what is not folded, and the count of commits. *)
LEMMA HeaderTypes ==
  ASSUME TypeInv, ControlInv, NEW W \in Seq(Txn), NEW lo \in Nat, State(W, lo), [Next]_vars
  PROVE  /\ slot' \in Hdr /\ base' \in Hdr /\ overlay' \in Seq(Txn) /\ epoch' \in 0..MaxTxn
         /\ slot'.epoch <= base'.epoch \/ mode' \in {"down", "recover"}
         /\ floor' \in Nat
<1>0. /\ slot \in Hdr /\ base \in Hdr /\ overlay \in Seq(Txn) /\ epoch \in 0..MaxTxn
      /\ (slot.epoch <= base.epoch \/ mode \in {"down", "recover"}) /\ floor \in Nat
      /\ MaxTxn \in Nat /\ View \in Seq(Txn) /\ base.epoch \in Nat /\ slot.epoch \in Nat
      /\ floor \in Nat
  BY RecoveryAssumption, ViewParts DEF TypeInv, TypeOK, Hdr
<1>1. Folded \in Hdr /\ Folded.epoch \in Nat
  BY <1>0 DEF Folded, Hdr
<1>2. CASE StageCommit
  <2>1. Next1 \in Txn /\ epoch + 1 \in 0..MaxTxn
    BY <1>0, <1>2, KeptNumber DEF StageCommit
  <2>2. Append(overlay, Next1) \in Seq(Txn)
    BY <1>0, <2>1, AppendProperties
  <2>3. QED BY <1>0, <1>2, <2>1, <2>2 DEF StageCommit
<1>3. CASE StagedFold \/ CheckpointFold
  <2>1. slot.epoch <= base.epoch
    BY <1>0, <1>3 DEF StagedFold, CheckpointFold, ControlInv
  <2>2. Folded.epoch = base.epoch + 1
    BY DEF Folded
  <2>3. overlay' = <<>> /\ base' = Folded /\ slot' \in {slot, Folded} /\ epoch' = epoch
        /\ floor' = floor
    BY <1>3 DEF StagedFold, CheckpointFold
  <2>4. <<>> \in Seq(Txn)
    OBVIOUS
  <2>5. QED BY <1>0, <1>1, <2>1, <2>2, <2>3, <2>4
<1>4. CASE OpenFold
  <2>1. CASE len = 0
    <3>1. slot.epoch <= base.epoch
      <4>1. CASE mode = "recover"
        <5>1. slot = base
          BY <1>4, <4>1 DEF OpenFold, State, RecoverInv
        <5>2. QED BY <1>0, <5>1
      <4>2. CASE mode # "recover"
        <5>1. mode # "down"
          BY <1>4 DEF OpenFold, ControlInv
        <5>2. QED BY <1>0, <4>2, <5>1
      <4>3. QED BY <4>1, <4>2
    <3>2. UNCHANGED <<base, slot, overlay, epoch, floor>>
      BY <1>4, <2>1 DEF OpenFold
    <3>3. QED BY <1>0, <3>1, <3>2
  <2>2. CASE len # 0
    <3>1. base' = Folded /\ slot' = Folded /\ overlay' = <<>> /\ epoch' = epoch /\ floor' = floor
      BY <1>4, <2>2 DEF OpenFold
    <3>2. <<>> \in Seq(Txn) /\ slot'.epoch <= base'.epoch
      BY <1>1, <3>1
    <3>3. QED BY <1>0, <1>1, <3>1, <3>2
  <2>3. QED BY <2>1, <2>2
<1>5. CASE Truncate
  <2>1. UNCHANGED <<slot, base, overlay, epoch, floor>>
    BY <1>5 DEF Truncate
  <2>2. slot.epoch <= base.epoch
    <3>1. CASE mode = "recover"
      <4>1. slot = base
        BY <1>5, <3>1 DEF Truncate, State, RecoverInv
      <4>2. QED BY <1>0, <4>1
    <3>2. CASE mode # "recover"
      <4>1. mode # "down"
        BY <1>5 DEF Truncate, ControlInv
      <4>2. QED BY <1>0, <3>2, <4>1
    <3>3. QED BY <3>1, <3>2
  <2>3. QED BY <1>0, <2>1, <2>2
<1>6. CASE RollbackSavepoint
  <2>1. mode = "undo" /\ save.base \in Hdr /\ BaseInv /\ SaveInv(View)
    <3>1. mode = "undo"
      BY <1>6 DEF RollbackSavepoint, ControlInv, TypeInv, TypeOK
    <3>2. RestoreInv(W) /\ save.on
      BY <1>6, <3>1 DEF RollbackSavepoint, State, WorkInv, Working, ControlInv
    <3>3. QED BY <3>1, <3>2, SavepointFields DEF RestoreInv
  <2>2. CASE base.epoch = save.base.epoch
    <3>1. base' = save.base /\ slot' = slot /\ UNCHANGED <<overlay, epoch, floor>>
      BY <1>6, <2>2 DEF RollbackSavepoint
    <3>2. slot.epoch <= save.base.epoch
      BY <2>1, <2>2 DEF BaseInv
    <3>3. QED BY <1>0, <2>1, <3>1, <3>2
  <2>3. CASE base.epoch # save.base.epoch
    <3>1. base' = [save.base EXCEPT !.epoch = base.epoch + 1] /\ slot' = base'
          /\ UNCHANGED <<overlay, epoch, floor>>
      BY <1>6, <2>3 DEF RollbackSavepoint
    <3>2. base' \in Hdr
      <4>1. base.epoch + 1 \in Nat
        BY <1>0
      <4>2. QED BY <2>1, <3>1, <4>1, HeaderEpoch
    <3>3. base'.epoch \in Nat
      BY <3>2 DEF Hdr
    <3>4. QED BY <1>0, <3>1, <3>2, <3>3
  <2>4. QED BY <2>2, <2>3
<1>7. CASE Crash
  <2>1. <<>> \in Seq(Txn) /\ 0 \in 0..MaxTxn
    BY <1>0
  <2>2. QED BY <1>0, <1>7, <2>1 DEF Crash
<1>8. CASE Open
  <2>1. Kept \in Hdr
    BY <1>0, SavepointFields DEF Kept
  <2>2. marker.on => marker.floor \in Nat
    BY SavepointFields
  <2>3. QED BY <1>0, <1>8, <2>1, <2>2 DEF Open
<1>9. CASE FinishRollback
  <2>1. mode = "recover"
    BY <1>9 DEF FinishRollback, ControlInv, TypeInv, TypeOK
  <2>2. CASE slot.epoch > base.epoch
    <3>1. base' = [base EXCEPT !.epoch = slot.epoch + 1] /\ slot' = base'
          /\ UNCHANGED <<overlay, epoch, floor, mode>>
      BY <1>9, <2>2 DEF FinishRollback
    <3>2. base' \in Hdr
      <4>1. slot.epoch + 1 \in Nat
        BY <1>0
      <4>2. QED BY <1>0, <3>1, <4>1, HeaderEpoch
    <3>3. QED BY <1>0, <2>1, <3>1, <3>2
  <2>3. CASE ~(slot.epoch > base.epoch)
    BY <1>0, <1>9, <2>1, <2>3 DEF FinishRollback
  <2>4. QED BY <2>2, <2>3
<1>10. CASE ReplayLog
  <2>1. epoch' \in base.seq..Len(W) /\ overlay' \in Seq(Txn) /\ base.seq \in Nat
    BY <1>10, ReplayResult DEF TypeInv, Hdr
  <2>2. Len(W) \in 0..MaxTxn
    BY Bounded
  <2>3. epoch' \in 0..MaxTxn
    BY <1>0, <2>1, <2>2
  <2>4. UNCHANGED <<slot, base, mode>> /\ floor' = 0
    BY <1>10 DEF ReplayLog
  <2>5. QED BY <1>0, <2>1, <2>3, <2>4
<1>11. CASE UNCHANGED <<slot, base, overlay, epoch, floor>> /\ (mode' = mode \/ mode \notin {"down", "recover"})
  BY <1>0, <1>11
<1>12. QED
  <2>1. CASE \E i \in Index : Writeback(i)
    BY <1>11, <2>1 DEF Writeback
  <2>2. CASE \E across \in BOOLEAN : Hold(across)
    BY <1>11, <2>2 DEF Hold
  <2>3. CASE Keep \/ Undo
    BY <1>11, <2>3 DEF Keep, Undo, InSavepoint
  <2>4. CASE StageDeferred \/ Settle \/ Durable \/ DurableSealed \/ SettleInside \/ Commit \/ UndoDone
             \/ RecoverCut \/ ForgetKept
    BY <1>11, <2>4 DEF StageDeferred, Settle, Durable, DurableSealed, SettleInside, Commit, UndoDone,
       RecoverCut, ForgetKept
  <2>5. CASE Step
    BY <1>2, <1>3, <1>4, <1>5, <1>6, <1>8, <1>9, <1>10, <2>4, <2>5 DEF Step
  <2>6. CASE UNCHANGED vars
    BY <1>11, <2>6 DEF vars, logVars
  <2>7. QED BY <1>7, <2>1, <2>2, <2>3, <2>5, <2>6 DEF Next

(* The savepoint and its marker. *)
LEMMA SaveTypes ==
  ASSUME TypeInv, ControlInv, [Next]_vars
  PROVE  marker' \in Markers \cup {NoMarker} /\ save' \in Savepoints \cup {NoSave}
<1>0. /\ marker \in Markers \cup {NoMarker} /\ save \in Savepoints \cup {NoSave}
      /\ base \in Hdr /\ epoch \in Nat
  BY RecoveryAssumption DEF TypeInv, TypeOK
<1>1. save.on => save \in Savepoints
  BY <1>0 DEF NoSave
<1>2. CASE \E across \in BOOLEAN : Hold(across)
  <2>1. PICK across \in BOOLEAN : Hold(across)
    BY <1>2
  <2>2. save' = [on |-> TRUE, base |-> base, floor |-> epoch, across |-> across,
                 published |-> FALSE, marked |-> FALSE] /\ marker' = marker
    BY <2>1 DEF Hold
  <2>3. save' \in Savepoints
    BY <1>0, <2>2 DEF Savepoints
  <2>4. QED BY <1>0, <2>2, <2>3
<1>3. CASE Keep
  <2>1. save \in Savepoints
    BY <1>1, <1>3 DEF Keep, ControlInv
  <2>2. CASE KeepDue
    <3>1. marker' = [on |-> TRUE, base |-> save.base, floor |-> save.floor]
          /\ save' = [save EXCEPT !.marked = TRUE]
      BY <1>3, <2>2 DEF Keep
    <3>2. marker' \in Markers
      BY <2>1, <3>1 DEF Savepoints, Markers
    <3>3. save' \in Savepoints
      BY <2>1, <3>1 DEF Savepoints
    <3>4. QED BY <3>2, <3>3
  <2>3. CASE ~KeepDue
    BY <1>0, <1>3, <2>3 DEF Keep
  <2>4. QED BY <2>2, <2>3
<1>4. CASE StageDeferred \/ StagedFold \/ CheckpointFold
  <2>1. pc = "logged" /\ save' = [save EXCEPT !.published = TRUE] /\ marker' = marker
    BY <1>4 DEF StageDeferred, StagedFold, CheckpointFold
  <2>2. save \in Savepoints
    BY <1>1, <2>1 DEF ControlInv, TypeInv, TypeOK, InSavepoint
  <2>3. save' \in Savepoints
    BY <2>1, <2>2 DEF Savepoints
  <2>4. QED BY <1>0, <2>1, <2>3
<1>5. CASE save' \in {save, NoSave} /\ marker' \in {marker, NoMarker}
  BY <1>0, <1>5
<1>6. QED
  <2>1. CASE \E i \in Index : Writeback(i)
    BY <1>5, <2>1 DEF Writeback
  <2>2. CASE Undo \/ Crash
    BY <1>5, <2>2 DEF Undo, Crash
  <2>3. CASE Step
    BY <1>4, <1>5, <2>3 DEF Step, StageCommit, Truncate, Settle, Durable, DurableSealed, SettleInside,
       Commit, RollbackSavepoint, UndoDone, Open, RecoverCut, FinishRollback, ForgetKept,
       ReplayLog, OpenFold, Unmarked
  <2>4. CASE UNCHANGED vars
    BY <1>5, <2>4 DEF vars
  <2>5. QED BY <1>2, <1>3, <2>1, <2>2, <2>3, <2>4 DEF Next

(* What is expected of each commit. *)
LEMMA StatusTypes ==
  ASSUME TypeInv, ControlInv, NEW W \in Seq(Txn), NEW lo \in Nat, State(W, lo), [Next]_vars
  PROVE  /\ status' \in [Txn -> {"new", "staged", "acked", "unsure", "undone"}]
         /\ mine' \subseteq Txn /\ owed' \in BOOLEAN
<1>0. /\ status \in [Txn -> {"new", "staged", "acked", "unsure", "undone"}]
      /\ mine \subseteq Txn /\ owed \in BOOLEAN
  BY DEF TypeInv, TypeOK
<1>1. CASE StageCommit
  <2>1. Next1 \in Txn
    BY <1>1, KeptNumber DEF StageCommit
  <2>2. QED BY <1>0, <1>1, <2>1 DEF StageCommit
<1>2. CASE Durable \/ DurableSealed \/ Commit \/ UndoDone
  <2>1. \/ status' = [t \in Txn |-> IF t \in Answered THEN "acked" ELSE status[t]]
        \/ status' = [t \in Txn |-> IF t \in mine THEN "acked" ELSE status[t]]
        \/ status' = [t \in Txn |-> IF t \in mine THEN "undone" ELSE status[t]]
    BY <1>2 DEF Durable, DurableSealed, Commit, UndoDone
  <2>2. status' \in [Txn -> {"new", "staged", "acked", "unsure", "undone"}]
    BY <1>0, <2>1
  <2>3. mine' \in {mine, {}} /\ owed' \in {owed, FALSE}
    BY <1>2 DEF Durable, DurableSealed, Commit, UndoDone
  <2>4. QED BY <1>0, <2>2, <2>3
<1>3. CASE Crash
  <2>1. \A t \in Txn : AfterCrash(t) \in {"new", "staged", "acked", "unsure", "undone"}
    BY <1>0 DEF AfterCrash
  <2>2. QED BY <1>3, <2>1 DEF Crash
<1>4. CASE status' = status /\ mine' \in {mine, {}} /\ owed' \in {owed, FALSE}
  BY <1>0, <1>4
<1>5. QED
  <2>1. CASE \E i \in Index : Writeback(i)
    BY <1>4, <2>1 DEF Writeback
  <2>2. CASE \E across \in BOOLEAN : Hold(across)
    BY <1>4, <2>2 DEF Hold
  <2>3. CASE Keep \/ Undo
    BY <1>4, <2>3 DEF Keep, Undo
  <2>4. CASE Step
    BY <1>1, <1>2, <1>4, <2>4 DEF Step, StageDeferred, StagedFold, CheckpointFold, Truncate,
       Settle, SettleInside, RollbackSavepoint, Open, RecoverCut, FinishRollback, ForgetKept,
       ReplayLog, OpenFold
  <2>5. CASE UNCHANGED vars
    BY <1>4, <2>5 DEF vars
  <2>6. QED BY <1>3, <2>1, <2>2, <2>3, <2>4, <2>5 DEF Next

(* What the writing side is in the middle of. *)
LEMMA ModeTypes ==
  ASSUME TypeInv, [Next]_vars
  PROVE  /\ mode' \in {"idle", "stmt", "txn", "undo", "recover", "down"}
         /\ pc' \in {"none", "kept", "logged", "truncate", "restore", "forget", "replay",
                     "fold", "cut", "finish"}
<1>0. /\ mode \in {"idle", "stmt", "txn", "undo", "recover", "down"}
      /\ pc \in {"none", "kept", "logged", "truncate", "restore", "forget", "replay",
                 "fold", "cut", "finish"}
  BY DEF TypeInv, TypeOK
<1>1. CASE \E i \in Index : Writeback(i)
  BY <1>0, <1>1 DEF Writeback
<1>2. CASE \E across \in BOOLEAN : Hold(across)
  BY <1>0, <1>2 DEF Hold
<1>3. CASE Keep \/ Undo \/ Crash
  BY <1>0, <1>3 DEF Keep, Undo, Crash
<1>4. CASE StageCommit \/ StageDeferred \/ StagedFold \/ CheckpointFold \/ Truncate
           \/ Settle \/ Durable \/ DurableSealed \/ SettleInside \/ Commit
  BY <1>0, <1>4 DEF StageCommit, StageDeferred, StagedFold, CheckpointFold, Truncate,
     Settle, Durable, DurableSealed, SettleInside, Commit
<1>5. CASE RollbackSavepoint \/ UndoDone \/ Open \/ RecoverCut \/ FinishRollback
           \/ ForgetKept \/ ReplayLog \/ OpenFold
  BY <1>0, <1>5 DEF RollbackSavepoint, UndoDone, Open, RecoverCut, FinishRollback,
     ForgetKept, ReplayLog, OpenFold
<1>6. CASE UNCHANGED vars
  BY <1>0, <1>6 DEF vars
<1>7. QED BY <1>1, <1>2, <1>3, <1>4, <1>5, <1>6 DEF Next, Step

LEMMA TypeStep ==
  ASSUME TypeInv, ControlInv, NEW W \in Seq(Txn), NEW lo \in Nat, State(W, lo), [Next]_vars
  PROVE  TypeInv'
<1>1. TypeOK'
  BY LogTypes, HeaderTypes, StatusTypes, ModeTypes DEF TypeOK
<1>2. QED BY <1>1, HeaderTypes, SaveTypes DEF TypeInv

---------------------------------------------------------------------------
(* Control.                                                                 *)

(* A commit keeps its room until it is logged. *)
LEMMA KeptRoom ==
  ASSUME TypeInv, ControlInv, Next, pc' = "kept"
  PROVE  /\ Next1' <= MaxTxn /\ len' + 2 <= MaxLog
         /\ save'.across => save'.marked
<1>1. CASE Keep
  <2>1. Next1 <= MaxTxn /\ len + 2 <= MaxLog /\ status' = status /\ len' = len
    BY <1>1 DEF Keep, logVars
  <2>2. save'.across => save'.marked
    <3>1. save \in Savepoints
      BY <1>1, SavepointFields DEF Keep, ControlInv
    <3>2. CASE KeepDue
      <4>1. save' = [save EXCEPT !.marked = TRUE]
        BY <1>1, <3>2 DEF Keep
      <4>2. QED BY <3>1, <4>1 DEF Savepoints
    <3>3. CASE ~KeepDue
      BY <1>1, <3>3 DEF Keep, KeepDue
    <3>4. QED BY <3>2, <3>3
  <2>3. QED BY <2>1, <2>2 DEF Next1
<1>2. CASE pc = "kept" /\ len' = len /\ save' = save
           /\ \A t \in Txn : status[t] = "new" <=> status'[t] = "new"
  <2>1. Next1' = Next1
    BY <1>2 DEF Next1
  <2>2. QED BY <1>2, <2>1 DEF ControlInv
<1>3. QED
  <2>1. CASE \E i \in Index : Writeback(i)
    BY <1>2, <2>1 DEF Writeback
  <2>2. CASE \E across \in BOOLEAN : Hold(across)
    BY <2>2 DEF Hold, ControlInv
  <2>3. CASE Undo \/ Crash
    BY <2>3 DEF Undo, Crash
  <2>4. CASE Durable \/ DurableSealed
    <3>1. \A t \in Txn : status[t] = "new" <=> status'[t] = "new"
      BY <2>4 DEF Durable, DurableSealed, Answered
    <3>2. QED BY <1>2, <2>4, <3>1 DEF Durable, DurableSealed
  <2>5. CASE SettleInside \/ Commit \/ Settle
    BY <2>5 DEF SettleInside, Commit, Settle
  <2>6. CASE Step
    BY <2>4, <2>5, <2>6 DEF Step, StageCommit, StageDeferred, StagedFold, CheckpointFold,
       Truncate, RollbackSavepoint, UndoDone, Open, RecoverCut, FinishRollback, ForgetKept,
       ReplayLog, OpenFold
  <2>7. QED BY <1>1, <2>1, <2>2, <2>3, <2>6 DEF Next

(* The parts of ControlInv but the last. *)
Course ==
  /\ mode \in {"idle", "down"} => pc = "none"
  /\ mode = "stmt" \/ mode = "txn" => pc \in {"none", "kept", "logged", "truncate"}
  /\ mode = "undo" => pc \in {"restore", "forget", "replay", "fold", "truncate"}
  /\ mode = "recover" => pc \in {"cut", "finish", "forget", "replay", "fold", "truncate"}
  /\ save.on <=> InSavepoint \/ (mode = "undo" /\ pc \in {"restore", "forget"})
Marking ==
  /\ Working => (marker.on <=> save.on /\ save.marked)
  /\ mode = "recover" => (marker.on <=> pc \in {"cut", "finish", "forget"})

LEMMA CourseStep ==
  ASSUME TypeInv, ControlInv, Next
  PROVE  Course'
<1> USE DEF Course, InSavepoint
<1>0. /\ mode \in {"idle", "stmt", "txn", "undo", "recover", "down"} /\ Course
      /\ save.on => save \in Savepoints
  BY SavepointFields DEF TypeInv, TypeOK, ControlInv
<1>1. CASE mode' = mode /\ pc' = pc /\ save' = save
  BY <1>0, <1>1
<1>2. CASE \E across \in BOOLEAN : Hold(across)
  <2>1. PICK across \in BOOLEAN : Hold(across)
    BY <1>2
  <2>2. save'.on /\ mode' \in {"txn", "stmt"} /\ pc' = "none"
    BY <1>0, <2>1 DEF Hold
  <2>3. QED BY <2>2
<1>3. CASE Keep
  <2>1. save'.on /\ mode' = mode /\ pc' = "kept"
    <3>1. save \in Savepoints
      BY <1>0, <1>3 DEF Keep
    <3>2. CASE KeepDue
      <4>1. save' = [save EXCEPT !.marked = TRUE]
        BY <1>3, <3>2 DEF Keep
      <4>2. QED BY <1>3, <3>1, <4>1 DEF Keep, Savepoints
    <3>3. CASE ~KeepDue
      BY <1>0, <1>3, <3>1, <3>3 DEF Keep
    <3>4. QED BY <3>2, <3>3
  <2>2. QED BY <1>0, <1>3, <2>1 DEF Keep
<1>4. CASE StageDeferred \/ StagedFold \/ CheckpointFold
  <2>1. pc = "logged" /\ save' = [save EXCEPT !.published = TRUE] /\ mode' = mode
        /\ pc' \in {"none", "truncate"}
    BY <1>4 DEF StageDeferred, StagedFold, CheckpointFold
  <2>2. mode \in {"stmt", "txn"} /\ save \in Savepoints
    BY <1>0, <2>1
  <2>3. save'.on
    BY <2>1, <2>2 DEF Savepoints
  <2>4. QED BY <2>1, <2>2, <2>3
<1>5. CASE StageCommit
  BY <1>0, <1>5 DEF StageCommit
<1>6. CASE Truncate
  BY <1>0, <1>6 DEF Truncate
<1>7. CASE Settle \/ Commit \/ UndoDone \/ Crash
  BY <1>0, <1>7 DEF Settle, Commit, UndoDone, Crash, NoSave
<1>8. CASE Undo
  BY <1>0, <1>8 DEF Undo
<1>9. CASE RollbackSavepoint
  BY <1>0, <1>9 DEF RollbackSavepoint
<1>10. CASE Open
  BY <1>0, <1>10 DEF Open
<1>11. CASE RecoverCut \/ FinishRollback \/ ForgetKept
  BY <1>0, <1>11 DEF RecoverCut, FinishRollback, ForgetKept
<1>12. CASE ReplayLog
  BY <1>0, <1>12 DEF ReplayLog
<1>13. CASE OpenFold
  BY <1>0, <1>13 DEF OpenFold
<1>14. CASE \E i \in Index : Writeback(i)
  BY <1>1, <1>14 DEF Writeback
<1>15. CASE Durable \/ DurableSealed \/ SettleInside
  BY <1>1, <1>15 DEF Durable, DurableSealed, SettleInside
<1>16. QED BY <1>2, <1>3, <1>4, <1>5, <1>6, <1>7, <1>8, <1>9, <1>10, <1>11, <1>12, <1>13,
            <1>14, <1>15 DEF Next, Step

LEMMA MarkingStep ==
  ASSUME TypeInv, ControlInv, Next
  PROVE  Marking'
<1> USE DEF Marking, InSavepoint, Working
<1>0. /\ mode \in {"idle", "stmt", "txn", "undo", "recover", "down"} /\ Course /\ Marking
      /\ save.on => save \in Savepoints
      /\ \A s \in Savepoints : s.on
  BY SavepointFields DEF TypeInv, TypeOK, ControlInv, Course, Savepoints
<1>1. CASE mode' = mode /\ save' = save /\ marker' = marker
           /\ (mode = "recover" => (pc' \in {"cut", "finish", "forget"} <=> pc \in {"cut", "finish", "forget"}))
  BY <1>0, <1>1
<1>2. CASE \E across \in BOOLEAN : Hold(across)
  <2>1. PICK across \in BOOLEAN : Hold(across)
    BY <1>2
  <2>2. ~save'.marked /\ ~marker.on /\ marker' = marker /\ mode' \in {"txn", "stmt"}
    BY <1>0, <2>1 DEF Hold, Course
  <2>3. QED BY <2>2
<1>3. CASE Keep
  <2>1. save \in Savepoints /\ mode' = mode /\ mode \in {"stmt", "txn"}
    BY <1>0, <1>3 DEF Keep, Course
  <2>2. CASE KeepDue
    <3>1. save' = [save EXCEPT !.marked = TRUE] /\ marker'.on
      BY <1>3, <2>2 DEF Keep
    <3>2. save'.on /\ save'.marked
      BY <2>1, <3>1 DEF Savepoints
    <3>3. QED BY <2>1, <3>1, <3>2
  <2>3. CASE ~KeepDue
    BY <1>0, <1>3, <2>1, <2>3 DEF Keep
  <2>4. QED BY <2>2, <2>3
<1>4. CASE StageDeferred \/ StagedFold \/ CheckpointFold
  <2>1. pc = "logged" /\ save' = [save EXCEPT !.published = TRUE] /\ mode' = mode
        /\ marker' = marker
    BY <1>4 DEF StageDeferred, StagedFold, CheckpointFold
  <2>2. mode \in {"stmt", "txn"} /\ save \in Savepoints
    BY <1>0, <2>1 DEF Course
  <2>3. save'.on /\ save.on /\ (save'.marked <=> save.marked)
    BY <2>1, <2>2 DEF Savepoints
  <2>4. QED BY <1>0, <2>1, <2>2, <2>3
<1>5. CASE StageCommit
  BY <1>0, <1>1, <1>5 DEF StageCommit, Course
<1>6. CASE Truncate
  BY <1>0, <1>6 DEF Truncate, Course
<1>7. CASE Settle \/ Commit \/ UndoDone
  <2>1. mode' \in {"idle", "undo"} /\ marker' = Unmarked /\ ~save'.on
    BY <1>7 DEF Settle, Commit, UndoDone, NoSave
  <2>2. mode \in {"stmt", "txn", "undo"}
    BY <1>7 DEF Settle, Commit, UndoDone
  <2>3. ~marker'.on
    BY <1>0, <2>1, <2>2 DEF Unmarked, NoMarker
  <2>4. QED BY <2>1, <2>3
<1>8. CASE Crash
  BY <1>8 DEF Crash
<1>9. CASE Undo
  BY <1>0, <1>9 DEF Undo
<1>10. CASE RollbackSavepoint
  BY <1>0, <1>10 DEF RollbackSavepoint, Course
<1>11. CASE Open
  BY <1>0, <1>11 DEF Open
<1>12. CASE RecoverCut \/ FinishRollback
  BY <1>0, <1>1, <1>12 DEF RecoverCut, FinishRollback
<1>13. CASE ForgetKept
  BY <1>13 DEF ForgetKept, NoMarker
<1>14. CASE ReplayLog
  BY <1>0, <1>14 DEF ReplayLog
<1>15. CASE OpenFold
  BY <1>0, <1>15 DEF OpenFold, Course
<1>16. CASE \E i \in Index : Writeback(i)
  BY <1>1, <1>16 DEF Writeback
<1>17. CASE Durable \/ DurableSealed \/ SettleInside
  BY <1>1, <1>17 DEF Durable, DurableSealed, SettleInside
<1>18. QED BY <1>2, <1>3, <1>4, <1>5, <1>6, <1>7, <1>8, <1>9, <1>10, <1>11, <1>12, <1>13,
            <1>14, <1>15, <1>16, <1>17 DEF Next, Step

LEMMA ControlStep ==
  ASSUME TypeInv, ControlInv, Next
  PROVE  ControlInv'
BY CourseStep, MarkingStep, KeptRoom DEF ControlInv, Course, Marking

---------------------------------------------------------------------------
(* A writer at work.                                                        *)

(* Between rollbacks. *)
Serving == Working /\ pc \notin {"restore", "forget", "replay"}

LEMMA ServeFacts ==
  ASSUME TypeInv, ControlInv, NEW W \in Seq(Txn), NEW lo \in Nat, State(W, lo), Serving
  PROVE  /\ StatusInv(W) /\ Written(lo, W) /\ Live(slot.seq) /\ lo <= slot.seq
         /\ Acked(W, slot.seq) /\ ServeInv(W)
         /\ slot.seq \in Nat /\ slot.seq <= Len(W) /\ base.seq \in Nat /\ base.seq <= Len(W)
         /\ slot.epoch \in Nat /\ base.epoch \in Nat /\ Len(W) \in Nat
<1>1. StatusInv(W) /\ WorkInv(W, lo) /\ ServeInv(W)
  BY DEF State, Serving, WorkInv
<1>2. slot.seq \in Nat /\ base.seq \in Nat /\ slot.epoch \in Nat /\ base.epoch \in Nat
  BY DEF TypeInv, Hdr
<1>3. slot.seq <= Len(W) /\ base.seq <= Len(W) /\ Len(W) \in Nat
  BY <1>1, LenProperties DEF ServeInv, HdrOK, Prefix
<1>4. QED BY <1>1, <1>2, <1>3 DEF WorkInv

LEMMA ServeState ==
  ASSUME NEW W \in Seq(Txn), NEW lo \in Nat, Serving', StatusInv(W)', Written(lo, W)',
         Live(slot.seq)', lo <= slot'.seq, Acked(W, slot.seq)', ServeInv(W)',
         mode' \in {"idle", "stmt", "txn", "undo"}
  PROVE  State(W, lo)'
<1>1. WorkInv(W, lo)'
  BY DEF WorkInv, Serving
<1>2. QED BY <1>1 DEF State, Serving, Working

(* What a savepoint is after a field of it is set. *)
LEMMA SaveSet ==
  ASSUME NEW s \in Savepoints
  PROVE  /\ \A m \in {[s EXCEPT !.marked = TRUE]} :
              /\ m.on /\ m.base = s.base /\ m.floor = s.floor /\ m.across = s.across
              /\ m.published = s.published /\ m.marked
         /\ \A m \in {[s EXCEPT !.published = TRUE]} :
              /\ m.on /\ m.base = s.base /\ m.floor = s.floor /\ m.across = s.across
              /\ m.marked = s.marked
BY DEF Savepoints

(* Session::hold over a writer that is idle. *)
LEMMA HoldStep ==
  ASSUME TypeInv, ControlInv, NEW W \in Seq(Txn), NEW lo \in Nat, State(W, lo),
         NEW across \in BOOLEAN, Hold(across)
  PROVE  State(W, lo)'
<1>1. mode = "idle" /\ pc = "none" /\ ~save.on /\ Serving
  BY DEF Hold, ControlInv, InSavepoint, Serving, Working
<1>2. /\ mode' \in {"stmt", "txn"} /\ mine' = {}
      /\ save' = [on |-> TRUE, base |-> base, floor |-> epoch, across |-> across,
                  published |-> FALSE, marked |-> FALSE]
      /\ UNCHANGED <<cache, disk, len, slot, marker, base, overlay, epoch, pc, floor, status,
                     crashes>>
  BY DEF Hold, logVars
<1>3. /\ StatusInv(W) /\ Written(lo, W) /\ Live(slot.seq) /\ lo <= slot.seq
      /\ Acked(W, slot.seq) /\ ServeInv(W) /\ Len(W) \in Nat
      /\ base.epoch \in Nat /\ slot.epoch \in Nat
  BY <1>1, ServeFacts
<1>4. Serving' /\ Working'
  BY <1>1, <1>2 DEF Serving, Working
<1>5. StatusInv(W)'
  BY <1>1, <1>2, <1>3, <1>4 DEF StatusInv, Owned
<1>6. Written(lo, W)' /\ Live(slot.seq)' /\ Acked(W, slot.seq)'
  BY <1>2, <1>3 DEF Written, Live, Acked, Stored
<1>7. ServeInv(W)'
  <2>1. /\ W = View' /\ epoch' = Len(W) /\ HdrOK(base', W) /\ HdrOK(slot', W) /\ BaseInv'
        /\ pc' # "truncate"
    BY <1>1, <1>2, <1>3 DEF ServeInv, View, BaseInv
  <2>2. SaveInv(W)'
    <3>1. /\ save'.base = base /\ save'.floor = Len(W) /\ ~save'.marked
      BY <1>2, <1>3 DEF ServeInv
    <3>2. base.seq <= Len(W) /\ HdrOK(base, W) /\ BaseInv
      BY <1>3 DEF ServeInv, HdrOK, Prefix
    <3>3. (Len(W) + 1)..Len(W) = {}
      BY <1>3
    <3>4. QED BY <1>2, <1>3, <3>1, <3>2, <3>3 DEF SaveInv, BaseInv
  <2>3. Settled(W, slot.seq)'
    BY <1>2 DEF Settled
  <2>4. QED BY <2>1, <2>2, <2>3 DEF ServeInv
<1>8. QED BY <1>2, <1>3, <1>4, <1>5, <1>6, <1>7, ServeState

(* keep_savepoint puts what is held on disk. *)
LEMMA KeepStep ==
  ASSUME TypeInv, ControlInv, NEW W \in Seq(Txn), NEW lo \in Nat, State(W, lo), Keep
  PROVE  State(W, lo)'
<1>1. InSavepoint /\ pc = "none" /\ save \in Savepoints /\ Serving
  BY SavepointFields DEF Keep, ControlInv, InSavepoint, Serving, Working
<1>2. /\ mode' = mode /\ mine' = mine /\ pc' = "kept"
      /\ UNCHANGED <<cache, disk, len, slot, base, overlay, epoch, owed, floor, status, crashes>>
  BY DEF Keep, logVars
<1>3. /\ StatusInv(W) /\ Written(lo, W) /\ Live(slot.seq) /\ lo <= slot.seq
      /\ Acked(W, slot.seq) /\ ServeInv(W) /\ Len(W) \in Nat
  BY <1>1, ServeFacts
<1>4. Serving' /\ Working' /\ InSavepoint' /\ Working
  BY <1>1, <1>2 DEF Serving, Working, InSavepoint
<1>5. /\ save'.on /\ save'.base = save.base /\ save'.floor = save.floor
      /\ save'.across = save.across
      /\ save'.marked => marker'.base = save.base /\ marker'.floor = save.floor
      /\ save.marked => save'.marked
  <2>1. save.marked => marker.base = save.base /\ marker.floor = save.floor
    BY <1>1, <1>3 DEF ServeInv, SaveInv
  <2>2. CASE KeepDue
    <3>1. /\ save' = [save EXCEPT !.marked = TRUE]
          /\ marker' = [on |-> TRUE, base |-> save.base, floor |-> save.floor]
      BY <2>2 DEF Keep
    <3>2. QED BY <1>1, <3>1, SaveSet
  <2>3. CASE ~KeepDue
    <3>1. save' = save /\ marker' = marker
      BY <2>3 DEF Keep
    <3>2. save.on
      BY <1>1 DEF Savepoints
    <3>3. QED BY <2>1, <3>1, <3>2
  <2>4. QED BY <2>2, <2>3
<1>6. StatusInv(W)'
  BY <1>1, <1>2, <1>3, <1>4, <1>5 DEF StatusInv, Owned
<1>7. Written(lo, W)' /\ Live(slot.seq)' /\ Acked(W, slot.seq)'
  BY <1>2, <1>3 DEF Written, Live, Acked, Stored
<1>8. ServeInv(W)'
  <2>1. /\ W = View' /\ epoch' = Len(W) /\ HdrOK(base', W) /\ HdrOK(slot', W) /\ BaseInv'
        /\ pc' # "truncate"
    BY <1>1, <1>2, <1>3 DEF ServeInv, View, BaseInv
  <2>2. SaveInv(W) /\ Settled(W, slot.seq)
    BY <1>1, <1>3 DEF ServeInv
  <2>3. SaveInv(W)'
    BY <1>2, <1>5, <2>2 DEF SaveInv
  <2>4. Settled(W, slot.seq)'
    BY <1>2, <2>2 DEF Settled, Stored
  <2>5. QED BY <2>1, <2>3, <2>4 DEF ServeInv
<1>9. mode' \in {"stmt", "txn"}
  BY <1>1, <1>2 DEF InSavepoint
<1>10. QED BY <1>2, <1>3, <1>4, <1>6, <1>7, <1>8, <1>9, ServeState

(* A commit left as an overlay. *)
LEMMA StageDeferredStep ==
  ASSUME TypeInv, ControlInv, NEW W \in Seq(Txn), NEW lo \in Nat, State(W, lo), StageDeferred
  PROVE  State(W, lo)'
<1>1. InSavepoint /\ pc = "logged" /\ save \in Savepoints /\ Serving
  BY SavepointFields DEF StageDeferred, ControlInv, InSavepoint, Serving, Working, TypeInv, TypeOK
<1>2. /\ save' = [save EXCEPT !.published = TRUE] /\ pc' = "none"
      /\ UNCHANGED <<cache, disk, len, slot, marker, base, overlay, epoch, mine, owed, mode,
                     floor, status, crashes>>
  BY DEF StageDeferred, logVars
<1>3. /\ StatusInv(W) /\ Written(lo, W) /\ Live(slot.seq) /\ lo <= slot.seq
      /\ Acked(W, slot.seq) /\ ServeInv(W) /\ Len(W) \in Nat
  BY <1>1, ServeFacts
<1>4. Serving' /\ Working' /\ InSavepoint' /\ Working /\ mode' \in {"stmt", "txn"}
  BY <1>1, <1>2 DEF Serving, Working, InSavepoint
<1>5. /\ save'.on /\ save'.base = save.base /\ save'.floor = save.floor
      /\ save'.across = save.across /\ save'.marked = save.marked
  BY <1>1, <1>2, SaveSet
<1>6. StatusInv(W)'
  BY <1>1, <1>2, <1>3, <1>4, <1>5 DEF StatusInv, Owned
<1>7. Written(lo, W)' /\ Live(slot.seq)' /\ Acked(W, slot.seq)'
  BY <1>2, <1>3 DEF Written, Live, Acked, Stored
<1>8. ServeInv(W)'
  <2>1. /\ W = View' /\ epoch' = Len(W) /\ HdrOK(base', W) /\ HdrOK(slot', W) /\ BaseInv'
        /\ pc' # "truncate"
    BY <1>1, <1>2, <1>3 DEF ServeInv, View, BaseInv
  <2>2. SaveInv(W) /\ Settled(W, slot.seq)
    BY <1>1, <1>3 DEF ServeInv
  <2>3. SaveInv(W)'
    BY <1>2, <1>5, <2>2 DEF SaveInv
  <2>4. Settled(W, slot.seq)'
    BY <1>2, <2>2 DEF Settled, Stored
  <2>5. QED BY <2>1, <2>3, <2>4 DEF ServeInv
<1>9. QED BY <1>2, <1>3, <1>4, <1>6, <1>7, <1>8, ServeState

(* A statement that answered gives the side back, its commits with it. *)
LEMMA SettleStep ==
  ASSUME TypeInv, ControlInv, NEW W \in Seq(Txn), NEW lo \in Nat, State(W, lo), Settle
  PROVE  State(W, lo)'
<1>1. mode = "stmt" /\ pc = "none" /\ InSavepoint /\ Serving
  BY DEF Settle, InSavepoint, Serving, Working
<1>2. /\ save' = NoSave /\ mine' = {} /\ mode' = "idle"
      /\ UNCHANGED <<cache, disk, len, slot, base, overlay, epoch, owed, pc, floor, status,
                     crashes>>
  BY DEF Settle, logVars
<1>3. /\ StatusInv(W) /\ Written(lo, W) /\ Live(slot.seq) /\ lo <= slot.seq
      /\ Acked(W, slot.seq) /\ ServeInv(W) /\ Len(W) \in Nat
  BY <1>1, ServeFacts
<1>4. Serving' /\ Working' /\ ~InSavepoint'
  BY <1>1, <1>2 DEF Serving, Working, InSavepoint
<1>5. \A t \in Txn : t \in mine => Owned(W, t)
  <2>1. SaveInv(W) /\ save.floor \in Nat
    BY <1>1, <1>3, SavepointFields DEF ServeInv, ControlInv
  <2>2. QED BY <1>3, <2>1 DEF SaveInv, Owned
<1>6. StatusInv(W)'
  BY <1>1, <1>2, <1>3, <1>4, <1>5 DEF StatusInv, Owned
<1>7. Written(lo, W)' /\ Live(slot.seq)' /\ Acked(W, slot.seq)'
  BY <1>2, <1>3 DEF Written, Live, Acked, Stored
<1>8. ServeInv(W)'
  BY <1>1, <1>2, <1>3, <1>4 DEF ServeInv, View, BaseInv
<1>9. QED BY <1>2, <1>3, <1>4, <1>6, <1>7, <1>8, ServeState

(* COMMIT answers once the log owes it nothing. *)
LEMMA CommitStep ==
  ASSUME TypeInv, ControlInv, NEW W \in Seq(Txn), NEW lo \in Nat, State(W, lo), Commit
  PROVE  State(W, lo)'
<1>1. mode = "txn" /\ pc = "none" /\ ~owed /\ InSavepoint /\ Serving
  BY DEF Commit, InSavepoint, Serving, Working
<1>2. /\ save' = NoSave /\ mine' = {} /\ mode' = "idle"
      /\ status' = [t \in Txn |-> IF t \in mine THEN "acked" ELSE status[t]]
      /\ UNCHANGED <<cache, disk, len, slot, base, overlay, epoch, owed, pc, floor, crashes>>
  BY DEF Commit, logVars
<1>3. /\ StatusInv(W) /\ Written(lo, W) /\ Live(slot.seq) /\ lo <= slot.seq
      /\ Acked(W, slot.seq) /\ ServeInv(W) /\ Len(W) \in Nat /\ slot.seq \in Nat
  BY <1>1, ServeFacts
<1>4. Serving' /\ Working' /\ ~InSavepoint'
  BY <1>1, <1>2 DEF Serving, Working, InSavepoint
<1>5. \A t \in Txn : t \in mine => Owned(W, t)
  <2>1. SaveInv(W) /\ save.floor \in Nat
    BY <1>1, <1>3, SavepointFields DEF ServeInv, ControlInv
  <2>2. QED BY <1>3, <2>1 DEF SaveInv, Owned
<1>6. StatusInv(W)'
  <2>1. \A t \in Txn : /\ status'[t] = "new" <=> status[t] = "new"
                       /\ status'[t] = "undone" <=> status[t] = "undone"
    BY <1>2, <1>3 DEF StatusInv
  <2>2. \A i \in 1..Len(W) : W[i] \in Txn
    BY ElementOfSeq
  <2>3. \E k \in Len(W)..MaxTxn : \A t \in Txn : status'[t] = "new" <=> t > k
    BY <1>3, <2>1 DEF StatusInv
  <2>4. \A i \in 1..Len(W) : status'[W[i]] \notin {"new", "undone"}
    BY <1>3, <2>1, <2>2 DEF StatusInv
  <2>5. \A t \in Txn : status'[t] = "acked" \/ status'[t] = "staged" => Owned(W, t)
    BY <1>2, <1>3, <1>5 DEF StatusInv
  <2>6. \A i, j \in 1..Len(W) : i < j => W[i] < W[j]
    BY <1>3 DEF StatusInv
  <2>7. QED BY <1>2, <1>4, <2>3, <2>4, <2>5, <2>6 DEF StatusInv, Owned
<1>7. Written(lo, W)' /\ Live(slot.seq)'
  BY <1>2, <1>3 DEF Written, Live
<1>8. Acked(W, slot.seq)'
  <2>1. \A e \in (slot.seq + 1)..Len(W) : W[e] \in mine => Stored(e)
    BY <1>1, <1>3 DEF ServeInv, Settled
  <2>2. \A e \in (slot.seq + 1)..Len(W) : status'[W[e]] = "acked" => Stored(e)
    <3>1. \A e \in (slot.seq + 1)..Len(W) : W[e] \in Txn
      <4>1. \A e \in (slot.seq + 1)..Len(W) : e \in 1..Len(W)
        BY <1>3
      <4>2. QED BY <4>1, ElementOfSeq
    <3>2. QED BY <1>2, <1>3, <2>1, <3>1 DEF Acked
  <2>3. QED BY <1>2, <2>2 DEF Acked, Stored
<1>9. ServeInv(W)'
  BY <1>1, <1>2, <1>3, <1>4 DEF ServeInv, View, BaseInv
<1>10. QED BY <1>2, <1>3, <1>4, <1>6, <1>7, <1>8, <1>9, ServeState

(* What is read back from the disk, for all that is written there, stays. *)
LEMMA StoredStays ==
  ASSUME NEW s \in Nat, Live(s), \A k \in Index : disk'[k] \in {disk[k], cache[k]},
         NEW e, e > s, Stored(e)
  PROVE  Stored(e)'
<1>1. PICK i \in Index : IsCommit(disk, i, e)
  BY DEF Stored
<1>2. disk[i] = cache[i]
  BY <1>1, Indices DEF Live, IsCommit
<1>3. disk'[i] = disk[i]
  BY <1>2
<1>4. QED BY <1>1, <1>3 DEF Stored, IsCommit

(* A sync puts every commit above the published header on the disk. *)
LEMMA SyncStores ==
  ASSUME TypeInv, NEW W \in Seq(Txn), NEW lo \in Nat, Written(lo, W), disk' = cache,
         NEW s \in Nat, lo <= s
  PROVE  \A e \in (s + 1)..Len(W) : Stored(e)'
<1> SUFFICES ASSUME NEW e \in (s + 1)..Len(W) PROVE Stored(e)'
  OBVIOUS
<1>1. e \in (lo + 1)..Len(W)
  BY LenProperties
<1>2. PICK i \in 1..len : i \in Index /\ IsCommit(cache, i, e)
  BY <1>1, CacheHas
<1>3. QED BY <1>2 DEF Stored, IsCommit

(* The kernel writes the first dirty cell back. *)
LEMMA WritebackStep ==
  ASSUME TypeInv, ControlInv, NEW W \in Seq(Txn), NEW lo \in Nat, State(W, lo),
         "tear" \notin Allow, NEW i \in Index, Writeback(i)
  PROVE  State(W, lo)'
<1>0. /\ cache \in [Index -> Cell] /\ disk \in [Index -> Cell] /\ slot.seq \in Nat
      /\ mode \in {"idle", "stmt", "txn", "undo", "recover", "down"}
  BY DEF TypeInv, TypeOK, Hdr
<1>1. mode # "down" /\ cache[i] # disk[i] /\ i = Min(Dirty) /\ Dirty # {}
  BY DEF Writeback, Dirty
<1>2. \A j \in 1..i : j # i => cache[j] = disk[j]
  <2>1. Dirty \subseteq Nat
    BY Indices DEF Dirty
  <2>2. \A j \in Dirty : i <= j
    BY <1>1, <2>1, MinLeast
  <2>3. QED BY <2>2, Indices DEF Dirty
<1>3. /\ disk' = [disk EXCEPT ![i] = cache[i]]
      /\ UNCHANGED <<cache, len, slot, marker, base, overlay, epoch, save, mine,
                     owed, mode, pc, floor, status, crashes>>
  BY DEF Writeback
<1>4. \A k \in Index : disk'[k] = IF k = i THEN cache[i] ELSE disk[k]
  BY <1>0, <1>3
<1>5. Working
  <2>1. ASSUME mode = "recover" PROVE FALSE
    BY <1>1, <2>1 DEF State, RecoverInv
  <2>2. QED BY <1>0, <1>1, <2>1 DEF Working
<1>6. StatusInv(W) /\ WorkInv(W, lo)
  BY <1>5 DEF State
<1>7. StatusInv(W)'
  BY <1>3, <1>5, <1>6 DEF StatusInv, Owned, Working
<1>8. Written(lo, W)'
  BY <1>3, <1>6 DEF Written, WorkInv
<1>9. Live(slot.seq)'
  <2>1. ASSUME NEW k \in Index, disk'[k].kind = "commit", disk'[k].epoch > slot.seq,
               NEW j \in 1..k
        PROVE  disk'[j] = cache[j]
    <3>1. CASE k = i
      BY <1>2, <1>4, <3>1, Indices
    <3>2. CASE k # i
      <4>1. disk[j] = cache[j]
        BY <1>4, <1>6, <2>1, <3>2 DEF WorkInv, Live
      <4>2. QED BY <1>4, <4>1, Indices
    <3>3. QED BY <3>1, <3>2
  <2>2. QED BY <1>3, <2>1 DEF Live
<1>10. \A e \in (slot.seq + 1)..Len(W) : Stored(e) => Stored(e)'
  BY <1>0, <1>4, <1>6, StoredStays DEF WorkInv
<1>11. Acked(W, slot.seq)'
  BY <1>3, <1>6, <1>10 DEF WorkInv, Acked
<1>12. ASSUME pc = "restore" PROVE RestoreInv(W)'
  <2>1. RestoreInv(W)
    BY <1>6, <1>12 DEF WorkInv
  <2>2. ~(slot.epoch > save.base.epoch)
    BY <1>1, <2>1 DEF RestoreInv
  <2>3. View' = View /\ BaseInv' /\ StatusInv(View)'
    <3>1. View' = View /\ BaseInv'
      BY <1>3, <2>1 DEF View, BaseInv, RestoreInv
    <3>2. StatusInv(View)
      BY <2>1 DEF RestoreInv
    <3>3. QED BY <1>3, <1>5, <3>1, <3>2 DEF StatusInv, Owned, Working
  <2>4. SaveInv(View)'
    BY <1>3, <2>1, <2>3 DEF SaveInv, RestoreInv
  <2>5. QED BY <1>3, <2>1, <2>2, <2>3, <2>4 DEF RestoreInv
<1>13. ASSUME pc \in {"forget", "replay"} PROVE RestoredInv(W)'
  BY <1>3, <1>6, <1>13 DEF WorkInv, RestoredInv, BaseInv
<1>14. ASSUME pc = "forget" PROVE ForgetInv(W)'
  BY <1>3, <1>6, <1>14 DEF WorkInv, ForgetInv, Owned
<1>15. ASSUME pc \notin {"restore", "forget", "replay"} PROVE ServeInv(W)'
  <2>1. ServeInv(W)
    BY <1>6, <1>15 DEF WorkInv
  <2>2. InSavepoint' => SaveInv(W)'
    BY <1>3, <2>1 DEF ServeInv, SaveInv, InSavepoint
  <2>3. InSavepoint' => Settled(W, slot.seq)'
    BY <1>3, <1>10, <2>1 DEF ServeInv, Settled, InSavepoint
  <2>4. QED BY <1>3, <2>1, <2>2, <2>3 DEF ServeInv, View, BaseInv
<1>16. WorkInv(W, lo)'
  BY <1>3, <1>6, <1>8, <1>9, <1>11, <1>12, <1>13, <1>14, <1>15 DEF WorkInv
<1>17. QED BY <1>3, <1>5, <1>7, <1>16 DEF State, Working

(* Whoever waits is answered, by a sync or because a checkpoint sealed it. *)
LEMMA DurableStatus ==
  ASSUME TypeInv, NEW V \in Seq(Txn), StatusInv(V), Durable \/ DurableSealed, Working
  PROVE  StatusInv(V)'
<1>1. /\ status' = [t \in Txn |-> IF t \in Answered THEN "acked" ELSE status[t]]
      /\ mine' = mine /\ save' = save /\ mode' = mode
  BY DEF Durable, DurableSealed
<1>2. \A t \in Txn : /\ status'[t] = "new" <=> status[t] = "new"
                     /\ status'[t] = "undone" <=> status[t] = "undone"
                     /\ t \in mine => status'[t] = status[t]
                     /\ (status'[t] = "acked" \/ (status'[t] = "staged" /\ t \notin mine)
                         => status[t] = "acked" \/ (status[t] = "staged" /\ t \notin mine))
  BY <1>1 DEF Answered
<1>3. \A i \in 1..Len(V) : V[i] \in Txn
  BY ElementOfSeq
<1>4. \E k \in Len(V)..MaxTxn : \A t \in Txn : status'[t] = "new" <=> t > k
  BY <1>2 DEF StatusInv
<1>5. \A i \in 1..Len(V) : status'[V[i]] \notin {"new", "undone"}
  BY <1>2, <1>3 DEF StatusInv
<1>6. \A t \in Txn : status'[t] = "acked" \/ (status'[t] = "staged" /\ t \notin mine)
                     => Owned(V, t)
  BY <1>2 DEF StatusInv
<1>7. \A t \in mine : status'[t] = "staged"
  BY <1>2 DEF StatusInv, TypeInv, TypeOK
<1>8. \A i, j \in 1..Len(V) : i < j => V[i] < V[j]
  BY DEF StatusInv
<1>9. ~save.on => mine = {}
  BY DEF StatusInv
<1>10. QED BY <1>1, <1>4, <1>5, <1>6, <1>7, <1>8, <1>9 DEF StatusInv, Owned, Working

LEMMA DurableStep ==
  ASSUME TypeInv, ControlInv, NEW W \in Seq(Txn), NEW lo \in Nat, State(W, lo),
         Durable \/ DurableSealed
  PROVE  State(W, lo)'
<1>0. /\ slot.seq \in Nat /\ mode \in {"idle", "stmt", "txn", "undo", "recover", "down"}
  BY DEF TypeInv, TypeOK, Hdr
<1>1. /\ mode # "down" /\ Answered # {} /\ (disk' = cache \/ (disk' = disk /\ len = 0))
      /\ UNCHANGED <<cache, len, slot, marker, base, overlay, epoch, save, mine,
                     owed, mode, pc, floor, crashes>>
  BY DEF Durable, DurableSealed
<1>2. Working
  BY <1>1 DEF State, StatusInv, Answered
<1>3. StatusInv(W) /\ WorkInv(W, lo)
  BY <1>2 DEF State
<1>4. StatusInv(W)'
  BY <1>2, <1>3, DurableStatus
<1>5. Written(lo, W) /\ Written(lo, W)' /\ lo <= slot.seq
  BY <1>1, <1>3 DEF Written, WorkInv
<1>6. Live(slot.seq)'
  BY <1>1, <1>3 DEF Live, WorkInv
<1>7. \A e \in (slot.seq + 1)..Len(W) : Stored(e)'
  <2>1. CASE disk' = cache
    BY <1>0, <1>1, <1>5, <2>1, SyncStores
  <2>2. CASE len = 0
    <3>1. Len(W) \in Nat /\ Len(W) <= slot.seq
      BY <1>0, <1>5, <2>2 DEF Written
    <3>2. QED BY <1>0, <3>1
  <2>3. QED BY <1>1, <2>1, <2>2
<1>8. Acked(W, slot.seq)'
  BY <1>1, <1>7 DEF Acked
<1>9. ASSUME pc = "restore" PROVE RestoreInv(W)'
  <2>1. RestoreInv(W)
    BY <1>3, <1>9 DEF WorkInv
  <2>2. View' = View /\ BaseInv' /\ View \in Seq(Txn)
    BY <1>1, <2>1, ViewParts DEF View, BaseInv, RestoreInv, TypeInv
  <2>3. StatusInv(View)'
    <3>1. \A V : V = View => StatusInv(V)'
      BY <1>2, <2>1, <2>2, DurableStatus DEF RestoreInv
    <3>2. QED BY <2>2, <3>1 DEF StatusInv, Owned
  <2>4. SaveInv(View)'
    BY <1>1, <2>1, <2>2 DEF SaveInv, RestoreInv
  <2>5. QED BY <1>1, <2>1, <2>2, <2>3, <2>4 DEF RestoreInv
<1>10. ASSUME pc \in {"forget", "replay"} PROVE RestoredInv(W)'
  BY <1>1, <1>3, <1>10 DEF WorkInv, RestoredInv, BaseInv
<1>11. ASSUME pc = "forget" PROVE ForgetInv(W)'
  BY <1>1, <1>3, <1>11 DEF WorkInv, ForgetInv, Owned
<1>12. ASSUME pc \notin {"restore", "forget", "replay"} PROVE ServeInv(W)'
  <2>1. ServeInv(W)
    BY <1>3, <1>12 DEF WorkInv
  <2>2. InSavepoint' => SaveInv(W)'
    BY <1>1, <2>1 DEF ServeInv, SaveInv, InSavepoint
  <2>3. Settled(W, slot.seq)'
    BY <1>1, <1>7 DEF Settled
  <2>4. QED BY <1>1, <2>1, <2>2, <2>3 DEF ServeInv, View, BaseInv
<1>13. WorkInv(W, lo)'
  BY <1>1, <1>5, <1>6, <1>8, <1>9, <1>10, <1>11, <1>12 DEF WorkInv
<1>14. QED BY <1>1, <1>2, <1>4, <1>13 DEF State, Working

(* A statement inside a transaction waits with the side held. *)
LEMMA SettleInsideStep ==
  ASSUME TypeInv, ControlInv, NEW W \in Seq(Txn), NEW lo \in Nat, State(W, lo), SettleInside
  PROVE  State(W, lo)'
<1>1. mode = "txn" /\ pc = "none" /\ InSavepoint /\ Serving
  BY DEF SettleInside, InSavepoint, Serving, Working
<1>2. /\ disk' = cache /\ owed' = FALSE
      /\ UNCHANGED <<cache, len, slot, marker, base, overlay, epoch, save, mine,
                     mode, pc, floor, status, crashes>>
  BY DEF SettleInside
<1>3. /\ StatusInv(W) /\ Written(lo, W) /\ lo <= slot.seq /\ ServeInv(W) /\ slot.seq \in Nat
  BY <1>1, ServeFacts
<1>4. Serving' /\ Working' /\ InSavepoint' /\ Working
  BY <1>1, <1>2 DEF Serving, Working, InSavepoint
<1>5. StatusInv(W)'
  BY <1>2, <1>3, <1>4 DEF StatusInv, Owned
<1>6. Written(lo, W)' /\ Live(slot.seq)'
  BY <1>2, <1>3 DEF Written, Live
<1>7. \A e \in (slot.seq + 1)..Len(W) : Stored(e)'
  BY <1>2, <1>3, SyncStores
<1>8. Acked(W, slot.seq)' /\ Settled(W, slot.seq)'
  BY <1>2, <1>7 DEF Acked, Settled
<1>9. ServeInv(W)'
  <2>1. SaveInv(W)'
    BY <1>1, <1>2, <1>3 DEF ServeInv, SaveInv
  <2>2. QED BY <1>1, <1>2, <1>3, <1>8, <2>1 DEF ServeInv, View, BaseInv
<1>10. QED BY <1>1, <1>2, <1>3, <1>4, <1>5, <1>6, <1>8, <1>9, ServeState

(* What is not folded grows at the end, and the whole with it. *)
LEMMA ViewAppend ==
  ASSUME base \in Hdr, overlay \in Seq(Txn), NEW t \in Txn
  PROVE  base.content \o Append(overlay, t) = Append(View, t)
<1> DEFINE b == base.content
<1>1. b \in Seq(Txn)
  BY DEF Hdr
<1> HIDE DEF b
<1>2. Append(overlay, t) = overlay \o <<t>> /\ Append(b \o overlay, t) = (b \o overlay) \o <<t>>
  OBVIOUS
<1>3. b \o (overlay \o <<t>>) = (b \o overlay) \o <<t>>
  <2>1. <<t>> \in Seq(Txn)
    OBVIOUS
  <2>2. QED BY <1>1, <2>1, ConcatAssociative
<1>4. QED BY <1>2, <1>3 DEF View, b

(* The frames of a commit go to the end of the log. *)
LEMMA StageCommitStep ==
  ASSUME TypeInv, ControlInv, NEW W \in Seq(Txn), NEW lo \in Nat, State(W, lo), StageCommit,
         NEW n, n = Next1, NEW U, U = Append(W, n)
  PROVE  U \in Seq(Txn) /\ State(U, lo)'
<1>1. /\ n \in Txn /\ n \in Nat /\ Len(W) < n /\ len + 2 <= MaxLog
      /\ \A t \in Txn : status[t] = "new" <=> t >= n
      /\ InSavepoint /\ ServeInv(W) /\ epoch = Len(W) /\ epoch + 1 \in 1..MaxTxn
      /\ pc = "kept"
  BY KeptNumber DEF StageCommit
<1>2. Serving /\ Working /\ mode \in {"stmt", "txn"}
  BY <1>1 DEF Serving, Working, InSavepoint
<1>3. /\ StatusInv(W) /\ Written(lo, W) /\ Live(slot.seq) /\ lo <= slot.seq
      /\ Acked(W, slot.seq) /\ slot.seq \in Nat /\ Len(W) \in Nat /\ slot.seq <= Len(W)
      /\ len \in Nat /\ cache \in [Index -> Cell] /\ MaxTxn \in Nat
  BY <1>2, ServeFacts, RecoveryAssumption DEF TypeInv, TypeOK
<1>4. /\ U \in Seq(Txn) /\ Len(U) = Len(W) + 1 /\ U[Len(W) + 1] = n
      /\ \A i \in 1..Len(W) : U[i] = W[i]
      /\ \A s \in Seq(Txn) : Prefix(s, W) => Prefix(s, U)
      /\ Prefix(W, U)
  <2>1. Prefix(W, W)
    BY LenProperties DEF Prefix
  <2>2. QED BY <1>1, <2>1, PrefixAppend
<1>5. /\ cache' = [cache EXCEPT ![len + 1] = [kind |-> "begin", epoch |-> epoch + 1, id |-> n],
                                ![len + 2] = [kind |-> "commit", epoch |-> epoch + 1, id |-> n]]
      /\ len' = len + 2 /\ epoch' = epoch + 1 /\ overlay' = Append(overlay, n)
      /\ status' = [status EXCEPT ![n] = "staged"]
      /\ mine' = mine \cup {n} /\ owed' = TRUE /\ pc' = "logged"
      /\ UNCHANGED <<disk, slot, marker, base, save, mode, floor, crashes>>
  BY DEF StageCommit
<1>6. Serving' /\ Working' /\ InSavepoint'
  BY <1>1, <1>2, <1>5 DEF Serving, Working, InSavepoint
<1>7. /\ cache'[len + 1] = BeginCell(U, Len(U)) /\ cache'[len + 2] = CommitCell(U, Len(U))
      /\ \A i \in Index : i # len + 1 /\ i # len + 2 => cache'[i] = cache[i]
  <2>1. len + 1 \in Index /\ len + 2 \in Index /\ len + 1 # len + 2
    BY <1>1, <1>3, Indices DEF Index
  <2>2. /\ cache'[len + 1] = [kind |-> "begin", epoch |-> epoch + 1, id |-> n]
        /\ cache'[len + 2] = [kind |-> "commit", epoch |-> epoch + 1, id |-> n]
        /\ \A i \in Index : i # len + 1 /\ i # len + 2 => cache'[i] = cache[i]
    BY <1>3, <1>5, <2>1
  <2>3. epoch + 1 = Len(U) /\ U[Len(U)] = n
    BY <1>1, <1>4
  <2>4. QED BY <2>2, <2>3 DEF BeginCell, CommitCell
<1>8. Written(lo, U)'
  <2>1. len = 2 * (Len(W) - lo) /\ len' = 2 * (Len(U) - lo) /\ len' = len + 2
    BY <1>3, <1>4, <1>5 DEF Written
  <2>2. ASSUME NEW i \in 1..(len + 2) PROVE Frame(cache', i, lo, U)
    <3>1. CASE i \in 1..len
      <4>1. Frame(cache, i, lo, W)
        BY <1>3, <3>1 DEF Written
      <4>2. i \in Index /\ i # len + 1 /\ i # len + 2
        BY <1>1, <1>3, <3>1, Indices DEF Index
      <4>3. cache'[i] = cache[i]
        BY <1>7, <4>2
      <4>4. Frame(cache, i, lo, U)
        BY <1>4, <4>1, FrameLonger
      <4>5. QED BY <4>3, <4>4, FrameSame
    <3>2. CASE i = len + 1 \/ i = len + 2
      <4>1. Len(U) \in (lo + 1)..Len(U)
        BY <1>3, <1>4
      <4>2. len + 1 = 2 * (Len(U) - lo) - 1 /\ len + 2 = 2 * (Len(U) - lo)
        BY <1>3, <1>4, <2>1
      <4>3. QED BY <1>7, <3>2, <4>1, <4>2 DEF Frame
    <3>3. QED BY <1>3, <3>1, <3>2
  <2>3. \A i \in Index : i > len + 2 => cache'[i] = Zero
    BY <1>3, <1>7, Indices DEF Written
  <2>4. QED BY <2>1, <2>2, <2>3 DEF Written
<1>9. Live(slot.seq)'
  <2>1. ASSUME NEW k \in Index, disk[k].kind = "commit", disk[k].epoch > slot.seq,
               NEW j \in 1..k
        PROVE  disk[j] = cache'[j]
    <3>0. \A i \in 1..k : disk[i] = cache[i]
      BY <1>3, <2>1 DEF Live
    <3>1. disk[j] = cache[j] /\ disk[k] = cache[k]
      <4>1. k \in 1..k
        BY Indices
      <4>2. QED BY <2>1, <3>0, <4>1
    <3>2. k <= len
      <4>1. cache[k] # Zero
        BY <2>1, <3>1 DEF Zero
      <4>2. QED BY <1>3, <4>1, Indices DEF Written
    <3>3. j \in Index /\ j # len + 1 /\ j # len + 2
      BY <1>3, <3>2, Indices
    <3>4. QED BY <1>7, <3>1, <3>3
  <2>2. QED BY <1>5, <2>1 DEF Live
<1>10. \A i \in 1..Len(W) : W[i] \in Txn /\ W[i] < n /\ W[i] # n
  <2>1. \A i \in 1..Len(W) : W[i] \in Txn /\ status[W[i]] # "new"
    BY <1>3, ElementOfSeq DEF StatusInv
  <2>2. \A i \in 1..Len(W) : ~(W[i] >= n)
    BY <1>1, <2>1
  <2>3. \A i \in 1..Len(W) : W[i] \in Nat
    BY <1>3, <2>1 DEF Txn
  <2>4. QED BY <1>1, <2>1, <2>2, <2>3
<1>11. /\ \A t \in Txn : t # n => status'[t] = status[t]
       /\ status'[n] = "staged"
  BY <1>1, <1>5 DEF TypeInv, TypeOK
<1>12. StatusInv(U)'
  <2>1. \A t \in Txn : status'[t] = "new" <=> t > n
    BY <1>1, <1>11 DEF Txn
  <2>2. n \in Len(U)..MaxTxn
    BY <1>1, <1>3, <1>4 DEF Txn
  <2>3. \A i, j \in 1..Len(U) : i < j => U[i] < U[j]
    <3>1. ASSUME NEW i \in 1..Len(U), NEW j \in 1..Len(U), i < j PROVE U[i] < U[j]
      <4>1. i \in 1..Len(W)
        BY <1>3, <1>4, <3>1
      <4>2. CASE j \in 1..Len(W)
        BY <1>3, <1>4, <3>1, <4>1, <4>2 DEF StatusInv
      <4>3. CASE j = Len(W) + 1
        BY <1>4, <1>10, <4>1, <4>3
      <4>4. QED BY <1>3, <1>4, <4>2, <4>3
    <3>2. QED BY <3>1
  <2>4. \A i \in 1..Len(U) : status'[U[i]] \notin {"new", "undone"}
    <3>1. ASSUME NEW i \in 1..Len(U) PROVE status'[U[i]] \notin {"new", "undone"}
      <4>1. CASE i \in 1..Len(W)
        BY <1>3, <1>4, <1>10, <1>11, <4>1 DEF StatusInv
      <4>2. CASE i = Len(W) + 1
        BY <1>4, <1>11, <4>2
      <4>3. QED BY <1>3, <1>4, <4>1, <4>2
    <3>2. QED BY <3>1
  <2>5. \A t \in Txn : Owned(W, t) => Owned(U, t)
    BY <1>3, <1>4 DEF Owned
  <2>6. \A t \in Txn : status'[t] = "acked" \/ (status'[t] = "staged" /\ t \notin mine')
                       => Owned(U, t)
    BY <1>3, <1>5, <1>11, <2>5 DEF StatusInv
  <2>7. \A t \in mine' : status'[t] = "staged"
    BY <1>3, <1>5, <1>11 DEF StatusInv, TypeInv, TypeOK
  <2>8. save'.on
    BY <1>1, <1>5 DEF ControlInv
  <2>9. QED BY <1>6, <2>1, <2>2, <2>3, <2>4, <2>6, <2>7, <2>8 DEF StatusInv, Owned
<1>13. Acked(U, slot.seq)'
  <2>1. ASSUME NEW e \in (slot.seq + 1)..Len(U), status'[U[e]] = "acked" PROVE Stored(e)
    <3>1. e # Len(W) + 1
      BY <1>4, <1>11, <2>1
    <3>2. e \in (slot.seq + 1)..Len(W) /\ e \in 1..Len(W)
      BY <1>3, <1>4, <3>1
    <3>3. status[W[e]] = "acked"
      BY <1>4, <1>10, <1>11, <2>1, <3>2
    <3>4. QED BY <1>3, <3>2, <3>3 DEF Acked
  <2>2. QED BY <1>5, <2>1 DEF Acked, Stored
<1>14. ServeInv(U)'
  <2>1. View' = U
    <3>1. base.content \o Append(overlay, n) = Append(View, n)
      BY <1>1, ViewAppend DEF TypeInv
    <3>2. QED BY <1>1, <1>5, <3>1 DEF View, ServeInv
  <2>2. HdrOK(base, U) /\ HdrOK(slot, U) /\ BaseInv
    BY <1>1, <1>4 DEF ServeInv, HdrOK, TypeInv, Hdr
  <2>3. SaveInv(U)'
    <3>1. SaveInv(W) /\ save.base \in Hdr /\ save.floor \in Nat
      BY <1>1, SavepointFields DEF ServeInv, ControlInv
    <3>2. HdrOK(save.base, U) /\ save.floor <= Len(U) /\ save.floor < Len(W) + 1
      BY <1>3, <1>4, <3>1 DEF SaveInv, HdrOK, Hdr
    <3>3. \A t \in Txn : t \in mine' <=> \E e \in (save.floor + 1)..Len(U) : U[e] = t
      <4>1. \A e \in (save.floor + 1)..Len(W) : U[e] = W[e]
        BY <1>3, <1>4, <3>1
      <4>2. \A e \in (save.floor + 1)..Len(U) : e = Len(W) + 1 \/ e \in (save.floor + 1)..Len(W)
        BY <1>3, <1>4, <3>1
      <4>3. /\ \A e \in (save.floor + 1)..Len(W) : e \in (save.floor + 1)..Len(U)
            /\ Len(W) + 1 \in (save.floor + 1)..Len(U)
        BY <1>3, <1>4, <3>1, <3>2
      <4>4. \A t \in Txn : t \in mine <=> \E e \in (save.floor + 1)..Len(W) : W[e] = t
        BY <3>1 DEF SaveInv
      <4>5. QED BY <1>4, <1>5, <4>1, <4>2, <4>3, <4>4
    <3>4. ~(save.across /\ ~save.marked)
      BY <1>1 DEF ControlInv
    <3>5. QED BY <1>5, <3>1, <3>2, <3>3, <3>4 DEF SaveInv
  <2>4. Settled(U, slot.seq)'
    BY <1>5 DEF Settled
  <2>5. epoch' = Len(U) /\ pc' # "truncate"
    BY <1>1, <1>4, <1>5
  <2>6. QED BY <1>5, <2>1, <2>2, <2>3, <2>4, <2>5 DEF ServeInv, BaseInv
<1>15. QED
  BY <1>2, <1>3, <1>4, <1>5, <1>6, <1>8, <1>9, <1>12, <1>13, <1>14, ServeState

(* What a fold leaves of the database is the database. *)
LEMMA FoldedView ==
  ASSUME TypeInv, NEW W \in Seq(Txn), View = W, epoch = Len(W), base' = Folded,
         overlay' = <<>>
  PROVE  /\ View' = W /\ HdrOK(base', W) /\ base'.seq = Len(W) /\ Len(W) \in Nat
         /\ base'.epoch = base.epoch + 1
<1>1. base' = [content |-> W, seq |-> Len(W), epoch |-> base.epoch + 1]
  BY DEF Folded
<1>2. Prefix(W, W) /\ Len(W) \in Nat
  BY LenProperties DEF Prefix
<1>3. W \o <<>> = W
  OBVIOUS
<1>4. QED BY <1>1, <1>2, <1>3 DEF View, HdrOK

(* A commit folded under a header that is not published. *)
LEMMA StagedFoldStep ==
  ASSUME TypeInv, ControlInv, NEW W \in Seq(Txn), NEW lo \in Nat, State(W, lo), StagedFold
  PROVE  State(W, lo)'
<1>1. InSavepoint /\ pc = "logged" /\ save \in Savepoints /\ Serving
  BY SavepointFields DEF StagedFold, ControlInv, InSavepoint, Serving, Working, TypeInv,
                         TypeOK
<1>2. /\ base' = Folded /\ overlay' = <<>> /\ pc' = "none"
      /\ save' = [save EXCEPT !.published = TRUE]
      /\ UNCHANGED <<cache, disk, len, slot, marker, epoch, mine, owed, mode, floor, status,
                     crashes>>
  BY DEF StagedFold, logVars
<1>3. /\ StatusInv(W) /\ Written(lo, W) /\ Live(slot.seq) /\ lo <= slot.seq
      /\ Acked(W, slot.seq) /\ ServeInv(W) /\ Len(W) \in Nat /\ slot.seq \in Nat
      /\ slot.seq <= Len(W) /\ base.epoch \in Nat /\ slot.epoch \in Nat
  BY <1>1, ServeFacts
<1>4. Serving' /\ Working' /\ InSavepoint' /\ Working /\ mode' \in {"stmt", "txn"}
  BY <1>1, <1>2 DEF Serving, Working, InSavepoint
<1>5. /\ save'.on /\ save'.base = save.base /\ save'.floor = save.floor /\ save.on
      /\ save'.across = save.across /\ save'.marked = save.marked
  BY <1>1, <1>2, SaveSet DEF Savepoints
<1>6. StatusInv(W)'
  BY <1>2, <1>3, <1>4, <1>5 DEF StatusInv, Owned
<1>7. Written(lo, W)' /\ Live(slot.seq)' /\ Acked(W, slot.seq)'
  BY <1>2, <1>3 DEF Written, Live, Acked, Stored
<1>8. View' = W /\ HdrOK(base', W) /\ base'.seq = Len(W) /\ base'.epoch = base.epoch + 1
  BY <1>2, <1>3, FoldedView DEF ServeInv
<1>9. ServeInv(W)'
  <2>1. SaveInv(W) /\ Settled(W, slot.seq) /\ BaseInv /\ HdrOK(slot, W) /\ epoch = Len(W)
    BY <1>1, <1>3 DEF ServeInv
  <2>2. BaseInv'
    BY <1>2, <1>3, <1>8, <2>1 DEF BaseInv
  <2>3. SaveInv(W)'
    <3>1. save'.base.epoch <= base'.epoch
      <4>1. save.base.epoch <= base.epoch /\ save.base.epoch \in Nat
        BY <1>5, <2>1, SavepointFields DEF SaveInv
      <4>2. QED BY <1>3, <1>5, <1>8, <4>1
    <3>2. QED BY <1>2, <1>5, <2>1, <3>1 DEF SaveInv
  <2>4. Settled(W, slot.seq)'
    BY <1>2, <2>1 DEF Settled, Stored
  <2>5. W = View' /\ epoch' = Len(W) /\ HdrOK(base', W) /\ HdrOK(slot', W) /\ pc' # "truncate"
    BY <1>2, <1>8, <2>1
  <2>6. QED BY <2>2, <2>3, <2>4, <2>5 DEF ServeInv
<1>10. lo <= slot'.seq
  BY <1>2, <1>3
<1>11. QED BY <1>4, <1>6, <1>7, <1>9, <1>10, ServeState

(* Nothing is above the last commit. *)
LEMMA NothingAbove ==
  ASSUME TypeInv', NEW W \in Seq(Txn), Capped(disk, W)'
  PROVE  Live(Len(W))' /\ Acked(W, Len(W))' /\ Settled(W, Len(W))'
<1>1. Len(W) \in Nat /\ (Len(W) + 1)..Len(W) = {}
  BY LenProperties
<1>2. \A i \in Index : ~(disk'[i].kind = "commit" /\ disk'[i].epoch > Len(W))
  <2>1. \A i \in Index : disk'[i] \in Cell
    BY DEF TypeInv, TypeOK
  <2>2. QED BY <1>1, <2>1 DEF Capped, Cell
<1>3. QED BY <1>1, <1>2 DEF Live, Acked, Settled

(* A commit folded under a header that is published. *)
LEMMA CheckpointFoldStep ==
  ASSUME "foldover" \notin Allow, TypeInv, TypeInv', ControlInv,
         NEW W \in Seq(Txn), NEW lo \in Nat, State(W, lo), CheckpointFold
  PROVE  State(W, lo)'
<1>1. InSavepoint /\ pc = "logged" /\ save \in Savepoints /\ Serving
  BY SavepointFields DEF CheckpointFold, ControlInv, InSavepoint, Serving, Working, TypeInv,
                         TypeOK
<1>2. /\ base' = Folded /\ overlay' = <<>> /\ pc' = "truncate" /\ slot' = base'
      /\ save' = [save EXCEPT !.published = TRUE] /\ save.floor = save.base.seq
      /\ UNCHANGED <<cache, disk, len, marker, epoch, mine, owed, mode, floor, status,
                     crashes>>
  BY DEF CheckpointFold, logVars
<1>3. /\ StatusInv(W) /\ Written(lo, W) /\ Live(slot.seq) /\ lo <= slot.seq
      /\ ServeInv(W) /\ Len(W) \in Nat /\ slot.seq \in Nat
      /\ slot.seq <= Len(W) /\ base.epoch \in Nat /\ slot.epoch \in Nat
  BY <1>1, ServeFacts
<1>4. Serving' /\ Working' /\ InSavepoint' /\ Working /\ mode' \in {"stmt", "txn"}
  BY <1>1, <1>2 DEF Serving, Working, InSavepoint
<1>5. /\ save'.on /\ save'.base = save.base /\ save'.floor = save.floor /\ save.on
      /\ save'.across = save.across /\ save'.marked = save.marked
  BY <1>1, <1>2, SaveSet DEF Savepoints
<1>6. StatusInv(W)'
  BY <1>2, <1>3, <1>4, <1>5 DEF StatusInv, Owned
<1>7. Written(lo, W)'
  BY <1>2, <1>3 DEF Written
<1>8. View' = W /\ HdrOK(base', W) /\ base'.seq = Len(W) /\ base'.epoch = base.epoch + 1
  BY <1>2, <1>3, FoldedView DEF ServeInv
<1>9. Live(slot.seq)' /\ Acked(W, slot.seq)' /\ Settled(W, slot.seq)'
  <2>1. Capped(disk, W)
    BY <1>3, DiskLog
  <2>2. Capped(disk, W)'
    BY <1>2, <2>1 DEF Capped
  <2>3. Live(Len(W))' /\ Acked(W, Len(W))' /\ Settled(W, Len(W))'
    BY <2>2, NothingAbove
  <2>4. slot'.seq = Len(W)
    BY <1>2, <1>8
  <2>5. QED BY <2>3, <2>4 DEF Live, Acked, Settled
<1>10. ServeInv(W)'
  <2>1. SaveInv(W) /\ epoch = Len(W)
    BY <1>1, <1>3 DEF ServeInv
  <2>2. BaseInv'
    BY <1>2, <1>3, <1>8 DEF BaseInv
  <2>3. SaveInv(W)'
    <3>1. save'.base.epoch <= base'.epoch /\ slot'.epoch > save'.base.epoch
          /\ ~(slot'.epoch <= save'.base.epoch) /\ slot'.epoch # save'.base.epoch
      <4>1. save.base.epoch <= base.epoch /\ save.base.epoch \in Nat
        BY <1>5, <2>1, SavepointFields DEF SaveInv
      <4>2. QED BY <1>2, <1>3, <1>5, <1>8, <4>1
    <3>2. QED BY <1>2, <1>5, <2>1, <3>1 DEF SaveInv
  <2>4. /\ W = View' /\ epoch' = Len(W) /\ HdrOK(base', W) /\ HdrOK(slot', W)
        /\ slot' = base' /\ base'.seq = Len(W)
    BY <1>2, <1>8, <2>1
  <2>5. QED BY <1>9, <2>2, <2>3, <2>4 DEF ServeInv
<1>11. lo <= slot'.seq
  BY <1>2, <1>3, <1>8
<1>12. QED BY <1>4, <1>6, <1>7, <1>9, <1>10, <1>11, ServeState

(* The log emptied of what is folded. *)
LEMMA TruncateStep ==
  ASSUME TypeInv, TypeInv', ControlInv, ControlInv', NEW W \in Seq(Txn), NEW lo \in Nat,
         State(W, lo), Truncate, NEW l, l = Len(W)
  PROVE  l \in Nat /\ State(W, l)'
<1>1. pc = "truncate" /\ (InSavepoint \/ mode \in {"undo", "recover"})
  BY DEF Truncate, ControlInv, InSavepoint, TypeInv, TypeOK
<1>2. /\ cache' = Erased(cache, 1) /\ len' = 0 /\ owed' = FALSE /\ pc' = "none"
      /\ mode' = IF InSavepoint THEN mode ELSE "idle"
      /\ UNCHANGED <<disk, slot, marker, base, overlay, epoch, save, mine, floor, status,
                     crashes>>
  BY DEF Truncate
<1>3. Serving' /\ Working' /\ mode' \in {"idle", "stmt", "txn", "undo"}
      /\ (InSavepoint' => InSavepoint)
  BY <1>1, <1>2 DEF Serving, Working, InSavepoint
<1>4. /\ StatusInv(W) /\ slot = base /\ base.seq = l /\ l \in Nat /\ W = View
      /\ epoch = Len(W) /\ HdrOK(base, W) /\ Capped(disk, W)
      /\ InSavepoint => SaveInv(W)
  <2>1. CASE mode # "recover"
    <3>1. Serving
      BY <1>1, <2>1 DEF Serving, Working, InSavepoint
    <3>2. /\ StatusInv(W) /\ Written(lo, W) /\ Live(slot.seq) /\ ServeInv(W)
          /\ slot.seq \in Nat /\ slot.seq <= Len(W) /\ Len(W) \in Nat
      BY <3>1, ServeFacts
    <3>3. QED BY <1>1, <3>2, DiskLog DEF ServeInv
  <2>2. CASE mode = "recover"
    <3>1. StatusInv(W) /\ CrashInv(W, lo) /\ RecoverInv(W)
      BY <2>2 DEF State, Working
    <3>2. ~marker.on /\ Kept = slot
      BY <1>1, <2>2 DEF ControlInv, Kept
    <3>3. Len(W) \in Nat /\ ~InSavepoint
      BY <2>2, LenProperties DEF InSavepoint
    <3>4. QED BY <1>1, <3>1, <3>2, <3>3 DEF CrashInv, RecoverInv
  <2>3. QED BY <2>1, <2>2
<1>5. StatusInv(W)'
  BY <1>2, <1>3, <1>4 DEF StatusInv, Owned
<1>6. Written(l, W)'
  <2>1. \A i \in Index : cache'[i] = Zero
    BY <1>2, Indices DEF Erased
  <2>2. len' = 2 * (Len(W) - l) /\ 1..len' = {}
    BY <1>2, <1>4
  <2>3. QED BY <2>1, <2>2 DEF Written
<1>7. Live(slot.seq)' /\ Acked(W, slot.seq)' /\ Settled(W, slot.seq)'
  <2>1. Capped(disk, W)'
    BY <1>2, <1>4 DEF Capped
  <2>2. Live(Len(W))' /\ Acked(W, Len(W))' /\ Settled(W, Len(W))'
    BY <2>1, NothingAbove
  <2>3. slot'.seq = Len(W)
    BY <1>2, <1>4
  <2>4. QED BY <2>2, <2>3 DEF Live, Acked, Settled
<1>8. ServeInv(W)'
  <2>1. W = View' /\ epoch' = Len(W) /\ HdrOK(base', W) /\ HdrOK(slot', W) /\ pc' # "truncate"
    BY <1>2, <1>4 DEF View
  <2>2. BaseInv'
    BY <1>2, <1>4 DEF BaseInv, TypeInv, Hdr
  <2>3. InSavepoint' => SaveInv(W)'
    BY <1>2, <1>3, <1>4 DEF SaveInv
  <2>4. QED BY <1>7, <2>1, <2>2, <2>3 DEF ServeInv
<1>9. l <= slot'.seq
  BY <1>2, <1>4
<1>10. QED BY <1>3, <1>4, <1>5, <1>6, <1>7, <1>8, <1>9, ServeState

---------------------------------------------------------------------------
(* A rollback.                                                              *)

(* Where the log of W is cut at a floor. *)
LEMMA CutLog ==
  ASSUME TypeInv, NEW W \in Seq(Txn), NEW lo \in Nat, Written(lo, W), NEW f \in 0..Len(W),
         NEW l, l = IF lo <= f THEN lo ELSE f
  PROVE  /\ CutAt(cache, len, f) = 2 * (f - l) /\ l \in Nat /\ l <= lo /\ l <= f
         /\ CutAt(cache, len, f) <= len
<1> DEFINE n == CutAt(cache, len, f)
<1>1. /\ cache \in [Index -> Cell] /\ len \in 0..MaxLog /\ len = 2 * (Len(W) - lo)
      /\ Len(W) \in Nat /\ f \in Nat /\ f <= Len(W)
      /\ MaxLog \in Nat
  BY LenProperties, RecoveryAssumption DEF TypeInv, TypeOK, Written
<1>2. n \in 0..len /\ (\A j \in 1..n : cache[j].epoch <= f)
      /\ (n < len => cache[n + 1].epoch > f)
  BY <1>1, CutPlace
<1> HIDE DEF n
<1>3. \A i \in 1..len : /\ cache[i].epoch \in (lo + 1)..Len(W)
                        /\ i = 2 * (cache[i].epoch - lo) - 1 \/ i = 2 * (cache[i].epoch - lo)
  <2>1. ASSUME NEW i \in 1..len
        PROVE  /\ cache[i].epoch \in (lo + 1)..Len(W)
               /\ i = 2 * (cache[i].epoch - lo) - 1 \/ i = 2 * (cache[i].epoch - lo)
    <3>1. Frame(cache, i, lo, W)
      BY DEF Written
    <3>2. QED BY <3>1, FramePlace
  <2>2. QED BY <2>1
<1>4. CASE lo <= f
  <2>1. n <= 2 * (f - lo)
    <3>1. CASE n = 0
      BY <1>1, <1>4, <3>1
    <3>2. CASE n # 0
      <4>1. n \in 1..n /\ n \in 1..len
        BY <1>1, <1>2, <3>2
      <4>2. cache[n].epoch <= f /\ cache[n].epoch \in (lo + 1)..Len(W)
            /\ (n = 2 * (cache[n].epoch - lo) - 1 \/ n = 2 * (cache[n].epoch - lo))
        BY <1>2, <1>3, <4>1
      <4>3. PICK x : x = cache[n].epoch
        OBVIOUS
      <4>4. x \in Nat /\ x <= f /\ (n = 2 * (x - lo) - 1 \/ n = 2 * (x - lo))
        BY <4>2, <4>3
      <4>5. QED BY <1>1, <4>4
    <3>3. QED BY <3>1, <3>2
  <2>2. n >= 2 * (f - lo)
    <3>1. CASE n = len
      BY <1>1, <1>4, <3>1
    <3>2. CASE n < len
      <4>1. n + 1 \in 1..len
        BY <1>1, <1>2, <3>2
      <4>2. \A m \in 1..len : m = n + 1 =>
              /\ cache[m].epoch > f /\ cache[m].epoch \in (lo + 1)..Len(W)
              /\ m = 2 * (cache[m].epoch - lo) - 1 \/ m = 2 * (cache[m].epoch - lo)
        BY <1>2, <1>3, <3>2
      <4>3. PICK m \in 1..len : m = n + 1
        BY <4>1
      <4>4. PICK x : x = cache[m].epoch
        OBVIOUS
      <4>5. x \in Nat /\ x > f /\ (m = 2 * (x - lo) - 1 \/ m = 2 * (x - lo))
        BY <4>2, <4>3, <4>4
      <4>6. m >= 2 * (f - lo) + 1
        BY <1>1, <4>5
      <4>7. QED BY <1>1, <1>2, <4>3, <4>6
    <3>3. QED BY <1>1, <1>2, <3>1, <3>2
  <2>3. QED BY <1>1, <1>2, <1>4, <2>1, <2>2 DEF n
<1>5. CASE ~(lo <= f)
  <2>1. n = 0
    <3>1. SUFFICES ASSUME n # 0 PROVE FALSE
      OBVIOUS
    <3>2. n \in 1..n /\ n \in 1..len
      BY <1>1, <1>2, <3>1
    <3>3. cache[n].epoch <= f /\ cache[n].epoch \in (lo + 1)..Len(W)
      BY <1>2, <1>3, <3>2
    <3>4. QED BY <1>1, <1>5, <3>3
  <2>2. QED BY <1>1, <1>2, <1>5, <2>1 DEF n
<1>6. QED BY <1>4, <1>5

(* The statuses of what a rollback leaves. *)
LEMMA StatusCut ==
  ASSUME NEW W \in Seq(Txn), StatusInv(W), NEW f \in 0..Len(W),
         NEW U, U = SubSeq(W, 1, f),
         \A t \in mine : \E e \in (f + 1)..Len(W) : W[e] = t,
         \A e \in (f + 1)..Len(W) : W[e] \in mine,
         UNCHANGED <<status, mine, save>>, Working, Working'
  PROVE  StatusInv(U)'
<1>1. /\ U \in Seq(Txn) /\ Len(U) = f /\ f \in Nat /\ Len(W) \in Nat
      /\ \A i \in 1..f : i \in 1..Len(W) /\ U[i] = W[i]
  BY FirstOf, LenProperties
<1>2. \E k \in Len(U)..MaxTxn : \A t \in Txn : status'[t] = "new" <=> t > k
  <2>1. PICK k \in Len(W)..MaxTxn : \A t \in Txn : status[t] = "new" <=> t > k
    BY DEF StatusInv
  <2>2. k \in Len(U)..MaxTxn
    BY <1>1, <2>1
  <2>3. QED BY <2>1, <2>2
<1>3. \A i, j \in 1..Len(U) : i < j => U[i] < U[j]
  BY <1>1 DEF StatusInv
<1>4. \A i \in 1..Len(U) : status'[U[i]] \notin {"new", "undone"}
  BY <1>1 DEF StatusInv
<1>5. ASSUME NEW t \in Txn, status[t] = "acked" \/ (status[t] = "staged" /\ t \notin mine)
      PROVE  Owned(U, t)
  <2>1. PICK e \in 1..Len(W) : W[e] = t
    BY <1>5 DEF StatusInv, Owned
  <2>2. t \notin mine
    BY <1>5 DEF StatusInv
  <2>3. e \in 1..f
    BY <1>1, <2>1, <2>2
  <2>4. QED BY <1>1, <2>1, <2>3 DEF Owned
<1>6. \A t \in mine' : status'[t] = "staged"
  BY DEF StatusInv
<1>7. ~save'.on => mine' = {}
  BY DEF StatusInv
<1>8. QED BY <1>2, <1>3, <1>4, <1>5, <1>6, <1>7 DEF StatusInv, Owned

(* Session::undo cuts the log at the savepoint. *)
LEMMA UndoStep ==
  ASSUME "cutback" \notin Allow, TypeInv, ControlInv, NEW W \in Seq(Txn), NEW lo \in Nat,
         State(W, lo), Undo, NEW U, U = SubSeq(W, 1, save.floor),
         NEW l, l = IF lo <= save.floor THEN lo ELSE save.floor
  PROVE  U \in Seq(Txn) /\ l \in Nat /\ State(U, l)'
<1> DEFINE n == CutAt(cache, len, save.floor)
<1>1. InSavepoint /\ pc = "none" /\ save.on /\ Serving /\ Working
  BY DEF Undo, ControlInv, InSavepoint, Serving, Working
<1>2. /\ cache' = Erased(cache, n + 1) /\ len' = n /\ mode' = "undo" /\ pc' = "restore"
      /\ disk' = IF n = len THEN disk ELSE Erased(cache, n + 1)
      /\ slot.epoch > save.base.epoch => disk = cache
      /\ UNCHANGED <<slot, marker, base, overlay, epoch, save, mine, owed, floor, status,
                     crashes>>
  <2>1. \A C, D \in [Index -> Cell] : {i \in Index : C[i] # D[i]} = {} => D = C
    OBVIOUS
  <2>2. slot.epoch > save.base.epoch => disk = cache
    BY <2>1 DEF Undo, Dirty, TypeInv, TypeOK
  <2>3. QED BY <2>2 DEF Undo
<1>3. /\ StatusInv(W) /\ Written(lo, W) /\ Live(slot.seq) /\ lo <= slot.seq
      /\ Acked(W, slot.seq) /\ ServeInv(W) /\ Len(W) \in Nat /\ slot.seq \in Nat
      /\ slot.seq <= Len(W) /\ W = View /\ SaveInv(W) /\ cache \in [Index -> Cell]
      /\ disk \in [Index -> Cell] /\ len \in 0..MaxLog /\ MaxLog \in Nat
  BY <1>1, ServeFacts, RecoveryAssumption DEF ServeInv, TypeInv, TypeOK
<1>4. /\ U \in Seq(Txn) /\ Len(U) = save.floor /\ save.floor \in 0..Len(W)
      /\ save.floor \in Nat /\ \A i \in 1..save.floor : i \in 1..Len(W) /\ U[i] = W[i]
      /\ Prefix(U, W)
  <2>1. save.floor \in 0..Len(W) /\ save.floor \in Nat
    BY <1>1, <1>3, SavepointFields DEF SaveInv
  <2>2. QED BY <1>3, <2>1, FirstOf
<1>5. n = 2 * (save.floor - l) /\ l \in Nat /\ l <= lo /\ l <= save.floor /\ n <= len
      /\ n \in Nat
  <2>1. n = 2 * (save.floor - l) /\ l \in Nat /\ l <= lo /\ l <= save.floor /\ n <= len
    BY <1>3, <1>4, CutLog
  <2> HIDE DEF n
  <2>2. save.floor \in Nat
    BY <1>4
  <2>3. n \in Nat
    BY ONLY <2>1, <2>2
  <2>4. QED BY <2>1, <2>3
<1> HIDE DEF n
<1>6. \A i \in Index : /\ i < n + 1 => cache'[i] = cache[i]
                       /\ i >= n + 1 => cache'[i] = Zero
  BY <1>2, <1>3, <1>5, ErasedCells
<1>7. Written(l, U)'
  <2>1. ASSUME NEW i \in 1..n PROVE Frame(cache', i, l, U)
    <3>1. l = lo /\ lo <= save.floor
      BY <1>4, <1>5
    <3>2. i \in 1..len /\ i \in Index /\ i < n + 1
      BY <1>3, <1>5 DEF Index
    <3>3. Frame(cache, i, lo, W)
      BY <1>3, <3>2 DEF Written
    <3>4. cache[i].epoch <= Len(U)
      <4>1. /\ cache[i].epoch \in (lo + 1)..Len(W)
            /\ i = 2 * (cache[i].epoch - lo) - 1 \/ i = 2 * (cache[i].epoch - lo)
        BY <3>3, FramePlace
      <4>2. i <= n /\ i \in Nat /\ n = 2 * (save.floor - lo)
        BY <1>5, <3>1
      <4>3. PICK e \in Nat : e = cache[i].epoch
        BY <4>1
      <4>4. i = 2 * (e - lo) - 1 \/ i = 2 * (e - lo)
        BY <4>1, <4>3
      <4>5. e <= save.floor
        BY <1>4, <4>2, <4>4
      <4>6. QED BY <1>4, <4>3, <4>5
    <3>5. Frame(cache, i, lo, U)
      BY <1>4, <3>3, <3>4, FrameShorter
    <3>6. cache'[i] = cache[i]
      BY <1>6, <3>2
    <3>7. QED BY <3>1, <3>5, <3>6, FrameSame
  <2>2. \A i \in Index : i > n => cache'[i] = Zero
    BY <1>5, <1>6, Indices
  <2>3. len' = 2 * (Len(U) - l) /\ len' = n
    BY <1>2, <1>4, <1>5
  <2>4. QED BY <2>1, <2>2, <2>3 DEF Written
<1>8. n = len => disk' = disk /\ cache' = cache
  <2>1. ASSUME n = len PROVE \A i \in Index : cache'[i] = cache[i]
    BY <1>3, <1>5, <1>6, <2>1, Indices DEF Written
  <2>2. cache' \in [Index -> Cell]
    BY <1>2, <1>3, <1>5, ErasedCells
  <2>3. QED BY <1>2, <1>3, <2>1, <2>2
<1>9. n # len => disk' = cache'
  BY <1>2
<1>10. Live(slot.seq)'
  BY <1>2, <1>3, <1>8, <1>9 DEF Live
<1>11. Acked(U, slot.seq)'
  <2>1. ASSUME NEW e \in (slot.seq + 1)..Len(U), status[U[e]] = "acked" PROVE Stored(e)'
    <3>1. e \in (slot.seq + 1)..Len(W) /\ e \in 1..save.floor /\ e \in (lo + 1)..Len(W)
      BY <1>3, <1>4
    <3>2. Stored(e)
      BY <1>3, <1>4, <2>1, <3>1 DEF Acked
    <3>3. CASE n = len
      BY <1>8, <3>2, <3>3 DEF Stored
    <3>4. CASE n # len
      <4>1. PICK i \in 1..len : i \in Index /\ IsCommit(cache, i, e)
        BY <1>3, <3>1, CacheHas
      <4>2. Log(cache, lo, U, slot.seq)
        <5>1. Log(cache, lo, W, slot.seq)
          BY <1>3, CacheLog
        <5>2. QED BY <1>3, <1>4, <5>1, LogShorter
      <4>3. IsCommit(cache', i, e)
        <5>1. IsCommit(Erased(cache, CutAt(cache, len, save.floor) + 1), i, e)
          <6>1. Len(U) <= save.floor /\ e \in (slot.seq + 1)..Len(U)
            BY <1>4
          <6>2. QED BY <1>3, <1>4, <4>1, <4>2, <6>1, CutKeeps
        <5>2. QED BY <1>2, <5>1 DEF n
      <4>4. QED BY <1>9, <3>4, <4>1, <4>3 DEF Stored
    <3>5. QED BY <3>3, <3>4
  <2>2. QED BY <1>2, <2>1 DEF Acked
<1>12. Working' /\ UNCHANGED <<status, mine, save>>
  BY <1>2 DEF Working
<1>13. StatusInv(U)'
  <2>1. \A t \in Txn : t \in mine <=> \E e \in (save.floor + 1)..Len(W) : W[e] = t
    BY <1>3 DEF SaveInv
  <2>2. \A e \in (save.floor + 1)..Len(W) : W[e] \in Txn
    <3>1. \A e \in (save.floor + 1)..Len(W) : e \in 1..Len(W)
      BY <1>4
    <3>2. QED BY <3>1, ElementOfSeq
  <2>3. mine \subseteq Txn
    BY DEF TypeInv, TypeOK
  <2>4. /\ \A t \in mine : \E e \in (save.floor + 1)..Len(W) : W[e] = t
        /\ \A e \in (save.floor + 1)..Len(W) : W[e] \in mine
    BY <2>1, <2>2, <2>3
  <2>5. \A f \in 0..Len(W) : f = save.floor =>
          /\ U = SubSeq(W, 1, f)
          /\ \A t \in mine : \E e \in (f + 1)..Len(W) : W[e] = t
          /\ \A e \in (f + 1)..Len(W) : W[e] \in mine
    BY <2>4
  <2>6. PICK f \in 0..Len(W) : f = save.floor
    BY <1>4
  <2>7. QED BY <1>1, <1>3, <1>12, <2>5, <2>6, StatusCut
<1>14. RestoreInv(U)'
  <2>1. View' = W
    BY <1>2, <1>3 DEF View
  <2>2. StatusInv(W)'
    BY <1>1, <1>3, <1>12 DEF StatusInv, Owned
  <2>3. HdrOK(base', W) /\ HdrOK(slot', W) /\ BaseInv'
    BY <1>2, <1>3 DEF ServeInv, BaseInv
  <2>4. SaveInv(W)'
    BY <1>2, <1>3 DEF SaveInv
  <2>5. StatusInv(View)' /\ SaveInv(View)'
    BY <2>1, <2>2, <2>4 DEF StatusInv, SaveInv, Owned
  <2>6. slot'.epoch > save'.base.epoch => disk' = cache'
    BY <1>2, <1>8, <1>9
  <2>7. Len(U) = save'.floor
    BY <1>2, <1>4
  <2>8. QED BY <1>4, <2>1, <2>3, <2>5, <2>6, <2>7 DEF RestoreInv
<1>15. l <= slot'.seq
  BY <1>2, <1>3, <1>5
<1>16. WorkInv(U, l)'
  BY <1>2, <1>7, <1>10, <1>11, <1>14, <1>15 DEF WorkInv
<1>17. QED BY <1>2, <1>4, <1>5, <1>12, <1>13, <1>16 DEF State

(* rollback_savepoint puts the kept header back. *)
LEMMA RollbackStep ==
  ASSUME TypeInv, ControlInv, NEW W \in Seq(Txn), NEW lo \in Nat, State(W, lo),
         RollbackSavepoint
  PROVE  State(W, lo)'
<1>1. pc = "restore" /\ mode = "undo" /\ save.on /\ Working
  BY DEF RollbackSavepoint, ControlInv, TypeInv, TypeOK, Working
<1>2. /\ IF base.epoch = save.base.epoch
         THEN base' = save.base /\ slot' = slot
         ELSE base' = [save.base EXCEPT !.epoch = base.epoch + 1] /\ slot' = base'
      /\ pc' = "forget"
      /\ UNCHANGED <<cache, disk, len, marker, overlay, epoch, save, mine, owed, mode, floor,
                     status, crashes>>
  BY DEF RollbackSavepoint, logVars
<1>3. /\ StatusInv(W) /\ Written(lo, W) /\ Live(slot.seq) /\ lo <= slot.seq
      /\ Acked(W, slot.seq) /\ RestoreInv(W)
  BY <1>1 DEF State, WorkInv
<1>4. /\ StatusInv(View) /\ HdrOK(base, View) /\ HdrOK(slot, View) /\ BaseInv
      /\ SaveInv(View) /\ Prefix(W, View) /\ Len(W) = save.floor
      /\ slot.epoch > save.base.epoch => disk = cache
      /\ View \in Seq(Txn)
  BY <1>3, ViewParts DEF RestoreInv, TypeInv
<1>5. /\ save.base \in Hdr /\ save.floor \in Nat /\ save.base.seq \in Nat
      /\ save.base.epoch \in Nat /\ save.base.content \in Seq(Txn)
      /\ slot \in Hdr /\ slot.seq \in Nat /\ slot.epoch \in Nat /\ slot.content \in Seq(Txn)
      /\ base.epoch \in Nat /\ Len(W) \in Nat /\ Len(View) \in Nat /\ len \in Nat
  <2>1. /\ save.base \in Hdr /\ save.floor \in Nat /\ save.base.seq \in Nat
        /\ save.base.epoch \in Nat /\ save.base.content \in Seq(Txn)
    BY <1>1, SavepointFields
  <2>2. slot \in Hdr /\ base \in Hdr /\ len \in Nat
    BY RecoveryAssumption DEF TypeInv, TypeOK
  <2>3. QED BY <1>4, <2>1, <2>2, LenProperties DEF Hdr
<1>6. /\ HdrOK(save.base, View) /\ save.base.seq <= save.floor
      /\ save.base.epoch <= base.epoch /\ slot.epoch <= base.epoch
      /\ slot.epoch <= save.base.epoch => slot.seq <= save.base.seq
      /\ slot.epoch = save.base.epoch => slot = save.base
      /\ slot.epoch > save.base.epoch => save.floor = save.base.seq
  BY <1>4 DEF SaveInv, BaseInv
<1>7. HdrOK(save.base, W)
  <2>1. Prefix(save.base.content, View) /\ Len(save.base.content) = save.base.seq
    BY <1>6 DEF HdrOK
  <2>2. Prefix(save.base.content, W)
    BY <1>4, <1>5, <1>6, <2>1, PrefixBelow
  <2>3. QED BY <2>1, <2>2 DEF HdrOK
<1>8. StatusInv(W)'
  BY <1>1, <1>2, <1>3 DEF StatusInv, Owned, Working
<1>9. Written(lo, W)'
  BY <1>2, <1>3 DEF Written
<1>10. /\ HdrOK(base', W) /\ HdrOK(slot', W) /\ BaseInv'
       /\ save.base.epoch <= slot'.epoch => save.base.seq = slot'.seq
       /\ save.base.epoch = slot'.epoch => save.base = slot'
       /\ Live(slot.seq)' /\ Acked(W, slot.seq)' /\ lo <= slot'.seq
  <2>1. CASE base.epoch = save.base.epoch
    <3>1. base' = save.base /\ slot' = slot
      BY <1>2, <2>1
    <3>2. slot.seq <= save.base.seq /\ slot.seq <= Len(W)
      BY <1>4, <1>5, <1>6, <2>1
    <3>3. HdrOK(slot, W)
      <4>1. Prefix(slot.content, View) /\ Len(slot.content) = slot.seq
        BY <1>4 DEF HdrOK
      <4>2. Prefix(slot.content, W)
        BY <1>4, <1>5, <3>2, <4>1, PrefixBelow
      <4>3. QED BY <4>1, <4>2 DEF HdrOK
    <3>4. BaseInv'
      BY <1>5, <1>6, <2>1, <3>1, <3>2 DEF BaseInv
    <3>5. Live(slot.seq)' /\ Acked(W, slot.seq)' /\ lo <= slot'.seq
      BY <1>2, <1>3, <3>1 DEF Live, Acked, Stored
    <3>6. save.base.epoch <= slot.epoch => slot = save.base
      BY <1>5, <1>6, <2>1
    <3>7. QED BY <1>5, <1>7, <3>1, <3>3, <3>4, <3>5, <3>6
  <2>2. CASE base.epoch # save.base.epoch
    <3>1. base' = [save.base EXCEPT !.epoch = base.epoch + 1] /\ slot' = base'
      BY <1>2, <2>2
    <3>2. /\ base'.epoch = base.epoch + 1 /\ base'.content = save.base.content
          /\ base'.seq = save.base.seq
      BY <1>5, <3>1, HeaderEpoch
    <3>3. HdrOK(base', W)
      BY <1>7, <3>2 DEF HdrOK
    <3>4. BaseInv'
      <4>1. slot' = base' /\ base'.epoch \in Nat /\ base'.seq \in Nat
        BY <1>5, <3>1, <3>2
      <4>2. QED BY ONLY <4>1 DEF BaseInv
    <3>5. ~(save.base.epoch = slot'.epoch)
      BY <1>5, <1>6, <3>1, <3>2
    <3>6. Live(save.base.seq)' /\ Acked(W, save.base.seq)' /\ lo <= save.base.seq
      <4>1. CASE slot.epoch > save.base.epoch
        <5>1. disk' = cache' /\ save.base.seq = Len(W)
          BY <1>2, <1>4, <1>6, <4>1
        <5>2. Live(save.base.seq)'
          BY <5>1 DEF Live
        <5>3. (save.base.seq + 1)..Len(W) = {}
          BY <1>5, <5>1
        <5>4. lo <= Len(W)
          BY <1>3, <1>5 DEF Written
        <5>5. QED BY <1>2, <5>1, <5>2, <5>3, <5>4 DEF Acked
      <4>2. CASE ~(slot.epoch > save.base.epoch)
        <5>1. slot.seq <= save.base.seq
          BY <1>5, <1>6, <4>2
        <5>2. \A i \in Index : disk[i].kind = "commit" /\ disk[i].epoch > save.base.seq =>
                disk[i].epoch > slot.seq
          <6>1. \A i \in Index : disk[i].epoch \in Nat
            BY DEF TypeInv, TypeOK, Cell
          <6>2. QED BY <1>5, <5>1, <6>1
        <5>3. Live(save.base.seq)'
          BY <1>2, <1>3, <5>2 DEF Live
        <5>4. \A e \in (save.base.seq + 1)..Len(W) : e \in (slot.seq + 1)..Len(W)
          BY <1>5, <5>1
        <5>5. Acked(W, save.base.seq)'
          BY <1>2, <1>3, <5>4 DEF Acked, Stored
        <5>6. QED BY <1>3, <1>5, <5>1, <5>3, <5>5
      <4>3. QED BY <4>1, <4>2
    <3>7. slot'.seq = save.base.seq /\ HdrOK(slot', W) /\ save'.base = save.base
      BY <1>2, <3>1, <3>2, <3>3
    <3>8. Live(slot.seq)'
      BY <1>2, <3>6, <3>7 DEF Live
    <3>9. Acked(W, slot.seq)'
      BY <1>2, <3>6, <3>7 DEF Acked
    <3>10. QED BY <3>3, <3>4, <3>5, <3>6, <3>7, <3>8, <3>9
  <2>3. QED BY <2>1, <2>2
<1>11. ForgetInv(W)'
  <2>1. ASSUME NEW t \in mine, Owned(W, t) PROVE FALSE
    <3>1. PICK i \in 1..Len(W) : W[i] = t
      BY <2>1 DEF Owned
    <3>2. t \in Txn
      BY DEF TypeInv, TypeOK
    <3>3. PICK j \in (save.floor + 1)..Len(View) : View[j] = t
      BY <1>4, <3>2 DEF SaveInv
    <3>4. i \in 1..Len(View) /\ View[i] = t /\ j \in 1..Len(View) /\ i < j
      <4>1. i \in 1..Len(View) /\ View[i] = W[i]
        BY <1>4, <1>5, <3>1 DEF Prefix
      <4>2. j \in 1..Len(View) /\ i < j
        BY <1>4, <1>5, <3>1, <3>3
      <4>3. QED BY <3>1, <4>1, <4>2
    <3>5. View[i] < View[j]
      BY <1>4, <3>4 DEF StatusInv
    <3>6. QED BY <3>2, <3>3, <3>4, <3>5 DEF Txn
  <2>2. \A t \in mine' : ~Owned(W, t)
    BY <1>2, <2>1
  <2>3. save.across /\ ~save.marked => mine = {}
    BY <1>4 DEF SaveInv
  <2>4. save.marked => marker.base = save.base /\ marker.floor = save.floor
    BY <1>4 DEF SaveInv
  <2>5. QED BY <1>2, <1>4, <1>7, <1>10, <2>2, <2>3, <2>4 DEF ForgetInv, Owned
<1>12. RestoredInv(W)'
  BY <1>10 DEF RestoredInv
<1>13. WorkInv(W, lo)'
  BY <1>2, <1>9, <1>10, <1>11, <1>12 DEF WorkInv
<1>14. QED BY <1>1, <1>2, <1>8, <1>13 DEF State, Working

(* The savepoint is forgotten, and its commits with it. *)
LEMMA UndoDoneStep ==
  ASSUME TypeInv, ControlInv, NEW W \in Seq(Txn), NEW lo \in Nat, State(W, lo), UndoDone
  PROVE  State(W, lo)'
<1>1. pc = "forget" /\ mode = "undo" /\ Working
  BY DEF UndoDone, Working
<1>2. /\ save' = NoSave /\ mine' = {} /\ owed' = FALSE /\ pc' = "replay"
      /\ status' = [t \in Txn |-> IF t \in mine THEN "undone" ELSE status[t]]
      /\ UNCHANGED <<cache, disk, len, slot, base, overlay, epoch, mode, floor, crashes>>
  BY DEF UndoDone, logVars
<1>3. /\ StatusInv(W) /\ Written(lo, W) /\ Live(slot.seq) /\ lo <= slot.seq
      /\ Acked(W, slot.seq) /\ RestoredInv(W) /\ ForgetInv(W)
  BY <1>1 DEF State, WorkInv
<1>4. slot.seq \in Nat /\ Len(W) \in Nat
  BY LenProperties DEF TypeInv, Hdr
<1>5. \A i \in 1..Len(W) : W[i] \in Txn /\ W[i] \notin mine
  <2>1. \A i \in 1..Len(W) : W[i] \in Txn /\ Owned(W, W[i])
    BY ElementOfSeq DEF Owned
  <2>2. QED BY <1>3, <2>1 DEF ForgetInv
<1>6. \A i \in 1..Len(W) : status'[W[i]] = status[W[i]]
  BY <1>2, <1>5
<1>7. StatusInv(W)'
  <2>1. \A t \in Txn : status'[t] = "new" <=> status[t] = "new"
    BY <1>2, <1>3 DEF StatusInv
  <2>2. \E k \in Len(W)..MaxTxn : \A t \in Txn : status'[t] = "new" <=> t > k
    BY <1>3, <2>1 DEF StatusInv
  <2>3. \A i \in 1..Len(W) : status'[W[i]] \notin {"new", "undone"}
    BY <1>3, <1>6 DEF StatusInv
  <2>4. \A t \in Txn : status'[t] = "acked" \/ status'[t] = "staged" => Owned(W, t)
    BY <1>2, <1>3 DEF StatusInv
  <2>5. \A i, j \in 1..Len(W) : i < j => W[i] < W[j]
    BY <1>3 DEF StatusInv
  <2>6. Working'
    BY <1>1, <1>2 DEF Working
  <2>7. QED BY <1>2, <2>2, <2>3, <2>4, <2>5, <2>6 DEF StatusInv, Owned
<1>8. Written(lo, W)' /\ Live(slot.seq)' /\ lo <= slot'.seq
  BY <1>2, <1>3 DEF Written, Live
<1>9. Acked(W, slot.seq)'
  <2>1. \A e \in (slot.seq + 1)..Len(W) : e \in 1..Len(W)
    BY <1>4
  <2>2. QED BY <1>2, <1>3, <1>6, <2>1 DEF Acked, Stored
<1>10. RestoredInv(W)'
  BY <1>2, <1>3 DEF RestoredInv, BaseInv
<1>11. WorkInv(W, lo)'
  BY <1>2, <1>8, <1>9, <1>10 DEF WorkInv
<1>12. QED BY <1>1, <1>2, <1>7, <1>11 DEF State, Working

---------------------------------------------------------------------------
(* A crash.                                                                 *)

(* The commits a crash is to undo. *)
Doomed == {t \in mine : save.across \/ save.marked}

(* What a crash leaves of a database that was V, when U is what an open would *)
(* bring back: no doomed commit is in it and every acknowledged one is.       *)
LEMMA CrashDown ==
  ASSUME TypeInv, Crash, NEW V \in Seq(Txn), StatusInv(V), NEW U \in Seq(Txn),
         NEW l \in Nat, Prefix(U, V), \A i \in 1..Len(U) : U[i] \notin Doomed,
         \A t \in Txn : status[t] = "acked" => Owned(U, t),
         HdrOK(Kept, U), Log(disk, l, U, Kept.seq), l <= Kept.seq, Acked(U, Kept.seq),
         marker.on => marker.floor = Len(U)
                      /\ (marker.base.epoch = slot.epoch => marker.base = slot),
         ~marker.on => Capped(disk, U)
  PROVE  State(U, l)'
<1>1. /\ mode' = "down" /\ mine' = {} /\ save' = NoSave /\ ~save'.on
      /\ status' = [t \in Txn |-> AfterCrash(t)] /\ UNCHANGED <<disk, slot, marker>>
  BY DEF Crash, NoSave
<1>2. ~Working' /\ mode' # "recover"
  BY <1>1 DEF Working
<1>3. Kept' = Kept
  BY <1>1 DEF Kept
<1>4. \A t \in Txn :
        /\ status[t] # "staged" => status'[t] = status[t]
        /\ status[t] = "staged" => status'[t] = IF t \in Doomed THEN "undone" ELSE "unsure"
  <2>1. ASSUME NEW t \in Txn
        PROVE  /\ status[t] # "staged" => status'[t] = status[t]
               /\ status[t] = "staged" =>
                    status'[t] = IF t \in Doomed THEN "undone" ELSE "unsure"
    <3>1. status'[t] = AfterCrash(t)
      BY <1>1
    <3>2. t \in mine => status[t] = "staged"
      BY DEF StatusInv
    <3>3. CASE t \in Doomed
      BY <3>1, <3>2, <3>3 DEF AfterCrash, Doomed
    <3>4. CASE t \notin Doomed /\ status[t] = "staged"
      BY <3>1, <3>4 DEF AfterCrash, Doomed
    <3>5. CASE t \notin Doomed /\ status[t] # "staged"
      BY <3>1, <3>5 DEF AfterCrash, Doomed
    <3>6. QED BY <3>2, <3>3, <3>4, <3>5 DEF Doomed
  <2>2. QED BY <2>1
<1>5. /\ Len(U) \in Nat /\ Len(V) \in Nat /\ Len(U) <= Len(V)
      /\ \A i \in 1..Len(U) : U[i] \in Txn /\ i \in 1..Len(V) /\ U[i] = V[i]
  BY LenProperties, ElementOfSeq DEF Prefix
<1>6. StatusInv(U)'
  <2>1. \A t \in Txn : status'[t] = "new" <=> status[t] = "new"
    BY <1>4
  <2>2. \E k \in Len(U)..MaxTxn : \A t \in Txn : status'[t] = "new" <=> t > k
    <3>1. PICK k \in Len(V)..MaxTxn : \A t \in Txn : status[t] = "new" <=> t > k
      BY DEF StatusInv
    <3>2. k \in Len(U)..MaxTxn
      BY <1>5, <3>1
    <3>3. QED BY <2>1, <3>1, <3>2
  <2>3. \A i, j \in 1..Len(U) : i < j => U[i] < U[j]
    BY <1>5 DEF StatusInv
  <2>4. \A i \in 1..Len(U) : status[U[i]] \notin {"new", "undone"}
    BY <1>5 DEF StatusInv
  <2>5. \A i \in 1..Len(U) : status'[U[i]] \notin {"new", "undone"}
    BY <1>4, <1>5, <2>4
  <2>6. \A t \in Txn : status'[t] # "staged" /\ (status'[t] = "acked" => Owned(U, t))
    BY <1>4
  <2>7. QED BY <1>1, <2>2, <2>3, <2>5, <2>6 DEF StatusInv, Owned
<1>7. Acked(U, Kept.seq)'
  <2>1. Kept.seq \in Nat
    BY SavepointFields DEF TypeInv, Kept, Hdr
  <2>2. ASSUME NEW e \in (Kept.seq + 1)..Len(U), status'[U[e]] = "acked" PROVE Stored(e)'
    <3>1. e \in 1..Len(U)
      BY <1>5, <2>1
    <3>2. status[U[e]] = "acked"
      BY <1>4, <1>5, <2>2, <3>1
    <3>3. QED BY <1>1, <3>2 DEF Acked, Stored
  <2>3. QED BY <1>3, <2>2 DEF Acked
<1>8. Log(disk, l, U, Kept.seq)' /\ HdrOK(Kept, U)'
  BY <1>1, <1>3 DEF Log
<1>9. CrashInv(U, l)'
  BY <1>1, <1>3, <1>7, <1>8 DEF CrashInv, Capped
<1>10. QED BY <1>2, <1>6, <1>9 DEF State

(* What a savepoint's marker keeps is the published header, unless a fold    *)
(* published past it.                                                        *)
LEMMA KeptWithMarker ==
  ASSUME TypeInv, save.on, save.marked, marker.on, NEW V \in Seq(Txn), SaveInv(V)
  PROVE  /\ marker.floor = save.floor /\ save.base \in Hdr /\ save.base.seq \in Nat
         /\ save.floor \in Nat
         /\ marker.base.epoch = slot.epoch => marker.base = slot
         /\ slot.epoch > save.base.epoch => Kept = save.base /\ save.base.seq = save.floor
         /\ ~(slot.epoch > save.base.epoch) => Kept = slot /\ slot.seq <= save.base.seq
<1>1. /\ save.base \in Hdr /\ save.base.seq \in Nat /\ save.base.epoch \in Nat
      /\ save.floor \in Nat /\ slot.epoch \in Nat
  BY SavepointFields DEF TypeInv, Hdr
<1>2. /\ marker.base = save.base /\ marker.floor = save.floor
      /\ slot.epoch <= save.base.epoch => slot.seq <= save.base.seq
      /\ slot.epoch = save.base.epoch => slot = save.base
      /\ slot.epoch > save.base.epoch => save.floor = save.base.seq
  BY DEF SaveInv
<1>3. CASE slot.epoch > save.base.epoch
  BY <1>1, <1>2, <1>3 DEF Kept
<1>4. CASE ~(slot.epoch > save.base.epoch)
  <2>1. slot.epoch <= save.base.epoch
    BY <1>1, <1>4
  <2>2. CASE slot.epoch = save.base.epoch
    BY <1>1, <1>2, <1>4, <2>2 DEF Kept
  <2>3. CASE slot.epoch < save.base.epoch
    BY <1>1, <1>2, <1>4, <2>3 DEF Kept
  <2>4. QED BY <1>1, <2>1, <2>2, <2>3
<1>5. QED BY <1>1, <1>2, <1>3, <1>4

(* The commits of a savepoint are above its floor, and no other is. *)
LEMMA MineAbove ==
  ASSUME NEW V \in Seq(Txn), TypeInv, StatusInv(V), SaveInv(V), save.floor \in Nat
  PROVE  /\ \A i \in 1..Len(V) : i <= save.floor => V[i] \notin mine
         /\ \A t \in Txn : t \in mine <=> \E e \in (save.floor + 1)..Len(V) : V[e] = t
<1>1. \A t \in Txn : t \in mine <=> \E e \in (save.floor + 1)..Len(V) : V[e] = t
  BY DEF SaveInv
<1>2. ASSUME NEW i \in 1..Len(V), i <= save.floor, V[i] \in mine PROVE FALSE
  <2>1. V[i] \in Txn /\ Len(V) \in Nat
    BY <1>2, ElementOfSeq, LenProperties
  <2>2. PICK e \in (save.floor + 1)..Len(V) : V[e] = V[i]
    BY <1>1, <1>2, <2>1
  <2>3. e \in 1..Len(V) /\ i < e
    BY <1>2, <2>1, <2>2
  <2>4. V[i] < V[e]
    BY <2>3 DEF StatusInv
  <2>5. QED BY <2>1, <2>2, <2>4 DEF Txn
<1>3. QED BY <1>1, <1>2

(* A crash with nothing to undo: what is published, and the log over it. *)
LEMMA CrashUnmarked ==
  ASSUME TypeInv, Crash, NEW W \in Seq(Txn), NEW lo \in Nat, StatusInv(W), Working,
         ~marker.on, Doomed = {}, HdrOK(slot, W), Written(lo, W), Live(slot.seq),
         lo <= slot.seq, Acked(W, slot.seq)
  PROVE  State(W, lo)'
<1>1. Kept = slot /\ slot.seq \in Nat /\ slot.content \in Seq(Txn)
  BY DEF Kept, TypeInv, Hdr
<1>2. slot.seq <= Len(W) /\ Prefix(W, W)
  BY LenProperties DEF HdrOK, Prefix
<1>3. Log(disk, lo, W, slot.seq) /\ Capped(disk, W)
  BY <1>1, <1>2, DiskLog
<1>4. \A t \in Txn : status[t] = "acked" => Owned(W, t)
  BY DEF StatusInv
<1>5. QED BY <1>1, <1>2, <1>3, <1>4, CrashDown

(* A crash in a savepoint with its marker on disk, or while one is undone: U *)
(* is what was there when it began, and s what a fold has published of it.   *)
LEMMA CrashMarked ==
  ASSUME TypeInv, Crash, NEW V \in Seq(Txn), StatusInv(V), save.on, save.marked, marker.on,
         SaveInv(V), NEW U \in Seq(Txn), Prefix(U, V), Len(U) = save.floor, HdrOK(slot, V),
         \A t \in Txn : status[t] = "acked" => Owned(U, t), NEW lo \in Nat,
         Log(disk, lo, U, slot.seq), lo <= slot.seq, Acked(U, slot.seq)
  PROVE  \E l \in Nat : State(U, l)'
<1>1. /\ marker.floor = save.floor /\ save.base \in Hdr /\ save.base.seq \in Nat
      /\ save.floor \in Nat
      /\ marker.base.epoch = slot.epoch => marker.base = slot
      /\ slot.epoch > save.base.epoch => Kept = save.base /\ save.base.seq = save.floor
      /\ ~(slot.epoch > save.base.epoch) => Kept = slot /\ slot.seq <= save.base.seq
  BY KeptWithMarker
<1>2. \A i \in 1..Len(U) : U[i] \notin Doomed
  <2>1. \A i \in 1..Len(U) : i \in 1..Len(V) /\ i <= save.floor /\ U[i] = V[i]
    BY <1>1, LenProperties DEF Prefix
  <2>2. QED BY <1>1, <2>1, MineAbove DEF Doomed
<1>3. /\ slot.content \in Seq(Txn) /\ slot.seq \in Nat /\ save.base.content \in Seq(Txn)
      /\ HdrOK(save.base, V) /\ save.base.seq <= Len(U)
  BY <1>1 DEF TypeInv, Hdr, SaveInv
<1>4. ASSUME NEW h, h.content \in Seq(Txn), HdrOK(h, V), h.seq <= Len(U) PROVE HdrOK(h, U)
  BY <1>4, PrefixBelow DEF HdrOK
<1>5. CASE slot.epoch > save.base.epoch
  <2>1. Kept = save.base /\ Kept.seq = Len(U) /\ Len(U) \in Nat
    BY <1>1, <1>5
  <2>2. (Len(U) + 1)..Len(U) = {}
    BY <2>1
  <2>3. Log(disk, 0, U, Kept.seq) /\ Acked(U, Kept.seq) /\ 0 <= Kept.seq
    BY <2>1, <2>2 DEF Log, Acked
  <2>4. HdrOK(Kept, U)
    BY <1>3, <1>4, <2>1
  <2>5. State(U, 0)'
    BY <1>1, <1>2, <2>3, <2>4, CrashDown
  <2>6. QED BY <2>5
<1>6. CASE ~(slot.epoch > save.base.epoch)
  <2>1. Kept = slot /\ slot.seq <= Len(U)
    BY <1>1, <1>3, <1>6
  <2>2. HdrOK(Kept, U)
    BY <1>3, <1>4, <2>1
  <2>3. State(U, lo)'
    BY <1>1, <1>2, <2>1, <2>2, CrashDown
  <2>4. QED BY <2>3
<1>7. QED BY <1>5, <1>6

(* A crash of a writer between rollbacks. *)
LEMMA CrashServing ==
  ASSUME TypeInv, ControlInv, NEW W \in Seq(Txn), NEW lo \in Nat, State(W, lo), Crash, Serving
  PROVE  \E U \in Seq(Txn), l \in Nat : State(U, l)'
<1>1. /\ StatusInv(W) /\ Written(lo, W) /\ Live(slot.seq) /\ lo <= slot.seq
      /\ Acked(W, slot.seq) /\ ServeInv(W) /\ slot.seq \in Nat /\ slot.seq <= Len(W)
      /\ Len(W) \in Nat /\ HdrOK(slot, W)
  BY ServeFacts DEF ServeInv
<1>2. Working /\ (marker.on <=> save.on /\ save.marked) /\ (save.on <=> InSavepoint)
  BY DEF Serving, ControlInv
<1>3. CASE ~marker.on
  <2>1. Doomed = {}
    BY <1>1, <1>2, <1>3 DEF Doomed, ServeInv, SaveInv, StatusInv
  <2>2. State(W, lo)'
    BY <1>1, <1>2, <1>3, <2>1, CrashUnmarked
  <2>3. QED BY <2>2
<1>4. CASE marker.on
  <2>1. save.on /\ save.marked /\ SaveInv(W) /\ save.floor \in Nat /\ save.floor <= Len(W)
    BY <1>1, <1>2, <1>4, SavepointFields DEF ServeInv, SaveInv
  <2>2. PICK U : U = SubSeq(W, 1, save.floor)
    OBVIOUS
  <2>3. /\ U \in Seq(Txn) /\ Len(U) = save.floor /\ Prefix(U, W)
        /\ \A i \in 1..save.floor : U[i] = W[i]
    <3>1. save.floor \in 0..Len(W)
      BY <1>1, <2>1
    <3>2. QED BY <2>2, <3>1, FirstOf
  <2>4. \A t \in Txn : status[t] = "acked" => Owned(U, t)
    <3>1. ASSUME NEW t \in Txn, status[t] = "acked" PROVE Owned(U, t)
      <4>1. t \notin mine
        BY <1>1, <3>1 DEF StatusInv
      <4>2. PICK e \in 1..Len(W) : W[e] = t
        BY <1>1, <3>1 DEF StatusInv, Owned
      <4>3. e \in 1..save.floor
        BY <1>1, <2>1, <4>1, <4>2, MineAbove
      <4>4. QED BY <2>3, <4>2, <4>3 DEF Owned
    <3>2. QED BY <3>1
  <2>5. Log(disk, lo, U, slot.seq)
    BY <1>1, <2>3, DiskLog, LogShorter
  <2>6. Acked(U, slot.seq)
    <3>1. \A e \in (slot.seq + 1)..Len(U) : e \in (slot.seq + 1)..Len(W) /\ U[e] = W[e]
      BY <1>1, <2>1, <2>3
    <3>2. QED BY <1>1, <3>1 DEF Acked
  <2>7. \E l \in Nat : State(U, l)'
    BY <1>1, <1>4, <2>1, <2>3, <2>4, <2>5, <2>6, CrashMarked
  <2>8. QED BY <2>3, <2>7
<1>5. QED BY <1>3, <1>4

(* A crash of a rollback that has cut the log: with no marker to say what     *)
(* was there before, a fold that published past the cut brings it all back.   *)
LEMMA CrashRestore ==
  ASSUME TypeInv, ControlInv, NEW W \in Seq(Txn), NEW lo \in Nat, State(W, lo), Crash,
         mode = "undo", pc = "restore"
  PROVE  \E U \in Seq(Txn), l \in Nat : State(U, l)'
<1>1. /\ StatusInv(W) /\ Written(lo, W) /\ Live(slot.seq) /\ lo <= slot.seq
      /\ Acked(W, slot.seq) /\ RestoreInv(W) /\ Working
  BY DEF State, WorkInv, Working
<1>2. Working /\ (marker.on <=> save.on /\ save.marked) /\ save.on
  BY <1>1 DEF ControlInv
<1>3. PICK V : V = View
  OBVIOUS
<1>4. /\ StatusInv(V) /\ HdrOK(slot, V) /\ SaveInv(V) /\ Prefix(W, V)
      /\ Len(W) = save.floor /\ V \in Seq(Txn)
      /\ slot.epoch > save.base.epoch => disk = cache
  BY <1>1, <1>3, ViewParts DEF RestoreInv, TypeInv
<1>5. /\ slot.seq \in Nat /\ slot.content \in Seq(Txn) /\ Len(W) \in Nat /\ Len(V) \in Nat
      /\ Prefix(slot.content, V) /\ slot.seq = Len(slot.content) /\ slot.seq <= Len(V)
      /\ slot.epoch \in Nat /\ save.base.epoch \in Nat /\ save.base.seq \in Nat
  BY <1>2, <1>4, SavepointFields, LenProperties DEF HdrOK, Prefix, TypeInv, Hdr
<1>6. \A t \in Txn : status[t] = "acked" => Owned(W, t)
  BY <1>1 DEF StatusInv
<1>7. slot.seq <= Len(W) => HdrOK(slot, W)
  BY <1>4, <1>5, PrefixBelow DEF HdrOK
<1>8. CASE marker.on
  <2>1. Log(disk, lo, W, slot.seq)
    BY <1>1, <1>5, DiskLog
  <2>2. \E l \in Nat : State(W, l)'
    BY <1>1, <1>2, <1>4, <1>6, <1>8, <2>1, CrashMarked
  <2>3. QED BY <2>2
<1>9. CASE ~marker.on /\ slot.seq <= Len(W)
  <2>1. Doomed = {}
    BY <1>2, <1>4, <1>9 DEF Doomed, SaveInv
  <2>2. State(W, lo)'
    BY <1>1, <1>7, <1>9, <2>1, CrashUnmarked
  <2>3. QED BY <2>2
<1>10. CASE ~marker.on /\ slot.seq > Len(W)
  <2>1. Doomed = {} /\ Kept = slot
    BY <1>2, <1>4, <1>10 DEF Doomed, SaveInv, Kept
  <2>2. disk = cache
    <3>1. save.base.seq <= Len(W)
      BY <1>4 DEF SaveInv
    <3>2. slot.epoch <= save.base.epoch => slot.seq <= save.base.seq
      BY <1>4 DEF SaveInv
    <3>3. QED BY <1>4, <1>5, <1>10, <3>1, <3>2
  <2>3. PICK U : U = SubSeq(V, 1, slot.seq)
    OBVIOUS
  <2>4. /\ U \in Seq(Txn) /\ Len(U) = slot.seq /\ Prefix(U, V)
        /\ \A i \in 1..slot.seq : U[i] = V[i]
    <3>1. slot.seq \in 0..Len(V)
      BY <1>5
    <3>2. QED BY <1>4, <2>3, <3>1, FirstOf
  <2>5. HdrOK(slot, U)
    BY <1>4, <1>5, <2>4, PrefixBelow DEF HdrOK
  <2>6. \A t \in Txn : status[t] = "acked" => Owned(U, t)
    <3>1. ASSUME NEW t \in Txn, status[t] = "acked" PROVE Owned(U, t)
      <4>1. PICK e \in 1..Len(W) : W[e] = t
        BY <1>6, <3>1 DEF Owned
      <4>2. e \in 1..Len(U) /\ U[e] = t
        BY <1>4, <1>5, <1>10, <2>4, <4>1 DEF Prefix
      <4>3. QED BY <4>2 DEF Owned
    <3>2. QED BY <3>1
  <2>7. Capped(disk, U)
    <3>1. Capped(cache, W)
      BY <1>1, <1>5, CacheLog
    <3>2. \A i \in Index : cache[i].epoch \in Nat
      BY DEF TypeInv, TypeOK, Cell
    <3>3. QED BY <1>5, <1>10, <2>2, <2>4, <3>1, <3>2 DEF Capped
  <2>8. (slot.seq + 1)..Len(U) = {}
    BY <1>5, <2>4
  <2>9. Log(disk, 0, U, Kept.seq) /\ Acked(U, Kept.seq) /\ 0 <= Kept.seq
    BY <1>5, <2>1, <2>8 DEF Log, Acked
  <2>10. State(U, 0)'
    BY <1>4, <1>10, <2>1, <2>4, <2>5, <2>6, <2>7, <2>9, CrashDown
  <2>11. QED BY <2>4, <2>10
<1>11. QED BY <1>5, <1>8, <1>9, <1>10

(* A crash of a rollback that has put the kept header back. *)
LEMMA CrashRestored ==
  ASSUME TypeInv, ControlInv, NEW W \in Seq(Txn), NEW lo \in Nat, State(W, lo), Crash,
         mode = "undo", pc \in {"forget", "replay"}
  PROVE  State(W, lo)'
<1>1. /\ StatusInv(W) /\ Written(lo, W) /\ Live(slot.seq) /\ lo <= slot.seq
      /\ Acked(W, slot.seq) /\ RestoredInv(W) /\ Working /\ (pc = "forget" => ForgetInv(W))
  BY DEF State, WorkInv, Working
<1>2. /\ marker.on <=> save.on /\ save.marked
      /\ save.on <=> pc = "forget"
  BY <1>1 DEF ControlInv, InSavepoint
<1>3. HdrOK(slot, W) /\ slot.seq \in Nat /\ slot.seq <= Len(W) /\ Prefix(W, W)
  BY <1>1, LenProperties DEF RestoredInv, HdrOK, Prefix, TypeInv, Hdr
<1>4. CASE ~marker.on
  <2>1. Doomed = {}
    BY <1>1, <1>2, <1>4 DEF Doomed, ForgetInv, StatusInv
  <2>2. QED BY <1>1, <1>3, <1>4, <2>1, CrashUnmarked
<1>5. CASE marker.on
  <2>1. /\ ForgetInv(W) /\ HdrOK(marker.base, W) /\ marker.floor = Len(W)
        /\ marker.base.epoch <= slot.epoch => marker.base.seq = slot.seq
        /\ marker.base.epoch = slot.epoch => marker.base = slot
    BY <1>1, <1>2, <1>5 DEF ForgetInv
  <2>2. HdrOK(Kept, W) /\ Kept.seq = slot.seq
    BY <1>3, <2>1 DEF Kept
  <2>3. Log(disk, lo, W, Kept.seq) /\ lo <= Kept.seq /\ Acked(W, Kept.seq)
    BY <1>1, <1>3, <2>2, DiskLog
  <2>4. \A i \in 1..Len(W) : W[i] \notin Doomed
    BY <2>1 DEF ForgetInv, Owned, Doomed
  <2>5. \A t \in Txn : status[t] = "acked" => Owned(W, t)
    BY <1>1 DEF StatusInv
  <2>6. QED BY <1>1, <1>3, <1>5, <2>1, <2>2, <2>3, <2>4, <2>5, CrashDown
<1>6. QED BY <1>4, <1>5

(* A crash of a recovery, which is to begin again. *)
LEMMA CrashRecovering ==
  ASSUME TypeInv, ControlInv, NEW W \in Seq(Txn), NEW lo \in Nat, State(W, lo), Crash,
         mode = "recover"
  PROVE  State(W, lo)'
<1>1. StatusInv(W) /\ CrashInv(W, lo) /\ ~save.on /\ Prefix(W, W)
  BY LenProperties DEF State, Working, ControlInv, InSavepoint, Prefix
<1>2. Doomed = {}
  BY <1>1 DEF StatusInv, Doomed
<1>3. \A t \in Txn : status[t] = "acked" => Owned(W, t)
  BY <1>1 DEF StatusInv
<1>4. QED BY <1>1, <1>2, <1>3, CrashDown DEF CrashInv

LEMMA CrashStep ==
  ASSUME TypeInv, ControlInv, NEW W \in Seq(Txn), NEW lo \in Nat, State(W, lo), Crash
  PROVE  \E U \in Seq(Txn), l \in Nat : State(U, l)'
<1>1. Serving \/ mode = "recover" \/ (mode = "undo" /\ pc \in {"restore", "forget", "replay"})
  BY DEF Serving, Working, Crash, ControlInv, TypeInv, TypeOK
<1>2. CASE Serving
  BY <1>2, CrashServing
<1>3. CASE mode = "recover"
  BY <1>3, CrashRecovering
<1>4. CASE mode = "undo" /\ pc = "restore"
  BY <1>4, CrashRestore
<1>5. CASE mode = "undo" /\ pc \in {"forget", "replay"}
  BY <1>5, CrashRestored
<1>6. QED BY <1>1, <1>2, <1>3, <1>4, <1>5

---------------------------------------------------------------------------
(* An open.                                                                 *)

(* A cell of a log that was erased is what it was or nothing. *)
LEMMA CappedErased ==
  ASSUME NEW C \in [Index -> Cell], NEW from \in Nat, NEW W \in Seq(Txn), Capped(C, W)
  PROVE  Capped(Erased(C, from), W)
<1>0. \A i \in Index : i < from \/ i >= from
  BY Indices
<1>1. \A i \in Index : Erased(C, from)[i] = C[i] \/ Erased(C, from)[i] = Zero
  BY <1>0, ErasedCells
<1>2. Zero.kind # "commit"
  BY DEF Zero
<1>3. QED BY <1>1, <1>2 DEF Capped

(* What recovery goes by while it has not replayed. *)
LEMMA RecoverFacts ==
  ASSUME TypeInv, ControlInv, NEW W \in Seq(Txn), NEW lo \in Nat, State(W, lo), ~Working
  PROVE  /\ StatusInv(W) /\ CrashInv(W, lo) /\ Kept \in Hdr /\ Kept.seq \in Nat
         /\ ~save.on /\ mine = {} /\ \A t \in Txn : status[t] # "staged"
         /\ mode = "recover" => RecoverInv(W)
         /\ cache \in [Index -> Cell] /\ disk \in [Index -> Cell] /\ len \in 0..MaxLog
         /\ slot \in Hdr /\ base \in Hdr /\ Len(W) \in Nat
<1>1. StatusInv(W) /\ CrashInv(W, lo) /\ (mode = "recover" => RecoverInv(W))
  BY DEF State
<1>2. ~save.on
  BY DEF ControlInv, InSavepoint, Working
<1>3. Kept \in Hdr /\ slot \in Hdr /\ base \in Hdr
  BY SavepointFields DEF Kept, TypeInv
<1>4. Kept.seq \in Nat
  BY <1>3 DEF Hdr
<1>5. QED BY <1>1, <1>2, <1>3, <1>4, LenProperties DEF StatusInv, TypeInv, TypeOK

(* Statuses that are not touched, on the way from a crash to an open writer. *)
LEMMA StatusSame ==
  ASSUME NEW W \in Seq(Txn), StatusInv(W), UNCHANGED <<status, mine, save>>,
         ~Working \/ Working'
  PROVE  StatusInv(W)'
BY DEF StatusInv, Owned

(* Zu1File::open_kind and Wal::open_on. *)
LEMMA OpenStep ==
  ASSUME TypeInv, ControlInv, NEW W \in Seq(Txn), NEW lo \in Nat, State(W, lo), Open
  PROVE  State(W, lo)'
<1>1. mode = "down" /\ ~Working
  BY DEF Open, Working
<1>2. /\ StatusInv(W) /\ CrashInv(W, lo) /\ Kept \in Hdr /\ Kept.seq \in Nat
      /\ disk \in [Index -> Cell] /\ Len(W) \in Nat
  BY <1>1, RecoverFacts
<1>3. Intact(disk) \in 0..MaxLog /\ Intact(disk) \in Nat /\ Intact(disk) + 1 \in Nat
  BY <1>2, IntactPlace, RecoveryAssumption
<1>4. /\ base' = Kept /\ floor' = (IF marker.on THEN marker.floor ELSE 0)
      /\ len' = Intact(disk) /\ cache' = Erased(disk, Intact(disk) + 1) /\ disk' = cache'
      /\ mode' = "recover" /\ pc' = IF marker.on THEN "cut" ELSE "replay"
      /\ UNCHANGED <<slot, marker, overlay, epoch, save, mine, owed, status, crashes>>
  BY DEF Open
<1>5. Kept' = Kept /\ ~Working'
  BY <1>4 DEF Kept, Working
<1>6. StatusInv(W)'
  BY <1>1, <1>2, <1>4, <1>5, StatusSame
<1>7. CrashInv(W, lo)'
  <2>1. Log(disk', lo, W, Kept.seq)
    BY <1>2, <1>3, <1>4, LogErased DEF CrashInv
  <2>2. ASSUME NEW e \in (Kept.seq + 1)..Len(W), status[W[e]] = "acked" PROVE Stored(e)'
    <3>1. PICK i \in Index : IsCommit(disk, i, e)
      BY <1>2, <2>2 DEF CrashInv, Acked, Stored
    <3>2. IsCommit(disk', i, e)
      BY <1>2, <1>4, <3>1, OpenKeeps DEF CrashInv
    <3>3. QED BY <3>2 DEF Stored
  <2>3. Acked(W, Kept.seq)'
    BY <1>4, <1>5, <2>2 DEF Acked
  <2>4. ~marker.on => Capped(disk', W)
    BY <1>2, <1>3, <1>4, CappedErased DEF CrashInv
  <2>5. Log(disk, lo, W, Kept.seq)' /\ HdrOK(Kept, W)' /\ (lo <= Kept.seq)'
    BY <1>2, <1>5, <2>1 DEF CrashInv, Log
  <2>6. QED BY <1>2, <1>4, <2>3, <2>4, <2>5 DEF CrashInv, Capped
<1>8. RecoverInv(W)'
  <2>1. \A i \in Index : i > len' => cache'[i] = Zero
    <3>1. \A i \in Index : i > Intact(disk) => i >= Intact(disk) + 1
      BY <1>3, Indices
    <3>2. QED BY <1>2, <1>3, <1>4, <3>1, ErasedCells
  <2>2. pc' = "cut" => marker.on
    BY <1>4
  <2>3. pc' # "cut" => ~marker.on /\ pc' = "replay" /\ Kept = slot
    BY <1>4 DEF Kept
  <2>4. Capped(disk', W) \/ marker.on
    BY <1>2, <1>3, <1>4, CappedErased DEF CrashInv
  <2>5. pc' \in {"cut", "replay"}
    BY <1>4
  <2>6. pc' \in {"cut", "finish"} => base' = Kept' /\ floor' = marker'.floor
    BY <1>4, <1>5, <2>2, <2>5
  <2>7. pc' # "cut" => slot' = base' /\ Capped(disk, W)'
    BY <1>4, <2>3, <2>4 DEF Capped
  <2>8. QED BY <1>4, <1>5, <2>1, <2>3, <2>5, <2>6, <2>7 DEF RecoverInv
<1>9. QED BY <1>4, <1>5, <1>6, <1>7, <1>8 DEF State

(* The log cut at the floor of an interrupted savepoint. *)
LEMMA RecoverCutStep ==
  ASSUME TypeInv, ControlInv, NEW W \in Seq(Txn), NEW lo \in Nat, State(W, lo), RecoverCut
  PROVE  State(W, lo)'
<1> DEFINE n == CutAt(cache, len, floor)
<1>1. mode = "recover" /\ pc = "cut" /\ ~Working /\ marker.on
  BY DEF RecoverCut, ControlInv, TypeInv, TypeOK, Working
<1>2. /\ StatusInv(W) /\ CrashInv(W, lo) /\ Kept \in Hdr /\ Kept.seq \in Nat
      /\ cache \in [Index -> Cell] /\ len \in 0..MaxLog /\ Len(W) \in Nat /\ RecoverInv(W)
  BY <1>1, RecoverFacts
<1>3. floor = Len(W) /\ disk = cache /\ base = Kept /\ floor = marker.floor
  BY <1>1, <1>2 DEF CrashInv, RecoverInv
<1>4. n \in 0..len /\ n \in Nat /\ n + 1 \in Nat
  <2>1. floor \in Nat
    BY DEF TypeInv
  <2>2. n \in 0..len
    BY <1>2, <2>1, CutPlace
  <2> HIDE DEF n
  <2>3. QED BY <1>2, <2>2
<1>5. /\ cache' = Erased(cache, n + 1) /\ disk' = cache' /\ len' = n /\ pc' = "finish"
      /\ UNCHANGED <<slot, marker, base, overlay, epoch, save, mine, owed, mode, floor, status,
                     crashes>>
  BY DEF RecoverCut
<1>6. Kept' = Kept /\ ~Working'
  BY <1>1, <1>5 DEF Kept, Working
<1>7. Capped(disk', W)
  BY <1>2, <1>3, <1>5, CutCapped
<1>8. CrashInv(W, lo)'
  <2>1. Log(disk', lo, W, Kept.seq)
    BY <1>2, <1>3, <1>4, <1>5, LogErased DEF CrashInv
  <2>2. ASSUME NEW e \in (Kept.seq + 1)..Len(W), status[W[e]] = "acked" PROVE Stored(e)'
    <3>1. PICK i \in Index : IsCommit(cache, i, e)
      BY <1>2, <1>3, <2>2 DEF CrashInv, Acked, Stored
    <3>2. i \in 1..len
      <4>1. cache[i] # Zero
        BY <3>1 DEF IsCommit, Zero
      <4>2. ~(i > len)
        BY <1>2, <4>1 DEF RecoverInv
      <4>3. QED BY <1>2, <4>2, Indices
    <3>3. Log(cache, lo, W, Kept.seq) /\ lo <= Kept.seq
      BY <1>2, <1>3 DEF CrashInv
    <3>4. IsCommit(disk', i, e)
      <4>1. Len(W) <= floor /\ floor \in Nat
        BY <1>2, <1>3
      <4>2. IsCommit(Erased(cache, CutAt(cache, len, floor) + 1), i, e)
        BY <1>2, <3>1, <3>2, <3>3, <4>1, CutKeeps
      <4>3. QED BY <1>5, <4>2
    <3>5. QED BY <3>1, <3>4 DEF Stored
  <2>3. Acked(W, Kept.seq)'
    BY <1>5, <1>6, <2>2 DEF Acked
  <2>4. Log(disk, lo, W, Kept.seq)' /\ HdrOK(Kept, W)' /\ (lo <= Kept.seq)'
    BY <1>2, <1>6, <2>1 DEF CrashInv, Log
  <2>5. QED BY <1>1, <1>2, <1>5, <2>3, <2>4 DEF CrashInv
<1>9. RecoverInv(W)'
  <2>1. \A i \in Index : i > len' => cache'[i] = Zero
    <3>1. \A i \in Index : i > n => i >= n + 1
      BY <1>4, Indices
    <3>2. QED BY <1>2, <1>4, <1>5, <3>1, ErasedCells
  <2>2. base'.seq = Kept'.seq /\ base'.content = Kept'.content /\ base' = Kept'
        /\ floor' = marker'.floor
    BY <1>3, <1>5, <1>6
  <2>3. Capped(disk, W)'
    BY <1>7 DEF Capped
  <2>4. QED BY <1>5, <2>1, <2>2, <2>3 DEF RecoverInv
<1>10. StatusInv(W)'
  BY <1>1, <1>2, <1>5, StatusSame
<1>11. QED BY <1>1, <1>5, <1>6, <1>8, <1>9, <1>10 DEF State

(* The kept header published past what the crash left. *)
LEMMA FinishRollbackStep ==
  ASSUME TypeInv, ControlInv, NEW W \in Seq(Txn), NEW lo \in Nat, State(W, lo),
         FinishRollback
  PROVE  State(W, lo)'
<1>1. mode = "recover" /\ pc = "finish" /\ ~Working /\ marker.on
  BY DEF FinishRollback, ControlInv, TypeInv, TypeOK, Working
<1>2. /\ StatusInv(W) /\ CrashInv(W, lo) /\ RecoverInv(W) /\ slot \in Hdr /\ base \in Hdr
      /\ marker.base.epoch \in Nat
  BY <1>1, RecoverFacts, SavepointFields
<1>3. /\ IF slot.epoch > base.epoch
         THEN base' = [base EXCEPT !.epoch = slot.epoch + 1] /\ slot' = base'
         ELSE base' = base /\ slot' = slot
      /\ pc' = "forget"
      /\ UNCHANGED <<cache, disk, len, marker, overlay, epoch, save, mine, owed, mode, floor,
                     status, crashes>>
  BY DEF FinishRollback, logVars
<1>4. base = Kept /\ (marker.base.epoch = slot.epoch => marker.base = slot)
      /\ slot.epoch \in Nat /\ base.epoch \in Nat
  BY <1>1, <1>2 DEF CrashInv, RecoverInv, Hdr
<1>5. /\ Kept'.seq = Kept.seq /\ Kept'.content = Kept.content
      /\ slot' = base' /\ base'.seq = Kept'.seq /\ base'.content = Kept'.content
      /\ marker'.base.epoch = slot'.epoch => marker'.base = slot'
  <2>1. CASE slot.epoch > base.epoch
    <3>1. base' = [base EXCEPT !.epoch = slot.epoch + 1] /\ slot' = base'
      BY <1>3, <2>1
    <3>2. /\ base'.epoch = slot.epoch + 1 /\ base'.content = base.content
          /\ base'.seq = base.seq
      BY <1>2, <1>4, <3>1, HeaderEpoch
    <3>3. base = marker.base /\ marker.base.epoch < slot.epoch
      BY <1>4, <2>1 DEF Kept
    <3>4. Kept' = marker.base /\ marker'.base.epoch # slot'.epoch
      BY <1>1, <1>2, <1>3, <1>4, <3>1, <3>2, <3>3 DEF Kept
    <3>5. QED BY <1>4, <3>1, <3>2, <3>3, <3>4
  <2>2. CASE ~(slot.epoch > base.epoch)
    <3>1. base' = base /\ slot' = slot /\ marker' = marker
      BY <1>3, <2>2
    <3>2. slot = base
      BY <1>2, <1>4, <2>2 DEF Kept
    <3>3. Kept' = Kept
      BY <3>1 DEF Kept
    <3>4. QED BY <1>4, <3>1, <3>2, <3>3
  <2>3. QED BY <2>1, <2>2
<1>6. ~Working' /\ StatusInv(W)'
  BY <1>1, <1>2, <1>3, StatusSame DEF Working
<1>7. CrashInv(W, lo)'
  BY <1>1, <1>2, <1>3, <1>5 DEF CrashInv, HdrOK, Log, Acked, Stored
<1>8. RecoverInv(W)'
  BY <1>1, <1>2, <1>3, <1>5 DEF RecoverInv, Capped
<1>9. QED BY <1>1, <1>3, <1>6, <1>7, <1>8 DEF State

(* The marker forgotten: what is published is what was kept. *)
LEMMA ForgetKeptStep ==
  ASSUME TypeInv, ControlInv, NEW W \in Seq(Txn), NEW lo \in Nat, State(W, lo), ForgetKept
  PROVE  State(W, lo)'
<1>1. mode = "recover" /\ pc = "forget" /\ ~Working
  BY DEF ForgetKept, Working
<1>2. StatusInv(W) /\ CrashInv(W, lo) /\ RecoverInv(W)
  BY <1>1, RecoverFacts
<1>3. /\ marker' = NoMarker /\ pc' = "replay" /\ ~marker'.on
      /\ UNCHANGED <<cache, disk, len, slot, base, overlay, epoch, save, mine, owed, mode,
                     floor, status, crashes>>
  BY DEF ForgetKept, logVars, NoMarker
<1>4. slot = base /\ base.seq = Kept.seq /\ base.content = Kept.content /\ Capped(disk, W)
  BY <1>1, <1>2 DEF RecoverInv
<1>5. Kept' = slot
  BY <1>3 DEF Kept
<1>6. ~Working' /\ StatusInv(W)'
  BY <1>1, <1>2, <1>3, StatusSame DEF Working
<1>7. CrashInv(W, lo)'
  BY <1>2, <1>3, <1>4, <1>5 DEF CrashInv, HdrOK, Log, Acked, Stored, Capped
<1>8. RecoverInv(W)'
  BY <1>2, <1>3, <1>4, <1>5 DEF RecoverInv, Capped
<1>9. QED BY <1>1, <1>3, <1>6, <1>7, <1>8 DEF State

(* An empty log has nothing to deliver. *)
LEMMA ReplayNothing ==
  ASSUME NEW C, NEW f \in Nat
  PROVE  Replay(C, 0, f).out = <<>> /\ Replay(C, 0, f).epoch = f
<1> DEFINE commits == Commits(C, 0, f)
           whole   == {i \in commits \ {1} : C[i - 1].kind = "begin"}
<1>1. commits = {} /\ whole = {}
  BY DEF Commits
<1>2. Cardinality(whole) = 0
  BY <1>1, FS_EmptySet
<1>3. Max({f} \cup {C[i].epoch : i \in commits}) = f
  <2>1. {f} \cup {C[i].epoch : i \in commits} = {f}
    BY <1>1
  <2>2. Max({f}) \in {f}
    BY MaxGreatest
  <2>3. QED BY <2>1, <2>2
<1>4. /\ Replay(C, 0, f).out = [k \in 1..Cardinality(whole) |-> C[Nth(whole, k) - 1].id]
      /\ Replay(C, 0, f).epoch = Max({f} \cup {C[i].epoch : i \in commits})
  BY DEF Replay
<1> HIDE DEF commits, whole
<1>5. \A g : [k \in 1..0 |-> g[k]] = <<>>
  OBVIOUS
<1>6. [k \in 1..Cardinality(whole) |-> C[Nth(whole, k) - 1].id] = <<>>
  BY <1>2
<1>7. QED BY <1>3, <1>4, <1>6

(* A writer opened after a rollback replays exactly what was left. *)
LEMMA ReplayAfterUndo ==
  ASSUME TypeInv, ControlInv, NEW W \in Seq(Txn), NEW lo \in Nat, State(W, lo), ReplayLog,
         mode = "undo"
  PROVE  State(W, lo)'
<1>1. pc = "replay" /\ Working
  BY DEF ReplayLog, Working
<1>2. /\ pc' = "fold" /\ floor' = 0
      /\ UNCHANGED <<cache, disk, len, slot, marker, base, save, mine, owed, mode, status,
                     crashes>>
  BY DEF ReplayLog, logVars
<1>3. /\ StatusInv(W) /\ Written(lo, W) /\ Live(slot.seq) /\ lo <= slot.seq
      /\ Acked(W, slot.seq) /\ RestoredInv(W)
  BY <1>1 DEF State, WorkInv
<1>4. /\ epoch' = Len(W) /\ HdrOK(base, W) /\ overlay' \in Seq(Txn)
      /\ Len(overlay') = Len(W) - base.seq
      /\ \A k \in 1..(Len(W) - base.seq) : overlay'[k] = W[base.seq + k]
  BY ReplayResult
<1>5. View' = W
  <2>1. base.content \in Seq(Txn) /\ base.seq = Len(base.content) /\ Prefix(base.content, W)
    BY <1>4 DEF TypeInv, Hdr, HdrOK
  <2>2. /\ Len(overlay') = Len(W) - Len(base.content)
        /\ \A k \in 1..Len(overlay') : overlay'[k] = W[Len(base.content) + k]
    BY <1>4, <2>1
  <2>3. base.content \o overlay' = W
    <3>1. overlay' \in Seq(Txn)
      BY <1>4
    <3>2. QED BY <2>1, <2>2, <3>1, WholeParts
  <2>4. QED BY <1>2, <2>3 DEF View
<1>6. Serving' /\ Working' /\ ~InSavepoint'
  BY <1>1, <1>2 DEF Serving, Working, InSavepoint
<1>7. StatusInv(W)'
  BY <1>2, <1>3, <1>6, StatusSame
<1>8. Written(lo, W)' /\ Live(slot.seq)' /\ lo <= slot'.seq /\ Acked(W, slot.seq)'
  BY <1>2, <1>3 DEF Written, Live, Acked, Stored
<1>9. ServeInv(W)'
  BY <1>2, <1>3, <1>4, <1>5, <1>6 DEF ServeInv, RestoredInv, BaseInv
<1>10. mode' \in {"idle", "stmt", "txn", "undo"}
  BY <1>2
<1>11. QED BY <1>6, <1>7, <1>8, <1>9, <1>10, ServeState

(* A writer opened after a crash decides what the database is. *)
LEMMA ReplayAfterCrash ==
  ASSUME TypeInv, TypeInv', ControlInv, NEW W \in Seq(Txn), NEW lo \in Nat, State(W, lo),
         ReplayLog, mode = "recover", NEW U, U = SubSeq(W, 1, epoch')
  PROVE  U \in Seq(Txn) /\ State(U, lo)'
<1>1. pc = "replay" /\ ~Working /\ ~marker.on
  BY DEF ReplayLog, Working, ControlInv
<1>2. /\ pc' = "fold" /\ floor' = 0
      /\ UNCHANGED <<cache, disk, len, slot, marker, base, save, mine, owed, mode, status,
                     crashes>>
  BY DEF ReplayLog, logVars
<1>3. /\ StatusInv(W) /\ CrashInv(W, lo) /\ RecoverInv(W) /\ base \in Hdr /\ Len(W) \in Nat
      /\ ~save.on /\ mine = {} /\ (\A t \in Txn : status[t] # "staged")
      /\ cache \in [Index -> Cell] /\ len \in 0..MaxLog
  BY <1>1, RecoverFacts
<1>4. Kept = slot /\ slot = base /\ disk = cache /\ Capped(disk, W)
  BY <1>1, <1>3 DEF Kept, RecoverInv
<1>5. base.seq \in Nat /\ base.content \in Seq(Txn) /\ HdrOK(base, W) /\ base.seq <= Len(W)
  BY <1>3, <1>4 DEF CrashInv, HdrOK, Prefix, Hdr
<1>6. /\ epoch' \in base.seq..Len(W) /\ overlay' \in Seq(Txn)
      /\ Len(overlay') = epoch' - base.seq
      /\ \A k \in 1..(epoch' - base.seq) : overlay'[k] = W[base.seq + k]
      /\ \A i \in 1..len : \A e \in (base.seq + 1)..Len(W) :
           IsCommit(cache, i, e) => e <= epoch'
  BY ReplayResult
<1>7. PICK m \in 0..Len(W) : m = epoch'
  BY <1>5, <1>6
<1>8. /\ U \in Seq(Txn) /\ Len(U) = m /\ m \in Nat /\ base.seq <= m /\ Prefix(U, W)
      /\ (\A i \in 1..m : U[i] = W[i]) /\ Len(U) <= Len(W)
  <2>1. U = SubSeq(W, 1, m) /\ m \in Nat /\ m <= Len(W) /\ base.seq <= m
    BY <1>3, <1>5, <1>6, <1>7
  <2>2. QED BY <2>1, FirstOf
<1>9. \A i \in Index : \A e \in (base.seq + 1)..Len(W) : IsCommit(cache, i, e) => e <= m
  <2>1. ASSUME NEW i \in Index, NEW e \in (base.seq + 1)..Len(W), IsCommit(cache, i, e)
        PROVE  e <= m
    <3>1. cache[i] # Zero
      BY <2>1 DEF IsCommit, Zero
    <3>2. ~(i > len)
      BY <1>3, <3>1 DEF RecoverInv
    <3>3. i \in 1..len
      BY <1>3, <3>2, Indices
    <3>4. QED BY <1>6, <1>7, <2>1, <3>3
  <2>2. QED BY <2>1
<1>10. HdrOK(base, U)
  BY <1>5, <1>8, PrefixBelow DEF HdrOK
<1>11. View' = U
  <2>1. \A k \in 1..Len(overlay') : overlay'[k] = U[Len(base.content) + k]
    <3>1. Len(base.content) = base.seq
      BY <1>5 DEF HdrOK
    <3>2. ASSUME NEW k \in 1..(epoch' - base.seq) PROVE overlay'[k] = U[base.seq + k]
      <4>1. base.seq + k \in 1..m
        BY <1>5, <1>7, <1>8
      <4>2. \A i \in 1..m : i = base.seq + k => U[i] = W[base.seq + k]
        BY <1>8
      <4>3. QED BY <1>6, <4>1, <4>2
    <3>3. QED BY <1>6, <3>1, <3>2
  <2>2. Prefix(base.content, U) /\ Len(overlay') = Len(U) - Len(base.content)
    BY <1>6, <1>7, <1>8, <1>10 DEF HdrOK
  <2>3. base.content \o overlay' = U
    BY <1>5, <1>6, <1>8, <2>1, <2>2, WholeParts
  <2>4. QED BY <1>2, <2>3 DEF View
<1>12. StatusInv(U)'
  <2>1. \E k \in Len(U)..MaxTxn : \A t \in Txn : status'[t] = "new" <=> t > k
    <3>1. PICK k \in Len(W)..MaxTxn : \A t \in Txn : status[t] = "new" <=> t > k
      BY <1>3 DEF StatusInv
    <3>2. k \in Len(U)..MaxTxn
      <4>1. Len(U) \in Nat /\ Len(W) \in Nat /\ Len(U) <= Len(W)
        BY <1>3, <1>8
      <4>2. k \in Len(W)..MaxTxn /\ MaxTxn \in Nat
        BY RecoveryAssumption
      <4>3. \A a, b \in Nat : a <= b => b..MaxTxn \subseteq a..MaxTxn
        BY RecoveryAssumption
      <4>4. QED BY ONLY <4>1, <4>2, <4>3
    <3>3. QED BY <1>2, <3>1, <3>2
  <2>2. \A i \in 1..Len(U) : i \in 1..Len(W) /\ U[i] = W[i]
    BY <1>3, <1>7, <1>8
  <2>3. \A i, j \in 1..Len(U) : i < j => U[i] < U[j]
    BY <1>3, <2>2 DEF StatusInv
  <2>4. \A i \in 1..Len(U) : status'[U[i]] \notin {"new", "undone"}
    BY <1>2, <1>3, <2>2 DEF StatusInv
  <2>5. ASSUME NEW t \in Txn, status[t] = "acked" PROVE Owned(U, t)
    <3>1. PICK e \in 1..Len(W) : W[e] = t
      BY <1>3, <2>5 DEF StatusInv, Owned
    <3>2. e <= m
      <4>1. CASE e <= base.seq
        BY <1>5, <1>8, <4>1
      <4>2. CASE e > base.seq
        <5>1. e \in (base.seq + 1)..Len(W)
          BY <1>5, <4>2
        <5>2. PICK i \in Index : IsCommit(disk, i, e)
          BY <1>3, <1>4, <2>5, <3>1, <5>1 DEF CrashInv, Acked, Stored
        <5>3. QED BY <1>4, <1>9, <5>1, <5>2
      <4>3. QED BY <1>5, <4>1, <4>2
    <3>3. QED BY <1>8, <3>1, <3>2 DEF Owned
  <2>6. \A t \in Txn : status'[t] # "staged" /\ (status'[t] = "acked" => Owned(U, t))
    BY <1>2, <1>3, <2>5
  <2>7. QED BY <1>2, <1>3, <2>1, <2>3, <2>4, <2>6 DEF StatusInv, Owned
<1>13. Capped(disk, U)
  <2>1. ASSUME NEW i \in Index, disk[i].kind = "commit" PROVE disk[i].epoch <= m
    <3>1. disk[i].epoch \in Nat /\ disk[i].epoch <= Len(W)
      BY <1>4, <2>1 DEF Capped, TypeInv, TypeOK, Cell
    <3>2. CASE disk[i].epoch <= base.seq
      BY <1>5, <1>8, <3>1, <3>2
    <3>3. CASE disk[i].epoch > base.seq
      <4>1. PICK e \in (base.seq + 1)..Len(W) : e = disk[i].epoch
        BY <1>3, <1>5, <3>1, <3>3
      <4>2. IsCommit(cache, i, e)
        BY <1>4, <2>1, <4>1 DEF IsCommit
      <4>3. QED BY <1>9, <4>1, <4>2
    <3>4. QED BY <1>5, <3>1, <3>2, <3>3
  <2>2. QED BY <1>8, <2>1 DEF Capped
<1>14. Log(disk, lo, U, base.seq) /\ lo <= base.seq
  BY <1>3, <1>4, <1>5, <1>8, LogShorter DEF CrashInv
<1>15. Acked(U, base.seq)
  <2>1. \A e \in (base.seq + 1)..Len(U) : e \in (base.seq + 1)..Len(W) /\ U[e] = W[e]
    BY <1>3, <1>5, <1>7, <1>8
  <2>2. QED BY <1>3, <1>4, <2>1 DEF CrashInv, Acked
<1>16. Kept' = base /\ base' = base /\ slot' = base /\ disk' = disk /\ ~marker'.on
  BY <1>1, <1>2, <1>4 DEF Kept
<1>17. CrashInv(U, lo)'
  BY <1>2, <1>10, <1>13, <1>14, <1>15, <1>16 DEF CrashInv, Log, Acked, Stored, Capped
<1>18. RecoverInv(U)'
  <2>1. len = 0 => overlay' = <<>>
    BY <1>5, ReplayNothing DEF ReplayLog
  <2>2. disk' = cache' /\ \A i \in Index : i > len' => cache'[i] = Zero
    BY <1>2, <1>3 DEF RecoverInv
  <2>3. epoch' = Len(U) /\ Capped(disk, U)'
    BY <1>7, <1>8, <1>13, <1>16 DEF Capped
  <2>4. QED BY <1>2, <1>11, <1>16, <2>1, <2>2, <2>3 DEF RecoverInv
<1>19. QED BY <1>1, <1>2, <1>8, <1>12, <1>17, <1>18 DEF State, Working

(* The fold that opening a writer ends in, over a log with something in it. *)
LEMMA OpenFoldFull ==
  ASSUME TypeInv, TypeInv', ControlInv, NEW W \in Seq(Txn), NEW lo \in Nat, State(W, lo),
         OpenFold, len # 0
  PROVE  State(W, lo)'
<1>1. pc = "fold" /\ mode \in {"undo", "recover"} /\ ~InSavepoint
  BY DEF OpenFold, ControlInv, TypeInv, TypeOK, InSavepoint
<1>2. /\ base' = Folded /\ slot' = base' /\ overlay' = <<>> /\ pc' = "truncate"
      /\ UNCHANGED <<cache, disk, len, mode, marker, epoch, save, mine, owed, floor, status,
                     crashes>>
  BY DEF OpenFold, logVars
<1>3. /\ StatusInv(W) /\ View = W /\ epoch = Len(W) /\ Capped(disk, W)
      /\ lo <= Len(W) /\ Len(W) \in Nat
  <2>1. CASE mode = "undo"
    <3>1. Serving
      BY <1>1, <2>1 DEF Serving, Working
    <3>2. /\ StatusInv(W) /\ Written(lo, W) /\ Live(slot.seq) /\ lo <= slot.seq
          /\ slot.seq \in Nat /\ slot.seq <= Len(W) /\ Len(W) \in Nat /\ ServeInv(W)
      BY <3>1, ServeFacts
    <3>3. QED BY <3>2, DiskLog DEF ServeInv
  <2>2. CASE mode = "recover"
    <3>1. StatusInv(W) /\ CrashInv(W, lo) /\ RecoverInv(W) /\ Kept.seq \in Nat
      BY <2>2, RecoverFacts DEF Working
    <3>2. Kept.seq <= Len(W) /\ Len(W) \in Nat
      BY <3>1, LenProperties DEF CrashInv, HdrOK, Prefix
    <3>3. QED BY <1>1, <3>1, <3>2 DEF CrashInv, RecoverInv
  <2>3. QED BY <1>1, <2>1, <2>2
<1>4. View' = W /\ HdrOK(base', W) /\ base'.seq = Len(W)
  BY <1>2, <1>3, FoldedView
<1>5. StatusInv(W)'
  BY <1>2, <1>3, StatusSame DEF Working
<1>6. Capped(disk, W)'
  BY <1>2, <1>3 DEF Capped
<1>7. Live(slot.seq)' /\ Acked(W, slot.seq)'
  <2>1. Live(Len(W))' /\ Acked(W, Len(W))'
    BY <1>6, NothingAbove
  <2>2. slot'.seq = Len(W)
    BY <1>2, <1>4
  <2>3. QED BY <2>1, <2>2 DEF Live, Acked
<1>8. CASE mode = "undo"
  <2>1. Serving' /\ Working' /\ ~InSavepoint' /\ mode' = "undo"
    BY <1>1, <1>2, <1>8 DEF Serving, Working, InSavepoint
  <2>2. Written(lo, W)'
    BY <1>1, <1>2, <1>8 DEF State, WorkInv, Working, Written
  <2>3. BaseInv'
    BY <1>2 DEF BaseInv, TypeInv, Hdr
  <2>4. ServeInv(W)'
    BY <1>2, <1>3, <1>4, <2>1, <2>3 DEF ServeInv
  <2>5. lo <= slot'.seq
    BY <1>2, <1>3, <1>4
  <2>6. QED BY <1>5, <1>7, <2>1, <2>2, <2>4, <2>5, ServeState
<1>9. CASE mode = "recover"
  <2>1. ~Working /\ ~Working' /\ ~marker.on /\ RecoverInv(W)
    BY <1>1, <1>2, <1>9, RecoverFacts DEF Working, ControlInv
  <2>2. Kept' = slot' /\ slot' = base' /\ Kept'.seq = Len(W)
    BY <1>2, <1>4, <2>1 DEF Kept
  <2>3. (Len(W) + 1)..Len(W) = {}
    BY <1>3
  <2>4. Log(disk, lo, W, Kept.seq)'
    BY <2>2, <2>3 DEF Log
  <2>5. Acked(W, Kept.seq)'
    BY <2>2, <2>3 DEF Acked
  <2>6. CrashInv(W, lo)'
    BY <1>2, <1>3, <1>4, <1>6, <2>1, <2>2, <2>4, <2>5 DEF CrashInv
  <2>7. RecoverInv(W)'
    BY <1>2, <1>3, <1>4, <1>6, <2>1, <2>2 DEF RecoverInv
  <2>8. QED BY <1>2, <1>5, <1>9, <2>1, <2>6, <2>7 DEF State
<1>10. QED BY <1>1, <1>8, <1>9

(* And over an empty one: the writer is open. *)
LEMMA OpenFoldEmpty ==
  ASSUME TypeInv, TypeInv', ControlInv, NEW W \in Seq(Txn), NEW lo \in Nat, State(W, lo),
         OpenFold, len = 0
  PROVE  \E l \in Nat : State(W, l)'
<1>1. pc = "fold" /\ mode \in {"undo", "recover"} /\ ~InSavepoint
  BY DEF OpenFold, ControlInv, TypeInv, TypeOK, InSavepoint
<1>2. /\ mode' = "idle" /\ pc' = "none"
      /\ UNCHANGED <<cache, disk, len, base, slot, overlay, marker, epoch, save, mine, owed,
                     floor, status, crashes>>
  BY DEF OpenFold, logVars
<1>3. Serving' /\ Working' /\ ~InSavepoint'
  BY <1>2 DEF Serving, Working, InSavepoint
<1>4. CASE mode = "undo"
  <2>1. Serving /\ Working
    BY <1>1, <1>4 DEF Serving, Working
  <2>2. /\ StatusInv(W) /\ Written(lo, W) /\ Live(slot.seq) /\ lo <= slot.seq
        /\ Acked(W, slot.seq) /\ ServeInv(W)
    BY <2>1, ServeFacts
  <2>3. StatusInv(W)'
    BY <1>2, <1>3, <2>2, StatusSame
  <2>4. Written(lo, W)' /\ Live(slot.seq)' /\ Acked(W, slot.seq)' /\ lo <= slot'.seq
    BY <1>2, <2>2 DEF Written, Live, Acked, Stored
  <2>5. ServeInv(W)'
    BY <1>2, <1>3, <2>2 DEF ServeInv, View, BaseInv
  <2>6. State(W, lo)'
    BY <1>2, <1>3, <2>3, <2>4, <2>5, ServeState
  <2>7. QED BY <2>6
<1>5. CASE mode = "recover"
  <2>1. ~Working /\ ~marker.on
    BY <1>1, <1>5 DEF Working, ControlInv
  <2>2. /\ StatusInv(W) /\ CrashInv(W, lo) /\ RecoverInv(W) /\ Len(W) \in Nat /\ base \in Hdr
        /\ Kept = slot
    BY <1>5, <2>1, RecoverFacts DEF Kept
  <2>3. /\ slot = base /\ overlay = <<>> /\ W = View /\ epoch = Len(W) /\ Capped(disk, W)
        /\ \A i \in Index : i > len => cache[i] = Zero
    BY <1>1, <2>2 DEF RecoverInv
  <2>4. base.content = W /\ base.seq = Len(W) /\ HdrOK(base, W)
    <3>1. base.content \in Seq(Txn) /\ base.content \o <<>> = base.content
      BY <2>2 DEF Hdr
    <3>2. QED BY <2>2, <2>3, <3>1 DEF View, CrashInv, HdrOK
  <2>5. PICK l \in Nat : l = Len(W)
    BY <2>2
  <2>6. Written(l, W)'
    <3>1. \A i \in Index : cache'[i] = Zero
      BY <1>2, <2>3, Indices
    <3>2. len' = 2 * (Len(W) - l) /\ 1..len' = {}
      BY <1>2, <2>5
    <3>3. QED BY <3>1, <3>2 DEF Written
  <2>7. Live(slot.seq)' /\ Acked(W, slot.seq)' /\ l <= slot'.seq
    <3>1. Capped(disk, W)'
      BY <1>2, <2>3 DEF Capped
    <3>2. Live(Len(W))' /\ Acked(W, Len(W))'
      BY <3>1, NothingAbove
    <3>3. slot'.seq = Len(W)
      BY <1>2, <2>3, <2>4
    <3>4. QED BY <2>5, <3>2, <3>3 DEF Live, Acked
  <2>8. StatusInv(W)'
    BY <1>2, <2>1, <2>2, StatusSame
  <2>9. BaseInv'
    BY <1>2, <2>3 DEF BaseInv, TypeInv, Hdr
  <2>10. ServeInv(W)'
    BY <1>2, <1>3, <2>3, <2>4, <2>9 DEF ServeInv, View
  <2>11. State(W, l)'
    BY <1>2, <1>3, <2>6, <2>7, <2>8, <2>10, ServeState
  <2>12. QED BY <2>11
<1>6. QED BY <1>1, <1>4, <1>5

---------------------------------------------------------------------------
(* The invariant holds.                                                     *)

LEMMA StateStep ==
  ASSUME Allow = {}, TypeInv, TypeInv', ControlInv, ControlInv', NEW W \in Seq(Txn),
         NEW lo \in Nat, State(W, lo), Next
  PROVE  \E U \in Seq(Txn), l \in Nat : State(U, l)'
<1>1. ASSUME NEW i \in Index, Writeback(i) PROVE State(W, lo)'
  BY <1>1, WritebackStep
<1>2. ASSUME NEW across \in BOOLEAN, Hold(across) PROVE State(W, lo)'
  BY <1>2, HoldStep
<1>3. CASE Keep
  BY <1>3, KeepStep
<1>4. CASE Undo
  <2>1. PICK U : U = SubSeq(W, 1, save.floor)
    OBVIOUS
  <2>2. PICK l : l = IF lo <= save.floor THEN lo ELSE save.floor
    OBVIOUS
  <2>3. U \in Seq(Txn) /\ l \in Nat /\ State(U, l)'
    BY <1>4, <2>1, <2>2, UndoStep
  <2>4. QED BY <2>3
<1>5. CASE Crash
  BY <1>5, CrashStep
<1>6. CASE StageCommit
  <2>1. PICK n : n = Next1
    OBVIOUS
  <2>2. PICK U : U = Append(W, n)
    OBVIOUS
  <2>3. U \in Seq(Txn) /\ State(U, lo)'
    BY <1>6, <2>1, <2>2, StageCommitStep
  <2>4. QED BY <2>3
<1>7. CASE StageDeferred
  BY <1>7, StageDeferredStep
<1>8. CASE StagedFold
  BY <1>8, StagedFoldStep
<1>9. CASE CheckpointFold
  BY <1>9, CheckpointFoldStep
<1>10. CASE Truncate
  <2>1. PICK l : l = Len(W)
    OBVIOUS
  <2>2. l \in Nat /\ State(W, l)'
    BY <1>10, <2>1, TruncateStep
  <2>3. QED BY <2>2
<1>11. CASE Settle
  BY <1>11, SettleStep
<1>12. CASE Durable \/ DurableSealed
  BY <1>12, DurableStep
<1>13. CASE SettleInside
  BY <1>13, SettleInsideStep
<1>14. CASE Commit
  BY <1>14, CommitStep
<1>15. CASE RollbackSavepoint
  BY <1>15, RollbackStep
<1>16. CASE UndoDone
  BY <1>16, UndoDoneStep
<1>17. CASE Open
  BY <1>17, OpenStep
<1>18. CASE RecoverCut
  BY <1>18, RecoverCutStep
<1>19. CASE FinishRollback
  BY <1>19, FinishRollbackStep
<1>20. CASE ForgetKept
  BY <1>20, ForgetKeptStep
<1>21. CASE ReplayLog
  <2>1. mode = "undo" \/ mode = "recover"
    BY <1>21 DEF ReplayLog, ControlInv, TypeInv, TypeOK
  <2>2. CASE mode = "undo"
    BY <1>21, <2>2, ReplayAfterUndo
  <2>3. CASE mode = "recover"
    <3>1. PICK U : U = SubSeq(W, 1, epoch')
      OBVIOUS
    <3>2. U \in Seq(Txn) /\ State(U, lo)'
      BY <1>21, <2>3, <3>1, ReplayAfterCrash
    <3>3. QED BY <3>2
  <2>4. QED BY <2>1, <2>2, <2>3
<1>22. CASE OpenFold
  <2>1. CASE len = 0
    BY <1>22, <2>1, OpenFoldEmpty
  <2>2. CASE len # 0
    BY <1>22, <2>2, OpenFoldFull
  <2>3. QED BY <2>1, <2>2
<1>23. QED
  BY <1>1, <1>2, <1>3, <1>4, <1>5, <1>6, <1>7, <1>8, <1>9, <1>10, <1>11, <1>12, <1>13,
     <1>14, <1>15, <1>16, <1>17, <1>18, <1>19, <1>20, <1>21, <1>22 DEF Next, Step

(* wal.rs, fold.rs, file.rs, session.rs: some sequence of commits is what the *)
(* database stands for at every step, crash and recovery, on a disk that     *)
(* keeps the order of writes and with no checkpoint under a savepoint that   *)
(* the log alone has commits of.                                             *)
THEOREM RecoveryInductive ==
  ASSUME Allow = {}
  PROVE  Spec => []Inv
<1>1. Init => Inv
  BY InitInv
<1>2. Inv /\ [Next]_vars => Inv'
  <2>1. SUFFICES ASSUME Inv, [Next]_vars PROVE Inv'
    OBVIOUS
  <2>2. PICK W \in Seq(Txn), lo \in Nat : State(W, lo)
    BY <2>1 DEF Inv
  <2>3. TypeInv /\ ControlInv
    BY <2>1 DEF Inv
  <2>4. TypeInv'
    BY <2>1, <2>2, <2>3, TypeStep
  <2>5. CASE Next
    <3>1. ControlInv'
      BY <2>3, <2>5, ControlStep
    <3>2. \E U \in Seq(Txn), l \in Nat : State(U, l)'
      BY <2>2, <2>3, <2>4, <2>5, <3>1, StateStep
    <3>3. QED BY <2>4, <3>1, <3>2 DEF Inv
  <2>6. CASE UNCHANGED vars
    <3>1. ControlInv'
      BY <2>3, <2>6 DEF vars, logVars, ControlInv, InSavepoint, Working, Next1
    <3>2. StatusInv(W)' /\ (Working' <=> Working)
      BY <2>2, <2>6, StatusSame DEF vars, State, Working
    <3>3. State(W, lo)'
      <4>1. Working => WorkInv(W, lo)'
        <5>1. ASSUME Working PROVE WorkInv(W, lo)'
          <6>1. WorkInv(W, lo)
            BY <2>2, <5>1 DEF State
          <6>2. /\ UNCHANGED <<cache, disk, len, slot, marker, base, overlay, epoch, save,
                                mine, owed, mode, pc, status>>
                /\ View' = View
            BY <2>6 DEF vars, logVars, View
          <6>3. Written(lo, W)' /\ Live(slot.seq)' /\ lo <= slot'.seq /\ Acked(W, slot.seq)'
            BY <6>1, <6>2 DEF WorkInv, Written, Live, Acked, Stored
          <6>4. BaseInv <=> BaseInv'
            BY <6>2 DEF BaseInv
          <6>5. SaveInv(View)' <=> SaveInv(View)
            BY <6>2 DEF SaveInv
          <6>6. StatusInv(View)' <=> StatusInv(View)
            BY <6>2 DEF StatusInv, Owned, Working
          <6>7. pc = "restore" => RestoreInv(W)'
            BY <6>1, <6>2, <6>4, <6>5, <6>6 DEF WorkInv, RestoreInv
          <6>8. pc \in {"forget", "replay"} => RestoredInv(W)'
            BY <6>1, <6>2, <6>4 DEF WorkInv, RestoredInv
          <6>9. pc = "forget" => ForgetInv(W)'
            BY <6>1, <6>2 DEF WorkInv, ForgetInv, Owned
          <6>10. ASSUME pc \notin {"restore", "forget", "replay"} PROVE ServeInv(W)'
            <7>1. ServeInv(W)
              BY <6>1, <6>10 DEF WorkInv
            <7>2. InSavepoint' => SaveInv(W)' /\ Settled(W, slot.seq)'
              BY <6>2, <7>1 DEF ServeInv, SaveInv, Settled, Stored, InSavepoint
            <7>3. QED BY <6>2, <6>4, <7>1, <7>2 DEF ServeInv
          <6>11. QED BY <6>2, <6>3, <6>7, <6>8, <6>9, <6>10 DEF WorkInv
        <5>2. QED BY <5>1
      <4>2. ~Working => CrashInv(W, lo)'
        BY <2>2, <2>6 DEF vars, logVars, State, CrashInv, Kept, Log, Acked, Stored, Capped
      <4>3. mode = "recover" => RecoverInv(W)'
        BY <2>2, <2>6 DEF vars, logVars, State, RecoverInv, Kept, Capped, View
      <4>4. mode' = mode
        BY <2>6 DEF vars
      <4>5. QED BY <3>2, <4>1, <4>2, <4>3, <4>4 DEF State
    <3>4. QED BY <2>4, <3>1, <3>3 DEF Inv
  <2>7. QED BY <2>1, <2>5, <2>6
<1>3. QED BY <1>1, <1>2, PTL DEF Spec

(* What an idle writer's database is. *)
LEMMA IdleView ==
  ASSUME Inv, mode = "idle"
  PROVE  View \in Seq(Txn) /\ StatusInv(View)
<1>1. PICK W \in Seq(Txn), lo \in Nat : State(W, lo)
  BY DEF Inv
<1>2. Serving
  BY DEF Inv, ControlInv, Serving, Working
<1>3. StatusInv(W) /\ View = W
  BY <1>1, <1>2, ServeFacts DEF Inv, ServeInv
<1>4. QED BY <1>1, <1>3

(* AckedSurvive: Session::durable and COMMIT. A commit whose caller was told  *)
(* is in the database whenever a writer is idle.                              *)
THEOREM AckedCommitsSurvive ==
  ASSUME Allow = {}
  PROVE  Spec => []AckedSurvive
<1>1. Inv => AckedSurvive
  <2>1. SUFFICES ASSUME Inv, mode = "idle", NEW t \in Txn, status[t] = "acked"
                 PROVE  t \in Range(View)
    BY DEF AckedSurvive
  <2>2. View \in Seq(Txn) /\ Owned(View, t)
    BY <2>1, IdleView DEF StatusInv
  <2>3. QED BY <2>2 DEF Owned, Range
<1>2. QED BY <1>1, RecoveryInductive, PTL

(* UndoneStaysUndone: Session::undo and fold::recover. What was rolled back,  *)
(* or died in a transaction, is in no idle writer's database.                 *)
THEOREM UndoneCommitsStayUndone ==
  ASSUME Allow = {}
  PROVE  Spec => []UndoneStaysUndone
<1>1. Inv => UndoneStaysUndone
  <2>1. SUFFICES ASSUME Inv, mode = "idle", NEW t \in Txn, status[t] = "undone",
                        t \in Range(View)
                 PROVE  FALSE
    BY DEF UndoneStaysUndone
  <2>2. View \in Seq(Txn) /\ StatusInv(View)
    BY <2>1, IdleView
  <2>3. PICK i \in 1..Len(View) : View[i] = t
    BY <2>1, <2>2 DEF Range
  <2>4. QED BY <2>1, <2>2, <2>3 DEF StatusInv
<1>2. QED BY <1>1, RecoveryInductive, PTL

(* ReplayInv: Wal::replay, Mvcc::recover_with and fold. The log and the base  *)
(* stay well formed, and hold each commit once, in the order of the commits.  *)
THEOREM ReplayAppliesOnceInOrder ==
  ASSUME Allow = {}
  PROVE  Spec => []ReplayInv
<1>1. Inv => ReplayInv
  <2>1. SUFFICES ASSUME Inv PROVE ReplayInv
    OBVIOUS
  <2>2. TypeOK
    BY <2>1 DEF Inv, TypeInv
  <2>3. ASSUME mode = "idle", NEW i \in DOMAIN View, NEW j \in DOMAIN View, i < j
        PROVE  View[i] < View[j]
    <3>1. View \in Seq(Txn) /\ StatusInv(View)
      BY <2>1, <2>3, IdleView
    <3>2. DOMAIN View = 1..Len(View)
      BY <3>1
    <3>3. QED BY <2>3, <3>1, <3>2 DEF StatusInv
  <2>4. QED BY <2>2, <2>3 DEF ReplayInv, AppliedOnceInOrder
<1>2. QED BY <1>1, RecoveryInductive, PTL
==============================================================================
