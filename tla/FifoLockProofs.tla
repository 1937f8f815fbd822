--------------------------- MODULE FifoLockProofs ---------------------------
(***************************************************************************)
(* What entering and leaving the queue of sncast_lock do to it.  The        *)
(* servers' lock invariants are proved from these facts alone.              *)
(***************************************************************************)
EXTENDS FifoLock, TLAPS

(* Queueing: the others keep their places and the holder keeps the lock. *)
LEMMA EnterQueue ==
    ASSUME NEW S, NEW q \in Seq(S), NEW r \in S
    PROVE  /\ Append(q, r) \in Seq(S)
           /\ \A x : Queued(Append(q, r), x) <=> Queued(q, x) \/ x = r
           /\ \A x : HoldsLock(q, x) => HoldsLock(Append(q, r), x)
           /\ Unrepeated(q) /\ ~Queued(q, r) => Unrepeated(Append(q, r))
<1>1. /\ Append(q, r) \in Seq(S) /\ Len(Append(q, r)) = Len(q) + 1 /\ Len(q) \in Nat
      /\ \A i \in 1..Len(q) : Append(q, r)[i] = q[i]
      /\ Append(q, r)[Len(q) + 1] = r
  OBVIOUS
<1>2. \A x : Queued(Append(q, r), x) <=> Queued(q, x) \/ x = r
  BY <1>1 DEF Queued
<1>3. \A x : HoldsLock(q, x) => HoldsLock(Append(q, r), x)
  BY <1>1 DEF HoldsLock
<1>4. Unrepeated(q) /\ ~Queued(q, r) => Unrepeated(Append(q, r))
  BY <1>1 DEF Unrepeated, Queued
<1> QED
  BY <1>1, <1>2, <1>3, <1>4

(* A queue of tasks stays one when a task leaves it. *)
LEMMA LeaveType ==
    ASSUME NEW S, NEW q \in Seq(S), NEW r
    PROVE  Leaving(q, r) \in Seq(S)
<1>1. CASE ~Queued(q, r)
  BY <1>1 DEF Leaving
<1>2. CASE Queued(q, r)
  <2> DEFINE p == CHOOSE i \in 1..Len(q) : q[i] = r
             n == Len(q) - 1
             q2 == [i \in 1..n |-> IF i < p THEN q[i] ELSE q[i + 1]]
  <2>1. p \in 1..Len(q) /\ n \in Nat
    BY <1>2 DEF Queued
  <2> HIDE DEF p
  <2>2. q2 \in [1..n -> S]
    BY <2>1
  <2>3. q2 \in Seq(S)
    BY <2>1, <2>2
  <2> QED
    BY <1>2, <2>3 DEF Leaving, p
<1> QED
  BY <1>1, <1>2

(* Leaving: exactly one task is gone, and unless it was the holder the lock
   stays where it was. *)
LEMMA LeaveQueue ==
    ASSUME NEW S, NEW q \in Seq(S), NEW r, Unrepeated(q)
    PROVE  /\ \A x : Queued(Leaving(q, r), x) <=> Queued(q, x) /\ x # r
           /\ \A x : HoldsLock(q, x) /\ x # r => HoldsLock(Leaving(q, r), x)
           /\ Unrepeated(Leaving(q, r))
<1>1. CASE ~Queued(q, r)
  BY <1>1 DEF Leaving, Queued
<1>2. CASE Queued(q, r)
  <2> DEFINE p == CHOOSE i \in 1..Len(q) : q[i] = r
             n == Len(q) - 1
             q2 == [i \in 1..n |-> IF i < p THEN q[i] ELSE q[i + 1]]
  <2>1. p \in 1..Len(q) /\ q[p] = r /\ n \in Nat /\ Len(q) = n + 1
    BY <1>2 DEF Queued
  <2>2. Leaving(q, r) = q2
    BY <1>2 DEF Leaving
  <2> HIDE DEF p, n
  <2>3. q2 \in Seq(S) /\ Len(q2) = n /\ \A i \in 1..n : q2[i] = IF i < p THEN q[i] ELSE q[i + 1]
    <3>1. q2 \in [1..n -> S]
      BY <2>1
    <3>2. Len(q2) = n
      BY <2>1
    <3> QED
      BY <2>1, <3>1, <3>2
  <2> HIDE DEF q2
  <2>4. ASSUME NEW x PROVE Queued(q2, x) <=> Queued(q, x) /\ x # r
    <3>1. ASSUME Queued(q2, x) PROVE Queued(q, x) /\ x # r
      <4>1. PICK i \in 1..n : q2[i] = x
        BY <2>3, <3>1 DEF Queued
      <4>2. CASE i < p
        BY <2>1, <2>3, <4>1, <4>2 DEF Queued, Unrepeated
      <4>3. CASE ~(i < p)
        <5>1. i + 1 \in 1..Len(q) /\ i + 1 # p /\ q[i + 1] = x
          BY <2>1, <2>3, <4>1, <4>3
        <5> QED
          BY <2>1, <5>1 DEF Queued, Unrepeated
      <4> QED
        BY <4>2, <4>3
    <3>2. ASSUME Queued(q, x), x # r PROVE Queued(q2, x)
      <4>1. PICK i \in 1..Len(q) : q[i] = x
        BY <3>2 DEF Queued
      <4>2. CASE i < p
        BY <2>1, <2>3, <4>1, <4>2 DEF Queued
      <4>3. CASE i > p
        <5>1. i - 1 \in 1..n /\ ~(i - 1 < p) /\ (i - 1) + 1 = i
          BY <2>1, <4>1, <4>3
        <5>2. q2[i - 1] = x
          BY <2>3, <4>1, <5>1
        <5> QED
          BY <2>3, <5>1, <5>2 DEF Queued
      <4>4. i # p
        BY <2>1, <3>2, <4>1
      <4> QED
        BY <2>1, <4>2, <4>3, <4>4
    <3> QED
      BY <3>1, <3>2
  <2>5. ASSUME NEW x, HoldsLock(q, x), x # r PROVE HoldsLock(q2, x)
    <3>1. q[1] = x /\ p # 1
      BY <2>1, <2>5 DEF HoldsLock
    <3>2. 1 \in 1..n /\ q2[1] = x
      BY <2>1, <2>3, <3>1
    <3> QED
      BY <2>3, <3>2 DEF HoldsLock
  <2>6. Unrepeated(q2)
    <3> SUFFICES ASSUME NEW i \in 1..n, NEW j \in 1..n, q2[i] = q2[j] PROVE i = j
      BY <2>3 DEF Unrepeated
    <3> DEFINE At(k) == IF k < p THEN k ELSE k + 1
    <3>1. \A k \in 1..n : At(k) \in 1..Len(q) /\ q2[k] = q[At(k)]
      BY <2>1, <2>3
    <3>2. At(i) = At(j)
      BY <3>1 DEF Unrepeated
    <3> QED
      BY <2>1, <3>2
  <2> QED
    BY <2>2, <2>4, <2>5, <2>6
<1> QED
  BY <1>1, <1>2
=============================================================================
