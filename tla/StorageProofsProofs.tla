------------------------ MODULE StorageProofsProofs ------------------------
(***************************************************************************)
(* What preparing, splitting, collecting and merging of storage-proof        *)
(* queries compute, for every set of reads and every limit on a request.     *)
(*                                                                         *)
(* Induction is on sets of numbers: the set of the lengths for which a fact  *)
(* holds contains 0 and, with n, n + 1.                                      *)
(***************************************************************************)
EXTENDS StorageProofs, FiniteSetTheorems, WellFoundedInduction, SequenceTheorems, TLAPS

(* A nonempty set of numbers has a least one. *)
LEMMA Least ==
    ASSUME NEW T \in SUBSET Nat, T # {}
    PROVE  \E x \in T : \A y \in T : x <= y
<1> DEFINE R == OpToRel(<, Nat)
<1>1. \E x \in T : \A y \in T : ~(<<y, x>> \in R)
  <2> HIDE DEF R
  <2>1. IsWellFoundedOn(R, Nat)
    BY NatLessThanWellFounded DEF R
  <2> QED
    BY <2>1, WFMin
<1>2. PICK x \in T : \A y \in T : ~(y < x)
  BY <1>1 DEF OpToRel
<1> QED
  BY <1>2

(* Induction. *)
LEMMA Induction ==
    ASSUME NEW G \in SUBSET Nat, 0 \in G, \A n \in G : n + 1 \in G
    PROVE  \A n \in Nat : n \in G
<1> SUFFICES ASSUME Nat \ G # {} PROVE FALSE
  OBVIOUS
<1>1. PICK x \in Nat \ G : \A y \in Nat \ G : x <= y
  BY Least
<1>2. x - 1 \in Nat /\ x - 1 \notin Nat \ G
  BY <1>1
<1> QED
  BY <1>1, <1>2

-----------------------------------------------------------------------------
(* Enumerations of sets. *)

(* s has the elements of S, each once. *)
Enumerates(s, S) == s \in Seq(S) /\ IsInjective(s) /\ ToSet(s) = S

(* An injective table of a finite set's size enumerates it. *)
LEMMA Enumeration ==
    ASSUME NEW S, IsFiniteSet(S), NEW s \in [1..Cardinality(S) -> S], IsInjective(s)
    PROVE  Enumerates(s, S) /\ Len(s) = Cardinality(S)
<1>1. Cardinality(S) \in Nat
  BY FS_CardinalityType
<1>2. s \in Seq(S) /\ Len(s) = Cardinality(S)
  BY <1>1
<1>3. s \in Surjection(1..Cardinality(S), S)
  <2>1. s \in Injection(1..Cardinality(S), S)
    BY DEF Injection
  <2>2. Cardinality(1..Cardinality(S)) = Cardinality(S)
    BY <1>1, FS_Interval
  <2> QED
    BY <2>1, <2>2, FS_Injection
<1>4. ToSet(s) = S
  BY <1>3 DEF Surjection, ToSet
<1> QED
  BY <1>2, <1>4 DEF Enumerates

(* SetToSeq enumerates. *)
LEMMA SetToSeqEnumerates ==
    ASSUME NEW S, IsFiniteSet(S)
    PROVE  Enumerates(SetToSeq(S), S)
<1>1. ExistsBijection(1..Cardinality(S), S)
  BY FS_CardinalityType
<1>2. \E f \in [1..Cardinality(S) -> S] : IsInjective(f)
  BY <1>1 DEF ExistsBijection, Bijection, Injection, IsInjective
<1>3. SetToSeq(S) \in [1..Cardinality(S) -> S] /\ IsInjective(SetToSeq(S))
  BY <1>2 DEF SetToSeq
<1> QED
  BY <1>3, Enumeration

Increasing(s, S) ==
    /\ s \in [1..Cardinality(S) -> S]
    /\ \A i, j \in 1..Cardinality(S) : i < j => s[i] < s[j]

(* A finite set of numbers can be put in order: its least element, then the rest. *)
LEMMA IncreasingExists ==
    ASSUME NEW S \in SUBSET Nat, IsFiniteSet(S)
    PROVE  \E s : Increasing(s, S)
<1> DEFINE G == {n \in Nat : \A T \in SUBSET Nat :
                     IsFiniteSet(T) /\ Cardinality(T) = n => \E s : Increasing(s, T)}
<1>1. 0 \in G
  <2> SUFFICES ASSUME NEW T \in SUBSET Nat, IsFiniteSet(T), Cardinality(T) = 0
               PROVE  \E s : Increasing(s, T)
    OBVIOUS
  <2>1. Increasing([i \in 1..Cardinality(T) |-> CHOOSE x \in T : TRUE], T)
    BY DEF Increasing
  <2> QED
    BY <2>1
<1>2. ASSUME NEW n \in G PROVE n + 1 \in G
  <2> SUFFICES ASSUME NEW T \in SUBSET Nat, IsFiniteSet(T), Cardinality(T) = n + 1
               PROVE  \E s : Increasing(s, T)
    OBVIOUS
  <2>0. n \in Nat
    BY <1>2
  <2>1. T # {}
    BY <2>0, FS_EmptySet
  <2>2. PICK x \in T : \A y \in T : x <= y
    BY <2>1, Least
  <2> DEFINE U == T \ {x}
  <2>3. IsFiniteSet(U) /\ Cardinality(U) = n /\ U \in SUBSET Nat
    <3>1. IsFiniteSet(T \ {x}) /\ Cardinality(T \ {x}) = Cardinality(T) - 1
      BY FS_RemoveElement
    <3> QED
      BY <2>0, <3>1
  <2>4. PICK t : Increasing(t, U)
    BY <1>2, <2>3
  <2>5. /\ t \in [1..n -> U] /\ \A i, j \in 1..n : i < j => t[i] < t[j]
        /\ \A i \in 1..n : t[i] \in T /\ x < t[i]
    <3>1. t \in [1..n -> U] /\ \A i, j \in 1..n : i < j => t[i] < t[j]
      BY <2>3, <2>4 DEF Increasing
    <3>2. \A y \in U : y \in T /\ x < y
      BY <2>2
    <3> HIDE DEF U
    <3> QED
      BY <3>1, <3>2
  <2> DEFINE s == [i \in 1..(n + 1) |-> IF i = 1 THEN x ELSE t[i - 1]]
  <2>6. s \in [1..(n + 1) -> T]
    BY <2>0, <2>5
  <2>7. ASSUME NEW i \in 1..(n + 1), NEW j \in 1..(n + 1), i < j PROVE s[i] < s[j]
    BY <2>0, <2>5, <2>7
  <2>8. Increasing(s, T)
    BY <2>6, <2>7 DEF Increasing
  <2> QED
    BY <2>8
<1>3. Cardinality(S) \in G
  <2> HIDE DEF G
  <2>1. Cardinality(S) \in Nat
    BY FS_CardinalityType
  <2>2. G \in SUBSET Nat
    BY DEF G
  <2> QED
    BY <1>1, <1>2, <2>1, <2>2, Induction
<1> QED
  BY <1>3

(* The sorted addresses enumerate. *)
LEMMA SortedEnumerates ==
    ASSUME NEW S \in SUBSET Nat, IsFiniteSet(S)
    PROVE  Enumerates(Sorted(S), S)
<1>1. Increasing(Sorted(S), S)
  BY IncreasingExists DEF Increasing, Sorted
<1>2. Sorted(S) \in [1..Cardinality(S) -> S]
  BY <1>1 DEF Increasing
<1>3. IsInjective(Sorted(S))
  <2> DEFINE s == Sorted(S)
  <2> HIDE DEF s
  <2>0. Cardinality(S) \in Nat
    BY FS_CardinalityType
  <2>1. /\ s \in [1..Cardinality(S) -> S]
        /\ \A i, j \in 1..Cardinality(S) : i < j => s[i] < s[j]
    BY <1>1 DEF s, Increasing
  <2>2. ASSUME NEW i \in 1..Cardinality(S), NEW j \in 1..Cardinality(S), s[i] = s[j] PROVE i = j
    <3>1. s[i] \in Nat /\ s[j] \in Nat
      BY <2>1
    <3>2. ~(i < j) /\ ~(j < i)
      BY <2>1, <2>2, <3>1
    <3> QED
      BY <2>0, <3>2
  <2>3. DOMAIN s = 1..Cardinality(S)
    BY <2>1
  <2> QED
    BY <2>2, <2>3 DEF IsInjective, s
<1> QED
  BY <1>2, <1>3, Enumeration

-----------------------------------------------------------------------------
(* Concatenation of a sequence of sequences. *)

(* f has the concatenations of the first parts of s, up to n parts. *)
Concats(f, s, n) == \A i \in 1..n : f[i] = IF i = 1 THEN s[i] ELSE f[i - 1] \o s[i]

(* There is such a table. *)
LEMMA ConcatsExist ==
    ASSUME NEW X, NEW s \in Seq(Seq(X))
    PROVE  \E f \in [1..Len(s) -> Seq(X)] : Concats(f, s, Len(s))
<1> DEFINE G == {n \in Nat : n <= Len(s) => \E f \in [1..n -> Seq(X)] : Concats(f, s, n)}
<1>0. Len(s) \in Nat /\ \A i \in 1..Len(s) : s[i] \in Seq(X)
  OBVIOUS
<1>1. 0 \in G
  <2>1. [i \in 1..0 |-> <<>>] \in [1..0 -> Seq(X)] /\ Concats([i \in 1..0 |-> <<>>], s, 0)
    BY DEF Concats
  <2> QED
    BY <2>1
<1>2. ASSUME NEW n \in G PROVE n + 1 \in G
  <2> SUFFICES ASSUME n + 1 <= Len(s)
               PROVE  \E f \in [1..(n + 1) -> Seq(X)] : Concats(f, s, n + 1)
    OBVIOUS
  <2>0. n \in Nat /\ n <= Len(s) /\ n + 1 \in 1..Len(s)
    BY <1>0, <1>2
  <2>1. PICK f \in [1..n -> Seq(X)] : Concats(f, s, n)
    BY <1>2, <2>0
  <2> DEFINE last == IF n = 0 THEN s[n + 1] ELSE f[n] \o s[n + 1]
             g == [i \in 1..(n + 1) |-> IF i <= n THEN f[i] ELSE last]
  <2>2. last \in Seq(X)
    <3>1. CASE n = 0
      BY <1>0, <2>0, <3>1
    <3>2. CASE n # 0
      <4>1. f[n] \in Seq(X) /\ s[n + 1] \in Seq(X)
        BY <1>0, <2>0, <2>1, <3>2
      <4> QED
        BY <3>2, <4>1
    <3> QED
      BY <3>1, <3>2
  <2>3. n = 0 => last = s[n + 1]
    OBVIOUS
  <2>4. n # 0 => last = f[n] \o s[n + 1]
    OBVIOUS
  <2> HIDE DEF last
  <2>5. g \in [1..(n + 1) -> Seq(X)]
    BY <2>0, <2>1, <2>2
  <2>6. /\ \A i \in 1..n : g[i] = f[i]
        /\ g[n + 1] = last
    BY <2>0
  <2> HIDE DEF g
  <2>7. ASSUME NEW i \in 1..(n + 1) PROVE g[i] = IF i = 1 THEN s[i] ELSE g[i - 1] \o s[i]
    <3>1. CASE i <= n
      <4>1. i \in 1..n /\ (i # 1 => i - 1 \in 1..n)
        BY <2>0, <3>1
      <4>2. f[i] = IF i = 1 THEN s[i] ELSE f[i - 1] \o s[i]
        BY <2>1, <4>1 DEF Concats
      <4> QED
        BY <2>6, <4>1, <4>2
    <3>2. CASE i = n + 1 /\ n = 0
      BY <2>3, <2>6, <3>2
    <3>3. CASE i = n + 1 /\ n # 0
      <4>1. i # 1 /\ n \in 1..n /\ i - 1 = n
        BY <2>0, <3>3
      <4> QED
        BY <2>4, <2>6, <3>3, <4>1
    <3> QED
      BY <2>0, <3>1, <3>2, <3>3
  <2>8. Concats(g, s, n + 1)
    BY <2>7 DEF Concats
  <2> QED
    BY <2>5, <2>8
<1>3. Len(s) \in G
  <2> HIDE DEF G
  <2>1. G \in SUBSET Nat
    BY DEF G
  <2> QED
    BY <1>0, <1>1, <1>2, <2>1, Induction
<1> QED
  BY <1>0, <1>3

(* And only one. *)
LEMMA ConcatsUnique ==
    ASSUME NEW s, NEW n \in Nat, NEW f, NEW g, Concats(f, s, n), Concats(g, s, n)
    PROVE  \A i \in 1..n : f[i] = g[i]
<1> DEFINE T == {i \in 1..n : f[i] # g[i]}
<1>1. SUFFICES ASSUME T # {} PROVE FALSE
  OBVIOUS
<1>2. T \in SUBSET Nat
  OBVIOUS
<1>3. PICK x \in T : \A y \in T : x <= y
  <2> HIDE DEF T
  <2> QED
    BY <1>1, <1>2, Least
<1>4. x # 1
  BY <1>3 DEF Concats
<1>5. x \in 1..n /\ x - 1 \in 1..n /\ ~(x <= x - 1)
  BY <1>3, <1>4
<1>6. f[x - 1] = g[x - 1]
  BY <1>3, <1>5
<1> QED
  BY <1>3, <1>4, <1>5, <1>6 DEF Concats

(* FlattenSeq is the last of the table. *)
LEMMA FlattenConcats ==
    ASSUME NEW X, NEW s \in Seq(Seq(X)), Len(s) # 0, NEW f, Concats(f, s, Len(s))
    PROVE  FlattenSeq(s) = f[Len(s)]
<1> DEFINE Rec(e) == [i \in 1..Len(s) |-> IF i = 1 THEN s[i] ELSE e[i - 1] \o s[i]]
           flatten == CHOOSE e : e = Rec(e)
<1>0. Len(s) \in Nat /\ Len(s) \in 1..Len(s)
  OBVIOUS
<1>1. FlattenSeq(s) = flatten[Len(s)]
  BY DEF FlattenSeq
<1>2. PICK h \in [1..Len(s) -> Seq(X)] : Concats(h, s, Len(s))
  BY ConcatsExist
<1>3. h = Rec(h)
  BY <1>2 DEF Concats
<1>4. flatten = Rec(flatten)
  <2> HIDE DEF Rec
  <2> QED
    BY <1>3
<1> HIDE DEF flatten
<1>5. Concats(flatten, s, Len(s))
  BY <1>4 DEF Concats
<1> QED
  BY <1>0, <1>1, <1>5, ConcatsUnique

(* The laws by which FlattenSeq is used. *)
LEMMA FlattenLaws ==
    ASSUME NEW X
    PROVE  /\ FlattenSeq(<<>>) = <<>>
           /\ \A s \in Seq(Seq(X)) : FlattenSeq(s) \in Seq(X)
           /\ \A s \in Seq(Seq(X)), x \in Seq(X) :
                  FlattenSeq(Append(s, x)) = FlattenSeq(s) \o x
<1>1. FlattenSeq(<<>>) = <<>>
  BY DEF FlattenSeq
<1>2. ASSUME NEW s \in Seq(Seq(X)) PROVE FlattenSeq(s) \in Seq(X)
  <2>1. CASE Len(s) = 0
    <3>1. s = <<>>
      BY <2>1
    <3>2. FlattenSeq(s) = <<>>
      BY <1>1, <3>1, Zenon
    <3> QED
      BY <3>2
  <2>2. CASE Len(s) # 0
    <3>1. PICK f \in [1..Len(s) -> Seq(X)] : Concats(f, s, Len(s))
      BY ConcatsExist
    <3>2. FlattenSeq(s) = f[Len(s)] /\ Len(s) \in 1..Len(s)
      BY <2>2, <3>1, FlattenConcats
    <3> QED
      BY <3>1, <3>2
  <2> QED
    BY <2>1, <2>2
<1>3. ASSUME NEW s \in Seq(Seq(X)), NEW x \in Seq(X)
      PROVE  FlattenSeq(Append(s, x)) = FlattenSeq(s) \o x
  <2> DEFINE t == Append(s, x)
             n == Len(s)
  <2>1. /\ t \in Seq(Seq(X)) /\ Len(t) = n + 1 /\ n \in Nat
        /\ t[n + 1] = x /\ \A i \in 1..n : t[i] = s[i]
    BY AppendProperties
  <2> HIDE DEF t
  <2>2. PICK f \in [1..Len(t) -> Seq(X)] : Concats(f, t, Len(t))
    BY <2>1, ConcatsExist
  <2>3. FlattenSeq(t) = f[n + 1]
    BY <2>1, <2>2, FlattenConcats
  <2>4. f[n + 1] = IF n + 1 = 1 THEN t[n + 1] ELSE f[n] \o t[n + 1]
    <3>1. n + 1 \in 1..Len(t) /\ (n + 1) - 1 = n
      BY <2>1
    <3> QED
      BY <2>2, <3>1 DEF Concats
  <2>5. CASE n = 0
    <3>1. s = <<>> /\ FlattenSeq(t) = x
      BY <2>1, <2>3, <2>4, <2>5
    <3>2. FlattenSeq(s) = <<>>
      BY <1>1, <3>1, Zenon
    <3>3. FlattenSeq(s) \o x = x
      BY <3>2, ConcatEmptySeq
    <3> QED
      BY <3>1, <3>3 DEF t
  <2>6. CASE n # 0
    <3>1. ASSUME NEW i \in 1..n PROVE f[i] = IF i = 1 THEN s[i] ELSE f[i - 1] \o s[i]
      <4>1. i \in 1..Len(t) /\ t[i] = s[i]
        BY <2>1
      <4>2. f[i] = IF i = 1 THEN t[i] ELSE f[i - 1] \o t[i]
        BY <2>2, <4>1 DEF Concats
      <4> QED
        BY <4>1, <4>2
    <3>2. Concats(f, s, n)
      BY <3>1 DEF Concats
    <3>3. FlattenSeq(s) = f[n]
      BY <2>6, <3>2, FlattenConcats
    <3> QED
      BY <2>1, <2>3, <2>4, <2>6, <3>3 DEF t
  <2> QED
    BY <2>5, <2>6
<1> QED
  BY <1>1, <1>2, <1>3

-----------------------------------------------------------------------------
(* Sequences. *)

(* Induction on a sequence: a set of sequences that has the empty one and grows
   with every element has all. *)
LEMMA SeqInduction ==
    ASSUME NEW X, NEW P \in SUBSET Seq(X), <<>> \in P,
           \A s \in P, x \in X : Append(s, x) \in P
    PROVE  \A s \in Seq(X) : s \in P
<1> DEFINE G == {n \in Nat : \A s \in Seq(X) : Len(s) = n => s \in P}
<1>1. 0 \in G
  OBVIOUS
<1>2. ASSUME NEW n \in G PROVE n + 1 \in G
  <2> SUFFICES ASSUME NEW s \in Seq(X), Len(s) = n + 1 PROVE s \in P
    BY <1>2
  <2>0. n \in Nat
    BY <1>2
  <2>1. s # <<>>
    BY <2>0
  <2>2. PICK t \in Seq(X), x \in X : s = Append(t, x)
    BY <2>1, SequenceEmptyOrAppend
  <2>3. Len(s) = Len(t) + 1 /\ Len(t) \in Nat
    BY <2>2, AppendProperties
  <2>4. t \in P
    BY <1>2, <2>0, <2>3
  <2> QED
    BY <2>2, <2>4
<1>3. G \in SUBSET Nat
  OBVIOUS
<1>4. ASSUME NEW n \in Nat PROVE n \in G
  <2> HIDE DEF G
  <2> QED
    BY <1>1, <1>2, <1>3, Induction
<1>5. ASSUME NEW s \in Seq(X) PROVE s \in P
  <2>1. Len(s) \in Nat
    OBVIOUS
  <2> QED
    BY <1>4, <2>1
<1> QED
  BY <1>5

(* The elements of a sequence. *)
LEMMA ToSetLaws ==
    ASSUME NEW X
    PROVE  /\ ToSet(<<>>) = {}
           /\ \A s \in Seq(X) : \A x : x \in ToSet(s) <=> \E i \in 1..Len(s) : s[i] = x
           /\ \A s \in Seq(X), x \in X : ToSet(Append(s, x)) = ToSet(s) \cup {x}
           /\ \A s, t \in Seq(X) : ToSet(s \o t) = ToSet(s) \cup ToSet(t)
<1>1. ToSet(<<>>) = {}
  BY DEF ToSet
<1>2. ASSUME NEW s \in Seq(X), NEW x PROVE x \in ToSet(s) <=> \E i \in 1..Len(s) : s[i] = x
  BY DEF ToSet
<1>4. ASSUME NEW s \in Seq(X), NEW t \in Seq(X) PROVE ToSet(s \o t) = ToSet(s) \cup ToSet(t)
  <2>1. /\ s \o t \in Seq(X) /\ Len(s \o t) = Len(s) + Len(t)
        /\ \A i \in 1..(Len(s) + Len(t)) :
               (s \o t)[i] = IF i <= Len(s) THEN s[i] ELSE t[i - Len(s)]
        /\ Len(s) \in Nat /\ Len(t) \in Nat
    BY ConcatProperties
  <2> DEFINE u == s \o t
  <2> HIDE DEF u
  <2>2. /\ u \in Seq(X) /\ Len(u) = Len(s) + Len(t)
        /\ \A i \in 1..(Len(s) + Len(t)) :
               u[i] = IF i <= Len(s) THEN s[i] ELSE t[i - Len(s)]
    BY <2>1 DEF u
  <2>3. ASSUME NEW x, x \in ToSet(u) PROVE x \in ToSet(s) \cup ToSet(t)
    <3>1. PICK i \in 1..Len(u) : u[i] = x
      BY <1>2, <2>2, <2>3
    <3>2. CASE i <= Len(s)
      BY <1>2, <2>1, <2>2, <3>1, <3>2
    <3>3. CASE ~(i <= Len(s))
      <4>1. i - Len(s) \in 1..Len(t) /\ t[i - Len(s)] = x
        BY <2>1, <2>2, <3>1, <3>3
      <4> QED
        BY <1>2, <4>1
    <3> QED
      BY <3>2, <3>3
  <2>4. ASSUME NEW x, x \in ToSet(s) PROVE x \in ToSet(u)
    <3>1. PICK i \in 1..Len(s) : s[i] = x
      BY <1>2, <2>4
    <3>2. i \in 1..Len(u) /\ u[i] = x
      BY <2>1, <2>2, <3>1
    <3> QED
      BY <1>2, <2>2, <3>2
  <2>5. ASSUME NEW x, x \in ToSet(t) PROVE x \in ToSet(u)
    <3>1. PICK i \in 1..Len(t) : t[i] = x
      BY <1>2, <2>5
    <3>2. i + Len(s) \in 1..Len(u) /\ u[i + Len(s)] = x
      <4>1. i + Len(s) \in 1..Len(u) /\ ~(i + Len(s) <= Len(s)) /\ (i + Len(s)) - Len(s) = i
        BY <2>1, <2>2, <3>1
      <4> QED
        BY <2>2, <3>1, <4>1
    <3> QED
      BY <1>2, <2>2, <3>2
  <2>6. ToSet(u) = ToSet(s) \cup ToSet(t)
    BY <2>3, <2>4, <2>5
  <2> QED
    BY <2>6 DEF u
<1>3. ASSUME NEW s \in Seq(X), NEW x \in X PROVE ToSet(Append(s, x)) = ToSet(s) \cup {x}
  <2>1. Append(s, x) = s \o <<x>> /\ <<x>> \in Seq(X)
    BY AppendIsConcat
  <2>2. ToSet(<<x>>) = {x}
    BY DEF ToSet
  <2> QED
    BY <1>4, <2>1, <2>2
<1> QED
  BY <1>1, <1>2, <1>3, <1>4

(* Sequences without repetition and without common elements, one after the other. *)
LEMMA ConcatInjective ==
    ASSUME NEW X, NEW s \in Seq(X), NEW t \in Seq(X), IsInjective(s), IsInjective(t),
           ToSet(s) \cap ToSet(t) = {}
    PROVE  IsInjective(s \o t)
<1>1. /\ DOMAIN (s \o t) = 1..(Len(s) + Len(t))
      /\ \A i \in 1..(Len(s) + Len(t)) :
               (s \o t)[i] = IF i <= Len(s) THEN s[i] ELSE t[i - Len(s)]
      /\ Len(s) \in Nat /\ Len(t) \in Nat /\ DOMAIN s = 1..Len(s) /\ DOMAIN t = 1..Len(t)
  BY ConcatProperties
<1> DEFINE u == s \o t
<1>2. /\ DOMAIN u = 1..(Len(s) + Len(t))
      /\ \A i \in 1..(Len(s) + Len(t)) :
               u[i] = IF i <= Len(s) THEN s[i] ELSE t[i - Len(s)]
  BY <1>1
<1> HIDE DEF u
<1>3. \A i \in 1..Len(s), j \in 1..Len(t) : s[i] # t[j]
  BY <1>1 DEF ToSet
<1>4. ASSUME NEW i \in DOMAIN u, NEW j \in DOMAIN u, u[i] = u[j] PROVE i = j
  <2>0. i \in 1..(Len(s) + Len(t)) /\ j \in 1..(Len(s) + Len(t))
    BY <1>2
  <2>1. CASE i <= Len(s) /\ j <= Len(s)
    BY <1>1, <1>2, <1>4, <2>0, <2>1 DEF IsInjective
  <2>2. CASE ~(i <= Len(s)) /\ ~(j <= Len(s))
    <3>1. i - Len(s) \in 1..Len(t) /\ j - Len(s) \in 1..Len(t)
      BY <1>1, <2>0, <2>2
    <3>2. t[i - Len(s)] = t[j - Len(s)]
      BY <1>2, <1>4, <2>0, <2>2
    <3>3. i - Len(s) = j - Len(s)
      BY <1>1, <3>1, <3>2 DEF IsInjective
    <3> QED
      BY <1>1, <2>0, <3>3
  <2>3. CASE i <= Len(s) /\ ~(j <= Len(s))
    <3>1. i \in 1..Len(s) /\ j - Len(s) \in 1..Len(t) /\ s[i] = t[j - Len(s)]
      BY <1>1, <1>2, <1>4, <2>0, <2>3
    <3> QED
      BY <1>3, <3>1
  <2>4. CASE ~(i <= Len(s)) /\ j <= Len(s)
    <3>1. j \in 1..Len(s) /\ i - Len(s) \in 1..Len(t) /\ s[j] = t[i - Len(s)]
      BY <1>1, <1>2, <1>4, <2>0, <2>4
    <3> QED
      BY <1>3, <3>1
  <2> QED
    BY <2>1, <2>2, <2>3, <2>4
<1>5. IsInjective(u)
  BY <1>4 DEF IsInjective
<1> QED
  BY <1>5 DEF u

(* The elements of a concatenation are those of its parts. *)
LEMMA FlattenToSet ==
    ASSUME NEW X, NEW s \in Seq(Seq(X)), NEW x
    PROVE  x \in ToSet(FlattenSeq(s)) <=> \E i \in 1..Len(s) : x \in ToSet(s[i])
<1> DEFINE P == {t \in Seq(Seq(X)) :
                     x \in ToSet(FlattenSeq(t)) <=> \E i \in 1..Len(t) : x \in ToSet(t[i])}
<1>1. <<>> \in P
  <2>1. ToSet(FlattenSeq(<<>>)) = {}
    BY FlattenLaws, ToSetLaws
  <2> QED
    BY <2>1
<1>2. ASSUME NEW t \in P, NEW e \in Seq(X) PROVE Append(t, e) \in P
  <2> DEFINE u == Append(t, e)
  <2>0. t \in Seq(Seq(X))
    BY <1>2
  <2>1. /\ u \in Seq(Seq(X)) /\ Len(u) = Len(t) + 1 /\ Len(t) \in Nat
        /\ u[Len(t) + 1] = e /\ \A i \in 1..Len(t) : u[i] = t[i]
    BY <2>0, AppendProperties
  <2>2. FlattenSeq(u) = FlattenSeq(t) \o e /\ FlattenSeq(t) \in Seq(X)
    BY <2>0, FlattenLaws
  <2> HIDE DEF u
  <2>3. ToSet(FlattenSeq(u)) = ToSet(FlattenSeq(t)) \cup ToSet(e)
    BY <2>2, ToSetLaws
  <2>4. x \in ToSet(FlattenSeq(t)) <=> \E i \in 1..Len(t) : x \in ToSet(t[i])
    BY <1>2
  <2>5. (\E i \in 1..Len(u) : x \in ToSet(u[i]))
          <=> (\E i \in 1..Len(t) : x \in ToSet(t[i])) \/ x \in ToSet(e)
    <3>1. \A i \in 1..Len(u) : i \in 1..Len(t) \/ i = Len(t) + 1
      BY <2>1
    <3>2. Len(t) + 1 \in 1..Len(u) /\ \A i \in 1..Len(t) : i \in 1..Len(u)
      BY <2>1
    <3> QED
      BY <2>1, <3>1, <3>2
  <2>6. u \in P
    BY <2>1, <2>3, <2>4, <2>5
  <2> QED
    BY <2>6 DEF u
<1>3. P \in SUBSET Seq(Seq(X))
  OBVIOUS
<1>4. s \in P
  <2> HIDE DEF P
  <2> QED
    BY <1>1, <1>2, <1>3, SeqInduction
<1> QED
  BY <1>4

(* The parts repeat nothing, in themselves or among each other. *)
Distinct(s) ==
    /\ \A i \in 1..Len(s) : IsInjective(s[i])
    /\ \A i, j \in 1..Len(s) : i # j => ToSet(s[i]) \cap ToSet(s[j]) = {}

(* Then their concatenation repeats nothing. *)
LEMMA FlattenInjective ==
    ASSUME NEW X, NEW s \in Seq(Seq(X)), Distinct(s)
    PROVE  IsInjective(FlattenSeq(s))
<1> DEFINE P == {t \in Seq(Seq(X)) : Distinct(t) => IsInjective(FlattenSeq(t))}
<1>1. <<>> \in P
  <2>1. FlattenSeq(<<>>) = <<>>
    BY FlattenLaws
  <2>2. IsInjective(<<>>)
    BY DEF IsInjective
  <2>3. IsInjective(FlattenSeq(<<>>))
    BY <2>1, <2>2, Zenon
  <2> QED
    BY <2>3
<1>2. ASSUME NEW t \in P, NEW e \in Seq(X) PROVE Append(t, e) \in P
  <2> DEFINE u == Append(t, e)
  <2>0. t \in Seq(Seq(X))
    BY <1>2
  <2>1. /\ u \in Seq(Seq(X)) /\ Len(u) = Len(t) + 1 /\ Len(t) \in Nat
        /\ u[Len(t) + 1] = e /\ \A i \in 1..Len(t) : u[i] = t[i]
    BY <2>0, AppendProperties
  <2>2. FlattenSeq(u) = FlattenSeq(t) \o e /\ FlattenSeq(t) \in Seq(X)
    BY <2>0, FlattenLaws
  <2> HIDE DEF u
  <2>3. ASSUME Distinct(u) PROVE IsInjective(FlattenSeq(u))
    <3>1. Len(t) + 1 \in 1..Len(u) /\ \A i \in 1..Len(t) : i \in 1..Len(u) /\ i # Len(t) + 1
      BY <2>1
    <3>2. Distinct(t) /\ IsInjective(e)
      BY <2>1, <2>3, <3>1 DEF Distinct
    <3>3. \A i \in 1..Len(t) : ToSet(t[i]) \cap ToSet(e) = {}
      BY <2>1, <2>3, <3>1 DEF Distinct
    <3>4. ToSet(FlattenSeq(t)) \cap ToSet(e) = {}
      BY <2>0, <3>3, FlattenToSet
    <3>5. IsInjective(FlattenSeq(t))
      BY <1>2, <3>2
    <3> QED
      BY <2>2, <3>2, <3>4, <3>5, ConcatInjective
  <2>4. u \in P
    BY <2>1, <2>3
  <2> QED
    BY <2>4 DEF u
<1>3. P \in SUBSET Seq(Seq(X))
  OBVIOUS
<1>4. s \in P
  <2> HIDE DEF P
  <2> QED
    BY <1>1, <1>2, <1>3, SeqInduction
<1> QED
  BY <1>4

-----------------------------------------------------------------------------
(* Collecting. *)

(* f has the queries collected from the first items of s, up to n items. *)
Collected(f, s, n) ==
    f = [i \in 0..n |-> IF i = 0 THEN EmptyQuery ELSE CollectItem(f[i - 1], s[i])]

(* There is such a table. *)
LEMMA CollectedExists ==
    ASSUME NEW s, NEW m \in Nat
    PROVE  \E f : Collected(f, s, m)
<1> DEFINE G == {n \in Nat : \E f : Collected(f, s, n)}
<1>1. 0 \in G
  <2> DEFINE f == [i \in 0..0 |-> EmptyQuery]
  <2>1. \A i \in 0..0 : i = 0
    OBVIOUS
  <2>2. Collected(f, s, 0)
    BY <2>1 DEF Collected
  <2> QED
    BY <2>2
<1>2. ASSUME NEW n \in G PROVE n + 1 \in G
  <2>0. n \in Nat
    BY <1>2
  <2>1. PICK f : Collected(f, s, n)
    BY <1>2
  <2> DEFINE last == CollectItem(f[n], s[n + 1])
             g == [i \in 0..(n + 1) |-> IF i <= n THEN f[i] ELSE last]
             h == [i \in 0..(n + 1) |-> IF i = 0 THEN EmptyQuery ELSE CollectItem(g[i - 1], s[i])]
  <2>2. \A i \in 0..n : g[i] = f[i]
    BY <2>0
  <2>3. g[n + 1] = last
    BY <2>0
  <2>4. ASSUME NEW i \in 0..(n + 1) PROVE g[i] = h[i]
    <3>0. h[i] = IF i = 0 THEN EmptyQuery ELSE CollectItem(g[i - 1], s[i])
      OBVIOUS
    <3> HIDE DEF g, h
    <3>1. CASE i = n + 1
      <4>1. i # 0 /\ i - 1 = n /\ n \in 0..n
        BY <2>0, <3>1
      <4> QED
        BY <2>2, <2>3, <3>0, <3>1, <4>1
    <3>2. CASE i # n + 1
      <4>1. i \in 0..n /\ (i # 0 => i - 1 \in 0..n)
        BY <2>0, <3>2
      <4>2. f[i] = IF i = 0 THEN EmptyQuery ELSE CollectItem(f[i - 1], s[i])
        BY <2>1, <4>1 DEF Collected
      <4> QED
        BY <2>2, <3>0, <4>1, <4>2
    <3> QED
      BY <3>1, <3>2
  <2>5. g = h
    BY <2>4
  <2>6. Collected(g, s, n + 1)
    BY <2>5 DEF Collected
  <2> HIDE DEF g
  <2> QED
    BY <2>0, <2>6
<1>3. G \in SUBSET Nat
  OBVIOUS
<1>4. m \in G
  <2> HIDE DEF G
  <2> QED
    BY <1>1, <1>2, <1>3, Induction
<1> QED
  BY <1>4

(* Tables for two sequences agree as far as the sequences do. *)
LEMMA CollectedAgree ==
    ASSUME NEW s, NEW t, NEW n \in Nat, NEW m \in Nat, m <= n,
           NEW f, Collected(f, s, m), NEW g, Collected(g, t, n), \A i \in 1..m : s[i] = t[i]
    PROVE  f[m] = g[m]
<1>1. /\ \A i \in 0..m : f[i] = IF i = 0 THEN EmptyQuery ELSE CollectItem(f[i - 1], s[i])
      /\ \A i \in 0..n : g[i] = IF i = 0 THEN EmptyQuery ELSE CollectItem(g[i - 1], t[i])
  BY DEF Collected
<1> DEFINE G == {i \in Nat : i <= m => f[i] = g[i]}
<1>2. 0 \in G
  <2>1. 0 \in 0..m /\ 0 \in 0..n
    OBVIOUS
  <2> QED
    BY <1>1, <2>1
<1>3. ASSUME NEW i \in G PROVE i + 1 \in G
  <2> SUFFICES ASSUME i + 1 <= m PROVE f[i + 1] = g[i + 1]
    BY <1>3
  <2>1. /\ i \in Nat /\ i <= m /\ i + 1 \in 0..m /\ i + 1 \in 0..n /\ i + 1 # 0
        /\ (i + 1) - 1 = i /\ i + 1 \in 1..m
    BY <1>3
  <2>2. f[i] = g[i]
    BY <1>3, <2>1
  <2>3. f[i + 1] = CollectItem(f[i], s[i + 1]) /\ g[i + 1] = CollectItem(g[i], t[i + 1])
    BY <1>1, <2>1
  <2> QED
    BY <2>1, <2>2, <2>3
<1>4. G \in SUBSET Nat
  OBVIOUS
<1>5. m \in G
  <2> HIDE DEF G
  <2> QED
    BY <1>2, <1>3, <1>4, Induction
<1> QED
  BY <1>5

(* collect_query has the last of its table. *)
LEMMA CollectTable ==
    ASSUME NEW s, Len(s) \in Nat
    PROVE  \E f : Collected(f, s, Len(s)) /\ collect_query(s) = f[Len(s)]
<1> DEFINE Rec(e) == [i \in 0..Len(s) |->
                         IF i = 0 THEN EmptyQuery ELSE CollectItem(e[i - 1], s[i])]
           f == CHOOSE e : e = Rec(e)
<1>1. collect_query(s) = f[Len(s)]
  BY DEF collect_query
<1>2. PICK h : Collected(h, s, Len(s))
  BY CollectedExists
<1>3. h = Rec(h)
  BY <1>2 DEF Collected
<1>4. f = Rec(f)
  <2> HIDE DEF Rec
  <2> QED
    BY <1>3
<1> HIDE DEF f
<1>5. Collected(f, s, Len(s))
  BY <1>4 DEF Collected
<1> QED
  BY <1>1, <1>5

(* collect_query takes one item after the other. *)
LEMMA CollectLaws ==
    ASSUME NEW X
    PROVE  /\ collect_query(<<>>) = EmptyQuery
           /\ \A s \in Seq(X), x \in X :
                  collect_query(Append(s, x)) = CollectItem(collect_query(s), x)
<1>1. collect_query(<<>>) = EmptyQuery
  <2>1. PICK f : Collected(f, <<>>, Len(<<>>)) /\ collect_query(<<>>) = f[Len(<<>>)]
    BY CollectTable
  <2>2. Len(<<>>) = 0 /\ 0 \in 0..0
    OBVIOUS
  <2> QED
    BY <2>1, <2>2 DEF Collected
<1>2. ASSUME NEW s \in Seq(X), NEW x \in X
      PROVE  collect_query(Append(s, x)) = CollectItem(collect_query(s), x)
  <2> DEFINE t == Append(s, x)
             n == Len(s)
  <2>1. /\ Len(t) = n + 1 /\ n \in Nat /\ t[n + 1] = x /\ \A i \in 1..n : s[i] = t[i]
    BY AppendProperties
  <2> HIDE DEF t
  <2>2. PICK f : Collected(f, s, n) /\ collect_query(s) = f[n]
    BY <2>1, CollectTable
  <2>3. PICK g : Collected(g, t, n + 1) /\ collect_query(t) = g[n + 1]
    BY <2>1, CollectTable
  <2>4. f[n] = g[n]
    BY <2>1, <2>2, <2>3, CollectedAgree
  <2>5. g[n + 1] = CollectItem(g[n], t[n + 1])
    <3>1. n + 1 \in 0..(n + 1) /\ n + 1 # 0 /\ (n + 1) - 1 = n
      BY <2>1
    <3> QED
      BY <2>3, <3>1 DEF Collected
  <2> QED
    BY <2>1, <2>2, <2>3, <2>4, <2>5 DEF t
<1> QED
  BY <1>1, <1>2

(* An entry of contract_storage_keys. *)
Entry == [contract_address : Contracts, storage_keys : Seq(Keys)]
EntryOf(a, keys) == [contract_address |-> a, storage_keys |-> keys]

(* The entries ask for key k of contract a. *)
HasCell(csk, a, k) ==
    \E i \in 1..Len(csk) : csk[i].contract_address = a /\ k \in ToSet(csk[i].storage_keys)

NoneEmpty(csk) == \A i \in 1..Len(csk) : csk[i].storage_keys # <<>>

(* The cells, keys and emptiness of one entry more. *)
LEMMA EntryAppended ==
    ASSUME NEW csk \in Seq(Entry), NEW e \in Entry
    PROVE  /\ \A a, k : HasCell(Append(csk, e), a, k)
                  <=> HasCell(csk, a, k) \/ (e.contract_address = a /\ k \in ToSet(e.storage_keys))
           /\ NoneEmpty(Append(csk, e)) <=> NoneEmpty(csk) /\ e.storage_keys # <<>>
           /\ KeysIn(csk) \in Seq(Keys)
           /\ KeysIn(Append(csk, e)) = KeysIn(csk) \o e.storage_keys
<1> DEFINE u == Append(csk, e)
           n == Len(csk)
<1>1. /\ u \in Seq(Entry) /\ Len(u) = n + 1 /\ n \in Nat /\ u[n + 1] = e
      /\ \A i \in 1..n : u[i] = csk[i]
  BY AppendProperties
<1>2. /\ \A i \in 1..Len(u) : i \in 1..n \/ i = n + 1
      /\ n + 1 \in 1..Len(u) /\ \A i \in 1..n : i \in 1..Len(u)
  BY <1>1
<1> HIDE DEF u, n
<1>3. ASSUME NEW a, NEW k
      PROVE  HasCell(u, a, k)
                 <=> HasCell(csk, a, k) \/ (e.contract_address = a /\ k \in ToSet(e.storage_keys))
  BY <1>1, <1>2 DEF HasCell, n
<1>4. NoneEmpty(u) <=> NoneEmpty(csk) /\ e.storage_keys # <<>>
  BY <1>1, <1>2 DEF NoneEmpty, n
<1> DEFINE lists(c) == [i \in DOMAIN c |-> c[i].storage_keys]
<1>5. ASSUME NEW c \in Seq(Entry)
      PROVE  /\ lists(c) \in Seq(Seq(Keys)) /\ Len(lists(c)) = Len(c)
             /\ \A i \in 1..Len(c) : lists(c)[i] = c[i].storage_keys
  <2>1. DOMAIN c = 1..Len(c) /\ Len(c) \in Nat /\ \A i \in 1..Len(c) : c[i] \in Entry
    OBVIOUS
  <2>2. \A i \in 1..Len(c) : c[i].storage_keys \in Seq(Keys)
    BY <2>1 DEF Entry
  <2> QED
    BY <2>1, <2>2
<1>6. lists(u) = Append(lists(csk), e.storage_keys)
  <2>0. e.storage_keys \in Seq(Keys)
    BY DEF Entry
  <2>1. /\ lists(u) \in Seq(Seq(Keys)) /\ Len(lists(u)) = n + 1
        /\ \A i \in 1..Len(u) : lists(u)[i] = u[i].storage_keys
    BY <1>1, <1>5
  <2>2. /\ lists(csk) \in Seq(Seq(Keys)) /\ Len(lists(csk)) = n
        /\ \A i \in 1..n : lists(csk)[i] = csk[i].storage_keys
    BY <1>5 DEF n
  <2> DEFINE v == lists(csk)
             w == lists(u)
             z == Append(v, e.storage_keys)
  <2> HIDE DEF lists, v, w
  <2>3. /\ z \in Seq(Seq(Keys)) /\ Len(z) = n + 1 /\ z[n + 1] = e.storage_keys
        /\ \A i \in 1..n : z[i] = v[i]
    BY <2>0, <2>2, AppendProperties DEF v
  <2> HIDE DEF z
  <2>4. ASSUME NEW i \in 1..(n + 1) PROVE w[i] = z[i]
    <3>1. w[i] = u[i].storage_keys
      BY <1>1, <2>1 DEF w
    <3>2. CASE i = n + 1
      BY <1>1, <2>3, <3>1, <3>2, Zenon
    <3>3. CASE i # n + 1
      <4>1. i \in 1..n
        BY <1>1, <3>3
      <4>2. u[i] = csk[i]
        BY <1>1, <4>1, Zenon
      <4>3. v[i] = csk[i].storage_keys
        BY <2>2, <4>1, Zenon DEF v
      <4>4. z[i] = v[i]
        BY <2>3, <4>1, Zenon
      <4> QED
        BY <3>1, <4>2, <4>3, <4>4, Zenon
    <3> QED
      BY <3>2, <3>3, Zenon
  <2>5. w = z
    BY <2>1, <2>3, <2>4, SeqEqual DEF w
  <2> QED
    BY <2>5 DEF w, z, v
<1>7. KeysIn(csk) \in Seq(Keys)
  <2>1. lists(csk) \in Seq(Seq(Keys))
    BY <1>5
  <2>2. FlattenSeq(lists(csk)) \in Seq(Keys)
    <3> HIDE DEF lists
    <3> QED
      BY <2>1, FlattenLaws
  <2> QED
    BY <2>2 DEF KeysIn
<1>8. KeysIn(u) = KeysIn(csk) \o e.storage_keys
  <2>0. e.storage_keys \in Seq(Keys) /\ lists(csk) \in Seq(Seq(Keys))
    BY <1>5 DEF Entry
  <2>1. FlattenSeq(Append(lists(csk), e.storage_keys)) = FlattenSeq(lists(csk)) \o e.storage_keys
    <3> HIDE DEF lists
    <3> QED
      BY <2>0, FlattenLaws
  <2>2. FlattenSeq(lists(u)) = FlattenSeq(lists(csk)) \o e.storage_keys
    <3> HIDE DEF lists
    <3> QED
      BY <1>6, <2>1
  <2> QED
    BY <2>2 DEF KeysIn
<1> QED
  BY <1>3, <1>4, <1>7, <1>8 DEF u

(* A key joins the last entry or opens one: it is the last key of the last entry. *)
LEMMA PushKeyForms ==
    ASSUME NEW csk \in Seq(Entry), NEW a \in Contracts, NEW k \in Keys
    PROVE  \E front \in Seq(Entry), keys \in Seq(Keys) :
               /\ PushKey(csk, a, k) = Append(front, EntryOf(a, Append(keys, k)))
               /\ \/ csk = Append(front, EntryOf(a, keys))
                  \/ csk = front /\ keys = <<>>
<1>1. CASE csk # <<>> /\ Last(csk).contract_address = a
  <2>1. PICK front \in Seq(Entry), last \in Entry : csk = Append(front, last)
    BY <1>1, SequenceEmptyOrAppend
  <2> DEFINE n == Len(front)
             keys == last.storage_keys
             new == EntryOf(a, Append(keys, k))
             pushed == [csk EXCEPT ![Len(csk)].storage_keys = Append(@, k)]
             z == Append(front, new)
  <2>2. /\ Len(csk) = n + 1 /\ n \in Nat /\ csk[n + 1] = last
        /\ \A i \in 1..n : csk[i] = front[i]
    BY <2>1, AppendProperties
  <2>3. last.contract_address = a /\ keys \in Seq(Keys)
    BY <1>1, <2>2 DEF Last, Entry
  <2>4. last = EntryOf(a, keys)
    BY <2>3 DEF Entry, EntryOf
  <2>5. new \in Entry
    BY <2>3, AppendProperties DEF Entry, EntryOf
  <2>6. /\ z \in Seq(Entry) /\ Len(z) = n + 1 /\ z[n + 1] = new
        /\ \A i \in 1..n : z[i] = front[i]
    BY <2>5, AppendProperties
  <2>7. [last EXCEPT !.storage_keys = Append(@, k)] = new
    <3> DEFINE more == Append(keys, k)
    <3>1. [last EXCEPT !.storage_keys = Append(@, k)] = [last EXCEPT !.storage_keys = more]
      OBVIOUS
    <3> HIDE DEF more, keys
    <3>2. [last EXCEPT !.storage_keys = more] = EntryOf(a, more)
      BY <2>4 DEF EntryOf
    <3> QED
      BY <3>1, <3>2 DEF more
  <2>8. pushed = [csk EXCEPT ![n + 1] = new]
    <3>1. pushed = [csk EXCEPT ![n + 1] = [csk[n + 1] EXCEPT !.storage_keys = Append(@, k)]]
      BY <2>2
    <3> HIDE DEF new
    <3> QED
      BY <2>2, <2>7, <3>1
  <2> HIDE DEF new, z, keys
  <2>9. pushed = z
    <3>0. n + 1 \in 1..Len(csk)
      BY <2>2
    <3>1. /\ [csk EXCEPT ![n + 1] = new] \in Seq(Entry)
          /\ Len([csk EXCEPT ![n + 1] = new]) = n + 1
          /\ \A i \in 1..(n + 1) :
                 [csk EXCEPT ![n + 1] = new][i] = IF i = n + 1 THEN new ELSE csk[i]
      BY <2>2, <2>5, <3>0, ExceptSeq
    <3> DEFINE w == [csk EXCEPT ![n + 1] = new]
    <3> HIDE DEF w
    <3>2. /\ w \in Seq(Entry) /\ Len(w) = n + 1
          /\ \A i \in 1..(n + 1) : w[i] = IF i = n + 1 THEN new ELSE csk[i]
      BY <3>1 DEF w
    <3>3. ASSUME NEW i \in 1..(n + 1) PROVE w[i] = z[i]
      <4>1. i = n + 1 \/ (i \in 1..n /\ i # n + 1)
        BY <2>2
      <4> QED
        BY <2>2, <2>6, <3>2, <4>1
    <3>4. w = z
      BY <2>6, <3>2, <3>3, SeqEqual
    <3> QED
      BY <2>8, <3>4 DEF w
  <2>10. PushKey(csk, a, k) = z
    BY <1>1, <2>9 DEF PushKey
  <2> QED
    BY <2>1, <2>3, <2>4, <2>10 DEF z, new
<1>2. CASE ~(csk # <<>> /\ Last(csk).contract_address = a)
  <2>1. PushKey(csk, a, k) = Append(csk, EntryOf(a, <<k>>))
    BY <1>2 DEF PushKey, EntryOf
  <2>2. <<k>> = Append(<<>>, k) /\ <<>> \in Seq(Keys)
    OBVIOUS
  <2>3. PushKey(csk, a, k) = Append(csk, EntryOf(a, Append(<<>>, k)))
    BY <2>1, <2>2
  <2> QED
    BY <2>2, <2>3
<1> QED
  BY <1>1, <1>2

(* What a pushed key adds. *)
LEMMA PushKeyLaws ==
    ASSUME NEW csk \in Seq(Entry), NEW a \in Contracts, NEW k \in Keys
    PROVE  /\ PushKey(csk, a, k) \in Seq(Entry)
           /\ \A b, j : HasCell(PushKey(csk, a, k), b, j)
                  <=> HasCell(csk, b, j) \/ (b = a /\ j = k)
           /\ NoneEmpty(csk) => NoneEmpty(PushKey(csk, a, k))
           /\ Len(KeysIn(PushKey(csk, a, k))) = Len(KeysIn(csk)) + 1
<1>1. PICK front \in Seq(Entry), keys \in Seq(Keys) :
          /\ PushKey(csk, a, k) = Append(front, EntryOf(a, Append(keys, k)))
          /\ \/ csk = Append(front, EntryOf(a, keys))
             \/ csk = front /\ keys = <<>>
  BY PushKeyForms
<1> DEFINE new == EntryOf(a, Append(keys, k))
           old == EntryOf(a, keys)
           p == PushKey(csk, a, k)
<1>2. /\ Append(keys, k) \in Seq(Keys) /\ Append(keys, k) # <<>>
      /\ Len(Append(keys, k)) = Len(keys) + 1
  BY AppendProperties
<1>3. ToSet(Append(keys, k)) = ToSet(keys) \cup {k}
  BY ToSetLaws
<1>4. /\ new \in Entry /\ old \in Entry
      /\ new.contract_address = a /\ old.contract_address = a
      /\ new.storage_keys = Append(keys, k) /\ old.storage_keys = keys
  BY <1>2 DEF Entry, EntryOf
<1>5. p = Append(front, new) /\ (csk = Append(front, old) \/ (csk = front /\ keys = <<>>))
  BY <1>1
<1> HIDE DEF new, old, p
<1>6. p \in Seq(Entry)
  BY <1>4, <1>5, AppendProperties
<1>7. /\ \A b, j : HasCell(Append(front, new), b, j)
             <=> HasCell(front, b, j) \/ (a = b /\ j \in ToSet(Append(keys, k)))
      /\ NoneEmpty(Append(front, new)) <=> NoneEmpty(front) /\ Append(keys, k) # <<>>
      /\ KeysIn(front) \in Seq(Keys)
      /\ KeysIn(Append(front, new)) = KeysIn(front) \o Append(keys, k)
  BY <1>4, EntryAppended
<1>8. /\ \A b, j : HasCell(Append(front, old), b, j)
             <=> HasCell(front, b, j) \/ (a = b /\ j \in ToSet(keys))
      /\ NoneEmpty(Append(front, old)) <=> NoneEmpty(front) /\ keys # <<>>
      /\ KeysIn(Append(front, old)) = KeysIn(front) \o keys
  BY <1>4, EntryAppended
<1>9. ASSUME NEW b, NEW j PROVE HasCell(p, b, j) <=> HasCell(csk, b, j) \/ (b = a /\ j = k)
  <2>1. CASE csk = Append(front, old)
    BY <1>3, <1>5, <1>7, <1>8, <2>1
  <2>2. CASE csk = front /\ keys = <<>>
    <3>1. ToSet(keys) = {}
      BY <2>2, ToSetLaws
    <3> QED
      BY <1>3, <1>5, <1>7, <2>2, <3>1
  <2> QED
    BY <1>5, <2>1, <2>2
<1>10. NoneEmpty(csk) => NoneEmpty(p)
  BY <1>2, <1>5, <1>7, <1>8
<1>11. Len(KeysIn(p)) = Len(KeysIn(csk)) + 1
  <2>1. Len(KeysIn(p)) = Len(KeysIn(front)) + Len(keys) + 1
    BY <1>2, <1>5, <1>7, ConcatProperties
  <2>2. CASE csk = Append(front, old)
    <3>1. Len(KeysIn(csk)) = Len(KeysIn(front)) + Len(keys)
      BY <1>7, <1>8, <2>2, ConcatProperties
    <3> QED
      BY <2>1, <3>1
  <2>3. CASE csk = front /\ keys = <<>>
    <3>1. Len(keys) = 0 /\ Len(KeysIn(front)) \in Nat
      BY <1>7, <2>3
    <3> QED
      BY <2>1, <2>3, <3>1
  <2> QED
    BY <1>5, <2>2, <2>3
<1> QED
  BY <1>6, <1>9, <1>10, <1>11 DEF p

-----------------------------------------------------------------------------
(* The items of a query. *)

Item == {ClassHash(h) : h \in Classes} \cup {ContractAddress(a) : a \in Contracts}
            \cup {StorageKey(c[1], c[2]) : c \in Contracts \X Keys}

(* The query asks for the item. *)
Asks(q, item) ==
    \/ \E h \in ToSet(q.class_hashes) : item = ClassHash(h)
    \/ \E a \in ToSet(q.contract_addresses) : item = ContractAddress(a)
    \/ \E a \in Contracts, k \in Keys :
           HasCell(q.contract_storage_keys, a, k) /\ item = StorageKey(a, k)

(* Items of different kinds, and of different content, differ. *)
LEMMA ItemsDiffer ==
    /\ \A h, g : ClassHash(h) = ClassHash(g) => h = g
    /\ \A a, b : ContractAddress(a) = ContractAddress(b) => a = b
    /\ \A a, b, k, j : StorageKey(a, k) = StorageKey(b, j) => a = b /\ k = j
    /\ \A h, a : ClassHash(h) # ContractAddress(a)
    /\ \A h, a, k : ClassHash(h) # StorageKey(a, k)
    /\ \A a, b, k : ContractAddress(a) # StorageKey(b, k)
<1>1. ASSUME NEW h, NEW g, ClassHash(h) = ClassHash(g) PROVE h = g
  <2>1. ClassHash(h).value = h /\ ClassHash(g).value = g
    BY DEF ClassHash
  <2> QED
    BY <1>1, <2>1
<1>2. ASSUME NEW a, NEW b, ContractAddress(a) = ContractAddress(b) PROVE a = b
  <2>1. ContractAddress(a).value = a /\ ContractAddress(b).value = b
    BY DEF ContractAddress
  <2> QED
    BY <1>2, <2>1
<1>3. ASSUME NEW a, NEW b, NEW k, NEW j, StorageKey(a, k) = StorageKey(b, j)
      PROVE  a = b /\ k = j
  <2>1. StorageKey(a, k).value = <<a, k>> /\ StorageKey(b, j).value = <<b, j>>
    BY DEF StorageKey
  <2> QED
    BY <1>3, <2>1
<1>4. /\ \A h : ClassHash(h).type = "class"
      /\ \A a : ContractAddress(a).type = "contract"
      /\ \A a, k : StorageKey(a, k).type = "storage"
  BY DEF ClassHash, ContractAddress, StorageKey
<1>5. \A h, a : ClassHash(h) # ContractAddress(a)
  BY <1>4
<1>6. \A h, a, k : ClassHash(h) # StorageKey(a, k)
  BY <1>4
<1>7. \A a, b, k : ContractAddress(a) # StorageKey(b, k)
  BY <1>4
<1> QED
  BY <1>1, <1>2, <1>3, <1>5, <1>6, <1>7

(* One item goes to the field of its kind. *)
LEMMA CollectItemFields ==
    ASSUME NEW q \in Query
    PROVE  /\ \A h \in Classes :
                  /\ CollectItem(q, ClassHash(h)) \in Query
                  /\ CollectItem(q, ClassHash(h)).class_hashes = Append(q.class_hashes, h)
                  /\ CollectItem(q, ClassHash(h)).contract_addresses = q.contract_addresses
                  /\ CollectItem(q, ClassHash(h)).contract_storage_keys = q.contract_storage_keys
           /\ \A a \in Contracts :
                  /\ CollectItem(q, ContractAddress(a)) \in Query
                  /\ CollectItem(q, ContractAddress(a)).class_hashes = q.class_hashes
                  /\ CollectItem(q, ContractAddress(a)).contract_addresses =
                         Append(q.contract_addresses, a)
                  /\ CollectItem(q, ContractAddress(a)).contract_storage_keys =
                         q.contract_storage_keys
           /\ \A a \in Contracts, k \in Keys :
                  /\ CollectItem(q, StorageKey(a, k)) \in Query
                  /\ CollectItem(q, StorageKey(a, k)).class_hashes = q.class_hashes
                  /\ CollectItem(q, StorageKey(a, k)).contract_addresses = q.contract_addresses
                  /\ CollectItem(q, StorageKey(a, k)).contract_storage_keys =
                         PushKey(q.contract_storage_keys, a, k)
<1>0. /\ q.class_hashes \in Seq(Classes) /\ q.contract_addresses \in Seq(Contracts)
      /\ q.contract_storage_keys \in Seq(Entry)
  BY DEF Query, Entry
<1>1. ASSUME NEW h \in Classes
      PROVE  /\ CollectItem(q, ClassHash(h)) \in Query
             /\ CollectItem(q, ClassHash(h)).class_hashes = Append(q.class_hashes, h)
             /\ CollectItem(q, ClassHash(h)).contract_addresses = q.contract_addresses
             /\ CollectItem(q, ClassHash(h)).contract_storage_keys = q.contract_storage_keys
  <2>1. CollectItem(q, ClassHash(h)) = [q EXCEPT !.class_hashes = Append(@, h)]
    BY DEF CollectItem, ClassHash
  <2>2. Append(q.class_hashes, h) \in Seq(Classes)
    BY <1>0, AppendProperties
  <2> QED
    BY <2>1, <2>2 DEF Query
<1>2. ASSUME NEW a \in Contracts
      PROVE  /\ CollectItem(q, ContractAddress(a)) \in Query
             /\ CollectItem(q, ContractAddress(a)).class_hashes = q.class_hashes
             /\ CollectItem(q, ContractAddress(a)).contract_addresses =
                    Append(q.contract_addresses, a)
             /\ CollectItem(q, ContractAddress(a)).contract_storage_keys =
                    q.contract_storage_keys
  <2>1. CollectItem(q, ContractAddress(a)) = [q EXCEPT !.contract_addresses = Append(@, a)]
    BY DEF CollectItem, ContractAddress
  <2>2. Append(q.contract_addresses, a) \in Seq(Contracts)
    BY <1>0, AppendProperties
  <2> QED
    BY <2>1, <2>2 DEF Query
<1>3. ASSUME NEW a \in Contracts, NEW k \in Keys
      PROVE  /\ CollectItem(q, StorageKey(a, k)) \in Query
             /\ CollectItem(q, StorageKey(a, k)).class_hashes = q.class_hashes
             /\ CollectItem(q, StorageKey(a, k)).contract_addresses = q.contract_addresses
             /\ CollectItem(q, StorageKey(a, k)).contract_storage_keys =
                    PushKey(q.contract_storage_keys, a, k)
  <2>1. CollectItem(q, StorageKey(a, k)) =
            [q EXCEPT !.contract_storage_keys = PushKey(@, a, k)]
    BY DEF CollectItem, StorageKey
  <2>2. PushKey(q.contract_storage_keys, a, k) \in Seq(Entry)
    BY <1>0, PushKeyLaws
  <2> QED
    BY <2>1, <2>2 DEF Query, Entry
<1> QED
  BY <1>1, <1>2, <1>3

(* Membership of an item among those asked, by kind. *)
LEMMA AsksKinds ==
    ASSUME NEW q \in Query
    PROVE  /\ \A h : Asks(q, ClassHash(h)) <=> h \in ToSet(q.class_hashes)
           /\ \A a : Asks(q, ContractAddress(a)) <=> a \in ToSet(q.contract_addresses)
           /\ \A a \in Contracts, k \in Keys :
                  Asks(q, StorageKey(a, k)) <=> HasCell(q.contract_storage_keys, a, k)
<1>1. ASSUME NEW h PROVE Asks(q, ClassHash(h)) <=> h \in ToSet(q.class_hashes)
  BY ItemsDiffer DEF Asks
<1>2. ASSUME NEW a PROVE Asks(q, ContractAddress(a)) <=> a \in ToSet(q.contract_addresses)
  BY ItemsDiffer DEF Asks
<1>3. ASSUME NEW a \in Contracts, NEW k \in Keys
      PROVE  Asks(q, StorageKey(a, k)) <=> HasCell(q.contract_storage_keys, a, k)
  <2>1. ASSUME Asks(q, StorageKey(a, k)) PROVE HasCell(q.contract_storage_keys, a, k)
    <3>1. PICK b \in Contracts, j \in Keys :
              HasCell(q.contract_storage_keys, b, j) /\ StorageKey(a, k) = StorageKey(b, j)
      BY <2>1, ItemsDiffer DEF Asks
    <3>2. a = b /\ k = j
      BY <3>1, ItemsDiffer
    <3> QED
      BY <3>1, <3>2
  <2> QED
    BY <2>1 DEF Asks
<1> QED
  BY <1>1, <1>2, <1>3

(* One item more is asked for, and one key more is counted. *)
LEMMA CollectItemLaws ==
    ASSUME NEW q \in Query, NEW item \in Item
    PROVE  /\ CollectItem(q, item) \in Query
           /\ \A x \in Item : Asks(CollectItem(q, item), x) <=> Asks(q, x) \/ x = item
           /\ NoneEmpty(q.contract_storage_keys) =>
                  NoneEmpty(CollectItem(q, item).contract_storage_keys)
           /\ count_total_keys(CollectItem(q, item)) = count_total_keys(q) + 1
<1> DEFINE r == CollectItem(q, item)
<1> SUFFICES /\ r \in Query
             /\ \A x \in Item : Asks(r, x) <=> Asks(q, x) \/ x = item
             /\ NoneEmpty(q.contract_storage_keys) => NoneEmpty(r.contract_storage_keys)
             /\ count_total_keys(r) = count_total_keys(q) + 1
  OBVIOUS
<1>0. /\ q.class_hashes \in Seq(Classes) /\ q.contract_addresses \in Seq(Contracts)
      /\ q.contract_storage_keys \in Seq(Entry)
  BY DEF Query, Entry
<1>1. /\ Len(q.class_hashes) \in Nat /\ Len(q.contract_addresses) \in Nat
      /\ Len(KeysIn(q.contract_storage_keys)) \in Nat
  <2>1. CASE q.contract_storage_keys = <<>>
    <3>1. KeysIn(<<>>) = <<>>
      <4>1. [i \in DOMAIN <<>> |-> <<>>[i].storage_keys] = <<>>
        OBVIOUS
      <4> QED
        BY <4>1, FlattenLaws DEF KeysIn
    <3>2. KeysIn(q.contract_storage_keys) = <<>>
      BY <2>1, <3>1, Zenon
    <3> QED
      BY <1>0, <3>2
  <2>2. CASE q.contract_storage_keys # <<>>
    <3>1. PICK t \in Seq(Entry), e \in Entry : q.contract_storage_keys = Append(t, e)
      BY <1>0, <2>2, SequenceEmptyOrAppend
    <3>2. KeysIn(q.contract_storage_keys) \in Seq(Keys)
      BY <1>0, <3>1, EntryAppended
    <3> QED
      BY <1>0, <3>2
  <2> QED
    BY <2>1, <2>2
<1> DEFINE N(x) == Len(x.class_hashes)
           M(x) == Len(x.contract_addresses)
           K(x) == Len(KeysIn(x.contract_storage_keys))
<1>6. N(q) \in Nat /\ M(q) \in Nat /\ K(q) \in Nat
  BY <1>1
<1>7. count_total_keys(q) = N(q) + M(q) + K(q) /\ count_total_keys(r) = N(r) + M(r) + K(r)
  BY DEF count_total_keys
<1>2. CASE \E h \in Classes : item = ClassHash(h)
  <2> PICK h \in Classes : item = ClassHash(h)
    BY <1>2
  <2>1. /\ r \in Query /\ r.class_hashes = Append(q.class_hashes, h)
        /\ r.contract_addresses = q.contract_addresses
        /\ r.contract_storage_keys = q.contract_storage_keys
    BY CollectItemFields
  <2> HIDE DEF r
  <2>2. ToSet(r.class_hashes) = ToSet(q.class_hashes) \cup {h}
    BY <1>0, <2>1, ToSetLaws
  <2>3. \A x \in Item : Asks(r, x) <=> Asks(q, x) \/ x = item
    BY <2>1, <2>2 DEF Asks
  <2>4. Len(r.class_hashes) = Len(q.class_hashes) + 1
    BY <1>0, <2>1, AppendProperties
  <2>5. N(r) = N(q) + 1 /\ M(r) = M(q) /\ K(r) = K(q)
    BY <2>1, <2>4
  <2> HIDE DEF N, M, K
  <2>6. count_total_keys(r) = count_total_keys(q) + 1
    BY <1>6, <1>7, <2>5
  <2> QED
    BY <2>1, <2>3, <2>6
<1>3. CASE \E a \in Contracts : item = ContractAddress(a)
  <2> PICK a \in Contracts : item = ContractAddress(a)
    BY <1>3
  <2>1. /\ r \in Query /\ r.class_hashes = q.class_hashes
        /\ r.contract_addresses = Append(q.contract_addresses, a)
        /\ r.contract_storage_keys = q.contract_storage_keys
    BY CollectItemFields
  <2> HIDE DEF r
  <2>2. ToSet(r.contract_addresses) = ToSet(q.contract_addresses) \cup {a}
    BY <1>0, <2>1, ToSetLaws
  <2>3. \A x \in Item : Asks(r, x) <=> Asks(q, x) \/ x = item
    BY <2>1, <2>2 DEF Asks
  <2>4. Len(r.contract_addresses) = Len(q.contract_addresses) + 1
    BY <1>0, <2>1, AppendProperties
  <2>5. N(r) = N(q) /\ M(r) = M(q) + 1 /\ K(r) = K(q)
    BY <2>1, <2>4
  <2> HIDE DEF N, M, K
  <2>6. count_total_keys(r) = count_total_keys(q) + 1
    BY <1>6, <1>7, <2>5
  <2> QED
    BY <2>1, <2>3, <2>6
<1>4. CASE \E a \in Contracts, k \in Keys : item = StorageKey(a, k)
  <2> PICK a \in Contracts, k \in Keys : item = StorageKey(a, k)
    BY <1>4
  <2>1. /\ r \in Query /\ r.class_hashes = q.class_hashes
        /\ r.contract_addresses = q.contract_addresses
        /\ r.contract_storage_keys = PushKey(q.contract_storage_keys, a, k)
    BY CollectItemFields
  <2> HIDE DEF r
  <2>2. /\ \A b, j : HasCell(r.contract_storage_keys, b, j)
               <=> HasCell(q.contract_storage_keys, b, j) \/ (b = a /\ j = k)
        /\ NoneEmpty(q.contract_storage_keys) => NoneEmpty(r.contract_storage_keys)
        /\ Len(KeysIn(r.contract_storage_keys)) = Len(KeysIn(q.contract_storage_keys)) + 1
    BY <1>0, <2>1, PushKeyLaws
  <2>3. \A x \in Item : Asks(r, x) <=> Asks(q, x) \/ x = item
    BY <2>1, <2>2 DEF Asks
  <2>5. N(r) = N(q) /\ M(r) = M(q) /\ K(r) = K(q) + 1
    BY <2>1, <2>2
  <2> HIDE DEF N, M, K
  <2>6. count_total_keys(r) = count_total_keys(q) + 1
    BY <1>6, <1>7, <2>5
  <2> QED
    BY <2>1, <2>2, <2>3, <2>6
<1>5. (\E c \in Contracts \X Keys : item = StorageKey(c[1], c[2]))
          => \E a \in Contracts, k \in Keys : item = StorageKey(a, k)
  OBVIOUS
<1> QED
  BY <1>2, <1>3, <1>4, <1>5 DEF Item

(* A collected query asks for exactly its items, counts one key for each, and has
   no entry without keys. *)
LEMMA CollectFacts ==
    ASSUME NEW s \in Seq(Item)
    PROVE  /\ collect_query(s) \in Query
           /\ \A x \in Item : Asks(collect_query(s), x) <=> x \in ToSet(s)
           /\ NoneEmpty(collect_query(s).contract_storage_keys)
           /\ count_total_keys(collect_query(s)) = Len(s)
<1> DEFINE Good(q, t) == /\ q \in Query
                         /\ \A x \in Item : Asks(q, x) <=> x \in ToSet(t)
                         /\ NoneEmpty(q.contract_storage_keys)
                         /\ count_total_keys(q) = Len(t)
           P == {t \in Seq(Item) : Good(collect_query(t), t)}
<1>1. <<>> \in P
  <2>1. EmptyQuery \in Query
    BY DEF EmptyQuery, Query
  <2>2. /\ EmptyQuery.class_hashes = <<>> /\ EmptyQuery.contract_addresses = <<>>
        /\ EmptyQuery.contract_storage_keys = <<>>
    BY DEF EmptyQuery
  <2>3. ToSet(<<>>) = {}
    BY ToSetLaws
  <2>4. \A x \in Item : Asks(EmptyQuery, x) <=> x \in ToSet(<<>>)
    BY <2>2, <2>3 DEF Asks, HasCell
  <2>5. NoneEmpty(EmptyQuery.contract_storage_keys)
    BY <2>2 DEF NoneEmpty
  <2>6. KeysIn(<<>>) = <<>>
    <3>1. [i \in DOMAIN <<>> |-> <<>>[i].storage_keys] = <<>>
      OBVIOUS
    <3> QED
      BY <3>1, FlattenLaws DEF KeysIn
  <2>7. count_total_keys(EmptyQuery) = Len(<<>>)
    <3>1. KeysIn(EmptyQuery.contract_storage_keys) = <<>>
      BY <2>2, <2>6, Zenon
    <3>2. /\ Len(EmptyQuery.class_hashes) = 0 /\ Len(EmptyQuery.contract_addresses) = 0
          /\ Len(KeysIn(EmptyQuery.contract_storage_keys)) = 0
      BY <2>2, <3>1
    <3> QED
      BY <3>2 DEF count_total_keys
  <2>8. Good(EmptyQuery, <<>>)
    BY <2>1, <2>4, <2>5, <2>7
  <2>9. collect_query(<<>>) = EmptyQuery
    BY CollectLaws
  <2> HIDE DEF Good
  <2>10. Good(collect_query(<<>>), <<>>)
    BY <2>8, <2>9, Zenon
  <2> QED
    BY <2>10
<1>2. ASSUME NEW t \in P, NEW x \in Item PROVE Append(t, x) \in P
  <2> DEFINE q == collect_query(t)
             r == CollectItem(q, x)
             u == Append(t, x)
  <2>0. t \in Seq(Item) /\ Good(q, t)
    BY <1>2
  <2>1. collect_query(u) = r
    BY <2>0, CollectLaws
  <2>2. u \in Seq(Item) /\ Len(u) = Len(t) + 1
    BY <2>0, AppendProperties
  <2>3. ToSet(u) = ToSet(t) \cup {x}
    BY <2>0, ToSetLaws
  <2>4. /\ r \in Query
        /\ \A y \in Item : Asks(r, y) <=> Asks(q, y) \/ y = x
        /\ NoneEmpty(q.contract_storage_keys) => NoneEmpty(r.contract_storage_keys)
        /\ count_total_keys(r) = count_total_keys(q) + 1
    BY <2>0, CollectItemLaws
  <2> HIDE DEF q, r, u
  <2>5. Good(r, u)
    BY <2>0, <2>2, <2>3, <2>4
  <2>6. u \in P
    <3> HIDE DEF Good
    <3> QED
      BY <2>1, <2>2, <2>5
  <2> QED
    BY <2>6 DEF u
<1>3. P \in SUBSET Seq(Item)
  OBVIOUS
<1>4. s \in P
  <2> HIDE DEF P
  <2> QED
    BY <1>1, <1>2, <1>3, SeqInduction
<1> QED
  BY <1>4

(* The addresses of the items, in their order. *)
Addresses(s) == collect_query(s).contract_addresses

(* Collecting an item adds its address at the end, if it is one of a contract. *)
LEMMA AddressesLaws ==
    /\ Addresses(<<>>) = <<>>
    /\ \A s \in Seq(Item) : Addresses(s) \in Seq(Contracts)
    /\ \A s \in Seq(Item), a \in Contracts :
           Addresses(Append(s, ContractAddress(a))) = Append(Addresses(s), a)
    /\ \A s \in Seq(Item), x \in Item :
           (\A a \in Contracts : x # ContractAddress(a)) => Addresses(Append(s, x)) = Addresses(s)
<1>1. Addresses(<<>>) = <<>>
  <2>1. collect_query(<<>>) = EmptyQuery
    BY CollectLaws
  <2> QED
    BY <2>1 DEF Addresses, EmptyQuery
<1>2. ASSUME NEW s \in Seq(Item) PROVE Addresses(s) \in Seq(Contracts)
  BY CollectFacts DEF Addresses, Query
<1>3. ASSUME NEW s \in Seq(Item), NEW a \in Contracts
      PROVE  Addresses(Append(s, ContractAddress(a))) = Append(Addresses(s), a)
  <2>1. ContractAddress(a) \in Item
    BY DEF Item
  <2>2. collect_query(Append(s, ContractAddress(a))) =
            CollectItem(collect_query(s), ContractAddress(a))
    BY <2>1, CollectLaws
  <2>3. collect_query(s) \in Query
    BY CollectFacts
  <2> QED
    BY <2>2, <2>3, CollectItemFields DEF Addresses
<1>4. ASSUME NEW s \in Seq(Item), NEW x \in Item, \A a \in Contracts : x # ContractAddress(a)
      PROVE  Addresses(Append(s, x)) = Addresses(s)
  <2>2. collect_query(Append(s, x)) = CollectItem(collect_query(s), x)
    BY CollectLaws
  <2>3. collect_query(s) \in Query
    BY CollectFacts
  <2>4. CASE \E h \in Classes : x = ClassHash(h)
    BY <2>2, <2>3, <2>4, CollectItemFields DEF Addresses
  <2>5. CASE \E c \in Contracts \X Keys : x = StorageKey(c[1], c[2])
    <3>1. PICK b \in Contracts, k \in Keys : x = StorageKey(b, k)
      BY <2>5
    <3> QED
      BY <2>2, <2>3, <3>1, CollectItemFields DEF Addresses
  <2> QED
    BY <1>4, <2>4, <2>5 DEF Item
<1> QED
  BY <1>1, <1>2, <1>3, <1>4

(* Appending to the second of two sequences. *)
LEMMA ConcatAppend ==
    ASSUME NEW X, NEW s \in Seq(X), NEW t \in Seq(X), NEW x \in X
    PROVE  s \o Append(t, x) = Append(s \o t, x)
<1>1. Append(t, x) = t \o <<x>> /\ <<x>> \in Seq(X)
  BY AppendIsConcat
<1>2. (s \o t) \o <<x>> = s \o (t \o <<x>>)
  BY <1>1, ConcatAssociative
<1>3. s \o t \in Seq(X)
  BY ConcatProperties
<1>4. Append(s \o t, x) = (s \o t) \o <<x>>
  BY <1>3, AppendIsConcat
<1> QED
  BY <1>1, <1>2, <1>4

(* The addresses of two sequences of items, one after the other. *)
LEMMA AddressesConcat ==
    ASSUME NEW s \in Seq(Item), NEW t \in Seq(Item)
    PROVE  Addresses(s \o t) = Addresses(s) \o Addresses(t)
<1> DEFINE P == {u \in Seq(Item) : Addresses(s \o u) = Addresses(s) \o Addresses(u)}
<1>1. <<>> \in P
  <2>1. s \o <<>> = s
    BY ConcatEmptySeq
  <2>2. Addresses(<<>>) = <<>> /\ Addresses(s) \in Seq(Contracts)
    BY AddressesLaws
  <2>3. Addresses(s) \o <<>> = Addresses(s)
    BY <2>2, ConcatEmptySeq
  <2>4. Addresses(s \o <<>>) = Addresses(s) \o Addresses(<<>>)
    BY <2>1, <2>2, <2>3, Zenon
  <2> QED
    BY <2>4
<1>2. ASSUME NEW u \in P, NEW x \in Item PROVE Append(u, x) \in P
  <2>0. u \in Seq(Item) /\ Addresses(s \o u) = Addresses(s) \o Addresses(u)
    BY <1>2
  <2>1. s \o Append(u, x) = Append(s \o u, x)
    BY <2>0, ConcatAppend
  <2>2. s \o u \in Seq(Item) /\ Append(u, x) \in Seq(Item)
    BY <2>0, ConcatProperties, AppendProperties
  <2>3. Addresses(s) \in Seq(Contracts) /\ Addresses(u) \in Seq(Contracts)
    BY <2>0, AddressesLaws
  <2>4. Addresses(Append(s \o u, x)) = Addresses(s) \o Addresses(Append(u, x))
    <3>1. CASE \E a \in Contracts : x = ContractAddress(a)
      <4>0. PICK a \in Contracts : x = ContractAddress(a)
        BY <3>1
      <4>1. Addresses(Append(s \o u, x)) = Append(Addresses(s \o u), a)
        BY <2>2, <4>0, AddressesLaws
      <4>2. Addresses(Append(u, x)) = Append(Addresses(u), a)
        BY <2>0, <4>0, AddressesLaws
      <4>3. Addresses(s) \o Append(Addresses(u), a) = Append(Addresses(s) \o Addresses(u), a)
        BY <2>3, ConcatAppend
      <4> QED
        BY <2>0, <4>1, <4>2, <4>3
    <3>2. CASE \A a \in Contracts : x # ContractAddress(a)
      <4>1. Addresses(Append(s \o u, x)) = Addresses(s \o u)
        BY <2>2, <3>2, AddressesLaws
      <4>2. Addresses(Append(u, x)) = Addresses(u)
        BY <2>0, <3>2, AddressesLaws
      <4> QED
        BY <2>0, <4>1, <4>2
    <3> QED
      BY <3>1, <3>2
  <2> QED
    BY <2>1, <2>2, <2>4
<1>3. P \in SUBSET Seq(Item)
  OBVIOUS
<1>4. t \in P
  <2> HIDE DEF P
  <2> QED
    BY <1>1, <1>2, <1>3, SeqInduction
<1> QED
  BY <1>4

(* Without contract items there are no addresses. *)
LEMMA NoAddresses ==
    ASSUME NEW s \in Seq(Item),
           \A x \in ToSet(s) : \A a \in Contracts : x # ContractAddress(a)
    PROVE  Addresses(s) = <<>>
<1> DEFINE P == {t \in Seq(Item) :
                     (\A x \in ToSet(t) : \A a \in Contracts : x # ContractAddress(a))
                         => Addresses(t) = <<>>}
<1>1. <<>> \in P
  BY AddressesLaws
<1>2. ASSUME NEW t \in P, NEW x \in Item PROVE Append(t, x) \in P
  <2>0. t \in Seq(Item)
    BY <1>2
  <2>1. ToSet(Append(t, x)) = ToSet(t) \cup {x} /\ Append(t, x) \in Seq(Item)
    BY <2>0, ToSetLaws, AppendProperties
  <2>2. ASSUME \A y \in ToSet(Append(t, x)) : \A a \in Contracts : y # ContractAddress(a)
        PROVE  Addresses(Append(t, x)) = <<>>
    <3>1. Addresses(t) = <<>>
      BY <1>2, <2>1, <2>2
    <3>2. Addresses(Append(t, x)) = Addresses(t)
      BY <2>0, <2>1, <2>2, AddressesLaws
    <3> QED
      BY <3>1, <3>2
  <2> QED
    BY <2>1, <2>2
<1>3. P \in SUBSET Seq(Item)
  OBVIOUS
<1>4. s \in P
  <2> HIDE DEF P
  <2> QED
    BY <1>1, <1>2, <1>3, SeqInduction
<1> QED
  BY <1>4

(* The three lists that flatten_query puts together. *)
ClassItems(hs) == [i \in DOMAIN hs |-> ClassHash(hs[i])]
AddressItems(adr) == [i \in DOMAIN adr |-> ContractAddress(adr[i])]
CellLists(csk) == [i \in DOMAIN csk |-> EntryItems(csk[i])]

(* A cell is an item. *)
LEMMA CellItem ==
    ASSUME NEW a \in Contracts, NEW k \in Keys PROVE StorageKey(a, k) \in Item
<1>1. <<a, k>> \in Contracts \X Keys /\ <<a, k>>[1] = a /\ <<a, k>>[2] = k
  OBVIOUS
<1>2. StorageKey(a, k) = StorageKey(<<a, k>>[1], <<a, k>>[2])
  BY <1>1
<1> QED
  BY <1>1, <1>2 DEF Item

(* One item for each class, contract and key. *)
LEMMA ItemLists ==
    /\ \A hs \in Seq(Classes) :
           /\ ClassItems(hs) \in Seq(Item) /\ Len(ClassItems(hs)) = Len(hs)
           /\ \A i \in 1..Len(hs) : ClassItems(hs)[i] = ClassHash(hs[i])
    /\ \A adr \in Seq(Contracts) :
           /\ AddressItems(adr) \in Seq(Item) /\ Len(AddressItems(adr)) = Len(adr)
           /\ \A i \in 1..Len(adr) : AddressItems(adr)[i] = ContractAddress(adr[i])
    /\ \A e \in Entry :
           /\ EntryItems(e) \in Seq(Item) /\ Len(EntryItems(e)) = Len(e.storage_keys)
           /\ \A i \in 1..Len(e.storage_keys) :
                  EntryItems(e)[i] = StorageKey(e.contract_address, e.storage_keys[i])
    /\ \A csk \in Seq(Entry) :
           /\ CellLists(csk) \in Seq(Seq(Item)) /\ Len(CellLists(csk)) = Len(csk)
           /\ \A i \in 1..Len(csk) : CellLists(csk)[i] = EntryItems(csk[i])
<1>1. ASSUME NEW hs \in Seq(Classes)
      PROVE  /\ ClassItems(hs) \in Seq(Item) /\ Len(ClassItems(hs)) = Len(hs)
             /\ \A i \in 1..Len(hs) : ClassItems(hs)[i] = ClassHash(hs[i])
  <2>1. DOMAIN hs = 1..Len(hs) /\ Len(hs) \in Nat /\ \A i \in 1..Len(hs) : hs[i] \in Classes
    OBVIOUS
  <2>2. \A i \in 1..Len(hs) : ClassHash(hs[i]) \in Item
    BY <2>1 DEF Item
  <2> QED
    BY <2>1, <2>2 DEF ClassItems
<1>2. ASSUME NEW adr \in Seq(Contracts)
      PROVE  /\ AddressItems(adr) \in Seq(Item) /\ Len(AddressItems(adr)) = Len(adr)
             /\ \A i \in 1..Len(adr) : AddressItems(adr)[i] = ContractAddress(adr[i])
  <2>1. DOMAIN adr = 1..Len(adr) /\ Len(adr) \in Nat /\ \A i \in 1..Len(adr) : adr[i] \in Contracts
    OBVIOUS
  <2>2. \A i \in 1..Len(adr) : ContractAddress(adr[i]) \in Item
    BY <2>1 DEF Item
  <2> QED
    BY <2>1, <2>2 DEF AddressItems
<1>3. ASSUME NEW e \in Entry
      PROVE  /\ EntryItems(e) \in Seq(Item) /\ Len(EntryItems(e)) = Len(e.storage_keys)
             /\ \A i \in 1..Len(e.storage_keys) :
                    EntryItems(e)[i] = StorageKey(e.contract_address, e.storage_keys[i])
  <2> DEFINE a == e.contract_address
             ks == e.storage_keys
  <2>0. a \in Contracts /\ ks \in Seq(Keys)
    BY DEF Entry
  <2>1. DOMAIN ks = 1..Len(ks) /\ Len(ks) \in Nat /\ \A i \in 1..Len(ks) : ks[i] \in Keys
    BY <2>0
  <2>2. EntryItems(e) = [i \in DOMAIN ks |-> StorageKey(a, ks[i])]
    BY DEF EntryItems
  <2> HIDE DEF a, ks
  <2>3. ASSUME NEW k \in Keys PROVE StorageKey(a, k) \in Item
    BY <2>0, CellItem
  <2>4. \A i \in 1..Len(ks) : StorageKey(a, ks[i]) \in Item
    BY <2>1, <2>3
  <2>5. /\ EntryItems(e) \in Seq(Item) /\ Len(EntryItems(e)) = Len(ks)
        /\ \A i \in 1..Len(ks) : EntryItems(e)[i] = StorageKey(a, ks[i])
    BY <2>1, <2>2, <2>4
  <2> QED
    BY <2>5 DEF a, ks
<1>4. ASSUME NEW csk \in Seq(Entry)
      PROVE  /\ CellLists(csk) \in Seq(Seq(Item)) /\ Len(CellLists(csk)) = Len(csk)
             /\ \A i \in 1..Len(csk) : CellLists(csk)[i] = EntryItems(csk[i])
  <2>1. DOMAIN csk = 1..Len(csk) /\ Len(csk) \in Nat /\ \A i \in 1..Len(csk) : csk[i] \in Entry
    OBVIOUS
  <2>2. \A i \in 1..Len(csk) : EntryItems(csk[i]) \in Seq(Item)
    BY <1>3, <2>1
  <2> QED
    BY <2>1, <2>2 DEF CellLists
<1> QED
  BY <1>1, <1>2, <1>3, <1>4

(* The addresses of the items of addresses. *)
LEMMA AddressesOfItems ==
    ASSUME NEW adr \in Seq(Contracts)
    PROVE  Addresses(AddressItems(adr)) = adr
<1> DEFINE P == {b \in Seq(Contracts) : Addresses(AddressItems(b)) = b}
<1>1. <<>> \in P
  <2>1. AddressItems(<<>>) = <<>>
    BY DEF AddressItems
  <2>2. Addresses(AddressItems(<<>>)) = <<>>
    BY <2>1, AddressesLaws
  <2> QED
    BY <2>2
<1>2. ASSUME NEW b \in P, NEW a \in Contracts PROVE Append(b, a) \in P
  <2> DEFINE u == Append(b, a)
             v == AddressItems(b)
             w == AddressItems(u)
             z == Append(v, ContractAddress(a))
  <2>0. b \in Seq(Contracts) /\ Addresses(v) = b /\ ContractAddress(a) \in Item
    BY <1>2 DEF Item
  <2>1. /\ u \in Seq(Contracts) /\ Len(u) = Len(b) + 1 /\ Len(b) \in Nat
        /\ u[Len(b) + 1] = a /\ \A i \in 1..Len(b) : u[i] = b[i]
    BY <2>0, AppendProperties
  <2> HIDE DEF u
  <2>2. /\ v \in Seq(Item) /\ Len(v) = Len(b)
        /\ \A i \in 1..Len(b) : v[i] = ContractAddress(b[i])
    BY <2>0, ItemLists
  <2>3. /\ w \in Seq(Item) /\ Len(w) = Len(u)
        /\ \A i \in 1..Len(u) : w[i] = ContractAddress(u[i])
    BY <2>1, ItemLists
  <2> HIDE DEF v, w
  <2>4. /\ z \in Seq(Item) /\ Len(z) = Len(b) + 1 /\ z[Len(b) + 1] = ContractAddress(a)
        /\ \A i \in 1..Len(b) : z[i] = v[i]
    BY <2>0, <2>2, AppendProperties
  <2> HIDE DEF z
  <2>5. ASSUME NEW i \in 1..(Len(b) + 1) PROVE w[i] = z[i]
    <3>1. i \in 1..Len(u) /\ (i \in 1..Len(b) \/ i = Len(b) + 1)
      BY <2>1
    <3> QED
      BY <2>1, <2>2, <2>3, <2>4, <3>1
  <2>6. w = z
    BY <2>1, <2>3, <2>4, <2>5, SeqEqual
  <2>7. Addresses(z) = u
    BY <2>0, <2>2, AddressesLaws DEF z, u
  <2>8. u \in P
    BY <2>1, <2>6, <2>7 DEF w
  <2> QED
    BY <2>8 DEF u
<1>3. P \in SUBSET Seq(Contracts)
  OBVIOUS
<1>4. adr \in P
  <2> HIDE DEF P
  <2> QED
    BY <1>1, <1>2, <1>3, SeqInduction
<1> QED
  BY <1>4

(* flatten_query is the classes, then the addresses, then the cells. *)
LEMMA FlattenQueryForm ==
    ASSUME NEW q
    PROVE  flatten_query(q) = ClassItems(q.class_hashes) \o AddressItems(q.contract_addresses)
                                  \o FlattenSeq(CellLists(q.contract_storage_keys))
BY DEF flatten_query, ClassItems, AddressItems, CellLists

(* The elements of the three lists. *)
LEMMA ListElements ==
    ASSUME NEW q \in Query, NEW x
    PROVE  /\ x \in ToSet(ClassItems(q.class_hashes)) <=>
                  \E h \in ToSet(q.class_hashes) : x = ClassHash(h)
           /\ x \in ToSet(AddressItems(q.contract_addresses)) <=>
                  \E a \in ToSet(q.contract_addresses) : x = ContractAddress(a)
           /\ x \in ToSet(FlattenSeq(CellLists(q.contract_storage_keys))) <=>
                  \E a \in Contracts, k \in Keys :
                      HasCell(q.contract_storage_keys, a, k) /\ x = StorageKey(a, k)
<1> DEFINE hs == q.class_hashes
           adr == q.contract_addresses
           csk == q.contract_storage_keys
<1>0. hs \in Seq(Classes) /\ adr \in Seq(Contracts) /\ csk \in Seq(Entry)
  BY DEF Query, Entry
<1> HIDE DEF hs, adr, csk
<1>1. x \in ToSet(ClassItems(hs)) <=> \E h \in ToSet(hs) : x = ClassHash(h)
  <2>1. /\ ClassItems(hs) \in Seq(Item) /\ Len(ClassItems(hs)) = Len(hs)
        /\ \A i \in 1..Len(hs) : ClassItems(hs)[i] = ClassHash(hs[i])
    BY <1>0, ItemLists
  <2>2. x \in ToSet(ClassItems(hs)) <=> \E i \in 1..Len(hs) : ClassItems(hs)[i] = x
    BY <2>1, ToSetLaws
  <2>3. \A h : h \in ToSet(hs) <=> \E i \in 1..Len(hs) : hs[i] = h
    BY <1>0, ToSetLaws
  <2> QED
    BY <2>1, <2>2, <2>3
<1>2. x \in ToSet(AddressItems(adr)) <=> \E a \in ToSet(adr) : x = ContractAddress(a)
  <2>1. /\ AddressItems(adr) \in Seq(Item) /\ Len(AddressItems(adr)) = Len(adr)
        /\ \A i \in 1..Len(adr) : AddressItems(adr)[i] = ContractAddress(adr[i])
    BY <1>0, ItemLists
  <2>2. x \in ToSet(AddressItems(adr)) <=> \E i \in 1..Len(adr) : AddressItems(adr)[i] = x
    BY <2>1, ToSetLaws
  <2>3. \A a : a \in ToSet(adr) <=> \E i \in 1..Len(adr) : adr[i] = a
    BY <1>0, ToSetLaws
  <2> QED
    BY <2>1, <2>2, <2>3
<1>3. /\ CellLists(csk) \in Seq(Seq(Item)) /\ Len(CellLists(csk)) = Len(csk)
      /\ \A i \in 1..Len(csk) : CellLists(csk)[i] = EntryItems(csk[i])
  BY <1>0, ItemLists
<1>4. x \in ToSet(FlattenSeq(CellLists(csk))) <=>
          \E i \in 1..Len(csk) : x \in ToSet(EntryItems(csk[i]))
  <2>1. x \in ToSet(FlattenSeq(CellLists(csk))) <=>
            \E i \in 1..Len(CellLists(csk)) : x \in ToSet(CellLists(csk)[i])
    BY <1>3, FlattenToSet
  <2> QED
    BY <1>3, <2>1
<1>5. ASSUME NEW i \in 1..Len(csk)
      PROVE  /\ csk[i].contract_address \in Contracts
             /\ ToSet(csk[i].storage_keys) \in SUBSET Keys
             /\ x \in ToSet(EntryItems(csk[i])) <=>
                    \E k \in ToSet(csk[i].storage_keys) :
                        x = StorageKey(csk[i].contract_address, k)
  <2> DEFINE e == csk[i]
  <2>0. e \in Entry
    BY <1>0
  <2> HIDE DEF e
  <2>1. e.contract_address \in Contracts /\ e.storage_keys \in Seq(Keys)
    BY <2>0 DEF Entry
  <2>2. /\ EntryItems(e) \in Seq(Item) /\ Len(EntryItems(e)) = Len(e.storage_keys)
        /\ \A j \in 1..Len(e.storage_keys) :
               EntryItems(e)[j] = StorageKey(e.contract_address, e.storage_keys[j])
    BY <2>0, ItemLists
  <2>3. \A k : k \in ToSet(e.storage_keys) <=> \E j \in 1..Len(e.storage_keys) : e.storage_keys[j] = k
    BY <2>1, ToSetLaws
  <2>4. x \in ToSet(EntryItems(e)) <=> \E j \in 1..Len(e.storage_keys) : EntryItems(e)[j] = x
    BY <2>2, ToSetLaws
  <2>5. ToSet(e.storage_keys) \in SUBSET Keys
    BY <2>1, <2>3
  <2>6. x \in ToSet(EntryItems(e)) <=>
            \E k \in ToSet(e.storage_keys) : x = StorageKey(e.contract_address, k)
    BY <2>2, <2>3, <2>4
  <2> QED
    BY <2>1, <2>5, <2>6 DEF e
<1>6. x \in ToSet(FlattenSeq(CellLists(csk))) <=>
          \E a \in Contracts, k \in Keys : HasCell(csk, a, k) /\ x = StorageKey(a, k)
  <2>1. ASSUME NEW i \in 1..Len(csk), x \in ToSet(EntryItems(csk[i]))
        PROVE  \E a \in Contracts, k \in Keys : HasCell(csk, a, k) /\ x = StorageKey(a, k)
    <3>1. PICK k \in ToSet(csk[i].storage_keys) : x = StorageKey(csk[i].contract_address, k)
      BY <1>5, <2>1
    <3>2. HasCell(csk, csk[i].contract_address, k)
      BY DEF HasCell
    <3> QED
      BY <1>5, <3>1, <3>2
  <2>2. ASSUME NEW a \in Contracts, NEW k \in Keys, HasCell(csk, a, k), x = StorageKey(a, k)
        PROVE  \E i \in 1..Len(csk) : x \in ToSet(EntryItems(csk[i]))
    <3>1. PICK i \in 1..Len(csk) :
              csk[i].contract_address = a /\ k \in ToSet(csk[i].storage_keys)
      BY <2>2 DEF HasCell
    <3> QED
      BY <1>5, <2>2, <3>1
  <2> QED
    BY <1>4, <2>1, <2>2
<1> QED
  BY <1>1, <1>2, <1>6 DEF hs, adr, csk

(* Flattening keeps what a query asks for, and the order of its addresses. *)
LEMMA FlattenQueryFacts ==
    ASSUME NEW q \in Query
    PROVE  /\ flatten_query(q) \in Seq(Item)
           /\ \A x : x \in ToSet(flatten_query(q)) <=> Asks(q, x)
           /\ Addresses(flatten_query(q)) = q.contract_addresses
<1> DEFINE C == ClassItems(q.class_hashes)
           A == AddressItems(q.contract_addresses)
           S == FlattenSeq(CellLists(q.contract_storage_keys))
<1>0. /\ q.class_hashes \in Seq(Classes) /\ q.contract_addresses \in Seq(Contracts)
      /\ q.contract_storage_keys \in Seq(Entry)
  BY DEF Query, Entry
<1>1. C \in Seq(Item) /\ A \in Seq(Item)
  BY <1>0, ItemLists
<1>2. S \in Seq(Item)
  <2>1. CellLists(q.contract_storage_keys) \in Seq(Seq(Item))
    BY <1>0, ItemLists
  <2> QED
    BY <2>1, FlattenLaws
<1>3. flatten_query(q) = (C \o A) \o S
  BY FlattenQueryForm
<1>4. \A x : /\ x \in ToSet(C) <=> \E h \in ToSet(q.class_hashes) : x = ClassHash(h)
             /\ x \in ToSet(A) <=> \E a \in ToSet(q.contract_addresses) : x = ContractAddress(a)
             /\ x \in ToSet(S) <=>
                    \E a \in Contracts, k \in Keys :
                        HasCell(q.contract_storage_keys, a, k) /\ x = StorageKey(a, k)
  BY ListElements
<1>5. Addresses(A) = q.contract_addresses
  BY <1>0, AddressesOfItems
<1> HIDE DEF C, A, S
<1>6. C \o A \in Seq(Item) /\ (C \o A) \o S \in Seq(Item)
  BY <1>1, <1>2, ConcatProperties
<1>7. ToSet((C \o A) \o S) = ToSet(C) \cup ToSet(A) \cup ToSet(S)
  <2>1. ToSet(C \o A) = ToSet(C) \cup ToSet(A)
    BY <1>1, ToSetLaws
  <2>2. ToSet((C \o A) \o S) = ToSet(C \o A) \cup ToSet(S)
    <3> DEFINE D == C \o A
    <3>1. D \in Seq(Item)
      BY <1>6
    <3> HIDE DEF D
    <3>2. ToSet(D \o S) = ToSet(D) \cup ToSet(S)
      BY <1>2, <3>1, ToSetLaws
    <3> QED
      BY <3>2 DEF D
  <2> QED
    BY <2>1, <2>2
<1>8. \A x : x \in ToSet(flatten_query(q)) <=> Asks(q, x)
  BY <1>3, <1>4, <1>7 DEF Asks
<1>9. Addresses(C) = <<>> /\ Addresses(S) = <<>>
  BY <1>1, <1>2, <1>4, NoAddresses, ItemsDiffer
<1>10. Addresses((C \o A) \o S) = (Addresses(C) \o Addresses(A)) \o Addresses(S)
  <2>1. Addresses(C \o A) = Addresses(C) \o Addresses(A)
    BY <1>1, AddressesConcat
  <2>2. Addresses((C \o A) \o S) = Addresses(C \o A) \o Addresses(S)
    BY <1>2, <1>6, AddressesConcat
  <2> QED
    BY <2>1, <2>2
<1>11. (<<>> \o q.contract_addresses) \o <<>> = q.contract_addresses
  BY <1>0, ConcatEmptySeq
<1>12. Addresses((C \o A) \o S) = q.contract_addresses
  BY <1>5, <1>9, <1>10, <1>11, Zenon
<1> QED
  BY <1>3, <1>6, <1>8, <1>12

(* A query that repeats no class, no address and no key of a contract. *)
RepeatsNothing(q) ==
    /\ IsInjective(q.class_hashes)
    /\ IsInjective(q.contract_addresses)
    /\ \A i \in 1..Len(q.contract_storage_keys) :
           IsInjective(q.contract_storage_keys[i].storage_keys)
    /\ \A i, j \in 1..Len(q.contract_storage_keys) :
           q.contract_storage_keys[i].contract_address =
               q.contract_storage_keys[j].contract_address => i = j

(* Its items repeat nothing. *)
LEMMA FlattenQueryInjective ==
    ASSUME NEW q \in Query, RepeatsNothing(q)
    PROVE  IsInjective(flatten_query(q))
<1> DEFINE hs == q.class_hashes
           adr == q.contract_addresses
           csk == q.contract_storage_keys
           C == ClassItems(hs)
           A == AddressItems(adr)
           L == CellLists(csk)
           S == FlattenSeq(L)
<1>0. hs \in Seq(Classes) /\ adr \in Seq(Contracts) /\ csk \in Seq(Entry)
  BY DEF Query, Entry
<1>1. /\ IsInjective(hs) /\ IsInjective(adr)
      /\ \A i \in 1..Len(csk) : IsInjective(csk[i].storage_keys)
      /\ \A i, j \in 1..Len(csk) : csk[i].contract_address = csk[j].contract_address => i = j
  BY DEF RepeatsNothing
<1>2. flatten_query(q) = (C \o A) \o S
  BY FlattenQueryForm
<1>3. \A x : /\ x \in ToSet(C) <=> \E h \in ToSet(hs) : x = ClassHash(h)
             /\ x \in ToSet(A) <=> \E a \in ToSet(adr) : x = ContractAddress(a)
             /\ x \in ToSet(S) <=>
                    \E a \in Contracts, k \in Keys : HasCell(csk, a, k) /\ x = StorageKey(a, k)
  BY ListElements
<1> HIDE DEF hs, adr, csk
<1>4. IsInjective(C) /\ C \in Seq(Item)
  <2>0. /\ C \in Seq(Item) /\ Len(C) = Len(hs)
        /\ \A i \in 1..Len(hs) : C[i] = ClassHash(hs[i])
    BY <1>0, ItemLists
  <2> HIDE DEF C
  <2>1. DOMAIN C = 1..Len(hs) /\ DOMAIN hs = 1..Len(hs)
    BY <1>0, <2>0, LenProperties, Zenon
  <2>2. ASSUME NEW i \in 1..Len(hs), NEW j \in 1..Len(hs), C[i] = C[j] PROVE i = j
    <3>1. hs[i] = hs[j]
      BY <2>0, <2>2, ItemsDiffer
    <3> QED
      BY <1>1, <2>1, <3>1 DEF IsInjective
  <2> QED
    BY <2>0, <2>1, <2>2 DEF IsInjective
<1>5. IsInjective(A) /\ A \in Seq(Item)
  <2>0. /\ A \in Seq(Item) /\ Len(A) = Len(adr)
        /\ \A i \in 1..Len(adr) : A[i] = ContractAddress(adr[i])
    BY <1>0, ItemLists
  <2> HIDE DEF A
  <2>1. DOMAIN A = 1..Len(adr) /\ DOMAIN adr = 1..Len(adr)
    BY <1>0, <2>0, LenProperties, Zenon
  <2>2. ASSUME NEW i \in 1..Len(adr), NEW j \in 1..Len(adr), A[i] = A[j] PROVE i = j
    <3>1. adr[i] = adr[j]
      BY <2>0, <2>2, ItemsDiffer
    <3> QED
      BY <1>1, <2>1, <3>1 DEF IsInjective
  <2> QED
    BY <2>0, <2>1, <2>2 DEF IsInjective
<1>6. /\ L \in Seq(Seq(Item)) /\ Len(L) = Len(csk)
      /\ \A i \in 1..Len(csk) : L[i] = EntryItems(csk[i])
  BY <1>0, ItemLists
<1>7. ASSUME NEW i \in 1..Len(csk)
      PROVE  /\ EntryItems(csk[i]) \in Seq(Item)
             /\ IsInjective(EntryItems(csk[i]))
             /\ \A x \in ToSet(EntryItems(csk[i])) :
                    \E k : x = StorageKey(csk[i].contract_address, k)
  <2> DEFINE e == csk[i]
             E == EntryItems(e)
             ks == e.storage_keys
  <2>0. e \in Entry /\ IsInjective(ks)
    BY <1>0, <1>1
  <2>1. ks \in Seq(Keys)
    BY <2>0 DEF Entry
  <2> HIDE DEF e
  <2>2. /\ E \in Seq(Item) /\ Len(E) = Len(ks)
        /\ \A j \in 1..Len(ks) : E[j] = StorageKey(e.contract_address, ks[j])
    BY <2>0, ItemLists
  <2> HIDE DEF E, ks
  <2>3. DOMAIN E = 1..Len(ks) /\ DOMAIN ks = 1..Len(ks)
    BY <2>1, <2>2
  <2>4. ASSUME NEW j \in 1..Len(ks), NEW l \in 1..Len(ks), E[j] = E[l] PROVE j = l
    <3>1. ks[j] = ks[l]
      BY <2>2, <2>4, ItemsDiffer
    <3> QED
      BY <2>0, <2>3, <3>1 DEF IsInjective
  <2>5. IsInjective(E)
    BY <2>3, <2>4 DEF IsInjective
  <2>6. \A x \in ToSet(E) : \E k : x = StorageKey(e.contract_address, k)
    BY <2>2, <2>3 DEF ToSet
  <2> QED
    BY <2>2, <2>5, <2>6 DEF e, E
<1> HIDE DEF L
<1>8. Distinct(L)
  <2>1. ASSUME NEW i \in 1..Len(csk), NEW j \in 1..Len(csk), i # j
        PROVE  ToSet(L[i]) \cap ToSet(L[j]) = {}
    <3>1. ASSUME NEW x, x \in ToSet(L[i]), x \in ToSet(L[j]) PROVE FALSE
      <4>1. PICK k : x = StorageKey(csk[i].contract_address, k)
        BY <1>6, <1>7, <3>1
      <4>2. PICK l : x = StorageKey(csk[j].contract_address, l)
        BY <1>6, <1>7, <3>1
      <4> DEFINE a == csk[i].contract_address
                 b == csk[j].contract_address
      <4>3. StorageKey(a, k) = StorageKey(b, l)
        BY <4>1, <4>2
      <4> HIDE DEF a, b
      <4>4. a = b
        BY <4>3, ItemsDiffer
      <4> QED
        BY <1>1, <2>1, <4>4 DEF a, b
    <3> QED
      BY <3>1
  <2>2. \A i \in 1..Len(L) : IsInjective(L[i])
    BY <1>6, <1>7
  <2> QED
    BY <1>6, <2>1, <2>2 DEF Distinct
<1>9. IsInjective(S) /\ S \in Seq(Item)
  BY <1>6, <1>8, FlattenInjective, FlattenLaws
<1> HIDE DEF C, A, S
<1>10. ToSet(C) \cap ToSet(A) = {}
  BY <1>3, ItemsDiffer
<1>11. C \o A \in Seq(Item) /\ IsInjective(C \o A)
  BY <1>4, <1>5, <1>10, ConcatProperties, ConcatInjective
<1>12. ToSet(C \o A) = ToSet(C) \cup ToSet(A)
  BY <1>4, <1>5, ToSetLaws
<1>13. ToSet(C \o A) \cap ToSet(S) = {}
  <2>1. ASSUME NEW x, x \in ToSet(C \o A), x \in ToSet(S) PROVE FALSE
    <3>1. PICK a \in Contracts, k \in Keys : x = StorageKey(a, k)
      BY <1>3, <2>1
    <3>2. x \in ToSet(C) \/ x \in ToSet(A)
      BY <1>12, <2>1
    <3>3. (\E h : x = ClassHash(h)) \/ (\E b : x = ContractAddress(b))
      BY <1>3, <3>2
    <3> QED
      BY <3>1, <3>3, ItemsDiffer
  <2> QED
    BY <2>1
<1>14. IsInjective((C \o A) \o S)
  BY <1>9, <1>11, <1>13, ConcatInjective
<1> QED
  BY <1>2, <1>14

-----------------------------------------------------------------------------
(* Splitting. *)

(* The last item of chunk c, of n items in chunks of max. *)
UpTo(c, n, max) == IF c * max < n THEN c * max ELSE n

(* The chunks are adjacent, not empty, at most max long, and end with the items. *)
LEMMA ChunkBounds ==
    ASSUME NEW n \in Nat, NEW max \in Nat \ {0}
    PROVE  /\ ChunkCount(n, max) \in Nat
           /\ n # 0 => ChunkCount(n, max) # 0
           /\ UpTo(0, n, max) = 0
           /\ UpTo(ChunkCount(n, max), n, max) = n
           /\ \A c \in 1..ChunkCount(n, max) :
                  /\ UpTo(c - 1, n, max) = (c - 1) * max
                  /\ UpTo(c - 1, n, max) < UpTo(c, n, max)
                  /\ UpTo(c, n, max) <= UpTo(c - 1, n, max) + max
                  /\ UpTo(c, n, max) \in 0..n /\ UpTo(c - 1, n, max) \in 0..n
<1> DEFINE C == ChunkCount(n, max)
<1>0. C \in Nat /\ C * max <= n + max - 1 /\ n + max - 1 < C * max + max
  <2>1. n + max - 1 \in Nat
    OBVIOUS
  <2> DEFINE m == n + max - 1
  <2> HIDE DEF m
  <2>2. m \div max \in Nat /\ (m \div max) * max <= m /\ m < (m \div max) * max + max
    BY <2>1 DEF m
  <2> QED
    BY <2>2 DEF m, ChunkCount
<1> HIDE DEF C
<1>1. n # 0 => C # 0
  BY <1>0
<1>2. UpTo(0, n, max) = 0
  BY DEF UpTo
<1>3. UpTo(C, n, max) = n
  <2>1. C * max \in Nat /\ ~(C * max < n)
    BY <1>0
  <2> QED
    BY <2>1 DEF UpTo
<1>4. ASSUME NEW c \in 1..C
      PROVE  /\ UpTo(c - 1, n, max) = (c - 1) * max
             /\ UpTo(c - 1, n, max) < UpTo(c, n, max)
             /\ UpTo(c, n, max) <= UpTo(c - 1, n, max) + max
             /\ UpTo(c, n, max) \in 0..n /\ UpTo(c - 1, n, max) \in 0..n
  <2>0. c \in Nat /\ c - 1 \in Nat /\ c <= C /\ (c - 1) * max \in Nat
    BY <1>0, <1>4
  <2>1. c * max = (c - 1) * max + max
    BY <2>0
  <2>2. c * max <= C * max
    BY <1>0, <2>0
  <2>3. (c - 1) * max < n
    BY <1>0, <2>0, <2>1, <2>2
  <2> DEFINE x == (c - 1) * max
  <2>4. x \in Nat /\ x < n /\ c * max = x + max
    BY <2>0, <2>1, <2>3
  <2> HIDE DEF x
  <2>5. UpTo(c - 1, n, max) = x /\ UpTo(c, n, max) = IF x + max < n THEN x + max ELSE n
    BY <2>4 DEF UpTo, x
  <2>6. /\ UpTo(c - 1, n, max) < UpTo(c, n, max)
        /\ UpTo(c, n, max) <= UpTo(c - 1, n, max) + max
        /\ UpTo(c, n, max) \in 0..n /\ UpTo(c - 1, n, max) \in 0..n
    BY <2>4, <2>5
  <2> QED
    BY <2>5, <2>6 DEF x
<1> QED
  BY <1>0, <1>1, <1>2, <1>3, <1>4 DEF C

(* A chunk ends before a later one begins. *)
LEMMA ChunksOrdered ==
    ASSUME NEW n \in Nat, NEW max \in Nat \ {0},
           NEW c \in 1..ChunkCount(n, max), NEW d \in 1..ChunkCount(n, max), c < d
    PROVE  UpTo(c, n, max) <= UpTo(d - 1, n, max)
<1>1. UpTo(d - 1, n, max) = (d - 1) * max /\ UpTo(c - 1, n, max) = (c - 1) * max
  BY ChunkBounds
<1>2. UpTo(c, n, max) <= UpTo(c - 1, n, max) + max
  BY ChunkBounds
<1>3. UpTo(c, n, max) \in Nat
  BY ChunkBounds
<1>4. c \in Nat /\ d \in Nat /\ c - 1 \in Nat /\ d - 1 \in Nat /\ c <= d - 1
  BY ChunkBounds
<1>5. (c - 1) * max + max = c * max /\ c * max <= (d - 1) * max
  BY <1>4
<1>6. (c - 1) * max \in Nat /\ (d - 1) * max \in Nat /\ c * max \in Nat
  BY <1>4
<1> QED
  BY <1>1, <1>2, <1>3, <1>5, <1>6

(* Every position is in a chunk. *)
LEMMA ChunksCover ==
    ASSUME NEW n \in Nat, NEW max \in Nat \ {0}, NEW i \in 1..n
    PROVE  \E c \in 1..ChunkCount(n, max) : i \in (UpTo(c - 1, n, max) + 1)..UpTo(c, n, max)
<1> DEFINE C == ChunkCount(n, max)
           T == {c \in 0..C : i <= UpTo(c, n, max)}
<1>0. C \in Nat /\ UpTo(0, n, max) = 0 /\ UpTo(C, n, max) = n
  BY ChunkBounds
<1>1. C \in T /\ T \in SUBSET Nat /\ 0 \notin T
  BY <1>0
<1>2. PICK c \in T : \A d \in T : c <= d
  <2> HIDE DEF T
  <2> QED
    BY <1>1, Least
<1>3. c \in 1..C /\ c - 1 \in 0..C /\ i <= UpTo(c, n, max)
  BY <1>0, <1>1, <1>2
<1>4. ~(i <= UpTo(c - 1, n, max))
  BY <1>2, <1>3
<1>5. UpTo(c, n, max) \in Nat /\ UpTo(c - 1, n, max) \in Nat
  BY <1>3, ChunkBounds
<1>6. i \in (UpTo(c - 1, n, max) + 1)..UpTo(c, n, max)
  BY <1>3, <1>4, <1>5
<1> QED
  BY <1>3, <1>6

(* The items of chunk c. *)
Part(items, c, max) ==
    SubSeq(items, UpTo(c - 1, Len(items), max) + 1, UpTo(c, Len(items), max))

(* A chunk has between one and max items, those at its positions. *)
LEMMA PartFacts ==
    ASSUME NEW items \in Seq(Item), NEW max \in Nat \ {0},
           NEW c \in 1..ChunkCount(Len(items), max)
    PROVE  /\ Part(items, c, max) \in Seq(Item)
           /\ Len(Part(items, c, max)) \in 1..max
           /\ \A x : x \in ToSet(Part(items, c, max)) <=>
                  \E i \in (UpTo(c - 1, Len(items), max) + 1)..UpTo(c, Len(items), max) :
                      items[i] = x
<1> DEFINE n == Len(items)
           lo == UpTo(c - 1, n, max)
           hi == UpTo(c, n, max)
           p == Part(items, c, max)
<1>0. n \in Nat
  OBVIOUS
<1>1. lo \in 0..n /\ hi \in 0..n /\ lo < hi /\ hi <= lo + max
  BY <1>0, ChunkBounds
<1>2. p = SubSeq(items, lo + 1, hi)
  BY DEF Part
<1> HIDE DEF n, lo, hi, p
<1>3. lo + 1 \in Int /\ hi \in Int /\ \A i \in (lo + 1)..hi : i \in 1..n
  BY <1>0, <1>1
<1>4. \A i \in (lo + 1)..hi : items[i] \in Item
  BY <1>3 DEF n
<1>5. /\ p \in Seq(Item)
      /\ Len(p) = IF lo + 1 <= hi THEN hi - (lo + 1) + 1 ELSE 0
      /\ \A i \in 1..(hi - (lo + 1) + 1) : p[i] = items[(lo + 1) + i - 1]
  BY <1>2, <1>3, <1>4, SubSeqProperties
<1>6. Len(p) = hi - lo /\ Len(p) \in 1..max
  BY <1>0, <1>1, <1>5
<1>7. \A i \in 1..(hi - lo) : p[i] = items[lo + i]
  <2> TAKE i \in 1..(hi - lo)
  <2>1. i \in 1..(hi - (lo + 1) + 1) /\ (lo + 1) + i - 1 = lo + i
    BY <1>1
  <2> QED
    BY <1>5, <2>1
<1>8. ASSUME NEW x PROVE x \in ToSet(p) <=> \E i \in (lo + 1)..hi : items[i] = x
  <2>1. x \in ToSet(p) <=> \E i \in 1..(hi - lo) : p[i] = x
    BY <1>5, <1>6, ToSetLaws
  <2>2. ASSUME NEW i \in 1..(hi - lo), p[i] = x PROVE \E j \in (lo + 1)..hi : items[j] = x
    <3>1. lo + i \in (lo + 1)..hi /\ items[lo + i] = x
      BY <1>1, <1>7, <2>2
    <3> QED
      BY <3>1
  <2>3. ASSUME NEW j \in (lo + 1)..hi, items[j] = x PROVE \E i \in 1..(hi - lo) : p[i] = x
    <3>1. j - lo \in 1..(hi - lo) /\ lo + (j - lo) = j
      BY <1>1
    <3>2. p[j - lo] = items[lo + (j - lo)]
      BY <1>7, <3>1
    <3> QED
      BY <2>3, <3>1, <3>2
  <2> QED
    BY <2>1, <2>2, <2>3
<1> QED
  BY <1>5, <1>6, <1>8 DEF p, lo, hi, n

(* Together the chunks have every item. *)
LEMMA PartsCover ==
    ASSUME NEW items \in Seq(Item), NEW max \in Nat \ {0}, NEW x
    PROVE  x \in ToSet(items) <=>
               \E c \in 1..ChunkCount(Len(items), max) : x \in ToSet(Part(items, c, max))
<1> DEFINE n == Len(items)
           C == ChunkCount(n, max)
<1>0. n \in Nat /\ C \in Nat
  <2>1. n \in Nat
    OBVIOUS
  <2> QED
    BY <2>1, ChunkBounds
<1>1. x \in ToSet(items) <=> \E i \in 1..n : items[i] = x
  BY ToSetLaws
<1>2. ASSUME NEW i \in 1..n, items[i] = x PROVE \E c \in 1..C : x \in ToSet(Part(items, c, max))
  <2>1. PICK c \in 1..C : i \in (UpTo(c - 1, n, max) + 1)..UpTo(c, n, max)
    BY <1>0, ChunksCover
  <2>2. x \in ToSet(Part(items, c, max))
    BY <1>2, <2>1, PartFacts
  <2> QED
    BY <2>2
<1>3. ASSUME NEW c \in 1..C, x \in ToSet(Part(items, c, max)) PROVE \E i \in 1..n : items[i] = x
  <2>1. PICK i \in (UpTo(c - 1, n, max) + 1)..UpTo(c, n, max) : items[i] = x
    BY <1>3, PartFacts
  <2>2. UpTo(c - 1, n, max) \in 0..n /\ UpTo(c, n, max) \in 0..n
    BY <1>0, ChunkBounds
  <2>3. i \in 1..n
    BY <1>0, <2>1, <2>2
  <2> QED
    BY <2>1, <2>3
<1> QED
  BY <1>1, <1>2, <1>3

(* And an item that is there once is in one chunk. *)
LEMMA PartsDisjoint ==
    ASSUME NEW items \in Seq(Item), NEW max \in Nat \ {0}, IsInjective(items),
           NEW c \in 1..ChunkCount(Len(items), max), NEW d \in 1..ChunkCount(Len(items), max),
           c # d, NEW x
    PROVE  ~(x \in ToSet(Part(items, c, max)) /\ x \in ToSet(Part(items, d, max)))
<1> DEFINE n == Len(items)
           C == ChunkCount(n, max)
<1>0. n \in Nat /\ C \in Nat /\ DOMAIN items = 1..n
  <2>1. n \in Nat /\ DOMAIN items = 1..n
    OBVIOUS
  <2> QED
    BY <2>1, ChunkBounds
<1>1. SUFFICES ASSUME x \in ToSet(Part(items, c, max)), x \in ToSet(Part(items, d, max))
               PROVE  FALSE
  OBVIOUS
<1>2. PICK i \in (UpTo(c - 1, n, max) + 1)..UpTo(c, n, max) : items[i] = x
  BY <1>1, PartFacts
<1>3. PICK j \in (UpTo(d - 1, n, max) + 1)..UpTo(d, n, max) : items[j] = x
  BY <1>1, PartFacts
<1>4. /\ UpTo(c - 1, n, max) \in 0..n /\ UpTo(c, n, max) \in 0..n
      /\ UpTo(d - 1, n, max) \in 0..n /\ UpTo(d, n, max) \in 0..n
  BY <1>0, ChunkBounds
<1>5. i \in 1..n /\ j \in 1..n
  BY <1>0, <1>2, <1>3, <1>4
<1>6. i = j
  BY <1>0, <1>2, <1>3, <1>5 DEF IsInjective
<1>7. UpTo(c, n, max) <= UpTo(d - 1, n, max) \/ UpTo(d, n, max) <= UpTo(c - 1, n, max)
  <2>1. c < d \/ d < c
    BY <1>0
  <2> QED
    BY <1>0, <2>1, ChunksOrdered
<1> QED
  BY <1>2, <1>3, <1>4, <1>6, <1>7

-----------------------------------------------------------------------------
(* The query of a block. *)

(* It asks for what was read, each once: the classes, the addresses in order, and
   an entry for every address, at its index, with the keys that were read. *)
LEMMA PrepareFacts ==
    ASSUME NEW reads \in Reads
    PROVE  /\ prepare_query(reads) \in Query
           /\ RepeatsNothing(prepare_query(reads))
           /\ ToSet(prepare_query(reads).class_hashes) = reads.classes
           /\ ToSet(prepare_query(reads).contract_addresses) = reads.addresses
           /\ Len(prepare_query(reads).contract_storage_keys)
                  = Len(prepare_query(reads).contract_addresses)
           /\ \A i \in 1..Len(prepare_query(reads).contract_addresses) :
                  /\ prepare_query(reads).contract_storage_keys[i].contract_address
                         = prepare_query(reads).contract_addresses[i]
                  /\ ToSet(prepare_query(reads).contract_storage_keys[i].storage_keys)
                         = {k \in Keys : <<prepare_query(reads).contract_addresses[i], k>>
                                             \in reads.storage}
<1> DEFINE q == prepare_query(reads)
           hs == SetToSeq(reads.classes)
           adr == Sorted(reads.addresses)
           csk == [i \in DOMAIN adr |->
                      [contract_address |-> adr[i], storage_keys |-> KeysOf(reads, adr[i])]]
<1>0. /\ reads.classes \in SUBSET Classes /\ reads.addresses \in SUBSET Contracts
      /\ reads.storage \in SUBSET (Contracts \X Keys)
  BY DEF Reads
<1>1. q = [class_hashes |-> hs, contract_addresses |-> adr, contract_storage_keys |-> csk]
  BY DEF prepare_query
<1>2. q.class_hashes = hs /\ q.contract_addresses = adr /\ q.contract_storage_keys = csk
  BY <1>1
<1>3. Enumerates(hs, reads.classes)
  <2>1. IsFiniteSet(reads.classes)
    BY <1>0, ProofsAssumption, FS_Subset
  <2> QED
    BY <2>1, SetToSeqEnumerates
<1>4. Enumerates(adr, reads.addresses)
  <2>1. IsFiniteSet(reads.addresses) /\ reads.addresses \in SUBSET Nat
    BY <1>0, ProofsAssumption, FS_Subset
  <2> QED
    BY <2>1, SortedEnumerates
<1>5. ASSUME NEW a
      PROVE  Enumerates(KeysOf(reads, a), {k \in Keys : <<a, k>> \in reads.storage})
  <2> DEFINE S == {k \in Keys : <<a, k>> \in reads.storage}
  <2>1. S \subseteq Keys
    OBVIOUS
  <2>2. IsFiniteSet(S)
    <3> HIDE DEF S
    <3> QED
      BY <2>1, ProofsAssumption, FS_Subset
  <2>3. KeysOf(reads, a) = SetToSeq(S)
    BY DEF KeysOf
  <2> HIDE DEF S
  <2>4. Enumerates(KeysOf(reads, a), S)
    BY <2>2, <2>3, SetToSeqEnumerates
  <2> QED
    BY <2>4 DEF S
<1>6. /\ hs \in Seq(Classes) /\ IsInjective(hs) /\ ToSet(hs) = reads.classes
      /\ adr \in Seq(Contracts) /\ IsInjective(adr) /\ ToSet(adr) = reads.addresses
  BY <1>0, <1>3, <1>4, SeqMonotonic DEF Enumerates
<1>7. ASSUME NEW a
      PROVE  /\ KeysOf(reads, a) \in Seq(Keys) /\ IsInjective(KeysOf(reads, a))
             /\ ToSet(KeysOf(reads, a)) = {k \in Keys : <<a, k>> \in reads.storage}
  <2>1. {k \in Keys : <<a, k>> \in reads.storage} \subseteq Keys
    OBVIOUS
  <2> QED
    BY <1>5, <2>1, SeqMonotonic DEF Enumerates
<1> HIDE DEF hs, adr
<1>8. DOMAIN adr = 1..Len(adr) /\ Len(adr) \in Nat /\ \A i \in 1..Len(adr) : adr[i] \in Contracts
  BY <1>6
<1>9. ASSUME NEW i \in 1..Len(adr)
      PROVE  /\ csk[i] = [contract_address |-> adr[i], storage_keys |-> KeysOf(reads, adr[i])]
             /\ csk[i].contract_address = adr[i] /\ csk[i].storage_keys = KeysOf(reads, adr[i])
             /\ csk[i] \in Entry
  <2>1. csk[i] = [contract_address |-> adr[i], storage_keys |-> KeysOf(reads, adr[i])]
    BY <1>8
  <2> QED
    BY <1>7, <1>8, <2>1 DEF Entry
<1>10. csk \in Seq(Entry) /\ Len(csk) = Len(adr)
  <2>1. csk \in [1..Len(adr) -> Entry]
    BY <1>8, <1>9
  <2> HIDE DEF csk
  <2> QED
    BY <1>8, <2>1
<1> HIDE DEF csk
<1>11. q \in Query
  BY <1>1, <1>6, <1>10 DEF Query, Entry
<1> HIDE DEF q
<1>12. RepeatsNothing(q)
  <2>1. \A i \in 1..Len(csk) : IsInjective(csk[i].storage_keys)
    BY <1>7, <1>9, <1>10
  <2>2. ASSUME NEW i \in 1..Len(csk), NEW j \in 1..Len(csk),
               csk[i].contract_address = csk[j].contract_address
        PROVE  i = j
    <3>1. i \in 1..Len(adr) /\ j \in 1..Len(adr)
      BY <1>10
    <3>2. csk[i].contract_address = adr[i] /\ csk[j].contract_address = adr[j]
      BY <1>9, <3>1
    <3>3. adr[i] = adr[j] /\ i \in DOMAIN adr /\ j \in DOMAIN adr
      BY <1>8, <2>2, <3>1, <3>2
    <3> QED
      BY <1>6, <3>3 DEF IsInjective
  <2> QED
    BY <1>2, <1>6, <2>1, <2>2 DEF RepeatsNothing
<1>13. \A i \in 1..Len(adr) :
           /\ csk[i].contract_address = adr[i]
           /\ ToSet(csk[i].storage_keys) = {k \in Keys : <<adr[i], k>> \in reads.storage}
  BY <1>7, <1>9
<1>14. /\ ToSet(q.class_hashes) = reads.classes
       /\ ToSet(q.contract_addresses) = reads.addresses
       /\ Len(q.contract_storage_keys) = Len(q.contract_addresses)
  BY <1>2, <1>6, <1>10
<1>15. \A i \in 1..Len(q.contract_addresses) :
           /\ q.contract_storage_keys[i].contract_address = q.contract_addresses[i]
           /\ ToSet(q.contract_storage_keys[i].storage_keys)
                  = {k \in Keys : <<q.contract_addresses[i], k>> \in reads.storage}
  BY <1>2, <1>13
<1> QED
  BY <1>11, <1>12, <1>14, <1>15 DEF q

(* The cells it asks for are those that were read. *)
LEMMA PreparedCells ==
    ASSUME NEW reads \in Reads, NEW a, NEW k
    PROVE  HasCell(prepare_query(reads).contract_storage_keys, a, k) <=> <<a, k>> \in reads.storage
<1> DEFINE q == prepare_query(reads)
           adr == q.contract_addresses
           csk == q.contract_storage_keys
<1>1. /\ adr \in Seq(Contracts) /\ ToSet(adr) = reads.addresses /\ Len(csk) = Len(adr)
      /\ \A i \in 1..Len(adr) :
             /\ csk[i].contract_address = adr[i]
             /\ ToSet(csk[i].storage_keys) = {j \in Keys : <<adr[i], j>> \in reads.storage}
  BY PrepareFacts DEF Query
<1> HIDE DEF q, adr, csk
<1>2. ASSUME HasCell(csk, a, k) PROVE <<a, k>> \in reads.storage
  <2>1. PICK i \in 1..Len(adr) : csk[i].contract_address = a /\ k \in ToSet(csk[i].storage_keys)
    BY <1>1, <1>2 DEF HasCell
  <2> QED
    BY <1>1, <2>1
<1>3. ASSUME <<a, k>> \in reads.storage PROVE HasCell(csk, a, k)
  <2>1. a \in reads.addresses /\ k \in Keys
    <3>1. <<a, k>> \in Contracts \X Keys /\ <<a, k>>[1] \in reads.addresses
      BY <1>3 DEF Reads
    <3> QED
      BY <3>1
  <2>2. PICK i \in 1..Len(adr) : adr[i] = a
    BY <1>1, <2>1, ToSetLaws
  <2>3. csk[i].contract_address = a /\ k \in ToSet(csk[i].storage_keys)
    BY <1>1, <1>3, <2>1, <2>2
  <2> QED
    BY <1>1, <2>3 DEF HasCell
<1> QED
  BY <1>2, <1>3 DEF q, csk

(* A query that counts no keys, or has no items, is the empty one. *)
LEMMA PreparedEmpty ==
    ASSUME NEW reads \in Reads,
           \/ count_total_keys(prepare_query(reads)) = 0
           \/ Len(flatten_query(prepare_query(reads))) = 0
    PROVE  prepare_query(reads) = EmptyQuery /\ count_total_keys(prepare_query(reads)) = 0
<1> DEFINE q == prepare_query(reads)
           hs == q.class_hashes
           adr == q.contract_addresses
           csk == q.contract_storage_keys
           keys == KeysIn(csk)
<1>0. q \in Query /\ Len(csk) = Len(adr)
  BY PrepareFacts
<1>1. hs \in Seq(Classes) /\ adr \in Seq(Contracts) /\ csk \in Seq(Entry)
  BY <1>0 DEF Query, Entry
<1>2. keys \in Seq(Keys)
  <2>1. DOMAIN csk = 1..Len(csk) /\ Len(csk) \in Nat /\ \A i \in 1..Len(csk) : csk[i] \in Entry
    BY <1>1
  <2>2. \A i \in 1..Len(csk) : csk[i].storage_keys \in Seq(Keys)
    BY <2>1 DEF Entry
  <2>3. [i \in DOMAIN csk |-> csk[i].storage_keys] \in Seq(Seq(Keys))
    <3> HIDE DEF csk
    <3> QED
      BY <2>1, <2>2
  <2>4. FlattenSeq([i \in DOMAIN csk |-> csk[i].storage_keys]) \in Seq(Keys)
    BY <2>3, FlattenLaws
  <2> QED
    BY <2>4 DEF KeysIn
<1>3. q = [class_hashes |-> hs, contract_addresses |-> adr, contract_storage_keys |-> csk]
  BY DEF prepare_query
<1>4. count_total_keys(q) = Len(hs) + Len(adr) + Len(keys)
  BY DEF count_total_keys
<1>5. Len(hs) = 0 /\ Len(adr) = 0
  <2>0. Len(hs) \in Nat /\ Len(adr) \in Nat /\ Len(keys) \in Nat
    BY <1>1, <1>2
  <2>1. CASE count_total_keys(q) = 0
    <3> HIDE DEF hs, adr, keys, q
    <3> QED
      BY <1>4, <2>0, <2>1
  <2>2. CASE Len(flatten_query(q)) = 0
    <3>1. flatten_query(q) \in Seq(Item) /\ \A x : x \in ToSet(flatten_query(q)) <=> Asks(q, x)
      BY <1>0, FlattenQueryFacts
    <3>2. \A x : ~Asks(q, x)
      <4>1. \A x : x \notin ToSet(flatten_query(q))
        BY <2>2, <3>1, ToSetLaws
      <4> QED
        BY <3>1, <4>1
    <3>3. ToSet(hs) = {} /\ ToSet(adr) = {}
      BY <3>2 DEF Asks
    <3> HIDE DEF hs, adr
    <3>4. Len(hs) = 0
      <4>1. \A i \in 1..Len(hs) : FALSE
        BY <1>1, <3>3, ToSetLaws
      <4> QED
        BY <2>0, <4>1
    <3>5. Len(adr) = 0
      <4>1. \A i \in 1..Len(adr) : FALSE
        BY <1>1, <3>3, ToSetLaws
      <4> QED
        BY <2>0, <4>1
    <3> QED
      BY <3>4, <3>5
  <2> QED
    BY <2>1, <2>2
<1>6. hs = <<>> /\ adr = <<>> /\ csk = <<>>
  <2> HIDE DEF hs, adr, csk
  <2> QED
    BY <1>0, <1>1, <1>5
<1>7. q = EmptyQuery
  <2> HIDE DEF hs, adr, csk, q
  <2> QED
    BY <1>3, <1>6, Zenon DEF EmptyQuery
<1>8. Len(keys) = 0
  <2>1. [i \in DOMAIN <<>> |-> <<>>[i].storage_keys] = <<>>
    OBVIOUS
  <2>2. KeysIn(<<>>) = <<>>
    BY <2>1, FlattenLaws DEF KeysIn
  <2>3. keys = <<>>
    <3> HIDE DEF csk
    <3> QED
      BY <1>6, <2>2, Zenon
  <2> QED
    BY <2>3
<1>9. count_total_keys(q) = 0
  <2> HIDE DEF hs, adr, keys, q
  <2> QED
    BY <1>4, <1>5, <1>8
<1> QED
  BY <1>7, <1>9

-----------------------------------------------------------------------------
(* The leaves of the contracts, in the order they are asked for. *)

Leaves(adr, f) == [i \in DOMAIN adr |-> [of |-> adr[i], at |-> f]]
Leaf(f) == [of : Contracts, at : {f}]

(* One leaf for each address. *)
LEMMA LeavesType ==
    ASSUME NEW f, NEW s \in Seq(Contracts)
    PROVE  /\ Leaves(s, f) \in Seq(Leaf(f)) /\ Len(Leaves(s, f)) = Len(s)
           /\ \A i \in 1..Len(s) : Leaves(s, f)[i] = [of |-> s[i], at |-> f]
<1>1. DOMAIN s = 1..Len(s) /\ Len(s) \in Nat /\ \A i \in 1..Len(s) : s[i] \in Contracts
  OBVIOUS
<1>2. \A i \in 1..Len(s) : [of |-> s[i], at |-> f] \in Leaf(f)
  BY <1>1 DEF Leaf
<1> QED
  BY <1>1, <1>2 DEF Leaves

(* The leaves of two lists of addresses, one after the other. *)
LEMMA LeavesConcat ==
    ASSUME NEW f, NEW s \in Seq(Contracts), NEW t \in Seq(Contracts)
    PROVE  Leaves(s \o t, f) = Leaves(s, f) \o Leaves(t, f)
<1> DEFINE u == s \o t
           v == Leaves(s, f)
           w == Leaves(t, f)
           x == Leaves(u, f)
           y == v \o w
<1>1. /\ u \in Seq(Contracts) /\ Len(u) = Len(s) + Len(t)
      /\ \A i \in 1..(Len(s) + Len(t)) : u[i] = IF i <= Len(s) THEN s[i] ELSE t[i - Len(s)]
      /\ Len(s) \in Nat /\ Len(t) \in Nat
  BY ConcatProperties
<1> HIDE DEF u
<1>2. /\ v \in Seq(Leaf(f)) /\ Len(v) = Len(s)
      /\ \A i \in 1..Len(s) : v[i] = [of |-> s[i], at |-> f]
  BY LeavesType
<1>3. /\ w \in Seq(Leaf(f)) /\ Len(w) = Len(t)
      /\ \A i \in 1..Len(t) : w[i] = [of |-> t[i], at |-> f]
  BY LeavesType
<1>4. /\ x \in Seq(Leaf(f)) /\ Len(x) = Len(u)
      /\ \A i \in 1..Len(u) : x[i] = [of |-> u[i], at |-> f]
  BY <1>1, LeavesType
<1> HIDE DEF v, w, x
<1>5. /\ y \in Seq(Leaf(f)) /\ Len(y) = Len(v) + Len(w)
      /\ \A i \in 1..(Len(v) + Len(w)) : y[i] = IF i <= Len(v) THEN v[i] ELSE w[i - Len(v)]
  <2>1. v \in Seq(Leaf(f)) /\ w \in Seq(Leaf(f))
    BY <1>2, <1>3
  <2> QED
    BY <2>1, ConcatProperties
<1> HIDE DEF y
<1>6. ASSUME NEW i \in 1..(Len(s) + Len(t)) PROVE x[i] = y[i]
  <2>0. x[i] = [of |-> u[i], at |-> f] /\ y[i] = IF i <= Len(s) THEN v[i] ELSE w[i - Len(s)]
    BY <1>1, <1>2, <1>3, <1>4, <1>5
  <2>1. CASE i <= Len(s)
    <3>1. i \in 1..Len(s) /\ u[i] = s[i] /\ y[i] = v[i]
      BY <1>1, <2>0, <2>1
    <3> QED
      BY <1>2, <2>0, <3>1
  <2>2. CASE ~(i <= Len(s))
    <3>1. i - Len(s) \in 1..Len(t) /\ u[i] = t[i - Len(s)] /\ y[i] = w[i - Len(s)]
      BY <1>1, <2>0, <2>2
    <3> QED
      BY <1>3, <2>0, <3>1
  <2> QED
    BY <2>1, <2>2
<1>7. Len(x) = Len(s) + Len(t) /\ Len(y) = Len(s) + Len(t)
  BY <1>1, <1>2, <1>3, <1>4, <1>5
<1>8. x = y
  BY <1>4, <1>5, <1>6, <1>7, SeqEqual
<1> QED
  BY <1>8 DEF x, y, u, v, w

(* The leaves of the chunks, one after the other, are those of all the items. *)
LEMMA LeavesOfParts ==
    ASSUME NEW f, NEW items \in Seq(Item), NEW max \in Nat \ {0}
    PROVE  FlattenSeq([c \in 1..ChunkCount(Len(items), max) |->
                          Leaves(Addresses(Part(items, c, max)), f)])
               = Leaves(Addresses(items), f)
<1> DEFINE n == Len(items)
           C == ChunkCount(n, max)
           l(c) == Leaves(Addresses(Part(items, c, max)), f)
           L(m) == [c \in 1..m |-> l(c)]
           S(m) == SubSeq(items, 1, UpTo(m, n, max))
           G == {m \in Nat : m <= C => FlattenSeq(L(m)) = Leaves(Addresses(S(m)), f)}
<1>0. n \in Nat
  OBVIOUS
<1>1. C \in Nat /\ UpTo(0, n, max) = 0 /\ UpTo(C, n, max) = n
  BY <1>0, ChunkBounds
<1>2. ASSUME NEW c \in 1..C PROVE l(c) \in Seq(Leaf(f)) /\ Addresses(Part(items, c, max)) \in Seq(Contracts)
  BY PartFacts, AddressesLaws, LeavesType
<1> HIDE DEF C, l
<1>3. ASSUME NEW m \in 0..C
      PROVE  /\ L(m) \in Seq(Seq(Leaf(f))) /\ Len(L(m)) = m
             /\ \A c \in 1..m : L(m)[c] = l(c)
  BY <1>1, <1>2
<1>4. ASSUME NEW m \in 0..C PROVE S(m) \in Seq(Item) /\ UpTo(m, n, max) \in 0..n
  <2>1. UpTo(m, n, max) \in 0..n
    <3>1. m = 0 \/ m \in 1..C
      BY <1>1
    <3>2. \A c \in 1..C : UpTo(c, n, max) \in 0..n
      BY <1>0, ChunkBounds DEF C
    <3>3. 0 \in 0..n
      BY <1>0
    <3> HIDE DEF n
    <3> QED
      BY <1>1, <3>1, <3>2, <3>3
  <2>2. \A i \in 1..UpTo(m, n, max) : items[i] \in Item
    BY <1>0, <2>1
  <2> QED
    BY <1>0, <2>1, <2>2, SubSeqProperties
<1>5. 0 \in G
  <2>1. L(0) = <<>>
    OBVIOUS
  <2>2. FlattenSeq(L(0)) = <<>>
    BY <2>1, FlattenLaws
  <2>3. S(0) = <<>>
    <3>1. UpTo(0, n, max) \in Int /\ UpTo(0, n, max) < 1
      BY <1>1
    <3> QED
      BY <3>1, SubSeqEmpty
  <2>4. Addresses(S(0)) = <<>>
    BY <2>3, AddressesLaws
  <2>5. Leaves(<<>>, f) = <<>>
    BY DEF Leaves
  <2>6. FlattenSeq(L(0)) = Leaves(Addresses(S(0)), f)
    <3> HIDE DEF L, S
    <3> QED
      BY <2>2, <2>4, <2>5, Zenon
  <2> HIDE DEF L, S
  <2> QED
    BY <2>6
<1>6. ASSUME NEW m \in G PROVE m + 1 \in G
  <2> SUFFICES ASSUME m + 1 <= C
               PROVE  FlattenSeq(L(m + 1)) = Leaves(Addresses(S(m + 1)), f)
    BY <1>6
  <2>0. m \in Nat /\ m <= C /\ m \in 0..C /\ m + 1 \in 0..C /\ m + 1 \in 1..C /\ (m + 1) - 1 = m
    BY <1>1, <1>6
  <2>1. FlattenSeq(L(m)) = Leaves(Addresses(S(m)), f)
    BY <1>6, <2>0
  <2> DEFINE p == Part(items, m + 1, max)
             a == UpTo(m, n, max)
             b == UpTo(m + 1, n, max)
  <2>2. S(m) \o p = S(m + 1)
    <3>1. a \in 0..n /\ b \in 0..n
      BY <1>4, <2>0
    <3>2. a < b
      <4>1. UpTo((m + 1) - 1, n, max) < UpTo(m + 1, n, max)
        BY <1>0, <2>0, ChunkBounds DEF C
      <4> QED
        BY <2>0, <4>1
    <3>3. p = SubSeq(items, a + 1, b)
      BY <2>0 DEF Part
    <3> HIDE DEF a, b, p
    <3>4. 1 \in 1..(n + 1) /\ a \in (1 - 1)..n /\ b \in a..n
      BY <1>0, <3>1, <3>2
    <3>5. SubSeq(items, 1, a) \o SubSeq(items, a + 1, b) = SubSeq(items, 1, b)
      BY <3>4, ConcatAdjacentSubSeq
    <3> QED
      BY <3>3, <3>5 DEF a, b
  <2>3. p \in Seq(Item) /\ S(m) \in Seq(Item)
    BY <1>4, <2>0, PartFacts DEF C
  <2> HIDE DEF S
  <2>4. Addresses(S(m + 1)) = Addresses(S(m)) \o Addresses(p)
    BY <2>2, <2>3, AddressesConcat
  <2>5. Addresses(S(m)) \in Seq(Contracts) /\ Addresses(p) \in Seq(Contracts)
    BY <2>3, AddressesLaws
  <2>6. Leaves(Addresses(S(m + 1)), f) = Leaves(Addresses(S(m)), f) \o l(m + 1)
    BY <2>4, <2>5, LeavesConcat DEF l
  <2>7. L(m + 1) = Append(L(m), l(m + 1))
    <3> DEFINE z == Append(L(m), l(m + 1))
               w == L(m + 1)
               v == L(m)
    <3>1. w \in Seq(Seq(Leaf(f))) /\ Len(w) = m + 1 /\ \A c \in 1..(m + 1) : w[c] = l(c)
      BY <1>3, <2>0
    <3>2. v \in Seq(Seq(Leaf(f))) /\ Len(v) = m /\ \A c \in 1..m : v[c] = l(c)
      BY <1>3, <2>0
    <3>3. l(m + 1) \in Seq(Leaf(f))
      BY <1>2, <2>0
    <3> HIDE DEF v, w
    <3>4. /\ Append(v, l(m + 1)) \in Seq(Seq(Leaf(f))) /\ Len(Append(v, l(m + 1))) = m + 1
          /\ Append(v, l(m + 1))[m + 1] = l(m + 1)
          /\ \A c \in 1..m : Append(v, l(m + 1))[c] = v[c]
      BY <3>2, <3>3, AppendProperties
    <3>5. ASSUME NEW c \in 1..(m + 1) PROVE w[c] = Append(v, l(m + 1))[c]
      <4>1. c = m + 1 \/ c \in 1..m
        BY <2>0
      <4> QED
        BY <3>1, <3>2, <3>4, <4>1
    <3>6. w = Append(v, l(m + 1))
      BY <3>1, <3>4, <3>5, SeqEqual
    <3> QED
      BY <3>6 DEF v, w
  <2>8. L(m) \in Seq(Seq(Leaf(f))) /\ l(m + 1) \in Seq(Leaf(f))
    BY <1>2, <1>3, <2>0
  <2> HIDE DEF L
  <2>9. FlattenSeq(Append(L(m), l(m + 1))) = FlattenSeq(L(m)) \o l(m + 1)
    BY <2>8, FlattenLaws
  <2> QED
    BY <2>1, <2>6, <2>7, <2>9
<1>7. G \in SUBSET Nat
  OBVIOUS
<1>8. C \in G
  <2> HIDE DEF G
  <2> QED
    BY <1>1, <1>5, <1>6, <1>7, Induction
<1>9. S(C) = items
  BY <1>1, SubSeqFull
<1>10. FlattenSeq(L(C)) = Leaves(Addresses(items), f)
  <2>1. FlattenSeq(L(C)) = Leaves(Addresses(S(C)), f)
    BY <1>1, <1>8
  <2> QED
    BY <1>9, <2>1
<1> QED
  BY <1>10 DEF C, l

-----------------------------------------------------------------------------
(* The requests of a fetch. *)

Requests(q) == IF SingleRequest(q) THEN <<q>> ELSE split_query(q, MAX_KEYS_PER_REQUEST)

(* split_query collects the chunks of the flattened query. *)
LEMMA SplitChunks ==
    ASSUME NEW q \in Query, NEW max \in Nat \ {0}
    PROVE  /\ split_query(q, max) =
                  [c \in 1..ChunkCount(Len(flatten_query(q)), max) |->
                      collect_query(Part(flatten_query(q), c, max))]
           /\ split_query(q, max) \in Seq(Query)
           /\ Len(split_query(q, max)) = ChunkCount(Len(flatten_query(q)), max)
<1> DEFINE items == flatten_query(q)
           n == Len(items)
           C == ChunkCount(n, max)
           S == [c \in 1..C |-> collect_query(Part(items, c, max))]
<1>0. items \in Seq(Item)
  BY FlattenQueryFacts
<1>1. n \in Nat
  BY <1>0
<1>2. C \in Nat
  BY <1>1, ChunkBounds
<1>3. split_query(q, max) =
          [c \in 1..C |-> collect_query(SubSeq(items, (c - 1) * max + 1, UpTo(c, n, max)))]
  BY DEF split_query, UpTo
<1> HIDE DEF items
<1>4. ASSUME NEW c \in 1..C
      PROVE  /\ SubSeq(items, (c - 1) * max + 1, UpTo(c, n, max)) = Part(items, c, max)
             /\ collect_query(Part(items, c, max)) \in Query
  <2>1. UpTo(c - 1, n, max) = (c - 1) * max
    BY <1>1, ChunkBounds
  <2>2. SubSeq(items, (c - 1) * max + 1, UpTo(c, n, max)) = Part(items, c, max)
    BY <2>1 DEF Part
  <2>3. Part(items, c, max) \in Seq(Item)
    BY <1>0, PartFacts
  <2> QED
    BY <2>2, <2>3, CollectFacts
<1> HIDE DEF n, C
<1>5. split_query(q, max) = S
  BY <1>3, <1>4
<1>6. S \in [1..C -> Query]
  BY <1>4
<1> HIDE DEF S
<1>7. S \in Seq(Query) /\ Len(S) = C
  BY <1>2, <1>6
<1> QED
  BY <1>5, <1>7 DEF S, C, n, items

(* A chunk asks for the items of its part, and for nothing else. *)
LEMMA ChunkFacts ==
    ASSUME NEW q \in Query, NEW max \in Nat \ {0}, NEW c \in 1..Len(split_query(q, max))
    PROVE  /\ c \in 1..ChunkCount(Len(flatten_query(q)), max)
           /\ split_query(q, max)[c] = collect_query(Part(flatten_query(q), c, max))
           /\ split_query(q, max)[c] \in Query
           /\ \A x \in Item : Asks(split_query(q, max)[c], x)
                  <=> x \in ToSet(Part(flatten_query(q), c, max))
           /\ NoneEmpty(split_query(q, max)[c].contract_storage_keys)
           /\ count_total_keys(split_query(q, max)[c]) \in 1..max
<1> DEFINE items == flatten_query(q)
           p == Part(items, c, max)
           s == split_query(q, max)[c]
<1>0. items \in Seq(Item)
  BY FlattenQueryFacts
<1>1. c \in 1..ChunkCount(Len(items), max) /\ s = collect_query(p)
  BY SplitChunks
<1> HIDE DEF items, s
<1>2. p \in Seq(Item) /\ Len(p) \in 1..max
  BY <1>0, <1>1, PartFacts
<1> HIDE DEF p
<1>3. /\ collect_query(p) \in Query
      /\ \A x \in Item : Asks(collect_query(p), x) <=> x \in ToSet(p)
      /\ NoneEmpty(collect_query(p).contract_storage_keys)
      /\ count_total_keys(collect_query(p)) = Len(p)
  BY <1>2, CollectFacts
<1>4. /\ s \in Query /\ \A x \in Item : Asks(s, x) <=> x \in ToSet(p)
      /\ NoneEmpty(s.contract_storage_keys) /\ count_total_keys(s) \in 1..max
  BY <1>1, <1>2, <1>3
<1> QED
  BY <1>1, <1>4 DEF s, p, items

(* The requests cs of query q ask for what q asks for, each item once, within the
   limit; and they are the query itself or have no entries without keys. *)
Cover(cs, q) ==
    /\ cs \in Seq(Query) /\ Len(cs) # 0
    /\ \A x \in Item : Asks(q, x) <=> \E c \in 1..Len(cs) : Asks(cs[c], x)
    /\ \A c, d \in 1..Len(cs) : c # d => \A x \in Item : ~(Asks(cs[c], x) /\ Asks(cs[d], x))
    /\ \A c \in 1..Len(cs) : /\ count_total_keys(cs[c]) <= MAX_KEYS_PER_REQUEST
                             /\ count_total_keys(cs[c]) = 0 => q = EmptyQuery
    /\ Len(cs) > 1 => \A c \in 1..Len(cs) : NoneEmpty(cs[c].contract_storage_keys)

(* The requests of a block's query do. *)
LEMMA RequestsCover ==
    ASSUME NEW reads \in Reads
    PROVE  Cover(Requests(prepare_query(reads)), prepare_query(reads))
<1> DEFINE q == prepare_query(reads)
           max == MAX_KEYS_PER_REQUEST
           cs == Requests(q)
           items == flatten_query(q)
<1>0. q \in Query /\ RepeatsNothing(q) /\ max \in Nat \ {0}
  BY PrepareFacts, ProofsAssumption
<1>1. count_total_keys(q) = 0 => q = EmptyQuery
  BY PreparedEmpty
<1>2. Len(items) = 0 => count_total_keys(q) = 0
  BY PreparedEmpty
<1> HIDE DEF q
<1>3. CASE SingleRequest(q)
  <2>1. cs = <<q>>
    BY <1>3 DEF Requests
  <2> HIDE DEF cs
  <2>2. cs \in Seq(Query) /\ Len(cs) = 1 /\ cs[1] = q
    BY <1>0, <2>1
  <2>3. \A c \in 1..Len(cs) : c = 1
    BY <2>2
  <2>4. count_total_keys(q) <= max
    BY <1>3 DEF SingleRequest
  <2>5. 1 \in 1..Len(cs)
    BY <2>2
  <2>6. \A x \in Item : Asks(q, x) <=> \E c \in 1..Len(cs) : Asks(cs[c], x)
    BY <2>2, <2>3, <2>5
  <2>7. \A c, d \in 1..Len(cs) : c = d
    BY <2>3
  <2>8. \A c \in 1..Len(cs) : /\ count_total_keys(cs[c]) <= max
                              /\ count_total_keys(cs[c]) = 0 => q = EmptyQuery
    BY <1>1, <2>2, <2>3, <2>4
  <2>9. Len(cs) # 0 /\ ~(Len(cs) > 1)
    BY <2>2
  <2> QED
    BY <2>2, <2>6, <2>7, <2>8, <2>9 DEF Cover, cs, q
<1>4. CASE ~SingleRequest(q)
  <2>0. items \in Seq(Item) /\ \A x : x \in ToSet(items) <=> Asks(q, x)
    BY <1>0, FlattenQueryFacts
  <2>1. IsInjective(items)
    BY <1>0, FlattenQueryInjective
  <2>2. cs = split_query(q, max)
    BY <1>4 DEF Requests
  <2>3. cs \in Seq(Query) /\ Len(cs) = ChunkCount(Len(items), max)
    BY <1>0, <2>2, SplitChunks
  <2>4. ASSUME NEW c \in 1..Len(cs)
        PROVE  /\ c \in 1..ChunkCount(Len(items), max)
               /\ \A x \in Item : Asks(cs[c], x) <=> x \in ToSet(Part(items, c, max))
               /\ NoneEmpty(cs[c].contract_storage_keys)
               /\ count_total_keys(cs[c]) \in 1..max
    BY <1>0, <2>2, ChunkFacts
  <2> HIDE DEF cs, items
  <2>5. Len(cs) # 0
    <3>1. Len(items) \in Nat /\ Len(items) # 0
      BY <1>0, <1>2, <1>4, <2>0 DEF SingleRequest
    <3> QED
      BY <1>0, <2>3, <3>1, ChunkBounds
  <2>6. ASSUME NEW x \in Item PROVE Asks(q, x) <=> \E c \in 1..Len(cs) : Asks(cs[c], x)
    <3>1. x \in ToSet(items) <=>
              \E c \in 1..ChunkCount(Len(items), max) : x \in ToSet(Part(items, c, max))
      BY <1>0, <2>0, PartsCover
    <3> QED
      BY <2>0, <2>3, <2>4, <3>1
  <2>7. ASSUME NEW c \in 1..Len(cs), NEW d \in 1..Len(cs), c # d, NEW x \in Item
        PROVE  ~(Asks(cs[c], x) /\ Asks(cs[d], x))
    <3>1. ~(x \in ToSet(Part(items, c, max)) /\ x \in ToSet(Part(items, d, max)))
      BY <1>0, <2>0, <2>1, <2>4, <2>7, PartsDisjoint
    <3> QED
      BY <2>4, <3>1
  <2>8. ASSUME NEW c \in 1..Len(cs)
        PROVE  count_total_keys(cs[c]) <= max /\ count_total_keys(cs[c]) # 0
    <3>1. count_total_keys(cs[c]) \in 1..max
      BY <2>4
    <3> QED
      BY <1>0, <3>1
  <2> QED
    BY <2>3, <2>4, <2>5, <2>6, <2>7, <2>8 DEF Cover, cs, q
<1> QED
  BY <1>3, <1>4

(* The requests together have the classes, the addresses and the cells of the query. *)
LEMMA CoverFields ==
    ASSUME NEW q \in Query, NEW cs, Cover(cs, q)
    PROVE  /\ \A h : h \in ToSet(q.class_hashes)
                  <=> \E c \in 1..Len(cs) : h \in ToSet(cs[c].class_hashes)
           /\ \A a : a \in ToSet(q.contract_addresses)
                  <=> \E c \in 1..Len(cs) : a \in ToSet(cs[c].contract_addresses)
           /\ \A a \in Contracts, k \in Keys :
                  HasCell(q.contract_storage_keys, a, k)
                  <=> \E c \in 1..Len(cs) : HasCell(cs[c].contract_storage_keys, a, k)
<1>0. \A c \in 1..Len(cs) : cs[c] \in Query
  BY DEF Cover
<1>1. \A x \in Item : Asks(q, x) <=> \E c \in 1..Len(cs) : Asks(cs[c], x)
  BY DEF Cover
<1>2. ASSUME NEW p \in Query
      PROVE  ToSet(p.class_hashes) \subseteq Classes /\ ToSet(p.contract_addresses) \subseteq Contracts
  <2>1. p.class_hashes \in Seq(Classes) /\ p.contract_addresses \in Seq(Contracts)
    BY DEF Query
  <2> QED
    BY <2>1, ToSetLaws
<1>3. ASSUME NEW h
      PROVE  h \in ToSet(q.class_hashes)
                 <=> \E c \in 1..Len(cs) : h \in ToSet(cs[c].class_hashes)
  <2>1. CASE h \in Classes
    <3>1. ClassHash(h) \in Item
      BY <2>1 DEF Item
    <3>2. Asks(q, ClassHash(h)) <=> \E c \in 1..Len(cs) : Asks(cs[c], ClassHash(h))
      BY <1>1, <3>1
    <3>3. Asks(q, ClassHash(h)) <=> h \in ToSet(q.class_hashes)
      BY AsksKinds
    <3>4. \A c \in 1..Len(cs) : Asks(cs[c], ClassHash(h)) <=> h \in ToSet(cs[c].class_hashes)
      BY <1>0, AsksKinds
    <3> QED
      BY <3>2, <3>3, <3>4
  <2>2. CASE h \notin Classes
    BY <1>0, <1>2, <2>2
  <2> QED
    BY <2>1, <2>2
<1>4. ASSUME NEW a
      PROVE  a \in ToSet(q.contract_addresses)
                 <=> \E c \in 1..Len(cs) : a \in ToSet(cs[c].contract_addresses)
  <2>1. CASE a \in Contracts
    <3>1. ContractAddress(a) \in Item
      BY <2>1 DEF Item
    <3>2. Asks(q, ContractAddress(a)) <=> \E c \in 1..Len(cs) : Asks(cs[c], ContractAddress(a))
      BY <1>1, <3>1
    <3>3. Asks(q, ContractAddress(a)) <=> a \in ToSet(q.contract_addresses)
      BY AsksKinds
    <3>4. \A c \in 1..Len(cs) :
              Asks(cs[c], ContractAddress(a)) <=> a \in ToSet(cs[c].contract_addresses)
      BY <1>0, AsksKinds
    <3> QED
      BY <3>2, <3>3, <3>4
  <2>2. CASE a \notin Contracts
    BY <1>0, <1>2, <2>2
  <2> QED
    BY <2>1, <2>2
<1>5. ASSUME NEW a \in Contracts, NEW k \in Keys
      PROVE  HasCell(q.contract_storage_keys, a, k)
                 <=> \E c \in 1..Len(cs) : HasCell(cs[c].contract_storage_keys, a, k)
  <2>1. StorageKey(a, k) \in Item
    BY CellItem
  <2>2. Asks(q, StorageKey(a, k)) <=> \E c \in 1..Len(cs) : Asks(cs[c], StorageKey(a, k))
    BY <1>1, <2>1
  <2>3. Asks(q, StorageKey(a, k)) <=> HasCell(q.contract_storage_keys, a, k)
    BY AsksKinds
  <2>4. \A c \in 1..Len(cs) :
            Asks(cs[c], StorageKey(a, k)) <=> HasCell(cs[c].contract_storage_keys, a, k)
    BY <1>0, AsksKinds
  <2> QED
    BY <2>2, <2>3, <2>4
<1> QED
  BY <1>3, <1>4, <1>5

-----------------------------------------------------------------------------
(* Merging. *)

(* Answer c is the node's for request c on fork f. *)
AnswersOn(answers, cs, f) ==
    DOMAIN answers = 1..Len(cs) /\ \A c \in 1..Len(cs) : answers[c] = get_storage_proof(cs[c], f)

(* The fields of an answer. *)
LEMMA ProofFields ==
    ASSUME NEW q, NEW f
    PROVE  /\ get_storage_proof(q, f).global_roots = f
           /\ get_storage_proof(q, f).classes_proof = Paths(CLASSES_TRIE, q.class_hashes, f)
           /\ get_storage_proof(q, f).nodes = Paths(CONTRACTS_TRIE, q.contract_addresses, f)
           /\ get_storage_proof(q, f).contract_leaves_data = Leaves(q.contract_addresses, f)
           /\ DOMAIN get_storage_proof(q, f).contracts_storage_proofs
                  = DOMAIN q.contract_storage_keys
           /\ \A i \in DOMAIN q.contract_storage_keys :
                  get_storage_proof(q, f).contracts_storage_proofs[i] =
                      Paths(q.contract_storage_keys[i].contract_address,
                            q.contract_storage_keys[i].storage_keys, f)
BY DEF get_storage_proof, Leaves

(* The nodes on the paths of some keys depend on the set of keys. *)
LEMMA PathsOf ==
    ASSUME NEW trie, NEW keys, NEW f, NEW z
    PROVE  z \in Paths(trie, keys, f) <=> \E k \in ToSet(keys) : z \in Path(trie, k, f)
BY DEF Paths, ToSet

(* The node map that merging puts at the index of a contract is that contract's,
   with all its keys. *)
LEMMA MergedStorage ==
    ASSUME NEW q \in Query, RepeatsNothing(q), NEW cs, Cover(cs, q),
           NEW f, NEW answers, AnswersOn(answers, cs, f),
           NEW idx \in DOMAIN q.contract_storage_keys
    PROVE  MergeStorage(answers, cs, q, idx) =
               Paths(q.contract_storage_keys[idx].contract_address,
                     q.contract_storage_keys[idx].storage_keys, f)
<1> DEFINE csk == q.contract_storage_keys
           a == csk[idx].contract_address
           M == MergeStorage(answers, cs, q, idx)
<1>0. csk \in Seq(Entry) /\ idx \in 1..Len(csk)
  BY DEF Query, Entry
<1>1. a \in Contracts /\ csk[idx].storage_keys \in Seq(Keys)
  <2>1. csk[idx] \in Entry
    BY <1>0, ElementOfSeq
  <2> QED
    BY <2>1 DEF Entry
<1>2. cs \in Seq(Query) /\ DOMAIN cs = 1..Len(cs) /\ \A c \in 1..Len(cs) : cs[c] \in Query
  BY DEF Cover
<1>3. ASSUME NEW c \in 1..Len(cs)
      PROVE  /\ DOMAIN cs[c].contract_storage_keys = 1..Len(cs[c].contract_storage_keys)
             /\ \A j \in 1..Len(cs[c].contract_storage_keys) :
                    /\ answers[c].contracts_storage_proofs[j] =
                           Paths(cs[c].contract_storage_keys[j].contract_address,
                                 cs[c].contract_storage_keys[j].storage_keys, f)
                    /\ ToSet(cs[c].contract_storage_keys[j].storage_keys) \subseteq Keys
  <2>1. cs[c].contract_storage_keys \in Seq(Entry)
    BY <1>2 DEF Query, Entry
  <2>2. answers[c] = get_storage_proof(cs[c], f)
    BY DEF AnswersOn
  <2>3. DOMAIN cs[c].contract_storage_keys = 1..Len(cs[c].contract_storage_keys)
    BY <2>1
  <2>4. ASSUME NEW j \in 1..Len(cs[c].contract_storage_keys)
        PROVE  ToSet(cs[c].contract_storage_keys[j].storage_keys) \subseteq Keys
    <3>1. cs[c].contract_storage_keys[j] \in Entry
      BY <2>1, ElementOfSeq
    <3>2. cs[c].contract_storage_keys[j].storage_keys \in Seq(Keys)
      BY <3>1 DEF Entry
    <3> QED
      BY <3>2, ToSetLaws
  <2> QED
    BY <2>2, <2>3, <2>4, ProofFields
<1>4. ASSUME NEW k \in Keys
      PROVE  k \in ToSet(csk[idx].storage_keys)
                 <=> \E c \in 1..Len(cs) : HasCell(cs[c].contract_storage_keys, a, k)
  <2>1. k \in ToSet(csk[idx].storage_keys) <=> HasCell(csk, a, k)
    BY <1>0 DEF HasCell, RepeatsNothing
  <2>2. HasCell(csk, a, k) <=> \E c \in 1..Len(cs) : HasCell(cs[c].contract_storage_keys, a, k)
    BY <1>1, CoverFields
  <2> QED
    BY <2>1, <2>2
<1>5. ASSUME NEW z, z \in M PROVE z \in Paths(a, csk[idx].storage_keys, f)
  <2>0. PICK c \in DOMAIN cs : \E j \in DOMAIN cs[c].contract_storage_keys :
            /\ cs[c].contract_storage_keys[j].contract_address = a
            /\ z \in answers[c].contracts_storage_proofs[j]
    BY <1>5 DEF MergeStorage
  <2>1. PICK j \in DOMAIN cs[c].contract_storage_keys :
            /\ cs[c].contract_storage_keys[j].contract_address = a
            /\ z \in answers[c].contracts_storage_proofs[j]
    BY <2>0
  <2>2. c \in 1..Len(cs) /\ j \in 1..Len(cs[c].contract_storage_keys)
    BY <1>2, <1>3, <2>1
  <2>3. z \in Paths(a, cs[c].contract_storage_keys[j].storage_keys, f)
    BY <1>3, <2>1, <2>2
  <2>4. PICK k \in ToSet(cs[c].contract_storage_keys[j].storage_keys) : z \in Path(a, k, f)
    BY <2>3, PathsOf
  <2>5. HasCell(cs[c].contract_storage_keys, a, k) /\ k \in Keys
    BY <1>3, <2>1, <2>2, <2>4 DEF HasCell
  <2>6. k \in ToSet(csk[idx].storage_keys)
    BY <1>4, <2>2, <2>5
  <2> QED
    BY <2>4, <2>6, PathsOf
<1>6. ASSUME NEW z, z \in Paths(a, csk[idx].storage_keys, f) PROVE z \in M
  <2>1. PICK k \in ToSet(csk[idx].storage_keys) : z \in Path(a, k, f)
    BY <1>6, PathsOf
  <2>2. k \in Keys
    BY <1>1, <2>1, ToSetLaws
  <2>3. PICK c \in 1..Len(cs) : HasCell(cs[c].contract_storage_keys, a, k)
    BY <1>4, <2>1, <2>2
  <2>4. PICK j \in 1..Len(cs[c].contract_storage_keys) :
            /\ cs[c].contract_storage_keys[j].contract_address = a
            /\ k \in ToSet(cs[c].contract_storage_keys[j].storage_keys)
    BY <2>3 DEF HasCell
  <2>5. z \in Paths(a, cs[c].contract_storage_keys[j].storage_keys, f)
    BY <2>1, <2>4, PathsOf
  <2>6. z \in answers[c].contracts_storage_proofs[j]
    BY <1>3, <2>4, <2>5
  <2>7. c \in DOMAIN cs /\ j \in DOMAIN cs[c].contract_storage_keys
    BY <1>2, <1>3
  <2> QED
    BY <2>4, <2>6, <2>7 DEF MergeStorage
<1> QED
  BY <1>5, <1>6

(* A merged proof of answers from one fork is the node's proof of the whole query. *)
LEMMA MergedWhole ==
    ASSUME NEW reads \in Reads, ~SingleRequest(prepare_query(reads)),
           NEW f, NEW answers,
           AnswersOn(answers, Requests(prepare_query(reads)), f)
    PROVE  merge_storage_proofs(answers, Requests(prepare_query(reads)), prepare_query(reads))
               = get_storage_proof(prepare_query(reads), f)
<1> DEFINE q == prepare_query(reads)
           cs == Requests(q)
           merged == merge_storage_proofs(answers, cs, q)
           whole == get_storage_proof(q, f)
           classes == UNION {answers[c].classes_proof : c \in DOMAIN answers}
           contracts == UNION {answers[c].nodes : c \in DOMAIN answers}
           leaves == FlattenSeq([c \in DOMAIN answers |-> answers[c].contract_leaves_data])
           storage == [idx \in DOMAIN q.contract_storage_keys |->
                          MergeStorage(answers, cs, q, idx)]
<1>0. q \in Query /\ RepeatsNothing(q) /\ MAX_KEYS_PER_REQUEST \in Nat \ {0}
  BY PrepareFacts, ProofsAssumption
<1>1. Cover(cs, q)
  BY RequestsCover
<1>2. cs = split_query(q, MAX_KEYS_PER_REQUEST)
  BY DEF Requests
<1>3. AnswersOn(answers, cs, f)
  OBVIOUS
<1> HIDE DEF q, cs
<1>4. DOMAIN answers = 1..Len(cs) /\ \A c \in 1..Len(cs) : answers[c] = get_storage_proof(cs[c], f)
  BY <1>3 DEF AnswersOn
<1>5. answers[1].global_roots = f
  <2>1. 1 \in 1..Len(cs)
    BY <1>1 DEF Cover
  <2> QED
    BY <1>4, <2>1, ProofFields
<1>6. classes = Paths(CLASSES_TRIE, q.class_hashes, f)
  <2>1. \A c \in 1..Len(cs) : answers[c].classes_proof = Paths(CLASSES_TRIE, cs[c].class_hashes, f)
    BY <1>4, ProofFields
  <2>2. \A h : h \in ToSet(q.class_hashes)
            <=> \E c \in 1..Len(cs) : h \in ToSet(cs[c].class_hashes)
    BY <1>0, <1>1, CoverFields
  <2>3. ASSUME NEW z PROVE z \in classes <=> z \in Paths(CLASSES_TRIE, q.class_hashes, f)
    <3>1. z \in classes <=>
              \E c \in 1..Len(cs) : z \in Paths(CLASSES_TRIE, cs[c].class_hashes, f)
      BY <1>4, <2>1
    <3>2. \A c \in 1..Len(cs) : z \in Paths(CLASSES_TRIE, cs[c].class_hashes, f)
              <=> \E h \in ToSet(cs[c].class_hashes) : z \in Path(CLASSES_TRIE, h, f)
      BY PathsOf
    <3>3. z \in Paths(CLASSES_TRIE, q.class_hashes, f)
              <=> \E h \in ToSet(q.class_hashes) : z \in Path(CLASSES_TRIE, h, f)
      BY PathsOf
    <3> HIDE DEF classes
    <3> QED
      BY <2>2, <3>1, <3>2, <3>3
  <2> HIDE DEF classes
  <2> QED
    BY <2>3
<1>7. contracts = Paths(CONTRACTS_TRIE, q.contract_addresses, f)
  <2>1. \A c \in 1..Len(cs) :
            answers[c].nodes = Paths(CONTRACTS_TRIE, cs[c].contract_addresses, f)
    BY <1>4, ProofFields
  <2>2. \A a : a \in ToSet(q.contract_addresses)
            <=> \E c \in 1..Len(cs) : a \in ToSet(cs[c].contract_addresses)
    BY <1>0, <1>1, CoverFields
  <2>3. ASSUME NEW z
        PROVE  z \in contracts <=> z \in Paths(CONTRACTS_TRIE, q.contract_addresses, f)
    <3>1. z \in contracts <=>
              \E c \in 1..Len(cs) : z \in Paths(CONTRACTS_TRIE, cs[c].contract_addresses, f)
      BY <1>4, <2>1
    <3>2. \A c \in 1..Len(cs) : z \in Paths(CONTRACTS_TRIE, cs[c].contract_addresses, f)
              <=> \E a \in ToSet(cs[c].contract_addresses) : z \in Path(CONTRACTS_TRIE, a, f)
      BY PathsOf
    <3>3. z \in Paths(CONTRACTS_TRIE, q.contract_addresses, f)
              <=> \E a \in ToSet(q.contract_addresses) : z \in Path(CONTRACTS_TRIE, a, f)
      BY PathsOf
    <3> HIDE DEF contracts
    <3> QED
      BY <2>2, <3>1, <3>2, <3>3
  <2> HIDE DEF contracts
  <2> QED
    BY <2>3
<1>8. leaves = Leaves(q.contract_addresses, f)
  <2> DEFINE items == flatten_query(q)
             C == ChunkCount(Len(items), MAX_KEYS_PER_REQUEST)
             l(c) == Leaves(Addresses(Part(items, c, MAX_KEYS_PER_REQUEST)), f)
  <2>1. items \in Seq(Item) /\ Addresses(items) = q.contract_addresses
    BY <1>0, FlattenQueryFacts
  <2>2. Len(cs) = C
    BY <1>0, <1>2, SplitChunks
  <2>3. ASSUME NEW c \in 1..C PROVE answers[c].contract_leaves_data = l(c)
    <3>1. cs[c] = collect_query(Part(items, c, MAX_KEYS_PER_REQUEST))
      BY <1>0, <1>2, <2>2, ChunkFacts
    <3>2. answers[c].contract_leaves_data = Leaves(cs[c].contract_addresses, f)
      BY <1>4, <2>2, ProofFields
    <3> QED
      BY <3>1, <3>2 DEF Addresses
  <2>4. FlattenSeq([c \in 1..C |-> l(c)]) = Leaves(Addresses(items), f)
    BY <1>0, <2>1, LeavesOfParts
  <2> HIDE DEF items, l, C
  <2>5. [c \in DOMAIN answers |-> answers[c].contract_leaves_data] = [c \in 1..C |-> l(c)]
    BY <1>4, <2>2, <2>3
  <2> QED
    BY <2>1, <2>4, <2>5
<1>9. storage = [i \in DOMAIN q.contract_storage_keys |->
                    Paths(q.contract_storage_keys[i].contract_address,
                          q.contract_storage_keys[i].storage_keys, f)]
  BY <1>0, <1>1, <1>3, MergedStorage
<1>10. merged = [global_roots |-> answers[1].global_roots, classes_proof |-> classes,
                 nodes |-> contracts, contract_leaves_data |-> leaves,
                 contracts_storage_proofs |-> storage]
  BY DEF merge_storage_proofs
<1>11. whole = [global_roots |-> f, classes_proof |-> Paths(CLASSES_TRIE, q.class_hashes, f),
                nodes |-> Paths(CONTRACTS_TRIE, q.contract_addresses, f),
                contract_leaves_data |-> Leaves(q.contract_addresses, f),
                contracts_storage_proofs |->
                    [i \in DOMAIN q.contract_storage_keys |->
                        Paths(q.contract_storage_keys[i].contract_address,
                              q.contract_storage_keys[i].storage_keys, f)]]
  BY DEF get_storage_proof, Leaves
<1> HIDE DEF merged, whole, classes, contracts, leaves, storage
<1>12. merged = whole
  BY <1>5, <1>6, <1>7, <1>8, <1>9, <1>10, <1>11, Zenon
<1> QED
  BY <1>12 DEF merged, whole, q, cs

=============================================================================
