------------------------------ MODULE DataLemmas ------------------------------
(***************************************************************************)
(* Lemmas about the data the models are built from: induction on a set of  *)
(* natural numbers, and how often a sequence holds a value.                *)
(***************************************************************************)
EXTENDS Naturals, Sequences, SequencesExt, FiniteSetTheorems, SequenceTheorems, WellFoundedInduction, TLAPS

\* Induction: a set that has 0, and with n has n + 1, has every natural number.
\* It is stated of a set, where the library's theorem takes an operator; the
\* recursive functions of the models (abort of CApiEngine, for one) are reasoned
\* about by giving the set of the arguments they are right for.
LEMMA NatBySet ==
  ASSUME NEW S, 0 \in S, \A n \in Nat : n \in S => n + 1 \in S
  PROVE  Nat \subseteq S
<1> DEFINE R == OpToRel(<, Nat)
           T == Nat \ S
<1>1. IsWellFoundedOn(R, Nat)
  BY NatLessThanWellFounded
<1>2. SUFFICES ASSUME T # {} PROVE FALSE
  OBVIOUS
<1>3. T \subseteq Nat
  OBVIOUS
<1> HIDE DEF R, T
<1>4. PICK x \in T : \A y \in T : ~(<<y, x>> \in R)
  BY <1>1, <1>2, <1>3, WFMin
<1>5. x \in Nat /\ x # 0 /\ x - 1 \in Nat
  BY <1>3, <1>4 DEF T
<1>6. x - 1 \in T
  BY <1>4, <1>5 DEF T
<1>7. <<x - 1, x>> \in R
  BY <1>5 DEF R, OpToRel
<1> QED BY <1>4, <1>6, <1>7

-----------------------------------------------------------------------------
(***************************************************************************)
(* How often the members of a set occur in a sequence.                     *)
(***************************************************************************)
Where(s, K) == {i \in 1 .. Len(s) : s[i] \in K}
Occurs(s, K) == Cardinality(Where(s, K))

\* The places are finitely many, so that their number is a natural number.
LEMMA OccursType ==
  ASSUME NEW X, NEW s \in Seq(X), NEW K
  PROVE  IsFiniteSet(Where(s, K)) /\ Occurs(s, K) \in Nat
<1>1. Where(s, K) \in SUBSET (1 .. Len(s)) /\ Len(s) \in Nat
  BY DEF Where
<1>2. IsFiniteSet(1 .. Len(s))
  BY <1>1, FS_Interval
<1>3. IsFiniteSet(Where(s, K))
  BY <1>1, <1>2, FS_Subset
<1> QED BY <1>3, FS_CardinalityType DEF Occurs

\* Nothing occurs in the empty sequence.
LEMMA OccursEmpty ==
  ASSUME NEW K
  PROVE  Occurs(<<>>, K) = 0
<1>1. Where(<<>>, K) = {}
  BY DEF Where
<1> QED BY <1>1, FS_EmptySet DEF Occurs

\* What occurs somewhere is counted.
LEMMA OccursSome ==
  ASSUME NEW X, NEW s \in Seq(X), NEW K, NEW i \in 1 .. Len(s), s[i] \in K
  PROVE  Occurs(s, K) > 0
<1>1. IsFiniteSet(Where(s, K)) /\ Occurs(s, K) \in Nat
  BY OccursType
<1>2. i \in Where(s, K)
  BY DEF Where
<1>3. Occurs(s, K) # 0
  BY <1>1, <1>2, FS_EmptySet DEF Occurs
<1> QED BY <1>1, <1>3

\* A value appended is counted once.
LEMMA OccursAppend ==
  ASSUME NEW X, NEW s \in Seq(X), NEW x \in X, NEW K
  PROVE  Occurs(Append(s, x), K) = Occurs(s, K) + (IF x \in K THEN 1 ELSE 0)
<1> DEFINE n == Len(s) + 1
<1>1. IsFiniteSet(Where(s, K)) /\ Occurs(s, K) \in Nat
  BY OccursType
<1>2. /\ Len(s) \in Nat
      /\ Len(Append(s, x)) = n
      /\ \A i \in 1 .. Len(s) : Append(s, x)[i] = s[i]
      /\ Append(s, x)[n] = x
  BY AppendProperties
<1>3. n \notin Where(s, K)
  BY <1>2 DEF Where
<1>4. CASE x \in K
  <2>1. Where(Append(s, x), K) = Where(s, K) \cup {n}
    BY <1>2, <1>4 DEF Where
  <2> QED BY <1>1, <1>3, <1>4, <2>1, FS_AddElement DEF Occurs
<1>5. CASE x \notin K
  <2>1. Where(Append(s, x), K) = Where(s, K)
    BY <1>2, <1>5 DEF Where
  <2> QED BY <1>1, <1>5, <2>1 DEF Occurs
<1> QED BY <1>4, <1>5

\* Sets of places that correspond one to one have as many.
LEMMA OneToOne ==
  ASSUME NEW P, NEW Q, IsFiniteSet(P), NEW f \in [P -> Q],
         \A i, j \in P : f[i] = f[j] => i = j,
         \A q \in Q : \E i \in P : f[i] = q
  PROVE  IsFiniteSet(Q) /\ Cardinality(Q) = Cardinality(P)
<1>1. f \in Bijection(P, Q)
  BY DEF Bijection, Injection, Surjection, IsInjective
<1>2. ExistsBijection(P, Q)
  BY <1>1 DEF ExistsBijection
<1> QED BY <1>2, FS_Bijection

\* t is s without its i-th value.
Without(s, i, t) ==
  Len(t) = Len(s) - 1 /\ \A j \in 1 .. Len(t) : t[j] = IF j < i THEN s[j] ELSE s[j + 1]

\* A value taken out is counted no more: what remains is the rest of the
\* sequence, in places that are one lower behind the one taken.
LEMMA OccursRemove ==
  ASSUME NEW X, NEW s \in Seq(X), NEW t \in Seq(X), NEW K, NEW i, i \in 1 .. Len(s), Without(s, i, t)
  PROVE  Occurs(s, K) = Occurs(t, K) + (IF s[i] \in K THEN 1 ELSE 0)
<1> DEFINE P == Where(t, K)
           Q == Where(s, K) \ {i}
           f == [j \in P |-> IF j < i THEN j ELSE j + 1]
<1>1. /\ Len(s) \in Nat /\ Len(t) \in Nat /\ i \in Nat /\ Len(t) = Len(s) - 1
      /\ \A j \in 1 .. Len(t) : t[j] = IF j < i THEN s[j] ELSE s[j + 1]
  BY DEF Without
<1>2. \A j \in P : j \in 1 .. Len(t) /\ t[j] \in K
  BY DEF Where
<1>3. f \in [P -> Q]
  <2>1. SUFFICES ASSUME NEW j \in P PROVE (IF j < i THEN j ELSE j + 1) \in Q
    OBVIOUS
  <2>2. j \in Nat /\ j >= 1 /\ j <= Len(t) /\ t[j] \in K
    BY <1>1, <1>2
  <2>3. CASE j < i
    BY <1>1, <2>2, <2>3 DEF Where
  <2>4. CASE ~(j < i)
    BY <1>1, <2>2, <2>4 DEF Where
  <2> QED BY <2>3, <2>4
<1>4. \A j, k \in P : f[j] = f[k] => j = k
  <2>1. \A j \in P : f[j] = IF j < i THEN j ELSE j + 1
    OBVIOUS
  <2>2. P \subseteq Nat
    BY <1>1, <1>2
  <2> HIDE DEF P, f
  <2> QED BY <1>1, <2>1, <2>2
<1>5. \A q \in Q : \E j \in P : f[j] = q
  <2>1. SUFFICES ASSUME NEW q \in Q PROVE \E j \in P : f[j] = q
    OBVIOUS
  <2>2. q \in Nat /\ q >= 1 /\ q <= Len(s) /\ q # i /\ s[q] \in K
    BY <1>1 DEF Where
  <2>3. CASE q < i
    <3>1. q \in P
      BY <1>1, <2>2, <2>3 DEF Where
    <3> QED BY <2>3, <3>1
  <2>4. CASE ~(q < i)
    <3>1. q - 1 \in 1 .. Len(t) /\ ~(q - 1 < i) /\ q - 1 + 1 = q
      BY <1>1, <2>2, <2>4
    <3>2. q - 1 \in P
      <4>1. t[q - 1] = s[q]
        BY <1>1, <3>1
      <4> QED BY <2>2, <3>1, <4>1 DEF Where
    <3> QED BY <3>1, <3>2
  <2> QED BY <2>3, <2>4
<1>6. IsFiniteSet(P)
  BY OccursType
<1> HIDE DEF f, Q, P
<1>7. IsFiniteSet(Q) /\ Cardinality(Q) = Occurs(t, K) /\ Occurs(t, K) \in Nat
  <2>1. IsFiniteSet(Q) /\ Cardinality(Q) = Cardinality(P)
    BY <1>3, <1>4, <1>5, <1>6, OneToOne
  <2>2. Occurs(t, K) \in Nat
    BY OccursType
  <2> QED BY <2>1, <2>2 DEF Occurs, P
<1>8. CASE s[i] \in K
  <2>1. Where(s, K) = Q \cup {i} /\ i \notin Q
    BY <1>8 DEF Where, Q
  <2> QED BY <1>7, <1>8, <2>1, FS_AddElement DEF Occurs
<1>9. CASE s[i] \notin K
  <2>1. Where(s, K) = Q
    BY <1>9 DEF Where, Q
  <2> QED BY <1>7, <1>9, <2>1 DEF Occurs
<1> QED BY <1>8, <1>9

\* The same of the head of a sequence.
LEMMA OccursTail ==
  ASSUME NEW X, NEW s \in Seq(X), s # <<>>, NEW K
  PROVE  Occurs(s, K) = Occurs(Tail(s), K) + (IF Head(s) \in K THEN 1 ELSE 0)
<1>1. /\ Tail(s) \in Seq(X) /\ Len(Tail(s)) = Len(s) - 1
      /\ \A j \in 1 .. Len(Tail(s)) : Tail(s)[j] = s[j + 1]
      /\ Head(s) = s[1] /\ 1 \in 1 .. Len(s)
  BY HeadTailProperties
<1> DEFINE t == Tail(s)
<1>2. t \in Seq(X) /\ Without(s, 1, t)
  BY <1>1 DEF Without
<1> HIDE DEF t
<1>3. Occurs(s, K) = Occurs(t, K) + (IF s[1] \in K THEN 1 ELSE 0)
  BY <1>1, <1>2, OccursRemove
<1> QED BY <1>1, <1>3 DEF t

-----------------------------------------------------------------------------
(***************************************************************************)
(* Sequences of any values.                                                *)
(***************************************************************************)

IsSeq(q) == q \in Seq(ToSet(q))

(* A sequence is a function on the numbers up to its length. *)
LEMMA SeqIs ==
  ASSUME NEW q, IsSeq(q)
  PROVE  Len(q) \in Nat /\ DOMAIN q = 1 .. Len(q) /\ q = [i \in 1 .. Len(q) |-> q[i]]
BY DEF IsSeq

(* Any such function is a sequence. *)
LEMMA SeqMade ==
  ASSUME NEW q, NEW n \in Nat, DOMAIN q = 1 .. n, q = [i \in 1 .. n |-> q[i]]
  PROVE  IsSeq(q) /\ Len(q) = n
<1>1. \A i \in 1 .. n : q[i] \in ToSet(q)
  BY DEF ToSet
<1>2. q \in [1 .. n -> ToSet(q)]
  BY <1>1
<1>3. q \in Seq(ToSet(q))
  BY <1>2, SeqDef
<1> QED BY <1>3, LenProperties DEF IsSeq

\* Its values are the members of the set, and only the empty one has none.
LEMMA SeqMembers ==
  ASSUME NEW q, IsSeq(q)
  PROVE  /\ \A x : x \in ToSet(q) <=> \E i \in 1 .. Len(q) : q[i] = x
         /\ q = <<>> <=> Len(q) = 0
<1>1. DOMAIN q = 1 .. Len(q) /\ Len(q) \in Nat
  BY SeqIs
<1>2. q = <<>> <=> Len(q) = 0
  BY EmptySeq DEF IsSeq
<1> QED BY <1>1, <1>2 DEF ToSet

\* The empty sequence.
LEMMA SeqEmpty ==
  IsSeq(<<>>) /\ Len(<<>>) = 0 /\ ToSet(<<>>) = {}
<1>1. <<>> \in Seq(ToSet(<<>>)) /\ Len(<<>>) = 0
  BY EmptySeq
<1> QED BY <1>1 DEF IsSeq, ToSet

Add(q, x) == Append(q, x)

\* A value is added at the end.
LEMMA SeqAppend ==
  ASSUME NEW q, IsSeq(q), NEW x, NEW r, r = Add(q, x)
  PROVE  /\ IsSeq(r) /\ r # <<>> /\ Len(r) = Len(q) + 1
         /\ \A i \in 1 .. Len(q) : r[i] = q[i]
         /\ r[Len(q) + 1] = x
         /\ ToSet(r) = ToSet(q) \cup {x}
<1> DEFINE S == ToSet(q) \cup {x}
<1>1. q \in Seq(S) /\ x \in S
  <2>1. q \in Seq(ToSet(q)) /\ ToSet(q) \subseteq S
    BY DEF IsSeq
  <2> QED BY <2>1, SeqMonotonic
<1>2. /\ r \in Seq(S) /\ r # <<>> /\ Len(r) = Len(q) + 1
      /\ \A i \in 1 .. Len(q) : r[i] = q[i]
      /\ r[Len(q) + 1] = x
  BY <1>1, AppendProperties DEF Add
<1>3. Len(q) \in Nat /\ DOMAIN q = 1 .. Len(q)
  BY SeqIs
<1>4. DOMAIN r = 1 .. Len(q) + 1 /\ r = [i \in 1 .. Len(q) + 1 |-> r[i]]
  BY ONLY <1>2, <1>3
<1>5. IsSeq(r)
  BY <1>3, <1>4, SeqMade
<1>6. ToSet(r) = ToSet(q) \cup {x}
  <2>1. ASSUME NEW y \in ToSet(r) PROVE y \in ToSet(q) \cup {x}
    <3>1. PICK i \in 1 .. Len(q) + 1 : y = r[i]
      BY <1>4 DEF ToSet
    <3>2. i \in 1 .. Len(q) \/ i = Len(q) + 1
      BY <1>3
    <3> QED BY <1>2, <1>3, <3>1, <3>2 DEF ToSet
  <2>2. ASSUME NEW y \in ToSet(q) PROVE y \in ToSet(r)
    <3>1. PICK i \in 1 .. Len(q) : y = q[i]
      BY <1>3 DEF ToSet
    <3>2. i \in 1 .. Len(q) + 1 /\ r[i] = y
      BY <1>2, <1>3, <3>1
    <3> QED BY <1>4, <3>2 DEF ToSet
  <2>3. x \in ToSet(r)
    <3>1. Len(q) + 1 \in 1 .. Len(q) + 1
      BY <1>3
    <3> QED BY <1>2, <1>4, <3>1 DEF ToSet
  <2> QED BY <2>1, <2>2, <2>3
<1> QED BY <1>2, <1>5, <1>6

\* One sequence after another.
LEMMA SeqConcat ==
  ASSUME NEW q, IsSeq(q), NEW s, IsSeq(s), NEW r, r = q \o s
  PROVE  /\ IsSeq(r) /\ Len(r) = Len(q) + Len(s)
         /\ \A i \in 1 .. Len(q) : r[i] = q[i]
         /\ \A i \in 1 .. Len(s) : r[Len(q) + i] = s[i]
         /\ ToSet(r) = ToSet(q) \cup ToSet(s)
<1> DEFINE S == ToSet(q) \cup ToSet(s)
<1>1. q \in Seq(S) /\ s \in Seq(S)
  <2>1. q \in Seq(ToSet(q)) /\ s \in Seq(ToSet(s))
    BY DEF IsSeq
  <2>2. ToSet(q) \subseteq S /\ ToSet(s) \subseteq S
    OBVIOUS
  <2>3. q \in Seq(S)
    BY <2>1, <2>2, SeqMonotonic
  <2>4. s \in Seq(S)
    BY <2>1, <2>2, SeqMonotonic
  <2> QED BY <2>3, <2>4
<1> HIDE DEF S
<1>2. /\ r \in Seq(S) /\ Len(r) = Len(q) + Len(s)
      /\ \A i \in 1 .. Len(q) + Len(s) : r[i] = IF i <= Len(q) THEN q[i] ELSE s[i - Len(q)]
  BY <1>1, ConcatProperties
<1>3. /\ Len(q) \in Nat /\ DOMAIN q = 1 .. Len(q) /\ Len(s) \in Nat /\ DOMAIN s = 1 .. Len(s)
  BY SeqIs
<1>4. DOMAIN r = 1 .. Len(q) + Len(s) /\ r = [i \in 1 .. Len(q) + Len(s) |-> r[i]]
  <2>1. DOMAIN r = 1 .. Len(r) /\ r = [i \in 1 .. Len(r) |-> r[i]]
    BY ONLY <1>2
  <2> QED BY <1>2, <2>1
<1>5. IsSeq(r)
  <2>1. Len(q) + Len(s) \in Nat
    BY <1>3
  <2> QED BY ONLY <1>4, <2>1, SeqMade
<1>6. \A i \in 1 .. Len(q) : r[i] = q[i]
  BY ONLY <1>2, <1>3
<1>7. \A i \in 1 .. Len(s) : r[Len(q) + i] = s[i]
  <2> SUFFICES ASSUME NEW i \in 1 .. Len(s) PROVE r[Len(q) + i] = s[i]
    OBVIOUS
  <2>1. Len(q) + i \in 1 .. Len(q) + Len(s) /\ ~(Len(q) + i <= Len(q)) /\ (Len(q) + i) - Len(q) = i
    BY ONLY <1>3, i \in 1 .. Len(s)
  <2> QED BY <1>2, <2>1
<1>8. ASSUME NEW y \in ToSet(r) PROVE y \in ToSet(q) \cup ToSet(s)
  <2>1. PICK i \in 1 .. Len(q) + Len(s) : y = r[i]
    BY <1>4 DEF ToSet
  <2>2. CASE i <= Len(q)
    BY <1>2, <1>3, <2>1, <2>2 DEF ToSet
  <2>3. CASE ~(i <= Len(q))
    <3>1. i - Len(q) \in 1 .. Len(s)
      BY ONLY <1>3, <2>3, i \in 1 .. Len(q) + Len(s)
    <3> QED BY <1>2, <1>3, <2>1, <2>3, <3>1 DEF ToSet
  <2> QED BY <2>2, <2>3
<1>9. ASSUME NEW y \in ToSet(q) \cup ToSet(s) PROVE y \in ToSet(r)
  <2>1. CASE y \in ToSet(q)
    <3>1. PICK i \in 1 .. Len(q) : y = q[i]
      BY <1>3, <2>1 DEF ToSet
    <3>2. i \in 1 .. Len(q) + Len(s)
      BY ONLY <1>3, i \in 1 .. Len(q)
    <3> QED BY <1>4, <1>6, <3>1, <3>2 DEF ToSet
  <2>2. CASE y \in ToSet(s)
    <3>1. PICK i \in 1 .. Len(s) : y = s[i]
      BY <1>3, <2>2 DEF ToSet
    <3>2. Len(q) + i \in 1 .. Len(q) + Len(s)
      BY ONLY <1>3, i \in 1 .. Len(s)
    <3> QED BY <1>4, <1>7, <3>1, <3>2 DEF ToSet
  <2> QED BY <1>9, <2>1, <2>2
<1> QED BY <1>2, <1>5, <1>6, <1>7, <1>8, <1>9

\* The first value is taken away.
LEMMA SeqTail ==
  ASSUME NEW q, IsSeq(q), q # <<>>, NEW r, r = Tail(q)
  PROVE  /\ IsSeq(r) /\ Len(r) = Len(q) - 1 /\ Len(q) > 0
         /\ \A i \in 1 .. Len(r) : r[i] = q[i + 1]
         /\ Head(q) = q[1]
<1>1. q \in Seq(ToSet(q))
  BY DEF IsSeq
<1>2. /\ r \in Seq(ToSet(q)) /\ Len(r) = Len(q) - 1
      /\ \A i \in 1 .. Len(r) : r[i] = q[i + 1]
  BY <1>1, HeadTailProperties
<1>3. Len(q) \in Nat /\ Len(q) # 0
  BY SeqIs, SeqMembers
<1>4. Len(r) \in Nat /\ DOMAIN r = 1 .. Len(r) /\ r = [i \in 1 .. Len(r) |-> r[i]]
  BY ONLY <1>2
<1>5. IsSeq(r)
  BY <1>4, SeqMade
<1>6. Head(q) = q[1]
  BY <1>1
<1> QED BY <1>2, <1>3, <1>5, <1>6

Put(q, i, x) == [q EXCEPT ![i] = x]

\* One place gets another value.
LEMMA SeqExcept ==
  ASSUME NEW q, IsSeq(q), NEW i, NEW x, NEW r, r = Put(q, i, x)
  PROVE  /\ IsSeq(r) /\ DOMAIN r = DOMAIN q /\ Len(r) = Len(q)
         /\ i \in DOMAIN q => r[i] = x
         /\ \A j \in DOMAIN q : j # i => r[j] = q[j]
<1>1. Len(q) \in Nat /\ DOMAIN q = 1 .. Len(q)
  BY SeqIs
<1>2. DOMAIN r = 1 .. Len(q) /\ r = [j \in 1 .. Len(q) |-> r[j]]
  BY <1>1 DEF Put
<1>3. IsSeq(r) /\ Len(r) = Len(q)
  BY <1>1, <1>2, SeqMade
<1> QED BY <1>1, <1>3 DEF Put

From(q, j) == SubSeq(q, j + 1, Len(q))

\* What follows the j-th place.
LEMMA SeqFrom ==
  ASSUME NEW q, IsSeq(q), NEW j \in 1 .. Len(q), NEW r, r = From(q, j)
  PROVE  /\ IsSeq(r) /\ Len(r) = Len(q) - j
         /\ \A i \in 1 .. Len(r) : r[i] = q[i + j]
<1>1. Len(q) \in Nat /\ DOMAIN q = 1 .. Len(q) /\ j \in Nat
  BY SeqIs
<1> DEFINE m == j + 1
           n == Len(q)
<1>2. m \in Int /\ n \in Int /\ \A i \in m .. n : q[i] \in ToSet(q)
  BY <1>1 DEF ToSet
<1>3. m \in Nat /\ n \in Nat /\ m = j + 1 /\ n = Len(q) /\ j <= n
  BY <1>1
<1>a. r = SubSeq(q, m, n)
  BY DEF From
<1> HIDE DEF m, n
<1>4. /\ SubSeq(q, m, n) \in Seq(ToSet(q))
      /\ Len(SubSeq(q, m, n)) = (IF m <= n THEN n - m + 1 ELSE 0)
      /\ \A i \in 1 .. n - m + 1 : SubSeq(q, m, n)[i] = q[m + i - 1]
  BY <1>2, SubSeqProperties
<1>5. /\ r \in Seq(ToSet(q)) /\ Len(r) = (IF m <= n THEN n - m + 1 ELSE 0)
      /\ \A i \in 1 .. n - m + 1 : r[i] = q[m + i - 1]
  BY ONLY <1>4, <1>a
<1>6. Len(r) = Len(q) - j
  <2>1. Len(r) = IF m <= n THEN n - m + 1 ELSE 0
    BY ONLY <1>5
  <2>2. j \in Nat
    BY ONLY <1>1
  <2>3. CASE m <= n
    BY ONLY <1>3, <2>1, <2>2, <2>3
  <2>4. CASE ~(m <= n)
    BY ONLY <1>3, <2>1, <2>2, <2>4
  <2> QED BY ONLY <2>3, <2>4
<1>7. ASSUME NEW i \in 1 .. Len(r) PROVE r[i] = q[i + j]
  <2>1. i \in 1 .. n - m + 1 /\ m + i - 1 = i + j
    BY ONLY <1>1, <1>3, <1>6, i \in 1 .. Len(r)
  <2> QED BY ONLY <1>5, <2>1
<1>8. Len(r) \in Nat /\ DOMAIN r = 1 .. Len(r) /\ r = [i \in 1 .. Len(r) |-> r[i]]
  BY ONLY <1>5
<1>9. IsSeq(r)
  BY ONLY <1>8, SeqMade
<1> QED BY ONLY <1>6, <1>7, <1>9

\* The value of the j-th place is taken out.
LEMMA SeqRemove ==
  ASSUME NEW q, IsSeq(q), NEW j \in 1 .. Len(q), NEW r, r = RemoveAt(q, j)
  PROVE  /\ IsSeq(r) /\ Len(r) = Len(q) - 1
         /\ \A i \in 1 .. Len(r) : r[i] = IF i < j THEN q[i] ELSE q[i + 1]
<1>1. Len(q) \in Nat /\ DOMAIN q = 1 .. Len(q) /\ j \in Nat
  BY SeqIs
<1> DEFINE S == ToSet(q)
           a == SubSeq(q, 1, j - 1)
           b == SubSeq(q, j + 1, Len(q))
<1>2. \A i \in 1 .. Len(q) : q[i] \in S
  BY <1>1 DEF ToSet
<1>3. /\ a \in Seq(S) /\ Len(a) = j - 1
      /\ \A i \in 1 .. j - 1 : a[i] = q[i]
  <2> DEFINE n == j - 1
  <2>1. n \in Int /\ 1 \in Int /\ \A i \in 1 .. n : q[i] \in S
    BY <1>1, <1>2
  <2> HIDE DEF n, S
  <2>2. /\ SubSeq(q, 1, n) \in Seq(S) /\ Len(SubSeq(q, 1, n)) = (IF 1 <= n THEN n - 1 + 1 ELSE 0)
        /\ \A i \in 1 .. n - 1 + 1 : SubSeq(q, 1, n)[i] = q[1 + i - 1]
    BY <2>1, SubSeqProperties
  <2>3. n \in Nat /\ n - 1 + 1 = n /\ \A i \in 1 .. n : 1 + i - 1 = i
    BY <1>1 DEF n
  <2>4. /\ SubSeq(q, 1, n) \in Seq(S) /\ Len(SubSeq(q, 1, n)) = n
        /\ \A i \in 1 .. n : SubSeq(q, 1, n)[i] = q[i]
    BY <2>2, <2>3
  <2> QED BY <2>4 DEF n
<1>4. /\ b \in Seq(S) /\ Len(b) = Len(q) - j
      /\ \A i \in 1 .. Len(b) : b[i] = q[i + j]
  <2>1. /\ IsSeq(b) /\ Len(b) = Len(q) - j
        /\ \A i \in 1 .. Len(b) : b[i] = q[i + j]
    <3> HIDE DEF b
    <3>1. b = From(q, j)
      BY DEF b, From
    <3> QED BY <3>1, SeqFrom
  <2> HIDE DEF b
  <2>2. \A i \in 1 .. Len(b) : i + j \in 1 .. Len(q)
    BY ONLY <1>1, <2>1, j \in 1 .. Len(q)
  <2>3. b \in [1 .. Len(b) -> S] /\ Len(b) \in Nat
    <3>1. \A i \in 1 .. Len(b) : b[i] \in S
      BY <1>2, <2>1, <2>2
    <3>2. Len(b) \in Nat /\ b = [i \in 1 .. Len(b) |-> b[i]]
      BY <2>1, SeqIs
    <3> HIDE DEF S
    <3> QED BY ONLY <3>1, <3>2
  <2> QED BY <2>1, <2>3, SeqDef
<1>5. r = a \o b
  BY DEF RemoveAt
<1> HIDE DEF a, b, S
<1>6. /\ r \in Seq(S) /\ Len(r) = Len(a) + Len(b)
      /\ \A i \in 1 .. Len(a) + Len(b) : r[i] = IF i <= Len(a) THEN a[i] ELSE b[i - Len(a)]
  <2>1. /\ a \o b \in Seq(S) /\ Len(a \o b) = Len(a) + Len(b)
        /\ \A i \in 1 .. Len(a) + Len(b) : (a \o b)[i] = IF i <= Len(a) THEN a[i] ELSE b[i - Len(a)]
    BY ONLY <1>3, <1>4, ConcatProperties
  <2> QED BY ONLY <1>5, <2>1
<1>7. Len(r) = Len(q) - 1
  BY <1>1, <1>3, <1>4, <1>6
<1>8. ASSUME NEW i \in 1 .. Len(r) PROVE r[i] = IF i < j THEN q[i] ELSE q[i + 1]
  <2>1. i \in Nat /\ i >= 1 /\ i <= Len(q) - 1 /\ i \in 1 .. Len(a) + Len(b)
    BY <1>1, <1>3, <1>4, <1>7
  <2>2. CASE i < j
    <3>1. i <= Len(a) /\ i \in 1 .. j - 1
      BY <1>1, <1>3, <2>1, <2>2
    <3> QED BY <1>3, <1>6, <2>1, <2>2, <3>1
  <2>3. CASE ~(i < j)
    <3>1. ~(i <= Len(a)) /\ i - Len(a) \in 1 .. Len(b) /\ (i - Len(a)) + j = i + 1
      BY <1>1, <1>3, <1>4, <2>1, <2>3
    <3> QED BY <1>4, <1>6, <2>1, <2>3, <3>1
  <2> QED BY <2>2, <2>3
<1>9. Len(r) \in Nat /\ DOMAIN r = 1 .. Len(r) /\ r = [i \in 1 .. Len(r) |-> r[i]]
  BY <1>6
<1> QED BY <1>7, <1>8, <1>9, SeqMade

-----------------------------------------------------------------------------
(***************************************************************************)
(* Sequences of distinct values.                                           *)
(***************************************************************************)
Distinct(q) == \A i, j \in DOMAIN q : q[i] = q[j] => i = j

\* A value that is not there yet is added.
LEMMA DistinctAdd ==
  ASSUME NEW q, IsSeq(q), Distinct(q), NEW x, x \notin ToSet(q), NEW r, r = Add(q, x)
  PROVE  Distinct(r)
<1>1. /\ IsSeq(r) /\ Len(r) = Len(q) + 1
      /\ \A i \in 1 .. Len(q) : r[i] = q[i]
      /\ r[Len(q) + 1] = x
  BY SeqAppend
<1>2. /\ Len(q) \in Nat /\ DOMAIN q = 1 .. Len(q) /\ DOMAIN r = 1 .. Len(q) + 1
  BY <1>1, SeqIs
<1>3. SUFFICES ASSUME NEW i \in DOMAIN r, NEW j \in DOMAIN r, r[i] = r[j] PROVE i = j
  BY DEF Distinct
<1>4. i \in DOMAIN q \/ i = Len(q) + 1
  BY ONLY <1>2, i \in DOMAIN r
<1>5. j \in DOMAIN q \/ j = Len(q) + 1
  BY ONLY <1>2, j \in DOMAIN r
<1>6. \A k \in DOMAIN q : r[k] = q[k] /\ r[k] # x
  BY <1>1, <1>2 DEF ToSet
<1> QED BY <1>1, <1>3, <1>4, <1>5, <1>6 DEF Distinct

Unlisted(q, s) == RemoveAt(q, CHOOSE i \in DOMAIN q : q[i] = s)

\* The sequence without a value that was in it.
LEMMA UnlistedIs ==
  ASSUME NEW q, IsSeq(q), Distinct(q), NEW s \in ToSet(q), NEW r, r = Unlisted(q, s)
  PROVE  IsSeq(r) /\ Distinct(r) /\ ToSet(r) = ToSet(q) \ {s} /\ Len(r) = Len(q) - 1
<1> DEFINE j == CHOOSE i \in DOMAIN q : q[i] = s
<1>1. Len(q) \in Nat /\ DOMAIN q = 1 .. Len(q)
  BY SeqIs
<1>2. j \in 1 .. Len(q) /\ q[j] = s
  BY <1>1 DEF ToSet
<1>3. r = RemoveAt(q, j)
  BY DEF Unlisted
<1> HIDE DEF j
<1>4. /\ IsSeq(r) /\ Len(r) = Len(q) - 1
      /\ \A i \in 1 .. Len(r) : r[i] = IF i < j THEN q[i] ELSE q[i + 1]
  BY <1>2, <1>3, SeqRemove
<1>5. DOMAIN r = 1 .. Len(r) /\ Len(r) \in Nat /\ j \in Nat
  BY <1>1, <1>2, <1>4, SeqIs
<1> DEFINE at == [i \in 1 .. Len(r) |-> IF i < j THEN i ELSE i + 1]
<1>6. ASSUME NEW i \in 1 .. Len(r)
      PROVE  at[i] \in 1 .. Len(q) /\ at[i] # j /\ r[i] = q[at[i]]
  <2>1. i \in Nat /\ i >= 1 /\ i <= Len(q) - 1
    BY ONLY <1>1, <1>4, <1>5, <1>6
  <2>2. CASE i < j
    BY <1>1, <1>2, <1>4, <1>5, <2>1, <2>2
  <2>3. CASE ~(i < j)
    BY <1>1, <1>2, <1>4, <1>5, <2>1, <2>3
  <2> QED BY <2>2, <2>3
<1>7. \A i, k \in 1 .. Len(r) : at[i] = at[k] => i = k
  BY ONLY <1>5
<1>8. ASSUME NEW i \in 1 .. Len(q), i # j PROVE \E k \in 1 .. Len(r) : at[k] = i
  <2>1. i \in Nat /\ i >= 1 /\ i <= Len(q)
    BY <1>1
  <2>2. CASE i < j
    <3>1. i \in 1 .. Len(r) /\ at[i] = i
      BY ONLY <1>1, <1>2, <1>4, <1>5, <2>1, <2>2
    <3> QED BY <3>1
  <2>3. CASE ~(i < j)
    <3>1. i - 1 \in 1 .. Len(r) /\ at[i - 1] = i
      BY ONLY <1>1, <1>2, <1>4, <1>5, <1>8, <2>1, <2>3
    <3> QED BY <3>1
  <2> QED BY <2>2, <2>3
<1> HIDE DEF at
<1>9. Distinct(r)
  BY <1>1, <1>5, <1>6, <1>7 DEF Distinct
<1>10. ToSet(r) = ToSet(q) \ {s}
  <2>1. ASSUME NEW x \in ToSet(r) PROVE x \in ToSet(q) /\ x # s
    <3>1. PICK i \in 1 .. Len(r) : x = r[i]
      BY <1>5 DEF ToSet
    <3>2. at[i] \in DOMAIN q /\ at[i] # j /\ x = q[at[i]]
      BY <1>1, <1>6, <3>1
    <3> QED BY <1>1, <1>2, <3>2 DEF ToSet, Distinct
  <2>2. ASSUME NEW x \in ToSet(q), x # s PROVE x \in ToSet(r)
    <3>1. PICK i \in 1 .. Len(q) : x = q[i]
      BY <1>1 DEF ToSet
    <3>2. i # j
      BY <1>2, <2>2, <3>1
    <3>3. PICK k \in 1 .. Len(r) : at[k] = i
      BY <1>8, <3>2
    <3>4. r[k] = x
      BY <1>6, <3>1, <3>3
    <3> QED BY <1>5, <3>4 DEF ToSet
  <2> QED BY <2>1, <2>2
<1> QED BY <1>4, <1>9, <1>10

\* The first value leaves.
LEMMA FirstLeaves ==
  ASSUME NEW q, IsSeq(q), Distinct(q), q # <<>>, NEW r, r = Tail(q)
  PROVE  /\ IsSeq(r) /\ Distinct(r) /\ ToSet(r) = ToSet(q) \ {Head(q)}
         /\ Head(q) \in ToSet(q)
<1>1. /\ IsSeq(r) /\ Len(r) = Len(q) - 1 /\ Len(q) > 0
      /\ \A i \in 1 .. Len(r) : r[i] = q[i + 1]
      /\ Head(q) = q[1]
  BY SeqTail
<1>2. Len(q) \in Nat /\ DOMAIN q = 1 .. Len(q) /\ Len(r) \in Nat /\ DOMAIN r = 1 .. Len(r)
  BY <1>1, SeqIs
<1>3. \A i \in 1 .. Len(r) : i + 1 \in DOMAIN q /\ i + 1 # 1
  BY ONLY <1>1, <1>2
<1>4. Distinct(r)
  <2>1. SUFFICES ASSUME NEW i \in 1 .. Len(r), NEW j \in 1 .. Len(r), r[i] = r[j] PROVE i = j
    BY <1>2 DEF Distinct
  <2>2. i + 1 = j + 1
    BY <1>1, <1>3, <2>1 DEF Distinct
  <2> QED BY ONLY <1>2, <2>2, i \in 1 .. Len(r), j \in 1 .. Len(r)
<1>5. ToSet(r) = ToSet(q) \ {Head(q)}
  <2>1. ASSUME NEW x \in ToSet(r) PROVE x \in ToSet(q) /\ x # Head(q)
    <3>1. PICK i \in 1 .. Len(r) : x = r[i]
      BY <1>2 DEF ToSet
    <3>2. x = q[i + 1] /\ i + 1 \in DOMAIN q /\ i + 1 # 1 /\ 1 \in DOMAIN q
      BY <1>1, <1>2, <1>3, <3>1
    <3> QED BY <1>1, <3>2 DEF ToSet, Distinct
  <2>2. ASSUME NEW x \in ToSet(q), x # Head(q) PROVE x \in ToSet(r)
    <3>1. PICK i \in 1 .. Len(q) : x = q[i]
      BY <1>2 DEF ToSet
    <3>2. i # 1
      BY <1>1, <2>2, <3>1
    <3>3. i - 1 \in 1 .. Len(r) /\ (i - 1) + 1 = i
      BY ONLY <1>1, <1>2, <3>2, i \in 1 .. Len(q)
    <3>4. r[i - 1] = x
      BY <1>1, <3>1, <3>3
    <3> QED BY <1>2, <3>3, <3>4 DEF ToSet
  <2> QED BY <2>1, <2>2
<1>6. 1 \in DOMAIN q
  BY <1>1, <1>2
<1> QED BY <1>1, <1>4, <1>5, <1>6 DEF ToSet
=============================================================================
