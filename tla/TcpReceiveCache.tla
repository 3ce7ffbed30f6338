--------------------------- MODULE TcpReceiveCache ---------------------------
(***************************************************************************)
(* Lemmas about the reassembly cache of TcpReceive: stretches of the       *)
(* stream, the segments that hold them, what a cache holds in all, and     *)
(* what becomes of it when a segment is inserted.                          *)
(*                                                                         *)
(* A tidy cache is known by the places it covers: no two of its segments   *)
(* touch, so that sums over segments are cardinalities of sets of places.  *)
(***************************************************************************)
EXTENDS TcpReceive, DataLemmas

----------------------------------------------------------------------------
(* Definitions. *)

\* A stretch of the stream, perhaps with the FIN behind its end, and not nothing.
TrueSegment(s) ==
  \E a, b \in 1 .. FinPlace, fin \in BOOLEAN :
    /\ s = Segment(a, b, fin)
    /\ a <= b /\ (fin => b = FinPlace) /\ (a < b \/ fin)

\* Two segments neither overlap nor touch.
Apart(s, t) == End(s) < t.seq \/ End(t) < s.seq

Tidy(C) ==
  /\ IsFiniteSet(C)
  /\ \A s \in C : TrueSegment(s)
  /\ \A s, t \in C : s # t => Apart(s, t)

\* The places of the stream in a segment, and in a cache.
Span(s) == s.seq .. End(s) - 1
Covered(C) == UNION {Span(s) : s \in C}

\* The cached segments that a new one overlaps or touches.
Touched(C, new) == {s \in C : s.seq <= End(new) /\ End(s) >= new.seq}

----------------------------------------------------------------------------
(* Stretches of the stream. *)

(* The numbers of the stream. *)
LEMMA StreamNumbers ==
  StreamLen \in Nat /\ StreamLen > 0 /\ FinPlace \in Nat /\ FinPlace = StreamLen + 1
BY ReceiveAssumption DEF FinPlace

(* A stretch of the stream is a sequence of its bytes. *)
LEMMA BytesType ==
  ASSUME NEW a \in 1 .. FinPlace, NEW b \in 1 .. FinPlace, a <= b
  PROVE  /\ Bytes(a, b) \in Seq(1 .. StreamLen)
         /\ Len(Bytes(a, b)) = b - a
         /\ \A i \in 1 .. (b - a) : Bytes(a, b)[i] = a + i - 1
<1>1. b - a \in Nat
  BY StreamNumbers
<1>2. Bytes(a, b) \in [1 .. (b - a) -> 1 .. StreamLen]
  BY StreamNumbers DEF Bytes
<1>3. Bytes(a, b) \in Seq(1 .. StreamLen)
  BY <1>1, <1>2, SeqDef
<1>4. DOMAIN Bytes(a, b) = 1 .. Len(Bytes(a, b)) /\ Len(Bytes(a, b)) \in Nat
  BY <1>3, LenProperties
<1>5. DOMAIN Bytes(a, b) = 1 .. (b - a)
  BY DEF Bytes
<1>6. Len(Bytes(a, b)) = b - a
  BY <1>1, <1>4, <1>5
<1> QED BY <1>3, <1>6 DEF Bytes

(* A stretch is empty when its ends meet. *)
LEMMA BytesEmpty ==
  ASSUME NEW a \in 1 .. FinPlace, NEW b \in 1 .. FinPlace, a <= b
  PROVE  Bytes(a, b) = <<>> <=> a = b
<1>1. Bytes(a, b) \in Seq(1 .. StreamLen) /\ Len(Bytes(a, b)) = b - a
  BY BytesType
<1>2. Bytes(a, b) = <<>> <=> Len(Bytes(a, b)) = 0
  BY <1>1, EmptySeq
<1> QED BY <1>1, <1>2, StreamNumbers

(* Two sequences of the stream are equal when they are so byte for byte. *)
LEMMA SameBytes ==
  ASSUME NEW s \in Seq(1 .. StreamLen), NEW a \in 1 .. FinPlace, NEW b \in 1 .. FinPlace,
         a <= b, Len(s) = b - a, \A i \in 1 .. (b - a) : s[i] = a + i - 1
  PROVE  s = Bytes(a, b)
<1>1. /\ Bytes(a, b) \in Seq(1 .. StreamLen)
      /\ Len(Bytes(a, b)) = b - a
      /\ \A i \in 1 .. (b - a) : Bytes(a, b)[i] = a + i - 1
  BY BytesType
<1> QED BY <1>1, SeqEqual

(* The first bytes of a stretch. *)
LEMMA BytesTake ==
  ASSUME NEW a \in 1 .. FinPlace, NEW b \in 1 .. FinPlace, NEW n \in 0 .. (b - a), a <= b
  PROVE  SubSeq(Bytes(a, b), 1, n) = Bytes(a, a + n)
<1> DEFINE t == Bytes(a, b)
           s == SubSeq(t, 1, n)
<1>1. /\ t \in Seq(1 .. StreamLen)
      /\ Len(t) = b - a
      /\ \A i \in 1 .. (b - a) : t[i] = a + i - 1
  BY BytesType
<1>2. n \in Nat /\ a + n \in 1 .. FinPlace /\ a <= a + n /\ n <= b - a /\ a \in Nat /\ b \in Nat
  BY StreamNumbers
<1> HIDE DEF t
<1>3. \A i \in 1 .. n : t[i] \in 1 .. StreamLen
  BY <1>1, <1>2, StreamNumbers
<1>4. /\ s \in Seq(1 .. StreamLen)
      /\ Len(s) = IF 1 <= n THEN n - 1 + 1 ELSE 0
      /\ \A i \in 1 .. n - 1 + 1 : s[i] = t[1 + i - 1]
  BY <1>2, <1>3, SubSeqProperties
<1>5. Len(s) = (a + n) - a /\ \A i \in 1 .. ((a + n) - a) : s[i] = a + i - 1
  BY <1>1, <1>2, <1>4
<1> HIDE DEF s
<1>6. s = Bytes(a, a + n)
  BY <1>2, <1>4, <1>5, SameBytes
<1> QED BY <1>6 DEF s, t

(* ... and the others. *)
LEMMA BytesDrop ==
  ASSUME NEW a \in 1 .. FinPlace, NEW b \in 1 .. FinPlace, NEW n \in 0 .. (b - a), a <= b
  PROVE  Drop(Bytes(a, b), n) = Bytes(a + n, b)
<1> DEFINE t == Bytes(a, b)
           s == SubSeq(t, n + 1, Len(t))
<1>1. /\ t \in Seq(1 .. StreamLen)
      /\ Len(t) = b - a
      /\ \A i \in 1 .. (b - a) : t[i] = a + i - 1
  BY BytesType
<1>2. n \in Nat /\ a + n \in 1 .. FinPlace /\ a + n <= b /\ n <= b - a /\ a \in Nat /\ b \in Nat
  BY StreamNumbers
<1> HIDE DEF t
<1>7. n + 1 \in Int /\ Len(t) \in Int /\ \A i \in n + 1 .. Len(t) : t[i] \in 1 .. StreamLen
  BY <1>1, <1>2, StreamNumbers
<1>3. /\ s \in Seq(1 .. StreamLen)
      /\ Len(s) = IF n + 1 <= Len(t) THEN Len(t) - (n + 1) + 1 ELSE 0
      /\ \A i \in 1 .. Len(t) - (n + 1) + 1 : s[i] = t[(n + 1) + i - 1]
  BY <1>7, SubSeqProperties
<1>4. Len(s) = b - (a + n)
  BY <1>1, <1>2, <1>3
<1>5. \A i \in 1 .. (b - (a + n)) : s[i] = (a + n) + i - 1
  BY <1>1, <1>2, <1>3, <1>4
<1> HIDE DEF s
<1>6. s = Bytes(a + n, b)
  BY <1>2, <1>3, <1>4, <1>5, SameBytes
<1> QED BY <1>6 DEF s, t, Drop

(* Neighbouring stretches joined. *)
LEMMA BytesJoin ==
  ASSUME NEW a \in 1 .. FinPlace, NEW b \in 1 .. FinPlace, NEW c \in 1 .. FinPlace,
         a <= b, b <= c
  PROVE  Bytes(a, b) \o Bytes(b, c) = Bytes(a, c)
<1> DEFINE s == Bytes(a, b)
           t == Bytes(b, c)
           u == s \o t
<1>0. a \in Nat /\ b \in Nat /\ c \in Nat
  BY StreamNumbers
<1>1. /\ s \in Seq(1 .. StreamLen) /\ Len(s) = b - a
      /\ \A i \in 1 .. (b - a) : s[i] = a + i - 1
  BY BytesType
<1>2. /\ t \in Seq(1 .. StreamLen) /\ Len(t) = c - b
      /\ \A i \in 1 .. (c - b) : t[i] = b + i - 1
  BY BytesType
<1> HIDE DEF s, t
<1>3. /\ u \in Seq(1 .. StreamLen) /\ Len(u) = Len(s) + Len(t)
      /\ \A i \in 1 .. (Len(s) + Len(t)) :
           u[i] = IF i <= Len(s) THEN s[i] ELSE t[i - Len(s)]
  BY <1>1, <1>2, ConcatProperties
<1>4. Len(u) = c - a
  BY <1>0, <1>1, <1>2, <1>3
<1>5. ASSUME NEW i \in 1 .. (c - a) PROVE u[i] = a + i - 1
  <2>1. CASE i <= b - a
    BY <1>0, <1>1, <1>2, <1>3, <2>1
  <2>2. CASE ~(i <= b - a)
    <3>1. i - (b - a) \in 1 .. (c - b) /\ i \in 1 .. (Len(s) + Len(t)) /\ ~(i <= Len(s))
      BY <1>0, <1>1, <1>2, <2>2
    <3>2. u[i] = t[i - (b - a)]
      BY <1>1, <1>3, <3>1
    <3> QED BY <1>0, <1>2, <3>1, <3>2
  <2> QED BY <2>1, <2>2
<1>6. a <= c
  BY <1>0
<1> HIDE DEF u
<1>7. u = Bytes(a, c)
  BY <1>3, <1>4, <1>5, <1>6, SameBytes
<1> QED BY <1>7 DEF u, s, t

----------------------------------------------------------------------------
(* Segments and what a cache covers. *)

(* The parts of a segment. *)
LEMMA SegmentParts ==
  ASSUME NEW a \in 1 .. FinPlace, NEW b \in 1 .. FinPlace, a <= b, NEW fin
  PROVE  LET s == Segment(a, b, fin)
         IN  /\ s.seq = a /\ s.data = Bytes(a, b) /\ s.fin = fin
             /\ Len(s.data) = b - a /\ End(s) = b
             /\ s.data = <<>> <=> a = b
<1>1. Len(Bytes(a, b)) = b - a /\ (Bytes(a, b) = <<>> <=> a = b) /\ a \in Nat /\ b \in Nat
  BY BytesType, BytesEmpty, StreamNumbers
<1>2. /\ Segment(a, b, fin).seq = a /\ Segment(a, b, fin).data = Bytes(a, b)
      /\ Segment(a, b, fin).fin = fin
  BY DEF Segment
<1>3. End(Segment(a, b, fin)) = b
  BY <1>1, <1>2 DEF End
<1> QED BY <1>1, <1>2, <1>3

(* A true segment is known by its ends and its FIN. *)
LEMMA SegmentIs ==
  ASSUME NEW s, TrueSegment(s)
  PROVE  /\ s.seq \in 1 .. FinPlace /\ End(s) \in 1 .. FinPlace /\ s.fin \in BOOLEAN
         /\ s.seq \in Nat /\ End(s) \in Nat
         /\ s.seq <= End(s) /\ (s.fin => End(s) = FinPlace) /\ (s.seq < End(s) \/ s.fin)
         /\ s = Segment(s.seq, End(s), s.fin)
         /\ s.data = Bytes(s.seq, End(s)) /\ Len(s.data) = End(s) - s.seq
         /\ s.data = <<>> <=> s.seq = End(s)
<1>1. PICK a \in 1 .. FinPlace, b \in 1 .. FinPlace, fin \in BOOLEAN :
        /\ s = Segment(a, b, fin)
        /\ a <= b /\ (fin => b = FinPlace) /\ (a < b \/ fin)
  BY DEF TrueSegment
<1>2. /\ s.seq = a /\ s.data = Bytes(a, b) /\ s.fin = fin
      /\ Len(s.data) = b - a /\ End(s) = b
      /\ s.data = <<>> <=> a = b
  BY <1>1, SegmentParts
<1>3. a \in Nat /\ b \in Nat
  BY StreamNumbers
<1> QED BY <1>1, <1>2, <1>3

(* What is known of a segment of the stream. *)
LEMMA SegmentTrue ==
  ASSUME NEW a \in 1 .. FinPlace, NEW b \in 1 .. FinPlace, NEW fin \in BOOLEAN,
         a <= b, fin => b = FinPlace, a < b \/ fin
  PROVE  TrueSegment(Segment(a, b, fin))
BY DEF TrueSegment

(* What a tidy cache covers are places of the stream. *)
LEMMA CoveredType ==
  ASSUME NEW C, Tidy(C)
  PROVE  /\ Covered(C) \subseteq 1 .. StreamLen
         /\ IsFiniteSet(Covered(C))
         /\ Cardinality(Covered(C)) \in Nat
<1>1. ASSUME NEW s \in C PROVE Span(s) \subseteq 1 .. StreamLen
  <2>1. s.seq \in 1 .. FinPlace /\ End(s) \in 1 .. FinPlace
    BY SegmentIs DEF Tidy
  <2> QED BY <2>1, StreamNumbers DEF Span
<1>2. Covered(C) \subseteq 1 .. StreamLen
  BY <1>1 DEF Covered
<1>3. IsFiniteSet(1 .. StreamLen)
  BY StreamNumbers, FS_Interval
<1> QED BY <1>2, <1>3, FS_Subset, FS_CardinalityType

(* No place of a tidy cache is in two of its segments. *)
LEMMA OneSpan ==
  ASSUME NEW C, Tidy(C), NEW s \in C, NEW t \in C, NEW i, i \in Span(s), i \in Span(t)
  PROVE  s = t
<1>1. s.seq \in Nat /\ End(s) \in Nat /\ t.seq \in Nat /\ End(t) \in Nat
  BY SegmentIs DEF Tidy
<1>2. ~Apart(s, t)
  BY <1>1 DEF Apart, Span
<1> QED BY <1>2 DEF Tidy

(* A byte for each segment that holds it: as many as places they cover. *)
LEMMA HeldCovers ==
  ASSUME NEW C, Tidy(C), NEW D
  PROVE  LET H == {x \in Held(C) : x[2] \in D}
         IN  IsFiniteSet(H) /\ Cardinality(H) = Cardinality(Covered(C) \cap D)
<1> DEFINE H == {x \in Held(C) : x[2] \in D}
           P == Covered(C) \cap D
           home(i) == CHOOSE s \in C : i \in Span(s)
           f == [i \in P |-> <<home(i), i>>]
<1>1. IsFiniteSet(P)
  BY CoveredType, FS_Subset
<1>2. ASSUME NEW i \in P PROVE home(i) \in C /\ i \in Span(home(i))
  BY DEF Covered
<1>3. ASSUME NEW i \in P PROVE f[i] \in H
  <2>1. f[i] = <<home(i), i>> /\ home(i) \in C /\ i \in Span(home(i)) /\ i \in D
    BY <1>2
  <2>2. f[i] \in {home(i)} \X Span(home(i))
    BY <2>1
  <2>3. f[i] \in Held(C)
    BY <2>1, <2>2 DEF Held, Span
  <2> QED BY <2>1, <2>3
<1>4. f \in [P -> H]
  BY <1>3
<1>5. \A i, j \in P : f[i] = f[j] => i = j
  BY DEF P
<1>6. ASSUME NEW x \in H PROVE \E i \in P : f[i] = x
  <2>1. PICK s \in C : x \in {s} \X (s.seq .. End(s) - 1)
    BY DEF Held
  <2>2. x = <<s, x[2]>> /\ x[2] \in Span(s) /\ x[2] \in D
    BY <2>1 DEF Span
  <2>3. x[2] \in P
    BY <2>2 DEF Covered
  <2>4. home(x[2]) = s
    BY <1>2, <2>2, <2>3, OneSpan
  <2> QED BY <2>2, <2>3, <2>4
<1> HIDE DEF H, P, f
<1>7. IsFiniteSet(H) /\ Cardinality(H) = Cardinality(P)
  BY <1>1, <1>4, <1>5, <1>6, OneToOne
<1> QED BY <1>7 DEF H, P

(* The bytes in a tidy cache are the places it covers. *)
LEMMA TotalCovers ==
  ASSUME NEW C, Tidy(C)
  PROVE  Total(C) = Cardinality(Covered(C)) /\ Total(C) \in Nat
<1>1. {x \in Held(C) : x[2] \in Covered(C)} = Held(C)
  BY DEF Held, Covered, Span
<1>2. Covered(C) \cap Covered(C) = Covered(C)
  OBVIOUS
<1>3. Cardinality(Held(C)) = Cardinality(Covered(C))
  BY <1>1, <1>2, HeldCovers
<1> QED BY <1>3, CoveredType DEF Total

(* Part of a tidy cache is tidy. *)
LEMMA TidySubset ==
  ASSUME NEW C, Tidy(C), NEW S, S \subseteq C
  PROVE  Tidy(S) /\ Cardinality(S) <= Cardinality(C) /\ Cardinality(S) \in Nat
BY FS_Subset, FS_CardinalityType DEF Tidy

(* Segments that leave a tidy cache take their bytes with them. *)
LEMMA TotalMinus ==
  ASSUME NEW C, Tidy(C), NEW S, S \subseteq C
  PROVE  /\ Total(S) \in Nat /\ Total(C) \in Nat
         /\ Total(S) <= Total(C) /\ Total(C \ S) = Total(C) - Total(S)
<1>1. Tidy(S) /\ Tidy(C \ S)
  BY TidySubset
<1>2. Covered(C \ S) \cap Covered(S) = {}
  BY OneSpan DEF Covered
<1>3. Covered(C \ S) \cup Covered(S) = Covered(C)
  BY DEF Covered
<1> DEFINE A == Covered(C \ S)
           B == Covered(S)
<1>4. IsFiniteSet(A) /\ IsFiniteSet(B) /\ Cardinality(A) \in Nat /\ Cardinality(B) \in Nat
  BY <1>1, CoveredType
<1> HIDE DEF A, B
<1>5. Cardinality(A \cup B) = Cardinality(A) + Cardinality(B) - Cardinality(A \cap B)
  BY <1>4, FS_Union
<1>6. Cardinality(A \cap B) = 0
  BY <1>2, FS_EmptySet DEF A, B
<1>7. Cardinality(A \cup B) = Cardinality(A) + Cardinality(B)
  BY <1>4, <1>5, <1>6
<1>8. /\ Total(C) = Cardinality(A \cup B) /\ Total(S) = Cardinality(B)
      /\ Total(C \ S) = Cardinality(A)
  BY <1>1, <1>3, TotalCovers DEF A, B
<1> QED BY <1>4, <1>7, <1>8

(* The bytes of a cache that covers a new segment as well. *)
LEMMA TotalPlus ==
  ASSUME NEW C, Tidy(C), NEW K, Tidy(K), NEW a \in 1 .. FinPlace, NEW b \in 1 .. FinPlace,
         a <= b, Covered(K) = Covered(C) \cup (a .. b - 1)
  PROVE  LET n == (b - a) - Cardinality({x \in Held(C) : x[2] \in a .. b - 1})
         IN  n \in Nat /\ Total(K) = Total(C) + n
<1> DEFINE A == Covered(C)
           B == a .. b - 1
<1>1. a \in Nat /\ b \in Nat
  BY StreamNumbers
<1>2. IsFiniteSet(B) /\ Cardinality(B) = b - a
  <2>1. a \in Int /\ b - 1 \in Int
    BY <1>1
  <2>2. IsFiniteSet(B) /\ Cardinality(B) = IF a <= b - 1 THEN (b - 1) - a + 1 ELSE 0
    BY <2>1, FS_Interval
  <2> QED BY <1>1, <2>2
<1>3. IsFiniteSet(A) /\ Cardinality(A) \in Nat
  BY CoveredType
<1>4. Cardinality({x \in Held(C) : x[2] \in a .. b - 1}) = Cardinality(A \cap B)
  BY HeldCovers
<1>5. Total(C) = Cardinality(A) /\ Total(K) = Cardinality(A \cup B)
  BY TotalCovers
<1> HIDE DEF A, B
<1>6. Cardinality(A \cup B) = Cardinality(A) + Cardinality(B) - Cardinality(A \cap B)
  BY <1>2, <1>3, FS_Union
<1>7. Cardinality(A \cap B) <= Cardinality(B) /\ Cardinality(A \cap B) \in Nat
  <2>1. A \cap B \subseteq B
    OBVIOUS
  <2> QED BY <1>2, <2>1, FS_Subset, FS_CardinalityType
<1> QED BY <1>1, <1>2, <1>3, <1>4, <1>5, <1>6, <1>7 DEF B

----------------------------------------------------------------------------
(* What is left of the cached segments beside a new one. *)

\* The part of a touched segment before the new one, and the part after it.
Before(s, new) == IF s.seq < new.seq THEN {Segment(s.seq, new.seq, FALSE)} ELSE {}
After(s, new) ==
  IF End(s) > End(new) \/ s.seq = End(new) THEN {Segment(End(new), End(s), s.fin)} ELSE {}

(* Two segments share nothing when one ends before the other begins. *)
LEMMA SharedNothing ==
  ASSUME NEW s, TrueSegment(s), NEW t, TrueSegment(t)
  PROVE  Shared(s, t) = 0 <=> \/ End(s) <= t.seq \/ End(t) <= s.seq
                              \/ s.seq = End(s) \/ t.seq = End(t)
<1>1. s.seq \in Nat /\ End(s) \in Nat /\ t.seq \in Nat /\ End(t) \in Nat
  BY SegmentIs
<1>2. s.seq <= End(s) /\ t.seq <= End(t)
  BY SegmentIs
<1> QED BY <1>1, <1>2 DEF Shared, Most, Least

(* A segment far from the new one stays. *)
LEMMA BesideFar ==
  ASSUME NEW s, TrueSegment(s), NEW new, TrueSegment(new), new.seq < End(new),
         s.seq > End(new) \/ End(s) < new.seq
  PROVE  Beside(s, new) = {s}
<1>1. s.seq \in Nat /\ End(s) \in Nat /\ new.seq \in Nat /\ End(new) \in Nat
  BY SegmentIs
<1>2. s.seq <= End(s)
  BY SegmentIs
<1>3. Shared(s, new) = 0
  BY <1>1, <1>2, SharedNothing
<1>4. ~(s.seq \in new.seq .. End(new) - 1)
  BY <1>1, <1>2
<1> QED BY <1>3, <1>4 DEF Beside

(* Of one that overlaps or touches it, the parts before and after it stay. *)
LEMMA BesideTouched ==
  ASSUME NEW s, TrueSegment(s), NEW new, TrueSegment(new), new.seq < End(new),
         s.seq <= End(new), End(s) >= new.seq
  PROVE  Beside(s, new) = Before(s, new) \cup After(s, new)
<1> DEFINE a == new.seq
           b == End(new)
<1>1. /\ s.seq \in Nat /\ End(s) \in Nat /\ a \in Nat /\ b \in Nat
      /\ s.seq <= End(s)
      /\ s.seq \in 1 .. FinPlace /\ End(s) \in 1 .. FinPlace
      /\ a \in 1 .. FinPlace /\ b \in 1 .. FinPlace
  BY SegmentIs
<1>2. /\ s.data = Bytes(s.seq, End(s)) /\ s.fin \in BOOLEAN
      /\ s.data = <<>> <=> s.seq = End(s)
      /\ s = Segment(s.seq, End(s), s.fin)
      /\ (s.fin => End(s) = FinPlace) /\ (s.seq < End(s) \/ s.fin)
  BY SegmentIs
<1>3. CASE Shared(s, new) = 0
  <2>1. End(s) <= a \/ b <= s.seq \/ s.seq = End(s)
    BY <1>1, <1>3, SharedNothing
  <2>2. CASE s.seq < a
    <3>1. End(s) = a
      BY <1>1, <2>1, <2>2
    <3>2. ~s.fin
      BY <1>1, <1>2, <3>1, StreamNumbers
    <3>3. s = Segment(s.seq, a, FALSE)
      BY <1>2, <3>1, <3>2
    <3>6. Before(s, new) = {s}
      BY <2>2, <3>3 DEF Before
    <3>7. After(s, new) = {}
      BY <1>1, <2>2, <3>1 DEF After
    <3>4. Before(s, new) = {s} /\ After(s, new) = {}
      BY <3>6, <3>7
    <3>5. Beside(s, new) = {s}
      BY <1>3, <3>2 DEF Beside
    <3> QED BY <3>4, <3>5
  <2>3. CASE ~(s.seq < a)
    <3>1. s.seq = b
      <4>1. CASE s.seq = End(s)
        BY <1>1, <1>2, <4>1
      <4>2. CASE s.seq # End(s)
        BY <1>1, <2>1, <2>3, <4>2
      <4> QED BY <4>1, <4>2
    <3>2. s = Segment(b, End(s), s.fin)
      BY <1>2, <3>1
    <3>3. Before(s, new) = {} /\ After(s, new) = {s}
      BY <2>3, <3>1, <3>2 DEF Before, After
    <3>4. ~(s.seq \in a .. b - 1)
      BY <1>1, <3>1
    <3>5. Beside(s, new) = {s}
      BY <1>3, <3>4 DEF Beside
    <3> QED BY <3>3, <3>5
  <2> QED BY <2>2, <2>3
<1>4. CASE Shared(s, new) # 0
  <2>1. s.seq < End(s) /\ s.seq < b /\ a < End(s)
    BY <1>1, <1>4, SharedNothing
  <2>2. ASSUME s.seq < a
        PROVE  [seq |-> s.seq, data |-> SubSeq(s.data, 1, a - s.seq), fin |-> FALSE]
                 = Segment(s.seq, a, FALSE)
    <3>1. a - s.seq \in 0 .. (End(s) - s.seq) /\ s.seq + (a - s.seq) = a
      BY <1>1, <2>1, <2>2
    <3>2. SubSeq(Bytes(s.seq, End(s)), 1, a - s.seq) = Bytes(s.seq, s.seq + (a - s.seq))
      BY <1>1, <3>1, BytesTake
    <3> QED BY <1>2, <3>1, <3>2 DEF Segment
  <2>3. ASSUME End(s) > b
        PROVE  [seq |-> b, data |-> Drop(s.data, b - s.seq), fin |-> s.fin]
                 = Segment(b, End(s), s.fin)
    <3>1. b - s.seq \in 0 .. (End(s) - s.seq) /\ s.seq + (b - s.seq) = b
      BY <1>1, <2>1, <2>3
    <3>2. Drop(Bytes(s.seq, End(s)), b - s.seq) = Bytes(s.seq + (b - s.seq), End(s))
      BY <1>1, <3>1, BytesDrop
    <3> QED BY <1>2, <3>1, <3>2 DEF Segment
  <2>4. s.seq # b
    BY <1>1, <2>1
  <2>5. Beside(s, new) =
          (IF s.seq < a THEN {[seq |-> s.seq, data |-> SubSeq(s.data, 1, a - s.seq), fin |-> FALSE]}
           ELSE {})
          \cup
          (IF End(s) > b THEN {[seq |-> b, data |-> Drop(s.data, b - s.seq), fin |-> s.fin]}
           ELSE {})
    BY <1>4 DEF Beside
  <2> QED BY <2>2, <2>3, <2>4, <2>5 DEF Before, After
<1> QED BY <1>3, <1>4

(* At most one cached segment reaches in from the left, and one from the right. *)
LEMMA OneBefore ==
  ASSUME NEW C, Tidy(C), NEW new, TrueSegment(new), new.seq < End(new),
         NEW s \in Touched(C, new), NEW t \in Touched(C, new), s.seq < new.seq, t.seq < new.seq
  PROVE  s = t
<1>1. s.seq \in Nat /\ End(s) \in Nat /\ t.seq \in Nat /\ End(t) \in Nat /\ new.seq \in Nat
  BY SegmentIs DEF Tidy, Touched
<1>2. ~Apart(s, t)
  BY <1>1 DEF Apart, Touched
<1> QED BY <1>2 DEF Tidy, Touched

(* At most one touches behind the new segment. *)
LEMMA OneAfter ==
  ASSUME NEW C, Tidy(C), NEW new, TrueSegment(new), new.seq < End(new),
         NEW s \in Touched(C, new), NEW t \in Touched(C, new),
         End(s) > End(new) \/ s.seq = End(new), End(t) > End(new) \/ t.seq = End(new)
  PROVE  s = t
<1>1. s.seq \in Nat /\ End(s) \in Nat /\ t.seq \in Nat /\ End(t) \in Nat /\ End(new) \in Nat
  BY SegmentIs DEF Tidy, Touched
<1>2. s.seq <= End(s) /\ t.seq <= End(t) /\ s.seq <= End(new) /\ t.seq <= End(new)
  BY SegmentIs DEF Tidy, Touched
<1>3. ~Apart(s, t)
  BY <1>1, <1>2 DEF Apart
<1> QED BY <1>3 DEF Tidy, Touched

----------------------------------------------------------------------------
(* Joining neighbours. *)

\* The segments K are clear of the stretch from a to b.
Clear(K, a, b) == \A s \in K : TrueSegment(s) /\ (End(s) < a \/ s.seq > b)

\* The segments X begin at b.
Behind(X, b) == \A s \in X : TrueSegment(s) /\ s.seq = b

(* The turn that joins the segment before the new one. *)
LEMMA MergeBefore ==
  ASSUME NEW lo \in 1 .. FinPlace, NEW a \in 1 .. FinPlace, NEW b \in 1 .. FinPlace,
         lo < a, a < b, NEW fin \in BOOLEAN, NEW K, Clear(K, lo, b),
         NEW X, Behind(X, b),
         NEW no \in BOOLEAN, ~no, NEW l, l = Segment(lo, a, no),
         NEW cur, cur = Segment(a, b, fin), NEW c, c = Segment(lo, b, fin)
  PROVE  merge_once([cache |-> K \cup {l} \cup X \cup {cur}, cur |-> cur])
           = [cache |-> K \cup X \cup {c}, cur |-> c]
<1> DEFINE A == K \cup {l} \cup X \cup {cur}
           m == [cache |-> A, cur |-> cur]
           left == {s \in m.cache \ {m.cur} : ~s.fin /\ End(s) = m.cur.seq}
<1>0. lo \in Nat /\ a \in Nat /\ b \in Nat
  BY StreamNumbers
<1>1. /\ cur.seq = a /\ End(cur) = b /\ cur.fin = fin /\ cur.data = Bytes(a, b)
      /\ l.seq = lo /\ End(l) = a /\ l.fin = no /\ l.data = Bytes(lo, a)
  <2>1. lo <= a /\ a <= b
    BY <1>0
  <2>2. /\ cur.seq = a /\ End(cur) = b /\ cur.fin = fin /\ cur.data = Bytes(a, b)
    BY <2>1, SegmentParts
  <2>3. /\ l.seq = lo /\ End(l) = a /\ l.fin = no /\ l.data = Bytes(lo, a)
    BY <2>1, SegmentParts
  <2> QED BY <2>2, <2>3
<1>2. ASSUME NEW s \in K PROVE s # cur /\ s # l /\ End(s) # a
  <2>1. s.seq \in Nat /\ End(s) \in Nat /\ s.seq <= End(s)
    BY SegmentIs DEF Clear
  <2>2. End(s) < lo \/ s.seq > b
    BY DEF Clear
  <2>3. End(s) # a
    BY <1>0, <2>1, <2>2
  <2>4. s # cur
    BY <1>0, <1>1, <2>1, <2>2
  <2> QED BY <1>1, <2>3, <2>4
<1>3. ASSUME NEW s \in X PROVE s # cur /\ s # l /\ End(s) # a
  <2>1. s.seq = b /\ End(s) \in Nat /\ s.seq <= End(s)
    BY SegmentIs DEF Behind
  <2>2. End(s) # a /\ a # b /\ lo # b
    BY <1>0, <2>1
  <2> QED BY ONLY <1>1, <2>1, <2>2
<1>4. l # cur
  <2>1. lo # a
    BY <1>0
  <2> QED BY ONLY <1>1, <2>1
<1>5. m.cache = A /\ m.cur = cur
  OBVIOUS
<1>6. left = {l}
  BY <1>1, <1>2, <1>3, <1>4, <1>5
<1>7. A \ {cur, l} = K \cup X
  BY <1>2, <1>3
<1>8. [seq |-> l.seq, data |-> l.data \o cur.data, fin |-> cur.fin] = c
  <2>1. lo <= a /\ a <= b
    BY <1>0
  <2>2. Bytes(lo, a) \o Bytes(a, b) = Bytes(lo, b)
    BY <2>1, BytesJoin
  <2> QED BY <1>1, <2>2 DEF Segment
<1>9. (CHOOSE x \in left : TRUE) = l
  BY <1>6
<1>10. merge_once(m) = [cache |-> (m.cache \ {m.cur, l}) \cup {c}, cur |-> c]
  <2>1. left # {}
    BY <1>6
  <2>2. merge_once(m) =
          LET s == CHOOSE x \in left : TRUE
              j == [seq |-> s.seq, data |-> s.data \o m.cur.data, fin |-> m.cur.fin]
          IN  [cache |-> (m.cache \ {m.cur, s}) \cup {j}, cur |-> j]
    BY <2>1 DEF merge_once
  <2> HIDE DEF left, m
  <2> QED BY <1>5, <1>8, <1>9, <2>2
<1>11. merge_once(m) = [cache |-> K \cup X \cup {c}, cur |-> c]
  BY <1>5, <1>7, <1>10
<1> QED BY <1>11

(* The turn that joins the segment behind it. *)
LEMMA MergeAfter ==
  ASSUME NEW a \in 1 .. FinPlace, NEW b \in 1 .. FinPlace, NEW hi \in 1 .. FinPlace,
         a < b, NEW fin \in BOOLEAN, fin => b = FinPlace, NEW K, Clear(K, a, b),
         NEW rf \in BOOLEAN, NEW r, r = Segment(b, hi, rf), TrueSegment(r), b <= hi,
         NEW cur, cur = Segment(a, b, fin), NEW c, c = Segment(a, hi, rf)
  PROVE  merge_once([cache |-> K \cup {r} \cup {cur}, cur |-> cur])
           = [cache |-> K \cup {c}, cur |-> c]
<1> DEFINE A == K \cup {r} \cup {cur}
           m == [cache |-> A, cur |-> cur]
           left == {s \in m.cache \ {m.cur} : ~s.fin /\ End(s) = m.cur.seq}
           right == {s \in m.cache \ {m.cur} : s.seq = End(m.cur)}
<1>0. a \in Nat /\ b \in Nat /\ hi \in Nat
  BY StreamNumbers
<1>1. /\ cur.seq = a /\ End(cur) = b /\ cur.fin = fin /\ cur.data = Bytes(a, b)
      /\ r.seq = b /\ End(r) = hi /\ r.fin = rf /\ r.data = Bytes(b, hi)
      /\ r.data = <<>> <=> b = hi
  <2>1. a <= b
    BY <1>0
  <2>2. cur.seq = a /\ End(cur) = b /\ cur.fin = fin /\ cur.data = Bytes(a, b)
    BY <2>1, SegmentParts
  <2>3. /\ r.seq = b /\ End(r) = hi /\ r.fin = rf /\ r.data = Bytes(b, hi)
        /\ r.data = <<>> <=> b = hi
    BY SegmentParts
  <2> QED BY <2>2, <2>3
<1>2. ASSUME NEW s \in K PROVE s # cur /\ s # r /\ End(s) # a /\ s.seq # b
  <2>1. s.seq \in Nat /\ End(s) \in Nat /\ s.seq <= End(s)
    BY SegmentIs DEF Clear
  <2>2. End(s) < a \/ s.seq > b
    BY DEF Clear
  <2>3. End(s) # a /\ s.seq # b
    BY <1>0, <2>1, <2>2
  <2>4. s # cur
    BY <1>0, <1>1, <2>1, <2>2
  <2> QED BY <1>1, <2>3, <2>4
<1>3. r # cur /\ End(r) # a
  BY <1>0, <1>1
<1>5. m.cache = A /\ m.cur = cur
  OBVIOUS
<1>6. left = {} /\ right = {r}
  BY <1>1, <1>2, <1>3, <1>5
<1>7. A \ {cur, r} = K
  BY <1>2
<1>8. [seq |-> cur.seq, data |-> cur.data \o r.data, fin |-> r.fin] = c
  <2>1. a <= b
    BY <1>0
  <2>2. Bytes(a, b) \o Bytes(b, hi) = Bytes(a, hi)
    BY <2>1, BytesJoin
  <2> QED BY <1>1, <2>2 DEF Segment
<1>9. (CHOOSE x \in right : TRUE) = r
  BY <1>6
<1>10. merge_once(m) =
        LET s == CHOOSE x \in right : TRUE
            j == [seq |-> m.cur.seq, data |-> m.cur.data \o s.data, fin |-> s.fin]
        IN  IF ~m.cur.fin THEN [cache |-> (m.cache \ {m.cur, s}) \cup {j}, cur |-> j]
            ELSE IF s.data = <<>> /\ s.fin
                 THEN [cache |-> (m.cache \ {m.cur, s}) \cup {m.cur}, cur |-> m.cur]
                 ELSE m
  <2>1. left = {} /\ right # {}
    BY <1>6
  <2> QED BY <2>1 DEF merge_once
<1>11. fin => c = cur /\ r.data = <<>> /\ r.fin
  <2>1. ASSUME fin PROVE hi = b /\ rf = TRUE
    <3>1. hi = b
      BY <1>0, <2>1, StreamNumbers
    <3>2. r.seq < End(r) \/ r.fin
      BY SegmentIs
    <3> QED BY <1>0, <1>1, <3>1, <3>2
  <2>2. ASSUME fin PROVE fin = TRUE
    BY <2>2
  <2> QED BY <1>1, <2>1, <2>2
<1>12. merge_once(m) = [cache |-> (A \ {cur, r}) \cup {c}, cur |-> c]
  <2> HIDE DEF right, m, A
  <2>1. CASE fin
    BY <1>1, <1>5, <1>9, <1>10, <1>11, <2>1
  <2>2. CASE ~fin
    BY <1>1, <1>5, <1>8, <1>9, <1>10, <2>2
  <2> QED BY <2>1, <2>2
<1> QED BY <1>7, <1>12

(* With no neighbours left a turn changes nothing. *)
LEMMA MergeDone ==
  ASSUME NEW a \in 1 .. FinPlace, NEW b \in 1 .. FinPlace, a < b, NEW fin,
         NEW K, Clear(K, a, b), NEW cur, cur = Segment(a, b, fin)
  PROVE  merge_once([cache |-> K \cup {cur}, cur |-> cur]) = [cache |-> K \cup {cur}, cur |-> cur]
<1> DEFINE m == [cache |-> K \cup {cur}, cur |-> cur]
           left == {s \in m.cache \ {m.cur} : ~s.fin /\ End(s) = m.cur.seq}
           right == {s \in m.cache \ {m.cur} : s.seq = End(m.cur)}
<1>0. a \in Nat /\ b \in Nat
  BY StreamNumbers
<1>1. cur.seq = a /\ End(cur) = b
  BY <1>0, SegmentParts
<1>2. ASSUME NEW s \in K PROVE End(s) # a /\ s.seq # b
  <2>1. s.seq \in Nat /\ End(s) \in Nat /\ s.seq <= End(s)
    BY SegmentIs DEF Clear
  <2>2. End(s) < a \/ s.seq > b
    BY DEF Clear
  <2> QED BY <1>0, <2>1, <2>2
<1>3. left = {} /\ right = {}
  BY <1>1, <1>2
<1> QED BY <1>3 DEF merge_once

(* The turns of the loop, when nothing changes after the second. *)
LEMMA MergeLoop ==
  ASSUME NEW N \in Nat, NEW m0, NEW m1, NEW m2,
         m1 = merge_once(m0), m2 = merge_once(m1), m2 = merge_once(m2)
  PROVE  LET loop[n \in 0 .. N] == IF n = 0 THEN m0 ELSE merge_once(loop[n - 1])
         IN  loop[N] = IF N = 0 THEN m0 ELSE IF N = 1 THEN m1 ELSE m2
<1> DEFINE Is(g) == g = [n \in 0 .. N |-> IF n = 0 THEN m0 ELSE merge_once(g[n - 1])]
           at(n) == IF n = 0 THEN m0 ELSE IF n = 1 THEN m1 ELSE m2
           f == [n \in 0 .. N |-> at(n)]
           loop == CHOOSE g : Is(g)
<1>1. \A n \in 0 .. N : at(n) = IF n = 0 THEN m0 ELSE merge_once(f[n - 1])
  <2>1. SUFFICES ASSUME NEW n \in 0 .. N PROVE at(n) = IF n = 0 THEN m0 ELSE merge_once(f[n - 1])
    OBVIOUS
  <2>2. CASE n = 0
    BY <2>2
  <2>3. CASE n = 1
    <3>1. f[n - 1] = m0 /\ at(n) = m1
      BY <2>3
    <3> HIDE DEF f, at
    <3> QED BY <2>3, <3>1
  <2>4. CASE n = 2
    <3>1. f[n - 1] = m1 /\ at(n) = m2
      BY <2>4
    <3> HIDE DEF f, at
    <3> QED BY <2>4, <3>1
  <2>5. CASE n > 2
    <3>1. f[n - 1] = m2 /\ at(n) = m2 /\ n # 0
      BY <2>5
    <3> HIDE DEF f, at
    <3> QED BY <2>5, <3>1
  <2> QED BY <2>2, <2>3, <2>4, <2>5
<1>2. Is(f)
  <2>1. \A n \in 0 .. N : f[n] = IF n = 0 THEN m0 ELSE merge_once(f[n - 1])
    BY <1>1
  <2>2. f = [n \in 0 .. N |-> f[n]]
    OBVIOUS
  <2> HIDE DEF f, at
  <2> QED BY <2>1, <2>2
<1>3. Is(loop)
  <2> HIDE DEF Is, f
  <2> QED BY <1>2
<1>4. \A n \in 0 .. N : loop[n] = at(n)
  <2> HIDE DEF loop
  <2>1. \A n \in 0 .. N : loop[n] = IF n = 0 THEN m0 ELSE merge_once(loop[n - 1])
    BY <1>3
  <2> DEFINE S == {n \in Nat : n \in 0 .. N => loop[n] = at(n)}
  <2>2. 0 \in S
    BY <2>1
  <2>3. ASSUME NEW n \in Nat, n \in S PROVE n + 1 \in S
    <3>1. SUFFICES ASSUME n + 1 \in 0 .. N PROVE loop[n + 1] = at(n + 1)
      OBVIOUS
    <3>2. n \in 0 .. N /\ (n + 1) - 1 = n /\ n + 1 # 0
      BY <3>1
    <3>3. loop[n] = at(n)
      BY <2>3, <3>2
    <3>4. loop[n + 1] = merge_once(at(n))
      BY <2>1, <3>1, <3>2, <3>3
    <3>5. n = 0 \/ n = 1 \/ n > 1
      OBVIOUS
    <3>6. at(n + 1) = merge_once(at(n))
      BY <3>5
    <3> QED BY <3>4, <3>6
  <2>4. Nat \subseteq S
    <3> HIDE DEF S
    <3> QED BY <2>2, <2>3, NatBySet
  <2> HIDE DEF at
  <2> QED BY <2>4
<1>5. loop[N] = at(N)
  <2> HIDE DEF loop, at
  <2> QED BY <1>4
<1> QED BY <1>5

\* What the loop makes of the pieces beside a new segment, and of it.
Joined(kept, new) ==
  LET start == [cache |-> kept \cup {new}, cur |-> new]
      loop[n \in 0 .. Cardinality(kept)] ==
        IF n = 0 THEN start ELSE merge_once(loop[n - 1])
  IN  loop[Cardinality(kept)].cache

\* What is left before the new segment, from lo, and what behind it, to hi.
LeftPiece(L, lo, a) == L = IF lo < a THEN {Segment(lo, a, FALSE)} ELSE {}
RightPiece(R, b, hi, fin, rf) ==
  \/ R = {Segment(b, hi, rf)} /\ TrueSegment(Segment(b, hi, rf))
  \/ R = {} /\ hi = b /\ rf = fin

(* It joins them to one segment. *)
LEMMA MergedWith ==
  ASSUME NEW lo \in 1 .. FinPlace, NEW a \in 1 .. FinPlace, NEW b \in 1 .. FinPlace,
         NEW hi \in 1 .. FinPlace, lo <= a, a < b, b <= hi, NEW fin \in BOOLEAN,
         fin => b = FinPlace, NEW rf \in BOOLEAN, NEW K, Clear(K, lo, hi),
         NEW L, LeftPiece(L, lo, a), NEW R, RightPiece(R, b, hi, fin, rf),
         NEW kept, kept = K \cup L \cup R, IsFiniteSet(kept),
         NEW new, new = Segment(a, b, fin)
  PROVE  Joined(kept, new) = K \cup {Segment(lo, hi, rf)}
<1> USE DEF LeftPiece, RightPiece
<1> DEFINE N == Cardinality(kept)
           start == [cache |-> kept \cup {new}, cur |-> new]
           done == [cache |-> K \cup {Segment(lo, hi, rf)}, cur |-> Segment(lo, hi, rf)]
           l == Segment(lo, a, FALSE)
           r == Segment(b, hi, rf)
           mid == Segment(lo, b, fin)
           half == [cache |-> K \cup R \cup {mid}, cur |-> mid]
           loop == CHOOSE g : g = [n \in 0 .. N |-> IF n = 0 THEN start ELSE merge_once(g[n - 1])]
<1>0. lo \in Nat /\ a \in Nat /\ b \in Nat /\ hi \in Nat
  BY StreamNumbers
<1>1. Clear(K, lo, b) /\ Clear(K, a, b)
  <2>1. ASSUME NEW s \in K
        PROVE  TrueSegment(s) /\ (End(s) < lo \/ s.seq > b) /\ (End(s) < a \/ s.seq > b)
    <3>1. TrueSegment(s) /\ (End(s) < lo \/ s.seq > hi)
      BY DEF Clear
    <3>2. s.seq \in Nat /\ End(s) \in Nat
      BY <3>1, SegmentIs
    <3> QED BY <1>0, <3>1, <3>2
  <2> QED BY <2>1 DEF Clear
<1>2. lo < b /\ lo < hi
  BY <1>0
<1>3. merge_once(done) = done
  BY <1>2, MergeDone
<1>5. /\ lo \in 1 .. FinPlace /\ a \in 1 .. FinPlace /\ b \in 1 .. FinPlace /\ hi \in 1 .. FinPlace
      /\ lo <= a /\ a < b /\ b <= hi /\ fin \in BOOLEAN /\ rf \in BOOLEAN
  OBVIOUS
<1>4. IF lo < a THEN merge_once(start) = half ELSE start = half
  <2>1. CASE lo < a
    <3>1. ASSUME NEW x \in R PROVE TrueSegment(x) /\ x.seq = b
      <4>1. x = Segment(b, hi, rf) /\ TrueSegment(Segment(b, hi, rf))
        OBVIOUS
      <4> QED BY <4>1 DEF Segment
    <3> DEFINE no == FALSE
    <3>0. /\ l = Segment(lo, a, no) /\ new = Segment(a, b, fin)
          /\ mid = Segment(lo, b, fin) /\ no \in BOOLEAN /\ ~no
      OBVIOUS
    <3> HIDE DEF l, mid, no
    <3>4. Behind(R, b)
      BY <3>1 DEF Behind
    <3>2. merge_once([cache |-> K \cup {l} \cup R \cup {new}, cur |-> new])
            = [cache |-> K \cup R \cup {mid}, cur |-> mid]
      BY ONLY <1>0, <1>5, <3>0, <1>1, <2>1, <3>4, MergeBefore
    <3>5. L = {l} /\ kept = K \cup L \cup R
      BY <2>1 DEF l
    <3>3. K \cup {l} \cup R \cup {new} = kept \cup {new}
      BY ONLY <3>5
    <3> QED BY ONLY <2>1, <3>2, <3>3 DEF start, half
  <2>2. CASE ~(lo < a)
    <3>1. lo = a /\ L = {}
      BY <1>0, <2>2
    <3> QED BY <2>2, <3>1
  <2> QED BY <2>1, <2>2
<1>10. IF R # {} THEN merge_once(half) = done ELSE half = done
  <2>1. CASE R # {}
    <3>1. R = {r} /\ TrueSegment(r)
      BY <2>1
    <3>2. merge_once([cache |-> K \cup {r} \cup {mid}, cur |-> mid])
            = [cache |-> K \cup {Segment(lo, hi, rf)}, cur |-> Segment(lo, hi, rf)]
      <4> DEFINE c == Segment(lo, hi, rf)
      <4>1. /\ r = Segment(b, hi, rf) /\ mid = Segment(lo, b, fin) /\ c = Segment(lo, hi, rf)
        OBVIOUS
      <4> HIDE DEF r, mid, c
      <4>2. merge_once([cache |-> K \cup {r} \cup {mid}, cur |-> mid]) = [cache |-> K \cup {c}, cur |-> c]
        BY <1>1, <1>2, <3>1, <4>1, MergeAfter
      <4> QED BY <4>2 DEF c
    <3> QED BY <2>1, <3>1, <3>2
  <2>2. CASE R = {}
    <3>1. hi = b /\ rf = fin
      BY <2>2
    <3> QED BY <2>2, <3>1
  <2> QED BY <2>1, <2>2
<1>6. N \in Nat /\ (kept # {} => N # 0) /\ (L # {} /\ R # {} => N # 1)
  <2>1. N \in Nat
    BY FS_CardinalityType
  <2>2. kept # {} => N # 0
    <3>1. IsFiniteSet(kept) => (Cardinality(kept) = 0 <=> kept = {})
      BY FS_EmptySet
    <3> QED BY <3>1
  <2>3. ASSUME L # {}, R # {} PROVE N # 1
    <3>1. lo < a /\ L = {l} /\ R = {r}
      BY <2>3
    <3>2. l.seq = lo
      BY DEF Segment
    <3>3. r.seq = b
      BY DEF Segment
    <3>8. lo # b
      BY <1>0, <1>2
    <3> HIDE DEF l, r
    <3>4. l # r
      BY ONLY <3>2, <3>3, <3>8
    <3>5. l \in kept /\ r \in kept
      BY <3>1
    <3> HIDE DEF N
    <3>6. SUFFICES ASSUME N = 1 PROVE FALSE
      OBVIOUS
    <3>7. \E x : kept = {x}
      BY <3>6, FS_Singleton DEF N
    <3> QED BY <3>4, <3>5, <3>7
  <2> QED BY <2>1, <2>2, <2>3
<1> DEFINE m1 == IF lo < a THEN half ELSE IF R # {} THEN done ELSE start
<1>7. loop[N] = IF N = 0 THEN start ELSE IF N = 1 THEN m1 ELSE done
  <2>1. m1 = merge_once(start) /\ done = merge_once(m1)
    <3> HIDE DEF start, half, done
    <3> QED BY <1>3, <1>4, <1>10
  <2> HIDE DEF start, m1, done, N
  <2> QED BY <1>3, <1>6, <2>1, MergeLoop
<1>8. loop[N] = done
  <2>0. (lo < a => L # {}) /\ kept = K \cup L \cup R
    OBVIOUS
  <2> HIDE DEF N
  <2>1. N = 0 => ~(lo < a) /\ R = {}
    BY ONLY <1>6, <2>0
  <2>2. N = 1 => ~(lo < a) \/ R = {}
    BY ONLY <1>6, <2>0
  <2> HIDE DEF start, half, done, loop
  <2> QED BY ONLY <1>4, <1>10, <1>7, <2>1, <2>2 DEF m1
<1>9. loop[N].cache = K \cup {Segment(lo, hi, rf)}
  <2> HIDE DEF loop
  <2> QED BY <1>8
<1> HIDE DEF done
<1> QED BY <1>9 DEF Joined

----------------------------------------------------------------------------
(* The cache with a new segment. *)

(* What stays before the new segment: nothing, or the front of one segment. *)
LEMMA LeftIs ==
  ASSUME NEW C, Tidy(C), NEW new, TrueSegment(new), new.seq < End(new)
  PROVE  LET T == Touched(C, new)
         IN  \E lo \in 1 .. FinPlace :
               /\ lo <= new.seq
               /\ \A s \in T : lo <= s.seq
               /\ lo = new.seq \/ \E s \in T : s.seq = lo
               /\ UNION {Before(s, new) : s \in T}
                    = IF lo < new.seq THEN {Segment(lo, new.seq, FALSE)} ELSE {}
<1> DEFINE T == Touched(C, new)
           a == new.seq
           L == UNION {Before(s, new) : s \in T}
<1>1. a \in 1 .. FinPlace /\ a \in Nat
  BY SegmentIs
<1>2. ASSUME NEW s \in T PROVE s.seq \in 1 .. FinPlace /\ s.seq \in Nat
  BY SegmentIs DEF Tidy, Touched
<1>3. CASE \E s \in T : s.seq < a
  <2>1. PICK s \in T : s.seq < a
    BY <1>3
  <2>2. \A t \in T : t.seq < a => t = s
    BY <2>1, OneBefore
  <2>3. L = {Segment(s.seq, a, FALSE)}
    <3> HIDE DEF T
    <3> QED BY <2>1, <2>2 DEF Before
  <2>4. \A t \in T : s.seq <= t.seq
    BY <1>1, <1>2, <2>1, <2>2
  <2>5. s.seq \in 1 .. FinPlace /\ s.seq <= a
    BY <1>1, <1>2, <2>1
  <2> HIDE DEF T, L, a
  <2>6. \E lo \in 1 .. FinPlace :
          /\ lo <= a
          /\ \A t \in T : lo <= t.seq
          /\ lo = a \/ \E t \in T : t.seq = lo
          /\ L = IF lo < a THEN {Segment(lo, a, FALSE)} ELSE {}
    BY ONLY <2>1, <2>3, <2>4, <2>5
  <2> QED BY <2>6 DEF T, L, a
<1>4. CASE ~ \E s \in T : s.seq < a
  <2>1. \A t \in T : a <= t.seq
    BY <1>1, <1>2, <1>4
  <2>2. L = {}
    <3> HIDE DEF T
    <3> QED BY <1>4 DEF Before
  <2>3. ~(a < a) /\ a <= a
    BY <1>1
  <2> HIDE DEF T, L, a
  <2>6. \E lo \in 1 .. FinPlace :
          /\ lo <= a
          /\ \A t \in T : lo <= t.seq
          /\ lo = a \/ \E t \in T : t.seq = lo
          /\ L = IF lo < a THEN {Segment(lo, a, FALSE)} ELSE {}
    BY ONLY <1>1, <2>1, <2>2, <2>3
  <2> QED BY <2>6 DEF T, L, a
<1> QED BY <1>3, <1>4

(* What stays behind it: nothing, or the rear of one segment. *)
LEMMA RightIs ==
  ASSUME NEW C, Tidy(C), NEW new, TrueSegment(new), new.seq < End(new)
  PROVE  LET T == Touched(C, new)
             R == UNION {After(s, new) : s \in T}
         IN  \E hi \in 1 .. FinPlace, rf \in BOOLEAN :
               /\ End(new) <= hi
               /\ \A s \in T : End(s) <= hi
               /\ hi = End(new) \/ \E s \in T : End(s) = hi
               /\ rf => hi = FinPlace
               /\ \/ R = {Segment(End(new), hi, rf)} /\ TrueSegment(Segment(End(new), hi, rf))
                  \/ R = {} /\ hi = End(new) /\ rf = new.fin
<1> DEFINE T == Touched(C, new)
           b == End(new)
           R == UNION {After(s, new) : s \in T}
           Wanted == \E hi \in 1 .. FinPlace, rf \in BOOLEAN :
               /\ b <= hi
               /\ \A s \in T : End(s) <= hi
               /\ hi = b \/ \E s \in T : End(s) = hi
               /\ rf => hi = FinPlace
               /\ \/ R = {Segment(b, hi, rf)} /\ TrueSegment(Segment(b, hi, rf))
                  \/ R = {} /\ hi = b /\ rf = new.fin
<1>1. b \in 1 .. FinPlace /\ b \in Nat /\ new.fin \in BOOLEAN /\ (new.fin => b = FinPlace)
  BY SegmentIs
<1>2. ASSUME NEW s \in T
      PROVE  /\ End(s) \in 1 .. FinPlace /\ End(s) \in Nat /\ s.seq \in Nat
             /\ s.fin \in BOOLEAN /\ s.seq <= End(s) /\ s.seq <= b
             /\ s.fin => End(s) = FinPlace
             /\ s.seq < End(s) \/ s.fin
  BY SegmentIs DEF Tidy, Touched
<1>3. CASE \E s \in T : End(s) > b \/ s.seq = b
  <2>1. PICK s \in T : End(s) > b \/ s.seq = b
    BY <1>3
  <2>2. \A t \in T : End(t) > b \/ t.seq = b => t = s
    BY <2>1, OneAfter
  <2>3. R = {Segment(b, End(s), s.fin)}
    <3> HIDE DEF T
    <3> QED BY <2>1, <2>2 DEF After
  <2>4. b <= End(s) /\ (b < End(s) \/ s.fin)
    BY <1>1, <1>2, <2>1
  <2>5. \A t \in T : End(t) <= End(s)
    <3>1. ASSUME NEW t \in T, t # s PROVE End(t) <= b
      BY <1>1, <1>2, <2>2, <3>1
    <3> QED BY <1>1, <1>2, <2>4, <3>1
  <2>6. TrueSegment(Segment(b, End(s), s.fin))
    BY <1>1, <1>2, <2>4, SegmentTrue
  <2>7. Wanted
    <3> HIDE DEF T, R, b
    <3> QED BY <1>2, <2>3, <2>4, <2>5, <2>6
  <2> QED BY <2>7
<1>4. CASE ~ \E s \in T : End(s) > b \/ s.seq = b
  <2>1. \A t \in T : End(t) <= b
    BY <1>1, <1>2, <1>4
  <2>2. R = {}
    <3> HIDE DEF T
    <3> QED BY <1>4 DEF After
  <2>3. b <= b
    BY <1>1
  <2>7. Wanted
    <3> HIDE DEF T, R, b
    <3> QED BY <1>1, <2>1, <2>2, <2>3
  <2> QED BY <2>7
<1> QED BY <1>3, <1>4

(* The old segments when the new one is cut out of them. *)
LEMMA KeptIs ==
  ASSUME NEW C, Tidy(C), NEW new, TrueSegment(new), new.seq < End(new)
  PROVE  LET T == Touched(C, new)
         IN  (UNION {Beside(s, new) : s \in C})
               = (C \ T) \cup (UNION {Before(s, new) : s \in T}) \cup (UNION {After(s, new) : s \in T})
<1> DEFINE T == Touched(C, new)
<1>1. ASSUME NEW s \in T PROVE s \in C /\ Beside(s, new) = Before(s, new) \cup After(s, new)
  BY BesideTouched DEF Tidy, Touched
<1>2. ASSUME NEW s \in C \ T PROVE Beside(s, new) = {s}
  <2>1. /\ TrueSegment(s)
        /\ s.seq \in Nat /\ End(s) \in Nat /\ new.seq \in Nat /\ End(new) \in Nat
    BY SegmentIs DEF Tidy
  <2>2. s.seq > End(new) \/ End(s) < new.seq
    BY <2>1 DEF Touched
  <2> QED BY <2>1, <2>2, BesideFar
<1> HIDE DEF T
<1>3. T \subseteq C
  BY <1>1
<1>4. (UNION {Beside(s, new) : s \in C})
        = (UNION {Beside(s, new) : s \in C \ T}) \cup (UNION {Beside(s, new) : s \in T})
  BY <1>3
<1>5. (UNION {Beside(s, new) : s \in C \ T}) = C \ T
  BY <1>2
<1>6. (UNION {Beside(s, new) : s \in T})
        = (UNION {Before(s, new) : s \in T}) \cup (UNION {After(s, new) : s \in T})
  <2>1. ASSUME NEW x \in (UNION {Beside(s, new) : s \in T})
        PROVE  x \in (UNION {Before(s, new) : s \in T}) \cup (UNION {After(s, new) : s \in T})
    BY <1>1
  <2>2. ASSUME NEW x \in (UNION {Before(s, new) : s \in T}) \cup (UNION {After(s, new) : s \in T})
        PROVE  x \in (UNION {Beside(s, new) : s \in T})
    BY <1>1
  <2> QED BY <2>1, <2>2
<1> QED BY <1>4, <1>5, <1>6 DEF T

(* The untouched segments are clear of everything that is joined. *)
LEMMA UntouchedClear ==
  ASSUME NEW C, Tidy(C), NEW new, TrueSegment(new), new.seq < End(new),
         NEW lo \in Nat, NEW hi \in Nat,
         lo = new.seq \/ \E s \in Touched(C, new) : s.seq = lo,
         hi = End(new) \/ \E s \in Touched(C, new) : End(s) = hi
  PROVE  Clear(C \ Touched(C, new), lo, hi)
<1> DEFINE a == new.seq
           b == End(new)
<1>1. a \in Nat /\ b \in Nat
  BY SegmentIs
<1>2. ASSUME NEW u \in C \ Touched(C, new) PROVE TrueSegment(u) /\ (End(u) < lo \/ u.seq > hi)
  <2>1. TrueSegment(u) /\ u.seq \in Nat /\ End(u) \in Nat /\ u.seq <= End(u)
    BY SegmentIs DEF Tidy
  <2>2. End(u) < a \/ u.seq > b
    BY <1>1, <2>1 DEF Touched
  <2>3. ASSUME NEW s \in Touched(C, new)
        PROVE  /\ s.seq \in Nat /\ End(s) \in Nat /\ s.seq <= b /\ End(s) >= a
               /\ Apart(u, s)
    BY SegmentIs DEF Tidy, Touched
  <2>4. CASE End(u) < a
    <3>1. CASE lo = a
      BY <2>1, <2>4, <3>1
    <3>2. CASE \E s \in Touched(C, new) : s.seq = lo
      <4>1. PICK s \in Touched(C, new) : s.seq = lo
        BY <3>2
      <4> HIDE DEF a, b
      <4>2. End(u) < lo
        BY <1>1, <2>1, <2>3, <2>4, <4>1 DEF Apart
      <4> QED BY <2>1, <4>2
    <3> QED BY <3>1, <3>2
  <2>5. CASE u.seq > b
    <3>1. CASE hi = b
      BY <2>1, <2>5, <3>1
    <3>2. CASE \E s \in Touched(C, new) : End(s) = hi
      <4>1. PICK s \in Touched(C, new) : End(s) = hi
        BY <3>2
      <4> HIDE DEF a, b
      <4>2. u.seq > hi
        BY <1>1, <2>1, <2>3, <2>5, <4>1 DEF Apart
      <4> QED BY <2>1, <4>2
    <3> QED BY <3>1, <3>2
  <2> QED BY <2>2, <2>4, <2>5
<1> QED BY <1>2 DEF Clear

(* The pieces left are finitely many. *)
LEMMA KeptFinite ==
  ASSUME NEW K, IsFiniteSet(K), NEW x, NEW y, NEW L, NEW R,
         L = {} \/ L = {x}, R = {} \/ R = {y}
  PROVE  IsFiniteSet(K \cup L \cup R)
<1>1. IsFiniteSet({}) /\ IsFiniteSet({x}) /\ IsFiniteSet({y})
  BY FS_EmptySet, FS_Singleton
<1>2. IsFiniteSet(L) /\ IsFiniteSet(R)
  BY ONLY <1>1, L = {} \/ L = {x}, R = {} \/ R = {y}
<1> QED BY <1>2, FS_Union

(* An insertion replaces what the new segment touches by one segment. *)
LEMMA InsertedIs ==
  ASSUME NEW C, Tidy(C), NEW new, TrueSegment(new), new.seq < End(new)
  PROVE  LET T == Touched(C, new)
         IN  \E lo, hi \in 1 .. FinPlace, rf \in BOOLEAN :
               /\ Inserted(C, new) = (C \ T) \cup {Segment(lo, hi, rf)}
               /\ lo <= new.seq /\ End(new) <= hi /\ (rf => hi = FinPlace)
               /\ \A s \in T : lo <= s.seq /\ End(s) <= hi
               /\ lo = new.seq \/ \E s \in T : s.seq = lo
               /\ hi = End(new) \/ \E s \in T : End(s) = hi
               /\ Clear(C \ T, lo, hi)
<1> DEFINE T == Touched(C, new)
           a == new.seq
           b == End(new)
           fin == new.fin
           L == (UNION {Before(s, new) : s \in T})
           R == (UNION {After(s, new) : s \in T})
           K == C \ T
<1>1. /\ a \in 1 .. FinPlace /\ b \in 1 .. FinPlace /\ fin \in BOOLEAN /\ (fin => b = FinPlace)
      /\ a \in Nat /\ b \in Nat /\ new = Segment(a, b, fin)
  BY SegmentIs
<1>2. PICK lo \in 1 .. FinPlace :
        /\ lo <= a
        /\ \A s \in T : lo <= s.seq
        /\ lo = a \/ \E s \in T : s.seq = lo
        /\ L = IF lo < a THEN {Segment(lo, a, FALSE)} ELSE {}
  BY LeftIs
<1>3. PICK hi \in 1 .. FinPlace, rf \in BOOLEAN :
        /\ b <= hi
        /\ \A s \in T : End(s) <= hi
        /\ hi = b \/ \E s \in T : End(s) = hi
        /\ rf => hi = FinPlace
        /\ \/ R = {Segment(b, hi, rf)} /\ TrueSegment(Segment(b, hi, rf))
           \/ R = {} /\ hi = b /\ rf = fin
  BY RightIs
<1>4. lo \in Nat /\ hi \in Nat
  BY StreamNumbers
<1>5. Clear(K, lo, hi)
  BY <1>2, <1>3, <1>4, UntouchedClear
<1> DEFINE kept == (UNION {Beside(s, new) : s \in C})
<1>6. kept = K \cup L \cup R
  BY KeptIs
<1>7. IsFiniteSet(kept)
  <2>1. IsFiniteSet(K)
    BY FS_Subset DEF Tidy
  <2>2. (L = {} \/ L = {Segment(lo, a, FALSE)}) /\ (R = {} \/ R = {Segment(b, hi, rf)})
    BY <1>2, <1>3
  <2> HIDE DEF K, L, R, kept, a, b
  <2> QED BY <1>6, <2>1, <2>2, KeptFinite
<1>8. Inserted(C, new) = Joined(kept, new)
  BY DEF Inserted, Joined
<1>9. Joined(kept, new) = K \cup {Segment(lo, hi, rf)}
  <2> HIDE DEF K, L, R, kept, a, b, fin, T
  <2>1. /\ lo <= a /\ b <= hi /\ a < b
        /\ LeftPiece(L, lo, a) /\ RightPiece(R, b, hi, fin, rf)
    BY <1>2, <1>3 DEF a, b, LeftPiece, RightPiece
  <2> QED BY <1>1, <1>5, <1>6, <1>7, <2>1, MergedWith
<1>10. Inserted(C, new) = K \cup {Segment(lo, hi, rf)}
  BY <1>8, <1>9
<1> HIDE DEF kept, L, R
<1> QED BY <1>2, <1>3, <1>5, <1>10

(* An insertion keeps a cache tidy and covers the new segment as well. *)
LEMMA InsertedTidy ==
  ASSUME NEW C, Tidy(C), NEW new, TrueSegment(new), new.seq < End(new)
  PROVE  LET T == Touched(C, new)
             I == Inserted(C, new)
         IN  /\ Tidy(I)
             /\ Covered(I) = Covered(C) \cup (new.seq .. End(new) - 1)
             /\ \A s \in I : s.seq = new.seq \/ \E t \in C : t.seq = s.seq
             /\ Cardinality(I) <= IF T = {} THEN Cardinality(C) + 1 ELSE Cardinality(C)
             /\ Cardinality(I) \in Nat
<1> DEFINE T == Touched(C, new)
           K == C \ T
           a == new.seq
           b == End(new)
<1>1. a \in 1 .. FinPlace /\ b \in 1 .. FinPlace /\ a \in Nat /\ b \in Nat
  BY SegmentIs
<1>2. PICK lo \in 1 .. FinPlace, hi \in 1 .. FinPlace, rf \in BOOLEAN :
               /\ Inserted(C, new) = K \cup {Segment(lo, hi, rf)}
               /\ lo <= a /\ b <= hi /\ (rf => hi = FinPlace)
               /\ \A s \in T : lo <= s.seq /\ End(s) <= hi
               /\ lo = a \/ \E s \in T : s.seq = lo
               /\ hi = b \/ \E s \in T : End(s) = hi
               /\ Clear(K, lo, hi)
  BY InsertedIs
<1>3. lo \in Nat /\ hi \in Nat /\ lo < hi
  BY <1>1, <1>2, StreamNumbers
<1> DEFINE c == Segment(lo, hi, rf)
<1>4. c.seq = lo /\ End(c) = hi /\ TrueSegment(c)
  <2>1. lo <= hi
    BY <1>3
  <2> QED BY <1>2, <1>3, <2>1, SegmentParts, SegmentTrue
<1>5. ASSUME NEW s \in C
      PROVE  TrueSegment(s) /\ s.seq \in Nat /\ End(s) \in Nat /\ s.seq <= End(s)
  BY SegmentIs DEF Tidy
<1>6. ASSUME NEW s \in T PROVE s \in C /\ s.seq <= b /\ End(s) >= a
  BY DEF Touched
<1> HIDE DEF c, T, a, b
<1>7. Tidy(K \cup {c})
  <2>1. IsFiniteSet(K \cup {c})
    BY FS_Subset, FS_AddElement DEF Tidy
  <2>2. \A s \in K \cup {c} : TrueSegment(s)
    BY <1>4, <1>5
  <2>3. ASSUME NEW s \in K PROVE Apart(s, c) /\ Apart(c, s)
    BY <1>2, <1>4 DEF Clear, Apart
  <2>4. \A s, t \in K : s # t => Apart(s, t)
    BY DEF Tidy
  <2>5. \A s, t \in K \cup {c} : s # t => Apart(s, t)
    BY <2>3, <2>4
  <2> QED BY <2>1, <2>2, <2>5 DEF Tidy
<1>8. Covered(K \cup {c}) = Covered(C) \cup (a .. b - 1)
  <2>1. ASSUME NEW i \in Covered(K \cup {c}) PROVE i \in Covered(C) \cup (a .. b - 1)
    <3>1. PICK s \in K \cup {c} : i \in s.seq .. End(s) - 1
      BY DEF Covered, Span
    <3>2. CASE s \in K
      BY <3>1, <3>2 DEF Covered, Span
    <3>3. CASE s = c
      <4>1. i \in lo .. hi - 1
        BY <1>4, <3>1, <3>3
      <4>2. CASE i < a
        <5>1. PICK t \in T : t.seq = lo
          BY <1>1, <1>2, <1>3, <4>1, <4>2
        <5>2. t \in C /\ i \in t.seq .. End(t) - 1
          BY <1>1, <1>3, <1>5, <1>6, <4>1, <4>2, <5>1
        <5> QED BY <5>2 DEF Covered, Span
      <4>3. CASE i > b - 1
        <5>1. PICK t \in T : End(t) = hi
          BY <1>1, <1>2, <1>3, <4>1, <4>3
        <5>2. t \in C /\ i \in t.seq .. End(t) - 1
          BY <1>1, <1>3, <1>5, <1>6, <4>1, <4>3, <5>1
        <5> QED BY <5>2 DEF Covered, Span
      <4>4. CASE ~(i < a) /\ ~(i > b - 1)
        BY <1>1, <1>3, <4>1, <4>4
      <4> QED BY <4>2, <4>3, <4>4
    <3> QED BY <3>2, <3>3
  <2>2. ASSUME NEW i \in a .. b - 1 PROVE i \in Covered(K \cup {c})
    <3>1. i \in c.seq .. End(c) - 1
      BY <1>1, <1>2, <1>3, <1>4
    <3> QED BY <3>1 DEF Covered, Span
  <2>3. ASSUME NEW i \in Covered(C) PROVE i \in Covered(K \cup {c})
    <3>1. PICK s \in C : i \in s.seq .. End(s) - 1
      BY DEF Covered, Span
    <3>2. CASE s \in K
      BY <3>1, <3>2 DEF Covered, Span
    <3>3. CASE s \in T
      <4>1. i \in c.seq .. End(c) - 1
        BY <1>2, <1>3, <1>4, <1>5, <3>1, <3>3
      <4> QED BY <4>1 DEF Covered, Span
    <3> QED BY <3>2, <3>3
  <2> QED BY <2>1, <2>2, <2>3
<1>9. \A s \in K \cup {c} : s.seq = a \/ \E t \in C : t.seq = s.seq
  BY <1>2, <1>4, <1>6
<1>10. /\ Cardinality(K \cup {c}) <= IF T = {} THEN Cardinality(C) + 1 ELSE Cardinality(C)
       /\ Cardinality(K \cup {c}) \in Nat
  <2>1. IsFiniteSet(C) /\ IsFiniteSet(K) /\ Cardinality(C) \in Nat /\ Cardinality(K) \in Nat
    BY FS_Subset, FS_CardinalityType DEF Tidy
  <2>2. Cardinality(K \cup {c}) = IF c \in K THEN Cardinality(K) ELSE Cardinality(K) + 1
    BY <2>1, FS_AddElement
  <2>3. CASE T = {}
    <3>1. K = C
      BY <2>3
    <3> QED BY <2>1, <2>2, <2>3, <3>1
  <2>4. CASE T # {}
    <3>1. K \subseteq C /\ K # C
      BY <1>6, <2>4
    <3>2. Cardinality(K) <= Cardinality(C) /\ Cardinality(K) # Cardinality(C)
      BY <2>1, <3>1, FS_Subset
    <3> QED BY <2>1, <2>2, <2>4, <3>2
  <2> QED BY <2>3, <2>4
<1> QED BY <1>2, <1>7, <1>8, <1>9, <1>10 DEF c, T, a, b

(* ... and has the bytes that were missing. *)
LEMMA InsertedTotal ==
  ASSUME NEW C, Tidy(C), NEW new, TrueSegment(new), new.seq < End(new)
  PROVE  LET n == Len(new.data) - Cardinality({x \in Held(C) : x[2] \in new.seq .. End(new) - 1})
         IN  n \in Nat /\ Total(Inserted(C, new)) = Total(C) + n
<1> DEFINE a == new.seq
           b == End(new)
           K == Inserted(C, new)
<1>1. a \in 1 .. FinPlace /\ b \in 1 .. FinPlace /\ a <= b /\ Len(new.data) = b - a
  BY SegmentIs
<1>2. Tidy(K) /\ Covered(K) = Covered(C) \cup (a .. b - 1)
  BY InsertedTidy
<1> HIDE DEF a, b, K
<1>3. LET n == (b - a) - Cardinality({x \in Held(C) : x[2] \in a .. b - 1})
      IN  n \in Nat /\ Total(K) = Total(C) + n
  BY <1>1, <1>2, TotalPlus
<1> QED BY <1>1, <1>3 DEF a, b, K

----------------------------------------------------------------------------
(* A FIN that is cached. *)

(* A segment with the FIN put behind its end. *)
LEMMA FinBehind ==
  ASSUME NEW s, TrueSegment(s), End(s) = FinPlace
  PROVE  LET t == [s EXCEPT !.fin = TRUE]
         IN  TrueSegment(t) /\ t.seq = s.seq /\ End(t) = End(s) /\ t.fin = TRUE
<1>1. PICK a \in 1 .. FinPlace, b \in 1 .. FinPlace, fin \in BOOLEAN :
        s = Segment(a, b, fin) /\ a <= b
  BY DEF TrueSegment
<1>2. s.seq = a /\ End(s) = b
  BY <1>1, SegmentParts
<1> DEFINE yes == TRUE
           t == Segment(a, b, yes)
<1>3. [s EXCEPT !.fin = TRUE] = t
  <2>1. s = [seq |-> a, data |-> Bytes(a, b), fin |-> fin]
    BY <1>1 DEF Segment
  <2> DEFINE d == Bytes(a, b)
             e == [s EXCEPT !.fin = yes]
             r == [seq |-> a, data |-> d, fin |-> yes]
  <2> HIDE DEF d, yes
  <2>3. DOMAIN s = {"seq", "data", "fin"} /\ s.seq = a /\ s.data = d
    BY <2>1 DEF d
  <2>4. e = [i \in {"seq", "data", "fin"} |-> IF i = "fin" THEN yes ELSE s[i]]
    BY ONLY <2>3
  <2>5. r = [i \in {"seq", "data", "fin"} |-> IF i = "fin" THEN yes ELSE s[i]]
    BY ONLY <2>3
  <2> QED BY <2>4, <2>5 DEF Segment, yes, d
<1>4. yes \in BOOLEAN /\ yes /\ b = FinPlace
  BY <1>2
<1> HIDE DEF yes
<1>5. TrueSegment(t)
  BY <1>1, <1>4, SegmentTrue
<1>6. t.seq = a /\ End(t) = b /\ t.fin = yes
  BY <1>1, SegmentParts
<1> HIDE DEF t
<1> QED BY <1>2, <1>3, <1>5, <1>6 DEF yes

(* The FIN is put behind the cached segments that end at it: there is one. *)
LEMMA MarkedTidy ==
  ASSUME NEW C, Tidy(C), NEW E, E = {s \in C : End(s) = FinPlace}, E # {}
  PROVE  LET M == (C \ E) \cup {[s EXCEPT !.fin = TRUE] : s \in E}
         IN  /\ Tidy(M) /\ Covered(M) = Covered(C) /\ Cardinality(M) = Cardinality(C)
             /\ \A s \in M : \E t \in C : t.seq = s.seq
<1>1. ASSUME NEW s \in C
      PROVE  TrueSegment(s) /\ s.seq \in Nat /\ End(s) \in Nat /\ s.seq <= End(s)
  BY SegmentIs DEF Tidy
<1>2. PICK e \in E : e \in C /\ End(e) = FinPlace
  OBVIOUS
<1>3. ASSUME NEW s \in E PROVE s = e
  <2>1. s \in C /\ End(s) = FinPlace
    OBVIOUS
  <2>2. ~Apart(s, e)
    BY <1>1, <1>2, <2>1 DEF Apart
  <2> QED BY <1>2, <2>1, <2>2 DEF Tidy
<1>4. E = {e}
  BY <1>3
<1> DEFINE d == [e EXCEPT !.fin = TRUE]
           K == C \ {e}
           M == K \cup {d}
<1>5. TrueSegment(d) /\ d.seq = e.seq /\ End(d) = End(e)
  BY <1>1, <1>2, FinBehind
<1>6. (C \ E) \cup {[s EXCEPT !.fin = TRUE] : s \in E} = M
  BY <1>4
<1> HIDE DEF d
<1>7. ASSUME NEW s \in K PROVE Apart(s, d) /\ Apart(d, s) /\ s # d
  <2>1. Apart(s, e) /\ Apart(e, s)
    BY <1>2 DEF Tidy
  <2>2. Apart(s, d) /\ Apart(d, s)
    BY <1>5, <2>1 DEF Apart
  <2>3. ~Apart(d, d)
    BY <1>1, <1>2, <1>5 DEF Apart
  <2> QED BY <2>2, <2>3
<1>8. IsFiniteSet(C) /\ IsFiniteSet(K) /\ IsFiniteSet(M)
  BY FS_Subset, FS_AddElement DEF Tidy
<1>9. Tidy(M)
  <2>1. \A s \in M : TrueSegment(s)
    BY <1>1, <1>5
  <2>2. \A s, t \in K : s # t => Apart(s, t)
    BY DEF Tidy
  <2>3. \A s, t \in M : s # t => Apart(s, t)
    BY <1>7, <2>2
  <2> QED BY <1>8, <2>1, <2>3 DEF Tidy
<1>10. Covered(M) = Covered(C)
  <2>1. Span(d) = Span(e)
    BY <1>5 DEF Span
  <2>2. C = K \cup {e}
    BY <1>2
  <2> QED BY <2>1, <2>2 DEF Covered
<1>11. Cardinality(M) = Cardinality(C)
  <2>1. Cardinality(M) = Cardinality(K) + 1
    BY <1>7, <1>8, FS_AddElement
  <2>2. Cardinality(K) = Cardinality(C) - 1
    BY <1>2, <1>8, FS_RemoveElement
  <2>3. Cardinality(C) \in Nat /\ Cardinality(K) \in Nat
    BY <1>8, FS_CardinalityType
  <2> QED BY <2>1, <2>2, <2>3
<1>12. \A s \in M : \E t \in C : t.seq = s.seq
  BY <1>2, <1>5
<1> HIDE DEF M
<1> QED BY <1>6, <1>9, <1>10, <1>11, <1>12

(* A FIN that comes alone is cached alone, when nothing cached reaches it. *)
LEMMA FinAloneTidy ==
  ASSUME NEW C, Tidy(C), \A s \in C : End(s) # FinPlace
  PROVE  LET d == [seq |-> FinPlace, data |-> <<>>, fin |-> TRUE]
             M == C \cup {d}
         IN  /\ d.seq = FinPlace /\ Tidy(M) /\ Covered(M) = Covered(C)
             /\ Cardinality(M) <= Cardinality(C) + 1
<1> DEFINE d == [seq |-> FinPlace, data |-> <<>>, fin |-> TRUE]
           M == C \cup {d}
           yes == TRUE
<1>1. FinPlace \in 1 .. FinPlace /\ FinPlace \in Nat /\ FinPlace <= FinPlace
  BY StreamNumbers
<1>2. Bytes(FinPlace, FinPlace) = <<>>
  BY <1>1, BytesEmpty
<1>3. d = Segment(FinPlace, FinPlace, yes) /\ yes \in BOOLEAN /\ yes
  BY <1>2 DEF Segment
<1> HIDE DEF yes, d
<1>4. TrueSegment(d) /\ d.seq = FinPlace /\ End(d) = FinPlace
  BY <1>1, <1>3, SegmentTrue, SegmentParts
<1>5. ASSUME NEW s \in C PROVE TrueSegment(s) /\ Apart(s, d) /\ Apart(d, s)
  <2>1. TrueSegment(s) /\ End(s) \in 1 .. FinPlace
    BY SegmentIs DEF Tidy
  <2> QED BY <1>1, <1>4, <2>1 DEF Apart
<1>6. IsFiniteSet(C) /\ IsFiniteSet(M)
  BY FS_AddElement DEF Tidy
<1>7. Tidy(M)
  <2>1. \A s \in M : TrueSegment(s)
    BY <1>4, <1>5
  <2>2. \A s, t \in C : s # t => Apart(s, t)
    BY DEF Tidy
  <2>3. \A s, t \in M : s # t => Apart(s, t)
    BY <1>5, <2>2
  <2> QED BY <1>6, <2>1, <2>3 DEF Tidy
<1>8. Covered(M) = Covered(C)
  <2>1. Span(d) = {}
    BY <1>1, <1>4 DEF Span
  <2> QED BY <2>1 DEF Covered
<1>9. Cardinality(M) <= Cardinality(C) + 1
  <2>1. Cardinality(M) = IF d \in C THEN Cardinality(C) ELSE Cardinality(C) + 1
    BY <1>6, FS_AddElement
  <2>2. Cardinality(C) \in Nat
    BY <1>6, FS_CardinalityType
  <2> QED BY <2>1, <2>2
<1> QED BY <1>4, <1>7, <1>8, <1>9 DEF d

----------------------------------------------------------------------------
(* Stretches as the queue holds them. *)

Stretch(q, a, b) ==
  a \in 1 .. FinPlace /\ b \in 1 .. FinPlace /\ a <= b /\ q = Bytes(a, b)

(* What a stretch is. *)
LEMMA StretchIs ==
  ASSUME NEW q, NEW a, NEW b, Stretch(q, a, b)
  PROVE  /\ q \in Seq(1 .. StreamLen) /\ Len(q) \in Nat /\ Len(q) = b - a
         /\ a \in Nat /\ b \in Nat /\ a >= 1 /\ a <= b /\ b <= FinPlace
         /\ q = <<>> <=> a = b
<1>1. a \in 1 .. FinPlace /\ b \in 1 .. FinPlace /\ a <= b /\ q = Bytes(a, b)
  BY DEF Stretch
<1>2. FinPlace \in Nat
  BY StreamNumbers
<1>3. a \in Nat /\ b \in Nat /\ a >= 1 /\ b <= FinPlace /\ b - a \in Nat
  BY ONLY <1>1, <1>2
<1>4. q \in Seq(1 .. StreamLen) /\ Len(q) = b - a
  BY ONLY <1>1, BytesType
<1>5. q = <<>> <=> a = b
  BY ONLY <1>1, BytesEmpty
<1> QED BY ONLY <1>1, <1>3, <1>4, <1>5

(* Cut in two. *)
LEMMA StretchCut ==
  ASSUME NEW q, NEW a, NEW b, Stretch(q, a, b), NEW n \in Nat, n <= Len(q)
  PROVE  /\ Stretch(SubSeq(q, 1, n), a, a + n) /\ Stretch(Drop(q, n), a + n, b)
         /\ Len(Drop(q, n)) = Len(q) - n /\ Drop(q, n) \in Seq(1 .. StreamLen)
<1> DEFINE l == Len(q)
<1>1. a \in 1 .. FinPlace /\ b \in 1 .. FinPlace /\ a <= b /\ q = Bytes(a, b)
  BY DEF Stretch
<1>2. l = b - a /\ a \in Nat /\ b \in Nat /\ n <= l /\ l \in Nat /\ n \in Nat /\ FinPlace \in Nat
  BY StretchIs, StreamNumbers
<1> HIDE DEF l
<1>3. /\ n \in 0 .. (b - a) /\ a + n \in 1 .. FinPlace /\ a <= a + n /\ a + n <= b
      /\ b - (a + n) = l - n
  BY ONLY <1>1, <1>2
<1>4. SubSeq(Bytes(a, b), 1, n) = Bytes(a, a + n)
  BY ONLY <1>1, <1>3, BytesTake
<1>5. Drop(Bytes(a, b), n) = Bytes(a + n, b)
  BY ONLY <1>1, <1>3, BytesDrop
<1>6. Stretch(SubSeq(q, 1, n), a, a + n) /\ Stretch(Drop(q, n), a + n, b)
  BY ONLY <1>1, <1>3, <1>4, <1>5 DEF Stretch
<1>7. Len(Drop(q, n)) = b - (a + n) /\ Drop(q, n) \in Seq(1 .. StreamLen)
  BY <1>6, StretchIs
<1> QED BY <1>3, <1>6, <1>7 DEF l

(* Two joined. *)
LEMMA StretchJoin ==
  ASSUME NEW p, NEW q, NEW a, NEW b, NEW c, Stretch(p, a, b), Stretch(q, b, c)
  PROVE  Stretch(p \o q, a, c) /\ Len(p \o q) = Len(p) + Len(q)
<1>1. /\ a \in 1 .. FinPlace /\ b \in 1 .. FinPlace /\ c \in 1 .. FinPlace
      /\ a <= b /\ b <= c /\ p = Bytes(a, b) /\ q = Bytes(b, c)
  BY DEF Stretch
<1>2. Bytes(a, b) \o Bytes(b, c) = Bytes(a, c)
  BY ONLY <1>1, BytesJoin
<1>3. FinPlace \in Nat
  BY StreamNumbers
<1>4. a <= c
  BY ONLY <1>1, <1>3
<1>5. Stretch(p \o q, a, c)
  BY ONLY <1>1, <1>2, <1>4 DEF Stretch
<1>6. Len(p) = b - a /\ Len(q) = c - b /\ Len(p \o q) = c - a /\ a \in Nat /\ b \in Nat /\ c \in Nat
  BY <1>5, StretchIs
<1>7. c - a = (b - a) + (c - b)
  BY ONLY <1>6
<1> QED BY <1>5, <1>6, <1>7

(* The data of a segment, and the rest of it from a place inside. *)
LEMMA StretchOf ==
  ASSUME NEW s, s.seq \in 1 .. FinPlace, End(s) \in 1 .. FinPlace, s.seq <= End(s),
         s.data = Bytes(s.seq, End(s))
  PROVE  Stretch(s.data, s.seq, End(s))
BY DEF Stretch

(* The rest of a stretch from a place inside it. *)
LEMMA StretchFrom ==
  ASSUME NEW q, NEW a, NEW b, Stretch(q, a, b), NEW r \in Nat, a <= r, r <= b
  PROVE  Stretch(Drop(q, r - a), r, b)
<1>1. a \in Nat /\ b \in Nat /\ Len(q) = b - a
  BY StretchIs
<1>2. r - a \in Nat /\ r - a <= b - a /\ a + (r - a) = r
  BY ONLY <1>1, r \in Nat, a <= r, r <= b
<1> DEFINE n == r - a
<1>3. n \in Nat /\ n <= Len(q) /\ a + n = r
  BY <1>1, <1>2
<1> HIDE DEF n
<1>4. Stretch(Drop(q, n), a + n, b)
  BY <1>3, StretchCut
<1> QED BY <1>3, <1>4 DEF n

=============================================================================
