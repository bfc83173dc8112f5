--------------------------- MODULE Restorers_proofs ---------------------------
(* Putting the originals back while a response streams: the byte stream of              *)
(* StreamRestorer and the events of SseRestorer, for all texts, tables, cuts and        *)
(* interleavings.  First what Restore, PartlyRestored and Holdback do to the parts of a *)
(* text, by induction over its length: a cut that no alias lies across is invisible,    *)
(* and Holdback finds such a cut.  Then the invariant of each restorer: what was sent,  *)
(* with the restoration of what is held and of any text x after it, is the restoration  *)
(* of all that arrived with x after it.                                                 *)
EXTENDS StreamRestorer, SseRestorer, SequenceTheorems, FiniteSetTheorems, WellFoundedInduction, TLAPS

-------------------------------------------------------------------------------
\* Parts of a text, and induction over its length.

Take(s, n) == SubSeq(s, 1, n)
Drop(s, n) == SubSeq(s, n + 1, Len(s))

LEMMA Assoc ==
    ASSUME NEW C, NEW s \in Seq(C), NEW t \in Seq(C), NEW u \in Seq(C)
    PROVE  s \o (t \o u) = (s \o t) \o u
  BY ConcatAssociative, SMTT(60)

\* Associativity, for one triple at a time.
Associates(s, t, u) == s \o (t \o u) = (s \o t) \o u

LEMMA Associativity == \A C : \A s, t, u \in Seq(C) : Associates(s, t, u)
  BY Assoc DEF Associates

LEMMA OneIsNotEmpty == ASSUME NEW h, Len(h) = 1 PROVE h # <<>>
<1>1. Len(<<>>) = 0
  OBVIOUS
<1> QED
  BY <1>1

\* The first n characters, and the others.
LEMMA TakeProperties ==
    ASSUME NEW C, NEW s \in Seq(C), NEW n \in 0 .. Len(s)
    PROVE  /\ Take(s, n) \in Seq(C)
           /\ Len(Take(s, n)) = n
           /\ \A i \in 1 .. n : Take(s, n)[i] = s[i]
  BY DEF Take

LEMMA DropProperties ==
    ASSUME NEW C, NEW s \in Seq(C), NEW n \in 0 .. Len(s)
    PROVE  /\ Drop(s, n) \in Seq(C)
           /\ Len(Drop(s, n)) = Len(s) - n
           /\ \A i \in 1 .. Len(s) - n : Drop(s, n)[i] = s[n + i]
  BY DEF Drop

LEMMA TakeDrop ==
    ASSUME NEW C, NEW s \in Seq(C), NEW n \in 0 .. Len(s)
    PROVE  Take(s, n) \o Drop(s, n) = s
<1> DEFINE t == Take(s, n)
           d == Drop(s, n)
           td == t \o d
<1>1. t \in Seq(C) /\ Len(t) = n /\ \A i \in 1 .. n : t[i] = s[i]
  BY TakeProperties
<1>2. d \in Seq(C) /\ Len(d) = Len(s) - n /\ \A i \in 1 .. Len(s) - n : d[i] = s[n + i]
  BY DropProperties
<1>3. n \in Nat /\ Len(s) \in Nat /\ n <= Len(s)
  OBVIOUS
<1> HIDE DEF t, d
<1>4. /\ td \in Seq(C) /\ Len(td) = Len(s)
      /\ \A i \in 1 .. Len(s) : td[i] = IF i <= n THEN t[i] ELSE d[i - n]
  BY <1>1, <1>2, <1>3, ConcatProperties
<1>5. ASSUME NEW i \in 1 .. Len(s) PROVE td[i] = s[i]
  <2>1. CASE i <= n
    BY <2>1, <1>1, <1>3, <1>4
  <2>2. CASE i > n
    <3> DEFINE k == i - n
    <3>1. k \in 1 .. Len(s) - n /\ n + k = i
      BY <2>2, <1>3
    <3>2. td[i] = d[k]
      BY <2>2, <1>4, <1>3
    <3> HIDE DEF k, td
    <3> QED
      BY <3>1, <3>2, <1>2
  <2>3. i <= n \/ i > n
    BY <1>3
  <2> HIDE DEF td
  <2> QED
    BY <2>1, <2>2, <2>3
<1> HIDE DEF td
<1>6. td = s
  BY <1>4, <1>5, SeqEqual
<1> QED
  BY <1>6 DEF td, t, d

LEMMA DropEnds ==
    ASSUME NEW C, NEW s \in Seq(C)
    PROVE  /\ Drop(s, 0) = s
           /\ Drop(s, Len(s)) = <<>>
           /\ Take(s, Len(s)) = s
           /\ Take(s, 0) = <<>>
  BY SubSeqFull, SubSeqEmpty DEF Drop, Take

LEMMA DropConcat ==
    ASSUME NEW C, NEW s \in Seq(C), NEW t \in Seq(C), NEW n \in 0 .. Len(s)
    PROVE  Drop(s \o t, n) = Drop(s, n) \o t
<1> DEFINE st == s \o t
           d == Drop(s, n)
           l == Drop(st, n)
           r == d \o t
<1>1. st \in Seq(C) /\ Len(st) = Len(s) + Len(t) /\ n \in 0 .. Len(st)
  OBVIOUS
<1>2. \A i \in 1 .. Len(s) + Len(t) : st[i] = IF i <= Len(s) THEN s[i] ELSE t[i - Len(s)]
  BY ConcatProperties
<1>3. d \in Seq(C) /\ Len(d) = Len(s) - n /\ \A i \in 1 .. Len(s) - n : d[i] = s[n + i]
  BY DropProperties
<1>4. Len(s) \in Nat /\ Len(t) \in Nat /\ n \in Nat /\ n <= Len(s)
  OBVIOUS
<1> HIDE DEF st, d
<1>5. l \in Seq(C) /\ Len(l) = Len(st) - n /\ \A i \in 1 .. Len(st) - n : l[i] = st[n + i]
  BY <1>1, DropProperties
<1>6. /\ r \in Seq(C) /\ Len(r) = Len(d) + Len(t)
      /\ \A i \in 1 .. Len(d) + Len(t) : r[i] = IF i <= Len(d) THEN d[i] ELSE t[i - Len(d)]
  BY <1>3, ConcatProperties
<1> HIDE DEF l, r
<1>7. ASSUME NEW i \in 1 .. Len(l) PROVE l[i] = r[i]
  <2> DEFINE k == n + i
  <2>1. i \in 1 .. Len(d) + Len(t) /\ k \in 1 .. Len(s) + Len(t) /\ i \in 1 .. Len(st) - n
    BY <1>1, <1>3, <1>4, <1>5
  <2>2. l[i] = st[k]
    BY <1>5, <2>1
  <2>3. (i <= Len(d) <=> k <= Len(s)) /\ i - Len(d) = k - Len(s)
    BY <1>3, <1>4, <2>1
  <2>4. i <= Len(d) => d[i] = s[k]
    BY <1>3, <2>1
  <2> HIDE DEF k
  <2> QED
    BY <2>1, <2>2, <2>3, <2>4, <1>2, <1>6
<1>8. l = r
  BY <1>1, <1>3, <1>4, <1>5, <1>6, <1>7, SeqEqual, SMTT(60)
<1> QED
  BY <1>8 DEF l, r, st, d

\* Dropping twice.
LEMMA DropDrop ==
    ASSUME NEW C, NEW s \in Seq(C), NEW m \in 0 .. Len(s), NEW n \in 0 .. Len(s) - m
    PROVE  Drop(Drop(s, m), n) = Drop(s, m + n)
<1> DEFINE d == Drop(s, m)
           l == Drop(d, n)
           k == m + n
           r == Drop(s, k)
<1>1. Len(s) \in Nat /\ n \in Nat /\ m \in Nat /\ m <= Len(s) /\ n <= Len(s) - m
  OBVIOUS
<1>2. d \in Seq(C) /\ Len(d) = Len(s) - m /\ \A i \in 1 .. Len(s) - m : d[i] = s[m + i]
  BY DropProperties
<1> HIDE DEF d
<1>3. n \in 0 .. Len(d) /\ k \in 0 .. Len(s) /\ Len(s) - k = Len(d) - n
  BY <1>1, <1>2
<1>4. l \in Seq(C) /\ Len(l) = Len(d) - n /\ \A i \in 1 .. Len(d) - n : l[i] = d[n + i]
  BY <1>2, <1>3, DropProperties
<1>5. r \in Seq(C) /\ Len(r) = Len(s) - k /\ \A i \in 1 .. Len(s) - k : r[i] = s[k + i]
  <2> HIDE DEF k
  <2> QED
    BY <1>3, DropProperties
<1>6. ASSUME NEW i \in 1 .. Len(l) PROVE l[i] = r[i]
  <2> DEFINE p == n + i
             q == k + i
  <2>1. p \in 1 .. Len(s) - m /\ m + p = q /\ i \in 1 .. Len(d) - n
    BY <1>1, <1>2, <1>3, <1>4
  <2>2. l[i] = d[p] /\ r[i] = s[q]
    BY <2>1, <1>3, <1>4, <1>5
  <2> HIDE DEF p, q, k, l, r
  <2> QED
    BY <2>1, <2>2, <1>2
<1> HIDE DEF l, r, k
<1>7. l = r
  BY <1>3, <1>4, <1>5, <1>6, SeqEqual
<1> QED
  BY <1>7 DEF l, r, k, d

\* A text is its first character and the rest.
LEMMA FirstAndRest ==
    ASSUME NEW C, NEW s \in Seq(C), s # <<>>
    PROVE  /\ s = <<s[1]>> \o Drop(s, 1)
           /\ s[1] \in C /\ <<s[1]>> \in Seq(C)
           /\ Len(s) \in Nat \ {0}
           /\ Drop(s, 1) \in Seq(C) /\ Len(Drop(s, 1)) = Len(s) - 1
<1>1. Len(s) \in Nat \ {0} /\ s[1] \in C
  BY EmptySeq, ElementOfSeq
<1>2. <<s[1]>> \in Seq(C) /\ Len(<<s[1]>>) = 1 /\ <<s[1]>>[1] = s[1]
  BY <1>1
<1>3. 1 \in 0 .. Len(s)
  BY <1>1
<1>4. /\ Take(s, 1) \in Seq(C)
      /\ Len(Take(s, 1)) = 1
      /\ \A i \in 1 .. 1 : Take(s, 1)[i] = s[i]
  BY <1>3, TakeProperties
<1> DEFINE t == Take(s, 1)
           h == <<s[1]>>
<1>5. t = h
  <2>1. t \in Seq(C) /\ h \in Seq(C) /\ Len(t) = Len(h) /\ \A i \in 1 .. Len(t) : t[i] = h[i]
    BY <1>4, <1>2
  <2> HIDE DEF t, h
  <2> QED
    BY <2>1, SeqEqual
<1>6. Drop(s, 1) \in Seq(C) /\ Len(Drop(s, 1)) = Len(s) - 1
  <2> DEFINE k == 1
  <2>1. k \in 0 .. Len(s)
    BY <1>1
  <2> HIDE DEF k
  <2>2. Drop(s, k) \in Seq(C) /\ Len(Drop(s, k)) = Len(s) - k
    BY <2>1, DropProperties
  <2> QED
    BY <2>2 DEF k
<1>7. Take(s, 1) \o Drop(s, 1) = s
  BY <1>3, TakeDrop
<1> QED
  BY <1>1, <1>2, <1>5, <1>6, <1>7

\* A prefix, element by element.
LEMMA PrefixElements ==
    ASSUME NEW C, NEW a \in Seq(C), NEW s \in Seq(C)
    PROVE  IsPrefix(a, s) <=> Len(a) <= Len(s) /\ \A i \in 1 .. Len(a) : a[i] = s[i]
<1>1. ASSUME Len(a) <= Len(s)
      PROVE SubSeq(a, 1, Len(a)) = SubSeq(s, 1, Len(a)) <=> \A i \in 1 .. Len(a) : a[i] = s[i]
  <2>1. SubSeq(a, 1, Len(a)) = a
    BY SubSeqFull
  <2>2. SubSeq(s, 1, Len(a)) \in Seq(C) /\ Len(SubSeq(s, 1, Len(a))) = Len(a)
        /\ \A i \in 1 .. Len(a) : SubSeq(s, 1, Len(a))[i] = s[i]
    BY <1>1, TakeProperties DEF Take
  <2> QED
    BY <2>1, <2>2, SeqEqual
<1> QED
  BY <1>1 DEF IsPrefix

LEMMA EmptyPrefix ==
    ASSUME NEW C, NEW z \in Seq(C), NEW s \in Seq(C)
    PROVE  Len(z) = 0 => IsPrefix(z, s)
<1>1. Len(s) \in Nat
  OBVIOUS
<1>2. IsPrefix(z, s) <=> Len(z) <= Len(s) /\ \A i \in 1 .. Len(z) : z[i] = s[i]
  BY PrefixElements
<1>3. \A i \in 1 .. 0 : z[i] = s[i]
  OBVIOUS
<1> QED
  BY <1>1, <1>2, <1>3

\* A text that begins with another is that one with some text after it.
LEMMA PrefixSplit ==
    ASSUME NEW C, NEW a \in Seq(C), NEW s \in Seq(C), IsPrefix(a, s)
    PROVE  s = a \o Drop(s, Len(a)) /\ Drop(s, Len(a)) \in Seq(C)
           /\ Len(Drop(s, Len(a))) = Len(s) - Len(a) /\ Len(a) \in 0 .. Len(s)
<1>1. Len(a) \in 0 .. Len(s)
  BY DEF IsPrefix
<1>2. Take(s, Len(a)) = a
  BY SubSeqFull DEF IsPrefix, Take
<1> QED
  BY <1>1, <1>2, TakeDrop, DropProperties

LEMMA PrefixOfConcat ==
    ASSUME NEW C, NEW a \in Seq(C), NEW s \in Seq(C), NEW t \in Seq(C)
    PROVE  /\ IsPrefix(a, a \o t)
           /\ IsPrefix(a, s) => IsPrefix(a, s \o t)
           /\ IsPrefix(a, s \o t) /\ Len(a) <= Len(s) => IsPrefix(a, s)
           /\ IsPrefix(a, s \o t) /\ Len(s) <= Len(a) => IsPrefix(s, a)
<1> DEFINE st == s \o t
           at == a \o t
<1>1. st \in Seq(C) /\ Len(st) = Len(s) + Len(t) /\ \A i \in 1 .. Len(s) : st[i] = s[i]
  BY ConcatProperties
<1>2. at \in Seq(C) /\ Len(at) = Len(a) + Len(t) /\ \A i \in 1 .. Len(a) : at[i] = a[i]
  BY ConcatProperties
<1>3. Len(s) \in Nat /\ Len(a) \in Nat /\ Len(t) \in Nat
  OBVIOUS
<1> HIDE DEF st, at
<1>4. /\ IsPrefix(a, at) <=> Len(a) <= Len(at) /\ \A i \in 1 .. Len(a) : a[i] = at[i]
      /\ IsPrefix(a, st) <=> Len(a) <= Len(st) /\ \A i \in 1 .. Len(a) : a[i] = st[i]
      /\ IsPrefix(a, s) <=> Len(a) <= Len(s) /\ \A i \in 1 .. Len(a) : a[i] = s[i]
      /\ IsPrefix(s, a) <=> Len(s) <= Len(a) /\ \A i \in 1 .. Len(s) : s[i] = a[i]
  BY <1>1, <1>2, PrefixElements, ZenonT(60)
<1>5. IsPrefix(a, at)
  BY <1>2, <1>3, <1>4
<1>6. IsPrefix(a, s) => IsPrefix(a, st)
  BY <1>1, <1>3, <1>4
<1>7. IsPrefix(a, st) /\ Len(a) <= Len(s) => IsPrefix(a, s)
  BY <1>1, <1>3, <1>4
<1>8. IsPrefix(a, st) /\ Len(s) <= Len(a) => IsPrefix(s, a)
  BY <1>1, <1>3, <1>4
<1> QED
  BY <1>5, <1>6, <1>7, <1>8 DEF st, at

\* A common beginning does not matter.
LEMMA PrefixCancel ==
    ASSUME NEW C, NEW a \in Seq(C), NEW s \in Seq(C), NEW t \in Seq(C)
    PROVE  IsPrefix(t \o a, t \o s) <=> IsPrefix(a, s)
<1> DEFINE ta == t \o a
           ts == t \o s
           n == Len(t)
<1>1. ta \in Seq(C) /\ Len(ta) = n + Len(a) /\ \A i \in 1 .. n : ta[i] = t[i]
  BY ConcatProperties
<1>2. ts \in Seq(C) /\ Len(ts) = n + Len(s) /\ \A i \in 1 .. n : ts[i] = t[i]
  BY ConcatProperties
<1>3. \A i \in 1 .. Len(a) : ta[n + i] = a[i]
  BY ConcatProperties
<1>4. \A i \in 1 .. Len(s) : ts[n + i] = s[i]
  BY ConcatProperties
<1>5. Len(s) \in Nat /\ Len(a) \in Nat /\ n \in Nat
  OBVIOUS
<1> HIDE DEF ta, ts, n
<1>6. /\ IsPrefix(ta, ts) <=> Len(ta) <= Len(ts) /\ \A i \in 1 .. Len(ta) : ta[i] = ts[i]
      /\ IsPrefix(a, s) <=> Len(a) <= Len(s) /\ \A i \in 1 .. Len(a) : a[i] = s[i]
  BY <1>1, <1>2, PrefixElements
<1>7. ASSUME IsPrefix(ta, ts) PROVE IsPrefix(a, s)
  <2>1. Len(a) <= Len(s)
    BY <1>7, <1>6, <1>1, <1>2, <1>5
  <2>2. ASSUME NEW i \in 1 .. Len(a) PROVE a[i] = s[i]
    <3>1. n + i \in 1 .. Len(ta) /\ i \in 1 .. Len(s)
      BY <2>1, <1>1, <1>5
    <3>2. ta[n + i] = ts[n + i]
      BY <3>1, <1>7, <1>6
    <3> QED
      BY <3>1, <3>2, <1>3, <1>4
  <2> QED
    BY <2>1, <2>2, <1>6
<1>8. ASSUME IsPrefix(a, s) PROVE IsPrefix(ta, ts)
  <2>1. ASSUME NEW i \in 1 .. Len(ta) PROVE ta[i] = ts[i]
    <3>1. CASE i <= n
      BY <3>1, <1>1, <1>2, <1>5
    <3>2. CASE i > n
      <4> DEFINE j == i - n
      <4>1. j \in 1 .. Len(a) /\ j \in 1 .. Len(s) /\ i = n + j
        BY <3>2, <1>1, <1>5, <1>8, <1>6
      <4> HIDE DEF j
      <4> QED
        BY <4>1, <1>3, <1>4, <1>8, <1>6
    <3> QED
      BY <3>1, <3>2, <1>1, <1>5
  <2> QED
    BY <2>1, <1>1, <1>2, <1>5, <1>6, <1>8
<1> QED
  BY <1>7, <1>8 DEF ta, ts

\* A set of numbers has a least one, and a bounded set a greatest one.
LEMMA LeastExists ==
    ASSUME NEW I, I \subseteq Nat, I # {}
    PROVE  \E x \in I : \A y \in I : x <= y
<1> DEFINE seg(x) == 0 .. x
           T == {seg(x) : x \in I}
           R == StrictSubsetOrdering(Nat)
<1>1. IsWellFoundedOn(R, FiniteSubsetsOf(Nat))
    BY FS_StrictSubsetOrderingWellFounded
<1>2. \A x \in I : seg(x) \in FiniteSubsetsOf(Nat)
    <2> SUFFICES ASSUME NEW x \in I PROVE seg(x) \in FiniteSubsetsOf(Nat)
        OBVIOUS
    <2>1. x \in Int /\ 0 \in Int
        OBVIOUS
    <2>2. IsFiniteSet(0 .. x)
        BY <2>1, FS_Interval
    <2>3. seg(x) \in SUBSET Nat
        OBVIOUS
    <2> QED BY <2>2, <2>3 DEF FiniteSubsetsOf
<1>3. T \subseteq FiniteSubsetsOf(Nat) /\ T # {}
    BY <1>2
<1>4. PICK s \in T : \A t \in T : <<t, s>> \notin R
    <2> HIDE DEF T, R
    <2> QED BY <1>1, <1>3, WFMin
<1>5. PICK x \in I : s = seg(x)
    BY <1>4
<1>6. ASSUME NEW y \in I, ~(x <= y) PROVE FALSE
    <2>1. seg(y) \subseteq seg(x)
        BY <1>6
    <2>2. x \in seg(x) /\ x \notin seg(y)
        BY <1>6
    <2>3. <<seg(y), seg(x)>> \in R
        BY <2>1, <2>2 DEF StrictSubsetOrdering
    <2> QED BY <1>4, <1>5, <2>3
<1> QED BY <1>6

\* What holds of a natural when it holds of all smaller ones holds of all.
LEMMA Induction ==
    ASSUME NEW S, \A n \in Nat : (\A m \in Nat : m < n => m \in S) => n \in S
    PROVE  \A n \in Nat : n \in S
<1> SUFFICES ASSUME NEW m \in Nat, m \notin S PROVE FALSE
  OBVIOUS
<1> DEFINE I == {n \in Nat : n \notin S}
<1>1. PICK x \in I : \A y \in I : x <= y
  BY LeastExists
<1>2. \A n \in Nat : n < x => n \in S
  BY <1>1
<1> QED
  BY <1>2, <1>1

\* What holds of a text when it holds of all shorter ones holds of all.
LEMMA TextInduction ==
    ASSUME NEW C, NEW S,
           \A s \in Seq(C) : (\A t \in Seq(C) : Len(t) < Len(s) => t \in S) => s \in S
    PROVE  \A s \in Seq(C) : s \in S
<1> DEFINE N == {n \in Nat : \A s \in Seq(C) : Len(s) = n => s \in S}
<1>1. ASSUME NEW n \in Nat, \A m \in Nat : m < n => m \in N PROVE n \in N
  <2>1. ASSUME NEW s \in Seq(C), Len(s) = n PROVE s \in S
    <3>1. ASSUME NEW t \in Seq(C), Len(t) < Len(s) PROVE t \in S
      <4>1. Len(t) \in Nat /\ Len(t) < n
        BY <3>1, <2>1
      <4> QED
        BY <4>1, <1>1
    <3> QED
      BY <3>1
  <2> QED
    BY <2>1
<1>2. \A n \in Nat : n \in N
  <2> HIDE DEF N
  <2> QED
    BY <1>1, Induction
<1> QED
  BY <1>2

\* A non-empty set of naturals below a bound has a greatest element, which Max chooses.

\* A non-empty set of naturals below a bound has a greatest element.
LEMMA GreatestExists ==
    ASSUME NEW I, I \subseteq Nat, I # {}, NEW b \in Nat, \A x \in I : x <= b
    PROVE  \E x \in I : \A y \in I : x >= y
<1> DEFINE J == {b - x : x \in I}
<1>0. ASSUME NEW x \in I PROVE x \in Nat /\ b - x \in Nat /\ b - x \in J
  BY <1>0
<1>1. J \subseteq Nat /\ J # {}
  BY <1>0
<1>2. PICK j \in J : \A y \in J : j <= y
  <2> HIDE DEF J
  <2> QED
    BY <1>1, LeastExists
<1>3. PICK x \in I : j = b - x
  BY <1>2
<1>4. \A y \in I : x >= y
  <2> SUFFICES ASSUME NEW y \in I PROVE x >= y
    OBVIOUS
  <2>1. b - y \in J /\ y \in Nat /\ x \in Nat
    BY <1>0, <1>3
  <2> HIDE DEF J
  <2>2. j <= b - y
    BY <1>2, <2>1
  <2> QED
    BY <2>1, <2>2, <1>3
<1> QED
  BY <1>4

LEMMA MaxOfBounded ==
    ASSUME NEW I, I \subseteq Nat, I # {}, NEW b \in Nat, \A x \in I : x <= b
    PROVE  Max(I) \in I /\ \A x \in I : x <= Max(I)
<1>1. \E x \in I : \A y \in I : x >= y
  BY GreatestExists
<1>2. Max(I) \in I /\ \A y \in I : Max(I) >= y
  BY <1>1 DEF Max
<1> QED
  BY <1>2

\* The longest of some prefixes of a text.
LEMMA LongestExists ==
    ASSUME NEW C, NEW s \in Seq(C), NEW S, S \subseteq Seq(C), S # {}, \A a \in S : IsPrefix(a, s)
    PROVE  Longest(S) \in S /\ \A b \in S : Len(b) <= Len(Longest(S))
<1> DEFINE I == {Len(a) : a \in S}
<1>1. \A a \in S : Len(a) \in Nat /\ Len(a) <= Len(s)
  BY DEF IsPrefix
<1>2. I \subseteq Nat /\ I # {} /\ Len(s) \in Nat /\ \A x \in I : x <= Len(s)
  BY <1>1, SMTT(60)
<1>3. PICK x \in I : \A y \in I : x >= y
  <2> HIDE DEF I
  <2> QED
    BY <1>2, GreatestExists
<1>4. PICK a \in S : x = Len(a)
  BY <1>3
<1>5. \A b \in S : Len(a) >= Len(b)
  BY <1>3, <1>4
<1>6. Longest(S) \in S /\ \A b \in S : Len(Longest(S)) >= Len(b)
  BY <1>5 DEF Longest
<1> QED
  BY <1>1, <1>6

-----------------------------------------------------------------------------
\* G[i] computes the i-th value of a function into V from those that follow it.
RecursionStep(V, n, G) == \A i \in 1 .. n : \A g \in [i + 1 .. n + 1 -> V] : G[i][g] \in V

Follows(f, base, n, G) ==
    /\ f[n + 1] = base
    /\ \A i \in 1 .. n : f[i] = G[i][[j \in i + 1 .. n + 1 |-> f[j]]]

\* A function defined by recursion towards the end of 1 .. n + 1 exists.
LEMMA RecursionExists ==
    ASSUME NEW V, NEW base \in V, NEW n \in Nat, NEW G, RecursionStep(V, n, G)
    PROVE  \E f \in [1 .. n + 1 -> V] : Follows(f, base, n, G)
<1> USE DEF RecursionStep, Follows
<1> DEFINE Rec(f, k) == /\ f[n + 1] = base
                        /\ \A i \in k .. n : f[i] = G[i][[j \in i + 1 .. n + 1 |-> f[j]]]
           S == {m \in Nat : m <= n => \E f \in [n + 1 - m .. n + 1 -> V] : Rec(f, n + 1 - m)}
<1>1. ASSUME NEW m \in Nat, \A p \in Nat : p < m => p \in S PROVE m \in S
  <2> SUFFICES ASSUME m <= n PROVE \E f \in [n + 1 - m .. n + 1 -> V] : Rec(f, n + 1 - m)
    OBVIOUS
  <2>1. CASE m = 0
    <3> DEFINE f == [i \in n + 1 .. n + 1 |-> base]
    <3>1. n + 1 - m = n + 1
      BY <2>1
    <3>2. f \in [n + 1 .. n + 1 -> V] /\ f[n + 1] = base
      OBVIOUS
    <3>3. \A i \in n + 1 .. n : FALSE
      OBVIOUS
    <3>4. Rec(f, n + 1)
      BY <3>2, <3>3
    <3> HIDE DEF f, Rec
    <3> QED
      BY <3>1, <3>2, <3>4
  <2>2. CASE m # 0
    <3> DEFINE k == n + 1 - m
    <3>1. k \in 1 .. n /\ k + 1 = n + 1 - (m - 1) /\ m - 1 \in Nat /\ m - 1 <= n /\ m - 1 < m
      BY <2>2
    <3>2. PICK f \in [k + 1 .. n + 1 -> V] : Rec(f, k + 1)
      <4>1. m - 1 \in S
        <5> HIDE DEF S
        <5> QED
          BY <3>1, <1>1
      <4>2. \E f \in [n + 1 - (m - 1) .. n + 1 -> V] : Rec(f, n + 1 - (m - 1))
        <5> HIDE DEF Rec
        <5> QED
          BY <3>1, <4>1
      <4> HIDE DEF Rec, k
      <4> QED
        BY <3>1, <4>2
    <3> DEFINE g == [i \in k .. n + 1 |-> IF i = k THEN G[k][f] ELSE f[i]]
    <3> HIDE DEF k
    <3>3. G[k][f] \in V
      BY <3>1, <3>2
    <3>4. g \in [k .. n + 1 -> V]
      <4> SUFFICES ASSUME NEW i \in k .. n + 1 PROVE (IF i = k THEN G[k][f] ELSE f[i]) \in V
        OBVIOUS
      <4>1. i # k => i \in k + 1 .. n + 1
        BY <3>1
      <4> QED
        BY <4>1, <3>2, <3>3
    <3>5. \A i \in k + 1 .. n + 1 : i \in k .. n + 1 /\ i # k /\ g[i] = f[i]
      BY <3>1
    <3>6. n + 1 \in k + 1 .. n + 1 /\ k \in k .. n + 1
      BY <3>1
    <3>7. g[n + 1] = base
      BY <3>2, <3>5, <3>6
    <3>8. ASSUME NEW i \in k .. n PROVE g[i] = G[i][[j \in i + 1 .. n + 1 |-> g[j]]]
      <4>1. [j \in i + 1 .. n + 1 |-> g[j]] = [j \in i + 1 .. n + 1 |-> f[j]]
        <5>1. \A j \in i + 1 .. n + 1 : j \in k + 1 .. n + 1
          BY <3>1
        <5> HIDE DEF g
        <5> QED
          BY <5>1, <3>5
      <4>2. CASE i = k
        <5>1. g[i] = G[k][f]
          BY <4>2, <3>6
        <5>2. [j \in i + 1 .. n + 1 |-> f[j]] = f
          BY <4>2, <3>2
        <5> HIDE DEF g
        <5> QED
          BY <5>1, <5>2, <4>1, <4>2
      <4>3. CASE i # k
        <5>1. i \in k + 1 .. n /\ i \in k + 1 .. n + 1
          BY <4>3, <3>1
        <5>2. f[i] = G[i][[j \in i + 1 .. n + 1 |-> f[j]]]
          BY <5>1, <3>2
        <5>3. g[i] = f[i]
          BY <5>1, <3>5
        <5> HIDE DEF g
        <5> QED
          BY <5>2, <5>3, <4>1
      <4> QED
        BY <4>2, <4>3
    <3>9. Rec(g, k)
      BY <3>7, <3>8
    <3> HIDE DEF g, Rec
    <3> QED
      BY <3>4, <3>9 DEF k
  <2> QED
    BY <2>1, <2>2
<1>2. \A m \in Nat : m \in S
  <2> HIDE DEF S
  <2> QED
    BY <1>1, Induction
<1>3. n \in S
  <2> HIDE DEF S
  <2> QED
    BY <1>2
<1>4. \E f \in [n + 1 - n .. n + 1 -> V] : Rec(f, n + 1 - n)
  <2> HIDE DEF Rec
  <2> QED
    BY <1>3
<1>5. n + 1 - n = 1
  OBVIOUS
<1> QED
  BY <1>4, <1>5

\* Two functions that are defined by the same recursion agree.
LEMMA RecursionUnique ==
    ASSUME NEW n \in Nat, NEW f, NEW g, f[n + 1] = g[n + 1],
           \A i \in 1 .. n : (\A j \in i + 1 .. n + 1 : f[j] = g[j]) => f[i] = g[i]
    PROVE  \A i \in 1 .. n + 1 : f[i] = g[i]
<1> DEFINE S == {m \in Nat : m <= n => f[n + 1 - m] = g[n + 1 - m]}
<1>1. ASSUME NEW m \in Nat, \A p \in Nat : p < m => p \in S PROVE m \in S
  <2> SUFFICES ASSUME m <= n, m # 0 PROVE f[n + 1 - m] = g[n + 1 - m]
    OBVIOUS
  <2>1. n + 1 - m \in 1 .. n
    OBVIOUS
  <2>2. ASSUME NEW j \in n + 1 - m + 1 .. n + 1 PROVE f[j] = g[j]
    <3>1. n + 1 - j \in Nat /\ n + 1 - j < m /\ n + 1 - (n + 1 - j) = j /\ n + 1 - j <= n
      BY <2>1
    <3>2. n + 1 - j \in S
      BY <3>1, <1>1
    <3> QED
      BY <3>1, <3>2
  <2> QED
    BY <2>1, <2>2
<1>2. \A m \in Nat : m \in S
  <2> HIDE DEF S
  <2> QED
    BY <1>1, Induction
<1>3. ASSUME NEW i \in 1 .. n + 1 PROVE f[i] = g[i]
  <2>1. n + 1 - i \in Nat /\ n + 1 - i <= n /\ n + 1 - (n + 1 - i) = i
    OBVIOUS
  <2>2. n + 1 - i \in S
    BY <2>1, <1>2
  <2> QED
    BY <2>1, <2>2
<1> QED
  BY <1>3

-------------------------------------------------------------------------------
\* Restore, from the first character on, and at a cut that no alias lies across.

\* tab is a table over the characters C.
TextTable(C, tab) ==
    /\ tab \subseteq Aliases
    /\ \A a \in tab : a \in Seq(C) /\ a # <<>> /\ Original[a] \in Seq(C)

\* The aliases that a text starts with.
Found(tab, s) == {a \in tab : IsPrefix(a, s)}

\* What replaces the beginning of a text, and how long that beginning is.
Piece(tab, s) == IF Found(tab, s) = {} THEN <<s[1]>> ELSE Original[Longest(Found(tab, s))]
Step(tab, s) == IF Found(tab, s) = {} THEN 1 ELSE Len(Longest(Found(tab, s)))

\* The function by which Restore is defined.
RestBody(tab, text, rest, i) ==
    LET found == {a \in tab : At(text, i, a)} IN
    IF found = {} THEN <<text[i]>> \o rest[i + 1]
    ELSE Original[Longest(found)] \o rest[i + Len(Longest(found))]

RestFn(tab, text) ==
    CHOOSE rest : rest =
        [i \in 1 .. Len(text) + 1 |->
            IF i = Len(text) + 1 THEN <<>> ELSE RestBody(tab, text, rest, i)]

\* Restore is the value of that function at the beginning of the text.
LEMMA RestoreIsRestFn ==
    ASSUME NEW tab, NEW text
    PROVE  Restore(tab, text) = RestFn(tab, text)[1]
  BY Zenon DEF Restore, RestFn, RestBody

\* The alias that is replaced is one of the longest that the text starts with.
LEMMA FoundLongest ==
    ASSUME NEW C, NEW tab, TextTable(C, tab), NEW s \in Seq(C), Found(tab, s) # {}
    PROVE  /\ Longest(Found(tab, s)) \in Found(tab, s)
           /\ \A b \in Found(tab, s) : Len(b) <= Len(Longest(Found(tab, s)))
<1> DEFINE S == Found(tab, s)
<1>1. S \subseteq Seq(C) /\ S # {} /\ \A a \in S : IsPrefix(a, s)
  BY DEF Found, TextTable
<1> HIDE DEF S
<1>2. Longest(S) \in S /\ \A b \in S : Len(b) <= Len(Longest(S))
  BY <1>1, LongestExists
<1> QED
  BY <1>2 DEF S

\* A step passes over one character at least, and not beyond the end.
LEMMA PieceAndStep ==
    ASSUME NEW C, NEW tab, TextTable(C, tab), NEW s \in Seq(C), s # <<>>
    PROVE  Piece(tab, s) \in Seq(C) /\ Step(tab, s) \in 1 .. Len(s)
<1>1. CASE Found(tab, s) = {}
  <2>1. <<s[1]>> \in Seq(C) /\ Len(s) \in Nat \ {0}
    BY FirstAndRest
  <2>2. Piece(tab, s) = <<s[1]>> /\ Step(tab, s) = 1
    BY <1>1 DEF Piece, Step
  <2> QED
    BY <2>1, <2>2
<1>2. CASE Found(tab, s) # {}
  <2> DEFINE a == Longest(Found(tab, s))
  <2>1. a \in tab /\ IsPrefix(a, s)
    BY <1>2, FoundLongest DEF Found
  <2> HIDE DEF a
  <2>2. a \in Seq(C) /\ a # <<>> /\ Original[a] \in Seq(C)
    BY <2>1 DEF TextTable
  <2>3. Len(a) \in 1 .. Len(s)
    BY <2>1, <2>2, EmptySeq DEF IsPrefix
  <2>4. Piece(tab, s) = Original[a] /\ Step(tab, s) = Len(a)
    BY <1>2 DEF Piece, Step, a
  <2> QED
    BY <2>2, <2>3, <2>4
<1> QED
  BY <1>1, <1>2

LEMMA AtIsPrefix ==
    ASSUME NEW C, NEW s \in Seq(C), NEW i \in 1 .. Len(s)
    PROVE  /\ \A a : At(s, i, a) <=> IsPrefix(a, Drop(s, i - 1))
           /\ Drop(s, i - 1) \in Seq(C) /\ Len(Drop(s, i - 1)) = Len(s) + 1 - i
           /\ Drop(s, i - 1)[1] = s[i] /\ Drop(s, i - 1) # <<>>
<1> DEFINE k == i - 1
<1>1. k \in 0 .. Len(s) /\ k + 1 = i /\ Len(s) - k = Len(s) + 1 - i /\ 1 \in 1 .. Len(s) - k
  OBVIOUS
<1>2. \A a : At(s, i, a) <=> IsPrefix(a, Drop(s, k))
  <2> HIDE DEF k
  <2> QED
    BY <1>1 DEF At, Drop
<1> HIDE DEF k
<1>3. Drop(s, k) \in Seq(C) /\ Len(Drop(s, k)) = Len(s) - k /\ Drop(s, k)[1] = s[k + 1]
  BY <1>1, DropProperties
<1> QED
  BY <1>1, <1>2, <1>3 DEF k

\* One step of the recursion.
LEMMA RestStep ==
    ASSUME NEW C, NEW tab, TextTable(C, tab), NEW s \in Seq(C), NEW i \in 1 .. Len(s)
    PROVE  LET d == Drop(s, i - 1) IN
           /\ Piece(tab, d) \in Seq(C)
           /\ i + Step(tab, d) \in i + 1 .. Len(s) + 1
           /\ \A rest : RestBody(tab, s, rest, i) = Piece(tab, d) \o rest[i + Step(tab, d)]
<1> DEFINE found == {a \in tab : At(s, i, a)}
           d == Drop(s, i - 1)
<1>1. d \in Seq(C) /\ Len(d) = Len(s) + 1 - i /\ d[1] = s[i] /\ d # <<>>
  BY AtIsPrefix
<1>2. found = Found(tab, d)
  BY AtIsPrefix DEF Found
<1>3. \A rest : RestBody(tab, s, rest, i) =
        IF found = {} THEN <<s[i]>> \o rest[i + 1]
        ELSE Original[Longest(found)] \o rest[i + Len(Longest(found))]
  BY DEF RestBody
<1> HIDE DEF found, d
<1>4. Piece(tab, d) \in Seq(C) /\ Step(tab, d) \in 1 .. Len(d)
  BY <1>1, PieceAndStep
<1>5. i + Step(tab, d) \in i + 1 .. Len(s) + 1
  BY <1>1, <1>4
<1>6. \A rest : RestBody(tab, s, rest, i) = Piece(tab, d) \o rest[i + Step(tab, d)]
  BY <1>1, <1>2, <1>3 DEF Piece, Step
<1> QED
  BY <1>4, <1>5, <1>6 DEF d

\* The function that Restore chooses exists.
LEMMA RestFnEquations ==
    ASSUME NEW C, NEW tab, TextTable(C, tab), NEW s \in Seq(C)
    PROVE  LET f == RestFn(tab, s) IN
           /\ f \in [1 .. Len(s) + 1 -> Seq(C)]
           /\ f[Len(s) + 1] = <<>>
           /\ \A i \in 1 .. Len(s) :
                 f[i] = Piece(tab, Drop(s, i - 1)) \o f[i + Step(tab, Drop(s, i - 1))]
<1> DEFINE n == Len(s)
           V == Seq(C)
           P(i) == Piece(tab, Drop(s, i - 1))
           T(i) == i + Step(tab, Drop(s, i - 1))
           Body(rest, i) == RestBody(tab, s, rest, i)
           Fn(rest) == [i \in 1 .. n + 1 |-> IF i = n + 1 THEN <<>> ELSE Body(rest, i)]
           G == [i \in 1 .. n |-> [g \in [i + 1 .. n + 1 -> V] |-> P(i) \o g[T(i)]]]
<1>1. n \in Nat /\ <<>> \in V
  OBVIOUS
<1>2. \A i \in 1 .. n : P(i) \in V /\ T(i) \in i + 1 .. n + 1
  BY RestStep
<1>3. \A i \in 1 .. n : \A rest : Body(rest, i) = P(i) \o rest[T(i)]
  BY RestStep
<1> HIDE DEF P, T, Body
<1>4. \A i \in 1 .. n : \A g \in [i + 1 .. n + 1 -> V] : G[i][g] = P(i) \o g[T(i)] /\ G[i][g] \in V
  <2> SUFFICES ASSUME NEW i \in 1 .. n, NEW g \in [i + 1 .. n + 1 -> V]
               PROVE  G[i][g] = P(i) \o g[T(i)] /\ G[i][g] \in V
    OBVIOUS
  <2>1. G[i] = [x \in [i + 1 .. n + 1 -> V] |-> P(i) \o x[T(i)]]
    OBVIOUS
  <2>2. G[i][g] = P(i) \o g[T(i)]
    BY <2>1
  <2>3. P(i) \in V /\ T(i) \in i + 1 .. n + 1
    BY <1>2
  <2>4. g[T(i)] \in V
    BY <2>3
  <2> HIDE DEF G
  <2> QED
    BY <2>2, <2>3, <2>4
<1> DEFINE base == <<>>
<1> HIDE DEF n, V, G
<1>4a. RecursionStep(V, n, G)
  BY <1>4 DEF RecursionStep
<1>5. PICK f \in [1 .. n + 1 -> V] :
              /\ f[n + 1] = <<>>
              /\ \A i \in 1 .. n : f[i] = G[i][[j \in i + 1 .. n + 1 |-> f[j]]]
  <2>1. base \in V
    BY <1>1
  <2> HIDE DEF base
  <2>2. \E f \in [1 .. n + 1 -> V] : Follows(f, base, n, G)
    BY <2>1, <1>1, <1>4a, RecursionExists
  <2> QED
    BY <2>2 DEF base, Follows
<1>6. ASSUME NEW i \in 1 .. n PROVE f[i] = P(i) \o f[T(i)]
  <2> DEFINE g == [j \in i + 1 .. n + 1 |-> f[j]]
  <2>1. \A j \in i + 1 .. n + 1 : j \in 1 .. n + 1
    BY <1>1
  <2>2. g \in [i + 1 .. n + 1 -> V]
    BY <2>1, <1>5
  <2>3. g[T(i)] = f[T(i)]
    BY <1>2
  <2> HIDE DEF g
  <2>4. G[i][g] = P(i) \o g[T(i)]
    BY <2>2, <1>4
  <2> QED
    BY <2>3, <2>4, <1>5 DEF g
<1>7. f = Fn(f)
  <2> SUFFICES ASSUME NEW i \in 1 .. n + 1 PROVE f[i] = IF i = n + 1 THEN <<>> ELSE Body(f, i)
    BY <1>5
  <2>1. i # n + 1 => i \in 1 .. n
    BY <1>1
  <2> QED
    BY <2>1, <1>3, <1>5, <1>6
<1>8. RestFn(tab, s) = CHOOSE rest : rest = Fn(rest)
  BY Zenon DEF RestFn, n, Body
<1> DEFINE h == RestFn(tab, s)
<1>9. h = Fn(h)
  <2> HIDE DEF Fn
  <2> QED
    BY <1>7, <1>8
<1>10. \A i \in 1 .. n : i \in 1 .. n + 1 /\ i # n + 1
  BY <1>1
<1>11. h[n + 1] = <<>>
  <2>1. n + 1 \in 1 .. n + 1
    BY <1>1
  <2> HIDE DEF h
  <2> QED
    BY <1>9, <2>1
<1>12. \A i \in 1 .. n : h[i] = P(i) \o h[T(i)]
  <2> SUFFICES ASSUME NEW i \in 1 .. n PROVE h[i] = P(i) \o h[T(i)]
    OBVIOUS
  <2>1. h[i] = Body(h, i)
    <3> HIDE DEF h
    <3> QED
      BY <1>9, <1>10
  <2> HIDE DEF h
  <2> QED
    BY <2>1, <1>3
<1>13. h = f
  <2>1. f[n + 1] = h[n + 1]
    BY <1>5, <1>11
  <2>2. \A i \in 1 .. n : (\A j \in i + 1 .. n + 1 : f[j] = h[j]) => f[i] = h[i]
    <3> HIDE DEF h
    <3> QED
      BY <1>2, <1>6, <1>12
  <2> HIDE DEF h
  <2>3. \A i \in 1 .. n + 1 : f[i] = h[i]
    BY <2>1, <2>2, <1>1, RecursionUnique, ZenonT(60)
  <2>4. DOMAIN h = 1 .. n + 1 /\ h = [i \in 1 .. n + 1 |-> h[i]]
    BY <1>9
  <2> QED
    BY <2>3, <2>4, <1>5
<1> QED
  BY <1>5, <1>11, <1>12, <1>13 DEF n, V, P, T

\* The restoration of the end of a text is the end of the function.
LEMMA RestFnShift ==
    ASSUME NEW C, NEW tab, TextTable(C, tab), NEW s \in Seq(C), NEW k \in 0 .. Len(s)
    PROVE  RestFn(tab, Drop(s, k))[1] = RestFn(tab, s)[k + 1]
<1> DEFINE d == Drop(s, k)
           n == Len(s) - k
           f == RestFn(tab, d)
           g == RestFn(tab, s)
           h == [i \in 1 .. n + 1 |-> g[k + i]]
<1>1. d \in Seq(C) /\ Len(d) = n /\ n \in Nat /\ k + n = Len(s) /\ Len(s) \in Nat /\ k \in Nat
  BY DropProperties
<1>2. f[n + 1] = <<>> /\ \A i \in 1 .. n : f[i] = Piece(tab, Drop(d, i - 1)) \o f[i + Step(tab, Drop(d, i - 1))]
  <2> HIDE DEF d, n
  <2>1. d \in Seq(C)
    BY <1>1
  <2>2. /\ f[Len(d) + 1] = <<>>
        /\ \A i \in 1 .. Len(d) : f[i] = Piece(tab, Drop(d, i - 1)) \o f[i + Step(tab, Drop(d, i - 1))]
    BY <2>1, RestFnEquations, ZenonT(60)
  <2> QED
    BY <1>1, <2>2
<1>3. /\ g[Len(s) + 1] = <<>>
      /\ \A i \in 1 .. Len(s) : g[i] = Piece(tab, Drop(s, i - 1)) \o g[i + Step(tab, Drop(s, i - 1))]
  BY RestFnEquations, ZenonT(60)
<1>4. ASSUME NEW i \in 1 .. n
      PROVE  /\ Drop(d, i - 1) = Drop(s, k + i - 1)
             /\ k + i \in 1 .. Len(s)
             /\ Step(tab, Drop(d, i - 1)) \in 1 .. n + 1 - i
  <2>1. i - 1 \in 0 .. Len(s) - k /\ k + (i - 1) = k + i - 1 /\ i \in 1 .. Len(d)
    BY <1>1
  <2>2. Drop(d, i - 1) = Drop(s, k + (i - 1))
    BY <2>1, DropDrop
  <2>3. Drop(d, i - 1) \in Seq(C) /\ Len(Drop(d, i - 1)) = Len(d) + 1 - i /\ Drop(d, i - 1) # <<>>
    <3> HIDE DEF d
    <3> QED
      BY <1>1, <2>1, AtIsPrefix
  <2> HIDE DEF d
  <2>4. Step(tab, Drop(d, i - 1)) \in 1 .. Len(Drop(d, i - 1))
    <3> DEFINE dd == Drop(d, i - 1)
    <3> HIDE DEF dd
    <3> QED
      BY <2>3, PieceAndStep DEF dd
  <2> QED
    BY <1>1, <2>1, <2>2, <2>3, <2>4, SMTT(60)
<1> HIDE DEF f, g, d, n
<1>5. h[n + 1] = f[n + 1]
  <2>1. n + 1 \in 1 .. n + 1 /\ k + (n + 1) = Len(s) + 1
    BY <1>1
  <2>2. h[n + 1] = g[k + (n + 1)]
    BY <2>1
  <2> QED
    BY <1>2, <1>3, <2>1, <2>2
<1>6. ASSUME NEW i \in 1 .. n, \A j \in i + 1 .. n + 1 : h[j] = f[j] PROVE h[i] = f[i]
  <2> DEFINE x == Drop(d, i - 1)
             st == Step(tab, x)
             pc == Piece(tab, x)
  <2>1. x = Drop(s, k + i - 1) /\ k + i \in 1 .. Len(s) /\ st \in 1 .. n + 1 - i
    BY <1>4
  <2>2. f[i] = pc \o f[i + st]
    BY <1>2
  <2>3. g[k + i] = pc \o g[k + i + st]
    <3> DEFINE j == k + i
    <3>1. j \in 1 .. Len(s) /\ x = Drop(s, j - 1)
      BY <2>1
    <3> HIDE DEF j
    <3>2. g[j] = Piece(tab, Drop(s, j - 1)) \o g[j + Step(tab, Drop(s, j - 1))]
      BY <3>1, <1>3
    <3>3. g[j] = pc \o g[j + st]
      BY <3>1, <3>2
    <3> QED
      BY <3>3 DEF j
  <2> HIDE DEF x, st, pc
  <2>4. i + st \in i + 1 .. n + 1 /\ i + st \in 1 .. n + 1 /\ i \in 1 .. n + 1 /\ k + (i + st) = k + i + st
    BY <2>1, <1>1
  <2>5. h[i + st] = g[k + i + st] /\ h[i] = g[k + i]
    BY <2>4
  <2> HIDE DEF h
  <2> QED
    BY <2>2, <2>3, <2>4, <2>5, <1>6
<1>7. \A i \in 1 .. n + 1 : h[i] = f[i]
  <2> HIDE DEF h
  <2> QED
    BY <1>1, <1>5, <1>6, RecursionUnique
<1>8. h[1] = g[k + 1] /\ 1 \in 1 .. n + 1
  BY <1>1
<1> HIDE DEF h
<1>9. f[1] = g[k + 1]
  BY <1>7, <1>8
<1> QED
  BY <1>9 DEF f, g, d

-----------------------------------------------------------------------------
\* Restore, unfolded: nothing to restore, or the beginning and the restoration of the rest.
LEMMA RestoreUnfold ==
    ASSUME NEW C, NEW tab, TextTable(C, tab), NEW s \in Seq(C)
    PROVE  /\ Restore(tab, s) \in Seq(C)
           /\ s = <<>> => Restore(tab, s) = <<>>
           /\ s # <<>> => Restore(tab, s) = Piece(tab, s) \o Restore(tab, Drop(s, Step(tab, s)))
<1> DEFINE f == RestFn(tab, s)
<1>1. /\ f \in [1 .. Len(s) + 1 -> Seq(C)]
      /\ f[Len(s) + 1] = <<>>
      /\ \A i \in 1 .. Len(s) : f[i] = Piece(tab, Drop(s, i - 1)) \o f[i + Step(tab, Drop(s, i - 1))]
  BY RestFnEquations, ZenonT(60)
<1>2. Restore(tab, s) = f[1]
  BY RestoreIsRestFn
<1>3. Len(s) \in Nat /\ (s = <<>> => Len(s) = 0)
  OBVIOUS
<1>4. \A k \in 0 .. Len(s) : Restore(tab, Drop(s, k)) = f[k + 1]
  BY RestFnShift, RestoreIsRestFn
<1> HIDE DEF f
<1>5. Restore(tab, s) \in Seq(C)
  BY <1>1, <1>2, <1>3
<1>6. s = <<>> => Restore(tab, s) = <<>>
  BY <1>1, <1>2, <1>3
<1>7. ASSUME s # <<>> PROVE Restore(tab, s) = Piece(tab, s) \o Restore(tab, Drop(s, Step(tab, s)))
  <2> DEFINE st == Step(tab, s)
  <2>1. st \in 1 .. Len(s) /\ Len(s) >= 1
    BY <1>7, PieceAndStep
  <2> HIDE DEF st
  <2>2. st \in 0 .. Len(s) /\ 1 \in 1 .. Len(s) /\ st + 1 = 1 + st
    BY <2>1, <1>3
  <2>3. Drop(s, 1 - 1) = s
    BY DropEnds
  <2>4. f[1] = Piece(tab, Drop(s, 1 - 1)) \o f[1 + Step(tab, Drop(s, 1 - 1))]
    BY <2>2, <1>1
  <2>5. f[1] = Piece(tab, s) \o f[1 + st]
    BY <2>3, <2>4 DEF st
  <2>6. Restore(tab, Drop(s, st)) = f[st + 1]
    BY <2>2, <1>4
  <2> QED
    BY <2>2, <2>5, <2>6, <1>2 DEF st
<1> QED
  BY <1>5, <1>6, <1>7

LEMMA DropOfConcat ==
    ASSUME NEW C, NEW s \in Seq(C), NEW t \in Seq(C)
    PROVE  /\ s \o t \in Seq(C)
           /\ Drop(s \o t, Len(s)) = t
           /\ Len(s \o t) = Len(s) + Len(t)
           /\ Len(s) \in Nat /\ Len(t) \in Nat
           /\ Len(s) \in 0 .. Len(s \o t)
<1>1. /\ s \o t \in Seq(C) /\ Len(s \o t) = Len(s) + Len(t) /\ Len(s) \in Nat /\ Len(t) \in Nat
      /\ Len(s) \in 0 .. Len(s \o t) /\ Len(s) \in 0 .. Len(s)
  OBVIOUS
<1>2. Drop(s \o t, Len(s)) = Drop(s, Len(s)) \o t
  BY <1>1, DropConcat
<1>3. Drop(s \o t, Len(s)) = t
  BY <1>2, DropEnds, ConcatEmptySeq
<1> QED
  BY <1>1, <1>3

\* a is the longest alias that s starts with.
IsMatch(tab, a, s) ==
    /\ a \in tab /\ IsPrefix(a, s)
    /\ \A b \in tab : IsPrefix(b, s) => Len(b) <= Len(a)

NoMatch(tab, s) == \A b \in tab : ~IsPrefix(b, s)

\* A restored text is a text, and an empty one stays empty.
LEMMA RestoreType ==
    ASSUME NEW C, NEW tab, TextTable(C, tab)
    PROVE  Restore(tab, <<>>) = <<>> /\ \A s \in Seq(C) : Restore(tab, s) \in Seq(C)
<1>1. <<>> \in Seq(C)
  OBVIOUS
<1> DEFINE e == <<>>
<1> HIDE DEF e
<1>2. e \in Seq(C) => (e = <<>> => Restore(tab, e) = <<>>)
  BY RestoreUnfold
<1> QED
  BY <1>1, <1>2, RestoreUnfold DEF e

\* A character where no alias begins is kept.
LEMMA RestoreCharacter ==
    ASSUME NEW C, NEW tab, TextTable(C, tab), NEW h \in Seq(C), Len(h) = 1, NEW r \in Seq(C),
           NoMatch(tab, h \o r)
    PROVE  Restore(tab, h \o r) = h \o Restore(tab, r)
<1> DEFINE s == h \o r
<1>1. 1 \in 1 .. Len(h) /\ h = <<h[1]>>
  OBVIOUS
<1>2. /\ s \in Seq(C) /\ Len(s) = 1 + Len(r) /\ Len(r) \in Nat
      /\ s[1] = h[1] /\ Drop(s, 1) = r
  <2>1. /\ Drop(s, Len(h)) = r /\ s \in Seq(C) /\ Len(s) = Len(h) + Len(r) /\ Len(r) \in Nat
    BY DropOfConcat
  <2>2. s[1] = h[1]
    <3> DEFINE i == 1
    <3>1. i \in 1 .. Len(h) + Len(r) /\ i <= Len(h)
      BY <1>1, <2>1
    <3> HIDE DEF i
    <3>2. (h \o r)[i] = h[i]
      BY <3>1, ConcatProperties
    <3> QED
      BY <3>2 DEF i
  <2> HIDE DEF s
  <2> QED
    BY <2>1, <2>2
<1>3. Found(tab, s) = {}
  BY DEF NoMatch, Found
<1> HIDE DEF s
<1>4. s # <<>>
  BY <1>2
<1>5. Piece(tab, s) = h /\ Step(tab, s) = 1
  BY <1>1, <1>2, <1>3 DEF Piece, Step
<1>6. Restore(tab, s) = Piece(tab, s) \o Restore(tab, Drop(s, Step(tab, s)))
  BY <1>2, <1>4, RestoreUnfold
<1>7. Restore(tab, s) = h \o Restore(tab, r)
  BY <1>2, <1>5, <1>6
<1> QED
  BY <1>7 DEF s

\* The longest alias is replaced by its original.
LEMMA RestoreMatch ==
    ASSUME NEW C, NEW tab, TextTable(C, tab), NEW a, NEW r \in Seq(C), IsMatch(tab, a, a \o r)
    PROVE  Restore(tab, a \o r) = Original[a] \o Restore(tab, r)
<1> DEFINE s == a \o r
           b == Longest(Found(tab, s))
<1>1. a \in tab /\ a \in Seq(C) /\ a # <<>>
  BY DEF IsMatch, TextTable
<1>2. s \in Seq(C) /\ Drop(s, Len(a)) = r /\ Len(s) = Len(a) + Len(r) /\ Len(a) \in Nat /\ Len(r) \in Nat
  BY <1>1, DropOfConcat
<1>3. a \in Found(tab, s) /\ \A x \in Found(tab, s) : Len(x) <= Len(a)
  BY DEF IsMatch, Found
<1> HIDE DEF s
<1>4. s # <<>>
  BY <1>1, <1>2, EmptySeq
<1>5. b \in Found(tab, s) /\ Len(a) <= Len(b)
  BY <1>2, <1>3, FoundLongest
<1> HIDE DEF b
<1>6. b \in tab /\ IsPrefix(b, s) /\ b \in Seq(C)
  BY <1>5 DEF Found, TextTable
<1>7. Len(b) = Len(a)
  BY <1>1, <1>3, <1>5, <1>6
<1>8. b = a
  <2>1. SubSeq(b, 1, Len(b)) = b /\ SubSeq(a, 1, Len(a)) = a
    BY <1>1, <1>6, SubSeqFull
  <2>2. IsPrefix(a, s)
    BY <1>3 DEF Found
  <2> QED
    BY <2>1, <2>2, <1>6, <1>7 DEF IsPrefix
<1>9. Piece(tab, s) = Original[a] /\ Step(tab, s) = Len(a)
  BY <1>3, <1>8 DEF Piece, Step, b
<1>10. Restore(tab, s) = Piece(tab, s) \o Restore(tab, Drop(s, Step(tab, s)))
  BY <1>2, <1>4, RestoreUnfold
<1>11. Restore(tab, s) = Original[a] \o Restore(tab, r)
  BY <1>2, <1>9, <1>10
<1> QED
  BY <1>11 DEF s

\* A text is empty, or begins with a character that is kept, or with an alias that is
\* replaced.
LEMMA TextCases ==
    ASSUME NEW C, NEW tab, TextTable(C, tab), NEW s \in Seq(C)
    PROVE  \/ s = <<>>
           \/ \E h, r \in Seq(C) : s = h \o r /\ Len(h) = 1 /\ NoMatch(tab, s) /\ Len(r) < Len(s)
           \/ \E a \in tab, r \in Seq(C) : s = a \o r /\ IsMatch(tab, a, s) /\ Len(r) < Len(s)
<1>1. CASE s # <<>> /\ Found(tab, s) = {}
  <2>1. NoMatch(tab, s)
    BY <1>1 DEF NoMatch, Found
  <2> DEFINE h == <<s[1]>>
  <2>2. s = h \o Drop(s, 1) /\ h \in Seq(C) /\ Drop(s, 1) \in Seq(C) /\ Len(Drop(s, 1)) < Len(s)
    BY <1>1, FirstAndRest
  <2>3. Len(h) = 1
    OBVIOUS
  <2> HIDE DEF h
  <2> QED
    BY <2>1, <2>2, <2>3
<1>2. CASE Found(tab, s) # {}
  <2> DEFINE a == Longest(Found(tab, s))
  <2>1. a \in Found(tab, s) /\ \A b \in Found(tab, s) : Len(b) <= Len(a)
    BY <1>2, FoundLongest
  <2> HIDE DEF a
  <2>2. IsMatch(tab, a, s)
    BY <2>1 DEF IsMatch, Found
  <2>3. a \in tab /\ a \in Seq(C) /\ a # <<>> /\ IsPrefix(a, s)
    BY <2>2 DEF IsMatch, TextTable
  <2>4. s = a \o Drop(s, Len(a)) /\ Drop(s, Len(a)) \in Seq(C) /\ Len(Drop(s, Len(a))) = Len(s) - Len(a)
    BY <2>3, PrefixSplit
  <2>5. Len(a) \in Nat \ {0} /\ Len(s) \in Nat
    BY <2>3, EmptySeq
  <2>6. Len(Drop(s, Len(a))) < Len(s)
    BY <2>4, <2>5
  <2> QED
    BY <2>2, <2>3, <2>4, <2>6
<1> QED
  BY <1>1, <1>2

\* Induction along these cases.
LEMMA RestoreInduction ==
    ASSUME NEW C, NEW tab, TextTable(C, tab), NEW S, <<>> \in S,
           \A h, r \in Seq(C) : Len(h) = 1 /\ NoMatch(tab, h \o r) /\ r \in S => h \o r \in S,
           \A a \in tab, r \in Seq(C) : IsMatch(tab, a, a \o r) /\ r \in S => a \o r \in S
    PROVE  \A s \in Seq(C) : s \in S
<1>1. ASSUME NEW s \in Seq(C), \A t \in Seq(C) : Len(t) < Len(s) => t \in S PROVE s \in S
  <2>1. CASE s = <<>>
    BY <2>1
  <2>2. ASSUME NEW h \in Seq(C), NEW r \in Seq(C), s = h \o r, Len(h) = 1, NoMatch(tab, s), Len(r) < Len(s)
        PROVE s \in S
    BY <2>2, <1>1
  <2>3. ASSUME NEW a \in tab, NEW r \in Seq(C), s = a \o r, IsMatch(tab, a, s), Len(r) < Len(s) PROVE s \in S
    BY <2>3, <1>1
  <2> QED
    BY <2>1, <2>2, <2>3, TextCases
<1> QED
  BY <1>1, TextInduction

-----------------------------------------------------------------------------
\* No alias that begins in u reaches into v.
NoSpan(C, tab, u, v) ==
    \A p, q \in Seq(C) : u = p \o q /\ q # <<>> =>
        \A a \in tab : IsPrefix(a, q \o v) => Len(a) <= Len(q)

\* No alias lies across the end of a part either.
LEMMA NoSpanTail ==
    ASSUME NEW C, NEW tab, NEW p \in Seq(C), NEW u \in Seq(C), NEW v \in Seq(C),
           NoSpan(C, tab, p \o u, v)
    PROVE  NoSpan(C, tab, u, v)
<1> SUFFICES ASSUME NEW x \in Seq(C), NEW q \in Seq(C), u = x \o q, q # <<>>, NEW a \in tab, IsPrefix(a, q \o v)
             PROVE  Len(a) <= Len(q)
  BY DEF NoSpan
<1>1. p \o u = (p \o x) \o q /\ p \o x \in Seq(C)
  BY Assoc, SMTT(60)
<1> QED
  BY <1>1 DEF NoSpan

\* An alias that a text starts with lies within its beginning u.
LEMMA NoSpanFirst ==
    ASSUME NEW C, NEW tab, TextTable(C, tab), NEW u \in Seq(C), NEW v \in Seq(C), u # <<>>,
           NoSpan(C, tab, u, v), NEW b \in tab
    PROVE  IsPrefix(b, u \o v) <=> IsPrefix(b, u)
<1>1. u = <<>> \o u /\ <<>> \in Seq(C) /\ b \in Seq(C)
  BY ConcatEmptySeq DEF TextTable
<1>2. IsPrefix(b, u \o v) => Len(b) <= Len(u)
  BY <1>1 DEF NoSpan
<1> QED
  BY <1>1, <1>2, PrefixOfConcat

\* A text may be cut where no alias lies across the cut.
LEMMA RestoreCut ==
    ASSUME NEW C, NEW tab, TextTable(C, tab), NEW u \in Seq(C), NEW v \in Seq(C),
           NoSpan(C, tab, u, v)
    PROVE  Restore(tab, u \o v) = Restore(tab, u) \o Restore(tab, v)
<1> DEFINE rv == Restore(tab, v)
           S == {x \in Seq(C) : NoSpan(C, tab, x, v) => Restore(tab, x \o v) = Restore(tab, x) \o rv}
<1>0. rv \in Seq(C)
  BY RestoreType
<1>1. <<>> \in S
  <2>1. <<>> \o v = v /\ Restore(tab, <<>>) = <<>> /\ <<>> \o rv = rv /\ <<>> \in Seq(C)
    BY <1>0, RestoreType, ConcatEmptySeq
  <2> HIDE DEF rv
  <2>2. Restore(tab, v) = rv
    BY DEF rv
  <2> QED
    BY <2>1, <2>2
<1>2. ASSUME NEW h \in Seq(C), NEW r \in Seq(C), Len(h) = 1, NoMatch(tab, h \o r), r \in S PROVE h \o r \in S
  <2> DEFINE w == h \o r
             rr == Restore(tab, r)
             x == r \o v
  <2>0. h # <<>>
    BY <1>2, OneIsNotEmpty
  <2>1. h # <<>> /\ w # <<>> /\ w \in Seq(C) /\ x \in Seq(C)
    BY <2>0, ConcatEqualIffEmpty
  <2>2. Restore(tab, w) = h \o rr
    BY <1>2, RestoreCharacter
  <2>4. w \o v = h \o x
    BY <2>1, Assoc, SMTT(60)
  <2>5. NoMatch(tab, w)
    BY <1>2
  <2> SUFFICES ASSUME NoSpan(C, tab, w, v) PROVE Restore(tab, w \o v) = Restore(tab, w) \o rv
    BY <2>1
  <2>6. Restore(tab, x) = rr \o rv
    BY <1>2, <2>1, NoSpanTail
  <2>7. rr \in Seq(C)
    BY RestoreType
  <2> HIDE DEF w, x
  <2>8. NoMatch(tab, w \o v)
    BY <2>1, <2>5, NoSpanFirst DEF NoMatch
  <2>9. Restore(tab, h \o x) = h \o Restore(tab, x)
    BY <1>2, <2>1, <2>4, <2>8, RestoreCharacter, SMTT(60)
  <2> HIDE DEF rr, rv
  <2>10. h \o (rr \o rv) = (h \o rr) \o rv
    BY <1>0, <2>7, Assoc, SMTT(60)
  <2> QED
    BY <2>2, <2>4, <2>6, <2>9, <2>10
<1>3. ASSUME NEW a \in tab, NEW r \in Seq(C), IsMatch(tab, a, a \o r), r \in S PROVE a \o r \in S
  <2> DEFINE w == a \o r
             rr == Restore(tab, r)
             o == Original[a]
  <2>1. a \in Seq(C) /\ a # <<>> /\ w # <<>> /\ w \in Seq(C) /\ r \o v \in Seq(C) /\ o \in Seq(C)
    BY ConcatEqualIffEmpty DEF TextTable
  <2>2. Restore(tab, w) = o \o rr
    BY <1>3, RestoreMatch
  <2>3. IsMatch(tab, a, a \o (r \o v)) => Restore(tab, a \o (r \o v)) = o \o Restore(tab, r \o v)
    <3> DEFINE x == r \o v
    <3> HIDE DEF x
    <3>1. x \in Seq(C) => (IsMatch(tab, a, a \o x) => Restore(tab, a \o x) = o \o Restore(tab, x))
      BY RestoreMatch
    <3> QED
      BY <2>1, <3>1 DEF x
  <2>4. w \o v = a \o (r \o v)
    BY <2>1, Assoc, SMTT(60)
  <2>5. IsMatch(tab, a, w)
    BY <1>3
  <2> SUFFICES ASSUME NoSpan(C, tab, w, v) PROVE Restore(tab, w \o v) = Restore(tab, w) \o rv
    BY <2>1
  <2>6. Restore(tab, r \o v) = rr \o rv
    BY <1>3, <2>1, NoSpanTail
  <2>7. rr \in Seq(C)
    BY RestoreType
  <2> HIDE DEF w, o
  <2>8. IsMatch(tab, a, w \o v)
    BY <2>1, <2>5, NoSpanFirst DEF IsMatch
  <2>9. Restore(tab, w \o v) = o \o Restore(tab, r \o v)
    BY <2>3, <2>4, <2>8
  <2> HIDE DEF rr, rv, S
  <2>10. o \o (rr \o rv) = (o \o rr) \o rv
    <3>1. o \in Seq(C) /\ rr \in Seq(C) /\ rv \in Seq(C)
      BY <1>0, <2>1, <2>7
    <3> QED
      BY <3>1, Assoc, SMTT(60)
  <2> QED
    BY <2>2, <2>6, <2>9, <2>10
<1>4. \A x \in Seq(C) : x \in S
  <2> HIDE DEF S
  <2> QED
    BY <1>1, <1>2, <1>3, RestoreInduction
<1> QED
  BY <1>4

\* Nothing is replaced where there is no alias.
AliasFree(C, tab, s) == \A p, q \in Seq(C) : s = p \o q /\ q # <<>> => NoMatch(tab, q)

\* Parts of a text without aliases have none.
LEMMA AliasFreeParts ==
    ASSUME NEW C, NEW tab, NEW s \in Seq(C), NEW t \in Seq(C), AliasFree(C, tab, s \o t), TextTable(C, tab)
    PROVE  AliasFree(C, tab, s) /\ AliasFree(C, tab, t)
<1>1. ASSUME NEW p \in Seq(C), NEW q \in Seq(C), s = p \o q, q # <<>> PROVE NoMatch(tab, q)
  <2>1. s \o t = p \o (q \o t) /\ q \o t \in Seq(C) /\ q \o t # <<>>
    BY <1>1, Assoc, ConcatEqualIffEmpty, SMTT(60)
  <2>2. NoMatch(tab, q \o t)
    BY <2>1 DEF AliasFree
  <2> QED
    BY <2>2, PrefixOfConcat DEF NoMatch, TextTable
<1>2. ASSUME NEW p \in Seq(C), NEW q \in Seq(C), t = p \o q, q # <<>> PROVE NoMatch(tab, q)
  <2>1. s \o t = (s \o p) \o q /\ s \o p \in Seq(C)
    BY <1>2, Assoc, SMTT(60)
  <2> QED
    BY <2>1, <1>2 DEF AliasFree
<1> QED
  BY <1>1, <1>2 DEF AliasFree

\* A text without aliases is left as it is.
LEMMA RestoreAliasFree ==
    ASSUME NEW C, NEW tab, TextTable(C, tab), NEW s \in Seq(C), AliasFree(C, tab, s)
    PROVE  Restore(tab, s) = s
<1> DEFINE S == {x \in Seq(C) : AliasFree(C, tab, x) => Restore(tab, x) = x}
<1>1. <<>> \in S
  BY RestoreType
<1>2. ASSUME NEW h \in Seq(C), NEW r \in Seq(C), Len(h) = 1, NoMatch(tab, h \o r), r \in S PROVE h \o r \in S
  <2>1. h \o r \in Seq(C)
    OBVIOUS
  <2>2. AliasFree(C, tab, h \o r) => AliasFree(C, tab, r)
    BY <2>1, AliasFreeParts
  <2>3. Restore(tab, h \o r) = h \o Restore(tab, r)
    BY <1>2, RestoreCharacter
  <2> QED
    BY <1>2, <2>1, <2>2, <2>3
<1>3. ASSUME NEW a \in tab, NEW r \in Seq(C), IsMatch(tab, a, a \o r), r \in S PROVE a \o r \in S
  <2>1. a \in Seq(C) /\ a \o r \in Seq(C) /\ a \o r # <<>> /\ <<>> \in Seq(C) /\ <<>> \o (a \o r) = a \o r
    BY ConcatEqualIffEmpty, ConcatEmptySeq DEF TextTable
  <2>2. ~NoMatch(tab, a \o r)
    BY <1>3 DEF NoMatch, IsMatch
  <2>3. ~AliasFree(C, tab, a \o r)
    BY <2>1, <2>2 DEF AliasFree
  <2> QED
    BY <2>1, <2>3
<1>4. \A x \in Seq(C) : x \in S
  <2> HIDE DEF S
  <2> QED
    BY <1>1, <1>2, <1>3, RestoreInduction
<1> QED
  BY <1>4

-------------------------------------------------------------------------------
\* Originals that contain no character of an alias.

\* The characters of a text and of its parts.
LEMMA CharactersOfParts ==
    ASSUME NEW C, NEW s \in Seq(C), NEW t \in Seq(C)
    PROVE  ToSet(s) \subseteq ToSet(s \o t) /\ ToSet(t) \subseteq ToSet(s \o t)
<1>1. \A x \in Seq(C) : ToSet(x) = Range(x)
  BY DEF ToSet, Range
<1>2. Range(s \o t) = Range(s) \cup Range(t)
  BY RangeConcatenation
<1>3. s \o t \in Seq(C)
  OBVIOUS
<1> DEFINE st == s \o t
<1> HIDE DEF st
<1>4. Range(st) = Range(s) \cup Range(t) /\ st \in Seq(C)
  BY <1>2, <1>3 DEF st
<1>5. ToSet(s) \subseteq ToSet(st) /\ ToSet(t) \subseteq ToSet(st)
  BY <1>1, <1>4
<1> QED
  BY <1>5 DEF st

\* A prefix that is longer than u begins with u.
LEMMA PrefixBeyond ==
    ASSUME NEW C, NEW t \in Seq(C), NEW u \in Seq(C), NEW s \in Seq(C), IsPrefix(t, u \o s), Len(u) <= Len(t)
    PROVE  \E x \in Seq(C) : t = u \o x /\ IsPrefix(x, s) /\ ToSet(x) \subseteq ToSet(t)
<1> DEFINE x == Drop(t, Len(u))
<1>1. IsPrefix(u, t)
  BY PrefixOfConcat
<1>2. t = u \o x /\ x \in Seq(C)
  BY <1>1, PrefixSplit
<1> HIDE DEF x
<1>3. IsPrefix(x, s)
  BY <1>2, PrefixCancel
<1>4. ToSet(x) \subseteq ToSet(t)
  BY <1>2, CharactersOfParts
<1> QED
  BY <1>2, <1>3, <1>4

\* Two ways of cutting a text.
SameText(s, t, p, q) == s \o t = p \o q
CutAfter(C, s, t, p, q) == \E x \in Seq(C) : p = s \o x /\ t = x \o q /\ Len(x) = Len(p) - Len(s)
CutBefore(C, s, t, p, q) == \E x \in Seq(C) : x # <<>> /\ s = p \o x /\ q = x \o t

LEMMA LongerCut ==
    ASSUME NEW C, NEW s \in Seq(C), NEW t \in Seq(C), NEW p \in Seq(C), NEW q \in Seq(C), SameText(s, t, p, q),
           Len(s) <= Len(p)
    PROVE  CutAfter(C, s, t, p, q)
<1>1. IsPrefix(s, p)
  <2>1. IsPrefix(s, s \o t)
    BY PrefixOfConcat
  <2>2. IsPrefix(s, p \o q)
    BY <2>1 DEF SameText
  <2> QED
    BY <2>2, PrefixOfConcat
<1> DEFINE x == Drop(p, Len(s))
<1>2. p = s \o x /\ x \in Seq(C) /\ Len(x) = Len(p) - Len(s)
  BY <1>1, PrefixSplit
<1> HIDE DEF x
<1> DEFINE z == x \o q
<1>3. z \in Seq(C)
  BY <1>2
<1>4. Associates(s, x, q)
  BY <1>2, Associativity
<1>5. s \o t = s \o z
  BY <1>2, <1>4 DEF Associates, SameText
<1> HIDE DEF z
<1>6. Drop(s \o t, Len(s)) = t /\ Drop(s \o z, Len(s)) = z
  BY <1>3, DropOfConcat
<1>7. t = z
  BY <1>5, <1>6
<1> QED
  BY <1>2, <1>7 DEF z, CutAfter

LEMMA TwoCuts ==
    ASSUME NEW C, NEW s \in Seq(C), NEW t \in Seq(C), NEW p \in Seq(C), NEW q \in Seq(C), SameText(s, t, p, q)
    PROVE  /\ Len(s) <= Len(p) => CutAfter(C, s, t, p, q)
           /\ Len(p) < Len(s) => CutBefore(C, s, t, p, q)
           /\ Len(s) <= Len(p) \/ Len(p) < Len(s)
<1>1. Len(s) \in Nat /\ Len(p) \in Nat
  OBVIOUS
<1>2. ASSUME Len(s) <= Len(p) PROVE CutAfter(C, s, t, p, q)
  BY <1>2, LongerCut
<1>3. ASSUME Len(p) < Len(s) PROVE CutBefore(C, s, t, p, q)
  <2>0. Len(p) <= Len(s)
    BY <1>1, <1>3
  <2>1. SameText(p, q, s, t)
    BY DEF SameText
  <2>2a. CutAfter(C, p, q, s, t)
    BY <2>0, <2>1, LongerCut
  <2>2. PICK x \in Seq(C) : s = p \o x /\ q = x \o t /\ Len(x) = Len(s) - Len(p)
    BY <2>2a DEF CutAfter
  <2>3. x # <<>>
    <3>1. Len(x) # 0 /\ Len(<<>>) = 0
      BY <1>1, <1>3, <2>2
    <3> QED
      BY <3>1
  <2> QED
    BY <2>2, <2>3 DEF CutBefore
<1> QED
  BY <1>1, <1>2, <1>3

\* Two texts with a common first character.
LEMMA FirstShared ==
    ASSUME NEW C, NEW o \in Seq(C), o # <<>>, NEW t \in Seq(C), t # <<>>, NEW s \in Seq(C), IsPrefix(t, o \o s)
    PROVE  ToSet(o) \cap ToSet(t) # {}
<1> DEFINE z == o \o s
           i == 1
<1>1. z \in Seq(C) /\ i \in 1 .. Len(o) /\ i \in 1 .. Len(t) /\ i \in 1 .. Len(o) + Len(s) /\ i <= Len(o)
  BY EmptySeq
<1>2. z[i] = o[i]
  <2> HIDE DEF i
  <2> QED
    BY <1>1, ConcatProperties
<1> HIDE DEF z, i
<1>3. t[i] = z[i]
  <2>1. IsPrefix(t, z)
    BY DEF z
  <2> QED
    BY <1>1, <2>1, PrefixElements
<1>4. i \in DOMAIN o /\ i \in DOMAIN t
  BY <1>1
<1>5. o[i] \in ToSet(o) /\ t[i] \in ToSet(t)
  BY <1>4 DEF ToSet
<1> QED
  BY <1>2, <1>3, <1>5

-----------------------------------------------------------------------------
\* No original has a character of t.
Inert(tab, t) == \A a \in tab : Original[a] # <<>> /\ ToSet(Original[a]) \cap ToSet(t) = {}

\* A text without characters of an original that a restored text begins with was there before.
LEMMA InertPrefix ==
    ASSUME NEW C, NEW tab, TextTable(C, tab), NEW u \in Seq(C), NEW y \in Seq(C), NEW t \in Seq(C),
           Inert(tab, t), IsPrefix(t, Restore(tab, u) \o y)
    PROVE  IsPrefix(t, u \o y)
<1> DEFINE R(x) == Restore(tab, x)
           S == {x \in Seq(C) : \A z \in Seq(C) : Inert(tab, z) /\ IsPrefix(z, R(x) \o y) => IsPrefix(z, x \o y)}
<1>0. R(<<>>) = <<>> /\ \A x \in Seq(C) : R(x) \in Seq(C)
  BY RestoreType
<1>1. <<>> \in S
  <2>1. <<>> \in Seq(C)
    OBVIOUS
  <2>2. R(<<>>) \o y = <<>> \o y
    BY <1>0
  <2> HIDE DEF R
  <2> QED
    BY <2>1, <2>2
<1>2. \A z, x \in Seq(C) : z = <<>> => IsPrefix(z, x)
  <2> SUFFICES ASSUME NEW z \in Seq(C), NEW x \in Seq(C), z = <<>> PROVE IsPrefix(z, x)
    OBVIOUS
  <2>1. Len(z) = 0
    OBVIOUS
  <2> QED
    BY <2>1, EmptyPrefix
<1>3. ASSUME NEW h \in Seq(C), NEW r \in Seq(C), Len(h) = 1, NoMatch(tab, h \o r), r \in S PROVE h \o r \in S
  <2>1. R(h \o r) = h \o R(r) /\ R(r) \in Seq(C)
    BY <1>0, <1>3, RestoreCharacter, SMTT(60)
  <2>2. h \o r \in Seq(C)
    OBVIOUS
  <2> SUFFICES ASSUME NEW z \in Seq(C), Inert(tab, z), IsPrefix(z, R(h \o r) \o y) PROVE IsPrefix(z, (h \o r) \o y)
    BY <2>2
  <2> DEFINE rr == R(r)
             x == rr \o y
             xx == r \o y
  <2>3a. (h \o r) \o y = h \o xx
    <3>1. Associates(h, r, y)
      BY Associativity
    <3> QED
      BY <3>1 DEF Associates
  <2>3b. x \in Seq(C)
    BY <2>1
  <2>3. (h \o r) \o y = h \o xx /\ x \in Seq(C) /\ xx \in Seq(C)
    BY <2>3a, <2>3b
  <2>4. R(h \o r) \o y = h \o x
    <3>1. rr \in Seq(C) /\ R(h \o r) = h \o rr
      BY <2>1
    <3> HIDE DEF rr, R
    <3>2. Associates(h, rr, y)
      BY <3>1, Associativity
    <3> QED
      BY <3>1, <3>2 DEF Associates
  <2>5. IsPrefix(z, h \o x)
    BY <2>4
  <2>6. CASE z = <<>>
    <3> DEFINE w == (h \o r) \o y
    <3>1. w \in Seq(C)
      OBVIOUS
    <3> HIDE DEF w
    <3>2. IsPrefix(z, w)
      BY <2>6, <3>1, <1>2
    <3> QED
      BY <3>2 DEF w
  <2>7. CASE z # <<>>
    <3>1. Len(h) <= Len(z)
      BY <2>7, <1>3, EmptySeq
    <3> HIDE DEF x, xx
    <3>2. PICK k \in Seq(C) : z = h \o k /\ IsPrefix(k, x) /\ ToSet(k) \subseteq ToSet(z)
      BY <2>3, <2>5, <3>1, PrefixBeyond
    <3>3. Inert(tab, k)
      BY <3>2 DEF Inert
    <3>4. IsPrefix(k, xx)
      BY <3>2, <3>3, <1>3 DEF x, xx
    <3>5. IsPrefix(h \o k, h \o xx)
      BY <2>3, <3>4, PrefixCancel
    <3> QED
      BY <2>3, <3>2, <3>5
  <2> QED
    BY <2>6, <2>7
<1>4. ASSUME NEW a \in tab, NEW r \in Seq(C), IsMatch(tab, a, a \o r), r \in S PROVE a \o r \in S
  <2> DEFINE o == Original[a]
             rr == R(r)
             x == rr \o y
  <2>1a. R(a \o r) = o \o rr
    BY <1>4, RestoreMatch
  <2>1b. o \in Seq(C) /\ a \in Seq(C)
    BY DEF TextTable
  <2>1c. rr \in Seq(C)
    BY <1>0
  <2>1. R(a \o r) = o \o rr /\ rr \in Seq(C) /\ o \in Seq(C) /\ a \in Seq(C) /\ x \in Seq(C)
    <3> HIDE DEF R, o, rr
    <3> QED
      BY <2>1a, <2>1b, <2>1c
  <2>2. a \o r \in Seq(C)
    BY <2>1
  <2> SUFFICES ASSUME NEW z \in Seq(C), Inert(tab, z), IsPrefix(z, R(a \o r) \o y) PROVE IsPrefix(z, (a \o r) \o y)
    BY <2>2
  <2>3. R(a \o r) \o y = o \o x
    <3> HIDE DEF rr, R, o
    <3>1. Associates(o, rr, y)
      BY <2>1, Associativity
    <3> QED
      BY <2>1, <3>1 DEF Associates
  <2>4. IsPrefix(z, o \o x)
    BY <2>3
  <2>5. o # <<>> /\ ToSet(o) \cap ToSet(z) = {}
    BY DEF Inert
  <2>6. z = <<>>
    <3> HIDE DEF o, x
    <3> QED
      BY <2>1, <2>4, <2>5, FirstShared
  <2> DEFINE w == (a \o r) \o y
  <2>7. w \in Seq(C)
    BY <2>1
  <2> HIDE DEF w
  <2>8. IsPrefix(z, w)
    BY <2>6, <2>7, <1>2
  <2> QED
    BY <2>8 DEF w
<1>5. \A x \in Seq(C) : x \in S
  <2> HIDE DEF S
  <2> QED
    BY <1>1, <1>3, <1>4, RestoreInduction
<1> QED
  BY <1>5

-------------------------------------------------------------------------------
\* No alias is left in a restored text, and restoring it again changes nothing.

\* A restored text begins with no alias, wherever it is cut, when no alias lay across its end.
LEMMA NoAliasLeft ==
    ASSUME NEW C, NEW tab, TextTable(C, tab), NEW u \in Seq(C), NEW y \in Seq(C),
           \A a \in tab : Inert(tab, a), NoSpan(C, tab, u, y),
           NEW p \in Seq(C), NEW q \in Seq(C), Restore(tab, u) = p \o q, q # <<>>
    PROVE  NoMatch(tab, q \o y)
<1> DEFINE R(x) == Restore(tab, x)
           Clean(x) == \A k, l \in Seq(C) : R(x) = k \o l /\ l # <<>> => NoMatch(tab, l \o y)
           S == {x \in Seq(C) : NoSpan(C, tab, x, y) => Clean(x)}
<1>0. R(<<>>) = <<>> /\ (\A x \in Seq(C) : R(x) \in Seq(C)) /\ <<>> \in Seq(C)
  BY RestoreType
<1>1. <<>> \in S
  <2> SUFFICES ASSUME NEW k \in Seq(C), NEW l \in Seq(C), <<>> = k \o l, l # <<>> PROVE FALSE
    BY <1>0 DEF NoMatch
  <2>1. k \o l = <<>> => l = <<>>
    BY ConcatEqualIffEmpty
  <2> QED
    BY <2>1
<1>2. ASSUME NEW h \in Seq(C), NEW r \in Seq(C), Len(h) = 1, NoMatch(tab, h \o r), r \in S PROVE h \o r \in S
  <2> DEFINE w == h \o r
             rr == R(r)
  <2>1. w \in Seq(C) /\ rr \in Seq(C)
    BY <1>0
  <2>2. R(w) = h \o rr
    BY <1>2, RestoreCharacter, SMTT(60)
  <2>3. w # <<>> /\ NoMatch(tab, w)
    BY <1>2, OneIsNotEmpty, ConcatEqualIffEmpty
  <2> SUFFICES ASSUME NoSpan(C, tab, w, y), NEW k \in Seq(C), NEW l \in Seq(C), R(w) = k \o l, l # <<>>
               PROVE  NoMatch(tab, l \o y)
    BY <2>1
  <2>4. Clean(r)
    BY <1>2, NoSpanTail
  <2> HIDE DEF w, rr
  <2>8. SameText(h, rr, k, l)
    BY <2>2 DEF SameText
  <2>5. CASE Len(h) <= Len(k)
    <3>0. CutAfter(C, h, rr, k, l)
      BY <2>1, <2>5, <2>8, TwoCuts
    <3>1. PICK x \in Seq(C) : k = h \o x /\ rr = x \o l
      BY <3>0 DEF CutAfter
    <3> HIDE DEF R
    <3> QED
      BY <2>4, <3>1 DEF rr
  <2>6. CASE Len(k) < Len(h)
    <3>1. k = <<>>
      BY <1>2, <2>6, EmptySeq
    <3>2. l = R(w)
      BY <3>1, ConcatEmptySeq
    <3>3. ASSUME NEW b \in tab, IsPrefix(b, l \o y) PROVE FALSE
      <4>1. b \in Seq(C) /\ Inert(tab, b)
        BY DEF TextTable
      <4>2. IsPrefix(b, Restore(tab, w) \o y)
        BY <3>2, <3>3
      <4>3. IsPrefix(b, w \o y)
        BY <2>1, <4>1, <4>2, InertPrefix
      <4>4. IsPrefix(b, w)
        BY <2>1, <2>3, <4>3, NoSpanFirst
      <4> QED
        BY <2>3, <4>4 DEF NoMatch
    <3> QED
      BY <3>3 DEF NoMatch
  <2>7. Len(h) <= Len(k) \/ Len(k) < Len(h)
    BY <1>2, EmptySeq
  <2> QED
    BY <2>5, <2>6, <2>7
<1>3. ASSUME NEW a \in tab, NEW r \in Seq(C), IsMatch(tab, a, a \o r), r \in S PROVE a \o r \in S
  <2> DEFINE w == a \o r
             rr == R(r)
             o == Original[a]
  <2>1. w \in Seq(C) /\ rr \in Seq(C) /\ o \in Seq(C) /\ a \in Seq(C)
    BY <1>0 DEF TextTable
  <2>2. R(w) = o \o rr
    BY <1>3, RestoreMatch
  <2> SUFFICES ASSUME NoSpan(C, tab, w, y), NEW k \in Seq(C), NEW l \in Seq(C), R(w) = k \o l, l # <<>>
               PROVE  NoMatch(tab, l \o y)
    BY <2>1
  <2>4. Clean(r)
    BY <1>3, <2>1, NoSpanTail
  <2> HIDE DEF w, rr, o
  <2>8. SameText(o, rr, k, l)
    BY <2>2 DEF SameText
  <2>5. CASE Len(o) <= Len(k)
    <3>0. CutAfter(C, o, rr, k, l)
      BY <2>1, <2>5, <2>8, TwoCuts
    <3>1. PICK x \in Seq(C) : k = o \o x /\ rr = x \o l
      BY <3>0 DEF CutAfter
    <3> HIDE DEF R
    <3> QED
      BY <2>4, <3>1 DEF rr
  <2>6. CASE Len(k) < Len(o)
    <3>0. CutBefore(C, o, rr, k, l)
      BY <2>1, <2>6, <2>8, TwoCuts
    <3>1. PICK x \in Seq(C) : x # <<>> /\ o = k \o x /\ l = x \o rr
      BY <3>0 DEF CutBefore
    <3>2. ToSet(x) \subseteq ToSet(o)
      BY <3>1, CharactersOfParts
    <3> DEFINE z == rr \o y
    <3>3. Associates(x, rr, y)
      BY <2>1, Associativity
    <3>4. l \o y = x \o z /\ z \in Seq(C)
      BY <2>1, <3>1, <3>3 DEF Associates
    <3>5. ASSUME NEW b \in tab, IsPrefix(b, l \o y) PROVE FALSE
      <4>1. b \in Seq(C) /\ Inert(tab, b) /\ b # <<>>
        BY DEF TextTable
      <4>2. IsPrefix(b, x \o z)
        BY <3>4, <3>5
      <4> HIDE DEF z
      <4>3. ToSet(x) \cap ToSet(b) # {}
        BY <3>1, <3>4, <4>1, <4>2, FirstShared
      <4>4. ToSet(o) \cap ToSet(b) = {}
        BY <4>1 DEF Inert, o
      <4> QED
        BY <3>2, <4>3, <4>4
    <3> QED
      BY <3>5 DEF NoMatch
  <2>7. Len(o) <= Len(k) \/ Len(k) < Len(o)
    BY <2>1, <2>8, TwoCuts
  <2> QED
    BY <2>5, <2>6, <2>7
<1>4. \A x \in Seq(C) : x \in S
  <2> HIDE DEF S
  <2> QED
    BY <1>1, <1>2, <1>3, RestoreInduction
<1> QED
  BY <1>4

\* What ends a text lies beyond every alias in it.
LEMMA NoSpanEnd ==
    ASSUME NEW C, NEW tab, TextTable(C, tab), NEW u \in Seq(C)
    PROVE  NoSpan(C, tab, u, <<>>)
<1> SUFFICES ASSUME NEW q \in Seq(C), NEW a \in tab, IsPrefix(a, q \o <<>>) PROVE Len(a) <= Len(q)
  BY DEF NoSpan
<1>1. q \o <<>> = q
  BY ConcatEmptySeq
<1> QED
  BY <1>1 DEF IsPrefix

\* A restored text has no alias, and restoring it again changes nothing.
LEMMA RestoredAliasFree ==
    ASSUME NEW C, NEW tab, TextTable(C, tab), NEW u \in Seq(C), \A a \in tab : Inert(tab, a)
    PROVE  AliasFree(C, tab, Restore(tab, u)) /\ Restore(tab, Restore(tab, u)) = Restore(tab, u)
<1> DEFINE e == <<>>
           ru == Restore(tab, u)
<1>1. NoSpan(C, tab, u, e) /\ e \in Seq(C) /\ ru \in Seq(C)
  BY NoSpanEnd, RestoreType
<1>2. ASSUME NEW p \in Seq(C), NEW q \in Seq(C), ru = p \o q, q # <<>> PROVE NoMatch(tab, q)
  <2>1. q \o e = q
    BY ConcatEmptySeq
  <2> HIDE DEF e
  <2>2. NoMatch(tab, q \o e)
    BY <1>1, <1>2, NoAliasLeft
  <2> QED
    BY <2>1, <2>2
<1>3. AliasFree(C, tab, ru)
  BY <1>2 DEF AliasFree
<1> HIDE DEF ru
<1>4. Restore(tab, ru) = ru
  BY <1>1, <1>3, RestoreAliasFree
<1> QED
  BY <1>3, <1>4 DEF ru

\* A text without characters of an alias.
Foreign(tab, o) == \A a \in tab : ToSet(o) \cap ToSet(a) = {}

\* No alias begins in an original.
LEMMA OriginalInert ==
    ASSUME NEW C, NEW tab, TextTable(C, tab), NEW o \in Seq(C),
           Foreign(tab, o), NEW v \in Seq(C)
    PROVE  /\ Restore(tab, o) = o
           /\ Restore(tab, o \o v) = o \o Restore(tab, v)
<1>1. ASSUME NEW p \in Seq(C), NEW q \in Seq(C), o = p \o q, q # <<>>, NEW x \in Seq(C), NEW a \in tab
      PROVE  ~IsPrefix(a, q \o x)
  <2>1. a \in Seq(C) /\ a # <<>>
    BY DEF TextTable
  <2>2. ToSet(q) \subseteq ToSet(o)
    BY <1>1, CharactersOfParts
  <2>3. IsPrefix(a, q \o x) => ToSet(q) \cap ToSet(a) # {}
    BY <1>1, <2>1, FirstShared
  <2> QED
    BY <2>2, <2>3 DEF Foreign
<1>2. NoSpan(C, tab, o, v)
  BY <1>1 DEF NoSpan
<1>3. AliasFree(C, tab, o)
  <2> SUFFICES ASSUME NEW p \in Seq(C), NEW q \in Seq(C), o = p \o q, q # <<>>, NEW a \in tab PROVE ~IsPrefix(a, q)
    BY DEF AliasFree, NoMatch
  <2> DEFINE e == <<>>
  <2>1. e \in Seq(C) /\ q \o e = q
    BY ConcatEmptySeq
  <2> HIDE DEF e
  <2>2. ~IsPrefix(a, q \o e)
    BY <1>1, <2>1
  <2> QED
    BY <2>1, <2>2
<1>4. Restore(tab, o) = o
  BY <1>3, RestoreAliasFree
<1>5. Restore(tab, o \o v) = Restore(tab, o) \o Restore(tab, v)
  BY <1>2, RestoreCut
<1> QED
  BY <1>4, <1>5

\* Where NoneWithin forbids an alias.
LEMMA WithinAlias ==
    ASSUME NEW C, NEW tab, TextTable(C, tab), NoneWithin(tab), NEW a \in tab, NEW b \in tab,
           NEW p \in Seq(C), NEW q \in Seq(C), b = p \o q, q # <<>>, IsPrefix(a, q)
    PROVE  a = b
<1> DEFINE i == Len(p) + 1
           bb == p \o q
<1>1. bb \in Seq(C) /\ Len(bb) = Len(p) + Len(q) /\ Drop(bb, Len(p)) = q /\ Len(p) \in Nat /\ Len(q) \in Nat
  BY DropOfConcat
<1>2. Len(q) # 0
  BY EmptySeq
<1>3. i \in 1 .. Len(bb) /\ i - 1 = Len(p)
  BY <1>1, <1>2
<1> HIDE DEF i, bb
<1>4. At(bb, i, a) <=> IsPrefix(a, Drop(bb, i - 1))
  BY <1>1, <1>3, AtIsPrefix
<1>5. At(bb, i, a)
  BY <1>1, <1>3, <1>4
<1>6. bb = b
  BY DEF bb
<1> QED
  BY <1>3, <1>5, <1>6 DEF NoneWithin

\* Restoring the text so far and then the whole is restoring the whole at once, when no alias
\* is a part of another one.
LEMMA RestoreAgain ==
    ASSUME NEW C, NEW tab, TextTable(C, tab), NoneWithin(tab), \A a \in tab : Inert(tab, a),
           NEW w \in Seq(C), NEW x \in Seq(C)
    PROVE  Restore(tab, Restore(tab, w) \o x) = Restore(tab, w \o x)
<1> DEFINE R(s) == Restore(tab, s)
           S == {s \in Seq(C) : R(R(s) \o x) = R(s \o x)}
<1>0. R(<<>>) = <<>> /\ (\A s \in Seq(C) : R(s) \in Seq(C)) /\ <<>> \in Seq(C)
  BY RestoreType
<1>1. <<>> \in S
  BY <1>0
<1>2. ASSUME NEW h \in Seq(C), NEW r \in Seq(C), Len(h) = 1, NoMatch(tab, h \o r), r \in S PROVE h \o r \in S
  <2> DEFINE s == h \o r
             rr == R(r)
             y == rr \o x
             z == r \o x
  <2>1. s \in Seq(C) /\ rr \in Seq(C)
    BY <1>0
  <2>2. y \in Seq(C) /\ z \in Seq(C)
    BY <2>1
  <2>3. R(s) = h \o rr
    BY <1>2, RestoreCharacter
  <2>4. R(y) = R(z)
    BY <1>2
  <2>5. s \o x = h \o z /\ s # <<>>
    <3>1. Associates(h, r, x) /\ h # <<>>
      BY <1>2, Associativity, OneIsNotEmpty
    <3> QED
      BY <3>1, ConcatEqualIffEmpty DEF Associates
  <2>6. R(s) \o x = h \o y
    <3>1. Associates(h, rr, x)
      BY <2>1, Associativity
    <3> HIDE DEF rr, R
    <3> QED
      BY <2>3, <3>1 DEF Associates
  <2>7. NoMatch(tab, s)
    BY <1>2
  <2> HIDE DEF y, z, s
  <2>8. CASE NoMatch(tab, s \o x)
    <3>1. R(h \o z) = h \o R(z)
      BY <1>2, <2>2, <2>5, <2>8, RestoreCharacter, SMTT(60)
    <3>2. ASSUME NEW b \in tab PROVE ~IsPrefix(b, R(s) \o x)
      <4>1. b \in Seq(C) /\ Inert(tab, b)
        BY DEF TextTable
      <4>2. IsPrefix(b, Restore(tab, s) \o x) => IsPrefix(b, s \o x)
        BY <2>1, <4>1, InertPrefix
      <4> QED
        BY <4>2, <2>8 DEF NoMatch
    <3>3. NoMatch(tab, h \o y)
      BY <2>6, <3>2 DEF NoMatch
    <3>4. R(h \o y) = h \o R(y)
      BY <1>2, <2>2, <3>3, RestoreCharacter, SMTT(60)
    <3>5. R(R(s) \o x) = R(s \o x)
      <4> HIDE DEF R
      <4> QED
        BY <2>4, <2>5, <2>6, <3>1, <3>4
    <3> QED
      BY <2>1, <3>5 DEF s
  <2>9. ASSUME NEW b \in tab, IsPrefix(b, s \o x) PROVE R(R(s) \o x) = R(s \o x)
    <3>1. b \in Seq(C) /\ Len(b) \in Nat /\ Len(s) \in Nat
      BY <2>1, EmptySeq DEF TextTable
    <3>2. ~(Len(b) <= Len(s))
      <4>1. Len(b) <= Len(s) => IsPrefix(b, s)
        BY <2>1, <2>9, <3>1, PrefixOfConcat
      <4> QED
        BY <4>1, <2>7 DEF NoMatch
    <3>3. IsPrefix(s, b)
      <4>1. Len(s) <= Len(b)
        BY <3>1, <3>2
      <4> QED
        BY <2>1, <2>9, <3>1, <4>1, PrefixOfConcat
    <3> DEFINE t == Drop(b, Len(s))
    <3>4. b = s \o t /\ t \in Seq(C)
      BY <2>1, <3>1, <3>3, PrefixSplit
    <3> HIDE DEF t
    <3>5. ASSUME NEW p \in Seq(C), NEW q \in Seq(C), s = p \o q, q # <<>>, NEW c \in tab, IsPrefix(c, q)
          PROVE  FALSE
      <4> DEFINE qt == q \o t
      <4>1. c \in Seq(C)
        BY DEF TextTable
      <4>2. qt \in Seq(C) /\ qt # <<>> /\ IsPrefix(c, qt)
        <5>1. qt \in Seq(C)
          BY <3>4
        <5>2. qt # <<>>
          BY <3>4, <3>5, ConcatEqualIffEmpty
        <5>3. IsPrefix(c, qt)
          BY <3>4, <3>5, <4>1, PrefixOfConcat
        <5> QED
          BY <5>1, <5>2, <5>3
      <4>3. b = p \o qt
        <5>1. Associates(p, q, t)
          BY <3>4, Associativity
        <5> QED
          BY <3>4, <3>5, <5>1 DEF Associates
      <4> HIDE DEF qt
      <4>4. c = b
        BY <4>2, <4>3, WithinAlias
      <4>5. Len(c) <= Len(q)
        BY <3>5 DEF IsPrefix
      <4>6. Len(q) <= Len(s)
        BY <3>5, DropOfConcat
      <4> QED
        BY <3>1, <3>2, <4>4, <4>5, <4>6, DropOfConcat
    <3>6. AliasFree(C, tab, s)
      BY <3>5 DEF AliasFree, NoMatch
    <3>7. R(s) = s
      BY <2>1, <3>6, RestoreAliasFree
    <3> HIDE DEF R
    <3> QED
      BY <3>7
  <2>10. CASE ~NoMatch(tab, s \o x)
    <3>1. PICK b \in tab : IsPrefix(b, s \o x)
      BY <2>10 DEF NoMatch
    <3>2. R(R(s) \o x) = R(s \o x)
      BY <2>9, <3>1
    <3> QED
      BY <2>1, <3>2 DEF s
  <2> QED
    BY <2>8, <2>10
<1>3. ASSUME NEW a \in tab, NEW r \in Seq(C), IsMatch(tab, a, a \o r), r \in S PROVE a \o r \in S
  <2> DEFINE s == a \o r
             rr == R(r)
             y == rr \o x
             z == r \o x
             o == Original[a]
             az == a \o z
  <2>1. s \in Seq(C) /\ rr \in Seq(C) /\ o \in Seq(C) /\ a \in Seq(C) /\ a # <<>>
    BY <1>0 DEF TextTable
  <2>2. y \in Seq(C) /\ z \in Seq(C)
    BY <2>1
  <2>3. R(s) = o \o rr
    BY <1>3, RestoreMatch
  <2>4. R(y) = R(z)
    BY <1>3
  <2>5. s \o x = az
    <3>1. Associates(a, r, x)
      BY <2>1, Associativity
    <3> QED
      BY <3>1 DEF Associates
  <2>6. R(s) \o x = o \o y
    <3>1. Associates(o, rr, x)
      BY <2>1, Associativity
    <3> HIDE DEF rr, R
    <3> QED
      BY <2>3, <3>1 DEF Associates
  <2>7. Foreign(tab, o)
    BY DEF Inert, Foreign
  <2> HIDE DEF y, z, s, o, rr
  <2>8. R(o \o y) = o \o R(y)
    BY <2>1, <2>2, <2>7, OriginalInert, SMTT(60)
  <2>9. az \in Seq(C) /\ IsPrefix(a, az) /\ az # <<>>
    <3>1. az \in Seq(C)
      BY <2>1, <2>2
    <3>2. IsPrefix(a, az)
      BY <2>1, <2>2, PrefixOfConcat
    <3>3. az # <<>>
      BY <2>1, <2>2, ConcatEqualIffEmpty
    <3> QED
      BY <3>1, <3>2, <3>3
  <2> HIDE DEF az
  <2>10. ASSUME NEW b \in tab, IsPrefix(b, az) PROVE Len(b) <= Len(a)
    <3>1. b \in Seq(C) /\ Len(b) \in Nat /\ Len(a) \in Nat
      BY <2>1, EmptySeq DEF TextTable
    <3> SUFFICES ASSUME Len(a) <= Len(b) PROVE a = b
      BY <3>1
    <3>2. IsPrefix(a, b)
      BY <2>1, <2>2, <2>9, <2>10, <3>1, PrefixOfConcat DEF az
    <3> DEFINE e == <<>>
    <3>3. e \in Seq(C) /\ b = e \o b /\ b # <<>>
      BY <3>1, ConcatEmptySeq DEF TextTable
    <3> HIDE DEF e
    <3> QED
      BY <3>1, <3>2, <3>3, WithinAlias
  <2>11. IsMatch(tab, a, az)
    BY <2>9, <2>10 DEF IsMatch
  <2>12. R(az) = o \o R(z)
    BY <2>2, <2>11, RestoreMatch DEF az, o
  <2>13. R(R(s) \o x) = R(s \o x)
    <3> HIDE DEF R
    <3> QED
      BY <2>4, <2>5, <2>6, <2>8, <2>12
  <2> QED
    BY <2>1, <2>13 DEF s
<1>4. \A s \in Seq(C) : s \in S
  <2> HIDE DEF S
  <2> QED
    BY <1>1, <1>2, <1>3, RestoreInduction
<1> QED
  BY <1>4

\* An empty table restores nothing.
LEMMA RestoreNothing ==
    ASSUME NEW C, NEW s \in Seq(C)
    PROVE  Restore({}, s) = s
<1>1. TextTable(C, {}) /\ AliasFree(C, {}, s)
  BY DEF TextTable, AliasFree, NoMatch
<1> QED
  BY <1>1, RestoreAliasFree

-------------------------------------------------------------------------------
\* Holdback: no alias lies across the end of what is sent.

\* Induction over a finite set.
LEMMA FiniteInduction ==
    ASSUME NEW S, IsFiniteSet(S), NEW Q, {} \in Q,
           \A T \in SUBSET S : \A x \in S : T \in Q /\ x \notin T => T \cup {x} \in Q
    PROVE  S \in Q
<1>1. PICK n \in Nat : ExistsSurjection(1 .. n, S)
  BY FS_NatSurjection
<1>2. PICK f \in Surjection(1 .. n, S) : TRUE
  BY <1>1 DEF ExistsSurjection
<1>3. f \in [1 .. n -> S] /\ \A s \in S : \E i \in 1 .. n : f[i] = s
  BY <1>2 DEF Surjection
<1> DEFINE T(m) == {f[i] : i \in 1 .. m}
           N == {m \in Nat : m <= n => T(m) \in Q}
<1>4. ASSUME NEW m \in Nat, \A k \in Nat : k < m => k \in N PROVE m \in N
  <2> SUFFICES ASSUME m <= n PROVE T(m) \in Q
    OBVIOUS
  <2>1. CASE m = 0
    <3>1. T(m) = {}
      BY <2>1
    <3> QED
      BY <3>1
  <2>2. CASE m # 0
    <3> DEFINE k == m - 1
    <3>1. k \in Nat /\ k < m /\ k <= n /\ m \in 1 .. n /\ m = k + 1
      BY <2>2
    <3>2. T(k) \in Q
      BY <3>1, <1>4
    <3>3. T(k) \in SUBSET S /\ f[m] \in S
      <4>1. \A i \in 1 .. k : f[i] \in S
        BY <3>1, <1>3
      <4> QED
        BY <4>1, <3>1, <1>3
    <3>4. T(m) = T(k) \cup {f[m]}
      <4>1. 1 .. m = (1 .. k) \cup {m}
        BY <3>1
      <4> HIDE DEF k
      <4> QED
        BY <4>1
    <3> HIDE DEF T, k
    <3> QED
      BY <3>2, <3>3, <3>4
  <2> QED
    BY <2>1, <2>2
<1>5. \A m \in Nat : m \in N
  <2> HIDE DEF N
  <2> QED
    BY <1>4, Induction
<1>6. T(n) \in Q
  BY <1>5, SMTT(60)
<1>7. T(n) = S
  BY <1>3
<1> QED
  BY <1>6, <1>7

\* No alias of a table is longer than MaxLen.
LEMMA MaxLenBounds ==
    ASSUME NEW C, NEW S, IsFiniteSet(S), S \subseteq Seq(C)
    PROVE  MaxLen(S) \in Nat /\ \A a \in S : Len(a) <= MaxLen(S)
<1> DEFINE Q == {T \in SUBSET S : \E b \in Nat : \A a \in T : Len(a) <= b}
<1>1. \A a \in S : Len(a) \in Nat
  OBVIOUS
<1>2. {} \in Q
  <2>1. 0 \in Nat /\ \A a \in {} : Len(a) <= 0
    OBVIOUS
  <2> QED
    BY <2>1
<1>3. ASSUME NEW T \in SUBSET S, NEW x \in S, T \in Q, x \notin T PROVE T \cup {x} \in Q
  <2>1. PICK b \in Nat : \A a \in T : Len(a) <= b
    BY <1>3
  <2> DEFINE d == b + Len(x)
  <2>2. d \in Nat /\ Len(x) <= d /\ b <= d
    BY <1>1
  <2>3. \A a \in T : Len(a) \in Nat
    BY <1>1
  <2> HIDE DEF d
  <2>4. \A a \in T \cup {x} : Len(a) <= d
    BY <2>1, <2>2, <2>3
  <2> QED
    BY <2>2, <2>4
<1>4. S \in Q
  <2> HIDE DEF Q
  <2> QED
    BY <1>2, <1>3, FiniteInduction
<1>5. PICK b \in Nat : \A a \in S : Len(a) <= b
  BY <1>4
<1> DEFINE I == {Len(a) : a \in S} \cup {0}
<1>6. I \subseteq Nat /\ I # {} /\ \A x \in I : x <= b
  BY <1>1, <1>5
<1>7. \A a \in S : Len(a) \in I
  OBVIOUS
<1> HIDE DEF I
<1>8. Max(I) \in I /\ \A x \in I : x <= Max(I)
  BY <1>6, MaxOfBounded
<1>9. MaxLen(S) = Max(I)
  BY DEF MaxLen, I
<1> QED
  BY <1>6, <1>7, <1>8, <1>9

-----------------------------------------------------------------------------
LEMMA SuffixIsDrop ==
    ASSUME NEW C, NEW buf \in Seq(C), NEW len \in 0 .. Len(buf)
    PROVE  /\ Suffix(buf, len) = Drop(buf, Len(buf) - len)
           /\ Suffix(buf, len) \in Seq(C) /\ Len(Suffix(buf, len)) = len
<1> DEFINE k == Len(buf) - len
<1>1. k \in 0 .. Len(buf) /\ Len(buf) - k = len
  OBVIOUS
<1>2. Suffix(buf, len) = Drop(buf, k)
  BY DEF Suffix, Drop
<1> HIDE DEF k
<1>3. Drop(buf, k) \in Seq(C) /\ Len(Drop(buf, k)) = Len(buf) - k
  BY <1>1, DropProperties
<1> QED
  BY <1>1, <1>2, <1>3 DEF k

LEMMA SuffixOfConcat ==
    ASSUME NEW C, NEW s \in Seq(C), NEW t \in Seq(C)
    PROVE  Suffix(s \o t, Len(t)) = t
<1> DEFINE st == s \o t
<1>1. /\ st \in Seq(C) /\ Drop(st, Len(s)) = t /\ Len(st) = Len(s) + Len(t)
      /\ Len(s) \in Nat /\ Len(t) \in Nat
  BY DropOfConcat
<1> HIDE DEF st
<1>2. Len(t) \in 0 .. Len(st) /\ Len(st) - Len(t) = Len(s)
  BY <1>1
<1>3. Suffix(st, Len(t)) = Drop(st, Len(st) - Len(t))
  BY <1>1, <1>2, SuffixIsDrop
<1> QED
  BY <1>1, <1>2, <1>3 DEF st

\* What may begin an alias of tab, as Holdback asks.
MayBegin(tab, s) ==
    \/ IsPlaceholderPrefix(s)
    \/ \E a \in tab : ~IsPlaceholder(a) /\ IsStrictPrefix(s, a)

\* No more than the text is held back.
LEMMA HoldbackBounds ==
    ASSUME NEW C, NEW all, TextTable(C, all), IsFiniteSet(all), NEW tab, tab \subseteq all,
           NEW buf \in Seq(C)
    PROVE  LET h == Holdback(all, tab, buf) IN
           /\ h \in 0 .. Len(buf)
           /\ h > 0 => MayBegin(tab, Suffix(buf, h))
           /\ \A len \in 1 .. Len(buf) : \A a \in tab :
                 /\ IsStrictPrefix(Suffix(buf, len), a)
                 /\ IsPlaceholder(a) => IsPlaceholderPrefix(Suffix(buf, len))
                 => len <= h
<1> DEFINE h == Holdback(all, tab, buf)
           ph == {a \in all : IsPlaceholder(a)}
           np == all \ ph
           Starts(s) == \E a \in tab : ~IsPlaceholder(a) /\ IsStrictPrefix(s, a)
           Lim(max) == IF max < Len(buf) THEN max ELSE Len(buf)
           H1 == {len \in 1 .. Lim(MaxLen(ph)) : IsPlaceholderPrefix(Suffix(buf, len))}
           H2 == {len \in 1 .. Lim(MaxLen(np)) : Starts(Suffix(buf, len))}
           I == {0} \cup H1 \cup H2
<1>1. h = Max(I)
  BY DEF Holdback, HeldLengths
<1>2. IsFiniteSet(ph) /\ IsFiniteSet(np) /\ ph \subseteq Seq(C) /\ np \subseteq Seq(C)
  BY FS_Subset DEF TextTable
<1>3. /\ MaxLen(ph) \in Nat /\ \A a \in ph : Len(a) <= MaxLen(ph)
      /\ MaxLen(np) \in Nat /\ \A a \in np : Len(a) <= MaxLen(np)
  <2> HIDE DEF ph, np
  <2> QED
    BY <1>2, MaxLenBounds
<1>4. Len(buf) \in Nat
  OBVIOUS
<1>5. \A max \in Nat : Lim(max) \in Nat /\ Lim(max) <= Len(buf)
  BY <1>4
<1> HIDE DEF ph, np, Lim
<1>6. \A len \in H1 \cup H2 : len \in 1 .. Len(buf) /\ MayBegin(tab, Suffix(buf, len))
  <2>1. ASSUME NEW len \in H1 PROVE len \in 1 .. Len(buf) /\ MayBegin(tab, Suffix(buf, len))
    <3>1. len \in 1 .. Lim(MaxLen(ph)) /\ IsPlaceholderPrefix(Suffix(buf, len))
      OBVIOUS
    <3> QED
      BY <3>1, <1>3, <1>4, <1>5, SMTT(60) DEF MayBegin
  <2>2. ASSUME NEW len \in H2 PROVE len \in 1 .. Len(buf) /\ MayBegin(tab, Suffix(buf, len))
    <3>1. len \in 1 .. Lim(MaxLen(np)) /\ Starts(Suffix(buf, len))
      OBVIOUS
    <3> HIDE DEF H1, H2
    <3>2. len \in 1 .. Len(buf)
      BY <3>1, <1>3, <1>4, <1>5, SMTT(60)
    <3> QED
      BY <3>1, <3>2 DEF MayBegin
  <2> HIDE DEF H1, H2
  <2> QED
    BY <2>1, <2>2
<1>7. I \subseteq Nat /\ I # {} /\ \A x \in I : x <= Len(buf)
  <2> HIDE DEF H1, H2
  <2> QED
    BY <1>4, <1>6
<1>8. h \in I /\ \A x \in I : x <= h
  <2> HIDE DEF I, h
  <2> QED
    BY <1>1, <1>4, <1>7, MaxOfBounded
<1>9. h \in 0 .. Len(buf) /\ (h > 0 => MayBegin(tab, Suffix(buf, h)))
  <2>1. CASE h = 0
    BY <2>1, <1>4
  <2>2. CASE h \in H1 \cup H2
    <3> HIDE DEF H1, H2, h
    <3> QED
      BY <2>2, <1>4, <1>6
  <2>3. h = 0 \/ h \in H1 \cup H2
    <3> HIDE DEF H1, H2, h
    <3> QED
      BY <1>8
  <2> QED
    BY <2>1, <2>2, <2>3
<1>10. ASSUME NEW len \in 1 .. Len(buf), NEW a \in tab, IsStrictPrefix(Suffix(buf, len), a),
              IsPlaceholder(a) => IsPlaceholderPrefix(Suffix(buf, len))
       PROVE  len <= h
  <2> DEFINE s == Suffix(buf, len)
  <2>1. len \in 0 .. Len(buf)
    BY <1>4
  <2>2. s \in Seq(C) /\ Len(s) = len
    BY <2>1, SuffixIsDrop
  <2>3. a \in Seq(C) /\ Len(a) \in Nat
    BY DEF TextTable
  <2>4. len < Len(a)
    <3>1. Len(s) <= Len(a) /\ SubSeq(s, 1, Len(s)) = SubSeq(a, 1, Len(s)) /\ s # a
      BY <1>10 DEF IsStrictPrefix, IsPrefix
    <3>2. SubSeq(s, 1, Len(s)) = s /\ SubSeq(a, 1, Len(a)) = a
      BY <2>2, <2>3, SubSeqFull
    <3> HIDE DEF s
    <3> QED
      BY <2>2, <2>3, <3>1, <3>2
  <2> HIDE DEF s
  <2>5. CASE IsPlaceholder(a)
    <3>1. a \in ph /\ len <= MaxLen(ph)
      BY <2>3, <2>4, <2>5, <1>3 DEF ph
    <3>2. len \in 1 .. Lim(MaxLen(ph))
      BY <3>1, <1>3, <1>4 DEF Lim
    <3>3. len \in H1
      BY <3>2, <2>5, <1>10
    <3> HIDE DEF h, H1, H2
    <3> QED
      BY <3>3, <1>8
  <2>6. CASE ~IsPlaceholder(a)
    <3>1. a \in np /\ len <= MaxLen(np)
      BY <2>3, <2>4, <2>6, <1>3 DEF np, ph
    <3>2. len \in 1 .. Lim(MaxLen(np))
      BY <3>1, <1>3, <1>4 DEF Lim
    <3>3. len \in H2
      BY <3>2, <2>6, <1>10
    <3> HIDE DEF h, H1, H2
    <3> QED
      BY <3>3, <1>8
  <2> QED
    BY <2>5, <2>6
<1> QED
  BY <1>9, <1>10

-----------------------------------------------------------------------------
\* The beginning of a placeholder's beginning.
LEMMA SplitsPrefix ==
    ASSUME NEW C, PREFIX \in Seq(C), NEW s \in Seq(C), NEW t \in Seq(C), IsPrefix(s, t),
           NEW i \in 1 .. Len(t), Splits(t, i), Len(s) < i \/ Len(s) - i < HASH_HEX_LEN
    PROVE  IsPlaceholderPrefix(s)
<1> DEFINE n == Len(s)
           m == Len(t)
           p == Len(PREFIX)
<1>1. n \in Nat /\ m \in Nat /\ p \in Nat /\ i \in Nat /\ i <= m
  OBVIOUS
<1>2. n <= m /\ \A j \in 1 .. n : s[j] = t[j]
  BY PrefixElements
<1>3. p <= m /\ \A j \in 1 .. p : PREFIX[j] = t[j]
  <2>1. IsPrefix(PREFIX, t)
    BY DEF Splits
  <2> QED
    BY <2>1, PrefixElements
<1>4. i > p + 1 /\ t[i] = "_"
  BY DEF Splits
<1>4a. i > p + 1
  BY <1>4
<1>5. \A j \in p + 1 .. i - 1 : t[j] \in EntityChars
  BY DEF Splits
<1>6. \A j \in i + 1 .. m : t[j] \in HexChars
  BY DEF Splits
<1>7. n <= p => IsPrefix(s, PREFIX)
  <2> HAVE n <= p
  <2> HIDE DEF n, m, p
  <2>1. ASSUME NEW j \in 1 .. n PROVE s[j] = PREFIX[j]
    <3>1. j \in 1 .. p
      BY <1>1
    <3> QED
      BY <3>1, <1>2, <1>3
  <2> QED
    BY <2>1, PrefixElements DEF n, p
<1>8. n > p => IsPrefix(PREFIX, s)
  <2> HAVE n > p
  <2>0. p <= n
    BY <1>1
  <2> HIDE DEF n, m, p
  <2>1. ASSUME NEW j \in 1 .. p PROVE PREFIX[j] = s[j]
    <3>1. j \in 1 .. n
      BY <1>1
    <3> QED
      BY <3>1, <1>2, <1>3
  <2> QED
    BY <2>0, <2>1, PrefixElements DEF n, p
<1>9. n > p /\ n < i => \A j \in p + 1 .. n : s[j] \in EntityChars
  <2> SUFFICES ASSUME n > p, n < i, NEW j \in p + 1 .. n PROVE s[j] \in EntityChars
    OBVIOUS
  <2> HIDE DEF n, m, p
  <2>1. j \in 1 .. n /\ j \in p + 1 .. i - 1
    BY <1>1
  <2> QED
    BY <2>1, <1>2, <1>5
<1>10. n > p /\ ~(n < i) => i \in 1 .. n /\ Splits(s, i)
  <2> SUFFICES ASSUME n > p, ~(n < i) PROVE i \in 1 .. n /\ Splits(s, i)
    OBVIOUS
  <2> HIDE DEF n, m, p
  <2>1. i \in 1 .. n
    BY <1>1, <1>4a
  <2>2. s[i] = "_"
    <3>1. s[i] = t[i]
      BY <2>1, <1>2
    <3> QED
      BY <3>1, <1>4
  <2>3. ASSUME NEW j \in p + 1 .. i - 1 PROVE s[j] \in EntityChars
    <3>1. j \in 1 .. n
      BY <2>1, <1>1
    <3> QED
      BY <3>1, <1>2, <1>5
  <2>4. ASSUME NEW j \in i + 1 .. n PROVE s[j] \in HexChars
    <3>1. j \in 1 .. n /\ j \in i + 1 .. m
      BY <2>1, <1>1, <1>2
    <3> QED
      BY <3>1, <1>2, <1>6
  <2>5. IsPrefix(PREFIX, s)
    BY <1>8
  <2>6. Splits(s, i)
    BY <2>2, <2>3, <2>4, <2>5, <1>4 DEF Splits, p, n
  <2> QED
    BY <2>1, <2>6
<1> HIDE DEF n, m, p
<1>11. n <= p \/ (n > p /\ n < i) \/ (n > p /\ ~(n < i))
  BY <1>1
<1>12. CASE n <= p
  BY <1>7, <1>12 DEF IsPlaceholderPrefix
<1>13. CASE n > p /\ n < i
  BY <1>8, <1>9, <1>13 DEF IsPlaceholderPrefix, n, p
<1>14. CASE n > p /\ ~(n < i)
  BY <1>10, <1>14 DEF IsPlaceholderPrefix, n
<1> QED
  BY <1>11, <1>12, <1>13, <1>14

\* A beginning of the beginning of a placeholder is one too.
LEMMA PlaceholderPrefixMonotone ==
    ASSUME NEW C, PREFIX \in Seq(C), HASH_HEX_LEN \in Nat, NEW s \in Seq(C), NEW t \in Seq(C), IsPrefix(s, t),
           IsPlaceholderPrefix(t)
    PROVE  IsPlaceholderPrefix(s)
<1>1. /\ Len(s) \in Nat /\ Len(t) \in Nat /\ Len(PREFIX) \in Nat
      /\ Len(s) <= Len(t) /\ \A j \in 1 .. Len(s) : s[j] = t[j]
  BY PrefixElements
<1>2. CASE IsPrefix(t, PREFIX)
  <2>1. Len(t) <= Len(PREFIX) /\ \A j \in 1 .. Len(t) : t[j] = PREFIX[j]
    BY <1>2, PrefixElements
  <2>2. Len(s) <= Len(PREFIX) /\ \A j \in 1 .. Len(s) : s[j] = PREFIX[j]
    BY <1>1, <2>1
  <2>3. IsPrefix(s, PREFIX)
    BY <2>2, PrefixElements
  <2> QED
    BY <2>3 DEF IsPlaceholderPrefix
<1>3. CASE IsPrefix(PREFIX, t) /\ \A j \in Len(PREFIX) + 1 .. Len(t) : t[j] \in EntityChars
  <2>1. Len(PREFIX) <= Len(t) /\ \A j \in 1 .. Len(PREFIX) : PREFIX[j] = t[j]
    BY <1>3, PrefixElements
  <2>2. CASE Len(s) <= Len(PREFIX)
    <3>1. \A j \in 1 .. Len(s) : s[j] = PREFIX[j]
      BY <1>1, <2>1, <2>2
    <3>2. IsPrefix(s, PREFIX)
      BY <3>1, <2>2, PrefixElements
    <3> QED
      BY <3>2 DEF IsPlaceholderPrefix
  <2>3. CASE Len(s) > Len(PREFIX)
    <3>1. \A j \in 1 .. Len(PREFIX) : PREFIX[j] = s[j]
      BY <1>1, <2>1, <2>3
    <3>2. IsPrefix(PREFIX, s)
      BY <1>1, <3>1, <2>3, PrefixElements
    <3>3. \A j \in Len(PREFIX) + 1 .. Len(s) : s[j] \in EntityChars
      BY <1>1, <1>3
    <3> QED
      BY <3>2, <3>3 DEF IsPlaceholderPrefix
  <2> QED
    BY <1>1, <2>2, <2>3
<1>4. ASSUME NEW i \in 1 .. Len(t), Splits(t, i), Len(t) - i < HASH_HEX_LEN PROVE IsPlaceholderPrefix(s)
  <2>1. Len(s) - i < HASH_HEX_LEN
    BY <1>1, <1>4
  <2> QED
    BY <1>4, <2>1, SplitsPrefix
<1> QED
  BY <1>2, <1>3, <1>4 DEF IsPlaceholderPrefix

\* A beginning of a placeholder that is not all of it is a beginning of one.
LEMMA ShapePrefix ==
    ASSUME NEW C, PREFIX \in Seq(C), HASH_HEX_LEN \in Nat, NEW s \in Seq(C), NEW a \in Seq(C), IsPrefix(s, a),
           Len(s) < Len(a), HasShape(a)
    PROVE  IsPlaceholderPrefix(s)
<1>1. PICK i \in 1 .. Len(a) : Splits(a, i) /\ Len(a) - i = HASH_HEX_LEN
  BY DEF HasShape
<1>2. Len(s) - i < HASH_HEX_LEN
  <2>1. Len(s) \in Nat /\ Len(a) \in Nat /\ i \in Nat
    OBVIOUS
  <2> QED
    BY <1>1, <2>1
<1> QED
  BY <1>1, <1>2, SplitsPrefix

LEMMA PrefixTransitive ==
    ASSUME NEW C, NEW r \in Seq(C), NEW s \in Seq(C), NEW t \in Seq(C), IsPrefix(r, s), IsPrefix(s, t)
    PROVE  IsPrefix(r, t)
<1> DEFINE d == Drop(t, Len(s))
<1>1. t = s \o d /\ d \in Seq(C)
  BY PrefixSplit
<1> HIDE DEF d
<1>2. IsPrefix(r, s \o d)
  BY <1>1, PrefixOfConcat
<1> QED
  BY <1>1, <1>2

\* What a text lets begin at its end is held back: no alias that begins before the held
\* characters reaches into them or beyond.
LEMMA HoldbackNoSpan ==
    ASSUME NEW C, PREFIX \in Seq(C), HASH_HEX_LEN \in Nat, NEW all, TextTable(C, all),
           IsFiniteSet(all), NEW tab, tab \subseteq all, NoOverlap(tab), WellShaped(tab),
           NEW buf \in Seq(C), NEW x \in Seq(C)
    PROVE  LET n == Len(buf) - Holdback(all, tab, buf) IN
           NoSpan(C, tab, Take(buf, n), Drop(buf, n) \o x)
<1> DEFINE h == Holdback(all, tab, buf)
           n == Len(buf) - h
           u == Take(buf, n)
           v == Drop(buf, n)
<1>0. TextTable(C, tab)
  BY DEF TextTable
<1>1. /\ h \in 0 .. Len(buf)
      /\ h > 0 => MayBegin(tab, Suffix(buf, h))
  BY HoldbackBounds
<1>2. \A len \in 1 .. Len(buf) : \A a \in tab :
         IsStrictPrefix(Suffix(buf, len), a) /\ (IsPlaceholder(a) => IsPlaceholderPrefix(Suffix(buf, len)))
         => len <= h
  BY HoldbackBounds
<1> HIDE DEF h
<1>3. n \in 0 .. Len(buf) /\ Len(buf) - n = h /\ Len(buf) \in Nat
  BY <1>1
<1>4. u \in Seq(C) /\ v \in Seq(C) /\ Len(v) = h /\ u \o v = buf /\ Suffix(buf, h) = v
  <2>1. Suffix(buf, h) = Drop(buf, n)
    BY <1>1, SuffixIsDrop
  <2> HIDE DEF n
  <2> QED
    BY <1>3, <2>1, TakeProperties, DropProperties, TakeDrop
<1> HIDE DEF n, u, v
<1>5. SUFFICES ASSUME NEW p \in Seq(C), NEW q \in Seq(C), u = p \o q, q # <<>>, NEW a \in tab,
                      IsPrefix(a, q \o (v \o x)), ~(Len(a) <= Len(q))
               PROVE  FALSE
  BY DEF NoSpan, n, u, v, h
<1> DEFINE s == q \o v
<1>6. a \in Seq(C) /\ a # <<>> /\ Len(a) \in Nat
  BY <1>0 DEF TextTable
<1>7. Len(q) \in Nat \ {0} /\ Len(q) <= Len(a)
  BY <1>5, <1>6, EmptySeq
<1>8. s \in Seq(C) /\ Len(s) = Len(q) + h
  BY <1>4, ConcatProperties
<1>8a. Associates(p, q, v) /\ Associates(q, v, x)
  BY <1>4, Associativity
<1>9. p \o s = buf
  BY <1>4, <1>5, <1>8a DEF Associates
<1>10. IsPrefix(a, s \o x)
  BY <1>5, <1>8a DEF Associates
<1>11. s = Suffix(buf, Len(s)) /\ Len(s) \in 1 .. Len(buf) /\ Len(s) > h
  <2> HIDE DEF s
  <2>1. Suffix(p \o s, Len(s)) = s
    BY <1>8, SuffixOfConcat
  <2>2. Len(p \o s) = Len(p) + Len(s) /\ Len(p) \in Nat
    BY <1>8, DropOfConcat
  <2> QED
    BY <2>1, <2>2, <1>1, <1>3, <1>7, <1>8, <1>9, SMTT(60)
<1>12. CASE Len(a) > Len(s)
  <2> HIDE DEF s
  <2>1. Len(s) \in Nat /\ Len(s) <= Len(a)
    BY <1>3, <1>11, <1>12
  <2>2. IsPrefix(s, a)
    BY <1>6, <1>8, <1>10, <2>1, PrefixOfConcat
  <2>3. s # a
    BY <1>12, <2>1
  <2>4. IsStrictPrefix(s, a)
    BY <2>2, <2>3 DEF IsStrictPrefix
  <2>5. IsPlaceholder(a) => IsPlaceholderPrefix(s)
    <3> HAVE IsPlaceholder(a)
    <3>1. HasShape(a)
      BY DEF WellShaped
    <3> QED
      BY <3>1, <1>6, <1>8, <1>12, <2>1, <2>2, ShapePrefix
  <2> DEFINE len == Len(s)
  <2>6. len \in 1 .. Len(buf) /\ len > h /\ s = Suffix(buf, len)
    BY <1>11
  <2> HIDE DEF len
  <2>7. len <= h
    BY <2>4, <2>5, <2>6, <1>2
  <2> QED
    BY <2>6, <2>7, <1>1, <1>3
<1>13. CASE ~(Len(a) > Len(s))
  <2> DEFINE b == Drop(a, Len(q))
  <2>1. Len(a) <= Len(s)
    BY <1>3, <1>6, <1>11, <1>13
  <2>2. IsPrefix(a, s)
    <3> HIDE DEF s
    <3> QED
      BY <1>6, <1>8, <1>10, <2>1, PrefixOfConcat
  <2>3. IsPrefix(q, a)
    BY <1>4, <1>6, <1>7, <2>2, PrefixOfConcat
  <2>4. a = q \o b /\ b \in Seq(C) /\ Len(b) = Len(a) - Len(q)
    BY <1>6, <2>3, PrefixSplit
  <2> HIDE DEF b
  <2>5. IsPrefix(b, v)
    BY <1>4, <2>2, <2>4, PrefixCancel
  <2>6. Len(b) \in 1 .. Len(a) - 1
    BY <1>5, <1>6, <1>7, <2>4
  <2>7. Suffix(a, Len(b)) = b
    BY <2>4, SuffixOfConcat
  <2>8. Len(b) <= h
    BY <2>5, <1>4 DEF IsPrefix
  <2>9. h > 0 /\ MayBegin(tab, v)
    BY <2>6, <2>8, <1>1, <1>3, <1>4
  <2>10. ~IsPlaceholderPrefix(b) /\ \A c \in tab : ~IsPrefix(b, c)
    BY <2>6, <2>7 DEF NoOverlap
  <2>11. CASE IsPlaceholderPrefix(v)
    BY <2>4, <2>5, <2>10, <2>11, <1>4, PlaceholderPrefixMonotone
  <2>12. ASSUME NEW c \in tab, IsStrictPrefix(v, c) PROVE FALSE
    <3>1. c \in Seq(C) /\ IsPrefix(v, c)
      BY <2>12, <1>0 DEF TextTable, IsStrictPrefix
    <3> QED
      BY <3>1, <2>4, <2>5, <2>10, <1>4, PrefixTransitive
  <2> QED
    BY <2>9, <2>11, <2>12 DEF MayBegin
<1> QED
  BY <1>12, <1>13

\* What is held back is nothing or begins with the first character of a placeholder or of an
\* alias.
LEMMA HeldBegins ==
    ASSUME NEW C, PREFIX \in Seq(C), PREFIX # <<>>, NEW tab, TextTable(C, tab), NEW s \in Seq(C), s # <<>>,
           MayBegin(tab, s)
    PROVE  s[1] = PREFIX[1] \/ \E a \in tab : s[1] = a[1]
<1>1. /\ \E k \in Nat : k = Len(s) /\ k >= 1 /\ 1 \in 1 .. k
      /\ \E k \in Nat : k = Len(PREFIX) /\ k >= 1 /\ 1 \in 1 .. k
  BY EmptySeq
<1>2. CASE IsPrefix(s, PREFIX)
  BY <1>1, <1>2, PrefixElements
<1>3. CASE IsPrefix(PREFIX, s)
  <2>1. PREFIX[1] = s[1]
    BY <1>1, <1>3, PrefixElements
  <2> QED
    BY <2>1
<1>4. ASSUME NEW a \in tab, IsPrefix(s, a) PROVE s[1] = a[1]
  <2>1. a \in Seq(C)
    BY DEF TextTable
  <2> QED
    BY <1>1, <1>4, <2>1, PrefixElements
<1>5. IsPlaceholderPrefix(s) => IsPrefix(s, PREFIX) \/ IsPrefix(PREFIX, s)
  BY DEF IsPlaceholderPrefix, Splits
<1> QED
  BY <1>2, <1>3, <1>4, <1>5 DEF MayBegin, IsStrictPrefix

-------------------------------------------------------------------------------
\* PartlyRestored.

\* The function by which PartlyRestored is defined.
PartBody(tab, text, rest, i) ==
    {<<text[i]>> \o r : r \in rest[i + 1]} \cup
    UNION {{Original[a] \o r : r \in rest[i + Len(a)]} : a \in {b \in tab : At(text, i, b)}}

PartFn(tab, text) ==
    CHOOSE rest : rest =
        [i \in 1 .. Len(text) + 1 |->
            IF i = Len(text) + 1 THEN {<<>>} ELSE PartBody(tab, text, rest, i)]

\* PartlyRestored is the value of that function at the beginning of the text.
LEMMA PartlyIsPartFn ==
    ASSUME NEW tab, NEW text
    PROVE  PartlyRestored(tab, text) = PartFn(tab, text)[1]
  BY Zenon DEF PartlyRestored, PartFn, PartBody

\* The first k characters of a text may become p.
Way(tab, d, p, k) ==
    \/ p = <<d[1]>> /\ k = 1
    \/ \E a \in Found(tab, d) : p = Original[a] /\ k = Len(a)

LEMMA WayProperties ==
    ASSUME NEW C, NEW tab, TextTable(C, tab), NEW d \in Seq(C), d # <<>>, NEW p, NEW k, Way(tab, d, p, k)
    PROVE  p \in Seq(C) /\ k \in 1 .. Len(d)
<1>1. CASE p = <<d[1]>> /\ k = 1
  <2>1. <<d[1]>> \in Seq(C) /\ Len(d) \in Nat \ {0}
    BY FirstAndRest
  <2> QED
    BY <1>1, <2>1
<1>2. ASSUME NEW a \in Found(tab, d), p = Original[a], k = Len(a) PROVE p \in Seq(C) /\ k \in 1 .. Len(d)
  <2>1. a \in Seq(C) /\ a # <<>> /\ Original[a] \in Seq(C) /\ IsPrefix(a, d)
    BY DEF Found, TextTable
  <2>2. Len(a) \in 1 .. Len(d)
    BY <2>1, EmptySeq DEF IsPrefix
  <2> QED
    BY <1>2, <2>1, <2>2
<1> QED
  BY <1>1, <1>2 DEF Way

ByWays(tab, d, rest, i, t) ==
    \E p, k : Way(tab, d, p, k) /\ \E r \in rest[i + k] : t = p \o r

LEMMA PartBodyWays ==
    ASSUME NEW C, NEW tab, NEW s \in Seq(C), NEW i \in 1 .. Len(s), NEW rest, NEW t
    PROVE  t \in PartBody(tab, s, rest, i) <=> ByWays(tab, Drop(s, i - 1), rest, i, t)
<1> DEFINE d == Drop(s, i - 1)
           found == {b \in tab : At(s, i, b)}
           one == <<s[i]>>
           A == {one \o r : r \in rest[i + 1]}
           B(a) == {Original[a] \o r : r \in rest[i + Len(a)]}
<1>1. d[1] = s[i] /\ found = Found(tab, d)
  BY AtIsPrefix DEF Found
<1> HIDE DEF found, d
<1>2. t \in PartBody(tab, s, rest, i) <=> t \in A \/ \E a \in found : t \in B(a)
  BY Zenon DEF PartBody, found
<1>3. \A p, k : Way(tab, d, p, k) <=> (p = one /\ k = 1) \/ \E a \in found : p = Original[a] /\ k = Len(a)
  BY <1>1 DEF Way
<1>4. ASSUME t \in A PROVE ByWays(tab, d, rest, i, t)
  <2>1. PICK r \in rest[i + 1] : t = one \o r
    BY <1>4
  <2> DEFINE k == 1
             p == one
  <2>2. Way(tab, d, p, k) /\ r \in rest[i + k] /\ t = p \o r
    BY <1>3, <2>1
  <2> HIDE DEF k, p
  <2> QED
    BY <2>2, Zenon DEF ByWays
<1>5. ASSUME NEW a \in found, t \in B(a) PROVE ByWays(tab, d, rest, i, t)
  <2>1. PICK r \in rest[i + Len(a)] : t = Original[a] \o r
    BY <1>5
  <2> DEFINE k == Len(a)
             p == Original[a]
  <2>2. Way(tab, d, p, k) /\ r \in rest[i + k] /\ t = p \o r
    BY <1>3, <2>1
  <2> HIDE DEF k, p
  <2> QED
    BY <2>2, Zenon DEF ByWays
<1>6. ASSUME ByWays(tab, d, rest, i, t) PROVE t \in A \/ \E a \in found : t \in B(a)
  <2>1. PICK p, k : Way(tab, d, p, k) /\ \E r \in rest[i + k] : t = p \o r
    BY <1>6 DEF ByWays
  <2>2. PICK r \in rest[i + k] : t = p \o r
    BY <2>1
  <2>3. CASE p = one /\ k = 1
    BY <2>2, <2>3
  <2>4. ASSUME NEW a \in found, p = Original[a], k = Len(a) PROVE t \in B(a)
    BY <2>2, <2>4
  <2> HIDE DEF A, B, one
  <2> QED
    BY <1>3, <2>1, <2>3, <2>4
<1> HIDE DEF A, B, one
<1>7. t \in PartBody(tab, s, rest, i) <=> ByWays(tab, d, rest, i, t)
  BY <1>2, <1>4, <1>5, <1>6
<1> QED
  BY <1>7 DEF d

\* It depends on the rest of the text only.
LEMMA PartBodyAgrees ==
    ASSUME NEW C, NEW tab, TextTable(C, tab), NEW s \in Seq(C), NEW m \in 0 .. Len(s), NEW i \in 1 .. Len(s) - m,
           NEW g, NEW h, \A j \in i + 1 .. Len(s) - m + 1 : h[j] = g[m + j]
    PROVE  PartBody(tab, Drop(s, m), h, i) = PartBody(tab, s, g, m + i)
<1> DEFINE d == Drop(s, m)
           e == Drop(s, m + i - 1)
<1>1. /\ d \in Seq(C) /\ Len(d) = Len(s) - m
      /\ Len(s) \in Nat /\ m \in Nat /\ i \in Nat /\ i >= 1 /\ i <= Len(s) - m
  BY DropProperties
<1>2. i \in 1 .. Len(d) /\ m + i \in 1 .. Len(s) /\ i - 1 \in 0 .. Len(s) - m /\ m + (i - 1) = m + i - 1
  BY <1>1
<1>3. Drop(d, i - 1) = e
  BY <1>2, DropDrop
<1>4. e \in Seq(C) /\ Len(e) = Len(s) - m + 1 - i /\ e # <<>>
  <2> DEFINE j == m + i
  <2>1. j \in 1 .. Len(s) /\ Len(s) + 1 - j = Len(s) - m + 1 - i /\ j - 1 = m + i - 1
    BY <1>1, <1>2
  <2> HIDE DEF j
  <2>2. Drop(s, j - 1) \in Seq(C) /\ Len(Drop(s, j - 1)) = Len(s) + 1 - j /\ Drop(s, j - 1) # <<>>
    BY <2>1, AtIsPrefix
  <2> QED
    BY <2>1, <2>2
<1> HIDE DEF d, e
<1>5. \A p, k : Way(tab, e, p, k) => h[i + k] = g[m + i + k]
  <2> SUFFICES ASSUME NEW p, NEW k, Way(tab, e, p, k) PROVE h[i + k] = g[m + i + k]
    OBVIOUS
  <2>1. k \in 1 .. Len(e)
    BY <1>4, WayProperties
  <2>2. i + k \in i + 1 .. Len(s) - m + 1 /\ m + (i + k) = m + i + k
    BY <2>1, <1>1, <1>4
  <2> QED
    BY <2>2
<1>6. \A t : t \in PartBody(tab, d, h, i) <=> ByWays(tab, e, h, i, t)
  BY <1>1, <1>2, <1>3, PartBodyWays
<1>7. \A t : t \in PartBody(tab, s, g, m + i) <=> ByWays(tab, e, g, m + i, t)
  <2> DEFINE j == m + i
  <2>1. j \in 1 .. Len(s) /\ Drop(s, j - 1) = e
    BY <1>2 DEF e
  <2> HIDE DEF j
  <2>2. \A t : t \in PartBody(tab, s, g, j) <=> ByWays(tab, e, g, j, t)
    BY <2>1, PartBodyWays
  <2> QED
    BY <2>2 DEF j
<1>8. \A t : t \in PartBody(tab, d, h, i) <=> t \in PartBody(tab, s, g, m + i)
  <2> SUFFICES ASSUME NEW t PROVE t \in PartBody(tab, d, h, i) <=> t \in PartBody(tab, s, g, m + i)
    OBVIOUS
  <2>1. ASSUME ByWays(tab, e, h, i, t) PROVE ByWays(tab, e, g, m + i, t)
    BY <1>5, <2>1, ZenonT(60) DEF ByWays
  <2>2. ASSUME ByWays(tab, e, g, m + i, t) PROVE ByWays(tab, e, h, i, t)
    BY <1>5, <2>2, ZenonT(60) DEF ByWays
  <2> QED
    BY <1>6, <1>7, <2>1, <2>2, Zenon
<1>9. PartBody(tab, d, h, i) = PartBody(tab, s, g, m + i)
  BY <1>8
<1> QED
  BY <1>9 DEF d

\* The function that PartlyRestored chooses exists.
LEMMA PartFnEquations ==
    ASSUME NEW C, NEW tab, TextTable(C, tab), NEW s \in Seq(C)
    PROVE  LET f == PartFn(tab, s) IN
           /\ f \in [1 .. Len(s) + 1 -> SUBSET Seq(C)]
           /\ f[Len(s) + 1] = {<<>>}
           /\ \A i \in 1 .. Len(s) : f[i] = PartBody(tab, s, f, i)
<1> DEFINE n == Len(s)
           V == SUBSET Seq(C)
           Body(rest, i) == PartBody(tab, s, rest, i)
           Fn(rest) == [i \in 1 .. n + 1 |-> IF i = n + 1 THEN {<<>>} ELSE Body(rest, i)]
           G == [i \in 1 .. n |-> [g \in [i + 1 .. n + 1 -> V] |-> Body(g, i)]]
           base == {<<>>}
<1>1. n \in Nat /\ base \in V
  OBVIOUS
<1>2. ASSUME NEW i \in 1 .. n, NEW g, NEW h, \A j \in i + 1 .. n + 1 : h[j] = g[j] PROVE Body(h, i) = Body(g, i)
  <2> DEFINE m == 0
  <2>1. m \in 0 .. Len(s) /\ i \in 1 .. Len(s) - m /\ (\A j \in i + 1 .. Len(s) - m + 1 : h[j] = g[m + j]) /\ m + i = i
    BY <1>1, <1>2
  <2>2. Drop(s, m) = s
    BY DropEnds
  <2> HIDE DEF m
  <2>3. PartBody(tab, Drop(s, m), h, i) = PartBody(tab, s, g, m + i)
    BY <2>1, PartBodyAgrees
  <2> QED
    BY <2>1, <2>2, <2>3
<1>3. ASSUME NEW i \in 1 .. n, NEW g \in [i + 1 .. n + 1 -> V] PROVE Body(g, i) \in V
  <2> SUFFICES ASSUME NEW t \in Body(g, i) PROVE t \in Seq(C)
    OBVIOUS
  <2> DEFINE d == Drop(s, i - 1)
  <2>1. d \in Seq(C) /\ Len(d) = n + 1 - i /\ d # <<>>
    BY AtIsPrefix
  <2>2. PICK p, k : Way(tab, d, p, k) /\ \E r \in g[i + k] : t = p \o r
    BY PartBodyWays DEF ByWays
  <2> HIDE DEF d, Body
  <2>3. p \in Seq(C) /\ k \in 1 .. Len(d)
    BY <2>1, <2>2, WayProperties
  <2>4. i + k \in i + 1 .. n + 1
    BY <2>1, <2>3, <1>1
  <2>5. g[i + k] \subseteq Seq(C)
    BY <2>4
  <2>6. PICK r \in Seq(C) : t = p \o r
    BY <2>2, <2>5
  <2> QED
    BY <2>3, <2>6
<1> HIDE DEF Body
<1>4. \A i \in 1 .. n : \A g \in [i + 1 .. n + 1 -> V] : G[i][g] = Body(g, i) /\ G[i][g] \in V
  <2> SUFFICES ASSUME NEW i \in 1 .. n, NEW g \in [i + 1 .. n + 1 -> V] PROVE G[i][g] = Body(g, i) /\ G[i][g] \in V
    OBVIOUS
  <2>1. G[i] = [x \in [i + 1 .. n + 1 -> V] |-> Body(x, i)]
    OBVIOUS
  <2>2. G[i][g] = Body(g, i)
    BY <2>1
  <2> HIDE DEF G, V
  <2> QED
    BY <2>2, <1>3
<1> HIDE DEF n, V, G, base
<1>5. RecursionStep(V, n, G)
  BY <1>4 DEF RecursionStep
<1>6. PICK f \in [1 .. n + 1 -> V] :
              /\ f[n + 1] = base
              /\ \A i \in 1 .. n : f[i] = G[i][[j \in i + 1 .. n + 1 |-> f[j]]]
  <2>1. \E f \in [1 .. n + 1 -> V] : Follows(f, base, n, G)
    BY <1>1, <1>5, RecursionExists
  <2> QED
    BY <2>1 DEF Follows
<1>7. ASSUME NEW i \in 1 .. n PROVE f[i] = Body(f, i)
  <2> DEFINE g == [j \in i + 1 .. n + 1 |-> f[j]]
  <2>1. \A j \in i + 1 .. n + 1 : j \in 1 .. n + 1
    BY <1>1
  <2>2. g \in [i + 1 .. n + 1 -> V] /\ \A j \in i + 1 .. n + 1 : g[j] = f[j]
    BY <2>1, <1>6
  <2>3. f[i] = G[i][g]
    BY <1>6
  <2> HIDE DEF g
  <2>4. G[i][g] = Body(g, i)
    BY <2>2, <1>4
  <2>5. Body(g, i) = Body(f, i)
    BY <2>2, <1>2
  <2> QED
    BY <2>3, <2>4, <2>5
<1>8. f = Fn(f)
  <2> SUFFICES ASSUME NEW i \in 1 .. n + 1 PROVE f[i] = IF i = n + 1 THEN {<<>>} ELSE Body(f, i)
    BY <1>6
  <2>1. i # n + 1 => i \in 1 .. n
    BY <1>1
  <2> QED
    BY <2>1, <1>6, <1>7 DEF base
<1>9. PartFn(tab, s) = CHOOSE rest : rest = Fn(rest)
  BY Zenon DEF PartFn, n, Body
<1> DEFINE h == PartFn(tab, s)
<1>10. h = Fn(h)
  <2> HIDE DEF Fn
  <2> QED
    BY <1>8, <1>9
<1>11. \A i \in 1 .. n : i \in 1 .. n + 1 /\ i # n + 1
  BY <1>1
<1>12. h[n + 1] = base
  <2>1. n + 1 \in 1 .. n + 1
    BY <1>1
  <2> HIDE DEF h
  <2> QED
    BY <1>10, <2>1 DEF base
<1>13. \A i \in 1 .. n : h[i] = Body(h, i)
  <2> HIDE DEF h
  <2> QED
    BY <1>10, <1>11
<1>14. h = f
  <2>1. f[n + 1] = h[n + 1]
    BY <1>6, <1>12
  <2>2. \A i \in 1 .. n : (\A j \in i + 1 .. n + 1 : f[j] = h[j]) => f[i] = h[i]
    <3> HIDE DEF h
    <3> QED
      BY <1>2, <1>7, <1>13
  <2>3. DOMAIN h = 1 .. n + 1 /\ h = [i \in 1 .. n + 1 |-> h[i]]
    BY <1>10
  <2> HIDE DEF h
  <2>4. \A i \in 1 .. n + 1 : f[i] = h[i]
    BY <2>1, <2>2, <1>1, RecursionUnique, SMTT(60)
  <2> QED
    BY <2>3, <2>4, <1>6
<1> HIDE DEF h
<1>15. h \in [1 .. n + 1 -> V] /\ h[n + 1] = base /\ \A i \in 1 .. n : h[i] = Body(h, i)
  BY <1>6, <1>12, <1>13, <1>14
<1> QED
  BY <1>15 DEF n, V, Body, base, h

LEMMA PartFnShift ==
    ASSUME NEW C, NEW tab, TextTable(C, tab), NEW s \in Seq(C), NEW m \in 0 .. Len(s)
    PROVE  PartFn(tab, Drop(s, m))[1] = PartFn(tab, s)[m + 1]
<1> DEFINE d == Drop(s, m)
           n == Len(s) - m
           f == PartFn(tab, d)
           g == PartFn(tab, s)
           h == [i \in 1 .. n + 1 |-> g[m + i]]
<1>1. d \in Seq(C) /\ Len(d) = n /\ n \in Nat /\ m + n = Len(s) /\ Len(s) \in Nat /\ m \in Nat
  BY DropProperties
<1>2. f[n + 1] = {<<>>} /\ \A i \in 1 .. n : f[i] = PartBody(tab, d, f, i)
  <2> HIDE DEF d, n
  <2>1. f[Len(d) + 1] = {<<>>} /\ \A i \in 1 .. Len(d) : f[i] = PartBody(tab, d, f, i)
    BY <1>1, PartFnEquations
  <2> QED
    BY <1>1, <2>1
<1>3. g[Len(s) + 1] = {<<>>} /\ \A i \in 1 .. Len(s) : g[i] = PartBody(tab, s, g, i)
  BY PartFnEquations
<1> HIDE DEF f, g
<1>4. h[n + 1] = f[n + 1]
  BY <1>1, <1>2, <1>3
<1>5. ASSUME NEW i \in 1 .. n, \A j \in i + 1 .. n + 1 : h[j] = f[j] PROVE h[i] = f[i]
  <2>1. i \in 1 .. n + 1 /\ m + i \in 1 .. Len(s) /\ n + 1 = Len(s) - m + 1 /\ i + 1 \in Nat
    BY <1>1
  <2>2. \A j \in i + 1 .. Len(s) - m + 1 : f[j] = g[m + j]
    <3>1. \A j \in i + 1 .. n + 1 : j \in 1 .. n + 1
      BY <1>1
    <3>2. \A j \in i + 1 .. n + 1 : h[j] = g[m + j]
      BY <3>1
    <3> QED
      BY <1>5, <3>2
  <2>3. PartBody(tab, d, f, i) = PartBody(tab, s, g, m + i)
    BY <2>2, PartBodyAgrees
  <2>4. g[m + i] = PartBody(tab, s, g, m + i)
    <3> DEFINE j == m + i
    <3>1. j \in 1 .. Len(s)
      BY <2>1
    <3> HIDE DEF j
    <3>2. g[j] = PartBody(tab, s, g, j)
      BY <1>3, <3>1
    <3> QED
      BY <3>2 DEF j
  <2>5. h[i] = g[m + i]
    BY <2>1
  <2> HIDE DEF h, n, d
  <2> QED
    BY <1>2, <2>3, <2>4, <2>5
<1> HIDE DEF n
<1>6. \A i \in 1 .. n + 1 : h[i] = f[i]
  <2> HIDE DEF h
  <2> QED
    BY <1>1, <1>4, <1>5, RecursionUnique
<1>7. h[1] = g[m + 1] /\ 1 \in 1 .. n + 1
  BY <1>1
<1> HIDE DEF h
<1>8. f[1] = g[m + 1]
  BY <1>6, <1>7
<1> QED
  BY <1>8 DEF f, g, d

\* PartlyRestored, unfolded.
LEMMA PartlyUnfold ==
    ASSUME NEW C, NEW tab, TextTable(C, tab), NEW s \in Seq(C)
    PROVE  /\ PartlyRestored(tab, s) \subseteq Seq(C)
           /\ s = <<>> => PartlyRestored(tab, s) = {<<>>}
           /\ s # <<>> => \A t : t \in PartlyRestored(tab, s) <=>
                 \E p, k : Way(tab, s, p, k) /\ \E r \in PartlyRestored(tab, Drop(s, k)) : t = p \o r
<1> DEFINE f == PartFn(tab, s)
           n == Len(s)
<1>1. f \in [1 .. n + 1 -> SUBSET Seq(C)] /\ f[n + 1] = {<<>>} /\ \A i \in 1 .. n : f[i] = PartBody(tab, s, f, i)
  BY PartFnEquations
<1>2. PartlyRestored(tab, s) = f[1]
  BY PartlyIsPartFn
<1>3. n \in Nat /\ (s = <<>> => n = 0) /\ (s # <<>> => n >= 1)
  BY EmptySeq
<1>4. \A k \in 0 .. n : PartlyRestored(tab, Drop(s, k)) = f[k + 1]
  BY PartFnShift, PartlyIsPartFn
<1> HIDE DEF f
<1>5. PartlyRestored(tab, s) \subseteq Seq(C)
  BY <1>1, <1>2, <1>3
<1>6. s = <<>> => PartlyRestored(tab, s) = {<<>>}
  BY <1>1, <1>2, <1>3
<1>7. ASSUME s # <<>>, NEW t
      PROVE  t \in PartlyRestored(tab, s) <=>
                \E p, k : Way(tab, s, p, k) /\ \E r \in PartlyRestored(tab, Drop(s, k)) : t = p \o r
  <2> DEFINE i == 1
  <2>1. i \in 1 .. n /\ i - 1 = 0
    BY <1>3, <1>7
  <2>2. Drop(s, i - 1) = s
    BY <2>1, DropEnds
  <2>3. f[i] = PartBody(tab, s, f, i)
    BY <2>1, <1>1
  <2>4. \A p, k : Way(tab, s, p, k) => f[i + k] = PartlyRestored(tab, Drop(s, k))
    <3> SUFFICES ASSUME NEW p, NEW k, Way(tab, s, p, k) PROVE f[i + k] = PartlyRestored(tab, Drop(s, k))
      OBVIOUS
    <3>1. k \in 1 .. n
      BY <1>7, WayProperties
    <3>2. k \in 0 .. n /\ i + k = k + 1
      BY <3>1, <1>3
    <3> QED
      BY <3>2, <1>4
  <2> HIDE DEF i
  <2>5. t \in PartBody(tab, s, f, i) <=> \E p, k : Way(tab, s, p, k) /\ \E r \in f[i + k] : t = p \o r
    <3>1. t \in PartBody(tab, s, f, i) <=> ByWays(tab, Drop(s, i - 1), f, i, t)
      BY <2>1, PartBodyWays
    <3> QED
      BY <3>1, <2>2 DEF ByWays
  <2>6. t \in PartBody(tab, s, f, i) <=>
           \E p, k : Way(tab, s, p, k) /\ \E r \in PartlyRestored(tab, Drop(s, k)) : t = p \o r
    BY <2>4, <2>5
  <2>7. f[i] = PartlyRestored(tab, s)
    BY <1>2 DEF i
  <2> QED
    BY <2>3, <2>6, <2>7
<1> QED
  BY <1>5, <1>6, <1>7

\* A character is kept, or an alias becomes its original.
Turns(tab, c, g) ==
    \/ Len(c) = 1 /\ g = c
    \/ c \in tab /\ g = Original[c]

LEMMA TurnsProperties ==
    ASSUME NEW C, NEW tab, TextTable(C, tab), NEW c \in Seq(C), NEW g, Turns(tab, c, g)
    PROVE  g \in Seq(C) /\ c # <<>> /\ Len(c) \in Nat \ {0}
<1>1. CASE Len(c) = 1 /\ g = c
  BY <1>1, OneIsNotEmpty
<1>2. CASE c \in tab /\ g = Original[c]
  <2>1. c # <<>> /\ Original[c] \in Seq(C)
    BY <1>2 DEF TextTable
  <2> QED
    BY <1>2, <2>1, EmptySeq
<1> QED
  BY <1>1, <1>2 DEF Turns

\* A partial restoration of a text is a text.
LEMMA PartlyType ==
    ASSUME NEW C, NEW tab, TextTable(C, tab)
    PROVE  /\ PartlyRestored(tab, <<>>) = {<<>>}
           /\ \A s \in Seq(C) : PartlyRestored(tab, s) \subseteq Seq(C)
<1>1. <<>> \in Seq(C)
  OBVIOUS
<1> DEFINE e == <<>>
<1> HIDE DEF e
<1>2. e \in Seq(C) => (e = <<>> => PartlyRestored(tab, e) = {<<>>})
  BY PartlyUnfold
<1> QED
  BY <1>1, <1>2, PartlyUnfold DEF e

\* A beginning that is kept or replaced, before a partial restoration of the rest, gives one of the whole.
LEMMA PartlyIntro ==
    ASSUME NEW C, NEW tab, TextTable(C, tab), NEW c \in Seq(C), NEW r \in Seq(C), NEW g, Turns(tab, c, g),
           NEW y \in PartlyRestored(tab, r)
    PROVE  g \o y \in PartlyRestored(tab, c \o r)
<1> DEFINE s == c \o r
           k == Len(c)
           t == g \o y
<1>1. c # <<>> /\ k \in Nat \ {0} /\ g \in Seq(C)
  BY TurnsProperties
<1>2. s \in Seq(C) /\ Drop(s, k) = r /\ IsPrefix(c, s) /\ Len(s) = k + Len(r) /\ Len(r) \in Nat
  BY DropOfConcat, PrefixOfConcat
<1>3. Way(tab, s, g, k)
  <2>1. CASE Len(c) = 1 /\ g = c
    <3>1. c = <<c[1]>>
      BY <2>1
    <3>2. s[1] = c[1]
      <4> DEFINE i == 1
      <4>1. i \in 1 .. Len(c)
        BY <2>1
      <4> HIDE DEF i, s
      <4>2. c[i] = s[i]
        BY <4>1, <1>2, PrefixElements
      <4> QED
        BY <4>2 DEF i
    <3> HIDE DEF s
    <3> QED
      BY <2>1, <3>1, <3>2 DEF Way
  <2>2. CASE c \in tab /\ g = Original[c]
    <3> HIDE DEF s
    <3> QED
      BY <2>2, <1>2 DEF Way, Found
  <2> QED
    BY <2>1, <2>2 DEF Turns
<1> HIDE DEF s, k
<1>4. s # <<>>
  BY <1>1, <1>2, EmptySeq
<1>5. t \in PartlyRestored(tab, s) <=>
         \E p, j : Way(tab, s, p, j) /\ \E x \in PartlyRestored(tab, Drop(s, j)) : t = p \o x
  BY <1>2, <1>4, PartlyUnfold, ZenonT(60)
<1>6. \E p, j : Way(tab, s, p, j) /\ \E x \in PartlyRestored(tab, Drop(s, j)) : t = p \o x
  <2>1. y \in PartlyRestored(tab, Drop(s, k)) /\ t = g \o y
    BY <1>2
  <2> HIDE DEF t
  <2> QED
    BY <1>3, <2>1, Zenon
<1> QED
  BY <1>5, <1>6 DEF s

\* A partial restoration of w begins with what the beginning c of w turns into.
FirstTurn(C, tab, w, x) ==
    \E c, r, g, y \in Seq(C) :
        /\ w = c \o r /\ Len(r) < Len(w) /\ Turns(tab, c, g)
        /\ x = g \o y /\ y \in PartlyRestored(tab, r)

\* There is no other way to get a partial restoration of a text.
LEMMA PartlyCases ==
    ASSUME NEW C, NEW tab, TextTable(C, tab), NEW w \in Seq(C), NEW x \in PartlyRestored(tab, w)
    PROVE  (w = <<>> /\ x = <<>>) \/ FirstTurn(C, tab, w, x)
<1>1. CASE w = <<>>
  BY <1>1, PartlyType
<1>2. CASE w # <<>>
  <2>1. PICK p, k : Way(tab, w, p, k) /\ \E y \in PartlyRestored(tab, Drop(w, k)) : x = p \o y
    BY <1>2, PartlyUnfold
  <2>2. PICK y \in PartlyRestored(tab, Drop(w, k)) : x = p \o y
    BY <2>1
  <2>3. p \in Seq(C) /\ k \in 1 .. Len(w)
    BY <1>2, <2>1, WayProperties
  <2> DEFINE c == Take(w, k)
             r == Drop(w, k)
  <2>4. k \in 0 .. Len(w) /\ Len(w) \in Nat
    BY <2>3
  <2>5. c \in Seq(C) /\ Len(c) = k /\ \A i \in 1 .. k : c[i] = w[i]
    BY <2>4, TakeProperties
  <2>6. r \in Seq(C) /\ Len(r) = Len(w) - k /\ c \o r = w
    BY <2>4, DropProperties, TakeDrop
  <2>7. Turns(tab, c, p)
    <3>1. CASE p = <<w[1]>> /\ k = 1
      <4>1. Len(c) = 1 /\ c[1] = w[1]
        BY <2>5, <3>1
      <4> HIDE DEF c
      <4>2. c = <<c[1]>>
        BY <2>5, <4>1
      <4> QED
        BY <3>1, <4>1, <4>2 DEF Turns
    <3>2. ASSUME NEW a \in Found(tab, w), p = Original[a], k = Len(a) PROVE Turns(tab, c, p)
      <4>1. a \in tab /\ IsPrefix(a, w) /\ a \in Seq(C)
        BY DEF Found, TextTable
      <4>2. Take(w, k) = a
        BY <4>1, <3>2, SubSeqFull DEF Take, IsPrefix
      <4> QED
        BY <4>1, <4>2, <3>2 DEF Turns
    <3> QED
      BY <2>1, <3>1, <3>2 DEF Way
  <2> HIDE DEF c, r
  <2>8. y \in PartlyRestored(tab, r) /\ y \in Seq(C)
    BY <2>2, <2>6, PartlyType DEF r
  <2>9. Len(r) < Len(w)
    BY <2>3, <2>4, <2>6
  <2> QED
    BY <2>2, <2>3, <2>5, <2>6, <2>7, <2>8, <2>9 DEF FirstTurn
<1> QED
  BY <1>1, <1>2

\* Partial restorations of two texts make one of the whole.
LEMMA PartlyConcat ==
    ASSUME NEW C, NEW tab, TextTable(C, tab), NEW t \in Seq(C), NEW z \in PartlyRestored(tab, t),
           NEW s \in Seq(C), NEW v \in PartlyRestored(tab, s)
    PROVE  v \o z \in PartlyRestored(tab, s \o t)
<1> DEFINE S == {w \in Seq(C) : \A x \in PartlyRestored(tab, w) : x \o z \in PartlyRestored(tab, w \o t)}
<1>0. z \in Seq(C)
  BY PartlyType
<1>1. ASSUME NEW w \in Seq(C), \A u \in Seq(C) : Len(u) < Len(w) => u \in S PROVE w \in S
  <2> SUFFICES ASSUME NEW x \in PartlyRestored(tab, w) PROVE x \o z \in PartlyRestored(tab, w \o t)
    OBVIOUS
  <2>1. CASE w = <<>> /\ x = <<>>
    <3>1. <<>> \o z = z /\ <<>> \o t = t
      BY <1>0, ConcatEmptySeq
    <3> QED
      BY <2>1, <3>1
  <2>2. ASSUME FirstTurn(C, tab, w, x) PROVE x \o z \in PartlyRestored(tab, w \o t)
    <3>1. PICK c, r, g, y \in Seq(C) : /\ w = c \o r /\ Len(r) < Len(w) /\ Turns(tab, c, g)
                                       /\ x = g \o y /\ y \in PartlyRestored(tab, r)
      BY <2>2 DEF FirstTurn
    <3> DEFINE rt == r \o t
               yz == y \o z
    <3>2. yz \in PartlyRestored(tab, rt) /\ rt \in Seq(C)
      BY <1>1, <3>1
    <3>3. Associates(c, r, t) /\ Associates(g, y, z)
      BY <1>0, <3>1, Associativity
    <3>4. w \o t = c \o rt /\ x \o z = g \o yz
      BY <3>1, <3>3 DEF Associates
    <3> HIDE DEF rt, yz
    <3>5. g \o yz \in PartlyRestored(tab, c \o rt)
      BY <3>1, <3>2, PartlyIntro
    <3> QED
      BY <3>4, <3>5
  <2> HIDE DEF S
  <2> QED
    BY <2>1, <2>2, PartlyCases
<1>2. \A w \in Seq(C) : w \in S
  <2> HIDE DEF S
  <2> QED
    BY <1>1, TextInduction
<1> QED
  BY <1>2

\* Restoring a text is a partial restoration, and so is leaving it as it is.
LEMMA RestoreIsPartly ==
    ASSUME NEW C, NEW tab, TextTable(C, tab), NEW s \in Seq(C)
    PROVE  Restore(tab, s) \in PartlyRestored(tab, s)
<1> DEFINE S == {w \in Seq(C) : Restore(tab, w) \in PartlyRestored(tab, w)}
<1>1. <<>> \in S
  <2>1. <<>> \in Seq(C)
    OBVIOUS
  <2> QED
    BY <2>1, RestoreType, PartlyType
<1>2. ASSUME NEW h \in Seq(C), NEW r \in Seq(C), Len(h) = 1, NoMatch(tab, h \o r), r \in S PROVE h \o r \in S
  <2>1. h \o r \in Seq(C)
    OBVIOUS
  <2>2. Restore(tab, h \o r) = h \o Restore(tab, r)
    BY <1>2, RestoreCharacter
  <2>3. Turns(tab, h, h)
    BY <1>2 DEF Turns
  <2> DEFINE rr == Restore(tab, r)
  <2>4. rr \in PartlyRestored(tab, r)
    BY <1>2
  <2> HIDE DEF rr
  <2>5. h \o rr \in PartlyRestored(tab, h \o r)
    BY <2>3, <2>4, PartlyIntro
  <2> QED
    BY <2>1, <2>2, <2>5 DEF rr
<1>3. ASSUME NEW a \in tab, NEW r \in Seq(C), IsMatch(tab, a, a \o r), r \in S PROVE a \o r \in S
  <2>1. a \o r \in Seq(C) /\ a \in Seq(C)
    BY DEF TextTable
  <2>2. Restore(tab, a \o r) = Original[a] \o Restore(tab, r)
    BY <1>3, RestoreMatch
  <2> DEFINE rr == Restore(tab, r)
             o == Original[a]
  <2>3. Turns(tab, a, o)
    BY DEF Turns
  <2>4. rr \in PartlyRestored(tab, r)
    BY <1>3
  <2> HIDE DEF rr, o
  <2>5. o \o rr \in PartlyRestored(tab, a \o r)
    BY <2>1, <2>3, <2>4, PartlyIntro
  <2> QED
    BY <2>1, <2>2, <2>5 DEF rr, o
<1>4. \A w \in Seq(C) : w \in S
  <2> HIDE DEF S
  <2> QED
    BY <1>1, <1>2, <1>3, RestoreInduction
<1> QED
  BY <1>4

\* A text left as it is counts as a partial restoration.
LEMMA UnchangedIsPartly ==
    ASSUME NEW C, NEW tab, TextTable(C, tab), NEW s \in Seq(C)
    PROVE  s \in PartlyRestored(tab, s)
<1> DEFINE S == {w \in Seq(C) : w \in PartlyRestored(tab, w)}
<1>1. ASSUME NEW w \in Seq(C), \A u \in Seq(C) : Len(u) < Len(w) => u \in S PROVE w \in S
  <2>1. CASE w = <<>>
    BY <2>1, PartlyType
  <2>2. CASE w # <<>>
    <3> DEFINE h == <<w[1]>>
               r == Drop(w, 1)
    <3>1. w = h \o r /\ h \in Seq(C) /\ r \in Seq(C) /\ Len(r) < Len(w) /\ Len(h) = 1
      BY <2>2, FirstAndRest
    <3> HIDE DEF h, r
    <3>2. Turns(tab, h, h) /\ r \in PartlyRestored(tab, r)
      BY <1>1, <3>1 DEF Turns
    <3>3. h \o r \in PartlyRestored(tab, h \o r)
      BY <3>1, <3>2, PartlyIntro
    <3> QED
      BY <3>1, <3>3
  <2> QED
    BY <2>1, <2>2
<1>2. \A w \in Seq(C) : w \in S
  <2> HIDE DEF S
  <2> QED
    BY <1>1, TextInduction
<1> QED
  BY <1>2

\* More aliases, more partial restorations.
LEMMA PartlyMonotone ==
    ASSUME NEW C, NEW tab, NEW more, TextTable(C, more), tab \subseteq more, NEW s \in Seq(C)
    PROVE  PartlyRestored(tab, s) \subseteq PartlyRestored(more, s)
<1> DEFINE S == {w \in Seq(C) : PartlyRestored(tab, w) \subseteq PartlyRestored(more, w)}
<1>0. TextTable(C, tab)
  BY DEF TextTable
<1>1. ASSUME NEW w \in Seq(C), \A u \in Seq(C) : Len(u) < Len(w) => u \in S PROVE w \in S
  <2> SUFFICES ASSUME NEW x \in PartlyRestored(tab, w) PROVE x \in PartlyRestored(more, w)
    OBVIOUS
  <2>1. CASE w = <<>> /\ x = <<>>
    BY <2>1, PartlyType
  <2>2. ASSUME FirstTurn(C, tab, w, x) PROVE x \in PartlyRestored(more, w)
    <3>1. PICK c, r, g, y \in Seq(C) : /\ w = c \o r /\ Len(r) < Len(w) /\ Turns(tab, c, g)
                                       /\ x = g \o y /\ y \in PartlyRestored(tab, r)
      BY <2>2 DEF FirstTurn
    <3>2. y \in PartlyRestored(more, r) /\ Turns(more, c, g)
      BY <1>1, <3>1 DEF Turns
    <3>3. g \o y \in PartlyRestored(more, c \o r)
      BY <3>1, <3>2, PartlyIntro
    <3> QED
      BY <3>1, <3>3
  <2> HIDE DEF S
  <2> QED
    BY <1>0, <2>1, <2>2, PartlyCases
<1>2. \A w \in Seq(C) : w \in S
  <2> HIDE DEF S
  <2> QED
    BY <1>1, TextInduction
<1> QED
  BY <1>2

\* A beginning t of a partial restoration of w that w begins with as well.
KeptBeginning(C, tab, w, t, r) == \E z \in Seq(C) : w = t \o z /\ r \in PartlyRestored(tab, z)

\* A text without characters of an original that a partial restoration begins with was there
\* before.
LEMMA InertKept ==
    ASSUME NEW C, NEW tab, TextTable(C, tab), NEW w \in Seq(C), NEW t \in Seq(C), NEW r \in Seq(C),
           Inert(tab, t), t \o r \in PartlyRestored(tab, w)
    PROVE  KeptBeginning(C, tab, w, t, r)
<1> DEFINE S == {x \in Seq(C) : \A k, l \in Seq(C) :
                    Inert(tab, k) /\ k \o l \in PartlyRestored(tab, x) => KeptBeginning(C, tab, x, k, l)}
<1>1. ASSUME NEW x \in Seq(C), \A u \in Seq(C) : Len(u) < Len(x) => u \in S PROVE x \in S
  <2> SUFFICES ASSUME NEW k \in Seq(C), NEW l \in Seq(C), Inert(tab, k), k \o l \in PartlyRestored(tab, x)
               PROVE  KeptBeginning(C, tab, x, k, l)
    OBVIOUS
  <2>1. CASE k = <<>>
    <3>1. k \o l = l /\ k \o x = x
      BY <2>1, ConcatEmptySeq
    <3> QED
      BY <3>1 DEF KeptBeginning
  <2> DEFINE kl == k \o l
  <2>2. kl \in Seq(C) /\ (k # <<>> => kl # <<>>)
    BY ConcatEqualIffEmpty
  <2>3. ASSUME k # <<>>, FirstTurn(C, tab, x, kl) PROVE KeptBeginning(C, tab, x, k, l)
    <3> HIDE DEF S
    <3>1. PICK c, q, g, y \in Seq(C) : /\ x = c \o q /\ Len(q) < Len(x) /\ Turns(tab, c, g)
                                       /\ kl = g \o y /\ y \in PartlyRestored(tab, q)
      BY <2>3 DEF FirstTurn
    <3>2. IsPrefix(k, g \o y)
      BY <3>1, PrefixOfConcat
    <3>3. ~(c \in tab /\ g = Original[c])
      <4> SUFFICES ASSUME c \in tab, g = Original[c] PROVE FALSE
        OBVIOUS
      <4>1. g # <<>> /\ ToSet(g) \cap ToSet(k) = {}
        BY DEF Inert
      <4> QED
        BY <4>1, <2>3, <3>1, <3>2, FirstShared
    <3>4. Len(c) = 1 /\ g = c
      BY <3>1, <3>3 DEF Turns
    <3>5. SameText(c, y, k, l)
      BY <3>1, <3>4 DEF SameText
    <3>6. Len(k) \in Nat \ {0} /\ Len(c) <= Len(k)
      BY <2>3, <3>4, EmptySeq
    <3>7. CutAfter(C, c, y, k, l)
      BY <3>5, <3>6, TwoCuts
    <3>8. PICK m \in Seq(C) : k = c \o m /\ y = m \o l
      BY <3>7 DEF CutAfter
    <3>9. Inert(tab, m)
      <4>1. ToSet(m) \subseteq ToSet(k)
        BY <3>1, <3>8, CharactersOfParts
      <4> QED
        BY <4>1 DEF Inert
    <3>10. KeptBeginning(C, tab, q, m, l)
      <4>1. q \in S
        BY <1>1, <3>1
      <4> QED
        BY <4>1, <3>1, <3>8, <3>9 DEF S
    <3>11. PICK z \in Seq(C) : q = m \o z /\ l \in PartlyRestored(tab, z)
      BY <3>10 DEF KeptBeginning
    <3>12. Associates(c, m, z)
      BY <3>1, <3>8, <3>11, Associativity
    <3>13. x = k \o z
      BY <3>1, <3>8, <3>11, <3>12 DEF Associates
    <3> QED
      BY <3>11, <3>13 DEF KeptBeginning
  <2> HIDE DEF S
  <2>4. kl \in PartlyRestored(tab, x)
    OBVIOUS
  <2> HIDE DEF kl
  <2>5. (x = <<>> /\ kl = <<>>) \/ FirstTurn(C, tab, x, kl)
    BY <2>4, PartlyCases
  <2> QED
    BY <2>1, <2>2, <2>3, <2>5
<1>2. \A x \in Seq(C) : x \in S
  <2> HIDE DEF S
  <2> QED
    BY <1>1, TextInduction
<1> QED
  BY <1>2

\* An alias in a partial restoration may still be replaced.
LEMMA OneMoreRestored ==
    ASSUME NEW C, NEW tab, TextTable(C, tab), NEW a \in tab, Inert(tab, a), NEW r \in Seq(C),
           NEW p \in Seq(C), NEW w \in Seq(C), p \o (a \o r) \in PartlyRestored(tab, w)
    PROVE  p \o (Original[a] \o r) \in PartlyRestored(tab, w)
<1> DEFINE o == Original[a]
           ar == a \o r
           or == o \o r
           S == {x \in Seq(C) : \A k \in Seq(C) :
                    k \o ar \in PartlyRestored(tab, x) => k \o or \in PartlyRestored(tab, x)}
<1>0. a \in Seq(C) /\ a # <<>> /\ ar \in Seq(C) /\ o \in Seq(C) /\ or \in Seq(C) /\ ar # <<>>
  BY ConcatEqualIffEmpty DEF TextTable
<1>0a. Turns(tab, a, o)
  BY DEF Turns
<1>1. ASSUME NEW x \in Seq(C), \A u \in Seq(C) : Len(u) < Len(x) => u \in S PROVE x \in S
  <2> SUFFICES ASSUME NEW k \in Seq(C), k \o ar \in PartlyRestored(tab, x)
               PROVE  k \o or \in PartlyRestored(tab, x)
    OBVIOUS
  <2>1. CASE k = <<>>
    <3>1. ar \in PartlyRestored(tab, x) /\ k \o or = or
      <4> HIDE DEF ar, or
      <4> QED
        BY <2>1, <1>0, ConcatEmptySeq
    <3>2. KeptBeginning(C, tab, x, a, r)
      BY <3>1, <1>0, InertKept
    <3>3. PICK z \in Seq(C) : x = a \o z /\ r \in PartlyRestored(tab, z)
      BY <3>2 DEF KeptBeginning
    <3>4. or \in PartlyRestored(tab, x)
      <4> HIDE DEF o
      <4> QED
        BY <1>0, <1>0a, <3>3, PartlyIntro
    <3> QED
      BY <3>1, <3>4
  <2> DEFINE kar == k \o ar
  <2> HIDE DEF ar, or
  <2>2. kar \in Seq(C) /\ kar # <<>>
    BY <1>0, ConcatEqualIffEmpty
  <2>3. ASSUME k # <<>>, FirstTurn(C, tab, x, kar) PROVE k \o or \in PartlyRestored(tab, x)
    <3> HIDE DEF S
    <3>1. PICK c, q, g, y \in Seq(C) : /\ x = c \o q /\ Len(q) < Len(x) /\ Turns(tab, c, g)
                                       /\ kar = g \o y /\ y \in PartlyRestored(tab, q)
      BY <2>3 DEF FirstTurn
    <3>2. SameText(g, y, k, ar)
      BY <3>1 DEF SameText
    <3>3. ~CutBefore(C, g, y, k, ar)
      <4> SUFFICES ASSUME CutBefore(C, g, y, k, ar) PROVE FALSE
        OBVIOUS
      <4>1. PICK z \in Seq(C) : z # <<>> /\ g = k \o z /\ ar = z \o y
        BY DEF CutBefore
      <4>2. CASE Len(c) = 1 /\ g = c
        <5>1. Len(k) \in Nat \ {0} /\ Len(z) \in Nat \ {0}
          BY <2>3, <4>1, EmptySeq
        <5>2. Len(g) = Len(k) + Len(z)
          BY <4>1, DropOfConcat
        <5>3. Len(g) = 1
          BY <4>2
        <5> DEFINE m == Len(k)
                   n == Len(z)
                   l == Len(g)
        <5>4. m \in Nat \ {0} /\ n \in Nat \ {0} /\ l = m + n /\ l = 1
          BY <5>1, <5>2, <5>3
        <5> HIDE DEF m, n, l
        <5> QED
          BY <5>4
      <4>3. CASE c \in tab /\ g = Original[c]
        <5>1. ToSet(g) \cap ToSet(a) = {}
          BY <4>3 DEF Inert
        <5>2. ToSet(z) \subseteq ToSet(g)
          BY <4>1, CharactersOfParts
        <5>3. IsPrefix(a, z \o y)
          BY <1>0, <4>1, PrefixOfConcat DEF ar
        <5>4. ToSet(z) \cap ToSet(a) # {}
          BY <1>0, <3>1, <4>1, <5>3, FirstShared
        <5> QED
          BY <5>1, <5>2, <5>4
      <4> QED
        BY <3>1, <4>2, <4>3 DEF Turns
    <3>4. CutAfter(C, g, y, k, ar)
      BY <1>0, <3>1, <3>2, <3>3, TwoCuts
    <3>5. PICK m \in Seq(C) : k = g \o m /\ y = m \o ar
      BY <3>4 DEF CutAfter
    <3> DEFINE mo == m \o or
    <3>6. mo \in PartlyRestored(tab, q)
      <4>1. q \in S
        BY <1>1, <3>1
      <4> QED
        BY <4>1, <3>1, <3>5 DEF S
    <3>7. g \o mo \in PartlyRestored(tab, x)
      <4> HIDE DEF mo
      <4> QED
        BY <3>1, <3>6, PartlyIntro
    <3>8. Associates(g, m, or)
      BY <1>0, <3>1, <3>5, Associativity
    <3>9. k \o or = g \o mo
      BY <3>5, <3>8 DEF Associates
    <3> QED
      BY <3>7, <3>9
  <2>4. kar \in PartlyRestored(tab, x)
    OBVIOUS
  <2> HIDE DEF kar, S
  <2>5. (x = <<>> /\ kar = <<>>) \/ FirstTurn(C, tab, x, kar)
    BY <2>4, PartlyCases
  <2> QED
    BY <2>1, <2>2, <2>3, <2>5
<1>2. \A x \in Seq(C) : x \in S
  <2> HIDE DEF S
  <2> QED
    BY <1>1, TextInduction
<1> QED
  BY <1>2

\* A partial restoration whose end is restored is one still.
LEMMA EndRestored ==
    ASSUME NEW C, NEW tab, TextTable(C, tab), \A a \in tab : Inert(tab, a), NEW w \in Seq(C),
           NEW v \in Seq(C), NEW p \in Seq(C), p \o v \in PartlyRestored(tab, w)
    PROVE  p \o Restore(tab, v) \in PartlyRestored(tab, w)
<1> DEFINE R(x) == Restore(tab, x)
           S == {x \in Seq(C) : \A k \in Seq(C) :
                    k \o x \in PartlyRestored(tab, w) => k \o R(x) \in PartlyRestored(tab, w)}
<1>0. R(<<>>) = <<>> /\ (\A x \in Seq(C) : R(x) \in Seq(C)) /\ <<>> \in Seq(C)
  BY RestoreType
<1>1. <<>> \in S
  BY <1>0
<1>2. ASSUME NEW h \in Seq(C), NEW r \in Seq(C), Len(h) = 1, NoMatch(tab, h \o r), r \in S PROVE h \o r \in S
  <2> DEFINE hr == h \o r
             rr == R(r)
  <2>0. hr \in Seq(C) /\ rr \in Seq(C)
    BY <1>0
  <2>1. R(hr) = h \o rr
    BY <1>2, RestoreCharacter
  <2> SUFFICES ASSUME NEW k \in Seq(C), k \o hr \in PartlyRestored(tab, w)
               PROVE  k \o R(hr) \in PartlyRestored(tab, w)
    BY <2>0
  <2> DEFINE kh == k \o h
  <2> HIDE DEF rr
  <2>2. Associates(k, h, r) /\ Associates(k, h, rr) /\ kh \in Seq(C)
    BY <2>0, Associativity
  <2>3. kh \o r \in PartlyRestored(tab, w)
    BY <2>2 DEF Associates
  <2>4. kh \o rr \in PartlyRestored(tab, w)
    <3> HIDE DEF kh
    <3> QED
      BY <1>2, <2>2, <2>3 DEF rr
  <2> QED
    BY <2>1, <2>2, <2>4 DEF Associates
<1>3. ASSUME NEW a \in tab, NEW r \in Seq(C), IsMatch(tab, a, a \o r), r \in S PROVE a \o r \in S
  <2> DEFINE ar == a \o r
             rr == R(r)
             o == Original[a]
  <2>0. a \in Seq(C) /\ ar \in Seq(C) /\ rr \in Seq(C) /\ o \in Seq(C) /\ Inert(tab, a)
    BY <1>0 DEF TextTable
  <2>1. R(ar) = o \o rr
    BY <1>3, RestoreMatch
  <2> SUFFICES ASSUME NEW k \in Seq(C), k \o ar \in PartlyRestored(tab, w)
               PROVE  k \o R(ar) \in PartlyRestored(tab, w)
    BY <2>0
  <2> DEFINE ko == k \o o
  <2>2. k \o (o \o r) \in PartlyRestored(tab, w)
    BY <2>0, OneMoreRestored
  <2> HIDE DEF rr, o, ar
  <2>3. Associates(k, o, r) /\ Associates(k, o, rr) /\ ko \in Seq(C)
    BY <2>0, Associativity
  <2>4. ko \o r \in PartlyRestored(tab, w)
    BY <2>2, <2>3 DEF Associates
  <2>5. ko \o rr \in PartlyRestored(tab, w)
    <3> HIDE DEF ko
    <3> QED
      BY <1>3, <2>3, <2>4 DEF rr
  <2> QED
    BY <2>1, <2>3, <2>5 DEF Associates
<1>4. \A x \in Seq(C) : x \in S
  <2> HIDE DEF S
  <2> QED
    BY <1>1, <1>2, <1>3, RestoreInduction
<1> QED
  BY <1>4

-------------------------------------------------------------------------------
\* The byte stream: UTF-8, and its steps.

\* The characters of s from i + 1 to j.
Cut(s, i, j) == SubSeq(s, i + 1, j)

LEMMA CutProperties ==
    ASSUME NEW C, NEW s \in Seq(C), NEW j \in 0 .. Len(s), NEW i \in 0 .. j
    PROVE  /\ Cut(s, i, j) \in Seq(C)
           /\ Len(Cut(s, i, j)) = j - i
           /\ \A k \in 1 .. j - i : Cut(s, i, j)[k] = s[i + k]
<1>1. Len(s) \in Nat /\ i \in Nat /\ j \in Nat /\ i <= j /\ j <= Len(s)
  OBVIOUS
<1>2. \A k \in i + 1 .. j : k \in 1 .. Len(s)
  BY <1>1
<1>3. /\ SubSeq(s, i + 1, j) \in Seq(C)
      /\ Len(SubSeq(s, i + 1, j)) = IF i + 1 <= j THEN j - (i + 1) + 1 ELSE 0
      /\ \A k \in 1 .. j - (i + 1) + 1 : SubSeq(s, i + 1, j)[k] = s[i + 1 + k - 1]
  BY <1>1, <1>2, SubSeqProperties
<1> DEFINE c == Cut(s, i, j)
<1>4. c \in Seq(C) /\ Len(c) = j - i
  BY <1>1, <1>3 DEF Cut
<1>5. ASSUME NEW k \in 1 .. j - i PROVE c[k] = s[i + k]
  <2>1. k \in 1 .. j - (i + 1) + 1 /\ i + 1 + k - 1 = i + k
    BY <1>1
  <2>2. SubSeq(s, i + 1, j)[k] = s[i + 1 + k - 1]
    BY <1>3, <2>1
  <2> QED
    BY <2>1, <2>2 DEF Cut
<1> QED
  BY <1>4, <1>5

LEMMA CutEnds ==
    ASSUME NEW C, NEW s \in Seq(C)
    PROVE  Cut(s, 0, Len(s)) = s /\ Cut(s, 0, 0) = <<>>
  BY SubSeqFull, SubSeqEmpty DEF Cut

LEMMA CutConcat ==
    ASSUME NEW C, NEW s \in Seq(C), NEW m \in 0 .. Len(s), NEW j \in 0 .. m, NEW i \in 0 .. j
    PROVE  Cut(s, i, m) = Cut(s, i, j) \o Cut(s, j, m)
<1> DEFINE a == Cut(s, i, j)
           b == Cut(s, j, m)
           c == Cut(s, i, m)
           ab == a \o b
<1>1. i \in Nat /\ j \in Nat /\ m \in Nat /\ i <= j /\ j <= m /\ m <= Len(s) /\ Len(s) \in Nat
  OBVIOUS
<1>2. i \in 0 .. m /\ j \in 0 .. Len(s)
  BY <1>1
<1>3. a \in Seq(C) /\ Len(a) = j - i /\ \A k \in 1 .. j - i : a[k] = s[i + k]
  BY <1>2, CutProperties
<1>4. b \in Seq(C) /\ Len(b) = m - j /\ \A k \in 1 .. m - j : b[k] = s[j + k]
  BY CutProperties
<1>5. c \in Seq(C) /\ Len(c) = m - i /\ \A k \in 1 .. m - i : c[k] = s[i + k]
  BY <1>2, CutProperties
<1> HIDE DEF a, b, c
<1>6. ab \in Seq(C) /\ Len(ab) = (j - i) + (m - j)
  BY <1>3, <1>4, ConcatProperties, ZenonT(60)
<1>7. ASSUME NEW k \in 1 .. m - i PROVE ab[k] = c[k]
  <2>1. CASE k <= j - i
    <3>1. k \in 1 .. j - i /\ k \in 1 .. Len(a) + Len(b) /\ k <= Len(a)
      BY <1>1, <1>3, <1>4, <2>1
    <3>2. ab[k] = a[k]
      BY <3>1, <1>3, <1>4, ConcatProperties, SMTT(60)
    <3> QED
      BY <3>1, <3>2, <1>3, <1>5
  <2>2. CASE ~(k <= j - i)
    <3> DEFINE l == k - (j - i)
    <3>1. l \in 1 .. m - j /\ k \in 1 .. Len(a) + Len(b) /\ ~(k <= Len(a)) /\ k - Len(a) = l /\ j + l = i + k
      BY <1>1, <1>3, <1>4, <2>2
    <3>2. ab[k] = b[k - Len(a)]
      BY <3>1, <1>3, <1>4, ConcatProperties
    <3> HIDE DEF l, ab
    <3>3. ab[k] = b[l]
      BY <3>1, <3>2
    <3>4. b[l] = s[i + k]
      <4>1. b[l] = s[j + l]
        BY <3>1, <1>4
      <4> QED
        BY <4>1, <3>1
    <3> QED
      BY <3>3, <3>4, <1>5
  <2> QED
    BY <2>1, <2>2
<1>8. Len(ab) = Len(c) /\ Len(c) = m - i
  BY <1>1, <1>5, <1>6
<1> HIDE DEF ab
<1>9. ab = c
  <2>1. \A k \in 1 .. Len(ab) : ab[k] = c[k]
    BY <1>7, <1>8
  <2> QED
    BY <1>5, <1>6, <1>8, <2>1, SeqEqual
<1> QED
  BY <1>9 DEF ab, a, b, c

\* The two parts of a part.
LEMMA CutParts ==
    ASSUME NEW C, NEW s \in Seq(C), NEW m \in 0 .. Len(s), NEW i \in 0 .. m, NEW k \in 0 .. m - i
    PROVE  /\ Take(Cut(s, i, m), k) = Cut(s, i, i + k)
           /\ Drop(Cut(s, i, m), k) = Cut(s, i + k, m)
<1> DEFINE j == i + k
           a == Cut(s, i, j)
           b == Cut(s, j, m)
           c == Cut(s, i, m)
<1>1. i \in Nat /\ m \in Nat /\ k \in Nat /\ j \in 0 .. m /\ i \in 0 .. j /\ j - i = k /\ j \in 0 .. Len(s)
  OBVIOUS
<1> HIDE DEF j
<1>2. a \in Seq(C) /\ Len(a) = k /\ b \in Seq(C) /\ c \in Seq(C)
  BY <1>1, CutProperties
<1>3. c = a \o b
  BY <1>1, CutConcat
<1> HIDE DEF a, b, c
<1>4. Drop(a \o b, Len(a)) = b
  BY <1>2, DropOfConcat
<1>5. Drop(c, k) = b
  BY <1>2, <1>3, <1>4
<1>6. Take(c, k) = a
  <2>1. IsPrefix(a, a \o b)
    BY <1>2, PrefixOfConcat
  <2>2. SubSeq(a, 1, Len(a)) = a
    BY <1>2, SubSeqFull
  <2> QED
    BY <2>1, <2>2, <1>2, <1>3 DEF IsPrefix, Take
<1> QED
  BY <1>5, <1>6 DEF a, b, c, j

\* No alias of tbl begins in em when y follows it.
CleanBefore(C, tbl, em, y) ==
    \A p, q \in Seq(C) : em = p \o q /\ q # <<>> => NoMatch(tbl, q \o y)

\* None appears when the restoration of the next text is appended.
LEMMA CleanStep ==
    ASSUME NEW C, NEW tab, TextTable(C, tab), \A a \in tab : Inert(tab, a),
           NEW tbl, tbl \subseteq tab, NEW em \in Seq(C), NEW u \in Seq(C), NEW y \in Seq(C),
           NoSpan(C, tab, u, y), CleanBefore(C, tbl, em, u \o y)
    PROVE  CleanBefore(C, tbl, em \o Restore(tab, u), y)
<1> DEFINE ru == Restore(tab, u)
           uy == u \o y
<1>1. ru \in Seq(C) /\ uy \in Seq(C)
  BY RestoreType
<1> SUFFICES ASSUME NEW p \in Seq(C), NEW q \in Seq(C), em \o ru = p \o q, q # <<>>, NEW a \in tbl
             PROVE  ~IsPrefix(a, q \o y)
  BY DEF CleanBefore, NoMatch
<1>2. a \in tab /\ a \in Seq(C) /\ Len(a) \in Nat
  BY DEF TextTable
<1>3. \A k, l \in Seq(C) : ru = k \o l /\ l # <<>> => NoMatch(tab, l \o y)
  BY NoAliasLeft
<1> DEFINE ruy == ru \o y
<1>4. ruy \in Seq(C)
  BY <1>1
<1>5. \A t \in Seq(C) : Inert(tab, t) /\ IsPrefix(t, ruy) => IsPrefix(t, uy)
  BY InertPrefix
<1>6. SameText(p, q, em, ru)
  BY DEF SameText
<1> HIDE DEF ru, uy
<1>7. CASE CutBefore(C, p, q, em, ru)
  <2>1. PICK z \in Seq(C) : ru = z \o q
    BY <1>7 DEF CutBefore
  <2> QED
    BY <1>2, <1>3, <2>1 DEF NoMatch
<1>8. CASE CutAfter(C, p, q, em, ru)
  <2>1. PICK z \in Seq(C) : em = p \o z /\ q = z \o ru
    BY <1>8 DEF CutAfter
  <2>2. CASE z = <<>>
    <3>1. q = ru /\ ru = <<>> \o ru /\ <<>> \in Seq(C)
      BY <1>1, <2>1, <2>2, ConcatEmptySeq
    <3> QED
      BY <1>1, <1>2, <1>3, <3>1 DEF NoMatch
  <2>3. CASE z # <<>>
    <3> SUFFICES ASSUME IsPrefix(a, q \o y) PROVE FALSE
      OBVIOUS
    <3>1. Associates(z, ru, y)
      BY <1>1, <2>1, Associativity
    <3>2. IsPrefix(a, z \o ruy)
      BY <2>1, <3>1 DEF Associates
    <3> HIDE DEF ruy
    <3>3. NoMatch(tbl, z \o uy)
      BY <2>1, <2>3 DEF CleanBefore, uy
    <3>4. ~IsPrefix(a, z \o uy)
      BY <3>3 DEF NoMatch
    <3>5. CASE Len(a) <= Len(z)
      <4>1. IsPrefix(a, z)
        BY <1>2, <1>4, <2>1, <3>2, <3>5, PrefixOfConcat
      <4> QED
        BY <1>1, <1>2, <2>1, <3>4, <4>1, PrefixOfConcat
    <3>6. CASE ~(Len(a) <= Len(z))
      <4>1. Len(z) <= Len(a)
        BY <1>2, <2>1, <3>6
      <4>2. PICK x \in Seq(C) : a = z \o x /\ IsPrefix(x, ruy) /\ ToSet(x) \subseteq ToSet(a)
        BY <1>2, <1>4, <2>1, <3>2, <4>1, PrefixBeyond, ZenonT(60)
      <4>3. Inert(tab, x)
        BY <1>2, <4>2 DEF Inert
      <4>4. IsPrefix(x, uy)
        BY <1>5, <4>2, <4>3
      <4>5. IsPrefix(a, z \o uy)
        BY <1>1, <2>1, <4>2, <4>4, PrefixCancel
      <4> QED
        BY <3>4, <4>5
    <3> QED
      BY <3>5, <3>6
  <2> QED
    BY <2>2, <2>3
<1> QED
  BY <1>1, <1>6, <1>7, <1>8, TwoCuts

-----------------------------------------------------------------------------
\* Valid UTF-8, stated of the bytes.
Valid(bytes, n) ==
    \A i \in 1 .. n :
        /\ bytes[i] \in ContBytes <=> i > 1 /\ bytes[i - 1] \in LeadBytes
        /\ bytes[i] \in LeadBytes => i < n

\* The valid prefix is one, and no longer prefix is.
LEMMA ValidUpToProperties ==
    ASSUME NEW C, NEW bytes \in Seq(C)
    PROVE  /\ ValidUpTo(bytes) \in 0 .. Len(bytes)
           /\ IsUtf8(bytes) <=> Valid(bytes, Len(bytes))
<1> DEFINE I == {n \in 0 .. Len(bytes) : Valid(bytes, n)}
<1>1. Len(bytes) \in Nat /\ Len(bytes) \in 0 .. Len(bytes) /\ 0 \in 0 .. Len(bytes)
  OBVIOUS
<1>2. ValidUpTo(bytes) = Max(I)
  BY DEF ValidUpTo, Valid
<1>3. 0 \in I
  BY <1>1 DEF Valid
<1>4. I \subseteq Nat /\ I # {} /\ \A x \in I : x <= Len(bytes)
  BY <1>1, <1>3
<1>5. \A x \in I : x \in 0 .. Len(bytes) /\ Valid(bytes, x)
  OBVIOUS
<1>6. Valid(bytes, Len(bytes)) => Len(bytes) \in I
  BY <1>1
<1> HIDE DEF I
<1>7. Max(I) \in I /\ \A x \in I : x <= Max(I)
  BY <1>1, <1>4, MaxOfBounded
<1>8. ValidUpTo(bytes) \in 0 .. Len(bytes) /\ Valid(bytes, ValidUpTo(bytes))
  BY <1>2, <1>5, <1>7
<1>9. Valid(bytes, Len(bytes)) => ValidUpTo(bytes) = Len(bytes)
  BY <1>1, <1>2, <1>6, <1>7, <1>8
<1> QED
  BY <1>8, <1>9 DEF IsUtf8

\* No character ends after the byte i.
Boundary(bytes, i) == i >= 1 => bytes[i] \notin LeadBytes

\* The bytes between two boundaries are valid.
LEMMA CutUtf8 ==
    ASSUME NEW C, NEW s \in Seq(C), IsUtf8(s), NEW j \in 0 .. Len(s), NEW i \in 0 .. j,
           Boundary(s, i), Boundary(s, j)
    PROVE  IsUtf8(Cut(s, i, j))
<1> DEFINE c == Cut(s, i, j)
           n == j - i
<1>1. i \in Nat /\ j \in Nat /\ i <= j /\ j <= Len(s) /\ Len(s) \in Nat /\ n \in Nat
  OBVIOUS
<1>2. c \in Seq(C) /\ Len(c) = n /\ \A k \in 1 .. n : c[k] = s[i + k]
  BY CutProperties
<1>3. Valid(s, Len(s))
  BY ValidUpToProperties
<1> HIDE DEF c, n
<1>4. ASSUME NEW k \in 1 .. n PROVE c[k] \in ContBytes <=> k > 1 /\ c[k - 1] \in LeadBytes
  <2> DEFINE l == i + k
  <2>1. l \in 1 .. Len(s) /\ l > 1 => l - 1 = i + (k - 1)
    BY <1>1 DEF n
  <2>2. l \in 1 .. Len(s) /\ c[k] = s[l]
    BY <1>1, <1>2 DEF n
  <2>3. s[l] \in ContBytes <=> l > 1 /\ s[l - 1] \in LeadBytes
    <3> HIDE DEF l
    <3> QED
      BY <2>2, <1>3 DEF Valid
  <2>4. CASE k > 1
    <3>1. k - 1 \in 1 .. n /\ i + (k - 1) = l - 1 /\ l > 1
      BY <1>1, <2>4
    <3>2. c[k - 1] = s[l - 1]
      <4> DEFINE m == k - 1
      <4>1. m \in 1 .. n /\ i + m = l - 1
        BY <3>1
      <4> HIDE DEF m, l
      <4>2. c[m] = s[i + m]
        BY <4>1, <1>2
      <4>3. c[m] = s[l - 1]
        BY <4>1, <4>2
      <4> QED
        BY <4>3 DEF m
    <3> HIDE DEF l
    <3> QED
      BY <2>2, <2>3, <2>4, <3>1, <3>2
  <2>5. CASE ~(k > 1)
    <3>1. l - 1 = i /\ (l > 1 => i >= 1)
      BY <1>1, <2>5
    <3>2. ~(l > 1 /\ s[l - 1] \in LeadBytes)
      BY <3>1 DEF Boundary
    <3> HIDE DEF l
    <3> QED
      BY <2>2, <2>3, <2>5, <3>2
  <2> QED
    BY <2>4, <2>5
<1>5. ASSUME NEW k \in 1 .. n, c[k] \in LeadBytes PROVE k < n
  <2> SUFFICES ASSUME ~(k < n) PROVE FALSE
    OBVIOUS
  <2>1. i + k = j /\ j >= 1
    BY <1>1 DEF n
  <2>2. c[k] = s[j]
    BY <1>2, <2>1
  <2> QED
    BY <1>5, <2>1, <2>2 DEF Boundary
<1>6. Valid(c, Len(c))
  BY <1>2, <1>4, <1>5 DEF Valid
<1>7. IsUtf8(c)
  BY <1>2, <1>6, ValidUpToProperties
<1> QED
  BY <1>7 DEF c

\* Before a first byte lies a boundary.
LEMMA FirstByteBoundary ==
    ASSUME NEW C, NEW s \in Seq(C), IsUtf8(s), NEW i \in 0 .. Len(s) - 1, s[i + 1] \notin ContBytes
    PROVE  Boundary(s, i)
<1> DEFINE l == i + 1
<1>1. l \in 1 .. Len(s) /\ l - 1 = i /\ (i >= 1 => l > 1)
  OBVIOUS
<1>2. Valid(s, Len(s))
  BY ValidUpToProperties
<1>3. s[l] \notin ContBytes
  OBVIOUS
<1> HIDE DEF l
<1>4. s[l] \in ContBytes <=> l > 1 /\ s[l - 1] \in LeadBytes
  BY <1>1, <1>2 DEF Valid
<1> QED
  BY <1>1, <1>3, <1>4 DEF Boundary

\* A valid text does not begin with a second byte, nor end with a first byte.
LEMMA Utf8Ends ==
    ASSUME NEW C, NEW s \in Seq(C), IsUtf8(s)
    PROVE  /\ s # <<>> => s[1] \notin ContBytes
           /\ Boundary(s, Len(s)) /\ Boundary(s, 0)
<1>1. Valid(s, Len(s))
  BY ValidUpToProperties
<1> DEFINE n == Len(s)
<1>2. n \in Nat /\ (s # <<>> => n >= 1) /\ (n >= 1 => n \in 1 .. n /\ 1 \in 1 .. n)
  BY EmptySeq
<1> HIDE DEF n
<1>3. \A i \in 1 .. n : (s[i] \in ContBytes <=> i > 1 /\ s[i - 1] \in LeadBytes) /\ (s[i] \in LeadBytes => i < n)
  BY <1>1 DEF Valid, n
<1>4. s # <<>> => s[1] \notin ContBytes
  BY <1>2, <1>3
<1>5. n >= 1 => s[n] \notin LeadBytes
  BY <1>2, <1>3
<1> QED
  BY <1>4, <1>5 DEF Boundary, n

\* restore_bytes of any bytes is a partial restoration, and of text its restoration.
LEMMA RestoreBytesProperties ==
    ASSUME NEW C, TextTable(C, known), NEW bytes \in Seq(C)
    PROVE  /\ RestoreBytes(bytes) \in PartlyRestored(known, bytes)
           /\ IsUtf8(bytes) => RestoreBytes(bytes) = Restore(known, bytes)
<1> DEFINE n == ValidUpTo(bytes)
           u == Take(bytes, n)
           v == Drop(bytes, n)
           ru == Restore(known, u)
<1>1. n \in 0 .. Len(bytes)
  BY ValidUpToProperties
<1>2. RestoreBytes(bytes) = ru \o v
  BY DEF RestoreBytes, Take, Drop
<1>3. IsUtf8(bytes) => n = Len(bytes)
  BY DEF IsUtf8
<1> HIDE DEF n
<1>4. u \in Seq(C) /\ v \in Seq(C) /\ u \o v = bytes
  BY <1>1, TakeProperties, DropProperties, TakeDrop
<1>5. ru \in Seq(C)
  BY <1>4, RestoreType
<1>6. ru \in PartlyRestored(known, u) /\ v \in PartlyRestored(known, v)
  <2> HIDE DEF u, v
  <2> QED
    BY <1>4, RestoreIsPartly, UnchangedIsPartly
<1>7. ru \o v \in PartlyRestored(known, bytes)
  <2> HIDE DEF u, v, ru
  <2>1. ru \o v \in PartlyRestored(known, u \o v)
    BY <1>4, <1>6, PartlyConcat
  <2> QED
    BY <1>4, <2>1
<1>8. ASSUME IsUtf8(bytes) PROVE ru \o v = Restore(known, bytes)
  <2>1. u = bytes /\ v = <<>>
    BY <1>3, <1>8, DropEnds
  <2> HIDE DEF u, v
  <2>2. ru \o v = ru
    <3> HIDE DEF ru
    <3> QED
      BY <1>5, <2>1, ConcatEmptySeq
  <2> QED
    BY <2>1, <2>2
<1> QED
  BY <1>2, <1>7, <1>8

\* What has been emitted, and the restoration of the bytes carried with any x after them, is the
\* restoration of all the text w with x after it.
SameRest(C, tbl, em, ca, w) ==
    \A x \in Seq(C) : em \o Restore(tbl, ca \o x) = Restore(tbl, w \o x)

\* Sending some characters of what is held, restored, keeps that.
LEMMA SameRestStep ==
    ASSUME NEW C, NEW tab, TextTable(C, tab), NEW em \in Seq(C), NEW ca \in Seq(C), NEW w \in Seq(C),
           NEW chunk \in Seq(C), NEW u \in Seq(C), NEW v \in Seq(C), SameText(ca, chunk, u, v),
           \A x \in Seq(C) : NoSpan(C, tab, u, v \o x), SameRest(C, tab, em, ca, w)
    PROVE  SameRest(C, tab, em \o Restore(tab, u), v, w \o chunk)
<1> SUFFICES ASSUME NEW x \in Seq(C)
             PROVE  (em \o Restore(tab, u)) \o Restore(tab, v \o x) = Restore(tab, (w \o chunk) \o x)
  BY DEF SameRest
<1> DEFINE ru == Restore(tab, u)
           vx == v \o x
           rv == Restore(tab, vx)
           cx == chunk \o x
<1>1. vx \in Seq(C) /\ cx \in Seq(C) /\ ru \in Seq(C) /\ rv \in Seq(C) /\ NoSpan(C, tab, u, vx)
  <2>1. vx \in Seq(C) /\ cx \in Seq(C) /\ NoSpan(C, tab, u, vx)
    OBVIOUS
  <2> HIDE DEF vx, cx
  <2>2. ru \in Seq(C) /\ rv \in Seq(C)
    BY <2>1, RestoreType
  <2> QED
    BY <2>1, <2>2
<1>2. Associates(em, ru, rv) /\ Associates(w, chunk, x) /\ Associates(u, v, x) /\ Associates(ca, chunk, x)
  <2> HIDE DEF ru, vx, rv, cx
  <2> QED
    BY <1>1, Associativity
<1>3. Restore(tab, u \o vx) = ru \o rv
  <2> HIDE DEF vx
  <2> QED
    BY <1>1, RestoreCut, SMTT(60)
<1>4. u \o vx = ca \o cx
  BY <1>2 DEF Associates, SameText
<1>5. em \o Restore(tab, ca \o cx) = Restore(tab, w \o cx)
  <2> HIDE DEF cx
  <2> QED
    BY <1>1 DEF SameRest
<1>6. (em \o ru) \o rv = em \o (ru \o rv)
  BY <1>2 DEF Associates
<1>7. (w \o chunk) \o x = w \o cx
  BY <1>2 DEF Associates
<1> QED
  BY <1>3, <1>4, <1>5, <1>6, <1>7

\* No alias begins in what has been emitted, whatever follows the bytes carried.
RestClean(C, tbl, em, ca) == \A x \in Seq(C) : CleanBefore(C, tbl, em, ca \o x)

\* What is sent keeps to be free of aliases.
LEMMA RestCleanStep ==
    ASSUME NEW C, NEW tab, TextTable(C, tab), \A a \in tab : Inert(tab, a), NEW tbl, tbl \subseteq tab,
           NEW em \in Seq(C), NEW ca \in Seq(C),
           NEW chunk \in Seq(C), NEW u \in Seq(C), NEW v \in Seq(C), SameText(ca, chunk, u, v),
           \A x \in Seq(C) : NoSpan(C, tab, u, v \o x), RestClean(C, tbl, em, ca)
    PROVE  RestClean(C, tbl, em \o Restore(tab, u), v)
<1> SUFFICES ASSUME NEW x \in Seq(C) PROVE CleanBefore(C, tbl, em \o Restore(tab, u), v \o x)
  BY DEF RestClean
<1> DEFINE vx == v \o x
           cx == chunk \o x
<1>1. vx \in Seq(C) /\ cx \in Seq(C) /\ NoSpan(C, tab, u, vx)
  OBVIOUS
<1>2. Associates(u, v, x) /\ Associates(ca, chunk, x)
  BY Associativity
<1>3. u \o vx = ca \o cx
  BY <1>2 DEF Associates, SameText
<1> HIDE DEF vx, cx
<1>4. CleanBefore(C, tbl, em, u \o vx)
  BY <1>1, <1>3 DEF RestClean
<1>5. CleanBefore(C, tbl, em \o Restore(tab, u), vx)
  BY <1>1, <1>4, CleanStep
<1> QED
  BY <1>5 DEF vx

-----------------------------------------------------------------------------
\* The characters of a stream, its aliases and their originals.
StreamTexts == Aliases \cup {Original[a] : a \in Aliases} \cup {PREFIX} \cup Streams
StreamChars == UNION {ToSet(x) : x \in StreamTexts}

LEMMA StreamTextsProperties ==
    /\ PREFIX \in Seq(StreamChars) /\ PREFIX # <<>> /\ IsUtf8(PREFIX) /\ HASH_HEX_LEN \in Nat
    /\ \A s \in Streams : s \in Seq(StreamChars)
    /\ \A tbl \in SUBSET Aliases : TextTable(StreamChars, tbl)
    /\ \A a \in Aliases : IsUtf8(a)
<1>1. \A x \in StreamTexts : IsText(x)
  BY AliasAssumption, StreamAssumption DEF StreamTexts
<1>2. ASSUME NEW x \in StreamTexts PROVE x \in Seq(StreamChars)
  <2>1. ToSet(x) \subseteq StreamChars
    BY DEF StreamChars
  <2>2. x \in Seq(ToSet(x))
    BY <1>1 DEF IsText
  <2> DEFINE D == ToSet(x)
  <2> HIDE DEF D
  <2> QED
    BY <2>1, <2>2 DEF D
<1>3. ASSUME NEW tbl \in SUBSET Aliases PROVE TextTable(StreamChars, tbl)
  <2>1. \A a \in tbl : a \in StreamTexts /\ Original[a] \in StreamTexts /\ a # <<>>
    BY AliasAssumption DEF StreamTexts
  <2> QED
    BY <1>2, <2>1 DEF TextTable
<1>4. PREFIX \in StreamTexts /\ \A s \in Streams : s \in StreamTexts
  BY DEF StreamTexts
<1> QED
  BY <1>2, <1>3, <1>4, AliasAssumption, StreamAssumption

\* The inductive invariant of the stream: the bytes carried are the end of those that have
\* arrived, and what has been emitted is a partial restoration of the rest; under the
\* hypotheses of the exact restoration it lacks nothing but the restoration of the bytes carried
\* and of those to come, and no alias begins in it.
Sent == arrived - Len(carry)

StreamShape ==
    /\ stream \in Streams
    /\
      arrived \in 0 .. Len(stream)
    /\ noted \subseteq Aliases /\ IsFiniteSet(noted) /\ known \subseteq noted /\ table \subseteq known
    /\ changes \in Nat /\ (changes = 0 => table = known)
    /\ Sent \in 0 .. arrived
    /\ carry = Cut(stream, Sent, arrived)

StreamKept == emitted \in PartlyRestored(noted, Cut(stream, 0, Sent))

StreamBounds ==
    /\ ~split => Boundary(stream, arrived)
    /\ ~done /\ Exact => Boundary(stream, Sent)

StreamSame ==
    ~done /\ Exact /\ changes = 0 =>
        SameRest(StreamChars, known, emitted, carry, Cut(stream, 0, arrived))

StreamClean ==
    ~done /\ Exact /\ InertOriginals(noted) => RestClean(StreamChars, table, emitted, carry)

StreamInv ==
    /\ StreamShape /\ StreamKept /\ StreamBounds /\ StreamSame /\ StreamClean
    /\ ChunkingInvisible /\ AliasesRestored

\* What may be assumed of the parts of a buffer when the end is held back.
HoldSplits(buf) ==
    LET n == Len(buf) - Hold(buf)
        v == Drop(buf, n)
    IN  /\ n \in 0 .. Len(buf)
        /\ NoOverlap(known) /\ WellShaped(known) =>
              \A x \in Seq(StreamChars) : NoSpan(StreamChars, known, Take(buf, n), v \o x)
        /\ v # <<>> => v[1] \notin ContBytes

\* What Feed holds back is a part of what it has, across whose beginning no alias lies.
LEMMA HoldProperties ==
    ASSUME noted \subseteq Aliases, IsFiniteSet(noted), known \subseteq noted, NEW buf \in Seq(StreamChars)
    PROVE  HoldSplits(buf)
<1> DEFINE C == StreamChars
           n == Len(buf) - Hold(buf)
           u == Take(buf, n)
           v == Drop(buf, n)
           h == Holdback(noted, known, buf)
<1>1. TextTable(C, noted) /\ TextTable(C, known) /\ PREFIX \in Seq(C) /\ PREFIX # <<>> /\ HASH_HEX_LEN \in Nat
  BY StreamTextsProperties
<1>2. Len(buf) \in Nat
  OBVIOUS
<1>3. CASE known = {}
  <2>1. n = Len(buf)
    BY <1>2, <1>3 DEF Hold
  <2>2. v = <<>>
    BY <2>1, DropEnds
  <2>3. \A x \in Seq(C) : NoSpan(C, known, u, v \o x)
    BY <1>3 DEF NoSpan
  <2>4. n \in 0 .. Len(buf)
    BY <1>2, <2>1
  <2> QED
    BY <2>2, <2>3, <2>4 DEF HoldSplits
<1>4. CASE known # {}
  <2>1. n = Len(buf) - h
    BY <1>4 DEF Hold
  <2>2. h \in 0 .. Len(buf) /\ (h > 0 => MayBegin(known, Suffix(buf, h)))
    <3>1. buf \in Seq(C)
      OBVIOUS
    <3> HIDE DEF C
    <3> QED
      BY <1>1, <3>1, HoldbackBounds
  <2>3. NoOverlap(known) /\ WellShaped(known) => \A x \in Seq(C) : NoSpan(C, known, u, v \o x)
    <3> HIDE DEF C
    <3>1. buf \in Seq(C)
      BY DEF C
    <3>2. NoOverlap(known) /\ WellShaped(known) => \A x \in Seq(C) :
             NoSpan(C, known, Take(buf, Len(buf) - h), Drop(buf, Len(buf) - h) \o x)
      BY <1>1, <3>1, HoldbackNoSpan
    <3> QED
      BY <2>1, <3>2
  <2> HIDE DEF h
  <2>4. n \in 0 .. Len(buf) /\ Len(buf) - n = h
    BY <1>2, <2>1, <2>2
  <2>5. v = Suffix(buf, h) /\ v \in Seq(C) /\ Len(v) = h
    <3>1. Suffix(buf, h) = Drop(buf, Len(buf) - h) /\ Suffix(buf, h) \in Seq(C) /\ Len(Suffix(buf, h)) = h
      BY <2>2, SuffixIsDrop
    <3> QED
      BY <2>1, <3>1
  <2>6. ASSUME v # <<>> PROVE v[1] \notin ContBytes
    <3> HIDE DEF v, n, C
    <3>1. h > 0
      BY <2>2, <2>5, <2>6, <1>2, EmptySeq
    <3>2. v[1] = PREFIX[1] \/ \E a \in known : v[1] = a[1]
      BY <1>1, <2>2, <2>5, <2>6, <3>1, HeldBegins
    <3>3. PREFIX[1] \notin ContBytes
      BY <1>1, StreamTextsProperties, Utf8Ends
    <3>4. \A a \in known : a[1] \notin ContBytes
      <4> SUFFICES ASSUME NEW a \in known PROVE a[1] \notin ContBytes
        OBVIOUS
      <4>1. a \in Seq(C) /\ a # <<>> /\ IsUtf8(a)
        BY <1>1, StreamTextsProperties DEF TextTable
      <4> QED
        BY <4>1, Utf8Ends
    <3> QED
      BY <3>2, <3>3, <3>4
  <2> QED
    BY <2>3, <2>4, <2>6 DEF HoldSplits
<1> QED
  BY <1>3, <1>4

\* Exact says less of a smaller table.
LEMMA SmallerTable ==
    ASSUME NEW S, NEW T, S \subseteq T
    PROVE  /\ NoOverlap(T) => NoOverlap(S)
           /\ WellShaped(T) => WellShaped(S)
           /\ InertOriginals(T) => InertOriginals(S)
  BY DEF NoOverlap, WellShaped, InertOriginals

\* InertOriginals in the words of the lemmas above.
LEMMA InertTable ==
    ASSUME NEW tbl, InertOriginals(tbl)
    PROVE  \A a \in tbl : Inert(tbl, a)
  BY DEF InertOriginals, Inert

\* The invariant holds at the beginning, and each action keeps it.
LEMMA StreamInitInv == StreamInit => StreamInv
<1> SUFFICES ASSUME StreamInit PROVE StreamInv
  OBVIOUS
<1> DEFINE C == StreamChars
           e == <<>>
<1>1. /\ stream \in Streams /\ known \in FirstTables /\ table = known /\ arrived = 0 /\ changes = 0
      /\ \E past \in FirstTables : noted = known \cup past
      /\ carry = e /\ emitted = e /\ done = FALSE
  BY DEF StreamInit
<1>2. stream \in Seq(C) /\ Len(stream) \in Nat /\ Len(e) = 0 /\ e \in Seq(C)
  BY <1>1, StreamTextsProperties
<1>3. /\ noted \subseteq Aliases /\ IsFiniteSet(noted) /\ known \subseteq noted
      /\ TextTable(C, known) /\ TextTable(C, noted)
  <2>1. PICK past \in FirstTables : noted = known \cup past
    BY <1>1
  <2>2. noted \subseteq Aliases /\ IsFiniteSet(noted) /\ known \subseteq noted
    BY <1>1, <2>1, StreamAssumption, FS_Union
  <2> QED
    BY <2>2, StreamTextsProperties
<1> HIDE DEF e
<1>4. Sent = 0
  BY <1>1, <1>2 DEF Sent
<1>5. Cut(stream, 0, 0) = e
  BY <1>2, CutEnds DEF e
<1>6. StreamShape
  BY <1>1, <1>2, <1>3, <1>4, <1>5 DEF StreamShape
<1>7. StreamKept
  BY <1>1, <1>3, <1>4, <1>5, PartlyType DEF StreamKept, e
<1>8. StreamBounds
  BY <1>1, <1>4 DEF StreamBounds, Boundary
<1>9. StreamSame
  <2> SUFFICES ASSUME NEW x \in Seq(C)
               PROVE  emitted \o Restore(known, carry \o x) = Restore(known, Cut(stream, 0, arrived) \o x)
    BY DEF StreamSame, SameRest
  <2> DEFINE rx == Restore(known, x)
  <2>1. rx \in Seq(C)
    BY <1>3, RestoreType
  <2>2. e \o x = x /\ e \o rx = rx
    <3> HIDE DEF rx
    <3> QED
      BY <2>1, ConcatEmptySeq DEF e
  <2> QED
    BY <1>1, <1>5, <2>2
<1>10. StreamClean
  <2> SUFFICES ASSUME NEW x \in Seq(C), NEW p \in Seq(C), NEW q \in Seq(C), emitted = p \o q, q # <<>> PROVE FALSE
    BY DEF StreamClean, RestClean, CleanBefore
  <2>1. Len(p \o q) = Len(p) + Len(q) /\ Len(p) \in Nat /\ Len(q) \in Nat /\ Len(q) # 0
    BY DropOfConcat, EmptySeq
  <2>2. p \o q = e
    BY <1>1
  <2> QED
    BY <2>1, <2>2, <1>2, SMTT(60)
<1>11. ChunkingInvisible /\ AliasesRestored
  BY <1>1 DEF ChunkingInvisible, AliasesRestored
<1> QED
  BY <1>6, <1>7, <1>8, <1>9, <1>10, <1>11 DEF StreamInv

LEMMA ArriveKeepsInv == StreamInv /\ Arrive => StreamInv'
<1> SUFFICES ASSUME StreamInv, Arrive PROVE StreamInv'
  OBVIOUS
<1> DEFINE C == StreamChars
<1>0. /\ StreamShape /\ StreamKept /\ StreamBounds /\ StreamSame /\ StreamClean
  BY DEF StreamInv
<1>1. PICK n \in arrived + 1 .. Len(stream) :
          /\ Feed(SubSeq(stream, arrived + 1, n)) /\ split' = (split \/ stream[n] \in LeadBytes)
  BY DEF Arrive
<1>2. ~done
  BY DEF Arrive
<1> DEFINE k == Sent
           chunk == Cut(stream, arrived, n)
           buf == carry \o chunk
           i == Len(buf) - Hold(buf)
           u == Take(buf, i)
           v == Drop(buf, i)
           ru == IF known = {} THEN u ELSE RestoreBytes(u)
           w == Cut(stream, 0, arrived)
           before == Cut(stream, 0, k)
\* What the step does.
<1>3. /\ arrived' = arrived + Len(chunk) /\ emitted' = emitted \o ru /\ carry' = v
      /\ stream' = stream /\ known' = known /\ noted' = noted /\ table' = table /\ changes' = changes
      /\ done' = done
  BY <1>1 DEF Feed, Cut, Take, Drop
<1>4. /\ stream \in Seq(C) /\ TextTable(C, known) /\ TextTable(C, noted) /\ TextTable(C, {})
      /\ table \subseteq known /\ known \subseteq noted
  BY <1>0, StreamTextsProperties DEF StreamShape, TextTable
<1>5. /\ arrived \in Nat /\ Len(stream) \in Nat /\ n \in Nat /\ arrived <= n /\ n <= Len(stream) /\ n >= 1
      /\ k \in Nat /\ k <= arrived
  BY <1>0, <1>4 DEF StreamShape
<1> HIDE DEF k
<1>6. n \in 0 .. Len(stream) /\ arrived \in 0 .. n /\ k \in 0 .. arrived /\ k \in 0 .. n /\
      arrived \in 0 .. Len(stream)
      /\ 0 \in 0 .. k /\ 0 \in 0 .. arrived /\ k \in 0 .. Len(stream)
  BY <1>5
<1>7. chunk \in Seq(C) /\ Len(chunk) = n - arrived
  BY <1>4, <1>6, CutProperties
<1>8. carry = Cut(stream, k, arrived) /\ buf = Cut(stream, k, n) /\ carry \in Seq(C)
  <2>1. carry = Cut(stream, k, arrived)
    BY <1>0 DEF StreamShape, k
  <2>2. Cut(stream, k, n) = Cut(stream, k, arrived) \o Cut(stream, arrived, n)
    BY <1>4, <1>6, CutConcat
  <2>3. Cut(stream, k, arrived) \in Seq(C)
    BY <1>4, <1>6, CutProperties
  <2> QED
    BY <2>1, <2>2, <2>3
<1>9. buf \in Seq(C) /\ Len(buf) = n - k
  <2>1. Cut(stream, k, n) \in Seq(C) /\ Len(Cut(stream, k, n)) = n - k
    BY <1>4, <1>6, CutProperties
  <2> QED
    BY <1>8, <2>1
<1> HIDE DEF chunk
<1>10. HoldSplits(buf)
  <2>1. noted \subseteq Aliases /\ IsFiniteSet(noted) /\ known \subseteq noted
    BY <1>0 DEF StreamShape
  <2> HIDE DEF buf
  <2> QED
    BY <1>9, <2>1, HoldProperties
<1>11. /\ i \in 0 .. Len(buf)
       /\ v # <<>> => v[1] \notin ContBytes
  BY <1>10 DEF HoldSplits
<1>12. NoOverlap(known) /\ WellShaped(known) => \A x \in Seq(C) : NoSpan(C, known, u, v \o x)
  BY <1>10 DEF HoldSplits
<1> HIDE DEF i
<1>13. SameText(carry, chunk, u, v)
  <2> HIDE DEF buf
  <2>1. u \o v = buf
    BY <1>9, <1>11, TakeDrop
  <2> QED
    BY <2>1 DEF SameText, buf
<1> DEFINE j == k + i
<1>14. i \in 0 .. n - k /\ j \in 0 .. n /\ k \in 0 .. j /\ n - j = Len(buf) - i /\ j \in 0 .. Len(stream) /\ i \in Nat
  BY <1>5, <1>9, <1>11
<1>15. u = Cut(stream, k, j) /\ v = Cut(stream, j, n)
  BY <1>4, <1>6, <1>8, <1>14, CutParts
<1> HIDE DEF buf, u, v, j
<1>16. u \in Seq(C) /\ v \in Seq(C) /\ Len(v) = n - j /\ (v # <<>> => v[1] = stream[j + 1] /\ j \in 0 .. n - 1)
  <2>1. Cut(stream, k, j) \in Seq(C)
    BY <1>4, <1>14, CutProperties
  <2>2. /\ Cut(stream, j, n) \in Seq(C) /\ Len(Cut(stream, j, n)) = n - j
        /\ \A l \in 1 .. n - j : Cut(stream, j, n)[l] = stream[j + l]
    BY <1>4, <1>6, <1>14, CutProperties, SMTT(60)
  <2>3. Len(v) = n - j /\ v \in Seq(C) /\ \A l \in 1 .. n - j : v[l] = stream[j + l]
    BY <1>15, <2>2
  <2>4. v # <<>> => 1 \in 1 .. n - j
    BY <1>5, <1>14, <2>3, EmptySeq
  <2> QED
    BY <1>5, <1>14, <1>15, <2>1, <2>3, <2>4
\* The new state.
<1>17. arrived' = n /\ Sent' = j
  <2>1. arrived' = n
    BY <1>3, <1>5, <1>7
  <2>2. Len(carry') = n - j
    BY <1>3, <1>16
  <2> QED
    BY <1>5, <1>14, <2>1, <2>2 DEF Sent
<1>18. StreamShape'
  BY <1>0, <1>3, <1>6, <1>14, <1>15, <1>17 DEF StreamShape
<1>19. before \in Seq(C) /\ w \in Seq(C) /\ Cut(stream, 0, j) = before \o u /\ Cut(stream, 0, n) = w \o chunk
  <2>1. before \in Seq(C) /\ w \in Seq(C)
    BY <1>4, <1>6, CutProperties
  <2>2. Cut(stream, 0, j) = before \o u
    BY <1>4, <1>6, <1>14, <1>15, CutConcat
  <2>3. Cut(stream, 0, n) = w \o chunk
    BY <1>4, <1>6, CutConcat DEF chunk
  <2> QED
    BY <2>1, <2>2, <2>3
<1>20. emitted \in PartlyRestored(noted, before)
  BY <1>0 DEF StreamKept, k
<1> HIDE DEF before, w
<1>21. emitted \in Seq(C)
  BY <1>4, <1>19, <1>20, PartlyType
<1>22. ru \in PartlyRestored(noted, u) /\ (IsUtf8(u) => ru = Restore(known, u))
  <2>1. CASE known = {}
    BY <1>16, <1>4, <2>1, UnchangedIsPartly, RestoreNothing
  <2>2. CASE known # {}
    <3>1. ru \in PartlyRestored(known, u) /\ (IsUtf8(u) => ru = Restore(known, u))
      BY <1>16, <1>4, <2>2, RestoreBytesProperties
    <3> QED
      BY <3>1, <1>4, <1>16, PartlyMonotone
  <2> QED
    BY <2>1, <2>2
<1> HIDE DEF ru
<1>23. StreamKept'
  <2>1. emitted \o ru \in PartlyRestored(noted, before \o u)
    BY <1>4, <1>16, <1>19, <1>20, <1>22, PartlyConcat
  <2> QED
    BY <1>3, <1>17, <1>19, <2>1 DEF StreamKept
<1>24. Exact' => Exact /\ ~split' /\ IsUtf8(stream) /\ NoOverlap(known) /\ WellShaped(known)
  BY <1>1, <1>3, <1>4, SmallerTable DEF Exact
<1>25. ~split' => Boundary(stream, n)
  BY <1>1 DEF Boundary
<1>26. Exact' => Boundary(stream, j)
  <2> HAVE Exact'
  <2>1. CASE v = <<>>
    <3>1. j = n
      BY <1>5, <1>14, <1>16, <2>1, EmptySeq
    <3> QED
      BY <3>1, <1>24, <1>25
  <2>2. CASE v # <<>>
    <3>1. j \in 0 .. Len(stream) - 1 /\ stream[j + 1] \notin ContBytes
      BY <1>5, <1>11, <1>16, <2>2, SMTT(60)
    <3> QED
      BY <3>1, <1>4, <1>24, FirstByteBoundary
  <2> QED
    BY <2>1, <2>2
<1>27. StreamBounds'
  BY <1>3, <1>17, <1>25, <1>26 DEF StreamBounds
<1>28. Exact' => ru = Restore(known, u)
  <2> HAVE Exact'
  <2>1. Boundary(stream, k)
    BY <1>0, <1>2, <1>24 DEF StreamBounds, k
  <2>2. IsUtf8(u)
    BY <2>1, <1>4, <1>14, <1>15, <1>24, <1>26, CutUtf8
  <2> QED
    BY <2>2, <1>22
<1>29. StreamSame'
  <2> SUFFICES ASSUME Exact', changes' = 0
               PROVE  SameRest(C, known', emitted', carry', Cut(stream', 0, arrived'))
    BY DEF StreamSame
  <2>1. SameRest(C, known, emitted, carry, w)
    BY <1>0, <1>2, <1>3, <1>24 DEF StreamSame, w
  <2>2. SameRest(C, known, emitted \o Restore(known, u), v, w \o chunk)
    <3> HIDE DEF C
    <3> QED
      BY <2>1, <1>4, <1>7, <1>8, <1>12, <1>13, <1>16, <1>19, <1>21, <1>24, SameRestStep
  <2> QED
    BY <2>2, <1>3, <1>17, <1>19, <1>28
<1>30. StreamClean'
  <2> SUFFICES ASSUME Exact', InertOriginals(noted')
               PROVE  RestClean(C, table', emitted', carry')
    BY DEF StreamClean
  <2>1. InertOriginals(noted) /\ \A a \in known : Inert(known, a)
    BY <1>3, <1>4, SmallerTable, InertTable
  <2>2. RestClean(C, table, emitted, carry)
    BY <1>0, <1>2, <1>24, <2>1 DEF StreamClean
  <2>3. RestClean(C, table, emitted \o Restore(known, u), v)
    <3> HIDE DEF C
    <3> QED
      BY <2>1, <2>2, <1>4, <1>7, <1>8, <1>12, <1>13, <1>16, <1>21, <1>24, RestCleanStep
  <2> QED
    BY <2>3, <1>3, <1>28
<1>31. ChunkingInvisible' /\ AliasesRestored'
  BY <1>2, <1>3 DEF ChunkingInvisible, AliasesRestored
<1> QED
  BY <1>18, <1>23, <1>27, <1>29, <1>30, <1>31 DEF StreamInv

LEMMA FinishKeepsInv == StreamInv /\ FinishStream => StreamInv'
<1> SUFFICES ASSUME StreamInv, FinishStream PROVE StreamInv'
  OBVIOUS
<1> DEFINE C == StreamChars
           e == <<>>
           k == Sent
           rc == RestoreBytes(carry)
           w == Cut(stream, 0, arrived)
           before == Cut(stream, 0, k)
<1>0. StreamShape /\ StreamKept /\ StreamBounds /\ StreamSame /\ StreamClean
  BY DEF StreamInv
<1>1. ~done /\ arrived = Len(stream)
  BY DEF FinishStream
<1>2. /\ emitted' = emitted \o rc /\ carry' = e /\ done' = TRUE
      /\ stream' = stream /\ arrived' = arrived /\ known' = known /\ noted' = noted /\ table' = table
      /\ changes' = changes /\ split' = split
  BY DEF FinishStream
<1>3. /\ stream \in Seq(C) /\ TextTable(C, known) /\ TextTable(C, noted) /\ table \subseteq known
      /\ known \subseteq noted /\ e \in Seq(C) /\ Len(e) = 0
  BY <1>0, StreamTextsProperties DEF StreamShape
<1>4. arrived \in Nat /\ k \in Nat /\ k <= arrived
  BY <1>0, <1>3 DEF StreamShape
<1>5. carry = Cut(stream, k, arrived)
  BY <1>0 DEF StreamShape
<1> HIDE DEF k, e
<1>6. arrived \in 0 .. Len(stream) /\ k \in 0 .. arrived /\ 0 \in 0 .. k /\ 0 \in 0 .. arrived /\ k \in 0 .. Len(stream)
      /\ arrived \in 0 .. arrived
  BY <1>1, <1>4
<1>7. carry \in Seq(C) /\ before \in Seq(C) /\ w = before \o carry /\ w = stream
  BY <1>1, <1>3, <1>5, <1>6, CutProperties, CutConcat, CutEnds, ZenonT(60)
<1>8. emitted \in PartlyRestored(noted, before)
  BY <1>0 DEF StreamKept, k
<1>9. emitted \in Seq(C) /\ rc \in PartlyRestored(noted, carry) /\ (IsUtf8(carry) => rc = Restore(known, carry))
  <2> HIDE DEF before
  <2>1. emitted \in Seq(C) /\ rc \in PartlyRestored(known, carry) /\ (IsUtf8(carry) => rc = Restore(known, carry))
    BY <1>3, <1>7, <1>8, PartlyType, RestoreBytesProperties
  <2> QED
    BY <2>1, <1>3, <1>7, PartlyMonotone
<1> HIDE DEF rc, before
<1>10. Sent' = arrived
  BY <1>2, <1>3, <1>4 DEF Sent
<1>11. Cut(stream, arrived, arrived) = e
  <2>1. Len(Cut(stream, arrived, arrived)) = arrived - arrived /\ Cut(stream, arrived, arrived) \in Seq(C)
    BY <1>3, <1>6, CutProperties
  <2> DEFINE z == Cut(stream, arrived, arrived)
  <2> HIDE DEF z
  <2>2. z \in Seq(C) /\ Len(z) = 0
    BY <1>4, <2>1 DEF z
  <2>3. z = e
    BY <2>2, EmptySeq DEF e
  <2> QED
    BY <2>3 DEF z
<1>12. StreamShape'
  BY <1>0, <1>2, <1>6, <1>10, <1>11 DEF StreamShape
<1>13. StreamKept'
  <2>1. emitted \o rc \in PartlyRestored(noted, before \o carry)
    BY <1>3, <1>7, <1>8, <1>9, PartlyConcat
  <2> QED
    BY <1>2, <1>7, <1>10, <2>1 DEF StreamKept
<1>14. StreamBounds' /\ StreamSame' /\ StreamClean'
  BY <1>0, <1>2 DEF StreamBounds, StreamSame, StreamClean
<1>15. Exact' => Exact /\ IsUtf8(stream) /\ NoOverlap(known) /\ WellShaped(known)
  BY <1>2, <1>3, SmallerTable DEF Exact
<1>16. Exact => rc = Restore(known, carry)
  <2> HAVE Exact
  <2>1. Boundary(stream, k) /\ IsUtf8(stream)
    BY <1>0, <1>1 DEF StreamBounds, Exact, k
  <2>2. Boundary(stream, arrived)
    BY <2>1, <1>1, <1>3, Utf8Ends
  <2>3. IsUtf8(Cut(stream, k, arrived))
    BY <2>1, <2>2, <1>3, <1>6, CutUtf8
  <2> QED
    BY <2>3, <1>5, <1>9
<1>17. ChunkingInvisible'
  <2> SUFFICES ASSUME changes = 0, Exact PROVE emitted \o rc = Restore(table, stream)
    BY <1>2, <1>15 DEF ChunkingInvisible
  <2>0. known = table
    BY <1>0 DEF StreamShape
  <2>1. SameRest(C, known, emitted, carry, w)
    BY <1>0, <1>1 DEF StreamSame
  <2>2. emitted \o Restore(known, carry \o e) = Restore(known, w \o e)
    BY <1>3, <2>1 DEF SameRest
  <2>3. carry \o e = carry /\ w \o e = w
    <3> HIDE DEF w
    <3> QED
      BY <1>3, <1>7, ConcatEmptySeq DEF e
  <2> QED
    BY <1>7, <1>16, <2>0, <2>2, <2>3
<1>18. AliasesRestored'
  <2> SUFFICES ASSUME Exact', InertOriginals(noted'), NEW a \in table', NEW i \in 1 .. Len(emitted')
               PROVE  ~At(emitted', i, a)
    BY DEF AliasesRestored
  <2> DEFINE em == emitted \o rc
  <2>1. Exact /\ InertOriginals(noted) /\ \A b \in known : Inert(known, b)
    BY <1>2, <1>3, <1>15, SmallerTable, InertTable
  <2>2. RestClean(C, table, emitted, carry)
    BY <1>0, <1>1, <2>1 DEF StreamClean
  <2>3. CleanBefore(C, table, emitted, carry \o e)
    BY <1>3, <2>2 DEF RestClean
  <2>4. NoSpan(C, known, carry, e)
    BY <1>3, <1>7, NoSpanEnd DEF e
  <2>5. CleanBefore(C, table, emitted \o Restore(known, carry), e)
    <3> HIDE DEF C
    <3> QED
      BY <1>3, <1>7, <1>9, <2>1, <2>3, <2>4, CleanStep
  <2>6. CleanBefore(C, table, em, e) /\ em = emitted' /\ a \in table
    BY <1>2, <1>16, <2>1, <2>5
  <2>7. em \in Seq(C)
    <3>1. rc \in Seq(C)
      BY <1>3, <1>7, <1>9, PartlyType
    <3> QED
      BY <3>1, <1>9
  <2> HIDE DEF em
  <2>8. i \in 1 .. Len(em) /\ i - 1 \in 0 .. Len(em)
    BY <2>6, <2>7
  <2> DEFINE p == Take(em, i - 1)
             q == Drop(em, i - 1)
  <2>9. p \in Seq(C) /\ em = p \o q
    BY <2>7, <2>8, TakeProperties, TakeDrop
  <2>10. q \in Seq(C) /\ q # <<>> /\ (At(em, i, a) <=> IsPrefix(a, q))
    BY <2>7, <2>8, AtIsPrefix
  <2> HIDE DEF p, q
  <2>11. q \o e = q
    BY <2>10, ConcatEmptySeq DEF e
  <2>12. NoMatch(table, q)
    BY <2>6, <2>9, <2>10, <2>11 DEF CleanBefore
  <2> QED
    BY <2>6, <2>10, <2>12 DEF NoMatch
<1> QED
  BY <1>12, <1>13, <1>14, <1>17, <1>18 DEF StreamInv

\* What has been emitted stays free of the aliases that are still in the table.
LEMMA RestCleanLess ==
    ASSUME NEW C, NEW tbl, NEW less, less \subseteq tbl, NEW em, NEW ca, RestClean(C, tbl, em, ca)
    PROVE  RestClean(C, less, em, ca)
  BY DEF RestClean, CleanBefore, NoMatch

LEMMA ChangeKeepsInv ==
    ASSUME NEW aliases \in SUBSET Aliases, IsFiniteSet(aliases), StreamInv, TableBecomes(aliases)
    PROVE  StreamInv'
<1> DEFINE C == StreamChars
           more == noted \cup aliases
<1>0. StreamShape /\ StreamKept /\ StreamBounds /\ StreamSame /\ StreamClean
  BY DEF StreamInv
<1>1. /\ ~done /\ known' = aliases /\ noted' = more /\ table' = table \cap aliases /\ changes' = changes + 1
      /\ stream' = stream /\ arrived' = arrived /\ carry' = carry /\ emitted' = emitted /\ done' = done
      /\ split' = split
  BY DEF TableBecomes
<1>2. Sent' = Sent
  BY <1>1 DEF Sent
<1>3. more \subseteq Aliases /\ IsFiniteSet(more) /\ noted \subseteq more /\ aliases \subseteq more
  BY <1>0, FS_Union DEF StreamShape
<1> HIDE DEF more
<1>4. changes' \in Nat /\ changes' # 0
  BY <1>0, <1>1 DEF StreamShape
<1>5. StreamShape'
  BY <1>0, <1>1, <1>2, <1>3, <1>4 DEF StreamShape
<1>6. StreamKept'
  <2> DEFINE before == Cut(stream, 0, Sent)
  <2>1. stream \in Seq(C) /\ TextTable(C, more) /\ 0 \in 0 .. Sent /\ Sent \in 0 .. Len(stream)
    BY <1>0, <1>3, StreamTextsProperties DEF StreamShape
  <2>2. before \in Seq(C)
    BY <2>1, CutProperties
  <2>3. emitted \in PartlyRestored(noted, before)
    BY <1>0 DEF StreamKept
  <2> HIDE DEF before
  <2>4. emitted \in PartlyRestored(more, before)
    BY <1>3, <2>1, <2>2, <2>3, PartlyMonotone
  <2> QED
    BY <1>1, <1>2, <2>4 DEF StreamKept, before
<1>7. (Exact' => Exact) /\ (InertOriginals(noted') => InertOriginals(noted))
  <2>1. /\ NoOverlap(more) => NoOverlap(noted)
        /\ WellShaped(more) => WellShaped(noted)
        /\ InertOriginals(more) => InertOriginals(noted)
    BY <1>3, SmallerTable
  <2> QED
    BY <1>1, <2>1 DEF Exact
<1>8. StreamBounds'
  BY <1>0, <1>1, <1>2, <1>7 DEF StreamBounds
<1>9. StreamSame'
  BY <1>4 DEF StreamSame
<1>10. StreamClean'
  <2> SUFFICES ASSUME Exact', InertOriginals(noted') PROVE RestClean(C, table', emitted', carry')
    BY DEF StreamClean
  <2>1. RestClean(C, table, emitted, carry)
    BY <1>0, <1>1, <1>7 DEF StreamClean
  <2>2. table \cap aliases \subseteq table
    OBVIOUS
  <2> QED
    BY <1>1, <2>1, <2>2, RestCleanLess
<1>11. ChunkingInvisible' /\ AliasesRestored'
  BY <1>1 DEF ChunkingInvisible, AliasesRestored
<1> QED
  BY <1>5, <1>6, <1>8, <1>9, <1>10, <1>11 DEF StreamInv

LEMMA LearnKeepsInv == ASSUME NEW a \in Aliases, StreamInv, Learn(a) PROVE StreamInv'
<1>1. PICK gone \in {{}} \cup {{b} : b \in known} : TableBecomes((known \ gone) \cup {a})
  BY DEF Learn
<1>2. known \subseteq Aliases /\ IsFiniteSet(known)
  BY FS_Subset DEF StreamInv, StreamShape
<1>3. (known \ gone) \cup {a} \subseteq Aliases /\ IsFiniteSet((known \ gone) \cup {a})
  BY <1>2, FS_Subset, FS_AddElement
<1> QED
  BY <1>1, <1>3, ChangeKeepsInv

LEMMA ForgetKeepsInv == ASSUME NEW a \in Aliases, StreamInv, Forget(a) PROVE StreamInv'
<1>1. TableBecomes(known \ {a})
  BY DEF Forget
<1>2. known \ {a} \subseteq Aliases /\ IsFiniteSet(known \ {a})
  BY FS_Subset DEF StreamInv, StreamShape
<1> QED
  BY <1>1, <1>2, ChangeKeepsInv

\* The invariant is inductive.
THEOREM StreamInvariant == StreamSpec => []StreamInv
<1>1. StreamInv /\ [StreamNext]_streamVars => StreamInv'
  <2> SUFFICES ASSUME StreamInv, [StreamNext]_streamVars PROVE StreamInv'
    OBVIOUS
  <2>1. CASE UNCHANGED streamVars
    BY <2>1 DEF streamVars, StreamInv, StreamShape, StreamKept, StreamBounds, StreamSame, StreamClean, Sent, Exact,
          ChunkingInvisible, AliasesRestored
  <2> QED
    BY <2>1, ArriveKeepsInv, FinishKeepsInv, LearnKeepsInv, ForgetKeepsInv DEF StreamNext
<1> QED
  BY <1>1, StreamInitInv, PTL DEF StreamSpec

\* The invariant says more than NoByteLost.
LEMMA KeptIsNoByteLost == StreamInv => NoByteLost
<1> SUFFICES ASSUME StreamInv PROVE NoByteLost
  OBVIOUS
<1>1. StreamShape /\ StreamKept
  BY DEF StreamInv
<1> QED
  BY <1>1 DEF StreamShape, StreamKept, NoByteLost, Sent, Cut

\* Nothing of a byte stream is lost, repeated or moved (feed, finish and restore_bytes of
\* StreamRestorer), for every stream, cut, table and change of the table.
THEOREM StreamLosesNoByte == StreamSpec => []NoByteLost
  BY StreamInvariant, KeptIsNoByteLost, PTL

\* A text that arrives in chunks is restored as one text is, wherever it is cut between two
\* characters (feed and finish), as long as the aliases do not overlap and the table stays.
THEOREM StreamChunkingInvisible == StreamSpec => []ChunkingInvisible
<1>1. StreamInv => ChunkingInvisible
  BY DEF StreamInv
<1> QED
  BY <1>1, StreamInvariant, PTL

\* No alias that is in the table from the beginning of such a text to its end is left in what the
\* client gets, also when other aliases come and go while it is streamed (set_identity, insert).
THEOREM StreamAliasesRestored == StreamSpec => []AliasesRestored
<1>1. StreamInv => AliasesRestored
  BY DEF StreamInv
<1> QED
  BY <1>1, StreamInvariant, PTL

-------------------------------------------------------------------------------
\* The events: folding over the carriers of one.

\* The function by which the fold over the carriers of an event is defined.
IterOf(base, n, it) ==
    it = [s \in SUBSET (1 .. n) |->
            IF s = {} THEN base ELSE Carry(it[s \ {Max(s)}], [i \in 1 .. n |-> i][Max(s)])]

\* FoldLeft is the value of that function at all the indices.
LEMMA FoldIsIter ==
    ASSUME NEW base, NEW n \in Nat
    PROVE  FoldLeft(Carry, base, [i \in 1 .. n |-> i]) = (CHOOSE it : IterOf(base, n, it))[1 .. n]
  BY Zenon DEF FoldLeft, MapThenFoldSet, IterOf

LEMMA MaxOfIndices ==
    ASSUME NEW n \in Nat, NEW s \in SUBSET (1 .. n), s # {}
    PROVE  /\ Max(s) \in s /\ Max(s) \in 1 .. n
           /\ \A x \in s : x <= Max(s)
<1>1. s \subseteq Nat /\ \A x \in s : x <= n
  OBVIOUS
<1>2. Max(s) \in s /\ \A x \in s : x <= Max(s)
  BY <1>1, MaxOfBounded
<1> QED
  BY <1>2

IterStep(base, n, it) ==
    /\ it[{}] = base
    /\ \A s \in SUBSET (1 .. n) : s # {} => it[s] = Carry(it[s \ {Max(s)}], Max(s))

\* Such a function exists.
LEMMA IterExists ==
    ASSUME NEW base, NEW n \in Nat
    PROVE  \E it : it = [s \in SUBSET (1 .. n) |-> it[s]] /\ IterStep(base, n, it)
<1> DEFINE N == {m \in Nat : \E it : it = [s \in SUBSET (1 .. m) |-> it[s]] /\ IterStep(base, m, it)}
<1>1. ASSUME NEW m \in Nat, \A k \in Nat : k < m => k \in N PROVE m \in N
  <2>1. CASE m = 0
    <3> DEFINE it == [s \in SUBSET (1 .. m) |-> base]
    <3>1. 1 .. m = {} /\ {} \in SUBSET (1 .. m)
      BY <2>1
    <3>2. it[{}] = base /\ \A s \in SUBSET (1 .. m) : s = {}
      BY <3>1
    <3>3. it = [s \in SUBSET (1 .. m) |-> it[s]]
      OBVIOUS
    <3> HIDE DEF it
    <3>4. IterStep(base, m, it)
      BY <3>2 DEF IterStep
    <3> QED
      BY <3>3, <3>4
  <2>2. CASE m # 0
    <3> DEFINE l == m - 1
    <3>1. l \in Nat /\ l < m /\ m = l + 1 /\ m \in 1 .. m
      BY <2>2
    <3>2. PICK jt : jt = [s \in SUBSET (1 .. l) |-> jt[s]] /\ IterStep(base, l, jt)
      BY <3>1, <1>1
    <3> DEFINE it == [s \in SUBSET (1 .. m) |-> IF m \in s THEN Carry(jt[s \ {m}], m) ELSE jt[s]]
    <3>3. \A s \in SUBSET (1 .. m) : m \notin s => it[s] = jt[s]
      OBVIOUS
    <3>4. \A s \in SUBSET (1 .. m) : m \in s => it[s] = Carry(jt[s \ {m}], m)
      OBVIOUS
    <3>5. it = [s \in SUBSET (1 .. m) |-> it[s]]
      OBVIOUS
    <3>6. \A s \in SUBSET (1 .. m) : m \notin s => s \in SUBSET (1 .. l)
      BY <3>1
    <3> HIDE DEF it, l
    <3>7. it[{}] = base
      <4>1. {} \in SUBSET (1 .. m) /\ m \notin {}
        OBVIOUS
      <4> QED
        BY <4>1, <3>2, <3>3 DEF IterStep
    <3>8. ASSUME NEW s \in SUBSET (1 .. m), s # {} PROVE it[s] = Carry(it[s \ {Max(s)}], Max(s))
      <4>1. Max(s) \in s /\ Max(s) \in 1 .. m /\ \A x \in s : x <= Max(s)
        BY <3>8, MaxOfIndices
      <4>2. CASE m \in s
        <5>1. Max(s) = m
          BY <4>1, <4>2
        <5>2. s \ {m} \in SUBSET (1 .. m) /\ m \notin s \ {m}
          OBVIOUS
        <5>3. it[s \ {m}] = jt[s \ {m}]
          BY <5>2, <3>3
        <5> QED
          BY <4>2, <5>1, <5>3, <3>4
      <4>3. CASE m \notin s
        <5>1. s \in SUBSET (1 .. l)
          BY <4>3, <3>6
        <5>2. jt[s] = Carry(jt[s \ {Max(s)}], Max(s))
          BY <5>1, <3>2, <3>8 DEF IterStep
        <5>3. s \ {Max(s)} \in SUBSET (1 .. m) /\ m \notin s \ {Max(s)}
          BY <4>3
        <5>4. it[s \ {Max(s)}] = jt[s \ {Max(s)}]
          BY <5>3, <3>3
        <5> QED
          BY <4>3, <5>2, <5>4, <3>3
      <4> QED
        BY <4>2, <4>3
    <3>9. IterStep(base, m, it)
      BY <3>7, <3>8 DEF IterStep
    <3> QED
      BY <3>5, <3>9
  <2> QED
    BY <2>1, <2>2
<1>2. \A m \in Nat : m \in N
  <2> HIDE DEF N
  <2> QED
    BY <1>1, Induction
<1> QED
  BY <1>2

\* The fold passes over the carriers from the first to the last.
LEMMA CarryFold ==
    ASSUME NEW base, NEW n \in Nat
    PROVE  \E g : /\ g[0] = base
                  /\ \A m \in 1 .. n : g[m] = Carry(g[m - 1], m)
                  /\ FoldLeft(Carry, base, [i \in 1 .. n |-> i]) = g[n]
<1>1. PICK jt : jt = [s \in SUBSET (1 .. n) |-> jt[s]] /\ IterStep(base, n, jt)
  BY IterExists
<1>2. \A s \in SUBSET (1 .. n) : s # {} => [i \in 1 .. n |-> i][Max(s)] = Max(s)
  BY MaxOfIndices
<1>3. IterOf(base, n, jt)
  <2>1. \A s \in SUBSET (1 .. n) :
           jt[s] = IF s = {} THEN base ELSE Carry(jt[s \ {Max(s)}], [i \in 1 .. n |-> i][Max(s)])
    BY <1>1, <1>2 DEF IterStep
  <2> QED
    BY <1>1, <2>1 DEF IterOf
<1> DEFINE it == CHOOSE x : IterOf(base, n, x)
<1>4. IterOf(base, n, it)
  BY <1>3
<1> HIDE DEF it
<1>5. \A s \in SUBSET (1 .. n) : s # {} => it[s] = Carry(it[s \ {Max(s)}], Max(s))
  <2> SUFFICES ASSUME NEW s \in SUBSET (1 .. n), s # {} PROVE it[s] = Carry(it[s \ {Max(s)}], Max(s))
    OBVIOUS
  <2>1. it[s] = Carry(it[s \ {Max(s)}], [i \in 1 .. n |-> i][Max(s)])
    BY <1>4 DEF IterOf
  <2> QED
    BY <2>1, <1>2
<1>6. it[{}] = base
  <2>1. {} \in SUBSET (1 .. n)
    OBVIOUS
  <2> QED
    BY <1>4, <2>1 DEF IterOf
<1> DEFINE g == [m \in 0 .. n |-> it[1 .. m]]
<1>7. g[0] = base
  <2>1. 1 .. 0 = {} /\ 0 \in 0 .. n
    OBVIOUS
  <2> QED
    BY <1>6, <2>1
<1>8. ASSUME NEW m \in 1 .. n PROVE g[m] = Carry(g[m - 1], m)
  <2> DEFINE s == 1 .. m
  <2>1. s \in SUBSET (1 .. n) /\ m \in s /\ m \in Nat /\ m \in 0 .. n /\ m - 1 \in 0 .. n /\ s \ {m} = 1 .. (m - 1)
    OBVIOUS
  <2>2. \A x \in s : x <= m
    OBVIOUS
  <2> HIDE DEF s
  <2>3. Max(s) \in s /\ \A x \in s : x <= Max(s)
    BY <2>1, MaxOfIndices
  <2>4. Max(s) = m
    <3>1. Max(s) <= m /\ m <= Max(s) /\ Max(s) \in 1 .. n
      BY <2>1, <2>2, <2>3
    <3> QED
      BY <2>1, <3>1
  <2>5. it[s] = Carry(it[s \ {m}], m)
    BY <1>5, <2>1, <2>4
  <2>6. g[m] = it[s] /\ g[m - 1] = it[s \ {m}]
    BY <2>1 DEF s
  <2> HIDE DEF g
  <2> QED
    BY <2>5, <2>6
<1>9. FoldLeft(Carry, base, [i \in 1 .. n |-> i]) = g[n]
  <2>1. n \in 0 .. n
    OBVIOUS
  <2> QED
    BY <2>1, FoldIsIter DEF it
<1> HIDE DEF g
<1> QED
  BY <1>7, <1>8, <1>9

-----------------------------------------------------------------------------
\* Flattening a sequence of texts of which one is not empty.
LEMMA FlattenOne ==
    ASSUME NEW C, NEW n \in Nat, NEW f, DOMAIN f = 1 .. n, Len(f) = n,
           NEW p \in 1 .. n, NEW z \in Seq(C), f[p] = z,
           \A i \in 1 .. n : i # p => f[i] = <<>>
    PROVE  FlattenSeq(f) = z
<1> DEFINE e == <<>>
           Eq(h) == h = [i \in 1 .. n |-> IF i = 1 THEN f[i] ELSE h[i - 1] \o f[i]]
           h0 == [i \in 1 .. n |-> IF i < p THEN e ELSE z]
<1>1. e \in Seq(C) /\ e \o z = z /\ z \o e = z /\ e \o e = e
  BY ConcatEmptySeq
<1>1a. \A i \in 1 .. n : i # p => f[i] = e
  OBVIOUS
<1> HIDE DEF e
<1>2. FlattenSeq(f) = (CHOOSE h : Eq(h))[n]
  <2>1. Len(f) # 0
    OBVIOUS
  <2> QED
    BY <2>1, Zenon DEF FlattenSeq
<1>3. Eq(h0)
  <2> SUFFICES ASSUME NEW i \in 1 .. n PROVE h0[i] = IF i = 1 THEN f[i] ELSE h0[i - 1] \o f[i]
    OBVIOUS
  <2>1. CASE i = 1
    BY <2>1, <1>1a
  <2>2. CASE i # 1
    <3>1. i - 1 \in 1 .. n
      BY <2>2
    <3>2. h0[i - 1] = (IF i - 1 < p THEN e ELSE z) /\ h0[i] = IF i < p THEN e ELSE z
      BY <3>1
    <3> HIDE DEF h0
    <3> QED
      BY <3>2, <2>2, <1>1, <1>1a, SMTT(60)
  <2> QED
    BY <2>1, <2>2
<1> DEFINE h == CHOOSE x : Eq(x)
<1>4. Eq(h)
  <2> HIDE DEF Eq, h0
  <2> QED
    BY <1>3
<1> HIDE DEF h
<1>5. ASSUME NEW i \in 1 .. n PROVE h[i] = IF i = 1 THEN f[i] ELSE h[i - 1] \o f[i]
  BY <1>4
<1> HIDE DEF Eq
<1> DEFINE N == {m \in Nat : m \in 1 .. n => h[m] = IF m < p THEN e ELSE z}
<1>6. ASSUME NEW m \in Nat, \A k \in Nat : k < m => k \in N PROVE m \in N
  <2> SUFFICES ASSUME m \in 1 .. n PROVE h[m] = IF m < p THEN e ELSE z
    OBVIOUS
  <2>1. h[m] = IF m = 1 THEN f[m] ELSE h[m - 1] \o f[m]
    BY <1>5
  <2>2. CASE m = 1
    BY <2>1, <2>2, <1>1a
  <2>3. CASE m # 1
    <3>1. m - 1 \in Nat /\ m - 1 < m /\ m - 1 \in 1 .. n
      BY <2>3
    <3>2. h[m - 1] = IF m - 1 < p THEN e ELSE z
      BY <3>1, <1>6
    <3> QED
      BY <2>1, <2>3, <3>2, <1>1, <1>1a, SMTT(60)
  <2> QED
    BY <2>2, <2>3
<1>7. n \in N
  <2> HIDE DEF N
  <2> QED
    BY <1>6, Induction
<1>8. h[n] = z
  BY <1>7
<1> QED
  BY <1>2, <1>8 DEF h

\* An order of the keys of a finite set names each of them once.
LEMMA OrderIsBijection ==
    ASSUME NEW S, IsFiniteSet(S), NEW order \in SetToSeqs(S)
    PROVE  \E n \in Nat : /\ order \in [1 .. n -> S] /\ DOMAIN order = 1 .. n /\ Len(order) = n
                          /\ \A i, j \in 1 .. n : i # j => order[i] # order[j]
                          /\ \A s \in S : \E i \in 1 .. n : order[i] = s
<1> DEFINE n == Cardinality(S)
<1>1. n \in Nat
  BY FS_CardinalityType
<1>2. order \in [1 .. n -> S] /\ \A i, j \in 1 .. n : i # j => order[i] # order[j]
  BY DEF SetToSeqs
<1>3. IsFiniteSet(1 .. n) /\ Cardinality(1 .. n) = n
  BY <1>1, FS_Interval
<1>4. order \in Injection(1 .. n, S)
  BY <1>2 DEF Injection, IsInjective
<1>5. order \in Surjection(1 .. n, S)
  BY <1>3, <1>4, FS_Injection
<1>6. \A s \in S : \E i \in 1 .. n : order[i] = s
  BY <1>5 DEF Surjection
<1>7. Len(order) = n
  BY <1>1, <1>2
<1> HIDE DEF n
<1> QED
  BY <1>1, <1>2, <1>6, <1>7

-------------------------------------------------------------------------------
\* No tail is held for a block that has ended.

\* The characters that the constants consist of are enough for them.
LEMMA CharactersProperties ==
    /\ PREFIX \in Seq(Characters) /\ PREFIX # <<>> /\ HASH_HEX_LEN \in Nat
    /\ \A tbl \in SUBSET Aliases : TextTable(Characters, tbl)
<1> DEFINE Texts == Aliases \cup {Original[a] : a \in Aliases} \cup {PREFIX}
<1>1. ASSUME NEW x \in Texts PROVE x \in Seq(Characters)
  <2>1. ToSet(x) \subseteq Characters
    BY DEF Characters
  <2>2. x \in Seq(ToSet(x))
    BY AliasAssumption DEF IsText
  <2> DEFINE D == ToSet(x)
  <2> HIDE DEF D
  <2> QED
    BY <2>1, <2>2 DEF D
<1>2. ASSUME NEW tbl \in SUBSET Aliases PROVE TextTable(Characters, tbl)
  <2>1. \A a \in tbl : a \in Texts /\ Original[a] \in Texts /\ a # <<>>
    BY AliasAssumption
  <2> HIDE DEF Texts
  <2> QED
    BY <1>1, <2>1 DEF TextTable
<1>3. PREFIX \in Texts
  OBVIOUS
<1> QED
  BY <1>1, <1>2, <1>3, AliasAssumption

\* The text of a pending tail.
TailOf(p) == IF p = None THEN <<>> ELSE p.tail

Pendings == [Keys -> {None} \cup PendingTails]

LEMMA TailType ==
    ASSUME NEW p \in {None} \cup PendingTails
    PROVE  TailOf(p) \in Seq(Characters)
<1>1. CASE p = None
  BY <1>1 DEF TailOf
<1>2. CASE p # None
  <2>1. p \in [tail : Seq(Characters), template : Seq(Carriers), slot : Nat]
    BY <1>2 DEF PendingTails
  <2> QED
    BY <1>2, <2>1 DEF TailOf
<1> QED
  BY <1>1, <1>2

\* What one carrier does.
Carried(event, held, i) ==
    LET k == event[i].key
        restored == Restore(live, TailOf(held[k]) \o event[i].text)
        n == Len(restored) - Holdback(live, live, restored)
        sent == [event EXCEPT ![i].text = Take(restored, n)]
    IN  [event |-> sent,
         pending |-> [held EXCEPT ![k] =
             IF n = Len(restored) THEN None
             ELSE [tail |-> Drop(restored, n), template |-> sent, slot |-> i]]]

LEMMA CarryIsCarried ==
    ASSUME NEW event, NEW held, NEW i
    PROVE  Carry([event |-> event, pending |-> held], i) = Carried(event, held, i)
  BY DEF Carry, Carried, TailOf, Take, Drop

\* One carrier changes its own text and the tail of its own block.
LEMMA CarriedType ==
    ASSUME live \subseteq Aliases, IsFiniteSet(live), NEW event \in Seq(Carriers), NEW held \in Pendings,
           NEW i \in 1 .. Len(event)
    PROVE  \E ev \in Seq(Carriers), hd \in Pendings :
              /\ Carried(event, held, i) = [event |-> ev, pending |-> hd]
              /\ Len(ev) = Len(event) /\ \A j \in 1 .. Len(event) : ev[j].key = event[j].key
              /\ \A k \in Keys : k # event[i].key => hd[k] = held[k]
<1> DEFINE C == Characters
           k == event[i].key
           cat == TailOf(held[k]) \o event[i].text
           restored == Restore(live, cat)
           n == Len(restored) - Holdback(live, live, restored)
           head == Take(restored, n)
           tail == Drop(restored, n)
           ev == [event EXCEPT ![i].text = head]
           p == IF n = Len(restored) THEN None ELSE [tail |-> tail, template |-> ev, slot |-> i]
           hd == [held EXCEPT ![k] = p]
<1>1. event[i] \in Carriers /\ k \in Keys /\ event[i].text \in Seq(C)
  <2>1. event[i] \in Carriers
    OBVIOUS
  <2> QED
    BY <2>1 DEF Carriers
<1>2. TextTable(C, live)
  BY CharactersProperties
<1>3. TailOf(held[k]) \in Seq(C)
  BY <1>1, TailType DEF Pendings
<1>4. cat \in Seq(C)
  BY <1>1, <1>3
<1> HIDE DEF cat
<1>5. restored \in Seq(C)
  BY <1>2, <1>4, RestoreType
<1> HIDE DEF restored
<1>6. Holdback(live, live, restored) \in 0 .. Len(restored)
  <2> HIDE DEF C
  <2> QED
    BY <1>2, <1>5, HoldbackBounds
<1>7. n \in 0 .. Len(restored)
  BY <1>5, <1>6
<1> HIDE DEF n
<1>8. head \in Seq(C) /\ tail \in Seq(C)
  BY <1>5, <1>7, TakeProperties, DropProperties
<1> HIDE DEF head, tail
<1>9. ev \in Seq(Carriers) /\ Len(ev) = Len(event) /\ \A j \in 1 .. Len(event) : ev[j].key = event[j].key
  <2> DEFINE c == [event[i] EXCEPT !.text = head]
  <2>1. c \in Carriers /\ c.key = event[i].key
    BY <1>1, <1>8 DEF Carriers
  <2>2. ev = [event EXCEPT ![i] = c]
    OBVIOUS
  <2> HIDE DEF c, ev
  <2>3. ev \in Seq(Carriers) /\ Len(ev) = Len(event)
    BY <2>1, <2>2
  <2>4. ASSUME NEW j \in 1 .. Len(event) PROVE ev[j].key = event[j].key
    <3>1. ev[j] = IF j = i THEN c ELSE event[j]
      BY <2>2
    <3> QED
      BY <2>1, <3>1
  <2> QED
    BY <2>3, <2>4
<1> HIDE DEF ev
<1>10. p \in {None} \cup PendingTails
  <2>1. i \in Nat
    OBVIOUS
  <2> QED
    BY <2>1, <1>8, <1>9 DEF PendingTails
<1> HIDE DEF p
<1>11. hd \in Pendings /\ \A j \in Keys : j # k => hd[j] = held[j]
  BY <1>1, <1>10 DEF Pendings
<1>12. Carried(event, held, i) = [event |-> ev, pending |-> hd]
  BY DEF Carried, ev, hd, p, head, tail, n, restored, cat, k
<1> HIDE DEF hd
<1> QED
  BY <1>9, <1>11, <1>12

\* The event and the pending tails when all its carriers have been processed.
Processed(e) ==
    FoldLeft(Carry, [event |-> e.carriers, pending |-> pending], [i \in DOMAIN e.carriers |-> i])

\* All the carriers of an event change the tails of their blocks only.
LEMMA ProcessedType ==
    ASSUME live \subseteq Aliases, IsFiniteSet(live), pending \in Pendings, NEW e \in Events
    PROVE  \E ev \in Seq(Carriers), hd \in Pendings :
              /\ Processed(e) = [event |-> ev, pending |-> hd]
              /\ \A k \in Keys : (\A i \in DOMAIN e.carriers : e.carriers[i].key # k) => hd[k] = pending[k]
<1> DEFINE cs == e.carriers
           base == [event |-> cs, pending |-> pending]
           n == Len(cs)
           Good(acc) == \E ev \in Seq(Carriers), hd \in Pendings :
              /\ acc = [event |-> ev, pending |-> hd]
              /\ Len(ev) = n /\ \A j \in 1 .. n : ev[j].key = cs[j].key
              /\ \A k \in Keys : (\A i \in 1 .. n : cs[i].key # k) => hd[k] = pending[k]
<1>1. cs \in Seq(Carriers) /\ n \in Nat /\ DOMAIN cs = 1 .. n
  BY EventAssumption
<1> HIDE DEF cs, n
<1>2. PICK g : /\ g[0] = base
               /\ \A m \in 1 .. n : g[m] = Carry(g[m - 1], m)
               /\ FoldLeft(Carry, base, [i \in 1 .. n |-> i]) = g[n]
  <2> HIDE DEF base
  <2> QED
    BY <1>1, CarryFold
<1>3. Good(g[0])
  <2>1. n = Len(cs)
    BY DEF n
  <2> QED
    BY <1>1, <1>2, <2>1
<1>4. ASSUME NEW m \in 1 .. n, Good(g[m - 1]) PROVE Good(g[m])
  <2>1. PICK ev \in Seq(Carriers), hd \in Pendings :
              /\ g[m - 1] = [event |-> ev, pending |-> hd]
              /\ Len(ev) = n /\ \A j \in 1 .. n : ev[j].key = cs[j].key
              /\ \A k \in Keys : (\A i \in 1 .. n : cs[i].key # k) => hd[k] = pending[k]
    BY <1>4
  <2>2. g[m] = Carried(ev, hd, m)
    BY <1>2, <2>1, CarryIsCarried
  <2>3. m \in 1 .. Len(ev)
    BY <2>1
  <2>4. PICK ev2 \in Seq(Carriers), hd2 \in Pendings :
              /\ Carried(ev, hd, m) = [event |-> ev2, pending |-> hd2]
              /\ Len(ev2) = Len(ev) /\ \A j \in 1 .. Len(ev) : ev2[j].key = ev[j].key
              /\ \A k \in Keys : k # ev[m].key => hd2[k] = hd[k]
    BY <2>3, CarriedType
  <2>5. Len(ev2) = n /\ \A j \in 1 .. n : ev2[j].key = cs[j].key
    BY <2>1, <2>4
  <2>6. \A k \in Keys : (\A i \in 1 .. n : cs[i].key # k) => hd2[k] = pending[k]
    BY <2>1, <2>4
  <2> QED
    BY <2>2, <2>4, <2>5, <2>6, ZenonT(60)
<1>5. Good(g[n])
  <2> DEFINE N == {m \in Nat : m <= n => Good(g[m])}
  <2> HIDE DEF Good
  <2>1. ASSUME NEW m \in Nat, \A k \in Nat : k < m => k \in N PROVE m \in N
    <3> SUFFICES ASSUME m <= n PROVE Good(g[m])
      OBVIOUS
    <3>1. CASE m = 0
      BY <1>3, <3>1
    <3>2. CASE m # 0
      <4>1. m - 1 \in Nat /\ m - 1 < m /\ m - 1 <= n /\ m \in 1 .. n
        BY <1>1, <3>2
      <4> QED
        BY <1>4, <2>1, <4>1
    <3> QED
      BY <3>1, <3>2
  <2>2. n \in N
    <3> HIDE DEF N
    <3> QED
      BY <1>1, <2>1, Induction
  <2> QED
    BY <1>1, <2>2
<1>6. Processed(e) = g[n]
  BY <1>1, <1>2 DEF Processed, cs
<1>7. PICK ev \in Seq(Carriers), hd \in Pendings :
              /\ g[n] = [event |-> ev, pending |-> hd]
              /\ \A k \in Keys : (\A i \in 1 .. n : cs[i].key # k) => hd[k] = pending[k]
  BY <1>5
<1> QED
  BY <1>1, <1>6, <1>7 DEF cs

-----------------------------------------------------------------------------
\* The terminator of an event is the beginning of the key of each block that it ends.
EndsNamed ==
    \A e \in Events : \A k \in e.ends : e.terminator # None /\ IsPrefix(e.terminator, k)

\* Such a terminator asks for the tails of the blocks.
LEMMA EndsFlushed ==
    ASSUME EndsNamed, NEW e \in Events
    PROVE  e.ends \subseteq Terminated(e.terminator)
<1> SUFFICES ASSUME NEW k \in e.ends PROVE k \in Terminated(e.terminator)
  OBVIOUS
<1>1. e.terminator # None /\ IsPrefix(e.terminator, k)
  BY DEF EndsNamed
<1>2. k \in Keys
  BY EventAssumption
<1> QED
  BY <1>1, <1>2, Zenon DEF Terminated

SseTails ==
    /\ live \subseteq Aliases /\ IsFiniteSet(live)
    /\ pending \in Pendings

TailInv == SseTails /\ NoTailAfterEnd

\* A flush empties the tails asked for.
LEMMA FlushedType ==
    ASSUME NEW held \in Pendings, NEW keys
    PROVE  /\ FlushPending(held, keys) \in Pendings
           /\ \A k \in Keys : FlushPending(held, keys)[k] = IF k \in keys THEN None ELSE held[k]
  BY DEF FlushPending, Pendings

LEMMA SseTailsInit == Init => SseTails
  BY EventAssumption DEF Init, SseTails, Pendings

\* Every action keeps the tails to the blocks that have not ended.
LEMMA ReceiveKeepsTails ==
    ASSUME EndsNamed, NEW e \in Events, TailInv, Receive(e)
    PROVE  TailInv'
<1>1. PICK ev \in Seq(Carriers), hd \in Pendings :
         /\ Processed(e) = [event |-> ev, pending |-> hd]
         /\ \A k \in Keys : (\A i \in DOMAIN e.carriers : e.carriers[i].key # k) => hd[k] = pending[k]
  BY ProcessedType DEF TailInv, SseTails
<1> DEFINE keys == Terminated(e.terminator)
<1>2. pending' = FlushPending(hd, keys)
  BY <1>1 DEF Receive, RestoreJsonEvent, Processed
<1>3. ended' = ended \cup e.ends /\ ~finished /\ finished' = finished /\ live' = live
  BY DEF Receive, RestoreJsonEvent
<1>4. \A i \in DOMAIN e.carriers : e.carriers[i].key \notin ended
  BY DEF Receive
<1>5. SseTails'
  BY <1>2, <1>3, FlushedType DEF TailInv, SseTails
<1>6. NoTailAfterEnd'
  <2> SUFFICES ASSUME NEW k \in Keys, pending'[k] # None PROVE k \notin ended' /\ ~finished'
    BY DEF NoTailAfterEnd
  <2>1. k \notin keys /\ hd[k] # None
    BY <1>2, FlushedType
  <2>2. k \notin e.ends
    BY <2>1, EndsFlushed
  <2>3. k \notin ended
    <3>1. CASE \A i \in DOMAIN e.carriers : e.carriers[i].key # k
      BY <1>1, <2>1, <3>1 DEF TailInv, NoTailAfterEnd
    <3>2. CASE ~(\A i \in DOMAIN e.carriers : e.carriers[i].key # k)
      BY <1>4, <3>2
    <3> QED
      BY <3>1, <3>2
  <2> QED
    BY <1>3, <2>2, <2>3
<1> QED
  BY <1>5, <1>6 DEF TailInv

LEMMA FinishKeepsTails == TailInv /\ Finish => TailInv'
<1> SUFFICES ASSUME TailInv, Finish PROVE TailInv'
  OBVIOUS
<1>1. pending' = FlushPending(pending, Keys) /\ live' = live
  BY DEF Finish
<1>2. SseTails'
  BY <1>1, FlushedType DEF TailInv, SseTails
<1>3. NoTailAfterEnd'
  BY <1>1, FlushedType DEF TailInv, SseTails, NoTailAfterEnd
<1> QED
  BY <1>2, <1>3 DEF TailInv

\* No tail is held for a block that has ended, whatever the aliases and the events, as long as
\* the terminator of an event names the blocks that it ends.
THEOREM SseNoTailAfterEnd == EndsNamed => (Spec => []NoTailAfterEnd)
<1> SUFFICES ASSUME EndsNamed PROVE Spec => []NoTailAfterEnd
  OBVIOUS
<1>1. Init => TailInv
  BY SseTailsInit DEF Init, TailInv, NoTailAfterEnd
<1>2. TailInv /\ [Next]_vars => TailInv'
  <2> SUFFICES ASSUME TailInv, [Next]_vars PROVE TailInv'
    OBVIOUS
  <2>1. CASE UNCHANGED vars
    BY <2>1 DEF vars, TailInv, SseTails, NoTailAfterEnd
  <2> QED
    BY <2>1, ReceiveKeepsTails, FinishKeepsTails DEF Next
<1>3. TailInv => NoTailAfterEnd
  BY DEF TailInv
<1> QED
  BY <1>1, <1>2, <1>3, PTL DEF Spec

-------------------------------------------------------------------------------
\* The text of a block, when each event has at most one.

RestoredTwice(C, tab, w, x) == Restore(tab, Restore(tab, w) \o x) = Restore(tab, w \o x)

LEMMA Twice ==
    ASSUME NEW C, NEW tab, TextTable(C, tab), NoneWithin(tab), \A a \in tab : Inert(tab, a),
           NEW w \in Seq(C), NEW x \in Seq(C)
    PROVE  RestoredTwice(C, tab, w, x)
  BY RestoreAgain DEF RestoredTwice

\* Putting a text after the tail of a block, and holding back the end of the result.
LEMMA CarriedSame ==
    ASSUME NEW C, PREFIX \in Seq(C), HASH_HEX_LEN \in Nat, NEW tab, TextTable(C, tab), IsFiniteSet(tab),
           NoOverlap(tab), NoneWithin(tab), WellShaped(tab), InertOriginals(tab),
           NEW em \in Seq(C), NEW ca \in Seq(C), NEW w \in Seq(C), NEW t \in Seq(C), NEW rs,
           rs = Restore(tab, ca \o t), SameRest(C, tab, em, ca, w)
    PROVE  LET n == Len(rs) - Holdback(tab, tab, rs) IN
           SameRest(C, tab, em \o Take(rs, n), Drop(rs, n), w \o t)
<1> DEFINE n == Len(rs) - Holdback(tab, tab, rs)
           u == Take(rs, n)
           v == Drop(rs, n)
           cat == ca \o t
<1>0. \A a \in tab : Inert(tab, a)
  BY InertTable
<1>1. cat \in Seq(C)
  OBVIOUS
<1>2. rs \in Seq(C) /\ AliasFree(C, tab, rs)
  <2> HIDE DEF cat
  <2> QED
    BY <1>0, <1>1, RestoreType, RestoredAliasFree DEF cat
<1>3. Holdback(tab, tab, rs) \in 0 .. Len(rs)
  BY <1>2, HoldbackBounds
<1>4. n \in 0 .. Len(rs)
  BY <1>2, <1>3
<1>5. \A x \in Seq(C) : NoSpan(C, tab, u, v \o x)
  BY <1>2, HoldbackNoSpan
<1> HIDE DEF n
<1>6. u \in Seq(C) /\ v \in Seq(C) /\ u \o v = rs
  BY <1>2, <1>4, TakeProperties, DropProperties, TakeDrop
<1> HIDE DEF u, v
<1>7. Restore(tab, u) = u
  <2>1. AliasFree(C, tab, u \o v)
    BY <1>2, <1>6
  <2>2. AliasFree(C, tab, u)
    BY <1>6, <2>1, AliasFreeParts
  <2> QED
    BY <1>6, <2>2, RestoreAliasFree
<1>8. SUFFICES ASSUME NEW x \in Seq(C)
               PROVE  (em \o u) \o Restore(tab, v \o x) = Restore(tab, (w \o t) \o x)
  BY DEF SameRest, u, v, n
<1> DEFINE vx == v \o x
           rv == Restore(tab, vx)
           tx == t \o x
<1>9. vx \in Seq(C) /\ tx \in Seq(C)
  BY <1>6
<1>10. rv \in Seq(C)
  <2> HIDE DEF vx
  <2> QED
    BY <1>9, RestoreType
<1>11. Associates(em, u, rv) /\ Associates(w, t, x) /\ Associates(ca, t, x) /\ Associates(u, v, x)
  <2> HIDE DEF rv
  <2> QED
    BY <1>6, <1>10, Associativity
<1>12. Restore(tab, u \o vx) = u \o rv
  <2>1. NoSpan(C, tab, u, vx)
    BY <1>5
  <2> HIDE DEF vx
  <2>2. u \in Seq(C) /\ vx \in Seq(C)
    BY <1>6, <1>9
  <2>3. Restore(tab, u \o vx) = Restore(tab, u) \o Restore(tab, vx)
    BY <2>1, <2>2, RestoreCut
  <2> QED
    BY <1>7, <2>3
<1>13. Restore(tab, rs \o x) = Restore(tab, cat \o x)
  <2> HIDE DEF cat
  <2>1. RestoredTwice(C, tab, cat, x)
    BY <1>0, <1>1, Twice
  <2>2. Restore(tab, Restore(tab, cat) \o x) = Restore(tab, cat \o x)
    BY <2>1 DEF RestoredTwice
  <2>3. Restore(tab, cat) = rs
    BY DEF cat
  <2> QED
    BY <2>2, <2>3
<1>14. u \o vx = rs \o x
  BY <1>6, <1>11 DEF Associates
<1>15. cat \o x = ca \o tx /\ (w \o t) \o x = w \o tx
  BY <1>11 DEF Associates
<1>16. em \o Restore(tab, ca \o tx) = Restore(tab, w \o tx)
  <2> HIDE DEF tx
  <2> QED
    BY <1>9 DEF SameRest
<1>17. (em \o u) \o rv = em \o (u \o rv)
  BY <1>11 DEF Associates
<1> QED
  BY <1>12, <1>13, <1>14, <1>15, <1>16, <1>17

\* The same for partial restorations.
LEMMA CarriedPartly ==
    ASSUME NEW C, NEW tab, TextTable(C, tab), InertOriginals(tab),
           NEW em \in Seq(C), NEW ca \in Seq(C), NEW w \in Seq(C), NEW t \in Seq(C), NEW rs,
           rs = Restore(tab, ca \o t), em \o ca \in PartlyRestored(tab, w), NEW n \in 0 .. Len(rs)
    PROVE  (em \o Take(rs, n)) \o Drop(rs, n) \in PartlyRestored(tab, w \o t)
<1> DEFINE u == Take(rs, n)
           v == Drop(rs, n)
           cat == ca \o t
           eca == em \o ca
           wt == w \o t
<1>0. \A a \in tab : Inert(tab, a)
  BY InertTable
<1>1. cat \in Seq(C) /\ wt \in Seq(C) /\ eca \in Seq(C)
  OBVIOUS
<1>2. t \in PartlyRestored(tab, t)
  BY UnchangedIsPartly
<1>3. eca \o t \in PartlyRestored(tab, wt)
  <2>1. eca \in PartlyRestored(tab, w)
    OBVIOUS
  <2> HIDE DEF eca
  <2> QED
    BY <1>2, <2>1, PartlyConcat
<1>4. Associates(em, ca, t)
  BY Associativity
<1>5. em \o cat \in PartlyRestored(tab, wt)
  BY <1>3, <1>4 DEF Associates
<1>6. em \o rs \in PartlyRestored(tab, wt) /\ rs \in Seq(C)
  <2> HIDE DEF cat, wt
  <2> QED
    BY <1>0, <1>1, <1>5, EndRestored, RestoreType DEF cat
<1>7. u \in Seq(C) /\ v \in Seq(C) /\ u \o v = rs
  BY <1>6, TakeProperties, DropProperties, TakeDrop
<1> HIDE DEF u, v, wt
<1>8. Associates(em, u, v)
  BY <1>7, Associativity
<1>9. (em \o u) \o v \in PartlyRestored(tab, wt)
  BY <1>6, <1>7, <1>8 DEF Associates
<1> QED
  BY <1>9 DEF u, v, wt

\* Flushing the tail of a block.
LEMMA FlushedSame ==
    ASSUME NEW C, NEW tab, TextTable(C, tab),
           NEW em \in Seq(C), NEW ca \in Seq(C), NEW w \in Seq(C), SameRest(C, tab, em, ca, w)
    PROVE  em \o Restore(tab, ca) = Restore(tab, w)
<1> DEFINE e == <<>>
<1>1. ca \o e = ca /\ w \o e = w /\ e \in Seq(C)
  BY ConcatEmptySeq
<1> HIDE DEF e
<1>2. em \o Restore(tab, ca \o e) = Restore(tab, w \o e)
  BY <1>1 DEF SameRest
<1> QED
  BY <1>1, <1>2

\* The same for partial restorations.
LEMMA FlushedPartly ==
    ASSUME NEW C, NEW tab, TextTable(C, tab), InertOriginals(tab),
           NEW em \in Seq(C), NEW ca \in Seq(C), NEW w \in Seq(C), em \o ca \in PartlyRestored(tab, w)
    PROVE  (em \o Restore(tab, ca)) \o <<>> \in PartlyRestored(tab, w)
<1> DEFINE r == Restore(tab, ca)
           er == em \o r
<1>0. \A a \in tab : Inert(tab, a)
  BY InertTable
<1>1. r \in Seq(C) /\ er \in PartlyRestored(tab, w)
  BY <1>0, RestoreType, EndRestored
<1>2. er \in Seq(C)
  BY <1>1, PartlyType
<1> HIDE DEF er
<1>3. er \o <<>> = er
  BY <1>2, ConcatEmptySeq
<1> QED
  BY <1>1, <1>3 DEF er

-----------------------------------------------------------------------------
\* What one event appends to a block, when it has at most one carrier.
LEMMA TextOfOne ==
    ASSUME NEW ev \in Seq(Carriers), Len(ev) = 1, NEW j
    PROVE  TextOf(ev, j) = IF ev[1].key = j THEN ev[1].text ELSE <<>>
<1> DEFINE f == [i \in DOMAIN ev |-> IF ev[i].key = j THEN ev[i].text ELSE <<>>]
           z == IF ev[1].key = j THEN ev[1].text ELSE <<>>
           n == 1
<1>1. DOMAIN ev = 1 .. 1 /\ ev[1] \in Carriers
  <2> DEFINE m == Len(ev)
             D == Carriers
  <2>0. ev \in Seq(D)
    OBVIOUS
  <2> HIDE DEF D
  <2>1. DOMAIN ev = 1 .. m /\ \A i \in 1 .. m : ev[i] \in D
    BY <2>0
  <2> HIDE DEF m
  <2>2. m = 1
    BY DEF m
  <2> QED
    BY <2>1, <2>2 DEF D
<1>2. ev[1].text \in Seq(Characters)
  BY <1>1 DEF Carriers
<1>3. z \in Seq(Characters)
  BY <1>2
<1>4. n \in Nat /\ n \in 1 .. n /\ DOMAIN f = 1 .. n /\ Len(f) = n /\ f[n] = z /\
      \A i \in 1 .. n : i # n => f[i] = <<>>
  BY <1>1
<1>5. TextOf(ev, j) = FlattenSeq(f)
  BY DEF TextOf
<1> HIDE DEF n, f, z
<1>6. FlattenSeq(f) = z
  BY <1>3, <1>4, FlattenOne
<1> QED
  BY <1>5, <1>6 DEF z

\* An event without a carrier has no text.
LEMMA TextOfNone ==
    ASSUME NEW ev \in Seq(Carriers), Len(ev) = 0, NEW j
    PROVE  TextOf(ev, j) = <<>>
<1> DEFINE f == [i \in DOMAIN ev |-> IF ev[i].key = j THEN ev[i].text ELSE <<>>]
<1>1. DOMAIN ev = {}
  OBVIOUS
<1>2. f = <<>> /\ Len(f) = 0
  BY <1>1
<1>3. TextOf(ev, j) = FlattenSeq(f)
  BY DEF TextOf
<1> HIDE DEF f
<1> QED
  BY <1>2, <1>3 DEF FlattenSeq

\* Of several events, when at most one has a text for the block.
LEMMA TextOfAllOne ==
    ASSUME NEW n \in Nat, NEW out, DOMAIN out = 1 .. n, NEW j, NEW p \in 1 .. n,
           TextOf(out[p], j) \in Seq(Characters), \A i \in 1 .. n : i # p => TextOf(out[i], j) = <<>>
    PROVE  TextOfAll(out, j) = TextOf(out[p], j)
<1> DEFINE f == [i \in DOMAIN out |-> TextOf(out[i], j)]
           z == TextOf(out[p], j)
<1>1. DOMAIN f = 1 .. n /\ Len(f) = n /\ f[p] = z /\ \A i \in 1 .. n : i # p => f[i] = <<>>
  OBVIOUS
<1>2. TextOfAll(out, j) = FlattenSeq(f) /\ z \in Seq(Characters)
  BY DEF TextOfAll
<1> HIDE DEF f, z
<1>3. FlattenSeq(f) = z
  BY <1>1, <1>2, FlattenOne
<1> QED
  BY <1>2, <1>3 DEF z

\* None of the events has a text for the block.
LEMMA TextOfAllNone ==
    ASSUME NEW n \in Nat, NEW out, DOMAIN out = 1 .. n, NEW j, \A i \in 1 .. n : TextOf(out[i], j) = <<>>
    PROVE  TextOfAll(out, j) = <<>>
<1>1. CASE n = 0
  <2> DEFINE f == [i \in DOMAIN out |-> TextOf(out[i], j)]
  <2>1. f = <<>> /\ Len(f) = 0
    BY <1>1
  <2>2. TextOfAll(out, j) = FlattenSeq(f)
    BY DEF TextOfAll
  <2> HIDE DEF f
  <2> QED
    BY <2>1, <2>2 DEF FlattenSeq
<1>2. CASE n # 0
  <2> DEFINE p == 1
             e == <<>>
  <2>1. p \in 1 .. n /\ TextOf(out[p], j) = e /\ e \in Seq(Characters)
    BY <1>2
  <2> HIDE DEF p, e
  <2>2. \A i \in 1 .. n : i # p => TextOf(out[i], j) = <<>>
    OBVIOUS
  <2>3. TextOfAll(out, j) = TextOf(out[p], j)
    BY <2>1, <2>2, TextOfAllOne
  <2> QED
    BY <2>1, <2>3 DEF e
<1> QED
  BY <1>1, <1>2

\* A tail of the block k whose template is one text of that block.
PlainTail(p, k) ==
    p # None => \E tx \in Seq(Characters) : p.template = <<[key |-> k, text |-> tx]>> /\ p.slot = 1

\* What the flushed template of a block has is the tail, for that block.
LEMMA FlushedText ==
    ASSUME TextTable(Characters, live), NEW k \in Keys, NEW p \in PendingTails, PlainTail(p, k)
    PROVE  /\ Flushed(p) \in Seq(Carriers)
           /\ \A j : TextOf(Flushed(p), j) = IF k = j THEN Restore(live, p.tail) ELSE <<>>
           /\ Restore(live, p.tail) \in Seq(Characters)
<1>1. p # None
  BY EventAssumption
<1>2. PICK tx \in Seq(Characters) : p.template = <<[key |-> k, text |-> tx]>> /\ p.slot = 1
  BY <1>1 DEF PlainTail
<1> DEFINE r == Restore(live, p.tail)
           c == [key |-> k, text |-> r]
           ev == <<c>>
<1>3. r \in Seq(Characters)
  <2>1. p.tail \in Seq(Characters)
    BY DEF PendingTails
  <2> QED
    BY <2>1, RestoreType
<1> HIDE DEF r
<1>4. Flushed(p) = ev
  BY <1>2 DEF Flushed, r
<1>5. c \in Carriers /\ c.key = k /\ c.text = r
  BY <1>3 DEF Carriers
<1> HIDE DEF c
<1>6. ev \in Seq(Carriers) /\ Len(ev) = 1 /\ ev[1] = c
  BY <1>5
<1> HIDE DEF ev
<1>7. \A j : TextOf(ev, j) = IF k = j THEN r ELSE <<>>
  BY <1>5, <1>6, TextOfOne
<1> QED
  BY <1>3, <1>4, <1>6, <1>7 DEF r

PlainTails(held) == \A k \in Keys : PlainTail(held[k], k)

\* An event without a carrier stays as it is, and so do the tails.
LEMMA ProcessedNone ==
    ASSUME NEW e \in Events, Len(e.carriers) = 0
    PROVE  Processed(e) = [event |-> e.carriers, pending |-> pending]
<1> DEFINE cs == e.carriers
           base == [event |-> cs, pending |-> pending]
           n == Len(cs)
<1>1. cs \in Seq(Carriers) /\ n \in Nat /\ DOMAIN cs = 1 .. n /\ n = 0
  BY EventAssumption
<1>2. Processed(e) = FoldLeft(Carry, base, [i \in 1 .. n |-> i])
  BY <1>1 DEF Processed
<1> HIDE DEF base, n
<1>3. PICK g : /\ g[0] = base
               /\ \A m \in 1 .. n : g[m] = Carry(g[m - 1], m)
               /\ FoldLeft(Carry, base, [i \in 1 .. n |-> i]) = g[n]
  BY <1>1, CarryFold, ZenonT(60)
<1> QED
  BY <1>1, <1>2, <1>3 DEF base

\* The only carrier of an event.
LEMMA ProcessedOne ==
    ASSUME NEW e \in Events, Len(e.carriers) = 1
    PROVE  Processed(e) = Carried(e.carriers, pending, 1)
<1> DEFINE cs == e.carriers
           base == [event |-> cs, pending |-> pending]
           n == Len(cs)
<1>1. cs \in Seq(Carriers) /\ n \in Nat /\ DOMAIN cs = 1 .. n /\ n = 1
  BY EventAssumption
<1>2. Processed(e) = FoldLeft(Carry, base, [i \in 1 .. n |-> i])
  BY <1>1 DEF Processed
<1>3. Carry(base, 1) = Carried(cs, pending, 1)
  BY CarryIsCarried
<1> HIDE DEF base, n
<1>4. PICK g : /\ g[0] = base
               /\ \A m \in 1 .. n : g[m] = Carry(g[m - 1], m)
               /\ FoldLeft(Carry, base, [i \in 1 .. n |-> i]) = g[n]
  BY <1>1, CarryFold, ZenonT(60)
<1>5. g[1] = Carry(g[0], 1)
  <2>1. 1 \in 1 .. n /\ 1 - 1 = 0
    BY <1>1
  <2> QED
    BY <2>1, <1>4
<1> QED
  BY <1>1, <1>2, <1>3, <1>4, <1>5

\* An order of the keys in S, each once.
Listing(S, n, order) ==
    /\ order \in [1 .. n -> S]
    /\ \A i, j \in 1 .. n : i # j => order[i] # order[j]
    /\ \A s \in S : \E i \in 1 .. n : order[i] = s

\* The tails in that order, and then events without a text for the block k.
Delivery(held, n, order, m, out, k) ==
    /\ DOMAIN out = 1 .. m
    /\ \A i \in 1 .. n : out[i] = Flushed(held[order[i]])
    /\ \A i \in 1 .. m : i > n => TextOf(out[i], k) = <<>>

\* What flushing delivers to a block: its tail, when it is asked for, whatever the order.
LEMMA FlushedTexts ==
    ASSUME TextTable(Characters, live), NEW held \in Pendings, PlainTails(held),
           NEW S, S \subseteq Keys, \A k \in S : held[k] # None,
           NEW n \in Nat, NEW order, Listing(S, n, order), NEW m \in Nat, n <= m, NEW out, NEW k \in Keys,
           Delivery(held, n, order, m, out, k)
    PROVE  TextOfAll(out, k) = IF k \in S THEN Restore(live, TailOf(held[k])) ELSE <<>>
<1>0. /\ order \in [1 .. n -> S]
      /\ \A i, j \in 1 .. n : i # j => order[i] # order[j]
      /\ \A s \in S : \E i \in 1 .. n : order[i] = s
      /\ DOMAIN out = 1 .. m
      /\ \A i \in 1 .. n : out[i] = Flushed(held[order[i]])
      /\ \A i \in 1 .. m : i > n => TextOf(out[i], k) = <<>>
  BY DEF Listing, Delivery
<1>1. ASSUME NEW i \in 1 .. n
      PROVE  TextOf(out[i], k) = (IF order[i] = k THEN Restore(live, TailOf(held[order[i]])) ELSE <<>>)
  <2> DEFINE o == order[i]
             p == held[o]
  <2>1. o \in S /\ o \in Keys /\ p # None
    BY <1>0
  <2>2. p \in PendingTails /\ PlainTail(p, o)
    BY <2>1 DEF Pendings, PlainTails
  <2>3. out[i] = Flushed(p) /\ TailOf(p) = p.tail
    BY <1>0, <2>1 DEF TailOf
  <2> HIDE DEF p, o
  <2>4. TextOf(Flushed(p), k) = IF o = k THEN Restore(live, p.tail) ELSE <<>>
    BY <2>1, <2>2, FlushedText
  <2> QED
    BY <2>3, <2>4 DEF p, o
<1>2. CASE k \in S
  <2>1. PICK i \in 1 .. n : order[i] = k
    BY <1>0, <1>2
  <2>2. i \in 1 .. m
    OBVIOUS
  <2>3. TextOf(out[i], k) = Restore(live, TailOf(held[k]))
    BY <1>1, <2>1
  <2>4. TextOf(out[i], k) \in Seq(Characters)
    <3>1. TailOf(held[k]) \in Seq(Characters)
      BY TailType DEF Pendings
    <3> QED
      BY <2>3, <3>1, RestoreType
  <2>5. ASSUME NEW j \in 1 .. m, j # i PROVE TextOf(out[j], k) = <<>>
    <3>1. CASE j > n
      BY <1>0, <3>1
    <3>2. CASE ~(j > n)
      <4>1. j \in 1 .. n
        BY <3>2
      <4>2. order[j] # k
        BY <1>0, <2>1, <2>5, <4>1
      <4> QED
        BY <1>1, <4>1, <4>2
    <3> QED
      BY <3>1, <3>2
  <2>6. TextOfAll(out, k) = TextOf(out[i], k)
    BY <1>0, <2>2, <2>4, <2>5, TextOfAllOne
  <2> QED
    BY <1>2, <2>3, <2>6
<1>3. CASE k \notin S
  <2>1. ASSUME NEW j \in 1 .. m PROVE TextOf(out[j], k) = <<>>
    <3>1. CASE j > n
      BY <1>0, <3>1
    <3>2. CASE ~(j > n)
      <4>1. j \in 1 .. n
        BY <3>2
      <4>2. order[j] # k
        BY <1>0, <1>3, <4>1
      <4> QED
        BY <1>1, <4>1, <4>2
    <3> QED
      BY <3>1, <3>2
  <2>2. TextOfAll(out, k) = <<>>
    BY <1>0, <2>1, TextOfAllNone
  <2> QED
    BY <1>3, <2>2
<1> QED
  BY <1>2, <1>3

\* What is sent with a flush: the tails in some order, and then the event itself, if any.
Tails(held, order) == [i \in DOMAIN order |-> Flushed(held[order[i]])]

\* The two kinds of delivery, with the event itself at the end and without it.
LEMMA FlushDelivers ==
    ASSUME TextTable(Characters, live), NEW held \in Pendings, PlainTails(held), NEW keys, keys \subseteq Keys,
           NEW order \in FlushOrders(held, keys), NEW ev \in Seq(Carriers), NEW k \in Keys
    PROVE  LET text == IF k \in keys THEN Restore(live, TailOf(held[k])) ELSE <<>> IN
           /\ TextOfAll(Tails(held, order), k) = text
           /\ TextOf(ev, k) = <<>> => TextOfAll(Tails(held, order) \o <<ev>>, k) = text
           /\ keys = {} /\ TextOf(ev, k) \in Seq(Characters) =>
                TextOfAll(Tails(held, order) \o <<ev>>, k) = TextOf(ev, k)
<1> DEFINE S == {j \in keys : held[j] # None}
           text == IF k \in keys THEN Restore(live, TailOf(held[k])) ELSE <<>>
           X == Tails(held, order)
           Y == X \o <<ev>>
<1>1. IsFiniteSet(S)
  <2>1. S \subseteq Keys /\ IsFiniteSet(Keys)
    BY EventAssumption
  <2> HIDE DEF S
  <2> QED
    BY <2>1, FS_Subset
<1>2. order \in SetToSeqs(S)
  BY DEF FlushOrders
<1>3. text = IF k \in S THEN Restore(live, TailOf(held[k])) ELSE <<>>
  <2>1. CASE k \in keys /\ held[k] = None
    <3>1. TailOf(held[k]) = <<>> /\ Restore(live, <<>>) = <<>>
      BY <2>1, RestoreType DEF TailOf
    <3> QED
      BY <2>1, <3>1
  <2>2. CASE ~(k \in keys /\ held[k] = None)
    BY <2>2
  <2> QED
    BY <2>1, <2>2
<1>4. S \subseteq Keys /\ (\A j \in S : held[j] # None) /\ (keys = {} => S = {})
  OBVIOUS
<1> HIDE DEF S, text
<1>5. PICK n \in Nat : /\ order \in [1 .. n -> S] /\ DOMAIN order = 1 .. n
                       /\ \A i, j \in 1 .. n : i # j => order[i] # order[j]
                       /\ \A s \in S : \E i \in 1 .. n : order[i] = s
  BY <1>1, <1>2, OrderIsBijection, SMTT(60)
<1>6. DOMAIN X = 1 .. n /\ Len(X) = n /\ \A i \in 1 .. n : X[i] = Flushed(held[order[i]])
  BY <1>5 DEF Tails
<1>7. Listing(S, n, order)
  BY <1>5 DEF Listing
<1>7a. TextOfAll(X, k) = IF k \in S THEN Restore(live, TailOf(held[k])) ELSE <<>>
  <2>1. \A i \in 1 .. n : i > n => TextOf(X[i], k) = <<>>
    BY <1>5
  <2> HIDE DEF X
  <2>2. Delivery(held, n, order, n, X, k)
    BY <1>6, <2>1 DEF Delivery
  <2>3. n <= n
    OBVIOUS
  <2> QED
    BY <1>4, <1>7, <2>2, <2>3, FlushedTexts
<1>8. \A i \in 1 .. n : X[i] \in Seq(Carriers)
  <2> SUFFICES ASSUME NEW i \in 1 .. n PROVE X[i] \in Seq(Carriers)
    OBVIOUS
  <2> DEFINE o == order[i]
             p == held[o]
  <2>1. o \in S /\ o \in Keys /\ p # None
    BY <1>4, <1>5
  <2>2. p \in PendingTails /\ PlainTail(p, o)
    BY <2>1 DEF Pendings, PlainTails
  <2>3. X[i] = Flushed(p)
    BY <1>6
  <2> HIDE DEF p, o, X
  <2> QED
    BY <2>1, <2>2, <2>3, FlushedText
<1> DEFINE m == n + 1
<1>9. DOMAIN Y = 1 .. m /\ (\A i \in 1 .. n : Y[i] = X[i]) /\ Y[m] = ev
  <2> DEFINE D == Seq(Carriers)
  <2>1. ev \in D /\ \A i \in 1 .. n : X[i] \in D
    BY <1>8
  <2> HIDE DEF D, X
  <2> QED
    BY <1>5, <1>6, <2>1
<1> HIDE DEF X, Y
<1>10. m \in Nat /\ n <= m /\ m \in 1 .. m /\ \A i \in 1 .. m : i > n => i = m
  BY <1>5
<1> HIDE DEF m
<1>11. ASSUME TextOf(ev, k) = <<>> PROVE TextOfAll(Y, k) = IF k \in S THEN Restore(live, TailOf(held[k])) ELSE <<>>
  <2>1. \A i \in 1 .. m : i > n => TextOf(Y[i], k) = <<>>
    BY <1>9, <1>10, <1>11
  <2>2. \A i \in 1 .. n : Y[i] = Flushed(held[order[i]])
    BY <1>6, <1>9
  <2> QED
    <3>1. Delivery(held, n, order, m, Y, k)
      BY <1>9, <2>1, <2>2 DEF Delivery
    <3> QED
      BY <1>4, <1>7, <1>10, <3>1, FlushedTexts
<1>12. ASSUME keys = {}, TextOf(ev, k) \in Seq(Characters) PROVE TextOfAll(Y, k) = TextOf(ev, k)
  <2>1. n = 0 /\ m = 1
    <3>1. n = 0
      BY <1>4, <1>5, <1>12
    <3> QED
      BY <3>1 DEF m
  <2>2. \A i \in 1 .. m : i # m => TextOf(Y[i], k) = <<>>
    BY <2>1
  <2>3. TextOfAll(Y, k) = TextOf(Y[m], k)
    BY <1>9, <1>10, <1>12, <2>2, TextOfAllOne
  <2> QED
    BY <1>9, <2>3
<1>13. TextOfAll(X, k) = text
  BY <1>3, <1>7a
<1>14. TextOf(ev, k) = <<>> => TextOfAll(Y, k) = text
  BY <1>3, <1>11, SMTT(60)
<1> QED
  BY <1>12, <1>13, <1>14 DEF X, Y, text

\* A block that gets a text: em, ca and w are what the client has, the tail and what was received.
Extended(tbl, em, ca, w, em2, ca2, w2) ==
    \E t \in Seq(Characters) :
        LET rs == Restore(tbl, ca \o t)
            n == Len(rs) - Holdback(tbl, tbl, rs)
        IN  em2 = em \o Take(rs, n) /\ ca2 = Drop(rs, n) /\ w2 = w \o t

\* A block whose tail is flushed.
Closed(tbl, em, ca, w, em2, ca2, w2) == em2 = em \o Restore(tbl, ca) /\ ca2 = <<>> /\ w2 = w

\* An event with one text adds it to the tail of its block, and holds the end back.
LEMMA TextTails ==
    ASSUME TextTable(Characters, live), IsFiniteSet(live), pending \in Pendings, PlainTails(pending),
           NEW e \in Events, Len(e.carriers) = 1
    PROVE  \E k \in Keys, t \in Seq(Characters), ev \in Seq(Carriers), hd \in Pendings :
              LET rs == Restore(live, TailOf(pending[k]) \o t)
                  n == Len(rs) - Holdback(live, live, rs)
              IN  /\ Processed(e) = [event |-> ev, pending |-> hd]
                  /\ e.carriers[1].key = k
                  /\ Take(rs, n) \in Seq(Characters)
                  /\ \A j : TextOf(e.carriers, j) = IF k = j THEN t ELSE <<>>
                  /\ \A j : TextOf(ev, j) = IF k = j THEN Take(rs, n) ELSE <<>>
                  /\ TailOf(hd[k]) = Drop(rs, n)
                  /\ \A j \in Keys : j # k => hd[j] = pending[j]
                  /\ PlainTail(hd[k], k)
<1> DEFINE C == Characters
           cs == e.carriers
           c == cs[1]
           k == c.key
           t == c.text
           cat == TailOf(pending[k]) \o t
           rs == Restore(live, cat)
           n == Len(rs) - Holdback(live, live, rs)
           head == Take(rs, n)
           tail == Drop(rs, n)
           c2 == [key |-> k, text |-> head]
           ev == <<c2>>
           p == IF n = Len(rs) THEN None ELSE [tail |-> tail, template |-> ev, slot |-> 1]
           hd == [pending EXCEPT ![k] = p]
<1>1. cs \in Seq(Carriers) /\ Len(cs) = 1
  BY EventAssumption
<1>2. cs[1] \in Carriers
  <2> DEFINE D == Carriers
             m == Len(cs)
  <2>0. cs \in Seq(D)
    BY <1>1
  <2> HIDE DEF D
  <2>1. \A i \in 1 .. m : cs[i] \in D
    BY <2>0
  <2> HIDE DEF m, cs
  <2>2. m = 1
    BY <1>1 DEF m
  <2> QED
    BY <2>1, <2>2 DEF D
<1>3. k \in Keys /\ t \in Seq(C) /\ c = [key |-> k, text |-> t]
  BY <1>2 DEF Carriers
<1>4. \A j : TextOf(cs, j) = IF k = j THEN t ELSE <<>>
  <2> HIDE DEF cs
  <2> QED
    BY <1>1, TextOfOne
<1>5. TailOf(pending[k]) \in Seq(C)
  BY <1>3, TailType DEF Pendings
<1>6. cat \in Seq(C)
  BY <1>3, <1>5
<1> HIDE DEF cat
<1>7. rs \in Seq(C)
  BY <1>6, RestoreType
<1> HIDE DEF rs
<1>8. Holdback(live, live, rs) \in 0 .. Len(rs)
  <2> HIDE DEF C
  <2>1. HASH_HEX_LEN \in Nat
    BY CharactersProperties
  <2>2. PREFIX \in Seq(C)
    BY CharactersProperties DEF C
  <2>3. TextTable(C, live)
    BY DEF C
  <2> QED
    BY <1>7, <2>1, <2>2, <2>3, HoldbackBounds
<1>9. n \in 0 .. Len(rs)
  BY <1>7, <1>8
<1> HIDE DEF n
<1>10. head \in Seq(C) /\ tail \in Seq(C)
  BY <1>7, <1>9, TakeProperties, DropProperties
<1>11. n = Len(rs) => tail = <<>>
  BY <1>7, <1>9 DEF Drop
<1> HIDE DEF head, tail
<1>12. c2 \in Carriers /\ c2.key = k /\ c2.text = head
  BY <1>3, <1>10 DEF Carriers
<1>13. ev \in Seq(Carriers) /\ Len(ev) = 1 /\ ev[1] = c2
  <2> HIDE DEF c2
  <2> QED
    BY <1>12
<1>14. \A j : TextOf(ev, j) = IF k = j THEN head ELSE <<>>
  <2> HIDE DEF c2, ev
  <2> QED
    BY <1>12, <1>13, TextOfOne
<1>15. [cs EXCEPT ![1].text = head] = ev
  <2>1. [cs EXCEPT ![1].text = head] = [cs EXCEPT ![1] = c2]
    <3>1. [c EXCEPT !.text = head] = c2
      BY <1>3
    <3> QED
      BY <3>1
  <2>2. cs = <<c>>
    BY <1>1
  <2> HIDE DEF c2, cs
  <2>3. [cs EXCEPT ![1] = c2] = <<c2>>
    BY <1>1, <2>2
  <2> QED
    BY <2>1, <2>3
<1> HIDE DEF ev
<1>16. Processed(e) = [event |-> ev, pending |-> hd]
  <2>1. Processed(e) = Carried(cs, pending, 1)
    BY ProcessedOne, SMTT(60)
  <2>2. Carried(cs, pending, 1) = [event |-> ev, pending |-> hd]
    BY <1>15 DEF Carried, hd, p, head, tail, n, rs, cat
  <2> QED
    BY <2>1, <2>2
<1>17. p \in {None} \cup PendingTails
  BY <1>10, <1>13 DEF PendingTails
<1>18. TailOf(p) = tail
  <2>1. CASE n = Len(rs)
    BY <1>11, <2>1 DEF TailOf
  <2>2. CASE n # Len(rs)
    <3>1. p # None
      BY <1>17, <2>2, <1>10, <1>13, EventAssumption DEF PendingTails
    <3> QED
      BY <2>2, <3>1 DEF TailOf
  <2> QED
    BY <2>1, <2>2
<1>19. PlainTail(p, k)
  <2> SUFFICES ASSUME p # None PROVE \E tx \in Seq(C) : p.template = <<[key |-> k, text |-> tx]>> /\ p.slot = 1
    BY DEF PlainTail
  <2>1. p.template = ev /\ p.slot = 1
    OBVIOUS
  <2> QED
    BY <1>10, <2>1 DEF ev
<1> HIDE DEF p
<1>20. hd \in Pendings /\ hd[k] = p /\ \A j \in Keys : j # k => hd[j] = pending[j]
  BY <1>3, <1>17 DEF Pendings
<1> HIDE DEF hd
<1>21. TailOf(hd[k]) = tail /\ PlainTail(hd[k], k)
  BY <1>18, <1>19, <1>20
<1> k \in Keys /\ t \in Seq(C) /\ ev \in Seq(Carriers) /\ hd \in Pendings
  BY <1>3, <1>13, <1>20, SMTT(60)
<1> WITNESS k \in Keys, t \in Seq(C), ev \in Seq(Carriers), hd \in Pendings
<1> QED
  BY <1>4, <1>10, <1>14, <1>16, <1>20, <1>21 DEF head, tail, n, rs, cat

PlainTexts ==
    /\ TailInv
    /\ received \in [Keys -> Seq(Characters)]
    /\ delivered \in [Keys -> Seq(Characters)]
    /\ PlainTails(pending)

\* What a step does to the block k.
BlockExtended(k) ==
    Extended(live, delivered[k], TailOf(pending[k]), received[k],
             delivered'[k], TailOf(pending'[k]), received'[k])
BlockClosed(k) ==
    Closed(live, delivered[k], TailOf(pending[k]), received[k],
           delivered'[k], TailOf(pending'[k]), received'[k])
BlockSame(k) ==
    delivered'[k] = delivered[k] /\ TailOf(pending'[k]) = TailOf(pending[k]) /\ received'[k] = received[k]

LEMMA LiveTable == SseTails => TextTable(Characters, live)
  BY CharactersProperties DEF SseTails

\* A terminator of a plain event asks for the tails of just the blocks that it ends.
LEMMA PlainTerminated ==
    ASSUME PlainEvents, NEW e \in Events
    PROVE  Terminated(e.terminator) = e.ends
<1>1. e.ends \subseteq Keys
  BY EventAssumption
<1>2. \A k \in Keys : k \in e.ends <=> e.terminator # None /\ IsPrefix(e.terminator, k)
  BY Zenon DEF PlainEvents
<1>3. ASSUME NEW k \in Keys PROVE k \in Terminated(e.terminator) <=> k \in e.ends
  BY <1>2, <1>3, Zenon DEF Terminated
<1>4. Terminated(e.terminator) \subseteq Keys
  BY DEF Terminated
<1> QED
  BY <1>1, <1>3, <1>4

\* An event with a text extends one block.
LEMMA ReceiveText ==
    ASSUME PlainEvents, PlainTexts, NEW e \in Events, Len(e.carriers) = 1, Receive(e)
    PROVE  /\ ended' = ended
           /\ PlainTails(pending')
           /\ \E k \in Keys \ ended : BlockExtended(k) /\ \A j \in Keys \ {k} : BlockSame(j)
<1>0. TextTable(Characters, live) /\ IsFiniteSet(live) /\ pending \in Pendings /\ PlainTails(pending)
  BY LiveTable DEF PlainTexts, TailInv, SseTails
<1>1. PICK k \in Keys, t \in Seq(Characters), ev \in Seq(Carriers), hd \in Pendings :
              LET rs == Restore(live, TailOf(pending[k]) \o t)
                  n == Len(rs) - Holdback(live, live, rs)
              IN  /\ Processed(e) = [event |-> ev, pending |-> hd]
                  /\ e.carriers[1].key = k
                  /\ Take(rs, n) \in Seq(Characters)
                  /\ \A j : TextOf(e.carriers, j) = IF k = j THEN t ELSE <<>>
                  /\ \A j : TextOf(ev, j) = IF k = j THEN Take(rs, n) ELSE <<>>
                  /\ TailOf(hd[k]) = Drop(rs, n)
                  /\ \A j \in Keys : j # k => hd[j] = pending[j]
                  /\ PlainTail(hd[k], k)
  BY <1>0, TextTails
<1> DEFINE rs == Restore(live, TailOf(pending[k]) \o t)
           n == Len(rs) - Holdback(live, live, rs)
           head == Take(rs, n)
           keys == Terminated(e.terminator)
<1>2. e.ends = {} /\ keys = {}
  <2>1. e.carriers # <<>>
    BY OneIsNotEmpty
  <2> QED
    BY <2>1, PlainTerminated DEF PlainEvents
<1>3. ended' = ended
  BY <1>2 DEF Receive, RestoreJsonEvent
<1>4. k \notin ended
  <2>1. 1 \in DOMAIN e.carriers
    <3>1. e.carriers \in Seq(Carriers)
      BY EventAssumption
    <3> DEFINE cs == e.carriers
               D == Carriers
    <3>2. cs \in Seq(D) /\ Len(cs) = 1
      BY <3>1
    <3> HIDE DEF cs, D
    <3>3. 1 \in DOMAIN cs
      BY <3>2
    <3> QED
      BY <3>3 DEF cs
  <2> QED
    BY <1>1, <2>1 DEF Receive
<1>5. pending' = FlushPending(hd, keys)
  BY <1>1 DEF Receive, RestoreJsonEvent, Processed
<1>6. \A j \in Keys : pending'[j] = hd[j]
  BY <1>2, <1>5, FlushedType
<1>7. PlainTails(hd)
  BY <1>0, <1>1 DEF PlainTails
<1>8. PlainTails(pending')
  BY <1>6, <1>7 DEF PlainTails
<1>9. PICK order \in FlushOrders(hd, keys) : Deliver(Tails(hd, order) \o <<ev>>)
  <2>1. \E order \in FlushOrders(Processed(e).pending, keys) :
           Deliver(Tails(Processed(e).pending, order) \o <<Processed(e).event>>)
    BY Zenon DEF Receive, RestoreJsonEvent, Processed, Tails
  <2>2. Processed(e).pending = hd /\ Processed(e).event = ev
    BY <1>1
  <2> QED
    BY <2>1, <2>2, Zenon
<1>10. \A j : TextOf(ev, j) = (IF k = j THEN head ELSE <<>>) /\ head \in Seq(Characters)
  BY <1>1
<1> HIDE DEF head, keys
<1>11. \A j \in Keys : delivered'[j] = delivered[j] \o (IF k = j THEN head ELSE <<>>)
  <2> SUFFICES ASSUME NEW j \in Keys PROVE delivered'[j] = delivered[j] \o (IF k = j THEN head ELSE <<>>)
    OBVIOUS
  <2>1. TextOf(ev, j) \in Seq(Characters)
    <3>1. head \in Seq(Characters) /\ TextOf(ev, j) = IF k = j THEN head ELSE <<>>
      BY <1>10
    <3>2. <<>> \in Seq(Characters)
      OBVIOUS
    <3> QED
      BY <3>1, <3>2, Zenon
  <2>2. keys \subseteq Keys
    BY <1>2
  <2>3. TextOfAll(Tails(hd, order) \o <<ev>>, j) = TextOf(ev, j)
    BY <1>0, <1>2, <1>7, <1>9, <2>1, <2>2, FlushDelivers
  <2>4. delivered'[j] = delivered[j] \o TextOfAll(Tails(hd, order) \o <<ev>>, j)
    BY <1>9 DEF Deliver
  <2> QED
    BY <1>10, <2>3, <2>4
<1>12. \A j \in Keys : received'[j] = received[j] \o (IF k = j THEN t ELSE <<>>)
  <2>1. \A j \in Keys : received'[j] = received[j] \o TextOf(e.carriers, j)
    BY DEF Receive, RestoreJsonEvent
  <2> QED
    BY <1>1, <2>1
<1>13. BlockExtended(k)
  <2>1. delivered'[k] = delivered[k] \o head /\ received'[k] = received[k] \o t
    BY <1>11, <1>12
  <2>2. TailOf(pending'[k]) = Drop(rs, n)
    BY <1>1, <1>6
  <2> QED
    BY <2>1, <2>2 DEF BlockExtended, Extended, head
<1>14. ASSUME NEW j \in Keys \ {k} PROVE BlockSame(j)
  <2>1. delivered'[j] = delivered[j] \o <<>> /\ received'[j] = received[j] \o <<>>
    BY <1>11, <1>12
  <2>2. delivered[j] \in Seq(Characters) /\ received[j] \in Seq(Characters)
    BY DEF PlainTexts
  <2>3. delivered'[j] = delivered[j] /\ received'[j] = received[j]
    BY <2>1, <2>2, ConcatEmptySeq
  <2>4. pending'[j] = pending[j]
    BY <1>1, <1>6
  <2> QED
    BY <2>3, <2>4 DEF BlockSame
<1> QED
  BY <1>3, <1>4, <1>8, <1>13, <1>14

LEMMA PlainTailsFlushed ==
    ASSUME NEW held \in Pendings, PlainTails(held), NEW keys
    PROVE  PlainTails(FlushPending(held, keys))
<1> SUFFICES ASSUME NEW k \in Keys PROVE PlainTail(FlushPending(held, keys)[k], k)
  BY DEF PlainTails
<1>1. FlushPending(held, keys)[k] = IF k \in keys THEN None ELSE held[k]
  BY FlushedType
<1> QED
  BY <1>1 DEF PlainTails, PlainTail

\* The other events flush the tails of the blocks that they end.
LEMMA ReceiveEnd ==
    ASSUME PlainEvents, PlainTexts, NEW e \in Events, Len(e.carriers) = 0, Receive(e)
    PROVE  /\ ended' = ended \cup e.ends
           /\ PlainTails(pending')
           /\ \A k \in Keys : IF k \in e.ends THEN BlockClosed(k) ELSE BlockSame(k)
<1>0. TextTable(Characters, live) /\ pending \in Pendings /\ PlainTails(pending)
  BY LiveTable DEF PlainTexts, TailInv, SseTails
<1> DEFINE cs == e.carriers
           keys == e.ends
<1>1. Terminated(e.terminator) = keys /\ keys \subseteq Keys /\ cs \in Seq(Carriers)
  BY EventAssumption, PlainTerminated
<1>2. \A j : TextOf(cs, j) = <<>>
  BY <1>1, TextOfNone
<1>3. Processed(e) = [event |-> cs, pending |-> pending]
  BY ProcessedNone
<1>4. ended' = ended \cup keys
  BY DEF Receive, RestoreJsonEvent
<1>5. pending' = FlushPending(pending, keys)
  BY <1>1, <1>3 DEF Receive, RestoreJsonEvent, Processed
<1>6. PICK order \in FlushOrders(pending, keys) : Deliver(Tails(pending, order) \o <<cs>>)
  <2>1. \E order \in FlushOrders(Processed(e).pending, Terminated(e.terminator)) :
           Deliver(Tails(Processed(e).pending, order) \o <<Processed(e).event>>)
    BY Zenon DEF Receive, RestoreJsonEvent, Processed, Tails
  <2>2. Processed(e).pending = pending /\ Processed(e).event = cs
    BY <1>3
  <2> QED
    BY <1>1, <2>1, <2>2, Zenon
<1>7. received' = [k \in Keys |-> received[k] \o TextOf(cs, k)]
  BY DEF Receive, RestoreJsonEvent
<1> HIDE DEF keys, cs
<1>8. PlainTails(pending')
  BY <1>0, <1>5, PlainTailsFlushed
<1>9. ASSUME NEW k \in Keys PROVE IF k \in keys THEN BlockClosed(k) ELSE BlockSame(k)
  <2> DEFINE text == IF k \in keys THEN Restore(live, TailOf(pending[k])) ELSE <<>>
  <2>1. delivered[k] \in Seq(Characters) /\ received[k] \in Seq(Characters)
    BY DEF PlainTexts
  <2>2. received'[k] = received[k]
    <3>1. received'[k] = received[k] \o <<>>
      BY <1>2, <1>7
    <3> QED
      BY <2>1, <3>1, ConcatEmptySeq
  <2>3. delivered'[k] = delivered[k] \o text
    <3>1. TextOfAll(Tails(pending, order) \o <<cs>>, k) = text
      BY <1>0, <1>1, <1>2, <1>6, FlushDelivers
    <3> QED
      BY <1>6, <3>1 DEF Deliver
  <2>4. pending'[k] = IF k \in keys THEN None ELSE pending[k]
    BY <1>0, <1>5, FlushedType
  <2>5. CASE k \in keys
    <3>1. TailOf(pending'[k]) = <<>>
      BY <2>4, <2>5 DEF TailOf
    <3> QED
      BY <2>2, <2>3, <2>5, <3>1 DEF BlockClosed, Closed
  <2>6. CASE k \notin keys
    <3>1. delivered'[k] = delivered[k]
      BY <2>1, <2>3, <2>6, ConcatEmptySeq
    <3> QED
      BY <2>2, <2>4, <2>6, <3>1 DEF BlockSame
  <2> QED
    BY <2>5, <2>6
<1> QED
  BY <1>4, <1>8, <1>9 DEF keys

\* The end of the response flushes the tails of all blocks.
LEMMA FinishEnds ==
    ASSUME PlainTexts, Finish
    PROVE  PlainTails(pending') /\ \A k \in Keys : BlockClosed(k)
<1>0. TextTable(Characters, live) /\ pending \in Pendings /\ PlainTails(pending)
  BY LiveTable DEF PlainTexts, TailInv, SseTails
<1>1. pending' = FlushPending(pending, Keys) /\ received' = received
  BY DEF Finish
<1>2. PICK order \in FlushOrders(pending, Keys) : Deliver(Tails(pending, order))
  BY DEF Finish, Tails
<1>3. PlainTails(pending')
  BY <1>0, <1>1, PlainTailsFlushed
<1>4. ASSUME NEW k \in Keys PROVE BlockClosed(k)
  <2> DEFINE ev == <<>>
  <2>1. ev \in Seq(Carriers)
    OBVIOUS
  <2> HIDE DEF ev
  <2>2. TextOfAll(Tails(pending, order), k) = Restore(live, TailOf(pending[k]))
    BY <1>0, <1>2, <2>1, FlushDelivers
  <2>3. delivered'[k] = delivered[k] \o Restore(live, TailOf(pending[k]))
    BY <1>2, <2>2 DEF Deliver
  <2>4. TailOf(pending'[k]) = <<>>
    BY <1>0, <1>1, FlushedType DEF TailOf
  <2> QED
    BY <1>1, <2>3, <2>4 DEF BlockClosed, Closed
<1> QED
  BY <1>3, <1>4

\* The aliases can be told apart, and no original contains a part of one.
Distinct(tbl) == NoOverlap(tbl) /\ NoneWithin(tbl) /\ WellShaped(tbl) /\ InertOriginals(tbl)

\* A text keeps a block exact, and a partial restoration.
LEMMA ExtendedBlock ==
    ASSUME NEW tbl, TextTable(Characters, tbl), IsFiniteSet(tbl),
           NEW em \in Seq(Characters), NEW ca \in Seq(Characters), NEW w \in Seq(Characters),
           NEW em2, NEW ca2, NEW w2, Extended(tbl, em, ca, w, em2, ca2, w2)
    PROVE  /\ em2 \in Seq(Characters) /\ w2 \in Seq(Characters)
           /\ Distinct(tbl) /\ SameRest(Characters, tbl, em, ca, w) => SameRest(Characters, tbl, em2, ca2, w2)
           /\ InertOriginals(tbl) /\ em \o ca \in PartlyRestored(tbl, w) => em2 \o ca2 \in PartlyRestored(tbl, w2)
<1> DEFINE C == Characters
<1>0. PREFIX \in Seq(C) /\ HASH_HEX_LEN \in Nat
  BY CharactersProperties
<1>1. PICK t \in Seq(C) :
        LET rs == Restore(tbl, ca \o t)
            n == Len(rs) - Holdback(tbl, tbl, rs)
        IN  em2 = em \o Take(rs, n) /\ ca2 = Drop(rs, n) /\ w2 = w \o t
  BY DEF Extended
<1> DEFINE cat == ca \o t
           rs == Restore(tbl, cat)
           n == Len(rs) - Holdback(tbl, tbl, rs)
<1>2. TextTable(C, tbl) /\ em \in Seq(C) /\ ca \in Seq(C) /\ w \in Seq(C)
  OBVIOUS
<1> HIDE DEF C
<1>3. cat \in Seq(C)
  BY <1>2
<1>4. em2 = em \o Take(rs, n) /\ ca2 = Drop(rs, n) /\ w2 = w \o t
  BY <1>1
<1>5. rs = Restore(tbl, ca \o t)
  OBVIOUS
<1> HIDE DEF cat
<1>6. rs \in Seq(C)
  BY <1>2, <1>3, RestoreType
<1> HIDE DEF rs
<1>7. Holdback(tbl, tbl, rs) \in 0 .. Len(rs)
  BY <1>0, <1>2, <1>6, HoldbackBounds
<1>8. n \in 0 .. Len(rs)
  BY <1>6, <1>7
<1>9. em2 \in Seq(C) /\ w2 \in Seq(C)
  <2>1. Take(rs, n) \in Seq(C)
    BY <1>6, <1>8, TakeProperties
  <2> QED
    BY <1>2, <1>4, <2>1
<1>10. ASSUME Distinct(tbl), SameRest(C, tbl, em, ca, w) PROVE SameRest(C, tbl, em2, ca2, w2)
  <2>1. NoOverlap(tbl) /\ NoneWithin(tbl) /\ WellShaped(tbl) /\ InertOriginals(tbl)
    BY <1>10 DEF Distinct
  <2>2. SameRest(C, tbl, em \o Take(rs, n), Drop(rs, n), w \o t)
    BY <1>0, <1>2, <1>5, <1>10, <2>1, CarriedSame
  <2> QED
    BY <1>4, <2>2
<1>11. ASSUME InertOriginals(tbl), em \o ca \in PartlyRestored(tbl, w) PROVE em2 \o ca2 \in PartlyRestored(tbl, w2)
  <2> HIDE DEF n
  <2>1. (em \o Take(rs, n)) \o Drop(rs, n) \in PartlyRestored(tbl, w \o t)
    BY <1>2, <1>5, <1>8, <1>11, CarriedPartly
  <2> QED
    BY <1>4, <2>1
<1> QED
  BY <1>9, <1>10, <1>11 DEF C

\* A flush completes a block.
LEMMA ClosedBlock ==
    ASSUME NEW tbl, TextTable(Characters, tbl),
           NEW em \in Seq(Characters), NEW ca \in Seq(Characters), NEW w \in Seq(Characters),
           NEW em2, NEW ca2, NEW w2, Closed(tbl, em, ca, w, em2, ca2, w2)
    PROVE  /\ em2 \in Seq(Characters) /\ w2 \in Seq(Characters)
           /\ SameRest(Characters, tbl, em, ca, w) => em2 = Restore(tbl, w2)
           /\ ca = <<>> => em2 = em
           /\ InertOriginals(tbl) /\ em \o ca \in PartlyRestored(tbl, w) => em2 \o ca2 \in PartlyRestored(tbl, w2)
<1> DEFINE C == Characters
           r == Restore(tbl, ca)
<1>1. em2 = em \o r /\ ca2 = <<>> /\ w2 = w
  BY DEF Closed
<1>2. TextTable(C, tbl) /\ em \in Seq(C) /\ ca \in Seq(C) /\ w \in Seq(C)
  OBVIOUS
<1> HIDE DEF C
<1>3. r \in Seq(C)
  BY <1>2, RestoreType
<1>4. em2 \in Seq(C) /\ w2 \in Seq(C)
  <2> HIDE DEF r
  <2> QED
    BY <1>1, <1>2, <1>3
<1>5. ASSUME SameRest(C, tbl, em, ca, w) PROVE em2 = Restore(tbl, w2)
  <2>1. em \o Restore(tbl, ca) = Restore(tbl, w)
    BY <1>2, <1>5, FlushedSame
  <2> QED
    BY <1>1, <2>1
<1>6. ASSUME ca = <<>> PROVE em2 = em
  <2>1. r = <<>>
    BY <1>2, <1>6, RestoreType
  <2>2. em \o <<>> = em
    BY <1>2, ConcatEmptySeq
  <2> QED
    BY <1>1, <2>1, <2>2
<1>7. ASSUME InertOriginals(tbl), em \o ca \in PartlyRestored(tbl, w) PROVE em2 \o ca2 \in PartlyRestored(tbl, w2)
  <2>1. (em \o Restore(tbl, ca)) \o <<>> \in PartlyRestored(tbl, w)
    BY <1>2, <1>7, FlushedPartly
  <2> QED
    BY <1>1, <2>1
<1> QED
  BY <1>4, <1>5, <1>6, <1>7 DEF C

-----------------------------------------------------------------------------
\* The client has the block as one restoration of the whole block gives it, or will have it
\* whatever the rest of the block is.
ExactBlock(k) ==
    IF k \in ended \/ finished THEN delivered[k] = Restore(live, received[k])
    ELSE SameRest(Characters, live, delivered[k], TailOf(pending[k]), received[k])

PartBlock(k) == delivered[k] \o TailOf(pending[k]) \in PartlyRestored(live, received[k])

PlainInv ==
    /\ PlainTexts
    /\ Distinct(live) => \A k \in Keys : ExactBlock(k)
    /\ InertOriginals(live) => \A k \in Keys : PartBlock(k)

\* The invariant holds when nothing has arrived.
LEMMA PlainStart ==
    ASSUME live \in Tables, pending = [k \in Keys |-> None], received = [k \in Keys |-> <<>>],
           delivered = [k \in Keys |-> <<>>], ended = {}, finished = FALSE
    PROVE  PlainInv
<1>1. TailInv
  BY EventAssumption DEF TailInv, SseTails, Pendings, NoTailAfterEnd
<1> DEFINE e == <<>>
<1>2. e \in Seq(Characters) /\ e \o e = e
  BY ConcatEmptySeq
<1>3. ended = {} /\ finished = FALSE
  OBVIOUS
<1>4. \A k \in Keys : pending[k] = None /\ TailOf(pending[k]) = e
  BY DEF TailOf
<1>5. received = [k \in Keys |-> e] /\ delivered = [k \in Keys |-> e]
  OBVIOUS
<1> HIDE DEF e
<1>6. PlainTexts
  BY <1>1, <1>2, <1>4, <1>5 DEF PlainTexts, PlainTails, PlainTail
<1>7. ASSUME NEW k \in Keys PROVE ExactBlock(k) /\ PartBlock(k)
  <2>1. delivered[k] = e /\ received[k] = e /\ TailOf(pending[k]) = e
    BY <1>4, <1>5
  <2>2. TextTable(Characters, live)
    BY <1>1, LiveTable DEF TailInv
  <2>3. SameRest(Characters, live, e, e, e)
    <3> SUFFICES ASSUME NEW x \in Seq(Characters) PROVE e \o Restore(live, e \o x) = Restore(live, e \o x)
      BY DEF SameRest
    <3> DEFINE ex == e \o x
               r == Restore(live, ex)
    <3>1. ex \in Seq(Characters)
      BY <1>2
    <3> HIDE DEF ex
    <3>2. r \in Seq(Characters)
      BY <2>2, <3>1, RestoreType
    <3> HIDE DEF r
    <3>3. e \o r = r
      BY <3>2, ConcatEmptySeq DEF e
    <3> QED
      BY <3>3 DEF r, ex
  <2>4. e \in PartlyRestored(live, e)
    BY <2>2, PartlyType DEF e
  <2> QED
    BY <1>2, <1>3, <2>1, <2>3, <2>4 DEF ExactBlock, PartBlock
<1> QED
  BY <1>6, <1>7 DEF PlainInv

LEMMA PlainInit == Init => PlainInv
  BY PlainStart DEF Init

LEMMA StepsWrite ==
    ASSUME Finish \/ \E e \in Events : Receive(e)
    PROVE  /\ delivered' = [k \in Keys |-> delivered'[k]]
           /\ received' = received \/ received' = [k \in Keys |-> received'[k]]
  BY DEF Finish, Receive, RestoreJsonEvent, Deliver

\* An event with a text keeps the invariant.
LEMMA ReceiveTextKeeps ==
    ASSUME PlainEvents, PlainInv, TailInv', NEW e \in Events, Len(e.carriers) = 1, Receive(e)
    PROVE  PlainInv'
<1>1. PlainTexts /\ TextTable(Characters, live) /\ IsFiniteSet(live) /\ live' = live /\ ~finished /\ ~finished'
  BY LiveTable DEF PlainInv, PlainTexts, TailInv, SseTails, Receive
<1>2. ended' = ended /\ PlainTails(pending')
  BY <1>1, ReceiveText
<1>3. PICK k \in Keys \ ended : BlockExtended(k) /\ \A j \in Keys \ {k} : BlockSame(j)
  BY <1>1, ReceiveText
<1>4. \A j \in Keys : /\ delivered[j] \in Seq(Characters) /\ received[j] \in Seq(Characters)
                      /\ TailOf(pending[j]) \in Seq(Characters)
  BY <1>1, TailType DEF PlainTexts, TailInv, SseTails, Pendings
<1> DEFINE em == delivered[k]
           ca == TailOf(pending[k])
           w == received[k]
           em2 == delivered'[k]
           ca2 == TailOf(pending'[k])
           w2 == received'[k]
<1>5. em \in Seq(Characters) /\ ca \in Seq(Characters) /\ w \in Seq(Characters) /\
      Extended(live, em, ca, w, em2, ca2, w2)
  BY <1>3, <1>4 DEF BlockExtended
<1>6. /\ em2 \in Seq(Characters) /\ w2 \in Seq(Characters)
      /\ Distinct(live) /\ SameRest(Characters, live, em, ca, w) => SameRest(Characters, live, em2, ca2, w2)
      /\ InertOriginals(live) /\ em \o ca \in PartlyRestored(live, w) => em2 \o ca2 \in PartlyRestored(live, w2)
  <2> HIDE DEF em, ca, w, em2, ca2, w2
  <2> QED
    BY <1>1, <1>5, ExtendedBlock
<1>7. PlainTexts'
  <2>1. \A j \in Keys : delivered'[j] \in Seq(Characters) /\ received'[j] \in Seq(Characters)
    BY <1>3, <1>4, <1>6 DEF BlockSame
  <2> QED
    BY <1>1, <1>2, <2>1, StepsWrite DEF PlainTexts
<1>8. ASSUME Distinct(live), NEW j \in Keys PROVE ExactBlock(j)'
  <2>1. ExactBlock(j)
    BY <1>8 DEF PlainInv
  <2>2. CASE j = k
    <3>1. SameRest(Characters, live, em, ca, w)
      BY <1>1, <1>3, <2>1, <2>2 DEF ExactBlock
    <3>2. SameRest(Characters, live, em2, ca2, w2)
      BY <1>6, <1>8, <3>1
    <3> QED
      BY <1>1, <1>2, <1>3, <2>2, <3>2 DEF ExactBlock
  <2>3. CASE j # k
    BY <1>1, <1>2, <1>3, <2>1, <2>3 DEF ExactBlock, BlockSame
  <2> QED
    BY <2>2, <2>3
<1>9. ASSUME InertOriginals(live), NEW j \in Keys PROVE PartBlock(j)'
  <2>1. PartBlock(j)
    BY <1>9 DEF PlainInv
  <2>2. CASE j = k
    <3>1. em2 \o ca2 \in PartlyRestored(live, w2)
      BY <1>6, <1>9, <2>1, <2>2 DEF PartBlock
    <3> QED
      BY <1>1, <2>2, <3>1 DEF PartBlock
  <2>3. CASE j # k
    BY <1>1, <1>3, <2>1, <2>3 DEF PartBlock, BlockSame
  <2> QED
    BY <2>2, <2>3
<1> QED
  BY <1>1, <1>7, <1>8, <1>9 DEF PlainInv

\* What closing the blocks of a set does, the others being left as they are.
LEMMA ClosingKeeps ==
    ASSUME PlainInv, TailInv', Finish \/ \E e \in Events : Receive(e), NEW keys, keys \subseteq Keys,
           live' = live, ~finished, PlainTails(pending'),
           \A k \in Keys : IF k \in keys THEN BlockClosed(k) ELSE BlockSame(k),
           \A k \in Keys : (k \in ended' \/ finished') <=> k \in ended \cup keys
    PROVE  PlainInv'
<1>1. PlainTexts /\ TextTable(Characters, live)
  BY LiveTable DEF PlainInv, PlainTexts, TailInv
<1>2. \A k \in Keys : /\ delivered[k] \in Seq(Characters) /\ received[k] \in Seq(Characters)
                      /\ TailOf(pending[k]) \in Seq(Characters)
  BY <1>1, TailType DEF PlainTexts, TailInv, SseTails, Pendings
<1>3. ASSUME NEW k \in Keys
      PROVE  /\ delivered'[k] \in Seq(Characters) /\ received'[k] \in Seq(Characters)
             /\ Distinct(live) => ExactBlock(k)'
             /\ InertOriginals(live) => PartBlock(k)'
  <2>1. CASE k \in keys
    <3> DEFINE em == delivered[k]
               ca == TailOf(pending[k])
               w == received[k]
               em2 == delivered'[k]
               ca2 == TailOf(pending'[k])
               w2 == received'[k]
    <3>1. em \in Seq(Characters) /\ ca \in Seq(Characters) /\ w \in Seq(Characters) /\
          Closed(live, em, ca, w, em2, ca2, w2)
      BY <1>2, <2>1 DEF BlockClosed
    <3>2. w2 = w
      BY <3>1 DEF Closed
    <3>3. /\ em2 \in Seq(Characters) /\ w2 \in Seq(Characters)
          /\ SameRest(Characters, live, em, ca, w) => em2 = Restore(live, w2)
          /\ ca = <<>> => em2 = em
          /\ InertOriginals(live) /\ em \o ca \in PartlyRestored(live, w) => em2 \o ca2 \in PartlyRestored(live, w2)
      <4> HIDE DEF em, ca, w, em2, ca2, w2
      <4> QED
        BY <1>1, <3>1, ClosedBlock
    <3>4. ASSUME Distinct(live) PROVE em2 = Restore(live, w2)
      <4>1. ExactBlock(k)
        BY <3>4 DEF PlainInv
      <4>2. CASE k \in ended
        <5>1. ca = <<>>
          BY <1>1, <4>2 DEF PlainTexts, TailInv, NoTailAfterEnd, TailOf
        <5>2. em = Restore(live, w)
          BY <4>1, <4>2 DEF ExactBlock
        <5> QED
          BY <3>2, <3>3, <5>1, <5>2
      <4>3. CASE k \notin ended
        BY <3>3, <4>1, <4>3 DEF ExactBlock
      <4> QED
        BY <4>2, <4>3
    <3>5. Distinct(live) => ExactBlock(k)'
      BY <2>1, <3>4 DEF ExactBlock
    <3>6. InertOriginals(live) => PartBlock(k)'
      BY <3>3 DEF PartBlock, PlainInv
    <3> QED
      BY <3>3, <3>5, <3>6
  <2>2. CASE k \notin keys
    <3>1. BlockSame(k)
      BY <2>2
    <3>2. ASSUME Distinct(live) PROVE ExactBlock(k)'
      <4>1. ExactBlock(k)
        BY <3>2 DEF PlainInv
      <4> QED
        BY <2>2, <3>1, <4>1 DEF ExactBlock, BlockSame
    <3>3. ASSUME InertOriginals(live) PROVE PartBlock(k)'
      <4>1. PartBlock(k)
        BY <3>3 DEF PlainInv
      <4> QED
        BY <3>1, <4>1 DEF PartBlock, BlockSame
    <3>4. delivered'[k] \in Seq(Characters) /\ received'[k] \in Seq(Characters)
      BY <1>2, <3>1 DEF BlockSame
    <3> QED
      BY <3>2, <3>3, <3>4
  <2> QED
    BY <2>1, <2>2
<1>4. PlainTexts'
  BY <1>1, <1>3, StepsWrite DEF PlainTexts
<1> QED
  BY <1>3, <1>4 DEF PlainInv

\* Events that name just the blocks that they end name those.
LEMMA PlainEndsNamed == PlainEvents => EndsNamed
<1> SUFFICES ASSUME PlainEvents, NEW e \in Events, NEW k \in e.ends
             PROVE  e.terminator # None /\ IsPrefix(e.terminator, k)
  BY Zenon DEF EndsNamed
<1>1. k \in Keys
  BY EventAssumption
<1> QED
  BY <1>1, Zenon DEF PlainEvents

\* The invariant is inductive.
LEMMA PlainStep ==
    ASSUME PlainEvents, PlainInv, [Next]_vars
    PROVE  PlainInv'
<1>0. TailInv /\ PlainTexts
  BY DEF PlainInv, PlainTexts
<1>1. CASE UNCHANGED vars
  BY <1>1 DEF vars, PlainInv, PlainTexts, TailInv, SseTails, NoTailAfterEnd, ExactBlock, PartBlock
<1>2. CASE Finish
  <2>1. TailInv'
    BY <1>0, <1>2, FinishKeepsTails
  <2>2. PlainTails(pending') /\ \A k \in Keys : BlockClosed(k)
    BY <1>0, <1>2, FinishEnds
  <2>3. live' = live /\ ~finished /\ finished' /\ ended' = ended
    BY <1>2 DEF Finish
  <2> QED
    BY <1>2, <2>1, <2>2, <2>3, ClosingKeeps
<1>3. ASSUME NEW e \in Events, Receive(e) PROVE PlainInv'
  <2>1. TailInv'
    BY <1>0, <1>3, PlainEndsNamed, ReceiveKeepsTails
  <2>2. live' = live /\ ~finished /\ finished' = finished /\ e.ends \subseteq Keys
    BY <1>3, EventAssumption DEF Receive
  <2>3. Len(e.carriers) = 0 \/ Len(e.carriers) = 1
    <3>1. e.carriers \in Seq(Carriers)
      BY EventAssumption
    <3> DEFINE n == Len(e.carriers)
    <3>2. n \in Nat
      BY <3>1
    <3>3. n <= 1
      BY DEF PlainEvents
    <3> HIDE DEF n
    <3>4. n = 0 \/ n = 1
      BY <3>2, <3>3
    <3> QED
      BY <3>4 DEF n
  <2>4. CASE Len(e.carriers) = 1
    BY <1>3, <2>1, <2>4, ReceiveTextKeeps
  <2>5. CASE Len(e.carriers) = 0
    <3>1. /\ ended' = ended \cup e.ends
          /\ PlainTails(pending')
          /\ \A k \in Keys : IF k \in e.ends THEN BlockClosed(k) ELSE BlockSame(k)
      BY <1>0, <1>3, <2>5, ReceiveEnd
    <3> QED
      BY <1>3, <2>1, <2>2, <3>1, ClosingKeeps
  <2> QED
    BY <2>3, <2>4, <2>5
<1> QED
  BY <1>1, <1>2, <1>3 DEF Next

LEMMA PlainInvariant == PlainEvents => (Spec => []PlainInv)
<1> SUFFICES ASSUME PlainEvents PROVE Spec => []PlainInv
  OBVIOUS
<1>1. PlainInv /\ [Next]_vars => PlainInv'
  BY PlainStep
<1> QED
  BY <1>1, PlainInit, PTL DEF Spec

\* The invariant says more than BlocksRestored and NothingLost.
LEMMA PlainRestored == PlainInv => BlocksRestored
<1> SUFFICES ASSUME PlainInv, Distinct(live), NEW k \in Keys
             PROVE  delivered[k] \o Restore(live, Held(k)) = Restore(live, received[k])
  BY DEF BlocksRestored, RestoredWhole, Distinct
<1>1. PlainTexts /\ TextTable(Characters, live) /\ ExactBlock(k)
  BY LiveTable DEF PlainInv, PlainTexts, TailInv
<1>2. Held(k) = TailOf(pending[k])
  BY DEF Held, TailOf
<1>3. delivered[k] \in Seq(Characters) /\ received[k] \in Seq(Characters) /\ TailOf(pending[k]) \in Seq(Characters)
  BY <1>1, TailType DEF PlainTexts, TailInv, SseTails, Pendings
<1>4. CASE k \in ended \/ finished
  <2>1. Restore(live, Held(k)) = <<>>
    <3>1. Held(k) = <<>>
      BY <1>1, <1>4 DEF PlainTexts, TailInv, NoTailAfterEnd, Held
    <3> QED
      BY <1>1, <3>1, RestoreType
  <2>2. delivered[k] \o <<>> = delivered[k]
    BY <1>3, ConcatEmptySeq
  <2> QED
    BY <1>1, <1>4, <2>1, <2>2 DEF ExactBlock
<1>5. CASE ~(k \in ended \/ finished)
  <2>1. SameRest(Characters, live, delivered[k], TailOf(pending[k]), received[k])
    BY <1>1, <1>5 DEF ExactBlock
  <2>2. delivered[k] \o Restore(live, TailOf(pending[k])) = Restore(live, received[k])
    <3> DEFINE em == delivered[k]
               ca == TailOf(pending[k])
               w == received[k]
    <3>1. em \in Seq(Characters) /\ ca \in Seq(Characters) /\ w \in Seq(Characters) /\
          SameRest(Characters, live, em, ca, w)
      BY <1>3, <2>1
    <3> HIDE DEF em, ca, w
    <3>2. em \o Restore(live, ca) = Restore(live, w)
      BY <1>1, <3>1, FlushedSame
    <3> QED
      BY <3>2 DEF em, ca, w
  <2> QED
    BY <1>2, <2>2
<1> QED
  BY <1>4, <1>5

LEMMA PlainParts == PlainInv => NothingLost
  BY DEF PlainInv, PartBlock, NothingLost, Held, TailOf

\* When every event has at most one text, or ends blocks and flushes just those: while a response
\* arrives the client has each block as one restoration of the whole block would give it, up to
\* the tail that is held back, and exactly so at its end, however the aliases are cut and the
\* blocks interleaved.
THEOREM SseBlocksRestored == PlainEvents => (Spec => []BlocksRestored)
<1> SUFFICES ASSUME PlainEvents PROVE Spec => []BlocksRestored
  OBVIOUS
<1> QED
  BY PlainInvariant, PlainRestored, PTL

\* With the same events no character of a block is lost, repeated or moved, also when aliases
\* overlap or lie within each other.
THEOREM SseNothingLost == PlainEvents => (Spec => []NothingLost)
<1> SUFFICES ASSUME PlainEvents PROVE Spec => []NothingLost
  OBVIOUS
<1> QED
  BY PlainInvariant, PlainParts, PTL
===============================================================================
