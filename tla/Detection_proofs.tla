-------------------------- MODULE Detection_proofs --------------------------
(* What resolve_overlaps and CompositeDetector keep, for every text, every set of rules and  *)
(* fields and every set of hits.                                             *)
EXTENDS Detection, TLAPS

\* Where the loop stands: what it has kept comes before what it has not looked at.
Frame ==
    /\ hits \subseteq Hits(Rules) /\ identity \subseteq Hits(Fields) /\ Disjoint(identity)
    /\ stage \in {"rules", "all", "replace", "done"}
    /\ pool \subseteq hits \cup identity /\ kept \subseteq hits \cup identity
    /\ stage = "rules" => pool \subseteq hits /\ kept \subseteq hits
    /\ pool \cap kept = {}
    /\ \A k \in kept, s \in pool : Precedes(k, s)

\* A dropped hit of the rules has met its winner.
Dropped == stage = "rules" => \A s \in hits \ (pool \cup kept) : \E k \in kept : Beats(k, s)

LEMMA SpanSize == \A s \in Span : s.start \in Int /\ s.end \in Int /\ Size(s) \in Int
  BY DetectionAssumption DEF Span, Size

LEMMA HitIsSpan == \A R : \A s \in Hits(R) : s \in Span /\ s.rule \in R /\ s.start < s.end
  BY DEF Hits

LEMMA FrameInit == Init => Frame /\ Dropped /\ IdentityYields
<1> SUFFICES ASSUME Init PROVE Frame /\ Dropped /\ IdentityYields
  OBVIOUS
<1>1. hits \subseteq Hits(Rules)
  BY DEF Init
<1> QED
  BY <1>1 DEF Init, Frame, Dropped, IdentityYields

\* The new kept and pool of a round are ordered.
LEMMA FrameStep == Frame /\ [Next]_vars => Frame'
<1> SUFFICES ASSUME Frame, [Next]_vars PROVE Frame'
  OBVIOUS
<1>1. ASSUME NEW s \in pool, Consider(s) PROVE Frame'
  <2>1. /\ pool' = pool \ {s}
        /\ kept' \subseteq kept \cup {s}
        /\ UNCHANGED <<hits, identity, stage>>
    BY <1>1 DEF Consider
  <2>2. \A k \in kept', t \in pool' : Precedes(k, t)
    BY <1>1, <2>1 DEF Frame, Consider, First
  <2>3. /\ pool' \subseteq hits' \cup identity' /\ kept' \subseteq hits' \cup identity'
        /\ pool' \cap kept' = {}
        /\ stage' = "rules" => pool' \subseteq hits' /\ kept' \subseteq hits'
    BY <1>1, <2>1 DEF Frame
  <2> QED
    BY <2>1, <2>2, <2>3 DEF Frame, Disjoint, Precedes
<1>2. CASE Compose
  <2>1. UNCHANGED <<hits, identity>> /\ pool = {} /\ stage = "rules"
    BY <1>2 DEF Compose
  <2>2. CASE Fields = {}
    <3>1. stage' = "replace" /\ UNCHANGED <<pool, kept>>
      BY <1>2, <2>2 DEF Compose
    <3> QED
      BY <2>1, <3>1 DEF Frame, Disjoint, Precedes
  <2>3. CASE Fields # {}
    <3>1. stage' = "all" /\ pool' = identity \cup kept /\ kept' = {}
      BY <1>2, <2>3 DEF Compose
    <3> QED
      BY <2>1, <3>1 DEF Frame, Disjoint
  <2> QED
    BY <2>2, <2>3
<1>3. CASE Resolved
  BY <1>3 DEF Resolved, Frame, Disjoint, Precedes
<1>4. ASSUME NEW s \in kept, Replace(s) PROVE Frame'
  BY <1>4 DEF Replace, Frame, Disjoint, Precedes
<1>5. CASE Rest
  BY <1>5 DEF Rest, Frame, Disjoint, Precedes
<1>6. CASE UNCHANGED vars
  BY <1>6 DEF vars, Frame, Disjoint, Precedes
<1> QED
  BY <1>1, <1>2, <1>3, <1>4, <1>5, <1>6 DEF Next

\* While overlaps are resolved, what is kept comes before what is still to be looked at
\* (resolve_overlaps sorts the hits and takes them one by one).
THEOREM FrameHolds == Spec => []Frame
<1>1. Init => Frame
  BY FrameInit
<1> QED
  BY <1>1, FrameStep, PTL DEF Spec

\* Two spans that redact_text replaces never overlap.
LEMMA DisjointStep == Frame /\ KeptDisjoint /\ [Next]_vars => KeptDisjoint'
<1> SUFFICES ASSUME Frame, KeptDisjoint, [Next]_vars PROVE KeptDisjoint'
  OBVIOUS
<1>1. ASSUME NEW s \in pool, Consider(s) PROVE KeptDisjoint'
  <2>1. CASE Compatible(s)
    <3>1. kept' = kept \cup {s}
      BY <1>1, <2>1 DEF Consider
    <3>2. s \in Span /\ kept \subseteq Span
      BY <1>1, HitIsSpan DEF Frame
    <3>3. \A k \in kept : ~Overlap(s, k) /\ ~Overlap(k, s)
      BY <2>1, <3>2, SpanSize DEF Compatible, Overlap
    <3> QED
      BY <3>1, <3>3 DEF KeptDisjoint, Disjoint
  <2>2. CASE ~Compatible(s)
    BY <1>1, <2>2 DEF Consider, KeptDisjoint, Disjoint
  <2> QED
    BY <2>1, <2>2
<1>2. CASE kept' = {} \/ kept' = kept
  BY <1>2 DEF KeptDisjoint, Disjoint
<1> QED
  BY <1>1, <1>2 DEF Next, Compose, Resolved, Replace, Rest, vars

\* KeptDisjoint holds of every text and every set of hits.
THEOREM KeptStaysDisjoint == Spec => []KeptDisjoint
<1>1. Init => KeptDisjoint
  BY DEF Init, KeptDisjoint, Disjoint
<1> QED
  BY <1>1, DisjointStep, FrameHolds, PTL DEF Spec

\* Each step of the resolution accounts for the hits that it drops.
LEMMA DroppedStep == Frame /\ Dropped /\ [Next]_vars => Dropped'
<1> SUFFICES ASSUME Frame, Dropped, [Next]_vars, stage' = "rules" PROVE Dropped'
  BY DEF Dropped
<1>1. ASSUME NEW s \in pool, Consider(s) PROVE Dropped'
  <2>1. /\ stage = "rules" /\ pool' = pool \ {s} /\ kept \subseteq kept'
        /\ UNCHANGED hits
    BY <1>1 DEF Consider
  <2>2. CASE Compatible(s)
    <3>1. s \in kept'
      BY <1>1, <2>2 DEF Consider
    <3> QED
      BY <2>1, <3>1 DEF Dropped, Beats, Overlap
  <2>3. CASE ~Compatible(s)
    <3>1. PICK k \in kept : ~(s.end <= k.start \/ s.start >= k.end)
      BY <2>3 DEF Compatible
    <3>2. s \in Span /\ k \in Span /\ s.rule \in Rules \cup Fields /\ k.rule \in Rules \cup Fields
      BY <1>1, HitIsSpan DEF Frame
    <3>3. Overlap(k, s)
      BY <3>1, <3>2, SpanSize DEF Overlap
    <3>4. Precedes(k, s)
      BY <1>1 DEF Frame
    <3>5. Beats(k, s)
      BY <3>2, <3>3, <3>4, SpanSize, DetectionAssumption DEF Precedes, Beats
    <3> QED
      BY <2>1, <3>5 DEF Dropped, Beats, Overlap
  <2> QED
    BY <2>2, <2>3
<1>2. CASE Compose
  BY <1>2 DEF Compose
<1>3. CASE UNCHANGED vars
  BY <1>3 DEF Dropped, vars, Beats, Overlap
<1> QED
  BY <1>1, <1>2, <1>3 DEF Next, Resolved, Replace, Rest

\* Whatever the rules and their priorities, a hit that resolve_overlaps drops among the rules has
\* lost to an overlapping winner of higher priority, or of the same and at least its length.
THEOREM RulesDropOnlyOutranked == Spec => []RuleDropsOutranked
<1>1. Init => Dropped
  BY FrameInit
<1>2. Dropped <=> RuleDropsOutranked
  BY DEF Dropped, RuleDropsOutranked
<1> QED
  BY <1>1, <1>2, DroppedStep, FrameHolds, PTL DEF Spec

\* A hit of the identity is dropped only for an overlapping one that was kept before it; the
\* hits of the identity do not overlap, so that one is a rule's.
LEMMA YieldedStep == Frame /\ IdentityYields /\ [Next]_vars => IdentityYields'
<1> SUFFICES ASSUME Frame, IdentityYields, [Next]_vars PROVE IdentityYields'
  OBVIOUS
<1>1. ASSUME NEW s \in pool, Consider(s), stage = "all" PROVE IdentityYields'
  <2>1. /\ pool' = pool \ {s} /\ kept \subseteq kept'
        /\ UNCHANGED <<identity, stage>>
    BY <1>1 DEF Consider
  <2>2. CASE Compatible(s)
    <3>1. s \in kept'
      BY <1>1, <2>2 DEF Consider
    <3> QED
      BY <1>1, <2>1, <3>1 DEF IdentityYields, Beats, Overlap
  <2>3. CASE ~Compatible(s)
    <3>1. PICK k \in kept : ~(s.end <= k.start \/ s.start >= k.end)
      BY <2>3 DEF Compatible
    <3>2. s \in Span /\ k \in Span /\ s.rule \in Rules \cup Fields /\ k.rule \in Rules \cup Fields
      BY <1>1, HitIsSpan DEF Frame
    <3>3. Overlap(k, s)
      BY <3>1, <3>2, SpanSize DEF Overlap
    <3>4. Precedes(k, s) /\ k # s
      BY <1>1 DEF Frame
    <3>5. Beats(k, s)
      BY <3>2, <3>3, <3>4, SpanSize, DetectionAssumption DEF Precedes, Beats
    <3>6. s \in identity => k.rule \in Rules
      BY <3>3, <3>4, HitIsSpan DEF Frame, Disjoint
    <3> QED
      BY <1>1, <2>1, <3>5, <3>6 DEF IdentityYields, Beats, Overlap
  <2> QED
    BY <2>2, <2>3
<1>2. ASSUME NEW s \in pool, Consider(s), stage = "rules" PROVE IdentityYields'
  BY <1>2 DEF Consider, IdentityYields
<1>3. CASE Compose
  <2>1. CASE Fields = {}
    <3>1. identity = {} /\ identity' = identity
      BY <1>3, <2>1, HitIsSpan DEF Frame, Compose
    <3> QED
      BY <3>1 DEF IdentityYields
  <2>2. CASE Fields # {}
    BY <1>3, <2>2 DEF Compose, IdentityYields
  <2> QED
    BY <2>1, <2>2
<1>4. CASE UNCHANGED <<identity, pool, kept>> /\ (stage = "rules" <=> stage' = "rules")
  BY <1>4 DEF IdentityYields, Beats, Overlap
<1>5. Resolved \/ Rest \/ (\E s \in kept : Replace(s)) \/ UNCHANGED vars
      => UNCHANGED <<identity, pool, kept>> /\ (stage = "rules" <=> stage' = "rules")
  BY DEF Resolved, Replace, Rest, vars
<1>6. \A s \in pool : Consider(s) => stage \in {"rules", "all"}
  BY DEF Consider
<1> QED
  BY <1>1, <1>2, <1>3, <1>4, <1>5, <1>6 DEF Next

\* Whatever numbers the user types as the priorities of rules, a value of the identity that stays
\* in the text has lost to an overlapping hit of a rule that ranks as high as the identity.
THEOREM IdentityYieldsToRank == Spec => []IdentityYields
<1>1. Init => IdentityYields
  BY FrameInit
<1> QED
  BY <1>1, YieldedStep, FrameHolds, PTL DEF Spec
-----------------------------------------------------------------------------
\* The pieces t of a text cover it from its beginning to a place, one after the other, with the
\* spans of S among characters.
Covers(t, place, S) ==
    /\ t \in Seq(Span \cup Character)
    /\ {t[i] : i \in DOMAIN t} \ Character = S
    /\ \A i \in DOMAIN t : t[i] \in Character => Size(t[i]) = 1
    /\ \A i \in DOMAIN t : t[i].start = IF i = 1 THEN 0 ELSE t[i - 1].end
    /\ IF t = <<>> THEN place = 0 ELSE t[Len(t)].end = place

\* Where redact_text stands: the text is copied up to last, with the spans that begin before it.
Behind == {k \in kept : k.start < last}
Copied ==
    /\ stage \in {"rules", "all"} => out = <<>> /\ last = 0
    /\ stage = "replace" => /\ last \in 0 .. Length /\ Covers(out, last, Behind)
                            /\ \A k \in Behind : k.end <= last
    /\ stage = "done" => Covers(out, Length, kept)

\* What is appended to the pieces goes on where they end.
LEMMA CoversJoin ==
    ASSUME NEW t, NEW p, NEW S, Covers(t, p, S), p \in 0 .. Length,
           NEW c \in Seq(Span \cup Character), c # <<>>, NEW q, NEW R,
           {c[i] : i \in DOMAIN c} \ Character = R,
           \A i \in DOMAIN c : c[i] \in Character => Size(c[i]) = 1,
           \A i \in DOMAIN c : c[i].start = IF i = 1 THEN p ELSE c[i - 1].end,
           c[Len(c)].end = q
    PROVE  Covers(t \o c, q, S \cup R)
<1> DEFINE u == t \o c
<1>1. t \in Seq(Span \cup Character) /\ Len(t) \in Nat /\ Len(c) \in Nat /\ Len(c) > 0
  BY DEF Covers
<1>2. /\ u \in Seq(Span \cup Character) /\ Len(u) = Len(t) + Len(c)
      /\ \A i \in 1 .. Len(t) : u[i] = t[i]
      /\ \A i \in 1 .. Len(c) : u[Len(t) + i] = c[i]
  BY <1>1
<1>0. DOMAIN t = 1 .. Len(t) /\ DOMAIN c = 1 .. Len(c) /\ DOMAIN u = 1 .. Len(u)
  BY <1>1, <1>2
<1> HIDE DEF u
<1>10. \A i \in 1 .. Len(t) + Len(c) : i \in 1 .. Len(t) \/ i - Len(t) \in 1 .. Len(c)
  BY <1>1
<1>11. \A i \in 1 .. Len(t) + Len(c) : Len(t) + (i - Len(t)) = i
  BY <1>1
<1>3. \A i \in DOMAIN u : \/ i \in DOMAIN t /\ u[i] = t[i]
                          \/ i - Len(t) \in DOMAIN c /\ u[i] = c[i - Len(t)]
  BY <1>0, <1>2, <1>10, <1>11, Zenon
<1>4. \A i \in DOMAIN t : i \in DOMAIN u /\ u[i] = t[i]
  BY <1>1, <1>2
<1>5. \A i \in DOMAIN c : Len(t) + i \in DOMAIN u /\ u[Len(t) + i] = c[i]
  <2>1. \A i \in 1 .. Len(c) : Len(t) + i \in 1 .. Len(t) + Len(c)
    BY <1>1
  <2> QED
    BY <1>0, <1>2, <2>1, Zenon
<1>6. {u[i] : i \in DOMAIN u} \ Character = S \cup R
  <2>1. {u[i] : i \in DOMAIN u} = {t[i] : i \in DOMAIN t} \cup {c[i] : i \in DOMAIN c}
    <3>1. \A i \in DOMAIN u : (\E j \in DOMAIN t : u[i] = t[j]) \/ (\E j \in DOMAIN c : u[i] = c[j])
      BY <1>3, Zenon
    <3>2. \A i \in DOMAIN t : \E j \in DOMAIN u : t[i] = u[j]
      BY <1>4, Zenon
    <3>3. \A i \in DOMAIN c : \E j \in DOMAIN u : c[i] = u[j]
      BY <1>5, Zenon
    <3> QED
      BY <3>1, <3>2, <3>3
  <2>2. {t[i] : i \in DOMAIN t} \ Character = S
    BY Zenon DEF Covers
  <2> QED
    BY <2>1, <2>2
<1>7. \A i \in DOMAIN u : u[i] \in Character => Size(u[i]) = 1
  <2>1. \A i \in DOMAIN t : t[i] \in Character => Size(t[i]) = 1
    BY Zenon DEF Covers
  <2> QED
    BY <1>3, <2>1
<1>8. \A i \in DOMAIN u : u[i].start = IF i = 1 THEN 0 ELSE u[i - 1].end
  <2> SUFFICES ASSUME NEW i \in DOMAIN u PROVE u[i].start = IF i = 1 THEN 0 ELSE u[i - 1].end
    OBVIOUS
  <2>1. CASE i \in DOMAIN t
    <3>1. t[i].start = IF i = 1 THEN 0 ELSE t[i - 1].end
      BY <2>1 DEF Covers
    <3>2. i # 1 => i - 1 \in DOMAIN t
      BY <1>1, <2>1
    <3> QED
      BY <1>4, <2>1, <3>1, <3>2
  <2>2. CASE i = Len(t) + 1
    <3>1. u[i] = c[1] /\ c[1].start = p
      BY <1>1, <1>5, <2>2
    <3>2. CASE t = <<>>
      <4>1. Len(t) = 0 /\ p = 0
        BY <3>2 DEF Covers
      <4> QED
        BY <2>2, <3>1, <4>1
    <3>3. CASE t # <<>>
      <4>1. t[Len(t)].end = p
        BY <3>3 DEF Covers
      <4>2. Len(t) \in DOMAIN t /\ i # 1 /\ i - 1 = Len(t)
        BY <1>1, <2>2, <3>3
      <4> QED
        BY <1>4, <3>1, <4>1, <4>2
    <3> QED
      BY <3>2, <3>3
  <2>3. CASE i \notin DOMAIN t /\ i # Len(t) + 1
    <3>1. /\ i - Len(t) \in DOMAIN c /\ u[i] = c[i - Len(t)] /\ i # 1 /\ i - Len(t) # 1
          /\ i - Len(t) - 1 \in DOMAIN c /\ Len(t) + (i - Len(t) - 1) = i - 1
      BY <1>1, <1>2, <1>3, <2>3, SMTT(60)
    <3>2. c[i - Len(t)].start = c[i - Len(t) - 1].end
      BY <3>1
    <3>3. u[Len(t) + (i - Len(t) - 1)] = c[i - Len(t) - 1]
      BY <1>5, <3>1
    <3> QED
      BY <3>1, <3>2, <3>3
  <2> QED
    BY <2>1, <2>2, <2>3
<1>9. u # <<>> /\ u[Len(u)].end = q
  BY <1>1, <1>2
<1> QED
  BY <1>2, <1>6, <1>7, <1>8, <1>9 DEF Covers, u

LEMMA CoversCharacters ==
    ASSUME NEW t, NEW p \in 0 .. Length, NEW q \in 0 .. Length, NEW S, Covers(t, p, S), p <= q
    PROVE  Covers(t \o Characters(p, q), q, S)
<1> DEFINE c == Characters(p, q)
<1>1. Length \in Nat /\ q - p \in Nat
  BY DetectionAssumption
<1>2. /\ c \in Seq(Character) /\ Len(c) = q - p
      /\ \A i \in 1 .. q - p : c[i] = [start |-> p + i - 1, end |-> p + i, rule |-> None]
  BY <1>1 DEF Characters, Character
<1>3. CASE p = q
  <2>1. c = <<>> /\ t \in Seq(Span \cup Character)
    BY <1>2, <1>3 DEF Covers
  <2>2. t \o c = t
    BY <2>1
  <2> QED
    BY <1>3, <2>2
<1>4. CASE p # q
  <2> HIDE DEF c
  <2>1. c \in Seq(Span \cup Character) /\ c # <<>> /\ DOMAIN c = 1 .. q - p /\ q - p > 0
    BY <1>1, <1>2, <1>4
  <2>2. {c[i] : i \in DOMAIN c} \ Character = {}
    BY <1>2
  <2>3. \A i \in DOMAIN c : c[i].start = p + i - 1 /\ c[i].end = p + i
    BY <1>2, <2>1
  <2>4. \A i \in DOMAIN c : Size(c[i]) = 1
    BY <1>1, <2>1, <2>3 DEF Size
  <2>5. \A i \in DOMAIN c : c[i].start = IF i = 1 THEN p ELSE c[i - 1].end
    BY <1>1, <2>1, <2>3
  <2>6. c[Len(c)].end = q
    BY <1>1, <1>2, <2>1, <2>3
  <2>7. Covers(t \o c, q, S \cup {})
    BY <2>1, <2>2, <2>4, <2>5, <2>6, CoversJoin
  <2>8. S \cup {} = S
    OBVIOUS
  <2> QED
    BY <2>7, <2>8 DEF c
<1> QED
  BY <1>3, <1>4

LEMMA CoversSpan ==
    ASSUME NEW t, NEW S, NEW s \in Span, Covers(t, s.start, S)
    PROVE  Covers(t \o <<s>>, s.end, S \cup {s})
<1> DEFINE c == <<s>>
<1>1. s \notin Character
  BY DetectionAssumption DEF Span, Character
<1>2. c \in Seq(Span \cup Character) /\ c # <<>> /\ Len(c) = 1 /\ DOMAIN c = {1} /\ c[1] = s
  OBVIOUS
<1>3. s.start \in 0 .. Length
  BY DEF Span
<1> HIDE DEF c
<1>4. {c[i] : i \in DOMAIN c} \ Character = {s}
  BY <1>1, <1>2
<1>5. \A i \in DOMAIN c : c[i] \in Character => Size(c[i]) = 1
  BY <1>1, <1>2
<1>6. \A i \in DOMAIN c : c[i].start = IF i = 1 THEN s.start ELSE c[i - 1].end
  BY <1>2
<1>7. c[Len(c)].end = s.end
  BY <1>2
<1>8. Covers(t \o c, s.end, S \cup {s})
  BY <1>2, <1>3, <1>4, <1>5, <1>6, <1>7, CoversJoin
<1> QED
  BY <1>8 DEF c

LEMMA CopiedStep == Frame /\ KeptDisjoint /\ Copied /\ [Next]_vars => Copied'
<1> SUFFICES ASSUME Frame, KeptDisjoint, Copied, [Next]_vars PROVE Copied'
  OBVIOUS
<1>0. /\ \A k \in kept : k \in Span /\ k.start < k.end
      /\ Length \in Nat
      /\ stage \in {"rules", "all", "replace", "done"}
  BY HitIsSpan, DetectionAssumption DEF Frame
<1>1. ASSUME NEW s \in pool, Consider(s) PROVE Copied'
  BY <1>1 DEF Consider, Copied
<1>2. CASE Compose \/ Resolved
  <2>1. /\ stage \in {"rules", "all"} /\ stage' \in {"all", "replace"}
        /\ out' = out /\ last' = last
    BY <1>2 DEF Compose, Resolved
  <2>2. out' = <<>> /\ last' = 0
    BY <2>1 DEF Copied
  <2>3. \A k \in kept' : k \in Span
    BY <1>0, <1>2, HitIsSpan DEF Compose, Resolved, Frame
  <2>4. Behind' = {}
    BY <2>2, <2>3 DEF Behind, Span
  <2>5. <<>> \in Seq(Span \cup Character) /\ DOMAIN <<>> = {}
    OBVIOUS
  <2>6. Covers(<<>>, 0, {})
    BY <2>5 DEF Covers
  <2>7. stage' # "done" /\ (stage' = "replace" => 0 \in 0 .. Length)
    BY <1>0, <2>1
  <2> QED
    BY <2>1, <2>2, <2>4, <2>6, <2>7 DEF Copied
<1>3. ASSUME NEW s \in kept, Replace(s) PROVE Copied'
  <2> DEFINE t == out \o Characters(last, s.start)
  <2>1. /\ stage = "replace" /\ s.start >= last /\ \A k \in kept : k.start >= last => s.start <= k.start
        /\ out' = t \o <<s>> /\ last' = s.end /\ kept' = kept /\ stage' = stage
    BY <1>3 DEF Replace
  <2>2. s \in Span /\ s.start \in 0 .. Length /\ s.end \in 0 .. Length /\ s.start < s.end
    BY <1>0 DEF Span
  <2>3. last \in 0 .. Length /\ Covers(out, last, Behind) /\ \A k \in Behind : k.end <= last
    BY <2>1 DEF Copied
  <2>4. Covers(t, s.start, Behind)
    BY <2>1, <2>2, <2>3, CoversCharacters
  <2> HIDE DEF t
  <2>5. Covers(out', last', Behind \cup {s})
    BY <2>1, <2>2, <2>4, CoversSpan
  <2>6. \A k \in kept : k.start \in Int /\ k.end \in Int /\ k.start < k.end
    BY <1>0, SpanSize
  <2>7. \A k \in kept : k # s => ~Overlap(s, k)
    BY DEF KeptDisjoint, Disjoint
  <2>8. \A k \in kept : k.start < s.end => k.start < last \/ k = s
    BY <2>1, <2>2, <2>3, <2>6, <2>7 DEF Overlap
  <2>9. \A k \in kept : k.start < last => k.start < s.end
    BY <2>1, <2>2, <2>3, <2>6
  <2>10. Behind' = Behind \cup {s}
    BY <2>1, <2>2, <2>8, <2>9 DEF Behind
  <2>11. \A k \in Behind' : k.end <= last'
    BY <2>1, <2>2, <2>3, <2>6, <2>10 DEF Behind
  <2> QED
    BY <2>1, <2>2, <2>5, <2>10, <2>11 DEF Copied
<1>4. CASE Rest
  <2>1. /\ stage = "replace" /\ stage' = "done" /\ kept' = kept
        /\ \A k \in kept : k.start < last
        /\ out' = out \o Characters(last, Length)
    BY <1>4 DEF Rest
  <2>2. last \in 0 .. Length /\ Covers(out, last, Behind)
    BY <2>1 DEF Copied
  <2>3. Behind = kept
    BY <2>1 DEF Behind
  <2>4. Length \in 0 .. Length /\ last <= Length
    BY <1>0, <2>2
  <2>5. Covers(out', Length, kept)
    BY <2>1, <2>2, <2>3, <2>4, CoversCharacters
  <2> QED
    BY <2>1, <2>5 DEF Copied
<1>5. CASE UNCHANGED vars
  BY <1>5 DEF vars, Copied, Behind
<1> QED
  BY <1>1, <1>2, <1>3, <1>4, <1>5 DEF Next

\* redact_text (lib.rs) loses and doubles nothing: for texts of every length and all spans that
\* were kept, what it has built in the end covers the text without a gap, with an alias for
\* each of these spans and the other characters as they were.
THEOREM TextIsCovered == Spec => []Replaced
<1>1. Init => Copied
  BY DEF Init, Copied
<1>2. Init => KeptDisjoint
  BY DEF Init, KeptDisjoint, Disjoint
<1>3. Copied => Replaced
  BY DEF Copied, Covers, Replaced
<1> QED
  BY <1>1, <1>2, <1>3, DisjointStep, CopiedStep, FrameHolds, PTL DEF Spec
=============================================================================
