----------------------------- MODULE Detection -----------------------------
(***************************************************************************)
(* What happens to one text of a request (crates/redact/src/detector.rs,   *)
(* identity.rs and redact_text of lib.rs): the regular expressions hit     *)
(* spans of it, overlaps are resolved, the hits of the identity are added  *)
(* and overlaps are resolved again, and the spans that are left are        *)
(* replaced from left to right.                                            *)
(*                                                                         *)
(* Which spans the rules and the identity hit is arbitrary, and so is the  *)
(* priority of a rule: the user types any number (Rule in rule.rs).        *)
(***************************************************************************)
EXTENDS Integers, Sequences, FiniteSets

CONSTANTS
    Length,      \* of the text
    Rules,       \* the regular expressions in force
    Fields,      \* the fields of the active identity
    Priority(_), \* of a rule or a field
    Position(_), \* of a rule or a field among those with its priority; fields come first
    MaxHits,     \* bound: spans that the rules hit in the text
    None

Span == [start : 0 .. Length, end : 0 .. Length, rule : Rules \cup Fields]

ASSUME DetectionAssumption ==
    /\ Length \in Nat /\ MaxHits \in Nat
    /\ Rules \cap Fields = {} /\ None \notin Rules \cup Fields
    /\ \A r \in Rules \cup Fields : Priority(r) \in Int /\ Position(r) \in Nat
    /\ \A r, q \in Rules \cup Fields : Position(r) = Position(q) => r = q

VARIABLES
    hits,      \* the spans hit by the rules
    identity,  \* the spans hit by the identity
    stage,     \* "rules", "all", "replace" or "done"
    pool,      \* the spans that resolve_overlaps has not looked at yet
    kept,      \* those it has kept
    last,      \* the end of the text that redact_text has copied
    out        \* the text it has built: copied characters, and aliases by the span they replace

vars == <<hits, identity, stage, pool, kept, last, out>>

Overlap(s, t) == s.start < t.end /\ t.start < s.end
Disjoint(S) == \A s, t \in S : s # t => ~Overlap(s, t)

\* No empty span is reported, and the matches of one expression never overlap; nor do those
\* of the identity, which one automaton searches for.
Hits(rules) == {s \in Span : s.rule \in rules /\ s.start < s.end}

Init ==
    /\ \E n \in 0 .. MaxHits : \E hit \in [1 .. n -> Hits(Rules)] : hits = {hit[i] : i \in 1 .. n}
    /\ \A r \in Rules : Disjoint({s \in hits : s.rule = r})
    /\ identity \in SUBSET Hits(Fields) /\ Disjoint(identity)
    /\ stage = "rules"
    /\ pool = hits
    /\ kept = {}
    /\ last = 0
    /\ out = <<>>
-----------------------------------------------------------------------------
Size(s) == s.end - s.start

\* Mutant: the longest match first.
LongestFirst(s, t) ==
    \/ Size(s) > Size(t)
    \/ /\ Size(s) = Size(t)
       /\ s.start < t.start \/ (s.start = t.start /\ Position(s.rule) < Position(t.rule))

\* The order of resolve_overlaps: priority, then length, then place; the sort is stable.
Precedes(s, t) ==
    \/ Priority(s.rule) > Priority(t.rule)
    \/ /\ Priority(s.rule) = Priority(t.rule)
       /\ \/ Size(s) > Size(t)
          \/ /\ Size(s) = Size(t)
             /\ s.start < t.start \/ (s.start = t.start /\ Position(s.rule) < Position(t.rule))

First(S, s) == s \in S /\ \A t \in S \ {s} : Precedes(s, t)

\* Mutant: only the beginning of the span is looked at.
CompatibleStart(s) == \A k \in kept : s.start < k.start \/ s.start >= k.end

Compatible(s) == \A k \in kept : s.end <= k.start \/ s.start >= k.end

\* One round of the loop of resolve_overlaps.
Consider(s) ==
    /\ stage \in {"rules", "all"}
    /\ First(pool, s)
    /\ pool' = pool \ {s}
    /\ kept' = IF Compatible(s) THEN kept \cup {s} ELSE kept
    /\ UNCHANGED <<hits, identity, stage, last, out>>

\* CompositeDetector: without an active identity the rules are used alone.
Compose ==
    /\ stage = "rules" /\ pool = {}
    /\ IF Fields = {}
       THEN stage' = "replace" /\ UNCHANGED <<pool, kept>>
       ELSE stage' = "all" /\ pool' = identity \cup kept /\ kept' = {}
    /\ UNCHANGED <<hits, identity, last, out>>

Resolved ==
    /\ stage = "all" /\ pool = {}
    /\ stage' = "replace"
    /\ UNCHANGED <<hits, identity, pool, kept, last, out>>
-----------------------------------------------------------------------------
\* A character is a span of its own that no rule has hit.
Character == [start : 0 .. Length, end : 0 .. Length, rule : {None}]
Characters(i, j) == [k \in 1 .. j - i |-> [start |-> i + k - 1, end |-> i + k, rule |-> None]]

\* Mutant: the text is copied up to the end of the span.
ReplaceLate(s) ==
    /\ stage = "replace"
    /\ s \in kept /\ s.start >= last
    /\ \A k \in kept : k.start >= last => s.start <= k.start
    /\ out' = out \o Characters(last, s.end) \o <<s>>
    /\ last' = s.end
    /\ UNCHANGED <<hits, identity, stage, pool, kept>>

\* redact_text: the next span, by its place.
Replace(s) ==
    /\ stage = "replace"
    /\ s \in kept /\ s.start >= last
    /\ \A k \in kept : k.start >= last => s.start <= k.start
    /\ out' = out \o Characters(last, s.start) \o <<s>>
    /\ last' = s.end
    /\ UNCHANGED <<hits, identity, stage, pool, kept>>

Rest ==
    /\ stage = "replace"
    /\ \A k \in kept : k.start < last
    /\ out' = out \o Characters(last, Length)
    /\ stage' = "done"
    /\ UNCHANGED <<hits, identity, pool, kept, last>>

Next ==
    \/ \E s \in pool : Consider(s)
    \/ Compose \/ Resolved
    \/ \E s \in kept : Replace(s)
    \/ Rest

Spec == Init /\ [][Next]_vars
-----------------------------------------------------------------------------
\* Whatever the rules hit, the spans that redact_text replaces never overlap: slicing the
\* text at them cannot fail or duplicate text.
KeptDisjoint == Disjoint(kept)

\* The comment of rule.rs: where hits overlap, the higher priority wins, then the longer
\* match.  A hit that resolve_overlaps has dropped overlaps a winner of that kind.
Beats(k, s) ==
    /\ Overlap(k, s)
    /\ \/ Priority(k.rule) > Priority(s.rule)
       \/ Priority(k.rule) = Priority(s.rule) /\ Size(k) >= Size(s)
RuleDropsOutranked ==
    stage = "rules" => \A s \in hits \ (pool \cup kept) : \E k \in kept : Beats(k, s)

\* A value of the user's identity is left in the text only where a rule hits part of it that
\* ranks as high as the identity: never for another field, nor for a longer or an earlier hit
\* of a rule below it (CompositeDetector resolves once more, with IDENTITY_PRIORITY).
IdentityYields ==
    stage # "rules" =>
        \A s \in identity \ (pool \cup kept) : \E k \in kept : k.rule \in Rules /\ Beats(k, s)

\* The comment of IDENTITY_PRIORITY, that it is above all rules: whatever else the rules find
\* around them, the values of the identity are replaced.
IdentityKept ==
    stage \in {"replace", "done"} => identity \subseteq kept

\* redact_text: what it builds covers the text from end to end, in order and without a gap,
\* with an alias for every span that was kept and the characters outside them.
Replaced ==
    stage = "done" =>
        /\ {out[i] : i \in DOMAIN out} \ Character = kept
        /\ \A i \in DOMAIN out : out[i] \in Character => Size(out[i]) = 1
        /\ \A i \in DOMAIN out : out[i].start = IF i = 1 THEN 0 ELSE out[i - 1].end
        /\ IF out = <<>> THEN Length = 0 ELSE out[Len(out)].end = Length
=============================================================================
