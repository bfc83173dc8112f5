--------------------------- MODULE PlaceholderMap ---------------------------
(***************************************************************************)
(* The session-wide table value <-> alias of the redaction engine          *)
(* (crates/redact/src/placeholder.rs).  It lives behind one mutex, so each *)
(* method is one action.                                                   *)
(*                                                                         *)
(* Texts are model values.  What the HMAC and the fake-value generator     *)
(* compute is a constant: the list of candidates for a value of an entity. *)
(* HashMaps are total functions that map an absent key to None.            *)
(***************************************************************************)
EXTENDS Integers, Sequences

CONSTANTS
    Values,        \* texts a detector may report
    Aliases,       \* texts that may replace a value
    Placeholders,  \* the aliases of the form PG_<ENTITY>_<8hex>
    Entities,      \* normalised entity types
    Cap,           \* capacity of the dynamic table
    PhCands,       \* PhCands[<<v, e>>]: the placeholders hashed for v, in order
    SynCands,      \* SynCands[<<v, e>>]: the fake values generated for v, in order
    Lower,         \* to_lowercase
    Length,        \* length in bytes
    MaxLength,     \* bound on Length
    Identities,    \* the identity configurations the user may save
    None           \* an absent Option or map entry

Styles == {"Placeholder", "Synthetic"}

\* A usable IdentityField: its reals are trimmed, non-empty and differ from the alias.
Field == [alias : Aliases, primary : Values, reals : SUBSET Values, ci : BOOLEAN]

ASSUME TextAssumption ==
    /\ Placeholders \subseteq Aliases
    /\ None \notin Values \cup Aliases
    /\ MaxLength \in Nat
    /\ Length \in [Aliases -> 0 .. MaxLength]
    /\ Lower \in [Values -> Values]

ASSUME CapAssumption == Cap \in Nat \ {0}

ASSUME CandidateAssumption ==
    /\ PhCands \in [Values \X Entities -> Seq(Placeholders) \ {<<>>}]
    /\ SynCands \in [Values \X Entities -> Seq(Aliases \ Placeholders)]

\* Each value has, among the 57 windows of its digest, one that neither another value nor
\* an identity shares nor is itself a value: 32-bit collisions do not exhaust them all.
ASSUME CollisionAssumption ==
    \A v \in Values, e \in Entities : \E i \in 1 .. Len(PhCands[<<v, e>>]) :
        LET a == PhCands[<<v, e>>][i] IN
        /\ a \notin Values
        /\ \A w \in Values \ {v}, d \in Entities :
              \A j \in 1 .. Len(PhCands[<<w, d>>]) : PhCands[<<w, d>>][j] # a
        /\ \A fields \in Identities : \A j \in 1 .. Len(fields) : fields[j].alias # a

ASSUME IdentityAssumption ==
    \A fields \in Identities :
        /\ fields \in Seq(Field)
        /\ \A i \in 1 .. Len(fields) :
              fields[i].primary \in fields[i].reals /\ fields[i].alias \notin fields[i].reals

VARIABLES
    style,              \* how a new value is replaced
    forward,            \* value -> alias, detected values
    reverse,            \* alias -> value, detected values
    order,              \* dynamic aliases, oldest first
    fixed_forward,      \* value -> alias, identity
    fixed_forward_ci,   \* lower-cased value -> alias, case-insensitive identity fields
    fixed_reverse,      \* alias -> primary value, identity
    alias_set,          \* the aliases that are not placeholders
    max_placeholder_len,
    max_alias_len,
    ac,                 \* the patterns of the Aho-Corasick automaton
    ac_dirty,           \* the automaton is out of date
    out                 \* the reply of the last call of placeholder_for, or None

dynamic == <<forward, reverse, order>>
fixed == <<fixed_forward, fixed_forward_ci, fixed_reverse>>
window == <<alias_set, max_placeholder_len, max_alias_len>>
automaton == <<ac, ac_dirty>>
vars == <<style, forward, reverse, order, fixed_forward, fixed_forward_ci, fixed_reverse,
          alias_set, max_placeholder_len, max_alias_len, ac, ac_dirty, out>>

Init ==
    /\ style = "Placeholder"
    /\ forward = [v \in Values |-> None]
    /\ reverse = [a \in Aliases |-> None]
    /\ order = <<>>
    /\ fixed_forward = [v \in Values |-> None]
    /\ fixed_forward_ci = [v \in Values |-> None]
    /\ fixed_reverse = [a \in Aliases |-> None]
    /\ alias_set = {}
    /\ max_placeholder_len = 0
    /\ max_alias_len = 0
    /\ ac = {}
    /\ ac_dirty = FALSE
    /\ out = None
-----------------------------------------------------------------------------
SetStyle(s) ==
    /\ style' = s
    /\ out' = None
    /\ UNCHANGED <<dynamic, fixed, window, automaton>>

\* Mutant: the latest length overwrites the recorded one.
WidenOverwrite(len, S) ==
    CHOOSE n \in 0 .. MaxLength : IF S = {} THEN n = len ELSE \E a \in S : n = Length[a]

\* The larger of a recorded length and the lengths of the aliases in S.
Widen(len, S) ==
    CHOOSE n \in 0 .. MaxLength :
        /\ n >= len /\ \A a \in S : n >= Length[a]
        /\ n = len \/ \E a \in S : n = Length[a]

First(I) == CHOOSE i \in I : \A j \in I : i <= j
Last(I) == CHOOSE i \in I : \A j \in I : i >= j

\* The first field of an alias gives the value it restores to (entry().or_insert_with);
\* the last field that lists a real value gives the alias that replaces it (insert).
FixedReverse(fields) ==
    [a \in Aliases |-> LET I == {i \in 1 .. Len(fields) : fields[i].alias = a}
                       IN  IF I = {} THEN None ELSE fields[First(I)].primary]
FixedForward(fields) ==
    [v \in Values |-> LET I == {i \in 1 .. Len(fields) : v \in fields[i].reals}
                      IN  IF I = {} THEN None ELSE fields[Last(I)].alias]
FixedForwardCi(fields) ==
    [w \in Values |-> LET I == {i \in 1 .. Len(fields) :
                                    fields[i].ci /\ \E v \in fields[i].reals : Lower[v] = w}
                      IN  IF I = {} THEN None ELSE fields[Last(I)].alias]

\* Note what set_identity removes: every non-placeholder alias of the old identity.
SetIdentity(fields) ==
    LET noted == {fields[i].alias : i \in 1 .. Len(fields)} IN
    /\ fixed_reverse' = FixedReverse(fields)
    /\ fixed_forward' = FixedForward(fields)
    /\ fixed_forward_ci' = FixedForwardCi(fields)
    /\ alias_set' = (alias_set \ {a \in Aliases : fixed_reverse[a] # None})
                        \cup (noted \ Placeholders)
    /\ max_placeholder_len' = Widen(max_placeholder_len, noted \cap Placeholders)
    /\ max_alias_len' = Widen(max_alias_len, noted \ Placeholders)
    /\ ac_dirty' = TRUE
    /\ out' = None
    /\ UNCHANGED <<style, dynamic, ac>>
-----------------------------------------------------------------------------
LookupFixed(v) == IF fixed_forward[v] # None THEN fixed_forward[v]
                                              ELSE fixed_forward_ci[Lower[v]]

\* Mutant: the aliases already handed out are not consulted.
AliasTakenStatic(a, v) == fixed_reverse[a] \notin {None, v}

AliasTaken(a, v) ==
    \/ fixed_reverse[a] \notin {None, v}
    \/ reverse[a] \notin {None, v}
    \/ a \in Values /\ (fixed_forward[a] # None \/ forward[a] # None)

\* The fake values (Synthetic style only), then the placeholders; the last placeholder is
\* used even when it is taken.
Candidates(v, e) == IF style = "Synthetic" THEN SynCands[<<v, e>>] \o PhCands[<<v, e>>]
                                           ELSE PhCands[<<v, e>>]
Refused(a, v) == AliasTaken(a, v) \/ (a \notin Placeholders /\ a = v)
Chosen(v, e) ==
    LET c == Candidates(v, e)
        free == {i \in 1 .. Len(c) : ~Refused(c[i], v)}
    IN  IF free = {} THEN c[Len(c)] ELSE c[First(free)]

\* Mutants: eviction one pair too late, and one too early.
FullLate == Len(order) > Cap
FullEarly == Len(order) >= Cap - 1

Full == Len(order) >= Cap

\* insert: note the alias, record the pair, then evict while over capacity (one pair, as
\* the table held at most Cap of them).
Insert(v, a) ==
    LET reverse1 == [reverse EXCEPT ![a] = v]
        forward1 == [forward EXCEPT ![v] = a]
        order1 == Append(order, a)
        old == Head(order1)
        owner == reverse1[old]
    IN
    /\ order' = IF Full THEN Tail(order1) ELSE order1
    /\ reverse' = IF Full THEN [reverse1 EXCEPT ![old] = None] ELSE reverse1
    /\ forward' = IF Full /\ owner # None THEN [forward1 EXCEPT ![owner] = None] ELSE forward1
    /\ alias_set' = (alias_set \cup ({a} \ Placeholders))
                        \ (IF Full /\ old \notin Placeholders /\ fixed_reverse[old] = None
                           THEN {old} ELSE {})
    /\ max_placeholder_len' = Widen(max_placeholder_len, {a} \cap Placeholders)
    /\ max_alias_len' = Widen(max_alias_len, {a} \ Placeholders)
    /\ ac_dirty' = TRUE

Reply(v, a) == out' = [value |-> v, alias |-> a]

HitIdentity(v) ==
    /\ LookupFixed(v) # None
    /\ Reply(v, LookupFixed(v))
    /\ UNCHANGED <<style, dynamic, fixed, window, automaton>>

HitForward(v) ==
    /\ LookupFixed(v) = None
    /\ forward[v] # None
    /\ Reply(v, forward[v])
    /\ UNCHANGED <<style, dynamic, fixed, window, automaton>>

IssueAlias(v, e) ==
    /\ LookupFixed(v) = None
    /\ forward[v] = None
    /\ Insert(v, Chosen(v, e))
    /\ Reply(v, Chosen(v, e))
    /\ UNCHANGED <<style, fixed, ac>>

PlaceholderFor(v, e) == HitIdentity(v) \/ HitForward(v) \/ IssueAlias(v, e)
-----------------------------------------------------------------------------
Known == {a \in Aliases : reverse[a] # None \/ fixed_reverse[a] # None}
OriginalFor(a) == IF fixed_reverse[a] # None THEN fixed_reverse[a] ELSE reverse[a]

\* restore_text rebuilds the automaton when it is out of date (ensure_ac).
RestoreText ==
    /\ ac' = IF ac_dirty THEN Known ELSE ac
    /\ ac_dirty' = FALSE
    /\ out' = None
    /\ UNCHANGED <<style, dynamic, fixed, window>>

\* Mutant: clear empties the maps and forgets what is derived from them.
ClearMapsOnly ==
    /\ forward' = [v \in Values |-> None]
    /\ reverse' = [a \in Aliases |-> None]
    /\ order' = <<>>
    /\ out' = None
    /\ UNCHANGED <<style, fixed, window, automaton>>

Clear ==
    /\ forward' = [v \in Values |-> None]
    /\ reverse' = [a \in Aliases |-> None]
    /\ order' = <<>>
    /\ alias_set' = {a \in alias_set : fixed_reverse[a] # None}
    /\ ac_dirty' = TRUE
    /\ out' = None
    /\ UNCHANGED <<style, fixed, max_placeholder_len, max_alias_len, ac>>

Next ==
    \/ \E s \in Styles : SetStyle(s)
    \/ \E fields \in Identities : SetIdentity(fields)
    \/ \E v \in Values, e \in Entities : PlaceholderFor(v, e)
    \/ RestoreText
    \/ Clear

Spec == Init /\ [][Next]_vars
-----------------------------------------------------------------------------
\* The maps hold values and aliases of the right kind and the table never exceeds its
\* capacity (`while self.order.len() > self.cap`).
TypeOK ==
    /\ style \in Styles
    /\ forward \in [Values -> Aliases \cup {None}]
    /\ reverse \in [Aliases -> Values \cup {None}]
    /\ order \in Seq(Aliases) /\ Len(order) <= Cap
    /\ fixed_forward \in [Values -> Aliases \cup {None}]
    /\ fixed_forward_ci \in [Values -> Aliases \cup {None}]
    /\ fixed_reverse \in [Aliases -> Values \cup {None}]
    /\ alias_set \in SUBSET (Aliases \ Placeholders)
    /\ max_placeholder_len \in 0 .. MaxLength
    /\ max_alias_len \in 0 .. MaxLength
    /\ ac \in SUBSET Aliases
    /\ ac_dirty \in BOOLEAN
    /\ out = None \/ out \in [value : Values, alias : Aliases]

\* forward and reverse are inverse of each other and order lists exactly the live aliases,
\* each once, whatever the candidates collide with, the identity holds or is evicted: what
\* insert, its eviction and clear must keep true of three collections updated separately.
TableConsistent ==
    /\ \A v \in Values : forward[v] # None => reverse[forward[v]] = v
    /\ \A a \in Aliases : reverse[a] # None => forward[reverse[a]] = a
    /\ \A a \in Aliases : reverse[a] # None <=> \E i \in 1 .. Len(order) : order[i] = a
    /\ \A i, j \in 1 .. Len(order) : order[i] = order[j] => i = j

\* The set used for streaming holds exactly the live aliases that are not placeholders, so
\* that the tail of a stream is held back for each of them (the comment on alias_set:
\* the set of the replacement values that are not placeholders).
AliasSetExact == alias_set = Known \ Placeholders

\* A clean automaton knows every live alias and no dead one: no method changes an index
\* and forgets to invalidate the automaton that restore_text searches with.
AutomatonFresh == ac_dirty \/ ac = Known

\* The holdback window is wide enough for every live alias, although lengths are recorded
\* only when an alias is noted.
WindowCoversAliases ==
    \A a \in Known : Length[a] <= IF a \in Placeholders THEN max_placeholder_len
                                                         ELSE max_alias_len

\* What the round trip asks of the user's configurations, which no code enforces: a text
\* chosen as an alias is never one the table generates, and the fields of a configuration
\* share neither aliases nor real values.
Hashed(a, v) ==
    \E e \in Entities :
        \/ \E i \in 1 .. Len(PhCands[<<v, e>>]) : PhCands[<<v, e>>][i] = a
        \/ \E i \in 1 .. Len(SynCands[<<v, e>>]) : SynCands[<<v, e>>][i] = a
SeparateIdentities ==
    \A fields \in Identities : \A i \in 1 .. Len(fields) :
        /\ \A v \in Values : ~Hashed(fields[i].alias, v)
        /\ \A j \in 1 .. Len(fields) \ {i} :
              /\ fields[i].alias # fields[j].alias
              /\ fields[i].reals \cap fields[j].reals = {}

\* The alias placeholder_for just returned is restored to the value it replaced or, for an
\* identity field, to a real value of that same field; a table so small that an insertion
\* evicts its own alias, or an identity that shadows it, would break the round trip.
ReplyRestores ==
    out # None =>
        LET original == OriginalFor(out.alias) IN
        IF LookupFixed(out.value) # None
        THEN original # None /\ fixed_forward[original] = out.alias
        ELSE original = out.value

\* A step other than clear forgets at most the oldest alias, and only when the table is
\* full: no lookup, configuration change or restoration loses a mapping.
EvictionIsFifo ==
    [][\A a \in Aliases :
          reverse[a] # None /\ reverse'[a] # reverse[a] =>
              order' = <<>> \/ (a = Head(order) /\ Len(order) = Cap)]_vars

\* The table implements the bounded list of pairs of AliasTable, with the evicted pair
\* always the oldest and a new alias never one that is live.
LivePairs == [i \in 1 .. Len(order) |-> [alias |-> order[i], value |-> reverse[order[i]]]]
Table == INSTANCE AliasTable WITH pairs <- LivePairs
ImplementsAliasTable == Table!Spec
=============================================================================
