----------------------- MODULE PlaceholderMap_proofs -----------------------
(***************************************************************************)
(* What holds of the placeholder table for every set of values, aliases,   *)
(* identities and candidates and every capacity.                           *)
(***************************************************************************)
EXTENDS PlaceholderMap, SequenceTheorems, FiniteSetTheorems, WellFoundedInduction, TLAPS

\* Sets of naturals have a least element.  The induction theorems of the library take an
\* operator as parameter; the well-foundedness of strict inclusion on finite sets does not, and
\* gives the same through initial segments.
\* A non-empty set of naturals has a least element (the index First chooses).
LEMMA LeastExists ==
    ASSUME NEW I, I \subseteq Nat, I # {}
    PROVE  \E x \in I : \A y \in I : x <= y
<1> DEFINE seg(x) == 0 .. x
           T == {seg(x) : x \in I}
           R == StrictSubsetOrdering(Nat)
<1>1. IsWellFoundedOn(R, FiniteSubsetsOf(Nat))
    BY FS_StrictSubsetOrderingWellFounded
<1>2. \A x \in I : seg(x) \in FiniteSubsetsOf(Nat)
    <2> SUFFICES ASSUME NEW x \in I PROVE seg(x) \in FiniteSubsetsOf(Nat)
        OBVIOUS
    <2>1. x \in Int /\ 0 \in Int
        OBVIOUS
    <2>2. IsFiniteSet(0 .. x)
        BY <2>1, FS_Interval
    <2>3. seg(x) \in SUBSET Nat
        OBVIOUS
    <2> QED BY <2>2, <2>3 DEF FiniteSubsetsOf
<1>3. T \subseteq FiniteSubsetsOf(Nat) /\ T # {}
    BY <1>2
<1>4. PICK s \in T : \A t \in T : <<t, s>> \notin R
    <2> HIDE DEF T, R
    <2> QED BY <1>1, <1>3, WFMin
<1>5. PICK x \in I : s = seg(x)
    BY <1>4
<1>6. ASSUME NEW y \in I, ~(x <= y) PROVE FALSE
    <2>1. seg(y) \subseteq seg(x)
        BY <1>6
    <2>2. x \in seg(x) /\ x \notin seg(y)
        BY <1>6
    <2>3. seg(x) \in SUBSET Nat /\ seg(y) \in SUBSET Nat
        OBVIOUS
    <2>4. <<seg(y), seg(x)>> \in R
        <3> HIDE DEF seg
        <3> QED BY <2>1, <2>2, <2>3 DEF StrictSubsetOrdering
    <2> QED BY <2>4, <1>4, <1>5
<1> QED BY <1>6

\* A non-empty set of naturals with an upper bound has a greatest element.
LEMMA GreatestExists ==
    ASSUME NEW n \in Nat, NEW I, I \subseteq 0 .. n, I # {}
    PROVE  \E x \in I : \A y \in I : y <= x
<1> DEFINE J == {n - i : i \in I}
<1>1. J \subseteq Nat /\ J # {}
    <2>1. \A i \in I : n - i \in Nat
        OBVIOUS
    <2>2. J \subseteq Nat
        BY <2>1
    <2>3. PICK w \in I : TRUE
        OBVIOUS
    <2>4. n - w \in J
        BY <2>3
    <2> QED BY <2>2, <2>4
<1>2. PICK z \in J : \A y \in J : z <= y
    <2> HIDE DEF J
    <2> QED BY <1>1, LeastExists
<1>3. PICK x \in I : z = n - x
    BY <1>2
<1>4. ASSUME NEW y \in I PROVE y <= x
    <2>1. z <= n - y
        BY <1>2
    <2> QED BY <2>1, <1>3
<1> QED BY <1>4
-----------------------------------------------------------------------------
\* First picks an element of a non-empty set of indices.
LEMMA FirstIn ==
    ASSUME NEW I, I \subseteq Nat, I # {}
    PROVE  First(I) \in I
BY LeastExists DEF First

\* Last picks an element of a non-empty set of indices of a sequence.
LEMMA LastIn ==
    ASSUME NEW n \in Nat, NEW I, I \subseteq 1 .. n, I # {}
    PROVE  Last(I) \in I
<1>1. I \subseteq 0 .. n
    OBVIOUS
<1>2. PICK x \in I : \A y \in I : y <= x
    BY <1>1, GreatestExists
<1>3. \A y \in I : x >= y
    BY <1>1, <1>2
<1> QED BY <1>3 DEF Last

\* Widen returns a length within bounds that covers the old length and every alias noted.
LEMMA WidenProperties ==
    ASSUME NEW len \in 0 .. MaxLength, NEW S, S \subseteq Aliases
    PROVE  /\ Widen(len, S) \in 0 .. MaxLength
           /\ Widen(len, S) >= len
           /\ \A a \in S : Widen(len, S) >= Length[a]
<1> DEFINE I == {len} \cup {Length[a] : a \in S}
<1>1. MaxLength \in Nat /\ Length \in [Aliases -> 0 .. MaxLength]
    BY TextAssumption
<1>2. I \subseteq 0 .. MaxLength /\ I # {}
    BY <1>1
<1>3. PICK x \in I : \A y \in I : y <= x
    <2> HIDE DEF I
    <2> QED BY <1>1, <1>2, GreatestExists
<1>4. x \in 0 .. MaxLength
    BY <1>2
<1>5. x >= len /\ \A a \in S : x >= Length[a]
    <2>1. len \in I /\ \A a \in S : Length[a] \in I
        OBVIOUS
    <2>2. \A y \in I : y \in Int
        BY <1>2
    <2> HIDE DEF I
    <2> QED BY <2>1, <2>2, <1>3, <1>4
<1>6. x = len \/ \E a \in S : x = Length[a]
    BY <1>3
<1> QED BY <1>4, <1>5, <1>6 DEF Widen

\* What an identity configuration the user may save looks like.
LEMMA FieldsType ==
    ASSUME NEW fields \in Identities
    PROVE  /\ Len(fields) \in Nat
           /\ \A i \in 1 .. Len(fields) : fields[i] \in Field
BY IdentityAssumption

\* The maps that set_identity builds have the right types.
LEMMA FixedTypes ==
    ASSUME NEW fields \in Identities
    PROVE  /\ FixedReverse(fields) \in [Aliases -> Values \cup {None}]
           /\ FixedForward(fields) \in [Values -> Aliases \cup {None}]
           /\ FixedForwardCi(fields) \in [Values -> Aliases \cup {None}]
<1>1. \A I \in SUBSET (1 .. Len(fields)) : I # {} => First(I) \in I /\ Last(I) \in I
    <2> SUFFICES ASSUME NEW I \in SUBSET (1 .. Len(fields)), I # {}
                 PROVE  First(I) \in I /\ Last(I) \in I
        OBVIOUS
    <2>1. Len(fields) \in Nat /\ I \subseteq Nat
        BY FieldsType
    <2> QED BY <2>1, FirstIn, LastIn
<1>2. \A i \in 1 .. Len(fields) : fields[i].primary \in Values /\ fields[i].alias \in Aliases
    BY FieldsType DEF Field
<1>3. FixedReverse(fields) \in [Aliases -> Values \cup {None}]
    <2> SUFFICES ASSUME NEW a \in Aliases
                 PROVE  FixedReverse(fields)[a] \in Values \cup {None}
        BY DEF FixedReverse
    <2> DEFINE I == {i \in 1 .. Len(fields) : fields[i].alias = a}
    <2>1. I # {} => First(I) \in 1 .. Len(fields)
        BY <1>1
    <2> QED BY <2>1, <1>2 DEF FixedReverse
<1>4. FixedForward(fields) \in [Values -> Aliases \cup {None}]
    <2> SUFFICES ASSUME NEW v \in Values
                 PROVE  FixedForward(fields)[v] \in Aliases \cup {None}
        BY DEF FixedForward
    <2> DEFINE I == {i \in 1 .. Len(fields) : v \in fields[i].reals}
    <2>1. I # {} => Last(I) \in 1 .. Len(fields)
        BY <1>1
    <2> QED BY <2>1, <1>2 DEF FixedForward
<1>5. FixedForwardCi(fields) \in [Values -> Aliases \cup {None}]
    <2> SUFFICES ASSUME NEW w \in Values
                 PROVE  FixedForwardCi(fields)[w] \in Aliases \cup {None}
        BY DEF FixedForwardCi
    <2> DEFINE I == {i \in 1 .. Len(fields) :
                        fields[i].ci /\ \E v \in fields[i].reals : Lower[v] = w}
    <2>1. I # {} => Last(I) \in 1 .. Len(fields)
        BY <1>1
    <2> QED BY <2>1, <1>2 DEF FixedForwardCi
<1> QED BY <1>3, <1>4, <1>5

\* The candidates are a non-empty sequence of aliases that ends with the placeholders.
LEMMA CandidatesType ==
    ASSUME NEW v \in Values, NEW e \in Entities
    PROVE  /\ Candidates(v, e) \in Seq(Aliases)
           /\ Len(Candidates(v, e)) \in Nat \ {0}
<1> DEFINE ph == PhCands[<<v, e>>]
           syn == SynCands[<<v, e>>]
<1>1. ph \in Seq(Aliases) /\ ph # <<>> /\ syn \in Seq(Aliases)
    BY CandidateAssumption, TextAssumption
<1>2. Len(ph) \in Nat \ {0} /\ Len(syn) \in Nat
    BY <1>1
<1>3. syn \o ph \in Seq(Aliases) /\ Len(syn \o ph) = Len(syn) + Len(ph)
    BY <1>1, ConcatProperties
<1>4. Candidates(v, e) = IF style = "Synthetic" THEN syn \o ph ELSE ph
    BY DEF Candidates
<1> HIDE DEF ph, syn
<1>5. Len(syn \o ph) \in Nat \ {0}
    BY <1>2, <1>3
<1> QED BY <1>1, <1>2, <1>3, <1>4, <1>5

\* placeholder_for picks one of the candidates, and never a refused one while one is free.
LEMMA ChosenProperties ==
    ASSUME NEW v \in Values, NEW e \in Entities
    PROVE  /\ Chosen(v, e) \in Aliases
           /\ \E i \in 1 .. Len(Candidates(v, e)) : Chosen(v, e) = Candidates(v, e)[i]
           /\ (\E i \in 1 .. Len(Candidates(v, e)) : ~Refused(Candidates(v, e)[i], v))
                  => ~Refused(Chosen(v, e), v)
<1> DEFINE c == Candidates(v, e)
           free == {i \in 1 .. Len(c) : ~Refused(c[i], v)}
<1>1. c \in Seq(Aliases) /\ Len(c) \in Nat \ {0}
    BY CandidatesType
<1>2. free # {} => First(free) \in free
    <2>1. free \subseteq Nat
        OBVIOUS
    <2> HIDE DEF free
    <2> QED BY <2>1, FirstIn
<1>3. Chosen(v, e) = IF free = {} THEN c[Len(c)] ELSE c[First(free)]
    BY DEF Chosen
<1>4. \E i \in 1 .. Len(c) : Chosen(v, e) = c[i]
    <2>1. Len(c) \in 1 .. Len(c)
        BY <1>1
    <2> QED BY <1>2, <1>3, <2>1
<1>5. free # {} => ~Refused(Chosen(v, e), v)
    BY <1>2, <1>3
<1>6. (\E i \in 1 .. Len(c) : ~Refused(c[i], v)) => free # {}
    OBVIOUS
<1>7. \A i \in 1 .. Len(c) : c[i] \in Aliases
    BY <1>1
<1> QED BY <1>4, <1>5, <1>6, <1>7
-----------------------------------------------------------------------------
(* Type correctness.                                                         *)

\* insert keeps every component well typed and the table within its capacity.
LEMMA InsertType ==
    ASSUME TypeOK, NEW v \in Values, NEW a \in Aliases, Insert(v, a)
    PROVE  /\ order' \in Seq(Aliases) /\ Len(order') <= Cap
           /\ reverse' \in [Aliases -> Values \cup {None}]
           /\ forward' \in [Values -> Aliases \cup {None}]
           /\ alias_set' \in SUBSET (Aliases \ Placeholders)
           /\ max_placeholder_len' \in 0 .. MaxLength
           /\ max_alias_len' \in 0 .. MaxLength
           /\ ac_dirty' \in BOOLEAN
<1> DEFINE order1 == Append(order, a)
<1> USE DEF TypeOK
<1>1. /\ order1 \in Seq(Aliases)
      /\ order1 # <<>>
      /\ Len(order1) = Len(order) + 1
    BY AppendProperties
<1>2. /\ Head(order1) \in Aliases
      /\ Tail(order1) \in Seq(Aliases)
      /\ Len(Tail(order1)) = Len(order)
    <2> HIDE DEF order1
    <2>1. Len(order) \in Nat
        OBVIOUS
    <2> QED BY <1>1, <2>1, HeadTailProperties
<1>3. order' \in Seq(Aliases) /\ Len(order') <= Cap
    <2>1. order' = IF Full THEN Tail(order1) ELSE order1
        BY DEF Insert
    <2>2. Len(order) \in Nat /\ Cap \in Nat \ {0}
        BY CapAssumption
    <2> HIDE DEF order1
    <2> QED BY <1>1, <1>2, <2>1, <2>2 DEF Full
<1>4. reverse' \in [Aliases -> Values \cup {None}]
    BY <1>2 DEF Insert
<1>5. forward' \in [Values -> Aliases \cup {None}]
    BY <1>2 DEF Insert
<1>6. alias_set' \in SUBSET (Aliases \ Placeholders)
    BY DEF Insert
<1>7. max_placeholder_len' \in 0 .. MaxLength /\ max_alias_len' \in 0 .. MaxLength
    BY WidenProperties DEF Insert
<1>8. ac_dirty' \in BOOLEAN
    BY DEF Insert
<1> QED BY <1>3, <1>4, <1>5, <1>6, <1>7, <1>8

LEMMA TypeInductive == TypeOK /\ [Next]_vars => TypeOK'
<1> SUFFICES ASSUME TypeOK, [Next]_vars PROVE TypeOK'
    OBVIOUS
<1>1. ASSUME NEW s \in Styles, SetStyle(s) PROVE TypeOK'
    BY <1>1 DEF TypeOK, SetStyle, dynamic, fixed, window, automaton
<1>2. ASSUME NEW fields \in Identities, SetIdentity(fields) PROVE TypeOK'
    <2> DEFINE noted == {fields[i].alias : i \in 1 .. Len(fields)}
    <2>1. noted \subseteq Aliases
        BY FieldsType DEF Field
    <2>2. max_placeholder_len' \in 0 .. MaxLength /\ max_alias_len' \in 0 .. MaxLength
        <3>1. /\ max_placeholder_len' = Widen(max_placeholder_len, noted \cap Placeholders)
              /\ max_alias_len' = Widen(max_alias_len, noted \ Placeholders)
            BY <1>2 DEF SetIdentity
        <3>2. noted \cap Placeholders \subseteq Aliases /\ noted \ Placeholders \subseteq Aliases
            BY <2>1
        <3> HIDE DEF noted
        <3> QED BY <3>1, <3>2, WidenProperties DEF TypeOK
    <2>3. alias_set' \in SUBSET (Aliases \ Placeholders)
        BY <1>2, <2>1 DEF SetIdentity, TypeOK
    <2> QED BY <1>2, <2>2, <2>3, FixedTypes DEF TypeOK, SetIdentity, dynamic
<1>3. ASSUME NEW v \in Values, NEW e \in Entities, PlaceholderFor(v, e) PROVE TypeOK'
    <2>1. CASE HitIdentity(v)
        <3>1. LookupFixed(v) \in Aliases
            BY <2>1, TextAssumption DEF TypeOK, HitIdentity, LookupFixed
        <3> QED BY <2>1, <3>1 DEF TypeOK, HitIdentity, Reply, dynamic, fixed, window, automaton
    <2>2. CASE HitForward(v)
        <3>1. forward[v] \in Aliases
            BY <2>2 DEF TypeOK, HitForward
        <3> QED BY <2>2, <3>1 DEF TypeOK, HitForward, Reply, dynamic, fixed, window, automaton
    <2>3. CASE IssueAlias(v, e)
        <3>1. Chosen(v, e) \in Aliases
            BY ChosenProperties
        <3>2. Insert(v, Chosen(v, e)) /\ out' = [value |-> v, alias |-> Chosen(v, e)]
            BY <2>3 DEF IssueAlias, Reply
        <3> QED BY <2>3, <3>1, <3>2, InsertType DEF TypeOK, IssueAlias, fixed
    <2> QED BY <1>3, <2>1, <2>2, <2>3 DEF PlaceholderFor
<1>4. ASSUME RestoreText PROVE TypeOK'
    BY <1>4 DEF TypeOK, RestoreText, Known, dynamic, fixed, window
<1>5. ASSUME Clear PROVE TypeOK'
    <2>1. <<>> \in Seq(Aliases) /\ Len(<<>>) <= Cap
        BY CapAssumption
    <2> QED BY <1>5, <2>1 DEF TypeOK, Clear, fixed
<1>6. ASSUME UNCHANGED vars PROVE TypeOK'
    BY <1>6 DEF TypeOK, vars
<1> QED BY <1>1, <1>2, <1>3, <1>4, <1>5, <1>6 DEF Next

LEMMA TypeInit == Init => TypeOK
<1>1. <<>> \in Seq(Aliases) /\ Len(<<>>) <= Cap
    BY CapAssumption
<1>2. 0 \in 0 .. MaxLength
    BY TextAssumption
<1>3. SUFFICES ASSUME Init PROVE TypeOK
    OBVIOUS
<1>4. order \in Seq(Aliases) /\ Len(order) <= Cap
    BY <1>1, <1>3 DEF Init
<1>5. max_placeholder_len \in 0 .. MaxLength /\ max_alias_len \in 0 .. MaxLength
    BY <1>2, <1>3 DEF Init
<1> QED BY <1>3, <1>4, <1>5 DEF Init, TypeOK, Styles

\* The table holds well-typed maps and never more than Cap dynamic pairs.
THEOREM TypeCorrect == Spec => []TypeOK
BY TypeInit, TypeInductive, PTL DEF Spec
-----------------------------------------------------------------------------
(* The consistency of the three collections.  TableConsistent alone is not   *)
(* inductive: that a candidate is free follows from where the live aliases   *)
(* come from.                                                                *)

\* A live alias was generated for the value it stands for, and an identity alias was
\* configured by the user.
AliasOrigin ==
    /\ \A a \in Aliases : reverse[a] # None => Hashed(a, reverse[a])
    /\ \A a \in Aliases : fixed_reverse[a] # None =>
          \E fields \in Identities : \E i \in 1 .. Len(fields) : fields[i].alias = a

TableInv == TypeOK /\ TableConsistent /\ AliasOrigin

\* Every placeholder hashed for a value is among the candidates of the value.
LEMMA PlaceholderIsCandidate ==
    ASSUME NEW v \in Values, NEW e \in Entities, NEW i \in 1 .. Len(PhCands[<<v, e>>])
    PROVE  \E k \in 1 .. Len(Candidates(v, e)) : Candidates(v, e)[k] = PhCands[<<v, e>>][i]
<1> DEFINE ph == PhCands[<<v, e>>]
           syn == SynCands[<<v, e>>]
<1>1. ph \in Seq(Aliases) /\ syn \in Seq(Aliases)
    BY CandidateAssumption, TextAssumption, SMTT(60)
<1>2. /\ Len(syn \o ph) = Len(syn) + Len(ph)
      /\ \A k \in 1 .. Len(syn) + Len(ph) :
            (syn \o ph)[k] = IF k <= Len(syn) THEN syn[k] ELSE ph[k - Len(syn)]
    BY <1>1, ConcatProperties
<1>3. Len(syn) \in Nat /\ Len(ph) \in Nat
    BY <1>1
<1>4. Candidates(v, e) = IF style = "Synthetic" THEN syn \o ph ELSE ph
    BY DEF Candidates
<1>5. i \in 1 .. Len(ph)
    OBVIOUS
<1> SUFFICES \E k \in 1 .. Len(Candidates(v, e)) : Candidates(v, e)[k] = ph[i]
    OBVIOUS
<1> HIDE DEF ph, syn
<1>6. Len(syn) + i \in 1 .. Len(syn) + Len(ph) /\ ~(Len(syn) + i <= Len(syn))
    BY <1>3, <1>5
<1>7. (Len(syn) + i) - Len(syn) = i
    BY <1>3, <1>5
<1>8. (syn \o ph)[Len(syn) + i] = ph[i]
    BY <1>2, <1>6, <1>7
<1>9. CASE style = "Synthetic"
    <2>1. Candidates(v, e) = syn \o ph
        BY <1>4, <1>9
    <2>2. Len(syn) + i \in 1 .. Len(syn \o ph)
        BY <1>2, <1>6
    <2> QED BY <2>1, <2>2, <1>8
<1>10. CASE style # "Synthetic"
    BY <1>4, <1>5, <1>10
<1> QED BY <1>9, <1>10

\* The alias chosen for a value that has none is not live.
LEMMA ChosenIsFresh ==
    ASSUME TableInv, NEW v \in Values, NEW e \in Entities, forward[v] = None
    PROVE  /\ reverse[Chosen(v, e)] = None
           /\ ~Refused(Chosen(v, e), v)
<1> DEFINE ph == PhCands[<<v, e>>]
<1>1. PICK i \in 1 .. Len(ph) :
          /\ ph[i] \notin Values
          /\ \A w \in Values \ {v}, d \in Entities :
                \A j \in 1 .. Len(PhCands[<<w, d>>]) : PhCands[<<w, d>>][j] # ph[i]
          /\ \A fields \in Identities : \A j \in 1 .. Len(fields) : fields[j].alias # ph[i]
    BY CollisionAssumption
<1>2. ph[i] \in Placeholders /\ ph[i] \in Aliases
    BY CandidateAssumption, TextAssumption
<1>3. fixed_reverse[ph[i]] = None
    BY <1>1, <1>2 DEF TableInv, AliasOrigin
<1>4. reverse[ph[i]] \in {None, v}
    <2>1. reverse[ph[i]] \in Values \cup {None}
        BY <1>2 DEF TableInv, TypeOK
    <2>2. ASSUME reverse[ph[i]] # None, reverse[ph[i]] # v PROVE FALSE
        <3> DEFINE w == reverse[ph[i]]
        <3>1. w \in Values \ {v}
            BY <2>1, <2>2
        <3>2. Hashed(ph[i], w)
            BY <1>2, <2>2, SMTT(60) DEF TableInv, AliasOrigin
        <3>3. PICK d \in Entities :
                  \/ \E j \in 1 .. Len(PhCands[<<w, d>>]) : PhCands[<<w, d>>][j] = ph[i]
                  \/ \E j \in 1 .. Len(SynCands[<<w, d>>]) : SynCands[<<w, d>>][j] = ph[i]
            BY <3>2 DEF Hashed
        <3>4. \A j \in 1 .. Len(SynCands[<<w, d>>]) : SynCands[<<w, d>>][j] \notin Placeholders
            <4>1. SynCands[<<w, d>>] \in Seq(Aliases \ Placeholders)
                BY <3>1, CandidateAssumption
            <4> QED BY <4>1
        <3> HIDE DEF w, ph
        <3> QED BY <1>1, <1>2, <3>1, <3>3, <3>4
    <2> QED BY <2>2
<1>5. ~Refused(ph[i], v)
    BY <1>1, <1>2, <1>3, <1>4 DEF Refused, AliasTaken
<1>6. ~Refused(Chosen(v, e), v)
    <2>1. PICK k \in 1 .. Len(Candidates(v, e)) : Candidates(v, e)[k] = ph[i]
        BY PlaceholderIsCandidate
    <2> QED BY <1>5, <2>1, ChosenProperties
<1>7. Chosen(v, e) \in Aliases
    BY ChosenProperties
<1>8. reverse[Chosen(v, e)] # v
    BY <1>7, TextAssumption DEF TableInv, TableConsistent
<1> QED BY <1>6, <1>8 DEF Refused, AliasTaken

\* What insert does to the queue: it appends, and drops the front of a full queue.
LEMMA InsertOrder ==
    ASSUME TypeOK, NEW v \in Values, NEW a \in Aliases, Insert(v, a)
    PROVE  /\ ~Full => /\ Len(order') = Len(order) + 1
                       /\ \A i \in 1 .. Len(order) : order'[i] = order[i]
                       /\ order'[Len(order) + 1] = a
           /\ Full => /\ Len(order) = Cap /\ Len(order) >= 1
                      /\ Head(Append(order, a)) = order[1]
                      /\ Len(order') = Len(order)
                      /\ \A i \in 1 .. Len(order) - 1 : order'[i] = order[i + 1]
                      /\ order'[Len(order)] = a
<1> DEFINE order1 == Append(order, a)
<1>1. order \in Seq(Aliases) /\ Len(order) <= Cap
    BY DEF TypeOK
<1>2. /\ order1 \in Seq(Aliases)
      /\ order1 # <<>>
      /\ Len(order1) = Len(order) + 1
      /\ \A i \in 1 .. Len(order) : order1[i] = order[i]
      /\ order1[Len(order) + 1] = a
    BY <1>1, AppendProperties
<1>3. order' = IF Full THEN Tail(order1) ELSE order1
    BY DEF Insert
<1>4. Len(order) \in Nat /\ Cap \in Nat \ {0}
    BY <1>1, CapAssumption
<1> HIDE DEF order1
<1>5. ASSUME Full
      PROVE  /\ Len(order) = Cap /\ Len(order) >= 1
             /\ Head(order1) = order[1]
             /\ Len(order') = Len(order)
             /\ \A i \in 1 .. Len(order) - 1 : order'[i] = order[i + 1]
             /\ order'[Len(order)] = a
    <2>1. Len(order) = Cap /\ Len(order) >= 1
        BY <1>1, <1>4, <1>5 DEF Full
    <2>2. /\ Len(Tail(order1)) = Len(order1) - 1
          /\ \A i \in 1 .. Len(Tail(order1)) : Tail(order1)[i] = order1[i + 1]
        BY <1>2, HeadTailProperties
    <2>3. Len(Tail(order1)) = Len(order)
        BY <1>2, <1>4, <2>2
    <2>4. Head(order1) = order1[1]
        BY <1>2
    <2>5. order1[1] = order[1]
        BY <1>2, <1>4, <2>1
    <2>6. \A i \in 1 .. Len(order) : Tail(order1)[i] = order1[i + 1]
        BY <2>2, <2>3
    <2>7. \A i \in 1 .. Len(order) - 1 : order1[i + 1] = order[i + 1]
        BY <1>2, <1>4
    <2> QED BY <1>2, <1>3, <1>4, <1>5, <2>1, <2>3, <2>4, <2>5, <2>6, <2>7
<1>6. ~Full => order' = order1
    BY <1>3
<1> QED BY <1>2, <1>5, <1>6 DEF order1

\* What insert does to the two maps, given a fresh alias: one pair appears, and the pair of
\* the oldest alias disappears when the table was full.
LEMMA InsertMaps ==
    ASSUME TypeOK, TableConsistent, NEW v \in Values, NEW a \in Aliases,
           Insert(v, a), forward[v] = None, reverse[a] = None
    PROVE  /\ ~Full => /\ reverse' = [reverse EXCEPT ![a] = v]
                       /\ forward' = [forward EXCEPT ![v] = a]
           /\ Full => /\ order[1] \in Aliases /\ order[1] # a
                      /\ reverse[order[1]] \in Values /\ reverse[order[1]] # v
                      /\ forward[reverse[order[1]]] = order[1]
                      /\ reverse' = [reverse EXCEPT ![a] = v, ![order[1]] = None]
                      /\ forward' = [forward EXCEPT ![v] = a, ![reverse[order[1]]] = None]
<1>1. CASE ~Full
    BY <1>1 DEF Insert
<1>2. CASE Full
    <2> DEFINE old == order[1]
    <2>1. Len(order) >= 1 /\ Len(order) \in Nat /\ Head(Append(order, a)) = old
        BY <1>2, InsertOrder DEF TypeOK
    <2>2. 1 \in 1 .. Len(order)
        BY <2>1
    <2>3. old \in Aliases
        BY <2>2 DEF TypeOK
    <2>4. reverse[old] # None
        BY <2>2, <2>3 DEF TableConsistent
    <2>5. old # a /\ reverse[old] \in Values
        BY <2>3, <2>4 DEF TypeOK
    <2>6. forward[reverse[old]] = old /\ reverse[old] # v
        BY <2>3, <2>4, TextAssumption DEF TableConsistent
    <2>7. reverse' = [[reverse EXCEPT ![a] = v] EXCEPT ![old] = None]
        BY <1>2, <2>1 DEF Insert
    <2>8. [reverse EXCEPT ![a] = v][old] = reverse[old]
        BY <2>3, <2>5 DEF TypeOK
    <2>9. forward' = [[forward EXCEPT ![v] = a] EXCEPT ![reverse[old]] = None]
        BY <1>2, <2>1, <2>4, <2>8 DEF Insert
    <2> QED BY <1>2, <2>3, <2>5, <2>6, <2>7, <2>9
<1> QED BY <1>1, <1>2

\* insert of a fresh alias keeps the two maps and the queue consistent.
LEMMA InsertConsistent ==
    ASSUME TypeOK, TableConsistent, NEW v \in Values, NEW a \in Aliases,
           Insert(v, a), forward[v] = None, reverse[a] = None
    PROVE  TableConsistent'
<1> DEFINE n == Len(order)
           old == order[1]
<1>0. /\ n \in Nat
      /\ reverse \in [Aliases -> Values \cup {None}]
      /\ forward \in [Values -> Aliases \cup {None}]
      /\ None \notin Values \cup Aliases
      /\ \A i \in 1 .. n : order[i] \in Aliases
    BY TextAssumption DEF TypeOK
<1>1. /\ \A u \in Values : forward[u] # None => reverse[forward[u]] = u
      /\ \A b \in Aliases : reverse[b] # None => forward[reverse[b]] = b
      /\ \A b \in Aliases : reverse[b] # None <=> \E i \in 1 .. n : order[i] = b
      /\ \A i, j \in 1 .. n : order[i] = order[j] => i = j
    BY DEF TableConsistent
<1>2. \A i \in 1 .. n : order[i] # a
    BY <1>0, <1>1
<1>3. CASE ~Full
    <2>1. reverse' = [reverse EXCEPT ![a] = v] /\ forward' = [forward EXCEPT ![v] = a]
        BY <1>3, InsertMaps
    <2>2. Len(order') = n + 1 /\ (\A i \in 1 .. n : order'[i] = order[i]) /\ order'[n + 1] = a
        BY <1>3, InsertOrder
    <2> HIDE DEF n, old
    <2>3. \A u \in Values : forward'[u] # None => reverse'[forward'[u]] = u
        BY <1>0, <1>1, <2>1
    <2>4. \A b \in Aliases : reverse'[b] # None => forward'[reverse'[b]] = b
        BY <1>0, <1>1, <2>1
    <2>5. \A b \in Aliases : reverse'[b] # None <=> \E i \in 1 .. Len(order') : order'[i] = b
        <3> SUFFICES ASSUME NEW b \in Aliases
                     PROVE  reverse'[b] # None <=> \E i \in 1 .. n + 1 : order'[i] = b
            BY <2>2
        <3>1. CASE b = a
            BY <1>0, <2>1, <2>2, <3>1
        <3>2. CASE b # a
            <4>1. reverse'[b] # None <=> \E i \in 1 .. n : order[i] = b
                BY <1>0, <1>1, <2>1, <3>2
            <4>2. \A i \in 1 .. n + 1 : order'[i] = b <=> i \in 1 .. n /\ order[i] = b
                BY <1>0, <2>2, <3>2
            <4> QED BY <1>0, <4>1, <4>2
        <3> QED BY <3>1, <3>2
    <2>6. \A i, j \in 1 .. Len(order') : order'[i] = order'[j] => i = j
        <3>1. \A i \in 1 .. n + 1 : i \in 1 .. n \/ i = n + 1
            BY <1>0
        <3> QED BY <1>0, <1>1, <1>2, <2>2, <3>1
    <2> QED BY <2>3, <2>4, <2>5, <2>6 DEF TableConsistent
<1>4. CASE Full
    <2>1. /\ old \in Aliases /\ old # a
          /\ reverse[old] \in Values /\ reverse[old] # v
          /\ forward[reverse[old]] = old
          /\ reverse' = [reverse EXCEPT ![a] = v, ![old] = None]
          /\ forward' = [forward EXCEPT ![v] = a, ![reverse[old]] = None]
        BY <1>4, InsertMaps
    <2>2. /\ n >= 1 /\ Len(order') = n
          /\ \A i \in 1 .. n - 1 : order'[i] = order[i + 1]
          /\ order'[n] = a
        BY <1>4, InsertOrder
    <2>3. \A i \in 2 .. n : order[i] # old
        BY <1>0, <1>1, <2>2
    <2>4. order[1] = old
        OBVIOUS
    <2> HIDE DEF n, old
    <2>5. \A u \in Values : forward'[u] # None => reverse'[forward'[u]] = u
        <3> SUFFICES ASSUME NEW u \in Values, forward'[u] # None
                     PROVE  reverse'[forward'[u]] = u
            OBVIOUS
        <3>1. CASE u = v
            BY <1>0, <2>1, <3>1
        <3>2. CASE u # v
            <4>1. u # reverse[old] /\ forward'[u] = forward[u]
                BY <1>0, <2>1, <3>2
            <4>2. forward[u] \in Aliases /\ reverse[forward[u]] = u
                BY <1>0, <1>1, <4>1
            <4>3. forward[u] # a /\ forward[u] # old
                BY <1>0, <4>1, <4>2
            <4> QED BY <1>0, <2>1, <4>1, <4>2, <4>3
        <3> QED BY <3>1, <3>2
    <2>6. \A b \in Aliases : reverse'[b] # None => forward'[reverse'[b]] = b
        <3> SUFFICES ASSUME NEW b \in Aliases, reverse'[b] # None
                     PROVE  forward'[reverse'[b]] = b
            OBVIOUS
        <3>1. CASE b = a
            BY <1>0, <2>1, <3>1
        <3>2. CASE b # a
            <4>1. b # old /\ reverse'[b] = reverse[b] /\ reverse[b] # None
                BY <1>0, <2>1, <3>2
            <4>2. reverse[b] \in Values /\ forward[reverse[b]] = b
                BY <1>0, <1>1, <4>1
            <4>3. reverse[b] # v /\ reverse[b] # reverse[old]
                BY <1>0, <2>1, <4>1, <4>2
            <4> QED BY <1>0, <2>1, <4>1, <4>2, <4>3
        <3> QED BY <3>1, <3>2
    <2>7. \A b \in Aliases : reverse'[b] # None <=> \E i \in 1 .. Len(order') : order'[i] = b
        <3> SUFFICES ASSUME NEW b \in Aliases
                     PROVE  reverse'[b] # None <=> \E i \in 1 .. n : order'[i] = b
            BY <2>2
        <3>1. CASE b = a
            <4>1. n \in 1 .. n
                BY <1>0, <2>2
            <4> QED BY <1>0, <2>1, <2>2, <3>1, <4>1
        <3>2. CASE b = old
            <4>1. reverse'[b] = None
                BY <1>0, <2>1, <3>2
            <4>2. ASSUME NEW i \in 1 .. n, order'[i] = b PROVE FALSE
                <5>1. i # n
                    BY <2>1, <2>2, <3>2, <4>2
                <5>2. i \in 1 .. n - 1 /\ i + 1 \in 2 .. n
                    BY <1>0, <5>1
                <5> QED BY <2>2, <2>3, <3>2, <4>2, <5>2
            <4> QED BY <4>1, <4>2
        <3>3. CASE b # a /\ b # old
            <4>1. reverse'[b] # None <=> \E i \in 1 .. n : order[i] = b
                BY <1>0, <1>1, <2>1, <3>3
            <4>2. ASSUME NEW i \in 1 .. n, order[i] = b PROVE \E k \in 1 .. n : order'[k] = b
                <5>1. i # 1
                    BY <2>4, <3>3, <4>2
                <5>2. i - 1 \in 1 .. n - 1 /\ i - 1 \in 1 .. n /\ (i - 1) + 1 = i
                    BY <1>0, <5>1
                <5> QED BY <2>2, <4>2, <5>2
            <4>3. ASSUME NEW i \in 1 .. n, order'[i] = b PROVE \E k \in 1 .. n : order[k] = b
                <5>1. i # n
                    BY <2>2, <3>3, <4>3
                <5>2. i \in 1 .. n - 1 /\ i + 1 \in 1 .. n
                    BY <1>0, <5>1
                <5> QED BY <2>2, <4>3, <5>2
            <4> QED BY <4>1, <4>2, <4>3
        <3> QED BY <3>1, <3>2, <3>3
    <2>8. \A i, j \in 1 .. Len(order') : order'[i] = order'[j] => i = j
        <3> SUFFICES ASSUME NEW i \in 1 .. n, NEW j \in 1 .. n, order'[i] = order'[j]
                     PROVE  i = j
            BY <2>2
        <3>1. \A k \in 1 .. n - 1 : k + 1 \in 1 .. n /\ order'[k] = order[k + 1] /\ order'[k] # a
            BY <1>0, <1>2, <2>2
        <3>2. (i \in 1 .. n - 1 \/ i = n) /\ (j \in 1 .. n - 1 \/ j = n)
            BY <1>0
        <3>3. CASE i \in 1 .. n - 1 /\ j \in 1 .. n - 1
            <4>1. i + 1 = j + 1
                BY <1>1, <3>1, <3>3
            <4> QED BY <4>1
        <3>4. CASE i = n \/ j = n
            BY <2>2, <3>1, <3>2, <3>4
        <3> QED BY <3>2, <3>3, <3>4
    <2> QED BY <2>5, <2>6, <2>7, <2>8 DEF TableConsistent
<1> QED BY <1>3, <1>4

\* The alias chosen for a value was generated for it.
LEMMA ChosenIsHashed ==
    ASSUME NEW v \in Values, NEW e \in Entities
    PROVE  Hashed(Chosen(v, e), v)
<1> DEFINE ph == PhCands[<<v, e>>]
           syn == SynCands[<<v, e>>]
<1>1. ph \in Seq(Aliases) /\ syn \in Seq(Aliases)
    BY CandidateAssumption, TextAssumption
<1>2. /\ Len(syn \o ph) = Len(syn) + Len(ph)
      /\ \A k \in 1 .. Len(syn) + Len(ph) :
            (syn \o ph)[k] = IF k <= Len(syn) THEN syn[k] ELSE ph[k - Len(syn)]
    BY <1>1, ConcatProperties
<1>3. Len(syn) \in Nat /\ Len(ph) \in Nat
    BY <1>1
<1>4. Candidates(v, e) = IF style = "Synthetic" THEN syn \o ph ELSE ph
    BY DEF Candidates
<1>5. PICK k \in 1 .. Len(Candidates(v, e)) : Chosen(v, e) = Candidates(v, e)[k]
    BY ChosenProperties
<1>6. SUFFICES \/ \E i \in 1 .. Len(ph) : ph[i] = Candidates(v, e)[k]
               \/ \E i \in 1 .. Len(syn) : syn[i] = Candidates(v, e)[k]
    BY <1>5 DEF Hashed
<1> HIDE DEF ph, syn
<1>7. CASE style = "Synthetic"
    <2>1. k \in 1 .. Len(syn) + Len(ph) /\ Candidates(v, e)[k] = (syn \o ph)[k]
        BY <1>2, <1>4, <1>7
    <2>2. CASE k <= Len(syn)
        BY <1>2, <1>3, <2>1, <2>2
    <2>3. CASE ~(k <= Len(syn))
        <3>1. k - Len(syn) \in 1 .. Len(ph)
            BY <1>3, <2>1, <2>3
        <3> QED BY <1>2, <2>1, <2>3, <3>1
    <2> QED BY <2>2, <2>3
<1>8. CASE style # "Synthetic"
    BY <1>4, <1>8
<1> QED BY <1>7, <1>8

\* The aliases that a saved configuration restores are those of its fields.
LEMMA FixedReverseDomain ==
    ASSUME NEW fields \in Identities, NEW a \in Aliases
    PROVE  FixedReverse(fields)[a] # None <=> \E i \in 1 .. Len(fields) : fields[i].alias = a
<1> DEFINE I == {i \in 1 .. Len(fields) : fields[i].alias = a}
<1>1. I # {} => First(I) \in I
    <2>1. I \subseteq Nat
        OBVIOUS
    <2> HIDE DEF I
    <2> QED BY <2>1, FirstIn
<1>2. \A i \in 1 .. Len(fields) : fields[i].primary \in Values
    BY FieldsType DEF Field
<1>3. FixedReverse(fields)[a] = IF I = {} THEN None ELSE fields[First(I)].primary
    BY DEF FixedReverse
<1> QED BY <1>1, <1>2, <1>3, TextAssumption

LEMMA TableInvInductive == TableInv /\ [Next]_vars => TableInv'
<1> SUFFICES ASSUME TableInv, [Next]_vars PROVE TableInv'
    OBVIOUS
<1>0. TypeOK'
    BY TypeInductive DEF TableInv
<1>1. ASSUME UNCHANGED <<forward, reverse, order, fixed_reverse>>
      PROVE  TableConsistent' /\ AliasOrigin'
    BY <1>1 DEF TableInv, TableConsistent, AliasOrigin
<1>2. ASSUME NEW s \in Styles, SetStyle(s) PROVE TableConsistent' /\ AliasOrigin'
    BY <1>1, <1>2 DEF SetStyle, dynamic, fixed
<1>3. ASSUME NEW fields \in Identities, SetIdentity(fields)
      PROVE  TableConsistent' /\ AliasOrigin'
    <2>1. UNCHANGED <<forward, reverse, order>> /\ fixed_reverse' = FixedReverse(fields)
        BY <1>3 DEF SetIdentity, dynamic
    <2>2. TableConsistent'
        BY <2>1 DEF TableInv, TableConsistent
    <2>3. AliasOrigin'
        BY <2>1, FixedReverseDomain DEF TableInv, AliasOrigin
    <2> QED BY <2>2, <2>3
<1>4. ASSUME NEW v \in Values, NEW e \in Entities, PlaceholderFor(v, e)
      PROVE  TableConsistent' /\ AliasOrigin'
    <2>1. CASE HitIdentity(v) \/ HitForward(v)
        BY <1>1, <2>1 DEF HitIdentity, HitForward, dynamic, fixed
    <2>2. CASE IssueAlias(v, e)
        <3> DEFINE a == Chosen(v, e)
        <3>1. forward[v] = None /\ Insert(v, a) /\ UNCHANGED fixed_reverse
            BY <2>2 DEF IssueAlias, fixed
        <3>2. a \in Aliases /\ reverse[a] = None /\ Hashed(a, v)
            BY <3>1, ChosenProperties, ChosenIsFresh, ChosenIsHashed
        <3> HIDE DEF a
        <3>3. TableConsistent'
            BY <3>1, <3>2, InsertConsistent DEF TableInv
        <3>4. \A b \in Aliases : reverse'[b] # None =>
                  (b = a /\ reverse'[b] = v) \/ reverse'[b] = reverse[b]
            BY <3>1, <3>2, InsertMaps DEF TableInv, TypeOK
        <3>5. AliasOrigin'
            BY <3>1, <3>2, <3>4 DEF TableInv, AliasOrigin
        <3> QED BY <3>3, <3>5
    <2> QED BY <1>4, <2>1, <2>2 DEF PlaceholderFor
<1>5. ASSUME RestoreText PROVE TableConsistent' /\ AliasOrigin'
    BY <1>1, <1>5 DEF RestoreText, dynamic, fixed
<1>6. ASSUME Clear PROVE TableConsistent' /\ AliasOrigin'
    BY <1>6 DEF Clear, fixed, TableInv, TableConsistent, AliasOrigin
<1>7. ASSUME UNCHANGED vars PROVE TableConsistent' /\ AliasOrigin'
    BY <1>1, <1>7 DEF vars
<1> QED BY <1>0, <1>2, <1>3, <1>4, <1>5, <1>6, <1>7 DEF Next, TableInv

LEMMA TableInvInit == Init => TableInv
BY TypeInit DEF Init, TableInv, TableConsistent, AliasOrigin

LEMMA TableInvariant == Spec => []TableInv
BY TableInvInit, TableInvInductive, PTL DEF Spec

\* Whatever collides, is configured or evicted, forward and reverse are inverse maps and the
\* queue lists exactly the live aliases, for every capacity and every number of values.
THEOREM TableStaysConsistent == Spec => []TableConsistent
<1>1. TableInv => TableConsistent
    BY DEF TableInv
<1> QED BY <1>1, TableInvariant, PTL

\* A step that is not clear forgets at most the oldest alias, and only of a full table.
THEOREM EvictionStaysFifo == Spec => EvictionIsFifo
<1> DEFINE Fifo == \A a \in Aliases :
                      reverse[a] # None /\ reverse'[a] # reverse[a] =>
                          order' = <<>> \/ (a = Head(order) /\ Len(order) = Cap)
<1>1. TableInv /\ [Next]_vars => [Fifo]_vars
    <2> SUFFICES ASSUME TableInv, Next PROVE Fifo
        OBVIOUS
    <2>1. ASSUME UNCHANGED reverse PROVE Fifo
        BY <2>1
    <2>2. ASSUME NEW s \in Styles, SetStyle(s) PROVE Fifo
        BY <2>1, <2>2 DEF SetStyle, dynamic
    <2>3. ASSUME NEW fields \in Identities, SetIdentity(fields) PROVE Fifo
        BY <2>1, <2>3 DEF SetIdentity, dynamic
    <2>4. ASSUME NEW v \in Values, NEW e \in Entities, PlaceholderFor(v, e) PROVE Fifo
        <3>1. CASE HitIdentity(v) \/ HitForward(v)
            BY <2>1, <3>1 DEF HitIdentity, HitForward, dynamic
        <3>2. CASE IssueAlias(v, e)
            <4> DEFINE a == Chosen(v, e)
            <4>1. forward[v] = None /\ Insert(v, a)
                BY <3>2 DEF IssueAlias
            <4>2. a \in Aliases /\ reverse[a] = None
                BY <4>1, ChosenProperties, ChosenIsFresh
            <4> HIDE DEF a
            <4>3. ASSUME NEW b \in Aliases, reverse[b] # None, reverse'[b] # reverse[b]
                  PROVE  Full /\ b = order[1]
                BY <4>1, <4>2, <4>3, InsertMaps DEF TableInv, TypeOK
            <4>4. Full => Len(order) = Cap /\ Len(order) >= 1
                BY <4>1, <4>2, InsertOrder DEF TableInv
            <4>5. Head(order) = order[1]
                BY DEF TableInv, TypeOK
            <4> QED BY <4>3, <4>4, <4>5
        <3> QED BY <2>4, <3>1, <3>2 DEF PlaceholderFor
    <2>5. ASSUME RestoreText PROVE Fifo
        BY <2>1, <2>5 DEF RestoreText, dynamic
    <2>6. ASSUME Clear PROVE Fifo
        BY <2>6 DEF Clear
    <2> QED BY <2>2, <2>3, <2>4, <2>5, <2>6 DEF Next
<1> QED BY <1>1, TableInvariant, PTL DEF Spec, EvictionIsFifo

\* No method changes an index and leaves the automaton marked clean.
THEOREM AutomatonStaysFresh == Spec => []AutomatonFresh
<1>1. Init => AutomatonFresh
    BY DEF Init, AutomatonFresh, Known
<1>2. AutomatonFresh /\ [Next]_vars => AutomatonFresh'
    <2> SUFFICES ASSUME AutomatonFresh, [Next]_vars PROVE AutomatonFresh'
        OBVIOUS
    <2>1. ASSUME UNCHANGED <<reverse, fixed_reverse, ac, ac_dirty>> PROVE AutomatonFresh'
        BY <2>1 DEF AutomatonFresh, Known
    <2>2. ASSUME NEW s \in Styles, SetStyle(s) PROVE AutomatonFresh'
        BY <2>1, <2>2 DEF SetStyle, dynamic, fixed, automaton
    <2>3. ASSUME NEW fields \in Identities, SetIdentity(fields) PROVE AutomatonFresh'
        BY <2>3 DEF SetIdentity, AutomatonFresh
    <2>4. ASSUME NEW v \in Values, NEW e \in Entities, PlaceholderFor(v, e)
          PROVE  AutomatonFresh'
        <3>1. CASE HitIdentity(v) \/ HitForward(v)
            BY <2>1, <3>1 DEF HitIdentity, HitForward, dynamic, fixed, automaton
        <3>2. CASE IssueAlias(v, e)
            BY <3>2 DEF IssueAlias, Insert, AutomatonFresh
        <3> QED BY <2>4, <3>1, <3>2 DEF PlaceholderFor
    <2>5. ASSUME RestoreText PROVE AutomatonFresh'
        BY <2>5 DEF RestoreText, AutomatonFresh, Known, dynamic, fixed
    <2>6. ASSUME Clear PROVE AutomatonFresh'
        BY <2>6 DEF Clear, AutomatonFresh
    <2>7. ASSUME UNCHANGED vars PROVE AutomatonFresh'
        BY <2>1, <2>7 DEF vars
    <2> QED BY <2>2, <2>3, <2>4, <2>5, <2>6, <2>7 DEF Next
<1> QED BY <1>1, <1>2, PTL DEF Spec
\* The window that holds text back is wide enough for every alias that may arrive, although
\* it only ever learns of those that are noted (note_alias).
THEOREM WindowStaysWide == Spec => []WindowCoversAliases
<1>1. Init => WindowCoversAliases
    BY DEF Init, WindowCoversAliases, Known
<1>2. TypeOK /\ WindowCoversAliases /\ [Next]_vars => WindowCoversAliases'
    <2> SUFFICES ASSUME TypeOK, WindowCoversAliases, [Next]_vars PROVE WindowCoversAliases'
        OBVIOUS
    <2>1. ASSUME NEW noted \in SUBSET Aliases,
                 max_placeholder_len' = Widen(max_placeholder_len, noted \cap Placeholders),
                 max_alias_len' = Widen(max_alias_len, noted \ Placeholders),
                 Known' \subseteq Known \cup noted
          PROVE  WindowCoversAliases'
        <3>1. /\ max_placeholder_len \in 0 .. MaxLength /\ max_alias_len \in 0 .. MaxLength
              /\ noted \cap Placeholders \subseteq Aliases /\ noted \ Placeholders \subseteq Aliases
            BY DEF TypeOK
        <3>2. /\ max_placeholder_len' \in Int /\ max_placeholder_len' >= max_placeholder_len
              /\ \A a \in noted \cap Placeholders : max_placeholder_len' >= Length[a]
            BY <2>1, <3>1, WidenProperties
        <3>3. /\ max_alias_len' \in Int /\ max_alias_len' >= max_alias_len
              /\ \A a \in noted \ Placeholders : max_alias_len' >= Length[a]
            BY <2>1, <3>1, WidenProperties
        <3>4. ASSUME NEW a \in Known'
              PROVE  Length[a] <= IF a \in Placeholders THEN max_placeholder_len' ELSE max_alias_len'
            <4>1. a \in Aliases /\ Length[a] \in Int
                BY <3>4, TextAssumption DEF Known
            <4>2. CASE a \in noted
                BY <3>2, <3>3, <4>1, <4>2
            <4>3. CASE a \in Known
                BY <3>1, <3>2, <3>3, <4>1, <4>3 DEF WindowCoversAliases
            <4> QED BY <2>1, <3>4, <4>2, <4>3
        <3> QED BY <3>4 DEF WindowCoversAliases
    <2>2. ASSUME Known' \subseteq Known, UNCHANGED <<max_placeholder_len, max_alias_len>>
          PROVE  WindowCoversAliases'
        BY <2>2 DEF WindowCoversAliases
    <2>3. ASSUME NEW s \in Styles, SetStyle(s) PROVE WindowCoversAliases'
        BY <2>2, <2>3 DEF SetStyle, dynamic, fixed, window, Known
    <2>4. ASSUME NEW fields \in Identities, SetIdentity(fields) PROVE WindowCoversAliases'
        <3> DEFINE noted == {fields[i].alias : i \in 1 .. Len(fields)}
        <3>1. noted \in SUBSET Aliases
            BY FieldsType DEF Field
        <3>2. Known' \subseteq Known \cup noted
            BY <2>4 DEF SetIdentity, FixedReverse, Known, dynamic
        <3>3. /\ max_placeholder_len' = Widen(max_placeholder_len, noted \cap Placeholders)
              /\ max_alias_len' = Widen(max_alias_len, noted \ Placeholders)
            BY <2>4 DEF SetIdentity
        <3> HIDE DEF noted
        <3> QED BY <2>1, <3>1, <3>2, <3>3
    <2>5. ASSUME NEW v \in Values, NEW e \in Entities, PlaceholderFor(v, e)
          PROVE  WindowCoversAliases'
        <3>1. CASE HitIdentity(v) \/ HitForward(v)
            BY <2>2, <3>1 DEF HitIdentity, HitForward, dynamic, fixed, window, Known
        <3>2. CASE IssueAlias(v, e)
            <4>1. PICK a \in Aliases : a = Chosen(v, e)
                BY ChosenProperties
            <4>2. Insert(v, a) /\ fixed_reverse' = fixed_reverse
                BY <3>2, <4>1 DEF IssueAlias, fixed
            <4>3. Known' \subseteq Known \cup {a}
                BY <4>2 DEF Insert, Known, TypeOK
            <4>4. /\ max_placeholder_len' = Widen(max_placeholder_len, {a} \cap Placeholders)
                  /\ max_alias_len' = Widen(max_alias_len, {a} \ Placeholders)
                BY <4>2 DEF Insert
            <4>5. {a} \in SUBSET Aliases
                OBVIOUS
            <4> QED BY <2>1, <4>3, <4>4, <4>5
        <3> QED BY <2>5, <3>1, <3>2 DEF PlaceholderFor
    <2>6. ASSUME RestoreText PROVE WindowCoversAliases'
        BY <2>2, <2>6 DEF RestoreText, dynamic, fixed, window, Known
    <2>7. ASSUME Clear PROVE WindowCoversAliases'
        BY <2>2, <2>7 DEF Clear, fixed, Known
    <2>8. ASSUME UNCHANGED vars PROVE WindowCoversAliases'
        BY <2>2, <2>8 DEF vars, Known
    <2> QED BY <2>3, <2>4, <2>5, <2>6, <2>7, <2>8 DEF Next
<1> QED BY <1>1, <1>2, TypeCorrect, PTL DEF Spec
-----------------------------------------------------------------------------
(* The table implements AliasTable.                                          *)

PairsTyped ==
    /\ LivePairs \in Seq(Table!Pair)
    /\ Len(LivePairs) = Len(order)
    /\ \A i \in 1 .. Len(order) :
          LivePairs[i] = [alias |-> order[i], value |-> reverse[order[i]]]

\* The live pairs form a sequence of well-typed pairs.
LEMMA LivePairsType ==
    ASSUME TableInv
    PROVE  /\ LivePairs \in Seq(Table!Pair)
           /\ Len(LivePairs) = Len(order)
           /\ \A i \in 1 .. Len(order) :
                 LivePairs[i] = [alias |-> order[i], value |-> reverse[order[i]]]
<1>1. Len(order) \in Nat /\ \A i \in 1 .. Len(order) : order[i] \in Aliases
    BY DEF TableInv, TypeOK
<1>2. \A i \in 1 .. Len(order) : reverse[order[i]] \in Values
    BY <1>1 DEF TableInv, TypeOK, TableConsistent
<1>3. \A i \in 1 .. Len(order) : LivePairs[i] \in Table!Pair
    BY <1>1, <1>2 DEF LivePairs, Table!Pair
<1>4. LivePairs \in [1 .. Len(order) -> Table!Pair]
    BY <1>3 DEF LivePairs
<1> QED BY <1>1, <1>4 DEF LivePairs

LEMMA LivePairsTypeNext ==
    TableInv' => /\ LivePairs' \in Seq(Table!Pair)
                 /\ Len(LivePairs') = Len(order')
                 /\ \A i \in 1 .. Len(order') :
                       LivePairs'[i] = [alias |-> order'[i], value |-> reverse'[order'[i]]]
<1>1. TableInv => PairsTyped
    BY LivePairsType DEF PairsTyped
<1>2. TableInv' => PairsTyped'
    BY <1>1, PTL
<1> QED BY <1>2 DEF PairsTyped

\* An insertion is an abstract Issue of the new pair.
LEMMA InsertIssues ==
    ASSUME TableInv, TableInv', NEW v \in Values, NEW a \in Aliases,
           Insert(v, a), forward[v] = None, reverse[a] = None
    PROVE  Table!Issue([alias |-> a, value |-> v])
<1> DEFINE p == [alias |-> a, value |-> v]
           n == Len(order)
           ap == Append(LivePairs, p)
<1>1. /\ n \in Nat
      /\ reverse \in [Aliases -> Values \cup {None}]
      /\ forward \in [Values -> Aliases \cup {None}]
      /\ \A i \in 1 .. n : order[i] \in Aliases
      /\ \A i, j \in 1 .. n : order[i] = order[j] => i = j
    BY DEF TableInv, TypeOK, TableConsistent
<1>2. \A i \in 1 .. n : order[i] # a /\ reverse[order[i]] # v
    <2> SUFFICES ASSUME NEW i \in 1 .. n PROVE order[i] # a /\ reverse[order[i]] # v
        OBVIOUS
    <2>1. reverse[order[i]] # None /\ order[i] \in Aliases
        BY <1>1 DEF TableInv, TableConsistent
    <2>2. forward[reverse[order[i]]] = order[i]
        BY <2>1 DEF TableInv, TableConsistent
    <2> QED BY <2>1, <2>2, TextAssumption
<1>3. ~Table!InUse(p)
    <2>1. Len(LivePairs) = n
        BY LivePairsType
    <2>2. \A i \in 1 .. n : LivePairs[i].alias = order[i] /\ LivePairs[i].value = reverse[order[i]]
        <3>1. \A i \in 1 .. n : LivePairs[i] = [alias |-> order[i], value |-> reverse[order[i]]]
            BY LivePairsType
        <3> HIDE DEF n
        <3>2. ASSUME NEW i \in 1 .. n
              PROVE  LivePairs[i].alias = order[i] /\ LivePairs[i].value = reverse[order[i]]
            <4> DEFINE r == LivePairs[i]
            <4>1. r = [alias |-> order[i], value |-> reverse[order[i]]]
                BY <3>1
            <4> HIDE DEF r
            <4>2. r.alias = order[i] /\ r.value = reverse[order[i]]
                BY <4>1
            <4> QED BY <4>2 DEF r
        <3> QED BY <3>2
    <2>3. p.alias = a /\ p.value = v
        OBVIOUS
    <2> HIDE DEF p, n
    <2> QED BY <1>2, <2>1, <2>2, <2>3 DEF Table!InUse
<1>4. p \in Table!Pair
    BY DEF Table!Pair
<1>5. /\ ap \in Seq(Table!Pair) /\ ap # <<>> /\ Len(ap) = n + 1
      /\ \A i \in 1 .. n : ap[i] = [alias |-> order[i], value |-> reverse[order[i]]]
      /\ ap[n + 1] = p
    <2>1. LivePairs \in Seq(Table!Pair) /\ Len(LivePairs) = n
        BY LivePairsType
    <2> HIDE DEF p
    <2>2. /\ ap \in Seq(Table!Pair) /\ ap # <<>> /\ Len(ap) = Len(LivePairs) + 1
          /\ \A i \in 1 .. Len(LivePairs) : ap[i] = LivePairs[i]
          /\ ap[Len(LivePairs) + 1] = p
        BY <1>4, <2>1, AppendProperties
    <2> QED BY <2>1, <2>2, LivePairsType
<1>6. /\ LivePairs' \in Seq(Table!Pair)
      /\ Len(LivePairs') = Len(order')
      /\ \A i \in 1 .. Len(order') :
            LivePairs'[i] = [alias |-> order'[i], value |-> reverse'[order'[i]]]
    BY LivePairsTypeNext
<1>7. CASE ~Full
    <2>1. Len(order') = n + 1 /\ (\A i \in 1 .. n : order'[i] = order[i]) /\ order'[n + 1] = a
        BY <1>7, InsertOrder DEF TableInv
    <2>2. reverse' = [reverse EXCEPT ![a] = v]
        BY <1>7, InsertMaps DEF TableInv
    <2>3. \A i \in 1 .. n + 1 : LivePairs'[i] = ap[i]
        <3> SUFFICES ASSUME NEW i \in 1 .. n + 1 PROVE LivePairs'[i] = ap[i]
            OBVIOUS
        <3>1. CASE i \in 1 .. n
            BY <1>1, <1>2, <1>5, <1>6, <2>1, <2>2, <3>1
        <3>2. CASE i = n + 1
            <4>1. reverse'[a] = v
                BY <1>1, <2>2
            <4>2. i \in 1 .. Len(order') /\ order'[i] = a
                BY <1>1, <2>1, <3>2
            <4>3. LivePairs'[i] = p
                BY <1>6, <4>1, <4>2
            <4>4. ap[i] = p
                <5> HIDE DEF ap, p
                <5> QED BY <1>5, <3>2
            <4> HIDE DEF ap, p, n
            <4> QED BY <4>3, <4>4
        <3>3. i \in 1 .. n \/ i = n + 1
            BY <1>1
        <3> QED BY <3>1, <3>2, <3>3
    <2>4. LivePairs' = ap
        <3> HIDE DEF ap
        <3> QED BY <1>5, <1>6, <2>1, <2>3, SeqEqual
    <2>5. Len(LivePairs) < Cap
        BY <1>1, <1>7, LivePairsType, CapAssumption DEF Full
    <2> QED BY <1>3, <2>4, <2>5 DEF Table!Issue
<1>8. CASE Full
    <2>1. /\ n = Cap /\ n >= 1 /\ Len(order') = n
          /\ \A i \in 1 .. n - 1 : order'[i] = order[i + 1]
          /\ order'[n] = a
        BY <1>8, InsertOrder DEF TableInv
    <2>2. order[1] # a /\ reverse' = [reverse EXCEPT ![a] = v, ![order[1]] = None]
        BY <1>8, InsertMaps DEF TableInv
    <2>3. /\ Tail(ap) \in Seq(Table!Pair) /\ Len(Tail(ap)) = n
          /\ \A i \in 1 .. n : Tail(ap)[i] = ap[i + 1]
        <3>1. /\ Tail(ap) \in Seq(Table!Pair) /\ Len(Tail(ap)) = Len(ap) - 1
              /\ \A i \in 1 .. Len(Tail(ap)) : Tail(ap)[i] = ap[i + 1]
            <4> HIDE DEF ap
            <4> QED BY <1>5, HeadTailProperties
        <3>2. Len(Tail(ap)) = n
            BY <1>1, <1>5, <3>1
        <3> QED BY <3>1, <3>2
    <2>4. \A i \in 1 .. n : LivePairs'[i] = Tail(ap)[i]
        <3> SUFFICES ASSUME NEW i \in 1 .. n PROVE LivePairs'[i] = Tail(ap)[i]
            OBVIOUS
        <3>1. CASE i \in 1 .. n - 1
            <4>1. i + 1 \in 1 .. n /\ i + 1 # 1 /\ 1 \in 1 .. n
                BY <1>1, <3>1
            <4>2. order[i + 1] # order[1] /\ order[i + 1] # a /\ order[i + 1] \in Aliases
                BY <1>1, <1>2, <4>1
            <4>3. reverse'[order[i + 1]] = reverse[order[i + 1]]
                BY <1>1, <2>2, <4>2
            <4>4. LivePairs'[i] = [alias |-> order[i + 1], value |-> reverse[order[i + 1]]]
                BY <1>6, <2>1, <3>1, <4>3
            <4> HIDE DEF ap
            <4> QED BY <1>5, <2>3, <3>1, <4>1, <4>4
        <3>2. CASE i = n
            <4>1. reverse'[a] = v
                BY <1>1, <2>2
            <4>2. i \in 1 .. Len(order') /\ order'[i] = a
                BY <1>1, <2>1, <3>2
            <4>3. LivePairs'[i] = p
                BY <1>6, <4>1, <4>2
            <4>4. Tail(ap)[i] = ap[n + 1]
                <5>1. i \in 1 .. n
                    OBVIOUS
                <5> HIDE DEF ap, p
                <5> QED BY <2>3, <3>2, <5>1
            <4>5. ap[n + 1] = p
                BY <1>5
            <4> HIDE DEF ap, p, n
            <4> QED BY <4>3, <4>4, <4>5
        <3>3. i \in 1 .. n - 1 \/ i = n
            BY <1>1
        <3> QED BY <3>1, <3>2, <3>3
    <2>5. LivePairs' = Tail(ap)
        <3> HIDE DEF ap
        <3> QED BY <1>6, <2>1, <2>3, <2>4, SeqEqual
    <2>6. Len(LivePairs) = Cap
        BY <2>1, LivePairsType
    <2> QED BY <1>3, <2>5, <2>6 DEF Table!Issue
<1> QED BY <1>7, <1>8

\* Every step of the table is a step of AliasTable or leaves its pairs alone: the three
\* collections together behave as one bounded first-in first-out list.
THEOREM ImplementsTable == Spec => ImplementsAliasTable
<1>1. Init => Table!Init
    <2> SUFFICES ASSUME Init PROVE LivePairs = <<>>
        BY DEF Table!Init
    <2>1. TableInv /\ Len(order) = 0
        BY TableInvInit DEF Init
    <2>2. LivePairs \in Seq(Table!Pair) /\ Len(LivePairs) = 0
        BY <2>1, LivePairsType
    <2> QED BY <2>2
<1>2. TableInv /\ TableInv' /\ [Next]_vars => [Table!Next]_LivePairs
    <2> SUFFICES ASSUME TableInv, TableInv', [Next]_vars PROVE [Table!Next]_LivePairs
        OBVIOUS
    <2>1. ASSUME UNCHANGED <<reverse, order>> PROVE UNCHANGED LivePairs
        BY <2>1 DEF LivePairs
    <2>2. ASSUME NEW s \in Styles, SetStyle(s) PROVE UNCHANGED LivePairs
        BY <2>1, <2>2 DEF SetStyle, dynamic
    <2>3. ASSUME NEW fields \in Identities, SetIdentity(fields) PROVE UNCHANGED LivePairs
        BY <2>1, <2>3 DEF SetIdentity, dynamic
    <2>4. ASSUME NEW v \in Values, NEW e \in Entities, PlaceholderFor(v, e)
          PROVE  [Table!Next]_LivePairs
        <3>1. CASE HitIdentity(v) \/ HitForward(v)
            BY <2>1, <3>1 DEF HitIdentity, HitForward, dynamic
        <3>2. CASE IssueAlias(v, e)
            <4> DEFINE a == Chosen(v, e)
            <4>1. forward[v] = None /\ Insert(v, a)
                BY <3>2 DEF IssueAlias
            <4>2. a \in Aliases /\ reverse[a] = None
                BY <4>1, ChosenProperties, ChosenIsFresh
            <4> HIDE DEF a
            <4>3. Table!Issue([alias |-> a, value |-> v])
                BY <4>1, <4>2, InsertIssues
            <4>4. [alias |-> a, value |-> v] \in Table!Pair
                BY <4>2 DEF Table!Pair
            <4> QED BY <4>3, <4>4 DEF Table!Next
        <3> QED BY <2>4, <3>1, <3>2 DEF PlaceholderFor
    <2>5. ASSUME RestoreText PROVE UNCHANGED LivePairs
        BY <2>1, <2>5 DEF RestoreText, dynamic
    <2>6. ASSUME Clear PROVE [Table!Next]_LivePairs
        <3>1. order' = <<>>
            BY <2>6 DEF Clear
        <3>2. LivePairs' = [i \in 1 .. 0 |-> [alias |-> order'[i], value |-> reverse'[order'[i]]]]
            BY <3>1 DEF LivePairs
        <3>3. LivePairs' \in Seq(Table!Pair) /\ Len(LivePairs') = 0
            BY <3>2
        <3>4. LivePairs' = <<>>
            BY <3>3
        <3> QED BY <3>4 DEF Table!Next, Table!Reset
    <2>7. ASSUME UNCHANGED vars PROVE UNCHANGED LivePairs
        BY <2>1, <2>7 DEF vars
    <2> QED BY <2>2, <2>3, <2>4, <2>5, <2>6, <2>7 DEF Next
<1> QED BY <1>1, <1>2, TableInvariant, PTL DEF Spec, ImplementsAliasTable, Table!Spec

-----------------------------------------------------------------------------
(* What holds as long as the user's aliases stay apart from generated ones.  *)

\* With separate identities no alias is both generated and configured.
LEMMA NoSharedAlias ==
    ASSUME SeparateIdentities, TableInv, NEW a \in Aliases,
           reverse[a] # None, fixed_reverse[a] # None
    PROVE  FALSE
<1>1. Hashed(a, reverse[a]) /\ reverse[a] \in Values
    BY DEF TableInv, AliasOrigin, TypeOK
<1>2. PICK fields \in Identities : \E i \in 1 .. Len(fields) : fields[i].alias = a
    BY DEF TableInv, AliasOrigin
<1> QED BY <1>1, <1>2 DEF SeparateIdentities

\* The set used for streaming stays exactly the live aliases that are not placeholders.
THEOREM AliasSetStaysExact ==
    ASSUME SeparateIdentities PROVE Spec => []AliasSetExact
<1>1. Init => AliasSetExact
    BY DEF Init, AliasSetExact, Known
<1>2. TableInv /\ TableInv' /\ AliasSetExact /\ [Next]_vars => AliasSetExact'
    <2> SUFFICES ASSUME TableInv, TableInv', AliasSetExact, [Next]_vars PROVE AliasSetExact'
        OBVIOUS
    <2>0. alias_set = {a \in Aliases : reverse[a] # None \/ fixed_reverse[a] # None} \ Placeholders
        BY DEF AliasSetExact, Known
    <2>1. ASSUME UNCHANGED <<reverse, fixed_reverse, alias_set>> PROVE AliasSetExact'
        BY <2>1 DEF AliasSetExact, Known
    <2>2. ASSUME NEW s \in Styles, SetStyle(s) PROVE AliasSetExact'
        BY <2>1, <2>2 DEF SetStyle, dynamic, fixed, window
    <2>3. ASSUME NEW fields \in Identities, SetIdentity(fields) PROVE AliasSetExact'
        <3> DEFINE noted == {fields[i].alias : i \in 1 .. Len(fields)}
        <3>1. /\ alias_set' = (alias_set \ {a \in Aliases : fixed_reverse[a] # None})
                                  \cup (noted \ Placeholders)
              /\ fixed_reverse' = FixedReverse(fields)
              /\ reverse' = reverse
            BY <2>3 DEF SetIdentity, dynamic
        <3>2. \A a \in Aliases : fixed_reverse'[a] # None <=> a \in noted
            BY <3>1, FixedReverseDomain
        <3>3. noted \subseteq Aliases
            BY FieldsType DEF Field
        <3>4. \A a \in Aliases : reverse[a] # None => fixed_reverse[a] = None
            BY NoSharedAlias
        <3> HIDE DEF noted
        <3> QED BY <2>0, <3>1, <3>2, <3>3, <3>4 DEF AliasSetExact, Known
    <2>4. ASSUME NEW v \in Values, NEW e \in Entities, PlaceholderFor(v, e)
          PROVE  AliasSetExact'
        <3>1. CASE HitIdentity(v) \/ HitForward(v)
            BY <2>1, <3>1 DEF HitIdentity, HitForward, dynamic, fixed, window
        <3>2. CASE IssueAlias(v, e)
            <4> DEFINE a == Chosen(v, e)
                       old == Head(Append(order, a))
            <4>1. forward[v] = None /\ Insert(v, a) /\ UNCHANGED fixed_reverse
                BY <3>2 DEF IssueAlias, fixed
            <4>2. a \in Aliases /\ reverse[a] = None
                BY <4>1, ChosenProperties, ChosenIsFresh
            <4>3. alias_set' = (alias_set \cup ({a} \ Placeholders))
                      \ (IF Full /\ old \notin Placeholders /\ fixed_reverse[old] = None
                         THEN {old} ELSE {})
                BY <4>1 DEF Insert
            <4> HIDE DEF a
            <4>4. CASE ~Full
                <5>1. \A b \in Aliases : reverse'[b] # None <=> reverse[b] # None \/ b = a
                    BY <4>1, <4>2, <4>4, InsertMaps, TextAssumption DEF TableInv, TypeOK
                <5>2. alias_set' = alias_set \cup ({a} \ Placeholders)
                    BY <4>3, <4>4
                <5> QED BY <2>0, <4>1, <4>2, <5>1, <5>2 DEF AliasSetExact, Known
            <4>5. CASE Full
                <5>1. old = order[1] /\ old \in Aliases /\ old # a /\ reverse[old] # None
                    BY <4>1, <4>2, <4>5, InsertOrder, InsertMaps, TextAssumption DEF TableInv
                <5>2. \A b \in Aliases : reverse'[b] # None <=> b # old /\ (reverse[b] # None \/ b = a)
                    BY <4>1, <4>2, <4>5, <5>1, InsertMaps, TextAssumption, SMTT(60) DEF TableInv, TypeOK
                <5>3. fixed_reverse[old] = None
                    BY <5>1, NoSharedAlias
                <5> HIDE DEF old
                <5> QED BY <2>0, <4>1, <4>2, <4>3, <4>5, <5>1, <5>2, <5>3 DEF AliasSetExact, Known
            <4> QED BY <4>4, <4>5
        <3> QED BY <2>4, <3>1, <3>2 DEF PlaceholderFor
    <2>5. ASSUME RestoreText PROVE AliasSetExact'
        BY <2>1, <2>5 DEF RestoreText, dynamic, fixed, window
    <2>6. ASSUME Clear PROVE AliasSetExact'
        BY <2>0, <2>6 DEF Clear, AliasSetExact, Known, fixed
    <2>7. ASSUME UNCHANGED vars PROVE AliasSetExact'
        BY <2>1, <2>7 DEF vars
    <2> QED BY <2>2, <2>3, <2>4, <2>5, <2>6, <2>7 DEF Next
<1> QED BY <1>1, <1>2, TableInvariant, PTL DEF Spec

\* Each identity alias leads to a real value that the identity replaces by the same alias.
IdentityRoundTrip ==
    \A v \in Values : \A a \in {fixed_forward[v], fixed_forward_ci[v]} :
        a # None => fixed_reverse[a] # None /\ fixed_forward[fixed_reverse[a]] = a

\* The maps of a configuration whose fields share nothing agree on the field of an alias.
LEMMA FieldRoundTrip ==
    ASSUME SeparateIdentities, NEW fields \in Identities, NEW k \in 1 .. Len(fields)
    PROVE  LET r == FixedReverse(fields)[fields[k].alias]
           IN  r \in Values /\ FixedForward(fields)[r] = fields[k].alias
<1> DEFINE n == Len(fields)
           a == fields[k].alias
           r == fields[k].primary
           I == {i \in 1 .. n : fields[i].alias = a}
           J == {i \in 1 .. n : r \in fields[i].reals}
<1>1. \A i \in 1 .. n : i # k =>
          fields[i].alias # a /\ fields[k].reals \cap fields[i].reals = {}
    BY DEF SeparateIdentities
<1>2. fields[k] \in Field /\ r \in fields[k].reals
    BY IdentityAssumption
<1>3. a \in Aliases /\ r \in Values
    BY <1>2 DEF Field
<1>4. I = {k} /\ J = {k}
    BY <1>1, <1>2
<1>5. First({k}) = k /\ Last({k}) = k
    BY DEF First, Last
<1>6. FixedReverse(fields)[a] = IF I = {} THEN None ELSE fields[First(I)].primary
    BY <1>3 DEF FixedReverse
<1>7. FixedForward(fields)[r] = IF J = {} THEN None ELSE fields[Last(J)].alias
    BY <1>3 DEF FixedForward
<1> QED BY <1>3, <1>4, <1>5, <1>6, <1>7

\* Whatever set_identity maps a value to is the alias of some field.
LEMMA FixedForwardRange ==
    ASSUME NEW fields \in Identities, NEW v \in Values,
           NEW a, a = FixedForward(fields)[v] \/ a = FixedForwardCi(fields)[v], a # None
    PROVE  \E k \in 1 .. Len(fields) : a = fields[k].alias
<1> DEFINE I == {i \in 1 .. Len(fields) : v \in fields[i].reals}
           J == {i \in 1 .. Len(fields) :
                    fields[i].ci /\ \E w \in fields[i].reals : Lower[w] = v}
<1>1. \A K \in SUBSET (1 .. Len(fields)) : K # {} => Last(K) \in 1 .. Len(fields)
    <2> SUFFICES ASSUME NEW K \in SUBSET (1 .. Len(fields)), K # {}
                 PROVE  Last(K) \in K
        OBVIOUS
    <2> QED BY LastIn, FieldsType
<1>2. FixedForward(fields)[v] = IF I = {} THEN None ELSE fields[Last(I)].alias
    BY DEF FixedForward
<1>3. FixedForwardCi(fields)[v] = IF J = {} THEN None ELSE fields[Last(J)].alias
    BY DEF FixedForwardCi
<1>4. CASE a = FixedForward(fields)[v]
    <2>1. I # {} /\ I \in SUBSET (1 .. Len(fields))
        BY <1>2, <1>4
    <2>2. Last(I) \in 1 .. Len(fields)
        <3> HIDE DEF I
        <3> QED BY <1>1, <2>1
    <2>3. a = fields[Last(I)].alias
        BY <1>2, <1>4, <2>1
    <2> HIDE DEF I
    <2> QED BY <2>2, <2>3
<1>5. CASE a = FixedForwardCi(fields)[v]
    <2>1. J # {} /\ J \in SUBSET (1 .. Len(fields))
        BY <1>3, <1>5
    <2>2. Last(J) \in 1 .. Len(fields)
        <3> HIDE DEF J
        <3> QED BY <1>1, <2>1
    <2>3. a = fields[Last(J)].alias
        BY <1>3, <1>5, <2>1
    <2> HIDE DEF J
    <2> QED BY <2>2, <2>3
<1> QED BY <1>4, <1>5

LEMMA IdentityRoundTripInductive ==
    ASSUME SeparateIdentities
    PROVE  /\ Init => IdentityRoundTrip
           /\ TableInv /\ IdentityRoundTrip /\ [Next]_vars => IdentityRoundTrip'
<1>1. Init => IdentityRoundTrip
    BY DEF Init, IdentityRoundTrip
<1>2. ASSUME IdentityRoundTrip, UNCHANGED fixed PROVE IdentityRoundTrip'
    BY <1>2 DEF IdentityRoundTrip, fixed
<1>3. ASSUME NEW fields \in Identities, SetIdentity(fields) PROVE IdentityRoundTrip'
    <2>1. SUFFICES ASSUME NEW v \in Values,
                          NEW a \in {FixedForward(fields)[v], FixedForwardCi(fields)[v]},
                          a # None
                   PROVE  /\ FixedReverse(fields)[a] # None
                          /\ FixedForward(fields)[FixedReverse(fields)[a]] = a
        BY <1>3 DEF IdentityRoundTrip, SetIdentity
    <2>2. PICK k \in 1 .. Len(fields) : a = fields[k].alias
        <3>1. a = FixedForward(fields)[v] \/ a = FixedForwardCi(fields)[v]
            OBVIOUS
        <3> QED BY <2>1, <3>1, FixedForwardRange
    <2> QED BY <2>2, FieldRoundTrip, TextAssumption
<1>4. ASSUME IdentityRoundTrip, Next PROVE IdentityRoundTrip'
    BY <1>2, <1>3, <1>4
       DEF Next, SetStyle, PlaceholderFor, HitIdentity, HitForward, IssueAlias, RestoreText, Clear
<1>5. ASSUME IdentityRoundTrip, UNCHANGED vars PROVE IdentityRoundTrip'
    BY <1>2, <1>5 DEF vars, fixed
<1> QED BY <1>1, <1>4, <1>5

\* As long as identities are separate, the alias just handed out is restored to the value it
\* stands for, or to a real value of its identity field: a reply is never lost to its own
\* insertion's eviction nor shadowed by another pair.
THEOREM RepliesRestore ==
    ASSUME SeparateIdentities PROVE Spec => []ReplyRestores
<1>1. Init => ReplyRestores
    BY DEF Init, ReplyRestores
<1>2. ASSUME TableInv, TableInv', IdentityRoundTrip, ReplyRestores, [Next]_vars
      PROVE  ReplyRestores'
    <2>1. ASSUME out' = None PROVE ReplyRestores'
        BY <2>1 DEF ReplyRestores
    <2>2. ASSUME NEW v \in Values, NEW e \in Entities, PlaceholderFor(v, e)
          PROVE  ReplyRestores'
        <3>1. CASE HitIdentity(v)
            <4> DEFINE a == LookupFixed(v)
            <4>1. a # None /\ out' = [value |-> v, alias |-> a] /\ UNCHANGED <<dynamic, fixed>>
                BY <3>1 DEF HitIdentity, Reply
            <4>2. Lower[v] \in Values
                BY TextAssumption
            <4>3. fixed_reverse[a] # None /\ fixed_forward[fixed_reverse[a]] = a
                BY <1>2, <4>1, <4>2 DEF IdentityRoundTrip, LookupFixed
            <4>4. out'.value = v /\ out'.alias = a
                BY <4>1
            <4> QED BY <4>1, <4>3, <4>4 DEF ReplyRestores, OriginalFor, LookupFixed, dynamic, fixed
        <3>2. CASE HitForward(v)
            <4> DEFINE a == forward[v]
            <4>1. /\ a # None /\ LookupFixed(v) = None
                  /\ out' = [value |-> v, alias |-> a] /\ UNCHANGED <<dynamic, fixed>>
                BY <3>2 DEF HitForward, Reply
            <4>2. a \in Aliases /\ reverse[a] = v
                BY <1>2, <4>1 DEF TableInv, TypeOK, TableConsistent
            <4>3. fixed_reverse[a] = None
                BY <1>2, <4>2, NoSharedAlias, TextAssumption
            <4>4. out'.value = v /\ out'.alias = a
                BY <4>1
            <4> QED BY <4>1, <4>2, <4>3, <4>4 DEF ReplyRestores, OriginalFor, LookupFixed, dynamic, fixed
        <3>3. CASE IssueAlias(v, e)
            <4> DEFINE a == Chosen(v, e)
            <4>1. /\ forward[v] = None /\ LookupFixed(v) = None /\ Insert(v, a)
                  /\ out' = [value |-> v, alias |-> a] /\ UNCHANGED fixed
                BY <3>3 DEF IssueAlias, Reply
            <4>2. a \in Aliases /\ reverse[a] = None /\ Hashed(a, v)
                BY <1>2, <4>1, ChosenProperties, ChosenIsFresh, ChosenIsHashed
            <4>3. fixed_reverse[a] = None
                BY <1>2, <4>2 DEF SeparateIdentities, TableInv, AliasOrigin
            <4>4. out'.value = v /\ out'.alias = a
                BY <4>1
            <4> HIDE DEF a
            <4>5. reverse'[a] = v
                BY <1>2, <4>1, <4>2, InsertMaps DEF TableInv, TypeOK
            <4> QED BY <4>1, <4>3, <4>4, <4>5 DEF ReplyRestores, OriginalFor, LookupFixed, fixed
        <3> QED BY <2>2, <3>1, <3>2, <3>3 DEF PlaceholderFor
    <2>3. ASSUME UNCHANGED vars PROVE ReplyRestores'
        BY <1>2, <2>3 DEF ReplyRestores, OriginalFor, LookupFixed, vars
    <2> QED BY <1>2, <2>1, <2>2, <2>3 DEF Next, SetStyle, SetIdentity, RestoreText, Clear
<1>3. TableInv /\ TableInv' /\ IdentityRoundTrip /\ ReplyRestores /\ [Next]_vars => ReplyRestores'
    BY <1>2
<1>4. Init => IdentityRoundTrip
    BY IdentityRoundTripInductive
<1>5. TableInv /\ IdentityRoundTrip /\ [Next]_vars => IdentityRoundTrip'
    BY IdentityRoundTripInductive
<1> QED BY <1>1, <1>3, <1>4, <1>5, TableInvariant, PTL DEF Spec
=============================================================================
