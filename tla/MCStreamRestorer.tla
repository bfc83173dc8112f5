-------------------------- MODULE MCStreamRestorer --------------------------
(* Placeholders shortened to P, an entity letter, _ and one hex digit, so that a stream of *)
(* six characters holds a placeholder and two more; "h" "t" are the two bytes of one       *)
(* character, "R" is an original.                                                          *)
EXTENDS StreamRestorer

Chars == {<<"P">>, <<"E">>, <<"_">>, <<"a">>, <<"h", "t">>}
MCPlaceholder == <<"P", "E", "_", "a">>
MCPREFIX == <<"P">>

\* The streams of at most three characters, and the placeholder with up to two around it.
Short(n) == {FlattenSeq(s) : s \in SeqOf(Chars, n)}
MCStreams == Short(3) \cup
    {before \o MCPlaceholder \o after : before \in Short(1), after \in Short(1)}

\* Aliases of which one is the beginning of another; and aliases that overlap, one of them
\* ending in the first character of a placeholder.
MCNested == {MCPlaceholder, <<"h", "t">>, <<"h", "t", "a">>}
MCOverlapping == {MCPlaceholder, <<"a", "P">>, <<"_", "a", "E">>}
MCAliases == MCNested \cup MCOverlapping
MCTables == {{}, {MCPlaceholder}, MCNested, MCOverlapping}
MCOriginal == [a \in MCAliases |-> <<"R", ToString(Len(a))>>]

\* The hypotheses of ChunkingInvisible and AliasesRestored hold of the nested aliases.
ASSUME NoOverlap(MCNested) /\ WellShaped(MCNested) /\ InertOriginals(MCNested)
=============================================================================
