--------------------------- MODULE MCSseRestorer ---------------------------
(* Placeholders shortened to P, an entity letter, _ and one hex digit.  Two choices of a    *)
(* chat completion, one of them with a tool call, and the events that build their texts.    *)
EXTENDS SseRestorer

MCPlaceholder == <<"P", "E", "_", "a">>
MCPREFIX == <<"P">>

\* A placeholder and an identity alias; and an alias that is the beginning of another.
MCSeparate == {MCPlaceholder, <<"l", "i">>}
MCNested == {MCPlaceholder, <<"l", "i">>, <<"l", "i", "E">>}
MCAliases == MCNested
MCSeparateTable == {MCSeparate}
MCNestedTable == {MCNested}
MCTables == {MCSeparate, MCNested}
MCOriginal == [a \in MCAliases |-> <<"R", ToString(Len(a))>>]

c0 == <<"c", "0">>
c0t0 == <<"c", "0", "t", "0">>
c1 == <<"c", "1">>
c10 == <<"c", "1", "0">>
MCKeys == {c0, c0t0, c1}
MCManyChoices == {c1, c10}

Pieces == {<<"P">>, <<"E", "_">>, <<"a", "P">>, <<"l">>, <<"i", "E">>, <<"l", "i">>}
Delta(k, t) == [carriers |-> <<[key |-> k, text |-> t]>>, ends |-> {}, terminator |-> None]
Deltas == {Delta(k, t) : k \in Keys, t \in Pieces}

\* What ends a choice ends its tool calls; finish_reason arrives in an event without text.
Stop(k) == [carriers |-> <<>>, ends |-> {j \in Keys : j = k \/ IsPrefix(k \o <<"t">>, j)},
            terminator |-> k]
StopAll == [carriers |-> <<>>, ends |-> Keys, terminator |-> <<>>]

MCEvents == Deltas \cup {Stop(c0), Stop(c1), StopAll}
\* The last text of a choice arrives with its finish_reason.
MCLastDelta == {[d EXCEPT !.ends = {c1}, !.terminator = c1] : d \in {Delta(c1, t) : t \in Pieces}}
MCWithLastDelta == {Delta(c1, t) : t \in Pieces} \cup MCLastDelta
\* One event carries the texts of two choices.
MCTwoCarriers == {[Delta(c0, t) EXCEPT !.carriers = @ \o <<[key |-> c1, text |-> u]>>] :
                    t \in Pieces, u \in Pieces}
\* Choices 1 and 10 of one request.
MCTenChoices == {Delta(k, t) : k \in MCManyChoices, t \in Pieces} \cup {Stop(c1), Stop(c10)}

\* The hypotheses of BlocksRestored hold of the separate aliases, those of its theorem of
\* MCEvents.
ASSUME NoOverlap(MCSeparate) /\ NoneWithin(MCSeparate) /\ WellShaped(MCSeparate)
ASSUME PlainEvents /\ \A t \in MCTables : InertOriginals(t)
=============================================================================
