------------------------------ MODULE AliasText ------------------------------
(***************************************************************************)
(* Searching a text for aliases and putting the originals back             *)
(* (restore_text and holdback in crates/redact/src/placeholder.rs,         *)
(* holdback_len in crates/redact/src/stream.rs).  A text is a sequence of  *)
(* characters; a table is the set of the aliases that are live.            *)
(***************************************************************************)
EXTENDS Integers, Sequences, FiniteSetsExt, SequencesExt

CONSTANTS
    Aliases,       \* the replacement texts
    Original,      \* Original[a]: the text that a stands for
    PREFIX,        \* the characters every placeholder starts with (PG_)
    EntityChars,   \* [A-Z0-9]
    HexChars,      \* [0-9a-f]
    HASH_HEX_LEN   \* how many HexChars end a placeholder

IsText(s) == s \in Seq(ToSet(s))

ASSUME AliasAssumption ==
    /\ DOMAIN Original = Aliases
    /\ \A a \in Aliases : IsText(a) /\ a # <<>> /\ IsText(Original[a])
    /\ IsText(PREFIX) /\ PREFIX # <<>>
    /\ HASH_HEX_LEN \in Nat

At(text, i, a) == IsPrefix(a, SubSeq(text, i, Len(text)))

\* The longest alias of S.
Longest(S) == CHOOSE a \in S : \A b \in S : Len(a) >= Len(b)

\* Leftmost-longest, non-overlapping matches are replaced by their originals.
Restore(live, text) ==
    LET n == Len(text)
        rest[i \in 1 .. n + 1] ==
            IF i = n + 1 THEN <<>>
            ELSE LET found == {a \in live : At(text, i, a)} IN
                 IF found = {} THEN <<text[i]>> \o rest[i + 1]
                 ELSE Original[Longest(found)] \o rest[i + Len(Longest(found))]
    IN  rest[1]

\* Every text obtained by putting the originals of some of the live aliases back.
PartlyRestored(live, text) ==
    LET n == Len(text)
        rest[i \in 1 .. n + 1] ==
            IF i = n + 1 THEN {<<>>}
            ELSE {<<text[i]>> \o r : r \in rest[i + 1]} \cup
                 UNION {{Original[a] \o r : r \in rest[i + Len(a)]} :
                           a \in {b \in live : At(text, i, b)}}
    IN  rest[1]

\* The text is PREFIX, entity characters, "_" at i, hex characters.
Splits(s, i) ==
    /\ IsPrefix(PREFIX, s)
    /\ i > Len(PREFIX) + 1 /\ s[i] = "_"
    /\ \A j \in Len(PREFIX) + 1 .. i - 1 : s[j] \in EntityChars
    /\ \A j \in i + 1 .. Len(s) : s[j] \in HexChars

HasShape(s) == \E i \in 1 .. Len(s) : Splits(s, i) /\ Len(s) - i = HASH_HEX_LEN

\* is_placeholder looks for the shape anywhere in a text that starts with PREFIX.
IsPlaceholder(s) == IsPrefix(PREFIX, s) /\ \E i, j \in 1 .. Len(s) : HasShape(SubSeq(s, i, j))

\* A strict prefix of some placeholder, known or not.
IsPlaceholderPrefix(s) ==
    \/ IsPrefix(s, PREFIX)
    \/ IsPrefix(PREFIX, s) /\ \A j \in Len(PREFIX) + 1 .. Len(s) : s[j] \in EntityChars
    \/ \E i \in 1 .. Len(s) : Splits(s, i) /\ Len(s) - i < HASH_HEX_LEN

MaxLen(S) == Max({Len(a) : a \in S} \cup {0})

\* The lengths of the nonempty suffixes of buf, at most max long, that Test accepts.
Suffix(buf, len) == SubSeq(buf, Len(buf) - len + 1, Len(buf))
HeldLengths(buf, max, Test(_)) ==
    {len \in 1 .. IF max < Len(buf) THEN max ELSE Len(buf) : Test(Suffix(buf, len))}

\* How many characters at the end of buf may be the start of an alias.  noted: the aliases
\* recorded so far, whose lengths bound the windows; live: those that are still known.
Holdback(noted, live, buf) ==
    LET ph == {a \in noted : IsPlaceholder(a)}
        StartsAlias(s) == \E a \in live : ~IsPlaceholder(a) /\ IsStrictPrefix(s, a)
    IN  Max({0} \cup HeldLengths(buf, MaxLen(ph), IsPlaceholderPrefix)
                \cup HeldLengths(buf, MaxLen(noted \ ph), StartsAlias))
-----------------------------------------------------------------------------
\* What the exact restoration of a stream asks of the aliases of a table, which no code
\* enforces.

\* No alias ends in the beginning of an alias or of a placeholder.
NoOverlap(live) ==
    \A a \in live : \A len \in 1 .. Len(a) - 1 :
        /\ ~IsPlaceholderPrefix(Suffix(a, len))
        /\ \A b \in live : ~IsPrefix(Suffix(a, len), b)

\* An alias that counts as a placeholder is one from its first character to its last.
WellShaped(live) == \A a \in live : IsPlaceholder(a) => HasShape(a)

\* No alias is a part of another one.
NoneWithin(live) == \A a, b \in live : a # b => \A i \in 1 .. Len(b) : ~At(b, i, a)

\* No original is empty or contains a character of an alias.
InertOriginals(live) ==
    \A a, b \in live :
        /\ Original[a] # <<>>
        /\ ToSet(Original[a]) \cap ToSet(b) = {}
=============================================================================
