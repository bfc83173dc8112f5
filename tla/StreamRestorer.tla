--------------------------- MODULE StreamRestorer ---------------------------
(***************************************************************************)
(* Restoring a byte stream that arrives in chunks                          *)
(* (crates/redact/src/stream.rs): the end of each chunk is carried over    *)
(* when it may be the beginning of an alias.  The table is shared: between *)
(* two chunks other requests add aliases, for which a full table drops old *)
(* ones, and new settings take the aliases of the user's identity away     *)
(* (set_identity and insert in crates/redact/src/placeholder.rs).          *)
(***************************************************************************)
EXTENDS AliasText

CONSTANTS
    Streams,     \* the byte streams the upstream may send
    LeadBytes,   \* first bytes of a two-byte UTF-8 character
    ContBytes,   \* second bytes
    FirstTables, \* the tables the stream may start with
    MaxChanges   \* bound: changes of the table during the stream

VARIABLES
    stream,    \* what the upstream sends
    arrived,   \* how many bytes of it have arrived
    known,     \* the aliases in the table
    noted,     \* all that have ever been in it: the widths of the windows only grow
    table,     \* those that have been in it since the stream began
    changes,   \* how often the table has changed since then
    carry,     \* the bytes held back
    emitted,   \* the bytes handed to the client
    done,      \* finish has been called
    split      \* a chunk has ended inside a character

streamVars == <<stream, arrived, known, noted, table, changes, carry, emitted, done, split>>

StreamInit ==
    /\ stream \in Streams
    /\ known \in FirstTables
    /\ \E past \in FirstTables : noted = known \cup past
    /\ table = known
    /\ changes = 0
    /\ arrived = 0
    /\ carry = <<>>
    /\ emitted = <<>>
    /\ done = FALSE
    /\ split = FALSE

\* The longest valid UTF-8 prefix of bytes.
ValidUpTo(bytes) ==
    Max({n \in 0 .. Len(bytes) : \A i \in 1 .. n :
            /\ bytes[i] \in ContBytes <=> i > 1 /\ bytes[i - 1] \in LeadBytes
            /\ bytes[i] \in LeadBytes => i < n})

IsUtf8(bytes) == ValidUpTo(bytes) = Len(bytes)

\* Aliases and PREFIX are strings; a stream is any bytes.
ASSUME StreamAssumption ==
    /\ \A s \in Streams : IsText(s)
    /\ \A a \in Aliases \cup {PREFIX} : IsUtf8(a)
    /\ \A t \in FirstTables : t \subseteq Aliases /\ IsFiniteSet(t)
    /\ MaxChanges \in Nat

\* Mutant: bytes that are not valid UTF-8 are dropped.
RestoreValid(bytes) == Restore(known, SubSeq(bytes, 1, ValidUpTo(bytes)))

\* restore_bytes: what follows the valid prefix is passed on as it is.
RestoreBytes(bytes) ==
    LET n == ValidUpTo(bytes) IN
    Restore(known, SubSeq(bytes, 1, n)) \o SubSeq(bytes, n + 1, Len(bytes))

\* Mutant: only unfinished placeholders are held back.
HoldPlaceholders(buf) ==
    Max({0} \cup HeldLengths(buf, MaxLen({a \in noted : IsPlaceholder(a)}), IsPlaceholderPrefix))

\* Mutant: unfinished placeholders are not held back.
HoldOthers(buf) ==
    LET others == {a \in noted : ~IsPlaceholder(a)}
        StartsOther(s) == \E a \in others \cap known : IsStrictPrefix(s, a)
    IN  Max({0} \cup HeldLengths(buf, MaxLen(others), StartsOther))

\* An empty table holds nothing back.
Hold(buf) == IF known = {} THEN 0 ELSE Holdback(noted, known, buf)

Feed(chunk) ==
    LET buf == carry \o chunk
        emit_end == Len(buf) - Hold(buf)
        head == SubSeq(buf, 1, emit_end)
    IN
    /\ arrived' = arrived + Len(chunk)
    /\ emitted' = emitted \o (IF known = {} THEN head ELSE RestoreBytes(head))
    /\ carry' = SubSeq(buf, emit_end + 1, Len(buf))
    /\ UNCHANGED <<stream, known, noted, table, changes, done>>

Arrive ==
    /\ ~done
    /\ \E n \in arrived + 1 .. Len(stream) :
        /\ Feed(SubSeq(stream, arrived + 1, n))
        /\ split' = (split \/ stream[n] \in LeadBytes)

FinishStream ==
    /\ ~done
    /\ arrived = Len(stream)
    /\ emitted' = emitted \o RestoreBytes(carry)
    /\ carry' = <<>>
    /\ done' = TRUE
    /\ UNCHANGED <<stream, arrived, known, noted, table, changes, split>>

\* The table becomes `aliases`; what has left it does not count as having stayed.
TableBecomes(aliases) ==
    /\ ~done
    /\ changes < MaxChanges
    /\ known' = aliases
    /\ noted' = noted \cup aliases
    /\ table' = table \cap aliases
    /\ changes' = changes + 1
    /\ UNCHANGED <<stream, arrived, carry, emitted, done, split>>

\* Another request registers an alias, for which a full table drops one.
Learn(a) ==
    /\ a \notin known
    /\ \E gone \in {{}} \cup {{b} : b \in known} : TableBecomes((known \ gone) \cup {a})

\* New settings take an alias of the identity away.
Forget(a) ==
    /\ a \in known
    /\ TableBecomes(known \ {a})

StreamNext == Arrive \/ FinishStream \/ \E a \in Aliases : Learn(a) \/ Forget(a)

StreamSpec == StreamInit /\ [][StreamNext]_streamVars
-----------------------------------------------------------------------------
\* Nothing is lost, repeated or reordered, however the stream is cut, whatever the aliases
\* look like and while the table changes: the client has a partial restoration of all that
\* arrived except the bytes held back (carry is taken and put back around two early exits).
NoByteLost ==
    LET held == arrived - Len(carry) IN
    /\ emitted \in PartlyRestored(noted, SubSeq(stream, 1, held))
    /\ carry = SubSeq(stream, held + 1, arrived)

\* What exact restoration asks of a stream and its aliases: the stream is text of which no
\* chunk ends inside a character, and the aliases can be told apart.
Exact == ~split /\ IsUtf8(stream) /\ NoOverlap(noted) /\ WellShaped(noted)

\* The chunking is invisible: while the table stays the same, the client gets the text that one
\* restoration of the whole stream would give (the tests that cut at every position), whatever
\* windows the aliases of before have left.
ChunkingInvisible == done /\ changes = 0 /\ Exact => emitted = Restore(table, stream)

\* No alias that is in the table from the beginning of the stream to its end reaches the
\* client, whatever other aliases come and go in between, when no original looks like an alias.
AliasesRestored ==
    done /\ Exact /\ InertOriginals(noted) =>
        \A a \in table, i \in 1 .. Len(emitted) : ~At(emitted, i, a)
=============================================================================
