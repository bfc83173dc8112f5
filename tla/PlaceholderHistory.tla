------------------------- MODULE PlaceholderHistory -------------------------
(***************************************************************************)
(* PlaceholderMap with the memory of a client that resends its history:    *)
(* the first alias each value was ever replaced by under the configuration *)
(* in force (crates/redact/src/placeholder.rs).                            *)
(***************************************************************************)
EXTENDS PlaceholderMap

VARIABLE sent  \* value -> the alias it was first replaced by, or None

HistoryInit == Init /\ sent = [v \in Values |-> None]

\* The user reconfigures nothing here: only requests and restorations happen.
HistoryNext ==
    \/ /\ \E v \in Values, e \in Entities : PlaceholderFor(v, e)
       /\ sent' = [sent EXCEPT ![out'.value] = IF @ = None THEN out'.alias ELSE @]
    \/ RestoreText /\ UNCHANGED sent

HistorySpec == HistoryInit /\ [][HistoryNext]_<<vars, sent>>

\* A value is always replaced by the alias it was first replaced by, so that a history sent
\* again is the same bytes (the comment on PlaceholderMap: the same original always maps to
\* the same replacement).  Eviction forgets the pair, and the next occurrence is renamed
\* when another rule labels it or another value has taken its first candidate.
ResentUnchanged == \A v \in Values :
    out # None /\ out.value = v => out.alias = sent[v]
=============================================================================
