----------------------------- MODULE AliasTable -----------------------------
(***************************************************************************)
(* What the session's placeholder table promises to the rest of the proxy, *)
(* without hashing, styles, indexes or identities: a bounded first-in      *)
(* first-out list of (alias, value) pairs in which no alias stands for two *)
(* values and no value has two aliases.                                    *)
(***************************************************************************)
EXTENDS Naturals, Sequences

CONSTANTS
    Values,   \* the sensitive values that may be replaced
    Aliases,  \* the replacement texts that may be handed out
    Cap       \* how many pairs the table holds

VARIABLE pairs  \* the live pairs, oldest first

Pair == [alias : Aliases, value : Values]

Init == pairs = <<>>

InUse(p) == \E i \in 1 .. Len(pairs) :
               pairs[i].alias = p.alias \/ pairs[i].value = p.value

\* A new pair shares neither side with a live one; a full table drops its oldest pair.
Issue(p) ==
    /\ ~InUse(p)
    /\ \/ /\ Len(pairs) < Cap
          /\ pairs' = Append(pairs, p)
       \/ /\ Len(pairs) = Cap
          /\ pairs' = Tail(Append(pairs, p))

Reset == pairs' = <<>>

Next == Reset \/ \E p \in Pair : Issue(p)

Spec == Init /\ [][Next]_pairs
=============================================================================
