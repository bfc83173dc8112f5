-------------------------------- MODULE Json --------------------------------
(***************************************************************************)
(* JSON values as the proxy reads them (serde_json::Value): the function   *)
(* from the paths of the strings in a value to those strings.  A path is a *)
(* sequence of keys and indices, a string the sequence of the words that   *)
(* matter in it, so that <<"response", "completed">> is one type and       *)
(* <<"text", "original">> a text with a sensitive value.  Numbers are      *)
(* words too; empty objects and null are left out.                         *)
(***************************************************************************)
EXTENDS Naturals, Sequences, SequencesExt

CONSTANTS
    Indices,   \* bound: the indices of the arrays, in order
    None       \* what is not there

Index == ToSet(Indices)

\* Value::pointer followed by as_str.
At(json, path) == IF path \in DOMAIN json THEN json[path] ELSE None
OrElse(a, b) == IF a # None THEN a ELSE b

\* Value::get: is there anything at the path?
Has(json, path) == \E p \in DOMAIN json : IsPrefix(path, p)

\* What the elements of an array give, in order.
ForElements(Of(_)) == FlattenSeq([n \in DOMAIN Indices |-> Of(Indices[n])])
=============================================================================
