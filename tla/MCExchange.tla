----------------------------- MODULE MCExchange -----------------------------
(* Two requests, a table of one alias, and responses of up to two units.      *)
EXTENDS Exchange, TLC

MCBodies == {<<>>, <<"text">>, <<"start", "end">>, <<"start">>, <<"usage">>, <<"fault">>}
Symmetry == Permutations(Requests) \cup Permutations(Values)
=============================================================================
