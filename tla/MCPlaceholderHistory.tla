------------------------ MODULE MCPlaceholderHistory ------------------------
(* Two values, one of them labelled by two rules, and a table of one pair: the smallest   *)
(* instance in which a value is forgotten and asked for again.                            *)
EXTENDS PlaceholderHistory

MCValues == {"v1", "v2"}
MCPlaceholders == {"p1", "q1", "p2"}
MCPhCands ==
    [c \in MCValues \X {"EMAIL", "SECRET"} |->
        IF c[1] = "v2" THEN <<"p2">> ELSE IF c[2] = "EMAIL" THEN <<"p1">> ELSE <<"q1">>]
MCSynCands == [c \in MCValues \X {"EMAIL", "SECRET"} |-> <<>>]
MCLower == [v \in MCValues |-> v]
MCIdentities == {<<>>}
MCLength == [a \in MCPlaceholders |-> 1]
=============================================================================
