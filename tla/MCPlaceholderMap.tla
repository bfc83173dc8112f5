-------------------------- MODULE MCPlaceholderMap --------------------------
(* A small instance of PlaceholderMap: two values share their first placeholder (a hash  *)
(* collision) and their first fake value, one fake value is the value itself and one is  *)
(* another real value.                                                                    *)
EXTENDS PlaceholderMap

MCValues == {"v1", "v2", "v3"}
MCPlaceholders == {"p", "p1", "p2", "p3", "px"}
MCAliases == MCPlaceholders \cup {"s", "s1", "li", "v1"}
MCEntities == {"EMAIL", "SECRET"}

MCPhCands ==
    [c \in MCValues \X MCEntities |->
        CASE c[1] = "v1" -> <<"p", "p1">>
          [] c[1] = "v2" -> <<"p", "p2">>
          [] c[1] = "v3" -> <<"p3">>]
MCSynCands ==
    [c \in MCValues \X MCEntities |->
        IF c[2] = "SECRET" THEN <<>>
        ELSE CASE c[1] = "v1" -> <<"v1", "s", "s1">>
               [] c[1] = "v2" -> <<"s">>
               [] c[1] = "v3" -> <<"v1">>]

MCLower == [v \in MCValues |-> IF v = "v2" THEN "v3" ELSE v]
MCLength == [a \in MCAliases |-> IF a \in {"p", "p2"} THEN 3 ELSE IF a = "li" THEN 2 ELSE 1]

Person(alias, reals, ci) ==
    [alias |-> alias, primary |-> CHOOSE v \in reals : TRUE, reals |-> reals, ci |-> ci]

\* No identity, one case-insensitive field, and two fields, one of them with an alias that
\* has the form of a placeholder.
MCIdentities == {<<>>, <<Person("li", {"v3"}, TRUE)>>,
                 <<Person("li", {"v2", "v3"}, FALSE), Person("px", {"v1"}, FALSE)>>}

\* The user picks as an alias a text the generator has already handed out as a fake value.
MCClashingIdentities == {<<>>, <<Person("s", {"v3"}, FALSE)>>}
MCNoIdentity == {<<>>}
=============================================================================
