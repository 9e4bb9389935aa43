------------------------------ MODULE MCFiles ------------------------------
(* A tree in each volume, each the destination of the other's renames. *)
EXTENDS Files

MCNames     == <<"._c", "a", "b", "c">>
MCFold      == [n \in ToSet(MCNames) |-> n]
MCBuildRoot == <<"b">>
MCSide      == [n \in {"c"} |-> "._c"]

MCPlaces ==
    {<<"a">>, <<"a", "a">>, <<"a", "a", "c">>,
     <<"b", "b">>, <<"b", "b", "a">>, <<"b", "b", "a", "c">>}

MCListable == {<< >>, <<"a", "a">>, <<"b">>}
=============================================================================
