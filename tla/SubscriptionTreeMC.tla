------------------------- MODULE SubscriptionTreeMC -------------------------
(***************************************************************************)
(* SubscriptionTree for TLC: filters with every kind of wildcard at every  *)
(* place, and topics of up to three segments over a small alphabet, an     *)
(* empty segment and segments that look like wildcards included.           *)
(***************************************************************************)
EXTENDS SubscriptionTree, TLC

Segments == {"a", "b", "", Plus, Hash}

Filters == {<<"a">>, <<"a", "#">>, <<"+", "b">>, <<"#">>, <<"a", "+", "b">>, <<"+">>, <<"", "b">>,
            <<"+", "#">>}

Topics == UNION {[1 .. n -> {"a", "b", ""}] : n \in 1 .. 2}
          \union {<<"a", "b", "b">>, <<"a", "", "b">>, <<"b", "a", "b">>, <<"a", "b", "a">>}
          \union {<<"+">>, <<"#">>, <<"a", "+">>, <<"a", "#">>, <<"+", "b">>}

Symmetry == Permutations(Client)
=============================================================================
