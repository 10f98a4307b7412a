------------------------------ MODULE CodecMC ------------------------------
(***************************************************************************)
(* Bytes for Codec: strings and payloads that are empty or not, numbers of *)
(* two bytes that differ, one property of every type, and a list that is   *)
(* longer than one byte can say.                                           *)
(***************************************************************************)
EXTENDS Codec

ASSUME WidthAssumption == Width

Texts == {<<>>, <<97, 47>>}
Payloads == {<<>>, <<2, 255, 1>>}
Numbers == {1, 258}

PropertyLists == {
    <<>>,
    << <<1, <<1>>>>, <<33, <<258>>>>, <<17, <<16909060>>>>, <<11, <<300>>>>, <<9, <<255, 0>>>>,
       <<31, <<97>>>>, <<38, <<<<97>>, <<>>>>>>, <<38, <<<<97>>, <<98>>>>>> >>,
    << <<38, <<<<97>>, [i \in 1 .. 130 |-> 97]>>>> >> }
=============================================================================
