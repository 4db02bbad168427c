---------------------------- MODULE MCExchanger -----------------------------
(* Grid 1 is the M grid of one pair and the N grid of another.              *)
EXTENDS Exchanger

Chain == {<<1, 2>>, <<3, 1>>}
Ring == {<<1, 2>>, <<2, 3>>, <<3, 1>>}

\* Each kind of edit to one of the pairs, points together with sources.
OneOfEach == {<<<<1, 2>>, f>> : f \in {"EDIT_M_EXTENTS", "EDIT_M_DESTINATIONS", "EDIT_N_SOURCES"}}
OneOfEachSide == {<<<<1, 2>>, "M">>, <<<<3, 1>>, "N">>}
NoEdits == {}
OneOfEachKind ==
    {<<<<1, 2>>, "collect">>, <<<<1, 2>>, "receive">>, <<<<3, 1>>, "send">>, <<<<3, 1>>, "disperse">>}
NoExchanges == {}
=============================================================================
