------------------------- MODULE MCTlmTaggedTarget -------------------------
(* Three lanes, the fewest with which the arbiter's priority can starve one; *)
(* each has an argument of its own, so that mixing up two lanes shows.       *)
EXTENDS TlmTaggedTarget

MCArgs == {"a", "b", "c"}
MCAsks == {<<0, "a">>, <<1, "b">>, <<2, "c">>}
=============================================================================
