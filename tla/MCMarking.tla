----------------------------- MODULE MCMarking -----------------------------
(***************************************************************************)
(* Marking over all heaps of three objects whose attributes hold at most   *)
(* one value each, or a pair: every other object, a tuple and a tuple that *)
(* holds that tuple.                                                       *)
(***************************************************************************)
EXTENDS Marking

CONSTANTS t1, t2, symbol

MCItems == [t \in {t1, t2} |-> IF t = t1 THEN <<2, symbol, 1>> ELSE <<t1, 3>>]

MCContents == {<<>>, <<1, 2>>, <<t1, 3>>} \cup {<<v>> : v \in {1, 2, 3, t1, t2, symbol}}
MCRoots == {<<>>, <<1>>, <<3>>, <<2, 1>>, <<2, 3>>, <<1, 2, 3>>}
=============================================================================
