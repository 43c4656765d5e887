------------------------------ MODULE MCValues ------------------------------
(***************************************************************************)
(* Values with integers of five bits and significands of three, which is   *)
(* too few for the odd integers from 9 on.                                 *)
(***************************************************************************)
EXTENDS Values

MCItems == {IntValue(8), IntValue(9), FloatValue(1, 16), SymbolValue(0), TupleValue(<<>>)}

MCTuples == {TupleValue(items) : items \in UNION {[1 .. n -> MCItems] : n \in 0 .. 1}}
              \cup {TupleValue(<<IntValue(8), item>>) : item \in MCItems}
              \cup {TupleValue(<<TupleValue(<<IntValue(9)>>)>>)}

MCValue ==
  {ObjectValue(id) : id \in {0, 1}} \cup {SymbolValue(name) : name \in {0, 1}}
    \cup {IntValue(n) : n \in Minimum .. Maximum}
    \cup {FloatValue(sign, m) : sign \in {1, -1}, m \in Magnitudes \cup {NotANumber}}
    \cup MCTuples
=============================================================================
