------------------------------ MODULE MCSearch ------------------------------
(***************************************************************************)
(* Search on the operation lists of rules like the ones of                 *)
(* src/tests/language.rs, over small heaps, against the definition of      *)
(* their solutions by recursion on the operations.                         *)
(***************************************************************************)
EXTENDS Search

CONSTANTS o1, o2, s, t, Unbound

MCValue == {o1, o2, s, t, Unbound}
MCTupleItems == [v \in {t} |-> <<o2, s>>]

-----------------------------------------------------------------------------
(* Operations.                                                             *)

Search(from, to) == [op |-> "Search", binding |-> from, attribute |-> "a", value_binding |-> to]
IsObject(b) == [op |-> "AssertObject", binding |-> b]
HasValue(b, v) == [op |-> "RequireValue", binding |-> b, attribute |-> "a", value |-> v]
HasBinding(b, c) == [op |-> "RequireBinding", binding |-> b, attribute |-> "a", value_binding |-> c]
Has(b) == [op |-> "Require", binding |-> b, attribute |-> "a"]
Is(b, v) == [op |-> "CompareBinding", binding |-> b, value |-> v]
Slot(b) == [kind |-> "binding", binding |-> b]
Lit(v) == [kind |-> "value", value |-> v]
OneOf(b, options) == [op |-> "MatchEnum", binding |-> b, options |-> options]
Differ(b, c) ==
  [op |-> "Compare", left |-> Slot(b), right |-> Slot(c),
   holds |-> {x \in MCValue \X MCValue : x[1] # x[2]}]
Unpack(b, items) == [op |-> "Unpack", binding |-> b, items |-> items]
BindItem(b) == [kind |-> "bind", binding |-> b]
IgnoreItem == [kind |-> "ignore"]
\* A calculation that has no result for tuples and objects other than o1.
Calc(b, c) ==
  [op |-> "Calculation", binding |-> b, operands |-> <<c>>, results |-> (<<s>> :> o2 @@ <<o1>> :> s)]
CalcIs(b, c) ==
  [op |-> "CalculationCompare", binding |-> b, operands |-> <<c>>,
   results |-> (<<s>> :> o2 @@ <<o1>> :> s)]
Begin(k, n) == [op |-> "BeginNot", index |-> k, sequence_len |-> n]
End(k) == [op |-> "EndNot", index |-> k]
Done == [op |-> "End"]

\* Slot 0 is the input, 1 to 3 belong to the select part, 4 to the apply part.
MCPrograms == {
  <<Search(0, 1), Search(1, 2), Search(0, 3), Done>>,
  <<Search(0, 1), HasBinding(1, 0), Differ(0, 1), Done>>,
  <<Search(0, 1), OneOf(1, {Slot(0), Lit(s)}), Done>>,
  <<Search(0, 1), IsObject(1), Begin(0, 1), End(0), Done>>,
  <<Search(0, 1), Begin(0, 3), Search(1, 2), Is(2, s), End(0), Search(0, 3), Done>>,
  <<Begin(1, 6), Search(0, 1), Begin(0, 2), HasValue(1, s), End(0), Has(1), End(1),
    Search(0, 2), Done>>,
  <<Search(0, 1), Begin(2, 7), Begin(1, 5), Search(1, 2), Begin(0, 2), Is(2, s), End(0), End(1),
    End(2), Search(0, 3), Done>>,
  <<Begin(0, 2), HasValue(0, s), End(0), Search(0, 1), Begin(1, 3), Search(0, 2),
    HasBinding(2, 1), End(1), Done>>,
  <<Search(0, 1), Unpack(1, <<BindItem(2), BindItem(3)>>), HasBinding(2, 3), Done>>,
  <<Search(0, 1), Unpack(1, <<BindItem(2), [kind |-> "binding", binding |-> 2]>>), Done>>,
  <<Search(0, 1), Begin(0, 3), Unpack(1, <<BindItem(2), Lit(s)>>), HasValue(2, s), End(0),
    Search(0, 3), Done>>,
  <<Search(0, 1), Unpack(1, <<IgnoreItem, BindItem(2)>>), Calc(3, 2), Done>>,
  <<Search(0, 1), Search(0, 2), CalcIs(2, 1), Begin(0, 2), Calc(3, 2), End(0), Done>> }

MCHeaps == [{o1, o2} -> [{"a"} -> {<<>>, <<s>>, <<o2>>, <<o1, t>>, <<s, o1, o2>>, <<o2, s, o2>>}]]

=============================================================================
