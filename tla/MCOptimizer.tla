---------------------------- MODULE MCOptimizer ----------------------------
(***************************************************************************)
(* Optimizer on rules like the ones of src/tests/language.rs, and what the *)
(* ordered lists find against what the rules say.                          *)
(***************************************************************************)
EXTENDS Optimizer

CONSTANTS o1, o2, s, t, Unbound

MCValue == {o1, o2, s, t, Unbound}
MCTupleItems == [v \in {t} |-> <<o2, s>>]

-----------------------------------------------------------------------------
(* Operations.  Slot 0 is $ROOT.                                           *)

Attr(b, c) == [op |-> "Attribute", binding |-> b, attribute |-> "a", value_binding |-> c]
IsObject(b) == [op |-> "AssertObject", binding |-> b]
HasValue(b, v) == [op |-> "RequireValue", binding |-> b, attribute |-> "a", value |-> v]
Has(b) == [op |-> "Require", binding |-> b, attribute |-> "a"]
Is(b, v) == [op |-> "CompareBinding", binding |-> b, value |-> v]
Slot(b) == [kind |-> "binding", binding |-> b]
Lit(v) == [kind |-> "value", value |-> v]
Ignore == [kind |-> "ignore"]
OneOf(b, options) == [op |-> "MatchEnum", binding |-> b, options |-> options]
Tuple(b, items) == [op |-> "Tuple", binding |-> b, items |-> items]
Differ(b, c) ==
  [op |-> "Compare", left |-> Slot(b), right |-> Slot(c),
   holds |-> {x \in MCValue \X MCValue : x[1] # x[2]}]
Calc(b, c) ==
  [op |-> "Calculation", binding |-> b, operands |-> <<c>>, results |-> (<<s>> :> o2 @@ <<o1>> :> s)]
Not(len, mark) == [op |-> "Not", len |-> len, mark |-> mark]

MCRules == {
  \* $ROOT.a: $1 @ { a: $2 }, $ROOT.a: $2, $1 and $2 differ
  <<<<Attr(0, 1), IsObject(1), Attr(1, 2), Attr(0, 2), Differ(1, 2)>>>>,
  \* $ROOT.a: $1 @ {}, $1 or $ROOT or s is $2
  <<<<Attr(0, 1), IsObject(1), IsObject(1), Attr(0, 2), OneOf(2, {Slot(1), Lit(s)})>>>>,
  \* $ROOT.a: $1 @ [$2 @ { a: $3 }, $3]
  <<<<Attr(0, 1), IsObject(2), Attr(2, 3), Tuple(1, <<Slot(2), Slot(3)>>)>>>>,
  \* $ROOT.a: [$2, $2], in a negation of its own: [$4, s]
  <<<<Attr(0, 1), Tuple(1, <<Slot(2), Slot(2)>>), Not(2, 3), Attr(0, 3), Tuple(3, <<Ignore, Lit(s)>>)>>>>,
  \* $ROOT.a: $1, $2 is a result of $1, $ROOT.a: $2
  <<<<Attr(0, 1), Calc(2, 1), Attr(0, 2), HasValue(0, s)>>>>,
  \* $ROOT.a: $1, not { $1.a: $2, $2: s }, $ROOT.a: $3, $3.a
  <<<<Attr(0, 1), Not(2, 2), Attr(1, 2), Is(2, s), Attr(0, 3), Has(3)>>>>,
  \* $ROOT.a: $1, $1.a: $2, not { $ROOT.a: $2 }
  <<<<Attr(0, 1), Attr(1, 2), Not(1, 3), Attr(0, 2)>>>>,
  \* $2 is a result of $1, $3 of $2, not { $5 is a result of $4, not $3 }
  <<<<Attr(0, 1), Calc(2, 1), Calc(3, 2), Not(3, 4), Attr(0, 4), Calc(5, 4), Differ(5, 3)>>>>,
  \* a negation in a negation, and one beside it; a condition with a negation
  <<<<Attr(0, 1), Not(4, 2), Attr(1, 2), Not(2, 3), Attr(2, 3), Differ(3, 1), Not(1, 4), HasValue(1, s)>>,
    <<IsObject(1), Attr(1, 4), Not(1, 5), HasValue(4, s)>>>>,
  \* an empty negation of an object, two conditions
  <<<<Attr(0, 1), Not(1, 2), IsObject(1)>>, <<Attr(1, 2), Is(2, s)>>, <<Attr(0, 3), Attr(3, 1)>>>> }

\* Rules no order exists for.  $1 is $1 + 1; a condition on an object that the
\* apply part creates in slot 2.  $3 is
\* $3 + 1 in a negation.
MCUnorderable == {
  <<<<Attr(0, 2), Calc(1, 1)>>>>,
  <<<<Attr(0, 1)>>, <<Attr(2, 3), Is(3, s)>>>>,
  <<<<Attr(0, 1), Not(3, 2), Attr(0, 2), Calc(3, 3), HasValue(0, s)>>>> }

MCAll == MCRules \cup MCUnorderable

MCHeaps == [{o1, o2} -> [{"a"} -> {<<>>, <<s>>, <<o2, s>>, <<t, o1>>, <<o2, o1, o2>>}]]

-----------------------------------------------------------------------------
(* What a list of operations says, whatever their order.                   *)

\* An item of a tuple is as the list says.
ItemIs(item, v, env) ==
  \/ item.kind = "ignore"
  \/ item.kind \in {"binding", "value"} /\ Operand(item, env) = v

\* An operation that is no negation holds of an environment.
Holds(c, env, heap) ==
  CASE c.op = "Attribute" ->
         env[c.value_binding] \in ToSet(ValuesOf(heap, env[c.binding], c.attribute))
    [] c.op = "Tuple" ->
         /\ CanUnpack(c, env)
         /\ \A i \in DOMAIN c.items : ItemIs(c.items[i], tupleItems[env[c.binding]][i], env)
    [] c.op = "Calculation" ->
         /\ Operands(c, env) \in DOMAIN c.results
         /\ env[c.binding] = c.results[Operands(c, env)]
    [] OTHER -> Passes(c, env, heap)

RECURSIVE AllHold(_, _, _, _)
AllHold(p, i, env, heap) ==
  \A j \in Body(p, i) :
    IF p[j].op = "Not"
      THEN ~\E own \in [Own(p, j) -> MCValue] :
              AllHold(p, j, own @@ env, heap)
      ELSE Holds(p[j], env, heap)

\* The slots of a list that are not a negation's own.
Variables(p) == Inputs \cup MentionedIn(p, Body(p, 0))

Meaning(p, heap) ==
  {env \in [Variables(p) -> MCValue] :
     /\ \A b \in Inputs : env[b] = o1
     /\ AllHold(p, 0, env, heap)}

\* Every order finds what the rule says: the environments in which all its
\* operations hold and none of its negations can be made to, however slots
\* came to be bound or compared, and whatever unbound slots hold.  How often
\* an environment is found depends on the order, and which comes first.
SameSolutions ==
  pc = "done" =>
    \A heap \in MCHeaps, junk \in {Unbound, o2} :
      LET env == [b \in Binding |-> IF b \in Inputs THEN o1 ELSE junk]
          found == Range(Solutions(compiled[1], env, heap))
      IN  {Restrict(e, Variables(rule[1])) : e \in found} = Meaning(rule[1], heap)
=============================================================================
