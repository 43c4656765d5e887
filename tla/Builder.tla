------------------------------ MODULE Builder ------------------------------
(***************************************************************************)
(* A rule made by calls to the builders (src/src/compiler/builder.rs), one *)
(* call a step.  A binding can be copied, and the callback of a negation   *)
(* can store one outside: any slot that was handed out may be used at any  *)
(* time.  Slots have no names here.                                        *)
(***************************************************************************)
EXTENDS RuleLists

\* LinkedBindingSequence::next
New == Len(env.slots)
WithNew == Extended(env, Wildcard)

Operands == {Literal} \cup {Slot(b) : b \in Handed}

AddTest ==
  /\ More /\ InSelect
  /\ \E b \in Handed, op \in {"AssertObject", "CompareBinding", "RequireValue", "Require"} :
       Step(env, <<Test(op, b)>>, <<>>, <<>>)

AddAttributeBinding ==
  /\ More /\ InSelect
  /\ \E b \in Handed : Step(WithNew, <<AttributeOp(b, New)>>, <<>>, <<>>)

AddAttributeBindingRequirement ==
  /\ More /\ InSelect
  /\ \E b, v \in Handed : Step(env, <<AttributeOp(b, v)>>, <<>>, <<>>)

\* The callbacks of these two add items; they cannot reach the builder.
AddTupleUnpackingOrEnumMatch ==
  /\ More /\ InSelect
  /\ \E b \in Handed, kind \in {"tuple", "enum"} : Step(env, <<>>, <<>>, <<Open(kind, b, <<>>)>>)

AddNewBindingItem == More /\ InValue({"tuple"}) /\ Step(WithNew, <<>>, <<Slot(New)>>, <<>>)

AddIgnoredItem == More /\ InValue({"tuple"}) /\ Step(env, <<>>, <<Ignore>>, <<>>)

\* The binding of a tuple is not handed out before the tuple is made.
AddItem ==
  /\ More /\ InValue({"tuple", "enum", "new"})
  /\ \E item \in Operands :
       /\ Inner.kind = "new" => item # Slot(Inner.slot)
       /\ Step(env, <<>>, <<item>>, <<>>)

AddNotClause == More /\ InSelect /\ OpenScope("not", <<>>)

AddComparison ==
  /\ More /\ InSelect
  /\ \E left, right \in Operands : Step(env, <<CompareOp(<<left, right>>)>>, <<>>, <<>>)

\* The calculation is made before its result has a slot.
AddCalculation ==
  /\ More /\ InSelect
  /\ \E left, right \in Operands :
       Step(WithNew, <<CalculationOp(New, <<left, right>>)>>, <<>>, <<>>)

AddObjectCreation == More /\ InApply /\ Step(WithNew, <<Create(New)>>, <<>>, <<>>)

AddTupleCreation == More /\ InApply /\ Step(WithNew, <<>>, <<>>, <<Open("new", New, <<>>)>>)

AddEdit ==
  /\ More /\ InApply
  /\ \E b \in Handed, value \in Operands, op \in {"Add", "Remove"} :
       Step(env, <<Edit(op, b, value)>>, <<>>, <<>>)

CloseItems == status = "compiling" /\ values # <<>> /\ CloseInner

Finish ==
  /\ status = "compiling" /\ InApply
  /\ status' = "accepted"
  /\ UNCHANGED <<env, scopes, values, lists, size>>

BuilderEnv ==
  [slots |-> [i \in 1 .. Len(InputNames) |-> [name |-> Wildcard, count |-> 0]],
   instances |-> [n \in Names |-> 0],
   visible |-> [n \in Names |-> NoSlot]]

BuilderInit ==
  /\ env = BuilderEnv
  /\ scopes = <<NewScope("select", env, <<>>)>>
  /\ values = <<>>
  /\ lists = <<>>
  /\ size = 0
  /\ status = "compiling"

BuilderNext ==
  \/ AddTest \/ AddAttributeBinding \/ AddAttributeBindingRequirement
  \/ AddTupleUnpackingOrEnumMatch \/ AddNewBindingItem \/ AddIgnoredItem \/ AddItem
  \/ AddNotClause \/ AddComparison \/ AddCalculation
  \/ AddObjectCreation \/ AddTupleCreation \/ AddEdit
  \/ CloseItems \/ CloseNot \/ CloseSelect \/ Finish

BuilderSpec == BuilderInit /\ [][BuilderNext]_vars
=============================================================================
