------------------------------ MODULE Scoping ------------------------------
(***************************************************************************)
(* The compilation of a rule from its syntax tree                          *)
(* (src/src/compiler/cfg.rs): variables to slots, constructs to operations.*)
(* The tree is walked construct by construct; which construct comes next,  *)
(* of those the parser lets stand there, is open.                          *)
(***************************************************************************)
EXTENDS RuleLists

-----------------------------------------------------------------------------
(* Env.                                                                    *)

Known(e, v) == v # Wildcard /\ e.visible[v] # NoSlot

SlotOf(e, v) == IF Known(e, v) THEN e.visible[v] ELSE Len(e.slots)

\* bind: the slot of a visible name, or a new one; without a name a new one.
Bound(e, v) ==
  IF Known(e, v) THEN [e EXCEPT !.slots[e.visible[v] + 1].count = @ + 1] ELSE Extended(e, v)

ExistingError(v) == IF v = Wildcard THEN "IllegalWildcard" ELSE "ExistingBindingRequired"

-----------------------------------------------------------------------------
(* Value specifications: a literal, a variable, or a tuple, choice or      *)
(* object, for which a variable may stand.                                 *)

Specs == {[form |-> "literal", variable |-> Wildcard]}
           \cup [form : {"variable", "tuple", "enum", "struct"}, variable : Variables]

\* An attribute of the object in slot b is what is specified.
AttributeStep(e, b, spec) ==
  LET s == SlotOf(e, spec.variable)
      bound == Bound(e, spec.variable)
  IN  \/ /\ spec.form = "literal"
         /\ Step(e, <<Test("RequireValue", b)>>, <<>>, <<>>)
      \/ /\ spec.form = "variable" /\ spec.variable = Wildcard
         /\ Step(e, <<Test("Require", b)>>, <<>>, <<>>)
      \/ /\ spec.form = "variable" /\ spec.variable # Wildcard
         /\ Step(bound, <<AttributeOp(b, s)>>, <<>>, <<>>)
      \/ /\ spec.form \in {"tuple", "enum"}
         /\ Step(bound, <<AttributeOp(b, s)>>, <<>>, <<Open(spec.form, s, <<>>)>>)
      \/ /\ spec.form = "struct"
         /\ Step(bound, <<AttributeOp(b, s), Test("AssertObject", s)>>, <<>>,
                 <<Open("struct", s, <<>>)>>)

\* $v: spec
SelectBinding ==
  /\ More /\ InSelect
  /\ \E v \in Variables, spec \in Specs :
       LET e == Bound(env, v)
           s == SlotOf(env, v)
       IN  \/ ~Known(env, v) /\ Stop(ExistingError(v))
           \/ /\ Known(env, v) /\ spec.form = "variable"
              /\ Stop("IllegalBindingMatch")
           \/ /\ Known(env, v) /\ spec.form \in {"tuple", "enum", "struct"} /\ spec.variable # Wildcard
              /\ Stop("IllegalNamedBinding")
           \/ /\ Known(env, v) /\ spec.form = "literal"
              /\ Step(e, <<Test("CompareBinding", s)>>, <<>>, <<>>)
           \/ /\ Known(env, v) /\ spec.form \in {"tuple", "enum"} /\ spec.variable = Wildcard
              /\ Step(e, <<>>, <<>>, <<Open(spec.form, s, <<>>)>>)
           \/ /\ Known(env, v) /\ spec.form = "struct" /\ spec.variable = Wildcard
              /\ Step(e, <<Test("AssertObject", s)>>, <<>>, <<Open("struct", s, <<>>)>>)

\* $v.attribute: spec
SelectAttribute ==
  /\ More /\ InSelect
  /\ \E v \in Variables, spec \in Specs :
       IF Known(env, v) THEN AttributeStep(Bound(env, v), SlotOf(env, v), spec)
                        ELSE Stop(ExistingError(v))

\* An attribute in the braces of an object.
SelectNested ==
  /\ More /\ InValue({"struct"})
  /\ \E spec \in Specs : AttributeStep(env, Inner.slot, spec)

\* An item in the brackets of a tuple.
SelectItem ==
  /\ More /\ InValue({"tuple"})
  /\ \E spec \in Specs :
       LET e == Bound(env, spec.variable)
           s == SlotOf(env, spec.variable)
       IN  \/ spec.form = "literal" /\ Step(env, <<>>, <<Literal>>, <<>>)
           \/ /\ spec.form = "variable" /\ spec.variable = Wildcard
              /\ Step(env, <<>>, <<Ignore>>, <<>>)
           \/ /\ spec.form = "variable" /\ spec.variable # Wildcard
              /\ Step(e, <<>>, <<Slot(s)>>, <<>>)
           \/ /\ spec.form \in {"tuple", "enum"}
              /\ Step(e, <<>>, <<Slot(s)>>, <<Open(spec.form, s, <<>>)>>)
           \/ /\ spec.form = "struct"
              /\ Step(e, <<Test("AssertObject", s)>>, <<Slot(s)>>, <<Open("struct", s, <<>>)>>)

Not == More /\ InSelect /\ OpenScope("not", <<>>)

Comparison == More /\ InSelect /\ Step(env, <<>>, <<>>, <<Open("comparison", NoSlot, <<>>)>>)

\* $v is ..: the variable is bound before its operands are looked up.
Calculation ==
  /\ More /\ InSelect
  /\ \E v \in Variables :
       \/ v = Wildcard /\ Stop("IllegalWildcard")
       \/ Known(env, v) /\ Stop("IllegalReuse")
       \/ /\ v # Wildcard /\ ~Known(env, v)
          /\ Step(Bound(env, v), <<>>, <<>>, <<Open("calculation", SlotOf(env, v), <<>>)>>)

\* What is compared, calculated with, or one of a choice.
Operand ==
  /\ More /\ InValue({"comparison", "calculation", "enum"})
  /\ Inner.kind = "comparison" => Len(Inner.items) < 2
  /\ \/ Step(env, <<>>, <<Literal>>, <<>>)
     \/ \E v \in Variables :
          IF Known(env, v) THEN Step(Bound(env, v), <<>>, <<Slot(SlotOf(env, v))>>, <<>>)
                           ELSE Stop(ExistingError(v))

-----------------------------------------------------------------------------
(* The apply part.                                                         *)

\* A value is added to (or removed from) an attribute of the object in slot b.
AddStep(e, b, spec, op) ==
  LET s == SlotOf(e, spec.variable)
      bound == Bound(e, spec.variable)
      edit == <<Edit(op, b, Slot(s))>>
  IN  \/ spec.form = "literal" /\ Step(e, <<Edit(op, b, Literal)>>, <<>>, <<>>)
      \/ /\ spec.form = "variable" /\ Known(e, spec.variable)
         /\ Step(bound, edit, <<>>, <<>>)
      \/ /\ spec.form = "variable" /\ ~Known(e, spec.variable)
         /\ Stop(ExistingError(spec.variable))
      \/ spec.form = "enum" /\ Stop("IllegalEnumSpecification")
      \/ spec.form = "struct" /\ op = "Remove" /\ Stop("IllegalObjectSpecification")
      \/ /\ spec.form = "tuple" \/ (spec.form = "struct" /\ op = "Add")
         /\ Known(e, spec.variable)
         /\ Stop("IllegalReuse")
      \/ /\ spec.form = "tuple" /\ ~Known(e, spec.variable)
         /\ Step(bound, <<>>, <<>>, <<Open(IF op = "Add" THEN "new" ELSE "removed", s, edit)>>)
      \/ /\ spec.form = "struct" /\ op = "Add" /\ ~Known(e, spec.variable)
         /\ Step(bound, <<Create(s)>>, <<>>, <<Open("object", s, edit)>>)

\* + $v.attribute: spec, or - or ! for a removal
Apply ==
  /\ More /\ InApply
  /\ \E v \in Variables, spec \in Specs, op \in {"Add", "Remove"} :
       IF Known(env, v) THEN AddStep(Bound(env, v), SlotOf(env, v), spec, op)
                        ELSE Stop(ExistingError(v))

ApplyNested ==
  /\ More /\ InValue({"object"})
  /\ \E spec \in Specs : AddStep(env, Inner.slot, spec, "Add")

\* An item of a tuple that is made; no object is made for a tuple to remove.
ApplyItem ==
  /\ More /\ InValue({"new", "removed"})
  /\ \E spec \in Specs :
       LET e == Bound(env, spec.variable)
           s == SlotOf(env, spec.variable)
           known == Known(env, spec.variable)
       IN  \/ spec.form = "literal" /\ Step(env, <<>>, <<Literal>>, <<>>)
           \/ spec.form = "variable" /\ known /\ Step(e, <<>>, <<Slot(s)>>, <<>>)
           \/ spec.form = "variable" /\ ~known /\ Stop(ExistingError(spec.variable))
           \/ spec.form = "enum" /\ Stop("IllegalEnumSpecification")
           \/ spec.form = "struct" /\ Inner.kind = "removed" /\ Stop("IllegalObjectSpecification")
           \/ /\ spec.form = "tuple" \/ (spec.form = "struct" /\ Inner.kind = "new")
              /\ known
              /\ Stop("IllegalReuse")
           \/ /\ spec.form = "tuple" /\ ~known
              /\ Step(e, <<>>, <<Slot(s)>>, <<Open(Inner.kind, s, <<>>)>>)
           \/ /\ spec.form = "struct" /\ Inner.kind = "new" /\ ~known
              /\ Step(e, <<Create(s)>>, <<Slot(s)>>, <<Open("object", s, <<>>)>>)

Conditional == More /\ InApply /\ OpenScope("condition", <<>>)

-----------------------------------------------------------------------------

\* What the parser takes as complete: a choice has two options or more, a
\* calculation an operand, a comparison both sides.
Complete ==
  CASE Inner.kind = "enum"        -> Len(Inner.items) >= 2
    [] Inner.kind = "calculation" -> Inner.items # <<>>
    [] Inner.kind = "comparison"  -> Len(Inner.items) = 2
    [] OTHER                      -> TRUE

CloseValue == status = "compiling" /\ values # <<>> /\ Complete /\ CloseInner

\* Mutant: the branches see what the condition has bound.
CloseConditionSeen ==
  /\ status = "compiling" /\ values = <<>> /\ Scope.kind = "condition"
  /\ lists' = Append(lists, Scope.ops)
  /\ scopes' = Append(Front(scopes), NewScope("then", env, <<>>))
  /\ UNCHANGED <<env, values, size, status>>

\* Condition and branches are each compiled in a copy of the environment.
CloseCondition ==
  /\ status = "compiling" /\ values = <<>> /\ Scope.kind = "condition"
  /\ lists' = Append(lists, Scope.ops)
  /\ scopes' = Append(Front(scopes), NewScope("then", Restored, <<>>))
  /\ env' = Restored
  /\ UNCHANGED <<values, size, status>>

CloseThen ==
  /\ status = "compiling" /\ values = <<>> /\ Scope.kind = "then"
  /\ scopes' = Append(Front(scopes), NewScope("otherwise", Restored, Scope.ops))
  /\ env' = Restored
  /\ UNCHANGED <<values, lists, size, status>>

CloseOtherwise ==
  /\ status = "compiling" /\ values = <<>> /\ Scope.kind = "otherwise"
  /\ scopes' = [Front(scopes) EXCEPT
                  ![Len(scopes) - 1].ops = WithConditional(@, Scope.then, Scope.ops)]
  /\ env' = Restored
  /\ UNCHANGED <<values, lists, size, status>>

\* verify_distinct_bindings and verify_multi_usage
RepeatedNames == {n \in Names : env.instances[n] > 1}

UsedOnce ==
  {i \in DOMAIN env.slots :
     env.slots[i].count = 1 /\ i > Len(InputNames) /\ env.slots[i].name # Wildcard}

Verify ==
  /\ status = "compiling" /\ values = <<>> /\ Scope.kind = "apply"
  /\ status' = IF RepeatedNames # {} THEN "RepeatBindings"
               ELSE IF UsedOnce # {} THEN "SingleBindingUse" ELSE "accepted"
  /\ UNCHANGED <<env, scopes, values, lists, size>>

InputEnv ==
  [slots |-> [i \in 1 .. Len(InputNames) |-> [name |-> InputNames[i], count |-> 1]],
   instances |-> [n \in Names |-> IF n \in Range(InputNames) THEN 1 ELSE 0],
   visible |-> [n \in Names |-> IF n \in Range(InputNames)
                                  THEN (CHOOSE i \in DOMAIN InputNames : InputNames[i] = n) - 1
                                  ELSE NoSlot]]

Init ==
  /\ env = InputEnv
  /\ scopes = <<NewScope("select", env, <<>>)>>
  /\ values = <<>>
  /\ lists = <<>>
  /\ size = 0
  /\ status = "compiling"

Next ==
  \/ SelectBinding \/ SelectAttribute \/ SelectNested \/ SelectItem
  \/ Not \/ Comparison \/ Calculation \/ Operand
  \/ Apply \/ ApplyNested \/ ApplyItem \/ Conditional
  \/ CloseValue \/ CloseNot \/ CloseSelect
  \/ CloseCondition \/ CloseThen \/ CloseOtherwise
  \/ Verify

Spec == Init /\ [][Next]_vars
=============================================================================
