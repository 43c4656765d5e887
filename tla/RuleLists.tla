----------------------------- MODULE RuleLists -----------------------------
(***************************************************************************)
(* What a rule is made into before its operations are ordered, and the     *)
(* state both ways of making one share (src/src/compiler.rs, cfg_ops.rs):  *)
(* the slots handed out, and the lists of operations under way.            *)
(*                                                                         *)
(* Lists are flat: the body of a negation is in the len places after it,   *)
(* the branches of a conditional in the then_len and otherwise_len places  *)
(* after it; its condition is a select list of its own.  Attribute names   *)
(* and literals are left out.                                              *)
(***************************************************************************)
EXTENDS Integers, SequencesExt

CONSTANTS
  Names,         \* names of variables
  Wildcard,      \* the variable without a name
  InputNames,    \* the names of the inputs, in order
  MaxSlots,      \* how many slots a u16 can count: 65535
  MaxConstructs  \* bound: constructs in a rule

ASSUME NamesAssumption == Wildcard \notin Names
ASSUME InputNamesAssumption ==
  /\ InputNames \in Seq(Names)
  /\ \A i, j \in 1 .. Len(InputNames) : InputNames[i] = InputNames[j] => i = j
ASSUME BoundsAssumption ==
  /\ MaxSlots \in Nat
  /\ MaxConstructs \in Nat
  /\ Len(InputNames) <= MaxSlots

VARIABLES
  env,      \* the slots, and what the names stand for where compilation is
  scopes,   \* the lists under way, the innermost last
  values,   \* what is open in the innermost of them, the innermost last
  lists,    \* the finished select lists: the select part, then conditions
  size,     \* the constructs so far
  status    \* "compiling", "accepted", or why it ended

vars == <<env, scopes, values, lists, size, status>>

NoSlot == -1

Inputs == 0 .. Len(InputNames) - 1

Variables == Names \cup {Wildcard}

-----------------------------------------------------------------------------
(* Operations.                                                             *)

Slot(b) == [kind |-> "binding", binding |-> b]
Literal == [kind |-> "value"]
Ignore == [kind |-> "ignore"]

AttributeOp(b, v) == [op |-> "Attribute", binding |-> b, attribute |-> "any", value_binding |-> v]
Test(op, b) == [op |-> op, binding |-> b]
TupleOp(b, items) == [op |-> "Tuple", binding |-> b, items |-> items]
EnumOp(b, options) == [op |-> "MatchEnum", binding |-> b, options |-> Range(options)]
CompareOp(sides) == [op |-> "Compare", left |-> sides[1], right |-> sides[2]]
\* Which slots are calculated with decides; the formula is left out.
CalculationOp(b, operands) ==
  LET slots == {i \in DOMAIN operands : operands[i].kind = "binding"}
  IN  [op |-> "Calculation", binding |-> b,
       operands |-> SetToSeq({operands[i].binding : i \in slots}), results |-> <<>>]

Create(b) == [op |-> "CreateObject", binding |-> b]
CreateTuple(b, items) == [op |-> "CreateTuple", binding |-> b, items |-> items]
Edit(op, b, value) == [op |-> op, binding |-> b, value |-> value]

WithNot(ops, mark, body) == ops \o <<[op |-> "Not", len |-> Len(body), mark |-> mark]>> \o body

WithConditional(ops, then, otherwise) ==
  ops \o <<[op |-> "Conditional", then_len |-> Len(then), otherwise_len |-> Len(otherwise)]>>
      \o then \o otherwise

-----------------------------------------------------------------------------
(* Slots.  An environment has the slots handed out, with the name each was *)
(* made for and how often the name was used for it; how often each name    *)
(* got a slot; and the slots of the names that are visible.                *)

\* Mutant: slots are counted from one.
ExtendedFromOne(e, name) ==
  [slots |-> Append(e.slots, [name |-> name, count |-> IF name = Wildcard THEN 0 ELSE 1]),
   instances |-> [n \in Names |-> IF n = name THEN e.instances[n] + 1 ELSE e.instances[n]],
   visible |-> [n \in Names |-> IF n = name THEN Len(e.slots) + 1 ELSE e.visible[n]]]

\* Mutant: that a name got a slot is only noted once.
ExtendedUncounted(e, name) ==
  [slots |-> Append(e.slots, [name |-> name, count |-> IF name = Wildcard THEN 0 ELSE 1]),
   instances |-> [n \in Names |-> IF n = name THEN 1 ELSE e.instances[n]],
   visible |-> [n \in Names |-> IF n = name THEN Len(e.slots) ELSE e.visible[n]]]

\* BindingSequence::next, for a name or for no name.
Extended(e, name) ==
  [slots |-> Append(e.slots, [name |-> name, count |-> IF name = Wildcard THEN 0 ELSE 1]),
   instances |-> [n \in Names |-> IF n = name THEN e.instances[n] + 1 ELSE e.instances[n]],
   visible |-> [n \in Names |-> IF n = name THEN Len(e.slots) ELSE e.visible[n]]]

\* A list under way, with what was visible, and how many slots there were,
\* where it began.
NewScope(kind, e, then) ==
  [kind |-> kind, visible |-> e.visible, mark |-> Len(e.slots), ops |-> <<>>, then |-> then]

Scope == Last(scopes)

InSelect == values = <<>> /\ Scope.kind \in {"select", "not", "condition"}
InApply == values = <<>> /\ Scope.kind \in {"apply", "then", "otherwise"}

\* A value specification that is open: the slot of the value, and what is done
\* when it is complete.
Open(kind, b, after) == [kind |-> kind, slot |-> b, items |-> <<>>, after |-> after]

Inner == Last(values)
InValue(kinds) == values # <<>> /\ Inner.kind \in kinds

-----------------------------------------------------------------------------
(* Steps.                                                                  *)

\* The error is returned, and what there is so far is dropped.
Stop(why) ==
  /\ status' = why
  /\ env' = [slots |-> <<>>, instances |-> [n \in Names |-> 0],
             visible |-> [n \in Names |-> NoSlot]]
  /\ scopes' = <<>> /\ values' = <<>> /\ lists' = <<>>
  /\ UNCHANGED size

\* One construct: operations are pushed, items are added to what is open, and
\* something more may be opened.  Out of slots, the expect of next panics.
Step(e, ops, items, open) ==
  IF Len(e.slots) > MaxSlots THEN Stop("panic")
  ELSE /\ env' = e
       /\ scopes' = [scopes EXCEPT ![Len(scopes)].ops = @ \o ops]
       /\ values' = (IF items = <<>> THEN values
                     ELSE [values EXCEPT ![Len(values)].items = @ \o items]) \o open
       /\ size' = size + 1
       /\ UNCHANGED <<lists, status>>

OpenScope(kind, then) ==
  /\ scopes' = Append(scopes, NewScope(kind, env, then))
  /\ size' = size + 1
  /\ UNCHANGED <<env, values, lists, status>>

\* The names are again what they were where the scope began.
Restored == [env EXCEPT !.visible = Scope.visible]

\* The operation of what was open follows those of its parts.
Made ==
  CASE Inner.kind = "tuple"              -> <<TupleOp(Inner.slot, Inner.items)>>
    [] Inner.kind = "enum"               -> <<EnumOp(Inner.slot, Inner.items)>>
    [] Inner.kind = "calculation"        -> <<CalculationOp(Inner.slot, Inner.items)>>
    [] Inner.kind = "comparison"         -> <<CompareOp(Inner.items)>>
    [] Inner.kind \in {"new", "removed"} -> <<CreateTuple(Inner.slot, Inner.items)>>
    [] OTHER                             -> <<>>

CloseInner ==
  /\ scopes' = [scopes EXCEPT ![Len(scopes)].ops = @ \o (Made \o Inner.after)]
  /\ values' = Front(values)
  /\ UNCHANGED <<env, lists, size, status>>

\* Mutant: the names bound in a negation stay.
CloseNotSeen ==
  /\ status = "compiling" /\ values = <<>> /\ Scope.kind = "not"
  /\ scopes' = [Front(scopes) EXCEPT ![Len(scopes) - 1].ops = WithNot(@, Scope.mark, Scope.ops)]
  /\ UNCHANGED <<env, values, lists, size, status>>

CloseNot ==
  /\ status = "compiling" /\ values = <<>> /\ Scope.kind = "not"
  /\ scopes' = [Front(scopes) EXCEPT ![Len(scopes) - 1].ops = WithNot(@, Scope.mark, Scope.ops)]
  /\ env' = Restored
  /\ UNCHANGED <<values, lists, size, status>>

\* The apply part sees what the select part has bound.
CloseSelect ==
  /\ status = "compiling" /\ values = <<>> /\ Scope.kind = "select"
  /\ lists' = <<Scope.ops>>
  /\ scopes' = <<NewScope("apply", env, <<>>)>>
  /\ UNCHANGED <<env, values, size, status>>

More == status = "compiling" /\ size < MaxConstructs

-----------------------------------------------------------------------------
(* Properties.                                                             *)

Handed == 0 .. Len(env.slots) - 1

ItemOf(S) == {Literal, Ignore} \cup [kind : {"binding"}, binding : S]

SelectOperation(S) ==
  [op : {"Attribute"}, binding : S, attribute : {"any"}, value_binding : S]
    \cup [op : {"RequireValue", "Require", "AssertObject", "CompareBinding"}, binding : S]
    \cup [op : {"Tuple"}, binding : S, items : Seq(ItemOf(S))]
    \cup [op : {"MatchEnum"}, binding : S, options : SUBSET ItemOf(S)]
    \cup [op : {"Compare"}, left : ItemOf(S), right : ItemOf(S)]
    \cup [op : {"Calculation"}, binding : S, operands : Seq(S), results : {<<>>}]
    \cup [op : {"Not"}, len : Nat, mark : Nat]

ApplyOperation(S) ==
  [op : {"CreateObject"}, binding : S]
    \cup [op : {"CreateTuple"}, binding : S, items : Seq(ItemOf(S))]
    \cup [op : {"Add", "Remove"}, binding : S, value : ItemOf(S)]
    \cup [op : {"Conditional"}, then_len : Nat, otherwise_len : Nat]

Ops(S) == Seq(SelectOperation(S) \cup ApplyOperation(S))

ScopeFrame(S) ==
  [kind : {"select", "not", "condition", "apply", "then", "otherwise"},
   visible : [Names -> S \cup {NoSlot}], mark : Nat, ops : Ops(S), then : Ops(S)]

\* A comparison is made for no slot.
ValueFrame(S) ==
  [kind : {"struct", "object", "tuple", "enum", "calculation", "new", "removed"},
   slot : S, items : Seq(ItemOf(S)), after : Ops(S)]
    \cup [kind : {"comparison"}, slot : {NoSlot}, items : Seq(ItemOf(S)), after : Ops(S)]

\* The slots can be counted with a u16, and no operation, item or name has one
\* that was not handed out: the storage of a rule's bindings, bindings_len long,
\* has a place for each of them.
TypeOK ==
  /\ env \in [slots : Seq([name : Variables, count : Nat]),
             instances : [Names -> Nat],
             visible : [Names -> Handed \cup {NoSlot}]]
  /\ Len(env.slots) <= MaxSlots
  /\ scopes \in Seq(ScopeFrame(Handed))
  /\ status \in {"compiling", "accepted"} => scopes # <<>>
  /\ values \in Seq(ValueFrame(Handed))
  /\ lists \in Seq(Ops(Handed))
  /\ size \in Nat
  /\ status \in {"compiling", "accepted", "panic", "ExistingBindingRequired", "IllegalWildcard",
                 "IllegalReuse", "IllegalBindingMatch", "IllegalNamedBinding",
                 "IllegalEnumSpecification", "IllegalObjectSpecification",
                 "RepeatBindings", "SingleBindingUse"}

\* Two slots of a rule that is not refused for it are not made for the same
\* name, however scopes that forget their names again come between them: what
\* looks like one variable is one.
OneSlotPerName ==
  status \in {"accepted", "SingleBindingUse"} =>
    \A i, j \in DOMAIN env.slots :
      env.slots[i].name = env.slots[j].name /\ env.slots[i].name # Wildcard => i = j
=============================================================================
