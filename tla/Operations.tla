----------------------------- MODULE Operations -----------------------------
(***************************************************************************)
(* The compiled select operations of a rule (src/src/compiler/ops.rs),     *)
(* what each of them does when search_bindings of src/src/runtime.rs comes *)
(* to it, and the solutions they have together.  Pure operators: heap is   *)
(* what the space shows, an environment what the bindings storage holds.   *)
(*                                                                         *)
(* Positions in operation lists are counted from 1.  The value comparisons *)
(* and calculations of the operations are part of the operations here.     *)
(***************************************************************************)
EXTENDS Integers, SequencesExt

CONSTANTS
  Binding,     \* slots of the bindings storage
  Inputs,      \* the slots the caller's arguments are in
  Attribute,   \* attribute names
  Value,
  Object,      \* the values that are objects
  tupleItems   \* the items of the values that are tuples

ASSUME InputsAssumption == Inputs \subseteq Binding
ASSUME ObjectAssumption == Object \subseteq Value
ASSUME TupleAssumption == \A v \in DOMAIN tupleItems : tupleItems[v] \in Seq(Value)

ValuesOf(heap, v, attribute) == IF v \in Object THEN heap[v][attribute] ELSE <<>>

\* The operand of a comparison: a slot or a value written in the rule.
Operand(o, env) == IF o.kind = "binding" THEN env[o.binding] ELSE o.value

\* A calculation is a partial function of the slots it reads: arithmetic on
\* values that are no numbers, overflow and division by zero have no result.
Operands(op, env) == [i \in DOMAIN op.operands |-> env[op.operands[i]]]

\* The operations that only test what is bound.
Tests == {"AssertObject", "RequireBinding", "RequireValue", "Require",
          "CompareBinding", "MatchEnum", "Compare", "CalculationCompare"}

Passes(op, env, heap) ==
  LET it == env[op.binding]
      values == ToSet(ValuesOf(heap, it, op.attribute)) IN
  CASE op.op = "AssertObject"   -> it \in Object
    [] op.op = "RequireBinding" -> env[op.value_binding] \in values
    [] op.op = "RequireValue"   -> op.value \in values
    [] op.op = "Require"        -> values # {}
    [] op.op = "CompareBinding" -> it = op.value
    [] op.op = "MatchEnum"      -> \E o \in op.options : it = Operand(o, env)
    [] op.op = "Compare"        -> <<Operand(op.left, env), Operand(op.right, env)>> \in op.holds
    [] op.op = "CalculationCompare" ->
         Operands(op, env) \in DOMAIN op.results /\ it = op.results[Operands(op, env)]

\* UnpackTupleBinding goes through the items in order.  When it comes to item
\* n + 1 the slots of the items before have been bound, and stay bound when
\* an item does not match; later items can compare with them.
Binds(item, b) == item.kind = "bind" /\ item.binding = b

After(op, items, n, env) ==
  [b \in Binding |->
     IF \E k \in DOMAIN items : k <= n /\ Binds(op.items[k], b)
       THEN items[CHOOSE k \in DOMAIN items : k <= n /\ Binds(op.items[k], b)]
       ELSE env[b]]

ItemMatches(item, v, env) ==
  \/ item.kind \in {"ignore", "bind"}
  \/ item.kind = "binding" /\ env[item.binding] = v
  \/ item.kind = "value" /\ item.value = v

Unpacked(op, env) ==
  LET items == tupleItems[env[op.binding]]
      bad == {n \in DOMAIN items :
                ~ItemMatches(op.items[n], items[n], After(op, items, n - 1, env))}
  IN  [matched |-> bad = {},
       env |-> After(op, items, IF bad = {} THEN Len(items) ELSE Min(bad), env)]

CanUnpack(op, env) ==
  /\ env[op.binding] \in DOMAIN tupleItems
  /\ Len(tupleItems[env[op.binding]]) = Len(op.items)

-----------------------------------------------------------------------------
(* What the compiler makes: one End, at the end; every BeginNot knows how  *)
(* far its EndNot is, scopes are nested, and each has an index of its own. *)

IsBegin(p, b) == b \in DOMAIN p /\ p[b].op = "BeginNot"

EndOf(p, b) == b + p[b].sequence_len

\* The indices of the scopes an operation is in, their EndNot included.
Scopes(p, i) == {p[b].index : b \in {c \in 1 .. i - 1 : IsBegin(p, c) /\ i <= EndOf(p, c)}}

\* The slots an operation may write.
Writes(op) ==
  CASE op.op = "Search"      -> {op.value_binding}
    [] op.op = "Calculation" -> {op.binding}
    [] op.op = "Unpack"      -> {item.binding : item \in {it \in ToSet(op.items) : it.kind = "bind"}}
    [] OTHER                 -> {}

SlotsOf(operands) == {o.binding : o \in {x \in operands : x.kind = "binding"}}

\* The slots an operation reads, whatever else it comes to.
Needs(c) ==
  CASE c.op = "MatchEnum"   -> {c.binding} \cup SlotsOf(c.options)
    [] c.op = "Compare"     -> SlotsOf({c.left, c.right})
    [] c.op = "Calculation" -> Range(c.operands)
    [] OTHER                -> {c.binding}

\* The items that are compared with a slot which no item before them binds.
Compares(items) ==
  {n \in DOMAIN items :
     /\ items[n].kind = "binding"
     /\ ~\E i \in 1 .. n - 1 : Binds(items[i], items[n].binding)}

\* The slots a compiled operation reads before it writes any.
Reads(op) ==
  CASE op.op \in {"Search", "RequireValue", "Require", "AssertObject", "CompareBinding"} -> {op.binding}
    [] op.op = "RequireBinding"     -> {op.binding, op.value_binding}
    [] op.op = "CalculationCompare" -> {op.binding} \cup Range(op.operands)
    [] op.op = "Unpack" ->
         {op.binding} \cup {op.items[n].binding : n \in Compares(op.items)}
    [] op.op \in {"BeginNot", "EndNot", "End"} -> {}
    [] OTHER -> Needs(op)

\* What has been bound for certain when a list comes to position i: a scope
\* that has been left has bound nothing.
BoundAt(p, i, before) ==
  before \cup UNION {Writes(p[j]) : j \in {k \in 1 .. i - 1 : Scopes(p, k) \subseteq Scopes(p, i)}}

\* No operation reads a slot that may hold what an earlier rule or a negation
\* left there, and none binds a slot again.
BindsFirst(p, before) ==
  \A i \in DOMAIN p :
    /\ Reads(p[i]) \subseteq BoundAt(p, i, before)
    /\ Writes(p[i]) \cap BoundAt(p, i, before) = {}

\* Every scope ends in the list, after the scopes that begin in it.
ScopeEnds(p, b) ==
  /\ p[b].sequence_len \in Nat
  /\ EndOf(p, b) \in DOMAIN p
  /\ p[EndOf(p, b)].op = "EndNot"
  /\ \A c \in b + 1 .. EndOf(p, b) : IsBegin(p, c) => EndOf(p, c) < EndOf(p, b)

Kinds == Tests \cup {"Search", "Unpack", "Calculation", "BeginNot", "EndNot", "End"}

\* The slots written are the rule's own, an item binds a slot only when no item
\* before it does, and what is calculated is a value.
Typed(op) ==
  /\ op.op \in Kinds
  /\ Writes(op) \subseteq Binding \ Inputs
  /\ op.op = "Search" => op.attribute \in Attribute
  /\ op.op = "Calculation" => \A x \in DOMAIN op.results : op.results[x] \in Value
  /\ op.op = "Unpack" =>
       /\ op.items \in Seq(Range(op.items))
       /\ \A i, j \in DOMAIN op.items :
            op.items[i].kind = "bind" /\ Binds(op.items[j], op.items[i].binding) => i = j

\* The EndNot at e is the one of the BeginNot at b.
Closes(p, b, e) == IsBegin(p, b) /\ EndOf(p, b) = e /\ p[b].index = p[e].index

WellFormed(p) ==
  /\ p # <<>>
  /\ \A i \in DOMAIN p : p[i].op = "End" <=> i = Len(p)
  /\ \A b \in DOMAIN p : IsBegin(p, b) => ScopeEnds(p, b) /\ p[b].index \in Nat
  /\ \A e \in DOMAIN p : p[e].op = "EndNot" => \E b \in 1 .. e - 1 : Closes(p, b, e)
  /\ \A b, c \in DOMAIN p : IsBegin(p, b) /\ IsBegin(p, c) /\ p[b].index = p[c].index => b = c
  /\ \A i \in DOMAIN p : Typed(p[i])

\* The slots of the rule's variables: inputs and what is bound in no scope.
Visible(p) ==
  Inputs \cup UNION {Writes(p[i]) : i \in {j \in DOMAIN p : Scopes(p, j) = {}}}

-----------------------------------------------------------------------------
(* The environments that satisfy a list of operations, in the order of the *)
(* values in the space.  A scope is satisfied when its EndNot is reached.  *)

\* What an operation finds, given what is found from the later ones on.
Continued(from, p, i, e, heap) ==
  LET op == p[i]
      values == ValuesOf(heap, e[op.binding], op.attribute)
  IN CASE op.op \in {"End", "EndNot"} -> <<e>>
       [] op.op \in Tests -> IF Passes(op, e, heap) THEN from[i + 1][e] ELSE <<>>
       [] op.op = "Search" ->
            FlattenSeq([k \in DOMAIN values |->
                          from[i + 1][[e EXCEPT ![op.value_binding] = values[k]]]])
       [] op.op = "Unpack" ->
            IF CanUnpack(op, e) /\ Unpacked(op, e).matched
              THEN from[i + 1][Unpacked(op, e).env] ELSE <<>>
       [] op.op = "Calculation" ->
            IF Operands(op, e) \in DOMAIN op.results
              THEN from[i + 1][[e EXCEPT ![op.binding] = op.results[Operands(op, e)]]]
              ELSE <<>>
       [] op.op = "BeginNot" ->
            IF from[i + 1][e] = <<>> THEN from[EndOf(p, i) + 1][e] ELSE <<>>

SolutionsFrom(p, heap) ==
  LET from[i \in DOMAIN p] == [e \in [Binding -> Value] |-> Continued(from, p, i, e, heap)]
  IN  from

Solutions(p, env, heap) == SolutionsFrom(p, heap)[1][env]
=============================================================================
