----------------------------- MODULE Optimizer -----------------------------
(***************************************************************************)
(* The ordering of the select operations of a rule                         *)
(* (src/src/compiler/optimizer.rs): optimize_select on the rule's select   *)
(* part and then on the condition of each conditional in its apply part.   *)
(* One step places one operation.                                          *)
(*                                                                         *)
(* A list of operations comes as the compiler made it, with the body of a  *)
(* negation in the len places after it.  Which of the operations that can  *)
(* be placed is next depends on costs in the code, over the sixteen        *)
(* cheapest partial orders; here any of them is, so all that the cost may  *)
(* prefer, and whatever is cut, is covered.                                *)
(***************************************************************************)
EXTENDS Operations

CONSTANTS Rules   \* lists of operation lists: select part, then conditions

VARIABLES
  rule,
  at,          \* the list of the rule being ordered
  given,       \* the slots bound before it
  ops,         \* the operations placed
  provided,    \* the slots counted as bound
  scopes,      \* what is open: the whole list, then negations
  nextIndex,   \* sequence of scope indices, shared by all lists of the rule
  compiled,    \* the finished lists
  pc           \* "order", "done" or "panic"

vars == <<rule, at, given, ops, provided, scopes, nextIndex, compiled, pc>>

-----------------------------------------------------------------------------
(* The operations of a list.                                               *)

List == rule[at]

BodyEnd(p, i) == IF i = 0 THEN Len(p) ELSE i + p[i].len

\* The operations directly in a negation, or in the list for i = 0.
Body(p, i) ==
  {j \in i + 1 .. BodyEnd(p, i) :
     \A k \in i + 1 .. j - 1 : p[k].op = "Not" => j > BodyEnd(p, k)}

\* Mutant: assertions are dropped when the slot is bound at all.
RedundantAnyUse(p, body, j) ==
  /\ p[j].op = "AssertObject"
  /\ \E k \in body :
       \/ p[k].op = "Attribute" /\ p[j].binding \in {p[k].binding, p[k].value_binding}
       \/ p[k].op = "AssertObject" /\ p[k].binding = p[j].binding /\ k < j

\* eliminate_object_assertions: another operation of the same body expects an
\* object of the slot, or an earlier assertion does.
Redundant(p, body, j) ==
  /\ p[j].op = "AssertObject"
  /\ \E k \in body :
       /\ p[k].op \in {"Attribute", "Require", "RequireValue", "AssertObject"}
       /\ p[k].binding = p[j].binding
       /\ p[k].op = "AssertObject" => k < j

ToOrder(p, i) == {j \in Body(p, i) : ~Redundant(p, Body(p, i), j)}

\* collect_bindings, for an operation that is no negation.
Mentioned(c) ==
  CASE c.op = "Attribute"   -> {c.binding, c.value_binding}
    [] c.op = "Tuple"       -> {c.binding} \cup SlotsOf(Range(c.items))
    [] c.op = "Calculation" -> {c.binding} \cup Range(c.operands)
    [] OTHER                -> Needs(c)

\* A negation stands for the operations in it.
Under(p, i) == IF p[i].op = "Not" THEN i + 1 .. BodyEnd(p, i) ELSE {i}

MentionedIn(p, positions) == UNION {Mentioned(p[j]) : j \in {k \in positions : p[k].op # "Not"}}

\* Mutant: a negation needs nothing.
RequiredNone(p, i) == {}

\* A negation needs the slots it mentions that are older than it.
Required(p, i) == {b \in MentionedIn(p, Under(p, i)) : b < p[i].mark}

\* A slot that is bound, also by an item before, is compared with.
TupleItem(items, i, bound) ==
  IF items[i].kind # "binding" \/ items[i].binding \in bound
       \/ \E k \in 1 .. i - 1 : items[k] = items[i]
    THEN items[i] ELSE [kind |-> "bind", binding |-> items[i].binding]

\* What an operation becomes when these slots are bound.
Compiled(c, bound) ==
  CASE c.op = "Attribute" ->
         [op |-> IF c.value_binding \in bound THEN "RequireBinding" ELSE "Search",
          binding |-> c.binding, attribute |-> c.attribute, value_binding |-> c.value_binding]
    [] c.op = "Tuple" ->
         [op |-> "Unpack", binding |-> c.binding,
          items |-> [i \in DOMAIN c.items |-> TupleItem(c.items, i, bound)]]
    [] c.op = "Calculation" ->
         [op |-> IF c.binding \in bound THEN "CalculationCompare" ELSE "Calculation",
          binding |-> c.binding, operands |-> c.operands, results |-> c.results]
    [] OTHER -> c

-----------------------------------------------------------------------------
(* What the compiler gives to the optimizer (RuleLists).                   *)

IsItem(item) ==
  /\ item.kind \in {"ignore", "binding", "value"}
  /\ item.kind = "binding" => item \in [kind : {"binding"}, binding : Binding]

IsOperation(c) ==
  /\ c.op \in {"Attribute", "RequireValue", "Require", "AssertObject", "CompareBinding", "Tuple",
              "MatchEnum", "Compare", "Calculation", "Not"}
  /\ c.op # "Not" => Mentioned(c) \subseteq Binding
  /\ c.op = "Attribute" => c.attribute \in Attribute
  /\ c.op = "Tuple" => c.items \in Seq(Range(c.items)) /\ \A i \in DOMAIN c.items : IsItem(c.items[i])
  /\ c.op = "Calculation" => \A x \in DOMAIN c.results : c.results[x] \in Value

\* The body of a negation is in the list, and so are those of the negations in it.
Nests(p, i) ==
  /\ p[i].len \in Nat
  /\ BodyEnd(p, i) <= Len(p)
  /\ \A k \in Under(p, i) : p[k].op = "Not" => BodyEnd(p, k) <= BodyEnd(p, i)

IsList(p) ==
  /\ p \in Seq(Range(p))
  /\ \A i \in DOMAIN p : IsOperation(p[i]) /\ (p[i].op = "Not" => Nests(p, i))

\* The slots of a negation: those it mentions that are not older.
Own(p, i) == {b \in MentionedIn(p, Under(p, i)) : ~(b < p[i].mark)}

\* They are mentioned nowhere else in the list, and those of the select part not
\* in a condition.
Sealed(r) ==
  \A n \in DOMAIN r : \A i \in {k \in DOMAIN r[n] : r[n][k].op = "Not"} :
    /\ Own(r[n], i) \cap MentionedIn(r[n], DOMAIN r[n] \ Under(r[n], i)) = {}
    /\ n = 1 => \A m \in DOMAIN r \ {1} : Own(r[1], i) \cap MentionedIn(r[m], DOMAIN r[m]) = {}

IsRule(r) ==
  /\ r # <<>> /\ r \in Seq(Range(r))
  /\ \A n \in DOMAIN r : IsList(r[n])
  /\ Sealed(r)

ASSUME RulesAssumption == \A r \in Rules : IsRule(r)

-----------------------------------------------------------------------------

Whole(p) == << [not |-> 0, start |-> 0, todo |-> ToOrder(p, 0)] >>

Init ==
  /\ rule \in Rules
  /\ at = 1
  /\ given = Inputs
  /\ ops = <<>>
  /\ provided = Inputs
  /\ scopes = Whole(rule[1])
  /\ nextIndex = 0
  /\ compiled = <<>>
  /\ pc = "order"

Scope == Last(scopes)

\* Mutant: the result of a calculation counts as something it needs.
ReadyWithResult(j) ==
  (IF List[j].op = "Not" THEN Required(List, j) ELSE Mentioned(List[j])) \subseteq provided

Ready(j) ==
  (IF List[j].op = "Not" THEN Required(List, j) ELSE Needs(List[j])) \subseteq provided

Without(j) == [scopes EXCEPT ![Len(scopes)].todo = @ \ {j}]

Place ==
  /\ pc = "order"
  /\ \E j \in Scope.todo :
       /\ List[j].op # "Not"
       /\ Ready(j)
       /\ LET op == Compiled(List[j], provided) IN
            /\ ops' = Append(ops, op)
            /\ provided' = provided \cup Writes(op)
       /\ scopes' = Without(j)
  /\ UNCHANGED <<at, given, nextIndex, compiled, pc>>

\* The body of a negation is ordered next, as a whole.
EnterNot ==
  /\ pc = "order"
  /\ \E j \in Scope.todo :
       /\ List[j].op = "Not"
       /\ Ready(j)
       /\ scopes' = Append(Without(j), [not |-> j, start |-> Len(ops), todo |-> ToOrder(List, j)])
  /\ UNCHANGED <<at, given, ops, provided, nextIndex, compiled, pc>>

\* Mutant: the length does not count the EndNot.
LeaveNotShort ==
  /\ pc = "order"
  /\ Len(scopes) > 1
  /\ Scope.todo = {}
  /\ LET body == Append(SubSeq(ops, Scope.start + 1, Len(ops)), [op |-> "EndNot", index |-> nextIndex])
     IN  ops' = SubSeq(ops, 1, Scope.start)
                  \o <<[op |-> "BeginNot", index |-> nextIndex, sequence_len |-> Len(body) - 1]>>
                  \o body
  /\ scopes' = Front(scopes)
  /\ nextIndex' = nextIndex + 1
  /\ UNCHANGED <<at, given, provided, compiled, pc>>

\* Its EndNot is pushed, then its BeginNot inserted in front of the body.  The
\* slots of the body stay in provided.
LeaveNot ==
  /\ pc = "order"
  /\ Len(scopes) > 1
  /\ Scope.todo = {}
  /\ LET body == Append(SubSeq(ops, Scope.start + 1, Len(ops)), [op |-> "EndNot", index |-> nextIndex])
     IN  ops' = SubSeq(ops, 1, Scope.start)
                  \o <<[op |-> "BeginNot", index |-> nextIndex, sequence_len |-> Len(body)]>>
                  \o body
  /\ scopes' = Front(scopes)
  /\ nextIndex' = nextIndex + 1
  /\ UNCHANGED <<at, given, provided, compiled, pc>>

\* optimize_apply starts each condition with what the select part provides,
\* and drops what the conditions before it have bound.
FinishList ==
  /\ pc = "order"
  /\ Len(scopes) = 1
  /\ Scope.todo = {}
  /\ compiled' = Append(compiled, Append(ops, [op |-> "End"]))
  /\ given' = IF at = 1 THEN provided ELSE given
  /\ IF at < Len(rule)
       THEN /\ at' = at + 1
            /\ ops' = <<>>
            /\ provided' = given'
            /\ scopes' = Whole(rule[at + 1])
            /\ UNCHANGED pc
       ELSE pc' = "done" /\ UNCHANGED <<at, ops, provided, scopes>>
  /\ UNCHANGED nextIndex

\* No candidate is left: assemble_ops returns None, and the expect panics.  For
\* a body the code comes to None with every operation placed first that can be,
\* and then to None for the list; no operation outside can help the body, since
\* what it reads of them is required before it is entered.
NoOrder ==
  /\ pc = "order"
  /\ Scope.todo # {}
  /\ \A j \in Scope.todo : ~Ready(j)
  /\ pc' = "panic"
  /\ UNCHANGED <<at, given, ops, provided, scopes, nextIndex, compiled>>

Next ==
  /\ \/ Place
     \/ EnterNot
     \/ LeaveNot
     \/ FinishList
     \/ NoOrder
  /\ UNCHANGED rule

Spec == Init /\ [][Next]_vars

-----------------------------------------------------------------------------
(* Properties.                                                             *)

\* Whatever order is chosen, the lists are what the search relies on: scopes
\* nested, of the length their BeginNot says, and closed by their own EndNot,
\* no input slot written, no slot bound twice by a tuple.
Compiles == \A i \in DOMAIN compiled : WellFormed(compiled[i])

\* No operation reads a slot that may hold what an earlier rule or a negation
\* left there, and none binds a slot that is bound: the search, which goes back to
\* earlier operations without restoring their slots, relies on both.
BoundFirst ==
  \A n \in DOMAIN compiled :
    BindsFirst(compiled[n], IF n = 1 THEN Inputs ELSE Visible(compiled[1]))

\* There is an order for every rule: expect("select op order solution") does not
\* panic.
OrderFound == pc # "panic"

\* What an operation that is no negation can bind.
Provides(c) ==
  CASE c.op = "Attribute"   -> {c.value_binding}
    [] c.op = "Tuple"       -> SlotsOf(Range(c.items))
    [] c.op = "Calculation" -> {c.binding}
    [] OTHER                -> {}

\* The slots that the operations placed so far could have bound, and those of
\* the lists that are open which wait, but for the innermost.
Obtainable ==
  given \cup UNION {Provides(List[k]) :
    k \in {m \in (UNION {Body(List, scopes[n].not) : n \in DOMAIN scopes}) \ Scope.todo :
            List[m].op # "Not"}}

\* No choice is wrong: when nothing more can be placed, then because each of
\* the operations left reads a slot that only they could bind.  Going back to
\* another order, or to one of those cut after the sixteenth, would not help.
StuckForGood ==
  pc = "panic" =>
    \A j \in Scope.todo :
      \E b \in (IF List[j].op = "Not" THEN Required(List, j) ELSE Needs(List[j])) :
        b \notin Obtainable
=============================================================================
