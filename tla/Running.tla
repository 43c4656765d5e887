------------------------------ MODULE Running ------------------------------
(***************************************************************************)
(* The run modes of struct System (src/src/system.rs) and the firing of    *)
(* rules (attempt_rule_firing, splinter_rule and apply_changes of          *)
(* src/src/runtime.rs): run_to_first, run_rule_saturation, run_saturation  *)
(* with their _with_control forms, and run_splinter.                       *)
(*                                                                         *)
(* A transaction is the full copy of the heap that SnapshotSpace promises, *)
(* and a search is one step that meets what Search is checked for: it      *)
(* reports the solutions in order and leaves anything in the other slots   *)
(* its operations write.  Every operation of the apply part is a step.     *)
(***************************************************************************)
EXTENDS Operations

CONSTANTS
  Zero,         \* Value::Int(0), which storage starts with
  IdSequence,   \* what OBJECT_ID_SEQUENCE hands out (its end is a bound)
  Leftover,     \* bound: what searches leave in slots that are no solution's
  Changes,      \* the operations of apply parts, those in branches included
  Needed,       \* the slots each of them reads, whichever branch it takes
  Systems,      \* lists of rules, each with its select and apply operations
  Heaps,        \* the attributes the objects of a space can have at first
  Arguments,    \* the lists of arguments considered
  Limits        \* the total and per-rule limits considered

ASSUME ValuesAssumption ==
  /\ {Zero} \cup Leftover \cup DOMAIN tupleItems \subseteq Value
  /\ \A v, w \in DOMAIN tupleItems : tupleItems[v] = tupleItems[w] => v = w
  /\ IdSequence \in Seq(Object)
ASSUME SpacesAssumption == Heaps \subseteq [Object -> [Attribute -> Seq(Value)]]
ASSUME ArgumentsAssumption ==
  /\ Arguments \subseteq Seq(Object)
  /\ Inputs = 0 .. Cardinality(Inputs) - 1

-----------------------------------------------------------------------------
(* What the compiler makes of the apply part (OpApply).                    *)

Creates(c) == c.op \in {"CreateObject", "CreateTuple"}

\* The slots an operation reads itself.
Uses(c) ==
  CASE c.op = "CreateTuple"       -> SlotsOf(Range(c.items))
    [] c.op \in {"Add", "Remove"} -> {c.binding} \cup SlotsOf({c.value})
    [] OTHER                      -> {}

\* Every operation reads what is known, or what one before it creates.
CreatedBefore(changes, i) ==
  {changes[j].binding : j \in {k \in 1 .. i - 1 : Creates(changes[k])}}

Prepared(changes, known) ==
  \A i \in DOMAIN changes : Needed[changes[i]] \subseteq known \cup CreatedBefore(changes, i)

IsOperand(o) == o.kind # "binding" => o.kind = "value" /\ o.value \in Value

IsSelect(p, known) == p \in Seq(Range(p)) /\ WellFormed(p) /\ BindsFirst(p, known)

\* What is created goes to a slot of its own; what a condition binds is known
\* in neither branch, and what a branch creates is not known after it.
IsChange(c) ==
  /\ c.op \in {"CreateObject", "CreateTuple", "Add", "Remove", "Conditional"}
  /\ Uses(c) \subseteq Needed[c]
  /\ Creates(c) => c.binding \in Binding \ Inputs
  /\ c.op = "CreateTuple" =>
       c.items \in Seq(Range(c.items)) /\ \A o \in Range(c.items) : IsOperand(o)
  /\ c.op \in {"Add", "Remove"} => c.attribute \in Attribute /\ IsOperand(c.value)
  /\ c.op = "Conditional" =>
       /\ IsSelect(c.condition, Needed[c])
       /\ \A branch \in {c.then_apply, c.otherwise_apply} :
            branch \in Seq(Changes) /\ Prepared(branch, Needed[c])

\* What the compiler is shown to make of a rule in text (WrittenOrOwn), but for
\* tuples that have themselves as an item.  Left out are also the rules of a
\* builder whose callbacks hand bindings out.
ASSUME ChangesAssumption ==
  Needed \in [Changes -> SUBSET Binding] /\ \A c \in Changes : IsChange(c)

ASSUME SystemsAssumption ==
  \A rs \in Systems :
    /\ rs \in Seq(Range(rs))
    /\ \A r \in Range(rs) :
         /\ IsSelect(r.select, Inputs)
         /\ r.apply \in Seq(Changes)
         /\ Prepared(r.apply, Visible(r.select))
ASSUME LimitsAssumption == \A l \in Limits : l.total \in Nat /\ l.per_rule \in Nat

VARIABLES
  rules,     \* the rules of the system, in the order they were loaded
  how,       \* the run mode
  args,
  limits,    \* of the control callback of the saturation modes
  heap,      \* what the space shows: a transaction of its own for splinter
  nextId,
  bindings,  \* the storage all rules of the run share
  phase,     \* "call", "rule", "branch", "apply", "refused", "control", or the result
  at,        \* the rule of the system the loop is at
  branch,    \* splinter: the solutions the search has reported
  tx,        \* the transaction and the operations still to be applied to it
  count,     \* run_count or total_count
  perRule,   \* the counts control_limit_per_rule keeps
  collected, \* splinter: what the caller has been given
  last,      \* the rule that fired last, or 0
  fired      \* how often each rule has fired (history)

vars == <<rules, how, args, limits, heap, nextId, bindings, phase, at, branch, tx,
          count, perRule, collected, last, fired>>

Modes == {"first", "rule_saturation", "saturation", "splinter"}

Results == {"done", "fired", "stopped", "invalid"}

\* No transaction of its own is open.
NoTx == [heap |-> <<>>, todo |-> <<>>, first |-> 0]

Init ==
  /\ rules \in Systems
  /\ how \in Modes
  /\ args \in Arguments
  /\ limits \in Limits
  /\ heap \in Heaps
  /\ nextId = 1
  /\ bindings = [b \in Binding |-> Zero]
  /\ phase = "call"
  /\ at = 1
  /\ branch = 0
  /\ tx = NoTx
  /\ count = 0
  /\ perRule = [r \in DOMAIN rules |-> 0]
  /\ collected = <<>>
  /\ last = 0
  /\ fired = [r \in DOMAIN rules |-> 0]

Rule == rules[at]

\* make_bindings_storage: input slots come first.
Storage == [b \in Binding |-> IF b \in Inputs THEN args[b + 1] ELSE Zero]

\* verify_inputs comes before anything else.
Call ==
  /\ phase = "call"
  /\ IF Len(args) = Cardinality(Inputs)
       THEN bindings' = Storage /\ phase' = "rule"
       ELSE phase' = "invalid" /\ UNCHANGED bindings
  /\ UNCHANGED <<heap, nextId, at, branch, tx, count, perRule, collected, last, fired>>

-----------------------------------------------------------------------------
(* The search for a solution.                                              *)

Written(p) == UNION {Writes(p[i]) : i \in DOMAIN p}

\* A search leaves anything in the slots it writes, except in a solution's.
Left(solution, slots, env) ==
  [b \in Binding |-> IF b \in DOMAIN env THEN env[b]
                     ELSE IF b \in slots THEN solution[b] ELSE bindings[b]]

Found == Solutions(Rule.select, bindings, heap)

NoMatch ==
  /\ phase = "rule"
  /\ at <= Len(rules)
  /\ how # "splinter"
  /\ Found = <<>>
  /\ \E env \in [Written(Rule.select) -> Leftover] : bindings' = Left(bindings, {}, env)
  /\ at' = at + 1
  /\ UNCHANGED <<heap, nextId, phase, branch, tx, count, perRule, collected, last, fired>>

\* The solution goes to the apply part, in a transaction that starts as the
\* space (attempt_rule_firing) or as a clone (splinter_rule).
StartApply(solution) ==
  /\ \E env \in [Written(Rule.select) \ Visible(Rule.select) -> Leftover] :
       bindings' = Left(solution, Visible(Rule.select), env)
  /\ tx' = [heap |-> heap, todo |-> Rule.apply, first |-> nextId]
  /\ phase' = "apply"
  /\ UNCHANGED <<heap, nextId, at, count, perRule, collected, last, fired>>

\* find_first_bindings stops the search at the first solution.
Match ==
  /\ phase = "rule"
  /\ at <= Len(rules)
  /\ how # "splinter"
  /\ Found # <<>>
  /\ StartApply(Head(Found))
  /\ UNCHANGED branch

NoRuleLeft ==
  /\ phase = "rule"
  /\ at > Len(rules)
  /\ phase' = "done"
  /\ UNCHANGED <<heap, nextId, bindings, at, branch, tx, count, perRule, collected, last, fired>>

StartSplinter ==
  /\ phase = "rule"
  /\ at <= Len(rules)
  /\ how = "splinter"
  /\ phase' = "branch"
  /\ branch' = 0
  /\ UNCHANGED <<heap, nextId, bindings, at, tx, count, perRule, collected, last, fired>>

NextSolution ==
  /\ phase = "branch"
  /\ branch < Len(Found)
  /\ StartApply(Found[branch + 1])
  /\ branch' = branch + 1

\* Mutant: the loop goes on as if the rule had more.
NoSolutionLeftStays ==
  /\ phase = "branch"
  /\ branch = Len(Found)
  /\ at' = at + 1
  /\ branch' = 0
  /\ UNCHANGED <<heap, nextId, bindings, phase, tx, count, perRule, collected, last, fired>>

NoSolutionLeft ==
  /\ phase = "branch"
  /\ branch = Len(Found)
  /\ \E env \in [Written(Rule.select) -> Leftover] : bindings' = Left(bindings, {}, env)
  /\ at' = at + 1
  /\ branch' = 0
  /\ phase' = "rule"
  /\ UNCHANGED <<heap, nextId, tx, count, perRule, collected, last, fired>>

-----------------------------------------------------------------------------
(* apply_changes, one operation a step.                                    *)

Todo == Head(tx.todo)

Applying(name) == phase = "apply" /\ tx.todo # <<>> /\ Todo.op = name

Go(h, todo) ==
  /\ tx' = [tx EXCEPT !.heap = h, !.todo = todo]
  /\ UNCHANGED phase

\* The transaction keeps what has been applied to it so far.
Refuse == phase' = "refused" /\ UNCHANGED tx

CreateObject ==
  /\ Applying("CreateObject")
  /\ nextId <= Len(IdSequence)
  /\ nextId' = nextId + 1
  /\ bindings' = [bindings EXCEPT ![Todo.binding] = IdSequence[nextId]]
  /\ Go(tx.heap, Tail(tx.todo))
  /\ UNCHANGED <<heap, at, branch, count, perRule, collected, last, fired>>

CreateTuple ==
  /\ Applying("CreateTuple")
  /\ \E v \in DOMAIN tupleItems :
       /\ tupleItems[v] = [i \in DOMAIN Todo.items |-> Operand(Todo.items[i], bindings)]
       /\ bindings' = [bindings EXCEPT ![Todo.binding] = v]
  /\ Go(tx.heap, Tail(tx.todo))
  /\ UNCHANGED <<heap, nextId, at, branch, count, perRule, collected, last, fired>>

\* AddBindingAttribute and AddValueAttribute.
AddAttribute ==
  /\ Applying("Add")
  /\ LET id == bindings[Todo.binding] IN
       IF id \in Object
         THEN Go([tx.heap EXCEPT ![id][Todo.attribute] = Append(@, Operand(Todo.value, bindings))],
                 Tail(tx.todo))
         ELSE Refuse
  /\ UNCHANGED <<heap, nextId, bindings, at, branch, count, perRule, collected, last, fired>>

\* RemoveBindingAttribute and RemoveValueAttribute; RemovalMode::Required.
RemoveAttribute ==
  /\ Applying("Remove")
  /\ LET id == bindings[Todo.binding]
         v == Operand(Todo.value, bindings)
     IN  IF id \in Object /\ (~Todo.required \/ v \in ToSet(tx.heap[id][Todo.attribute]))
           THEN Go([tx.heap EXCEPT ![id][Todo.attribute] = RemoveFirst(@, v)], Tail(tx.todo))
           ELSE Refuse
  /\ UNCHANGED <<heap, nextId, bindings, at, branch, count, perRule, collected, last, fired>>

\* Mutant: the condition is searched in the space.
ConditionalOutside ==
  /\ Applying("Conditional")
  /\ Go(tx.heap, (IF Solutions(Todo.condition, bindings, heap) # <<>>
                    THEN Todo.then_apply ELSE Todo.otherwise_apply) \o Tail(tx.todo))
  /\ UNCHANGED <<heap, nextId, bindings, at, branch, count, perRule, collected, last, fired>>

\* The condition is searched on a copy of the storage, in the transaction as
\* it is by now.
Conditional ==
  /\ Applying("Conditional")
  /\ Go(tx.heap, (IF Solutions(Todo.condition, bindings, tx.heap) # <<>>
                    THEN Todo.then_apply ELSE Todo.otherwise_apply) \o Tail(tx.todo))
  /\ UNCHANGED <<heap, nextId, bindings, at, branch, count, perRule, collected, last, fired>>

-----------------------------------------------------------------------------
(* The end of a firing.                                                    *)

Fire ==
  /\ phase = "apply"
  /\ tx.todo = <<>>
  /\ count' = count + 1
  /\ last' = at
  /\ fired' = [fired EXCEPT ![at] = @ + 1]
  /\ tx' = NoTx
  /\ UNCHANGED <<nextId, bindings, at, branch, perRule>>

\* The transaction's closure returns Some(tx); run_to_first is at its end.
Commit ==
  /\ how # "splinter"
  /\ Fire
  /\ heap' = tx.heap
  /\ phase' = IF how = "first" THEN "fired" ELSE "control"
  /\ UNCHANGED collected

\* The clone goes to the caller, the transaction it was made of stays.
Collect ==
  /\ how = "splinter"
  /\ Fire
  /\ collected' = Append(collected, tx.heap)
  /\ phase' = "control"
  /\ UNCHANGED heap

\* Mutant: a rule that failed is tried again.
AbortRetries ==
  /\ phase = "refused"
  /\ phase' = IF how = "splinter" THEN "branch" ELSE "rule"
  /\ tx' = NoTx
  /\ UNCHANGED <<heap, nextId, bindings, at, branch, count, perRule, collected, last, fired>>

\* The closure returns None, or the clone is dropped.
Abort ==
  /\ phase = "refused"
  /\ IF how = "splinter"
       THEN phase' = "branch" /\ UNCHANGED at
       ELSE phase' = "rule" /\ at' = at + 1
  /\ tx' = NoTx
  /\ UNCHANGED <<heap, nextId, bindings, branch, count, perRule, collected, last, fired>>

-----------------------------------------------------------------------------
(* The callback after a firing.                                            *)

\* Mutant: the total may be exceeded.
TotalExceeded == count > limits.total

\* control_limit_total_and_per_rule: the total comes first, and hides the
\* firing from the counts per rule when it stops the run.
TotalReached == count >= limits.total

Counted == [perRule EXCEPT ![last] = @ + 1]

Stop ==
  /\ phase = "control"
  /\ how # "splinter"
  /\ \/ TotalReached /\ UNCHANGED perRule
     \/ ~TotalReached /\ Counted[last] >= limits.per_rule /\ perRule' = Counted
  /\ phase' = "stopped"
  /\ UNCHANGED <<heap, nextId, bindings, at, branch, tx, count, collected, last, fired>>

Continue ==
  /\ phase = "control"
  /\ how # "splinter"
  /\ ~TotalReached
  /\ Counted[last] < limits.per_rule
  /\ perRule' = Counted
  /\ phase' = "rule"
  /\ at' = IF how = "saturation" THEN 1 ELSE at
  /\ UNCHANGED <<heap, nextId, bindings, branch, tx, count, collected, last, fired>>

\* The collect callback of run_splinter is the caller's own: it may stop after
\* any result, which ends the search and the loop, and the count is returned.
CollectStops ==
  /\ phase = "control"
  /\ how = "splinter"
  /\ phase' = "done"
  /\ UNCHANGED <<heap, nextId, bindings, at, branch, tx, count, perRule, collected, last, fired>>

CollectContinues ==
  /\ phase = "control"
  /\ how = "splinter"
  /\ phase' = "branch"
  /\ UNCHANGED <<heap, nextId, bindings, at, branch, tx, count, perRule, collected, last, fired>>

-----------------------------------------------------------------------------

Next ==
  /\ \/ Call
     \/ NoMatch
     \/ Match
     \/ NoRuleLeft
     \/ StartSplinter
     \/ NextSolution
     \/ NoSolutionLeft
     \/ CreateObject
     \/ CreateTuple
     \/ AddAttribute
     \/ RemoveAttribute
     \/ Conditional
     \/ Commit
     \/ Collect
     \/ Abort
     \/ Stop
     \/ Continue
     \/ CollectStops
     \/ CollectContinues
  /\ UNCHANGED <<rules, how, args, limits>>

Spec == Init /\ [][Next]_vars

\* The code is one thread that runs until the call returns.
FairSpec == Spec /\ WF_vars(Next)

-----------------------------------------------------------------------------
(* Properties.                                                             *)

TypeOK ==
  /\ rules \in Systems
  /\ heap \in [Object -> [Attribute -> Seq(Value)]]
  /\ phase \in {"apply", "refused"} => tx.heap \in [Object -> [Attribute -> Seq(Value)]]
  /\ nextId \in 1 .. Len(IdSequence) + 1
  /\ bindings \in [Binding -> Value]
  /\ phase \in {"call", "rule", "branch", "apply", "refused", "control"} \cup Results
  /\ at \in 1 .. Len(rules) + 1
  /\ phase \in {"apply", "refused", "branch", "control"} => at <= Len(rules)

\* The control helpers keep their word in both saturation modes: no more than
\* the limit of firings in total and of each rule, and one that was let through
\* by a limit of zero.  A run is stopped only when a limit is reached.
WithinLimits ==
  how \in {"rule_saturation", "saturation"} =>
    /\ count <= limits.total \/ count = 1
    /\ \A r \in DOMAIN rules : fired[r] <= limits.per_rule \/ fired[r] = 1
    /\ phase = "stopped" => count >= limits.total \/ fired[last] >= limits.per_rule

\* Under limits every run comes to an end, and splinter without any.
Returns == <>(phase \in Results)
=============================================================================
