------------------------------- MODULE Firing -------------------------------
(***************************************************************************)
(* What the run modes of System promise: a rule fires as one step, for a   *)
(* solution found with nothing but the arguments bound, all of its apply   *)
(* part or nothing happens, and the run mode says which rules may fire.    *)
(***************************************************************************)
EXTENDS Operations

CONSTANTS Zero, IdSequence, Changes

VARIABLES rules, how, args, limits,
  heap,
  nextId,      \* attempts that come to nothing may have used ids
  tried,       \* what a rule that was passed over may have begun with
  at, branch,  \* splinter: the solutions of earlier rules, and of this one
  status,      \* "called", "running", "asked", or the result
  count, last, fired, collected

vars == <<rules, how, args, limits, heap, nextId, at, branch, status, count, last, fired, collected>>

Fresh == [b \in Binding |-> IF b \in Inputs THEN args[b + 1] ELSE Zero]

SolutionsOf(r) == Solutions(rules[r].select, Fresh, heap)

-----------------------------------------------------------------------------
(* The outcome of an apply part.                                           *)

States ==
  [todo : Seq(Changes), env : [Binding -> Value], heap : [Object -> [Attribute -> Seq(Value)]],
   nextId : Nat \ {0}, ok : BOOLEAN]

\* All of it has been applied, or an operation has failed.
Over(s) == s.todo = <<>> \/ ~s.ok

Failed(s) == [s EXCEPT !.ok = FALSE]

Item(s) == Operand(Head(s.todo).value, s.env)

\* The values an attribute has after an operation on it.
Changed(s, values) ==
  [s EXCEPT !.todo = Tail(@), !.heap[s.env[Head(s.todo).binding]][Head(s.todo).attribute] = values]

Bound(s, v, used) ==
  [s EXCEPT !.todo = Tail(@), !.env[Head(s.todo).binding] = v, !.nextId = @ + used]

\* One operation.  Ids and tuples are bounded.
Once(s) ==
  LET op == Head(s.todo)
      values == s.heap[s.env[op.binding]][op.attribute]
      made == {v \in DOMAIN tupleItems :
                 tupleItems[v] = [i \in DOMAIN op.items |-> Operand(op.items[i], s.env)]}
  IN CASE op.op = "CreateObject" ->
            IF s.nextId > Len(IdSequence) THEN Failed(s) ELSE Bound(s, IdSequence[s.nextId], 1)
       [] op.op = "CreateTuple" ->
            IF made = {} THEN Failed(s) ELSE Bound(s, CHOOSE v \in made : TRUE, 0)
       [] op.op = "Add" ->
            IF s.env[op.binding] \notin Object THEN Failed(s) ELSE Changed(s, Append(values, Item(s)))
       [] op.op = "Remove" ->
            IF s.env[op.binding] \notin Object \/ (op.required /\ Item(s) \notin ToSet(values))
              THEN Failed(s) ELSE Changed(s, RemoveFirst(values, Item(s)))
       [] op.op = "Conditional" ->
            [s EXCEPT !.todo = (IF Solutions(op.condition, s.env, s.heap) = <<>>
                                  THEN op.otherwise_apply ELSE op.then_apply) \o Tail(@)]

Apply[s \in States] == IF Over(s) THEN s ELSE Apply[Once(s)]

\* What applying a rule for its k-th solution comes to.
Attempt(r, k, id) ==
  Apply[[todo |-> rules[r].apply, env |-> SolutionsOf(r)[k], heap |-> heap, nextId |-> id, ok |-> TRUE]]

Result(r, k) == Attempt(r, k, nextId)

\* Only the first solution is tried.
CanFire(r, id) == SolutionsOf(r) # <<>> /\ Attempt(r, 1, id).ok

PassedOver(r) == \E id \in tried : ~CanFire(r, id)

-----------------------------------------------------------------------------

Init ==
  /\ nextId = 1
  /\ status = "called"
  /\ at = 1
  /\ branch = 0
  /\ count = 0
  /\ last = 0
  /\ fired = [r \in DOMAIN rules |-> 0]
  /\ collected = <<>>

\* Nothing is run unless there is an argument for each input.
Start ==
  /\ status = "called"
  /\ status' = IF Len(args) = Cardinality(Inputs) THEN "running" ELSE "invalid"
  /\ UNCHANGED <<heap, nextId, at, branch, count, last, fired, collected>>

\* The first rule a run mode may fire next: saturation starts over after a
\* firing, rule saturation goes on with the same rule.
From == IF how = "rule_saturation" /\ last # 0 THEN last ELSE 1

LimitReached ==
  last # 0 /\ (count >= limits.total \/ fired[last] >= limits.per_rule)

FireRule(r) ==
  /\ last' = r
  /\ count' = count + 1
  /\ fired' = [fired EXCEPT ![r] = @ + 1]
  /\ UNCHANGED at

Fire ==
  /\ status = "running"
  /\ how # "splinter"
  /\ ~LimitReached
  /\ \E r \in From .. Len(rules) :
       /\ CanFire(r, nextId)
       /\ \A q \in From .. r - 1 : PassedOver(q)
       /\ heap' = Result(r, 1).heap
       /\ nextId' = Result(r, 1).nextId
       /\ FireRule(r)
  /\ status' = IF how = "first" THEN "fired" ELSE status
  /\ UNCHANGED <<branch, collected>>

\* A run ends by itself when no rule can fire that it may fire next.
Finish ==
  /\ status = "running"
  /\ IF how = "splinter" THEN at > Len(rules)
                         ELSE ~LimitReached /\ \A r \in From .. Len(rules) : PassedOver(r)
  /\ status' = "done"
  /\ UNCHANGED <<heap, nextId, at, branch, count, last, fired, collected>>

Stop ==
  /\ status = "running"
  /\ how # "splinter"
  /\ LimitReached
  /\ status' = "stopped"
  /\ UNCHANGED <<heap, nextId, at, branch, count, last, fired, collected>>

\* An attempt that comes to nothing.
LoseIds ==
  /\ status = "running"
  /\ how # "splinter"
  /\ nextId' > nextId
  /\ UNCHANGED <<heap, at, branch, status, count, last, fired, collected>>

\* Splinter: every solution of every rule gives a result of its own from the
\* same heap, in order, unless its apply part fails.
Produce ==
  /\ status = "running"
  /\ how = "splinter"
  /\ at <= Len(rules)
  /\ branch < Len(SolutionsOf(at))
  /\ branch' = branch + 1
  /\ IF Result(at, branch').ok
       THEN /\ collected' = Append(collected, Result(at, branch').heap)
            /\ FireRule(at)
            /\ status' = "asked"
       ELSE UNCHANGED <<at, status, count, last, fired, collected>>
  /\ nextId' = Result(at, branch').nextId
  /\ UNCHANGED heap

\* After every result the caller may end the run, which returns like any other.
Answer ==
  /\ status = "asked"
  /\ status' \in {"running", "done"}
  /\ UNCHANGED <<heap, nextId, at, branch, count, last, fired, collected>>

NextRule ==
  /\ status = "running"
  /\ how = "splinter"
  /\ at <= Len(rules)
  /\ branch = Len(SolutionsOf(at))
  /\ at' = at + 1
  /\ branch' = 0
  /\ UNCHANGED <<heap, nextId, status, count, last, fired, collected>>

Next ==
  /\ Start \/ Fire \/ Finish \/ Stop \/ LoseIds \/ Produce \/ Answer \/ NextRule
  /\ UNCHANGED <<rules, how, args, limits>>

Spec == Init /\ [][Next]_vars
=============================================================================
