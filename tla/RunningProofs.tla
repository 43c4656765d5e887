--------------------------- MODULE RunningProofs ---------------------------
(***************************************************************************)
(* The control helpers limit every run, and rules fire one at a time and   *)
(* as a whole, for all systems, rules, spaces, arguments and limits.       *)
(***************************************************************************)
EXTENDS RunningRefinement, SequenceTheorems, TLAPS

-----------------------------------------------------------------------------
(* What is proved of the solutions of a list of operations.                *)

S ==
  INSTANCE SearchProofs WITH
    Scratch <- {}, Leftover <- {}, Applied <- {}, Programs <- {}, Heaps <- {},
    ops <- <<>>, heap <- <<>>, bindings <- <<>>, pc <- 1, frames <- <<>>, mode <- "op", found <- <<>>

Envs == [Binding -> Value]

LEMMA SolutionsInSearch ==
  ASSUME NEW p, NEW e, NEW h
  PROVE  S!Solutions(p, e, h) = Solutions(p, e, h)
BY Zenon DEF S!Solutions, Solutions, S!SolutionsFrom, SolutionsFrom, S!Continued, Continued,
   S!ValuesOf, ValuesOf, S!Tests, Tests, S!Passes, Passes, S!Operand, Operand, S!Operands, Operands,
   S!CanUnpack, CanUnpack, S!Unpacked, Unpacked, S!After, After, S!Binds, Binds, S!ItemMatches, ItemMatches,
   S!EndOf, EndOf, S!FlattenSeq, FlattenSeq, S!ToSet, ToSet, S!Min, Min

LEMMA SolutionsInFiring ==
  ASSUME NEW p, NEW e, NEW h
  PROVE  Abstract!Solutions(p, e, h) = Solutions(p, e, h)
BY Zenon DEF Abstract!Solutions, Solutions, Abstract!SolutionsFrom, SolutionsFrom, Abstract!Continued, Continued,
   Abstract!ValuesOf, ValuesOf, Abstract!Tests, Tests, Abstract!Passes, Passes, Abstract!Operand, Operand, Abstract!Operands, Operands,
   Abstract!CanUnpack, CanUnpack, Abstract!Unpacked, Unpacked, Abstract!After, After, Abstract!Binds, Binds, Abstract!ItemMatches, ItemMatches,
   Abstract!EndOf, EndOf, Abstract!FlattenSeq, FlattenSeq, Abstract!ToSet, ToSet, Abstract!Min, Min

LEMMA ListsInSearch ==
  ASSUME NEW p, NEW known
  PROVE  /\ S!WellFormed(p) <=> WellFormed(p)
         /\ S!BindsFirst(p, known) <=> BindsFirst(p, known)
         /\ S!Visible(p) = Visible(p)
<1>1. ASSUME NEW op
      PROVE  S!Writes(op) = Writes(op) /\ S!Reads(op) = Reads(op) /\ (S!Typed(op) <=> Typed(op))
  <2>1. S!Writes(op) = Writes(op)
    BY Zenon DEF S!Writes, Writes, S!ToSet, ToSet
  <2>2. S!Reads(op) = Reads(op)
    BY Zenon DEF S!Reads, Reads, S!Compares, Compares, S!Needs, Needs, S!SlotsOf, SlotsOf,
                 S!Range, Range, S!Binds, Binds
  <2>3. S!Typed(op) <=> Typed(op)
    BY <2>1, Zenon DEF S!Typed, Typed, S!Kinds, Kinds, S!Tests, Tests, S!Range, Range, S!Binds, Binds
  <2> QED BY <2>1, <2>2, <2>3
<1>2. /\ \A i : S!Scopes(p, i) = Scopes(p, i)
      /\ \A i : S!IsBegin(p, i) <=> IsBegin(p, i)
      /\ \A i : S!ScopeEnds(p, i) <=> ScopeEnds(p, i)
      /\ \A i, j : S!Closes(p, i, j) <=> Closes(p, i, j)
  BY Zenon DEF S!Scopes, Scopes, S!IsBegin, IsBegin, S!EndOf, EndOf, S!ScopeEnds, ScopeEnds,
               S!Closes, Closes
<1>3. \A i : S!BoundAt(p, i, known) = BoundAt(p, i, known)
  BY <1>1, <1>2 DEF S!BoundAt, BoundAt
<1>4. S!WellFormed(p) <=> WellFormed(p)
  BY <1>1, <1>2, Zenon DEF S!WellFormed, WellFormed
<1>5. S!BindsFirst(p, known) <=> BindsFirst(p, known)
  BY <1>1, <1>3 DEF S!BindsFirst, BindsFirst
<1>6. S!Visible(p) = Visible(p)
  BY <1>1, <1>2 DEF S!Visible, Visible
<1> QED
  BY <1>4, <1>5, <1>6

LEMMA SearchAssumptions ==
  /\ Inputs \subseteq Binding /\ Object \subseteq Value
  /\ \A v \in DOMAIN tupleItems : tupleItems[v] \in Seq(Value)
  /\ {} \subseteq Binding \ Inputs /\ {} \subseteq Value
  BY InputsAssumption, ObjectAssumption, TupleAssumption

Alike(e, f, slots) == \A b \in slots : e[b] = f[b]

Spaces == [Object -> [Attribute -> Seq(Value)]]

LEMMA Finds ==
  ASSUME NEW known, NEW p, IsSelect(p, known), NEW h \in Spaces, NEW e \in Envs
  PROVE  Solutions(p, e, h) \in Seq({x \in Envs : Alike(x, e, Inputs)})
<1>1. S!IsProgram(p)
  BY ListsInSearch DEF S!IsProgram, IsSelect, S!Range, Range
<1>2. S!IsHeap(h) /\ e \in S!Envs
  BY DEF S!IsHeap, Spaces, Envs, S!Envs
<1>3. S!Solutions(p, e, h) \in Seq(S!WithInputsOf(e))
  BY <1>1, <1>2, SearchAssumptions, S!FoundType
<1>4. S!WithInputsOf(e) = {x \in Envs : Alike(x, e, Inputs)}
  BY DEF S!WithInputsOf, S!Envs, Envs, S!Alike, Alike
<1> QED BY <1>3, <1>4, SolutionsInSearch

LEMMA FindsSame ==
  ASSUME NEW known, known \subseteq Binding, NEW p, IsSelect(p, known), NEW h \in Spaces,
         NEW e \in Envs, NEW f \in Envs, Alike(e, f, known)
  PROVE  /\ S!SameFor(Solutions(p, e, h), Solutions(p, f, h), known)
         /\ known = Inputs => S!SameFor(Solutions(p, e, h), Solutions(p, f, h), Visible(p))
<1>1. S!IsProgram(p) /\ S!BindsFirst(p, known)
  BY ListsInSearch DEF S!IsProgram, IsSelect, S!Range, Range
<1>2. S!IsHeap(h) /\ e \in S!Envs /\ f \in S!Envs /\ S!Alike(e, f, known)
  BY DEF S!IsHeap, Spaces, Envs, S!Envs, S!Alike, Alike
<1>3. /\ S!SameFor(S!Solutions(p, e, h), S!Solutions(p, f, h), known)
      /\ known = Inputs => S!SameFor(S!Solutions(p, e, h), S!Solutions(p, f, h), S!Visible(p))
  BY <1>1, <1>2, SearchAssumptions, S!FoundAlike
<1> QED BY <1>3, SolutionsInSearch, ListsInSearch

\* The solutions for the same arguments are alike in what can be used of them.
LEMMA FindsAlike ==
  ASSUME NEW p, IsSelect(p, Inputs), NEW h \in Spaces,
         NEW e \in Envs, NEW f \in Envs, Alike(e, f, Inputs)
  PROVE  /\ Len(Solutions(p, e, h)) = Len(Solutions(p, f, h))
         /\ \A k \in 1 .. Len(Solutions(p, e, h)) :
              Alike(Solutions(p, e, h)[k], Solutions(p, f, h)[k], Visible(p))
<1>1. S!SameFor(Solutions(p, e, h), Solutions(p, f, h), Visible(p))
  BY FindsSame, InputsAssumption
<1> QED BY <1>1 DEF S!SameFor, S!Alike, Alike

\* Whether there is a solution depends on what is known.
LEMMA FindsAsMany ==
  ASSUME NEW known, known \subseteq Binding, NEW p, IsSelect(p, known), NEW h \in Spaces,
         NEW e \in Envs, NEW f \in Envs, Alike(e, f, known)
  PROVE  Solutions(p, e, h) = <<>> <=> Solutions(p, f, h) = <<>>
<1>1. Len(Solutions(p, e, h)) = Len(Solutions(p, f, h))
  BY FindsSame DEF S!SameFor
<1>2. /\ Solutions(p, e, h) \in Seq({x \in Envs : Alike(x, e, Inputs)})
      /\ Solutions(p, f, h) \in Seq({x \in Envs : Alike(x, f, Inputs)})
  BY Finds
<1> QED BY <1>1, <1>2, EmptySeq

LEMMA RemoveFirstType ==
  ASSUME NEW V, NEW s \in Seq(V), NEW v
  PROVE  RemoveFirst(s, v) \in Seq(V)
<1> DEFINE i == SelectInSeq(s, LAMBDA w : w = v)
           I == {k \in 1 .. Len(s) : s[k] = v}
<1>1. CASE I # {}
  <2>1. RemoveFirst(s, v) = RemoveAt(s, i)
    BY <1>1 DEF RemoveFirst
  <2>2. i \in 1 .. Len(s)
    <3>1. i = Min(I)
      BY <1>1 DEF SelectInSeq
    <3> HIDE DEF i
    <3>2. I \in SUBSET Nat
      OBVIOUS
    <3>3. \E m \in I : \A k \in I : m <= k
      BY <1>1, <3>2, SearchAssumptions, S!Least
    <3>4. Min(I) \in I
      BY <3>3, Zenon DEF Min
    <3> QED BY <3>1, <3>4
  <2> HIDE DEF i
  <2>3. RemoveAt(s, i) = SubSeq(s, 1, i - 1) \o SubSeq(s, i + 1, Len(s))
    BY DEF RemoveAt
  <2>4. /\ \A k \in 1 .. i - 1 : s[k] \in V
        /\ \A k \in i + 1 .. Len(s) : s[k] \in V
        /\ 1 \in Int /\ i - 1 \in Int /\ i + 1 \in Int /\ Len(s) \in Int
    BY <2>2, ElementOfSeq, LenProperties
  <2>5. SubSeq(s, 1, i - 1) \in Seq(V) /\ SubSeq(s, i + 1, Len(s)) \in Seq(V)
    BY <2>4, SubSeqProperties
  <2> QED BY <2>1, <2>3, <2>5, ConcatProperties
<1>2. CASE I = {}
  BY <1>2 DEF RemoveFirst
<1> QED BY <1>1, <1>2

-----------------------------------------------------------------------------
(* The counters of the run.                                                *)

Phases == {"call", "rule", "branch", "apply", "refused", "control"} \cup Results

\* The counters, and where the loop over the rules is.
Shape ==
  /\ limits.total \in Nat /\ limits.per_rule \in Nat
  /\ DOMAIN rules = 1 .. Len(rules) /\ Len(rules) \in Nat
  /\ how \in Modes
  /\ phase \in Phases
  /\ at \in 1 .. Len(rules) + 1
  /\ phase \in {"apply", "refused", "branch", "control"} => at \in DOMAIN rules
  /\ phase = "control" => last \in DOMAIN rules
  /\ branch \in Nat
  /\ count \in Nat
  /\ perRule \in [DOMAIN rules -> Nat]
  /\ fired \in [DOMAIN rules -> Nat]

\* The counts the per-rule helper has made are below its limit.
Below == \A r \in DOMAIN rules : perRule[r] = 0 \/ perRule[r] < limits.per_rule

\* Between firings there is room for one more; the callback's counts are those
\* of the firings, except for the one it is about to be told of.
Room ==
  /\ phase \notin {"control", "stopped"} =>
       fired = perRule /\ Below /\ (count = 0 \/ count < limits.total)
  /\ phase = "control" =>
       fired = Counted /\ Below /\ (count = 1 \/ count <= limits.total)

\* The modes that take a control callback.
Controlled == how \in {"rule_saturation", "saturation"}

IInv == Shape /\ (Controlled => Room) /\ WithinLimits

-----------------------------------------------------------------------------

\* The parts of the state the invariant is about.
counters == <<rules, how, limits, phase, at, branch, count, perRule, last, fired>>

\* Nothing has fired at first.
LEMMA InitInvariant == Init => IInv
<1> SUFFICES ASSUME Init PROVE IInv
  OBVIOUS
<1>1. rules \in Seq(Range(rules)) /\ limits.total \in Nat /\ limits.per_rule \in Nat
  BY SystemsAssumption, LimitsAssumption DEF Init
<1>2. Shape
  BY <1>1 DEF Init, Shape, Phases
<1> QED
  BY <1>2 DEF Init, IInv, Room, Below, WithinLimits, Shape

\* Steps that count nothing and do not tell the callback.
LEMMA QuietStep ==
  ASSUME IInv, UNCHANGED <<rules, how, limits, count, perRule, last, fired>>,
         phase \notin {"control", "stopped"}, phase' \in Phases \ {"control", "stopped"},
         at' \in 1 .. Len(rules) + 1, branch' \in Nat,
         phase' \in {"apply", "refused", "branch"} => at' \in DOMAIN rules
  PROVE  IInv'
<1>1. Shape'
  BY DEF IInv, Shape
<1>2. Controlled' => Room'
  BY DEF IInv, Room, Below, Controlled
<1>3. WithinLimits'
  BY DEF IInv, WithinLimits
<1> QED
  BY <1>1, <1>2, <1>3 DEF IInv

\* The quiet steps of the loop over the rules and of the searches.
LEMMA LoopStep ==
  ASSUME IInv, UNCHANGED <<rules, how, limits>>,
         \/ Call \/ NoMatch \/ Match \/ NoRuleLeft
         \/ StartSplinter \/ NextSolution \/ NoSolutionLeft \/ Abort
  PROVE  IInv'
<1> USE DEF Phases, Results
<1>0. Shape
  BY DEF IInv
<1>1. CASE Call
  BY <1>0, <1>1, QuietStep DEF Call, Shape
<1>2. CASE NoMatch
  BY <1>0, <1>2, QuietStep DEF NoMatch, Shape
<1>3. CASE Match
  BY <1>0, <1>3, QuietStep DEF Match, StartApply, Shape
<1>4. CASE NoRuleLeft
  BY <1>0, <1>4, QuietStep DEF NoRuleLeft, Shape
<1>5. CASE StartSplinter
  BY <1>0, <1>5, QuietStep DEF StartSplinter, Shape
<1>6. CASE NextSolution
  BY <1>0, <1>6, QuietStep DEF NextSolution, StartApply, Shape
<1>7. CASE NoSolutionLeft
  BY <1>0, <1>7, QuietStep DEF NoSolutionLeft, Shape
<1>8. CASE Abort
  BY <1>0, <1>8, QuietStep DEF Abort, Shape
<1> QED
  BY <1>1, <1>2, <1>3, <1>4, <1>5, <1>6, <1>7, <1>8

\* The operations of the apply part count nothing.
LEMMA ApplyStep ==
  ASSUME IInv, UNCHANGED <<rules, how, limits>>,
         CreateObject \/ CreateTuple \/ AddAttribute \/ RemoveAttribute \/ Conditional
  PROVE  IInv'
<1>1. phase = "apply" /\ phase' \in {"apply", "refused"}
  BY DEF CreateObject, CreateTuple, AddAttribute, RemoveAttribute, Conditional, Applying, Go, Refuse
<1>2. UNCHANGED <<at, branch, count, perRule, last, fired>>
  BY DEF CreateObject, CreateTuple, AddAttribute, RemoveAttribute, Conditional
<1> QED
  BY <1>1, <1>2, QuietStep DEF IInv, Shape, Phases

\* A firing uses the room there is.
LEMMA FireStep ==
  ASSUME IInv, UNCHANGED <<rules, how, limits>>, Commit \/ Collect
  PROVE  IInv'
<1>1. /\ phase = "apply" /\ at \in DOMAIN rules /\ UNCHANGED <<at, perRule>>
      /\ branch' = branch
      /\ count' = count + 1 /\ last' = at /\ fired' = [fired EXCEPT ![at] = @ + 1]
      /\ phase' = IF how = "first" THEN "fired" ELSE "control"
  BY DEF Commit, Collect, Fire, IInv, Shape
<1>2. Shape'
  BY <1>1 DEF IInv, Shape, Phases, Results
<1>3. CASE ~Controlled
  BY <1>2, <1>3 DEF IInv, WithinLimits, Controlled
<1>4. CASE Controlled
  <2>1. fired = perRule /\ Below /\ (count = 0 \/ count < limits.total)
    BY <1>1, <1>4 DEF IInv, Room
  <2>2. fired' = [perRule EXCEPT ![at] = @ + 1]
    BY <1>1, <2>1
  <2>3. Room'
    BY <1>1, <2>1, <2>2, <1>4 DEF Room, Below, Counted, IInv, Shape, Controlled
  <2>4. \A r \in DOMAIN rules : fired'[r] <= limits.per_rule \/ fired'[r] = 1
    BY <1>1, <2>1, <2>2 DEF Below, IInv, Shape
  <2>5. count' <= limits.total \/ count' = 1
    BY <1>1, <2>1 DEF IInv, Shape
  <2> QED
    BY <1>1, <1>2, <1>4, <2>3, <2>4, <2>5 DEF IInv, WithinLimits
<1> QED
  BY <1>3, <1>4

\* The callback lets the run go on only when there is room again.
LEMMA ControlStep ==
  ASSUME IInv, UNCHANGED <<rules, how, limits>>,
         Stop \/ Continue \/ CollectStops \/ CollectContinues
  PROVE  IInv'
<1>1. /\ phase = "control" /\ at \in DOMAIN rules /\ last \in DOMAIN rules
      /\ UNCHANGED <<branch, count, last, fired>>
      /\ DOMAIN rules = 1 .. Len(rules) /\ Len(rules) \in Nat
      /\ perRule \in [DOMAIN rules -> Nat]
  BY DEF Stop, Continue, CollectStops, CollectContinues, IInv, Shape
<1>2. Counted \in [DOMAIN rules -> Nat]
  BY <1>1 DEF Counted
<1>3. CASE Stop
  <2>1. phase' = "stopped" /\ at' = at /\ (perRule' = perRule \/ perRule' = Counted)
    BY <1>3 DEF Stop
  <2>2. perRule' \in [DOMAIN rules -> Nat]
    BY <1>1, <1>2, <2>1
  <2>3. at' \in 1 .. Len(rules) + 1
    BY <1>1, <2>1
  <2>4. Shape'
    BY <1>1, <2>1, <2>2, <2>3 DEF IInv, Shape, Phases, Results
  <2>5. Controlled => Room'
    BY <1>1, <2>1 DEF IInv, Room
  <2>6. Controlled => count >= limits.total \/ fired[last] >= limits.per_rule
    <3>1. CASE TotalReached
      BY <3>1 DEF TotalReached
    <3>2. CASE ~TotalReached /\ Controlled
      BY <1>1, <1>3, <3>2 DEF IInv, Room, Stop
    <3> QED
      BY <3>1, <3>2
  <2> QED
    BY <1>1, <2>4, <2>5, <2>6 DEF IInv, WithinLimits, Controlled
<1>4. CASE Continue
  <2>1. /\ ~TotalReached /\ Counted[last] < limits.per_rule /\ perRule' = Counted
        /\ phase' = "rule" /\ (at' = 1 \/ at' = at)
    BY <1>4 DEF Continue
  <2>2. at' \in DOMAIN rules /\ at' \in 1 .. Len(rules) + 1
    BY <1>1, <2>1
  <2>3. Shape'
    BY <1>1, <1>2, <2>1, <2>2 DEF IInv, Shape, Phases, Results
  <2>4. ASSUME Controlled
        PROVE  Room'
    <3>1. fired = Counted /\ Below /\ limits.total \in Nat /\ count \in Nat
      BY <1>1, <2>4 DEF IInv, Room, Shape
    <3>2. Below'
      BY <1>1, <2>1, <3>1 DEF Below, Counted
    <3>3. count < limits.total
      BY <2>1, <3>1 DEF TotalReached
    <3> QED
      BY <1>1, <2>1, <3>1, <3>2, <3>3 DEF Room
  <2>5. WithinLimits'
    BY <1>1, <2>1 DEF IInv, WithinLimits
  <2> QED
    BY <2>3, <2>4, <2>5 DEF IInv, Controlled
<1>5. CASE CollectStops \/ CollectContinues
  <2>1. /\ ~Controlled /\ ~Controlled' /\ phase' \in {"done", "branch"}
        /\ UNCHANGED <<at, branch, count, perRule, last, fired>>
    BY <1>5 DEF CollectStops, CollectContinues, Controlled
  <2>2. Shape'
    BY <1>1, <2>1 DEF IInv, Shape, Phases, Results
  <2> QED
    BY <2>1, <2>2 DEF IInv, WithinLimits, Controlled
<1> QED
  BY <1>3, <1>4, <1>5

\* Every step keeps the invariant.
LEMMA NextInvariant == IInv /\ [Next]_vars => IInv'
<1> SUFFICES ASSUME IInv, [Next]_vars PROVE IInv'
  OBVIOUS
<1>1. CASE UNCHANGED vars
  <2>1. UNCHANGED counters
    BY <1>1 DEF vars, counters
  <2> QED
    BY <2>1 DEF counters, IInv, Shape, Room, Below, Counted, WithinLimits, Controlled
<1> QED
  BY <1>1, LoopStep, ApplyStep, FireStep, ControlStep DEF Next

\* The limits of control_limit_total, control_limit_per_rule and
\* control_limit_total_and_per_rule hold in both saturation modes, with the one
\* firing a limit of zero lets through, and a run is only stopped at a limit.
THEOREM LimitsHold == Spec => []WithinLimits
<1>1. IInv => WithinLimits
  BY DEF IInv
<1> QED
  BY <1>1, InitInvariant, NextInvariant, PTL DEF Spec

-----------------------------------------------------------------------------
(* What the variables hold.                                                *)

Transactions == [heap : Spaces, todo : Seq(Changes), first : Nat \ {0}]

\* The arguments are in their slots from the call to its result.
Called ==
  /\ Len(args) = Cardinality(Inputs)
  /\ Alike(bindings, Storage, Inputs)

Typing ==
  /\ rules \in Systems
  /\ args \in Arguments
  /\ heap \in Spaces
  /\ nextId \in 1 .. Len(IdSequence) + 1
  /\ bindings \in Envs
  /\ Attempting => tx \in Transactions
  /\ phase \notin {"call"} \cup Results => Called

Ids == 1 .. Len(IdSequence) + 1

\* The rule the loop is at is one the compiler has made.
LEMMA RuleShape ==
  ASSUME rules \in Systems, at \in DOMAIN rules
  PROVE  /\ IsSelect(Rule.select, Inputs)
         /\ Rule.apply \in Seq(Changes)
         /\ Prepared(Rule.apply, Visible(Rule.select))
<1>1. Rule \in Range(rules)
  BY DEF Range, Rule
<1> QED BY <1>1, SystemsAssumption

LEMMA WritesOwn ==
  ASSUME NEW known, NEW p, IsSelect(p, known)
  PROVE  Written(p) \subseteq Binding \ Inputs
  BY DEF IsSelect, WellFormed, Typed, Written

\* What a search leaves in the storage.
LEMMA LeftType ==
  ASSUME bindings \in Envs, NEW p, IsSelect(p, Inputs), NEW slots, NEW solution \in Envs,
         NEW env \in [Written(p) \ slots -> Leftover]
  PROVE  /\ Left(solution, slots, env) \in Envs
         /\ \A x : Alike(solution, x, Inputs) /\ Alike(bindings, x, Inputs) =>
              Alike(Left(solution, slots, env), x, Inputs)
         /\ Alike(Left(solution, slots, env), solution, slots \cap Binding)
<1>1. \A b \in DOMAIN env : env[b] \in Value /\ b \notin slots /\ b \notin Inputs
  BY WritesOwn, ValuesAssumption
<1>2. \A b \in Binding : solution[b] \in Value /\ bindings[b] \in Value
  BY DEF Envs
<1> QED BY <1>1, <1>2, InputsAssumption DEF Left, Alike, Envs

\* What the arguments become.
LEMMA StorageType ==
  ASSUME args \in Arguments, Len(args) = Cardinality(Inputs)
  PROVE  Storage \in Envs
<1>1. args \in Seq(Object) /\ Inputs = 0 .. Len(args) - 1
  BY ArgumentsAssumption
<1>2. ASSUME NEW b \in Inputs
      PROVE  args[b + 1] \in Value
  <2>1. b + 1 \in 1 .. Len(args)
    <3>1. Len(args) \in Nat
      BY <1>1, LenProperties
    <3>2. b \in 0 .. Len(args) - 1
      BY <1>1
    <3> QED BY <3>1, <3>2
  <2> QED BY <1>1, <2>1, ElementOfSeq, ObjectAssumption
<1> QED BY <1>2, ValuesAssumption DEF Storage, Envs

\* The first operation of an apply part, and the slots and values it takes.
LEMMA ChangeShape ==
  ASSUME NEW c \in Changes
  PROVE  IsChange(c) /\ Needed[c] \in SUBSET Binding
  BY ChangesAssumption

LEMMA OperandType ==
  ASSUME NEW o, IsOperand(o), NEW e \in Envs, SlotsOf({o}) \subseteq Binding
  PROVE  Operand(o, e) \in Value
  BY DEF IsOperand, Operand, SlotsOf, Envs

\* A transaction after an operation on an attribute.
LEMMA ChangedSpace ==
  ASSUME NEW h \in Spaces, NEW id \in Object, NEW a \in Attribute, NEW s \in Seq(Value)
  PROVE  [h EXCEPT ![id][a] = s] \in Spaces
<1>1. [h[id] EXCEPT ![a] = s] \in [Attribute -> Seq(Value)]
  BY DEF Spaces
<1> QED BY <1>1 DEF Spaces

\* The searches of the loop over the rules.
LEMMA LoopTyping ==
  ASSUME Shape, Typing, UNCHANGED <<rules, how, args, limits>>,
         \/ Call \/ NoMatch \/ Match \/ NoRuleLeft
         \/ StartSplinter \/ NextSolution \/ NoSolutionLeft
  PROVE  Typing'
<1> USE DEF Typing, Called
<1>1. UNCHANGED <<heap, nextId, Storage>>
  BY DEF Call, NoMatch, Match, StartApply, NoRuleLeft, StartSplinter, NextSolution, NoSolutionLeft, Storage
<1>2. CASE Call
  BY <1>1, <1>2, StorageType DEF Call, Attempting, Alike, Results
<1>3. CASE NoRuleLeft \/ StartSplinter
  BY <1>1, <1>3 DEF NoRuleLeft, StartSplinter, Attempting, Alike, Results
<1>4. CASE NoMatch \/ NoSolutionLeft
  <2>1. at \in DOMAIN rules
    BY <1>4 DEF NoMatch, NoSolutionLeft, Shape
  <2>2. /\ phase \in {"rule", "branch"} /\ phase' = "rule"
        /\ \E env \in [Written(Rule.select) \ {} -> Leftover] : bindings' = Left(bindings, {}, env)
    <3>1. Written(Rule.select) \ {} = Written(Rule.select)
      OBVIOUS
    <3> QED BY <1>4, <3>1 DEF NoMatch, NoSolutionLeft
  <2>3. bindings' \in Envs /\ Alike(bindings', Storage, Inputs)
    <3>1. IsSelect(Rule.select, Inputs) /\ rules \in Systems
      BY <2>1, RuleShape
    <3>2. Alike(bindings, Storage, Inputs) /\ bindings \in Envs
      BY <2>2 DEF Results
    <3> PICK p : p = Rule.select
      OBVIOUS
    <3>3. PICK env \in [Written(p) \ {} -> Leftover] : bindings' = Left(bindings, {}, env)
      BY <2>2
    <3>4. IsSelect(p, Inputs) /\ Alike(bindings, bindings, Inputs)
      BY <3>1 DEF Alike
    <3>5. /\ Left(bindings, {}, env) \in Envs
          /\ \A x : Alike(bindings, x, Inputs) /\ Alike(bindings, x, Inputs) =>
               Alike(Left(bindings, {}, env), x, Inputs)
      BY <3>2, <3>4, LeftType
    <3> QED BY <3>2, <3>3, <3>5, Zenon
  <2> QED BY <1>1, <2>2, <2>3 DEF Attempting, Results
<1>5. CASE Match \/ NextSolution
  <2>1. at \in DOMAIN rules /\ phase \in {"rule", "branch"} /\ Called
    BY <1>5 DEF Match, NextSolution, Shape, Results
  <2>2. PICK k \in 1 .. Len(Found) : StartApply(Found[k])
    <3>1. Found \in Seq({x \in Envs : Alike(x, bindings, Inputs)})
      BY <2>1, RuleShape, Finds DEF Found
    <3>2. CASE Match
      <4>1. Head(Found) = Found[1] /\ 1 \in 1 .. Len(Found)
        BY <3>1, <3>2, EmptySeq, HeadTailProperties, LenProperties DEF Match
      <4> QED BY <3>2, <4>1 DEF Match
    <3>3. CASE NextSolution
      <4>1. branch + 1 \in 1 .. Len(Found)
        BY <3>1, <3>3, LenProperties DEF NextSolution, Shape
      <4> QED BY <3>3, <4>1 DEF NextSolution
    <3> QED BY <1>5, <3>2, <3>3
  <2>3. Found[k] \in Envs /\ Alike(Found[k], Storage, Inputs)
    <3>1. Found \in Seq({x \in Envs : Alike(x, bindings, Inputs)})
      BY <2>1, RuleShape, Finds DEF Found
    <3>2. Found[k] \in {x \in Envs : Alike(x, bindings, Inputs)}
      BY <3>1, ElementOfSeq
    <3> QED BY <2>1, <3>2 DEF Alike
  <2>4. bindings' \in Envs /\ Alike(bindings', Storage, Inputs)
    <3> PICK p, solution : p = Rule.select /\ solution = Found[k]
      OBVIOUS
    <3>1. PICK env \in [Written(p) \ Visible(p) -> Leftover] :
            bindings' = Left(solution, Visible(p), env)
      BY <2>2 DEF StartApply
    <3>2. IsSelect(p, Inputs) /\ bindings \in Envs /\ Alike(bindings, Storage, Inputs)
      BY <2>1, RuleShape
    <3>3. solution \in Envs /\ Alike(solution, Storage, Inputs)
      BY <2>3
    <3>4. /\ Left(solution, Visible(p), env) \in Envs
          /\ \A x : Alike(solution, x, Inputs) /\ Alike(bindings, x, Inputs) =>
               Alike(Left(solution, Visible(p), env), x, Inputs)
      BY <3>2, <3>3, LeftType
    <3> QED BY <3>1, <3>2, <3>3, <3>4, Zenon
  <2>5. tx' \in Transactions
    BY <2>1, <2>2, RuleShape DEF StartApply, Transactions
  <2> QED BY <1>1, <2>1, <2>2, <2>4, <2>5 DEF StartApply
<1> QED BY <1>2, <1>3, <1>4, <1>5

\* The operations of the apply part.
LEMMA ApplyTyping ==
  ASSUME Shape, Typing, UNCHANGED <<rules, how, args, limits>>,
         CreateObject \/ CreateTuple \/ AddAttribute \/ RemoveAttribute \/ Conditional
  PROVE  Typing'
<1> DEFINE c == Todo
           rest == Tail(tx.todo)
<1>1. /\ phase = "apply" /\ tx.todo # <<>> /\ tx \in Transactions /\ Called
      /\ phase' \in {"apply", "refused"} /\ UNCHANGED <<heap, Storage>>
  BY DEF CreateObject, CreateTuple, AddAttribute, RemoveAttribute, Conditional, Applying,
         Typing, Attempting, Results, Go, Refuse, Storage
<1>2. /\ tx.heap \in Spaces /\ tx.todo \in Seq(Changes)
      /\ c \in Changes /\ rest \in Seq(Changes)
      /\ IsChange(c) /\ Needed[c] \in SUBSET Binding
  BY <1>1, HeadTailProperties, ChangeShape DEF Transactions, Todo
<1>3. ASSUME NEW h \in Spaces, NEW todo \in Seq(Changes)
      PROVE  [tx EXCEPT !.heap = h, !.todo = todo] \in Transactions
  BY <1>1, <1>3 DEF Transactions
<1>4. ASSUME nextId' \in Ids, bindings' \in Envs, Alike(bindings', bindings, Inputs), tx' \in Transactions
      PROVE  Typing'
  BY <1>1, <1>4 DEF Typing, Called, Alike, Ids
<1>5. nextId \in Ids /\ bindings \in Envs /\ Alike(bindings, bindings, Inputs)
  BY DEF Typing, Ids, Alike
<1>6. ASSUME Creates(c), NEW v \in Value
      PROVE  /\ [bindings EXCEPT ![c.binding] = v] \in Envs
             /\ Alike([bindings EXCEPT ![c.binding] = v], bindings, Inputs)
  BY <1>2, <1>5, <1>6, InputsAssumption DEF IsChange, Envs, Alike
<1>7. CASE CreateObject
  <2>1. nextId <= Len(IdSequence) /\ nextId' = nextId + 1
    BY <1>7 DEF CreateObject
  <2>2. IdSequence \in Seq(Object) /\ Len(IdSequence) \in Nat
    BY ValuesAssumption, LenProperties
  <2>3. nextId \in 1 .. Len(IdSequence) /\ nextId' \in Ids
    BY <1>5, <2>1, <2>2 DEF Ids
  <2>4. IdSequence[nextId] \in Value
    BY <2>2, <2>3, ElementOfSeq, ObjectAssumption
  <2>5. Creates(c) /\ bindings' = [bindings EXCEPT ![c.binding] = IdSequence[nextId]]
    BY <1>7 DEF CreateObject, Applying, Creates
  <2>6. tx' \in Transactions
    BY <1>2, <1>3, <1>7 DEF CreateObject, Go
  <2> HIDE DEF c
  <2> QED BY <1>4, <1>6, <2>3, <2>4, <2>5, <2>6
<1>8. CASE CreateTuple
  <2>1. PICK v \in DOMAIN tupleItems : bindings' = [bindings EXCEPT ![c.binding] = v]
    BY <1>8 DEF CreateTuple
  <2>2. Creates(c) /\ v \in Value /\ UNCHANGED nextId
    BY <1>8, ValuesAssumption DEF CreateTuple, Applying, Creates
  <2>3. tx' \in Transactions
    BY <1>2, <1>3, <1>8 DEF CreateTuple, Go
  <2> HIDE DEF c
  <2> QED BY <1>4, <1>5, <1>6, <2>1, <2>2, <2>3
<1>9. ASSUME c.op \in {"Add", "Remove"}
      PROVE  c.attribute \in Attribute /\ Operand(c.value, bindings) \in Value
  <2>1. c.attribute \in Attribute /\ IsOperand(c.value) /\ Uses(c) \subseteq Needed[c]
    BY <1>2, <1>9 DEF IsChange
  <2>2. SlotsOf({c.value}) \subseteq Binding
    BY <1>2, <1>9, <2>1 DEF Uses
  <2> QED BY <1>5, <2>1, <2>2, OperandType
<1>10. ASSUME NEW id \in Object, NEW a \in Attribute
       PROVE  tx.heap[id][a] \in Seq(Value)
  BY <1>2 DEF Spaces
<1>11. CASE AddAttribute
  <2> PICK id, a, v : id = bindings[c.binding] /\ a = c.attribute /\ v = Operand(c.value, bindings)
    OBVIOUS
  <2>1. c.op \in {"Add", "Remove"} /\ UNCHANGED <<nextId, bindings>>
    BY <1>11 DEF AddAttribute, Applying
  <2>2. a \in Attribute /\ v \in Value
    BY <1>9, <2>1
  <2>3. CASE id \notin Object
    BY <1>1, <1>4, <1>5, <1>11, <2>1, <2>3 DEF AddAttribute, Refuse
  <2>4. CASE id \in Object
    <3>1. Append(tx.heap[id][a], v) \in Seq(Value)
      BY <1>10, <2>2, <2>4, AppendProperties
    <3>2. tx' = [tx EXCEPT !.heap = [tx.heap EXCEPT ![id][a] = Append(tx.heap[id][a], v)], !.todo = rest]
      BY <1>2, <1>11, <2>2, <2>4 DEF AddAttribute, Go, Spaces
    <3>3. [tx.heap EXCEPT ![id][a] = Append(tx.heap[id][a], v)] \in Spaces
      BY <1>2, <2>2, <2>4, <3>1, ChangedSpace
    <3>4. tx' \in Transactions
      BY <1>2, <1>3, <3>2, <3>3
    <3> QED BY <1>4, <1>5, <2>1, <3>4
  <2> QED BY <2>3, <2>4
<1>12. CASE RemoveAttribute
  <2> PICK id, a, v : id = bindings[c.binding] /\ a = c.attribute /\ v = Operand(c.value, bindings)
    OBVIOUS
  <2>1. c.op \in {"Add", "Remove"} /\ UNCHANGED <<nextId, bindings>>
    BY <1>12 DEF RemoveAttribute, Applying
  <2>2. a \in Attribute /\ v \in Value
    BY <1>9, <2>1
  <2>3. CASE tx' = tx
    BY <1>1, <1>4, <1>5, <2>1, <2>3
  <2>4. CASE tx' # tx
    <3>1. id \in Object
      BY <1>12, <2>4 DEF RemoveAttribute, Refuse
    <3>2. RemoveFirst(tx.heap[id][a], v) \in Seq(Value)
      BY <1>10, <2>2, <3>1, RemoveFirstType
    <3>3. tx' = [tx EXCEPT !.heap = [tx.heap EXCEPT ![id][a] = RemoveFirst(tx.heap[id][a], v)], !.todo = rest]
      BY <1>2, <1>12, <2>2, <2>4, <3>1 DEF RemoveAttribute, Refuse, Go, Spaces
    <3>4. [tx.heap EXCEPT ![id][a] = RemoveFirst(tx.heap[id][a], v)] \in Spaces
      BY <1>2, <2>2, <3>1, <3>2, ChangedSpace
    <3>5. tx' \in Transactions
      BY <1>2, <1>3, <3>3, <3>4
    <3> QED BY <1>4, <1>5, <2>1, <3>5
  <2> QED BY <2>3, <2>4
<1>13. CASE Conditional
  <2>1. PICK taken \in {c.then_apply, c.otherwise_apply} :
          tx' = [tx EXCEPT !.heap = tx.heap, !.todo = taken \o rest]
    BY <1>13 DEF Conditional, Go
  <2>2. c.op = "Conditional" /\ UNCHANGED <<nextId, bindings>>
    BY <1>13 DEF Conditional, Applying
  <2>3. taken \in Seq(Changes)
    BY <1>2, <2>2 DEF IsChange
  <2>4. taken \o rest \in Seq(Changes)
    BY <1>2, <2>3, ConcatProperties
  <2>5. tx' \in Transactions
    BY <1>2, <1>3, <2>1, <2>4
  <2> QED BY <1>4, <1>5, <2>2, <2>5
<1> QED BY <1>7, <1>8, <1>11, <1>12, <1>13

\* The end of a firing, and the callback.
LEMMA EndTyping ==
  ASSUME Shape, Typing, UNCHANGED <<rules, how, args, limits>>,
         Commit \/ Collect \/ Abort \/ Stop \/ Continue \/ CollectStops \/ CollectContinues
  PROVE  Typing'
<1>1. UNCHANGED <<nextId, bindings, Storage>> /\ ~Attempting' /\ phase \notin {"call"} \cup Results
  BY DEF Commit, Collect, Fire, Abort, Stop, Continue, CollectStops, CollectContinues, Attempting,
         Storage, Results
<1>2. heap' \in {heap, tx.heap} /\ (heap' # heap => Attempting)
  BY DEF Commit, Collect, Fire, Abort, Stop, Continue, CollectStops, CollectContinues, Attempting
<1>3. heap' \in Spaces
  BY <1>2 DEF Typing, Transactions
<1> QED BY <1>1, <1>3 DEF Typing, Called, Alike

LEMMA InitTyping == Init => Typing
<1> SUFFICES ASSUME Init PROVE Typing
  OBVIOUS
<1>1. heap \in Spaces /\ bindings \in Envs
  BY SpacesAssumption, ValuesAssumption DEF Init, Spaces, Envs
<1>2. 1 \in Ids
  BY ValuesAssumption, LenProperties DEF Ids
<1> QED BY <1>1, <1>2 DEF Init, Typing, Attempting, Ids

LEMMA NextTyping == IInv /\ Typing /\ [Next]_vars => Typing'
<1> SUFFICES ASSUME IInv, Typing, [Next]_vars PROVE Typing'
  OBVIOUS
<1>1. Shape
  BY DEF IInv
<1>2. CASE UNCHANGED vars
  BY <1>2 DEF vars, Typing, Attempting, Called, Alike, Storage
<1> QED BY <1>1, <1>2, LoopTyping, ApplyTyping, EndTyping DEF Next

LEMMA TypingGives == IInv /\ Typing => TypeOK
<1> SUFFICES ASSUME IInv, Typing PROVE TypeOK
  OBVIOUS
<1>1. heap \in [Object -> [Attribute -> Seq(Value)]] /\ bindings \in [Binding -> Value]
  BY DEF Typing, Spaces, Envs
<1>2. phase \in {"apply", "refused"} => tx.heap \in [Object -> [Attribute -> Seq(Value)]]
  BY DEF Typing, Attempting, Transactions, Spaces
<1>3. at \in DOMAIN rules => at <= Len(rules)
  BY DEF IInv, Shape
<1> QED BY <1>1, <1>2, <1>3 DEF TypeOK, Typing, IInv, Shape, Phases

\* The storage keeps a value in every slot, whatever the searches and the
\* operations of the rules do, and every transaction shows a space.
THEOREM RunsAreTyped == Spec => []TypeOK
<1>1. Init => IInv /\ Typing
  BY InitInvariant, InitTyping
<1>2. IInv /\ Typing /\ [Next]_vars => IInv' /\ Typing'
  BY NextInvariant, NextTyping
<1>3. IInv /\ Typing => TypeOK
  BY TypingGives
<1> QED BY <1>1, <1>2, <1>3, PTL DEF Spec

-----------------------------------------------------------------------------
(* What applying a list of operations comes to.                            *)

State(todo, env, h, id, ok) ==
  [todo |-> todo, env |-> env, heap |-> h, nextId |-> id, ok |-> ok]

LEMMA StatesAre ==
  /\ Abstract!States =
       [todo : Seq(Changes), env : Envs, heap : Spaces, nextId : Nat \ {0}, ok : BOOLEAN]
  /\ \A s : Abstract!Over(s) <=> s.todo = <<>> \/ ~s.ok
  BY DEF Abstract!States, Envs, Spaces, Abstract!Over

\* One field at a time.
WithTodo(s, v) == [s EXCEPT !.todo = v]
WithEnv(s, v) == [s EXCEPT !.env = v]
WithHeap(s, v) == [s EXCEPT !.heap = v]
WithId(s, v) == [s EXCEPT !.nextId = v]

\* One operation, by its kind.
AddsTo(s, c, v) ==
  [s EXCEPT !.todo = Tail(@), !.heap[s.env[c.binding]][c.attribute] = v]

BindsTo(s, c, v, used) ==
  [s EXCEPT !.todo = Tail(@), !.env[c.binding] = v, !.nextId = @ + used]

ByOperation(s, c) ==
  /\ c.op = "CreateObject" =>
       Abstract!Once(s) =
         IF s.nextId > Len(IdSequence) THEN Abstract!Failed(s)
         ELSE BindsTo(s, c, IdSequence[s.nextId], 1)
  /\ c.op = "CreateTuple" =>
       \/ Abstract!Once(s) = Abstract!Failed(s)
       \/ \E v \in DOMAIN tupleItems : Abstract!Once(s) = BindsTo(s, c, v, 0)
  /\ c.op = "CreateTuple" => \A v \in DOMAIN tupleItems :
       tupleItems[v] = [i \in DOMAIN c.items |-> Operand(c.items[i], s.env)] =>
         Abstract!Once(s) = BindsTo(s, c, v, 0)
  /\ c.op = "Add" =>
       Abstract!Once(s) =
         IF s.env[c.binding] \notin Object THEN Abstract!Failed(s)
         ELSE AddsTo(s, c, Append(s.heap[s.env[c.binding]][c.attribute], Operand(c.value, s.env)))
  /\ c.op = "Remove" =>
       Abstract!Once(s) =
         IF \/ s.env[c.binding] \notin Object
            \/ c.required /\ Operand(c.value, s.env) \notin ToSet(s.heap[s.env[c.binding]][c.attribute])
         THEN Abstract!Failed(s)
         ELSE AddsTo(s, c, RemoveFirst(s.heap[s.env[c.binding]][c.attribute], Operand(c.value, s.env)))
  /\ c.op = "Conditional" =>
       Abstract!Once(s) =
         WithTodo(s, (IF Solutions(c.condition, s.env, s.heap) = <<>>
                        THEN c.otherwise_apply ELSE c.then_apply) \o Tail(s.todo))

LEMMA OnceByOperation ==
  ASSUME NEW s
  PROVE  ByOperation(s, Head(s.todo))
<1> DEFINE c == Head(s.todo)
<1>1. \A o, e : Abstract!Operand(o, e) = Operand(o, e)
  BY DEF Abstract!Operand, Operand
<1>2. \A x, v : Abstract!RemoveFirst(x, v) = RemoveFirst(x, v)
  BY Zenon DEF Abstract!RemoveFirst, RemoveFirst, Abstract!RemoveAt, RemoveAt,
               Abstract!SelectInSeq, SelectInSeq, Abstract!Min, Min
<1>3. \A x : Abstract!ToSet(x) = ToSet(x)
  BY DEF Abstract!ToSet, ToSet
<1> DEFINE made == {v \in DOMAIN tupleItems :
                      tupleItems[v] = [i \in DOMAIN c.items |-> Operand(c.items[i], s.env)]}
<1>4. CASE c.op = "CreateObject"
  BY <1>4 DEF ByOperation, BindsTo, Abstract!Once, Abstract!Bound
<1>5. CASE c.op = "CreateTuple"
  <2>1. Abstract!Once(s) =
          IF made = {} THEN Abstract!Failed(s)
          ELSE [s EXCEPT !.todo = Tail(@), !.env[c.binding] = CHOOSE v \in made : TRUE, !.nextId = @ + 0]
    <3> DEFINE fits == {v \in DOMAIN tupleItems :
                          tupleItems[v] = [i \in DOMAIN c.items |-> Abstract!Operand(c.items[i], s.env)]}
               Outcome(set) ==
                 IF set = {} THEN Abstract!Failed(s)
                 ELSE [s EXCEPT !.todo = Tail(@), !.env[c.binding] = CHOOSE v \in set : TRUE, !.nextId = @ + 0]
    <3>1. Abstract!Once(s) = Outcome(fits)
      BY <1>5, Zenon DEF Abstract!Once, Abstract!Bound
    <3>2. fits = made
      BY <1>1
    <3> QED BY <3>1, <3>2, Zenon
  <2>2. made # {} => (CHOOSE v \in made : TRUE) \in made
    OBVIOUS
  <2>3. \A v, w \in made : v = w
    BY ValuesAssumption
  <2> HIDE DEF made
  <2>4. \A v \in made : made # {} /\ v = CHOOSE w \in made : TRUE
    BY <2>2, <2>3
  <2>5. made \subseteq DOMAIN tupleItems
    BY DEF made
  <2>6. \A v \in DOMAIN tupleItems :
          tupleItems[v] = [i \in DOMAIN c.items |-> Operand(c.items[i], s.env)] => v \in made
    BY DEF made
  <2> QED BY <1>5, <2>1, <2>2, <2>4, <2>5, <2>6 DEF ByOperation, BindsTo
<1>6. CASE c.op = "Add"
  BY <1>1, <1>6 DEF ByOperation, Abstract!Once, Abstract!Changed, Abstract!Item, AddsTo
<1>7. CASE c.op = "Remove"
  BY <1>1, <1>2, <1>3, <1>7 DEF ByOperation, Abstract!Once, Abstract!Changed,
                                Abstract!Item, AddsTo
<1>8. CASE c.op = "Conditional"
  BY <1>8, SolutionsInFiring DEF ByOperation, Abstract!Once, WithTodo
<1> QED BY <1>4, <1>5, <1>6, <1>7, <1>8 DEF ByOperation

\* An operation leaves a state.
LEMMA OnceType ==
  ASSUME NEW s \in Abstract!States, ~Abstract!Over(s)
  PROVE  Abstract!Once(s) \in Abstract!States
<1> DEFINE c == Head(s.todo)
           rest == Tail(s.todo)
<1>1. /\ s \in [todo : Seq(Changes), env : Envs, heap : Spaces, nextId : Nat \ {0}, ok : BOOLEAN]
      /\ s.todo # <<>>
  BY StatesAre
<1>2. /\ s.todo \in Seq(Changes) /\ s.env \in Envs /\ s.heap \in Spaces /\ s.nextId \in Nat \ {0}
      /\ c \in Changes /\ rest \in Seq(Changes)
      /\ IsChange(c) /\ Needed[c] \in SUBSET Binding
  BY <1>1, HeadTailProperties, ChangeShape
<1>3. ByOperation(s, c)
  BY OnceByOperation
<1> HIDE DEF c
<1>4. Abstract!Failed(s) \in Abstract!States
  BY <1>1, StatesAre DEF Abstract!Failed
<1>5. ASSUME Creates(c), NEW v \in Value, NEW n \in Nat
      PROVE  BindsTo(s, c, v, n) \in Abstract!States
  <2>1. [s.env EXCEPT ![c.binding] = v] \in Envs
    BY <1>2, <1>5 DEF Envs
  <2>2. s.nextId + n \in Nat \ {0}
    BY <1>2
  <2>3. BindsTo(s, c, v, n) =
          [s EXCEPT !.todo = rest, !.env = [s.env EXCEPT ![c.binding] = v], !.nextId = s.nextId + n]
    BY <1>1 DEF BindsTo
  <2> QED BY <1>1, <1>2, <2>1, <2>2, <2>3, StatesAre
<1>6. ASSUME c.op \in {"Add", "Remove"}
      PROVE  c.attribute \in Attribute /\ Operand(c.value, s.env) \in Value
  <2>1. c.attribute \in Attribute /\ IsOperand(c.value) /\ Uses(c) \subseteq Needed[c]
    BY <1>2, <1>6 DEF IsChange
  <2>2. SlotsOf({c.value}) \subseteq Binding
    BY <1>2, <1>6, <2>1 DEF Uses
  <2> QED BY <1>2, <2>1, <2>2, OperandType
<1>7. ASSUME c.op \in {"Add", "Remove"}, s.env[c.binding] \in Object, NEW v \in Seq(Value)
      PROVE  AddsTo(s, c, v) \in Abstract!States
  <2>1. [s.heap EXCEPT ![s.env[c.binding]][c.attribute] = v] \in Spaces
    BY <1>2, <1>6, <1>7, ChangedSpace
  <2>2. AddsTo(s, c, v) = [s EXCEPT !.todo = rest, !.heap = [s.heap EXCEPT ![s.env[c.binding]][c.attribute] = v]]
    BY <1>1 DEF AddsTo
  <2> QED BY <1>1, <1>2, <2>1, <2>2, StatesAre
<1>8. ASSUME NEW id \in Object, NEW a \in Attribute
      PROVE  s.heap[id][a] \in Seq(Value)
  BY <1>2 DEF Spaces
<1>9. CASE c.op = "CreateObject"
  <2>1. IdSequence \in Seq(Object) /\ Len(IdSequence) \in Nat
    BY ValuesAssumption, LenProperties
  <2>2. ~(s.nextId > Len(IdSequence)) => IdSequence[s.nextId] \in Value
    BY <1>2, <2>1, ElementOfSeq, ObjectAssumption
  <2>3. Abstract!Once(s) = IF s.nextId > Len(IdSequence) THEN Abstract!Failed(s)
                           ELSE BindsTo(s, c, IdSequence[s.nextId], 1)
    BY <1>3, <1>9, Zenon DEF ByOperation
  <2> QED BY <1>4, <1>5, <1>9, <2>2, <2>3 DEF Creates
<1>10. CASE c.op = "CreateTuple"
  <2>1. \/ Abstract!Once(s) = Abstract!Failed(s)
        \/ \E v \in DOMAIN tupleItems : Abstract!Once(s) = BindsTo(s, c, v, 0)
    BY <1>3, <1>10, Zenon DEF ByOperation
  <2>2. Creates(c) /\ DOMAIN tupleItems \subseteq Value
    BY <1>10, ValuesAssumption DEF Creates
  <2>3. \A v \in DOMAIN tupleItems : BindsTo(s, c, v, 0) \in Abstract!States
    BY <1>5, <2>2
  <2> QED BY <1>4, <2>1, <2>3
<1>11. CASE c.op = "Add"
  <2> PICK id, a, v : id = s.env[c.binding] /\ a = c.attribute /\ v = Operand(c.value, s.env)
    OBVIOUS
  <2>1. id \in Object => Append(s.heap[id][a], v) \in Seq(Value)
    BY <1>6, <1>8, <1>11, AppendProperties
  <2>2. Abstract!Once(s) = IF id \notin Object THEN Abstract!Failed(s)
                           ELSE AddsTo(s, c, Append(s.heap[id][a], v))
    BY <1>3, <1>11, Zenon DEF ByOperation
  <2>3. id \in Object => \A x \in Seq(Value) : AddsTo(s, c, x) \in Abstract!States
    BY <1>7, <1>11
  <2> QED BY <1>4, <2>1, <2>2, <2>3
<1>12. CASE c.op = "Remove"
  <2> PICK id, a, v : id = s.env[c.binding] /\ a = c.attribute /\ v = Operand(c.value, s.env)
    OBVIOUS
  <2>1. id \in Object => RemoveFirst(s.heap[id][a], v) \in Seq(Value)
    BY <1>6, <1>8, <1>12, RemoveFirstType
  <2>2. Abstract!Once(s) = IF id \notin Object \/ (c.required /\ v \notin ToSet(s.heap[id][a]))
                           THEN Abstract!Failed(s) ELSE AddsTo(s, c, RemoveFirst(s.heap[id][a], v))
    BY <1>3, <1>12, Zenon DEF ByOperation
  <2>3. id \in Object => \A x \in Seq(Value) : AddsTo(s, c, x) \in Abstract!States
    BY <1>7, <1>12
  <2> QED BY <1>4, <2>1, <2>2, <2>3
<1>13. CASE c.op = "Conditional"
  <2>1. PICK taken \in {c.then_apply, c.otherwise_apply} :
          Abstract!Once(s) = [s EXCEPT !.todo = taken \o Tail(@)]
    BY <1>3, <1>13 DEF ByOperation, WithTodo
  <2>2. taken \o rest \in Seq(Changes)
    BY <1>2, <1>13, ConcatProperties DEF IsChange
  <2> QED BY <1>1, <2>1, <2>2, StatesAre
<1> QED BY <1>2, <1>9, <1>10, <1>11, <1>12, <1>13 DEF IsChange

\* The states that come after s.
Closed(R) == \A t \in R : ~Abstract!Over(t) => Abstract!Once(t) \in R

Ends(s) ==
  {t \in Abstract!States :
     Abstract!Over(t) /\ \A R \in SUBSET Abstract!States : s \in R /\ Closed(R) => t \in R}

LEMMA EndsOf ==
  ASSUME NEW s \in Abstract!States
  PROVE  /\ Abstract!Over(s) => Ends(s) = {s}
         /\ ~Abstract!Over(s) => Ends(s) = Ends(Abstract!Once(s))
<1>1. ASSUME Abstract!Over(s)
      PROVE  Ends(s) = {s}
  <2>1. {s} \in SUBSET Abstract!States /\ s \in {s} /\ Closed({s})
    BY <1>1 DEF Closed
  <2>2. \A t \in Ends(s) : t \in {s}
    BY <2>1 DEF Ends
  <2> QED BY <1>1, <2>2 DEF Ends
<1>2. ASSUME ~Abstract!Over(s)
      PROVE  Ends(s) = Ends(Abstract!Once(s))
  <2> PICK n : n = Abstract!Once(s)
    OBVIOUS
  <2>1. n \in Abstract!States
    BY <1>2, OnceType
  <2>2. ASSUME NEW t \in Ends(n)
        PROVE  t \in Ends(s)
    BY <1>2, <2>2 DEF Ends, Closed
  <2>3. ASSUME NEW t \in Ends(s)
        PROVE  t \in Ends(n)
    <3>1. t \in Abstract!States /\ Abstract!Over(t) /\ t # s
      BY <1>2 DEF Ends
    <3>2. ASSUME NEW R \in SUBSET Abstract!States, n \in R, Closed(R)
          PROVE  t \in R
      <4>1. R \cup {s} \in SUBSET Abstract!States /\ s \in R \cup {s} /\ Closed(R \cup {s})
        BY <3>2 DEF Closed
      <4>2. t \in R \cup {s}
        BY <4>1 DEF Ends
      <4> QED BY <3>1, <4>2
    <3> QED BY <3>1, <3>2 DEF Ends
  <2> QED BY <2>2, <2>3
<1> QED BY <1>1, <1>2

\* The outcome of a state is that of the next one.
LEMMA ApplyEquation ==
  ASSUME NEW s \in Abstract!States
  PROVE  Abstract!Apply[s] = IF Abstract!Over(s) THEN s ELSE Abstract!Apply[Abstract!Once(s)]
<1> DEFINE f == [t \in Abstract!States |-> CHOOSE x : x \in Ends(t)]
           Body(g) == [t \in Abstract!States |-> IF Abstract!Over(t) THEN t ELSE g[Abstract!Once(t)]]
<1>1. ASSUME NEW t \in Abstract!States
      PROVE  f[t] = IF Abstract!Over(t) THEN t ELSE f[Abstract!Once(t)]
  <2>1. CASE Abstract!Over(t)
    <3>1. Ends(t) = {t}
      BY <2>1, EndsOf
    <3>2. (CHOOSE x : x \in {t}) = t
      OBVIOUS
    <3> QED BY <2>1, <3>1, <3>2
  <2>2. CASE ~Abstract!Over(t)
    <3>1. Abstract!Once(t) \in Abstract!States /\ Ends(t) = Ends(Abstract!Once(t))
      BY <2>2, OnceType, EndsOf
    <3> QED BY <2>2, <3>1
  <2> QED BY <2>1, <2>2
<1>2. f = Body(f)
  <2>1. \A t \in Abstract!States : f[t] = Body(f)[t]
    BY <1>1
  <2>2. f = [t \in Abstract!States |-> f[t]] /\ Body(f) = [t \in Abstract!States |-> Body(f)[t]]
    OBVIOUS
  <2> HIDE DEF f, Body
  <2> QED BY <2>1, <2>2
<1>3. Abstract!Apply = CHOOSE g : g = Body(g)
  BY DEF Abstract!Apply
<1>4. Abstract!Apply = Body(Abstract!Apply)
  <2> HIDE DEF f, Body
  <2> QED BY <1>2, <1>3
<1> QED BY <1>4

-----------------------------------------------------------------------------
(* An attempt, and what it would be with nothing but the arguments bound.  *)

LEMMA PreparedTail ==
  ASSUME NEW todo \in Seq(Changes), todo # <<>>, NEW known, Prepared(todo, known)
  PROVE  /\ Needed[Head(todo)] \subseteq known
         /\ ~Creates(Head(todo)) => Prepared(Tail(todo), known)
         /\ Prepared(Tail(todo), known \cup {Head(todo).binding})
<1> PICK n, rest : n = Len(todo) /\ rest = Tail(todo)
  OBVIOUS
<1>1. /\ n \in Nat \ {0} /\ DOMAIN todo = 1 .. n /\ Head(todo) = todo[1]
      /\ DOMAIN rest = 1 .. n - 1 /\ \A k \in 1 .. n - 1 : rest[k] = todo[k + 1]
  BY HeadTailProperties, LenProperties, EmptySeq
<1>2. Needed[Head(todo)] \subseteq known
  <2>1. CreatedBefore(todo, 1) = {}
    BY DEF CreatedBefore
  <2> QED BY <1>1, <2>1 DEF Prepared
<1>3. ASSUME NEW k \in 1 .. n - 1, NEW slot \in Needed[rest[k]], slot \notin known
      PROVE  \/ Creates(Head(todo)) /\ slot = Head(todo).binding
             \/ slot \in CreatedBefore(rest, k)
  <2>1. PICK j \in 1 .. k : Creates(todo[j]) /\ slot = todo[j].binding
    <3>1. k + 1 \in DOMAIN todo /\ slot \in Needed[todo[k + 1]] /\ (k + 1) - 1 = k
      BY <1>1, <1>3
    <3> QED BY <1>3, <3>1 DEF Prepared, CreatedBefore
  <2>2. CASE j = 1
    BY <1>1, <2>1, <2>2
  <2>3. CASE j # 1
    <3>1. j - 1 \in 1 .. k - 1 /\ todo[j] = rest[j - 1]
      BY <1>1, <1>3, <2>3
    <3> QED BY <2>1, <3>1 DEF CreatedBefore
  <2> QED BY <2>2, <2>3
<1>4. ~Creates(Head(todo)) => Prepared(rest, known)
  BY <1>1, <1>3 DEF Prepared
<1>5. Prepared(rest, known \cup {Head(todo).binding})
  BY <1>1, <1>3 DEF Prepared
<1> QED BY <1>2, <1>4, <1>5

LEMMA PreparedConcat ==
  ASSUME NEW s \in Seq(Changes), NEW t \in Seq(Changes), NEW known, NEW needed, needed \subseteq known,
         Prepared(s, needed), Prepared(t, known)
  PROVE  Prepared(s \o t, known)
<1> PICK m, n, u : m = Len(s) /\ n = Len(t) /\ u = s \o t
  OBVIOUS
<1>1. /\ m \in Nat /\ n \in Nat /\ DOMAIN s = 1 .. m /\ DOMAIN t = 1 .. n /\ DOMAIN u = 1 .. m + n
      /\ \A k \in 1 .. m + n : u[k] = IF k <= m THEN s[k] ELSE t[k - m]
  BY ConcatProperties, LenProperties
<1>2. ASSUME NEW k \in 1 .. m + n, NEW slot \in Needed[u[k]], slot \notin known
      PROVE  slot \in CreatedBefore(u, k)
  <2>1. CASE k <= m
    <3>1. PICK j \in 1 .. k - 1 : Creates(s[j]) /\ slot = s[j].binding
      <4>1. k \in DOMAIN s /\ slot \in Needed[s[k]] /\ slot \notin needed
        BY <1>1, <1>2, <2>1
      <4> QED BY <4>1 DEF Prepared, CreatedBefore
    <3>2. u[j] = s[j]
      BY <1>1, <2>1
    <3> QED BY <3>1, <3>2 DEF CreatedBefore
  <2>2. CASE ~(k <= m)
    <3>1. k - m \in DOMAIN t /\ u[k] = t[k - m]
      BY <1>1, <2>2
    <3>2. PICK j \in 1 .. (k - m) - 1 : Creates(t[j]) /\ slot = t[j].binding
      BY <1>2, <3>1 DEF Prepared, CreatedBefore
    <3>3. j + m \in 1 .. k - 1 /\ u[j + m] = t[j]
      BY <1>1, <2>2
    <3> QED BY <3>2, <3>3 DEF CreatedBefore
  <2> QED BY <2>1, <2>2
<1>3. \A k \in DOMAIN u : Needed[u[k]] \subseteq known \cup CreatedBefore(u, k)
  BY <1>1, <1>2
<1> QED BY <1>3 DEF Prepared

\* The solution that is applied.
Chosen == IF how = "splinter" THEN branch ELSE 1

Beginning == State(Rule.apply, Abstract!SolutionsOf(at)[Chosen], heap, tx.first, TRUE)

\* What has been written agrees with the environment of such an attempt where
\* the operations that are left may look, and what they come to is what the
\* whole apply part comes to.
Follows(env, known) ==
  /\ env \in Envs
  /\ Alike(bindings, env, known)
  /\ phase = "apply" => Prepared(tx.todo, known)
  /\ Abstract!Apply[Beginning] =
       Abstract!Apply[State(tx.todo, env, tx.heap, nextId, phase = "apply")]

AsPromised ==
  Attempting =>
    /\ Chosen \in 1 .. Len(Abstract!SolutionsOf(at))
    /\ tx.first \in Nat \ {0} /\ tx.first <= nextId
    /\ \E env \in Envs, known \in SUBSET Binding : Follows(env, known)

\* The environments are those of a whole run.
LEMMA FreshIsStorage == Abstract!Fresh = Storage
  BY DEF Abstract!Fresh, Storage

\* The search reports the solutions that there are from the arguments alone.
LEMMA FindsPromised ==
  ASSUME Shape, Typing, Called, at \in DOMAIN rules
  PROVE  /\ Found \in Seq(Envs) /\ Abstract!SolutionsOf(at) \in Seq(Envs)
         /\ Len(Found) = Len(Abstract!SolutionsOf(at))
         /\ \A k \in 1 .. Len(Found) :
              Alike(Found[k], Abstract!SolutionsOf(at)[k], Visible(Rule.select))
<1> PICK p : p = Rule.select
  OBVIOUS
<1>1. IsSelect(p, Inputs) /\ heap \in Spaces /\ bindings \in Envs /\ Storage \in Envs
  BY RuleShape, StorageType DEF Typing, Called
<1>2. /\ Found = Solutions(p, bindings, heap)
      /\ Abstract!SolutionsOf(at) = Solutions(p, Storage, heap)
  BY FreshIsStorage, SolutionsInFiring DEF Found, Abstract!SolutionsOf, Rule
<1>3. Solutions(p, bindings, heap) \in Seq(Envs) /\ Solutions(p, Storage, heap) \in Seq(Envs)
  <2>1. ASSUME NEW e \in Envs
        PROVE  Solutions(p, e, heap) \in Seq(Envs)
    <3>1. Solutions(p, e, heap) \in Seq({x \in Envs : Alike(x, e, Inputs)})
      BY <1>1, Finds
    <3> QED BY <3>1, ElementOfSeq, SeqDef
  <2> QED BY <1>1, <2>1
<1>4. /\ Len(Solutions(p, bindings, heap)) = Len(Solutions(p, Storage, heap))
      /\ \A k \in 1 .. Len(Solutions(p, bindings, heap)) :
           Alike(Solutions(p, bindings, heap)[k], Solutions(p, Storage, heap)[k], Visible(p))
  BY <1>1, InputsAssumption, FindsAlike DEF Called
<1> QED BY <1>2, <1>3, <1>4

\* Where the loop over the rules is, and which rules it has passed over.
Order ==
  /\ phase = "call" => at = 1 /\ last = 0
  /\ phase \in {"call", "rule"} /\ how = "splinter" => branch = 0
  /\ phase \in {"branch", "control"} /\ how = "splinter" => branch <= Len(Abstract!SolutionsOf(at))
  /\ phase = "branch" => how = "splinter"
  /\ phase = "control" => last = at /\ how # "first"
  /\ last # 0 => last \in DOMAIN rules /\ count # 0 /\ fired[last] # 0
  /\ last # 0 => how # "first" \/ phase = "fired"
  /\ last # 0 /\ how = "rule_saturation" => last <= at

Passed ==
  phase \in {"rule", "apply", "refused"} /\ how # "splinter" =>
    \A r \in Abstract!From .. at - 1 : Abstract!PassedOver(r)

\* An attempt begins as promised.
LEMMA BeginsAsPromised ==
  ASSUME Shape, Typing, Order, UNCHANGED <<rules, how, args, limits>>, Match \/ NextSolution
  PROVE  AsPromised'
<1>1. /\ phase \in {"rule", "branch"} /\ at \in DOMAIN rules /\ Called
      /\ UNCHANGED <<heap, at, nextId>> /\ phase' = "apply"
  BY DEF Match, NextSolution, StartApply, Shape, Typing, Results
<1>2. /\ Found \in Seq(Envs) /\ Abstract!SolutionsOf(at) \in Seq(Envs)
      /\ Len(Found) = Len(Abstract!SolutionsOf(at))
      /\ \A n \in 1 .. Len(Found) :
           Alike(Found[n], Abstract!SolutionsOf(at)[n], Visible(Rule.select))
  BY <1>1, FindsPromised
<1>3. Chosen' \in 1 .. Len(Found) /\ StartApply(Found[Chosen'])
  <2>1. CASE Match
    <3>1. Chosen' = 1
      BY <2>1 DEF Chosen, Match
    <3>2. Head(Found) = Found[1] /\ 1 \in 1 .. Len(Found)
      BY <1>2, <2>1, EmptySeq, HeadTailProperties, LenProperties DEF Match
    <3> QED BY <2>1, <3>1, <3>2 DEF Match
  <2>2. CASE NextSolution
    <3>1. Chosen' = branch + 1
      BY <2>2 DEF Chosen, NextSolution, Order
    <3>2. branch + 1 \in 1 .. Len(Found)
      BY <1>2, <2>2, LenProperties DEF NextSolution, Shape
    <3> QED BY <2>2, <3>1, <3>2 DEF NextSolution
  <2> QED BY <2>1, <2>2
<1> PICK k, p, sols, found, apply, h, id :
      /\ k = Chosen' /\ p = Rule.select /\ sols = Abstract!SolutionsOf(at) /\ found = Found
      /\ apply = Rule.apply /\ h = heap /\ id = nextId
  OBVIOUS
<1>4. PICK left \in [Written(p) \ Visible(p) -> Leftover] :
        bindings' = Left(found[k], Visible(p), left)
  BY <1>3 DEF StartApply
<1>5. Alike(bindings', sols[k], Visible(p) \cap Binding)
  <2>1. Alike(Left(found[k], Visible(p), left), found[k], Visible(p) \cap Binding)
    <3>1. IsSelect(p, Inputs) /\ bindings \in Envs /\ found[k] \in Envs
      BY <1>1, <1>2, <1>3, RuleShape, ElementOfSeq DEF Typing
    <3> QED BY <3>1, LeftType
  <2>2. Alike(found[k], sols[k], Visible(p))
    BY <1>2, <1>3
  <2> QED BY <1>4, <2>1, <2>2 DEF Alike
<1>6. Visible(p) \subseteq Binding
  <2>1. IsSelect(p, Inputs)
    BY <1>1, RuleShape DEF Typing
  <2>2. Written(p) \subseteq Binding
    BY <2>1, WritesOwn
  <2> QED BY <2>2, InputsAssumption DEF Visible, Written
<1>7. tx' = [heap |-> h, todo |-> apply, first |-> id]
  BY <1>3 DEF StartApply
<1>8. Abstract!SolutionsOf(at)' = sols /\ Rule' = Rule /\ Chosen' = k /\ heap' = h /\ nextId' = id
  BY <1>1 DEF Abstract!SolutionsOf, Abstract!Fresh, Rule
<1>9. sols[k] \in Envs /\ k \in 1 .. Len(sols)
  BY <1>2, <1>3, ElementOfSeq
<1>10. Prepared(apply, Visible(p))
  BY <1>1, RuleShape DEF Typing
<1>11. id \in Nat \ {0}
  BY DEF Typing
<1>12. Follows(sols[k], Visible(p))'
  <2>1. Alike(bindings', sols[k], Visible(p))
    BY <1>5, <1>6 DEF Alike
  <2>2. Beginning' = State(apply, sols[k], h, id, TRUE)
    BY <1>7, <1>8 DEF Beginning
  <2>3. State(tx.todo, sols[k], tx.heap, nextId, phase = "apply")' = State(apply, sols[k], h, id, TRUE)
    BY <1>1, <1>7, <1>8
  <2>4. Abstract!Apply' = Abstract!Apply
    BY DEF Abstract!Apply
  <2> QED BY <1>1, <1>7, <1>9, <1>10, <2>1, <2>2, <2>3, <2>4 DEF Follows
<1>13. \E env \in Envs, known \in SUBSET Binding : Follows(env, known)'
  BY <1>6, <1>9, <1>12
<1>14. tx.first' = id /\ Chosen' \in 1 .. Len(Abstract!SolutionsOf(at)')
  BY <1>7, <1>8, <1>9
<1> QED BY <1>8, <1>11, <1>13, <1>14 DEF AsPromised

\* What an operation takes from the storage is what it would take then.
LEMMA UsesAlike ==
  ASSUME NEW c \in Changes, NEW e, NEW f, NEW known, Alike(e, f, known), Needed[c] \subseteq known
  PROVE  /\ c.op \in {"Add", "Remove"} =>
              e[c.binding] = f[c.binding] /\ Operand(c.value, e) = Operand(c.value, f)
         /\ c.op = "CreateTuple" => \A i \in DOMAIN c.items :
              Operand(c.items[i], e) = Operand(c.items[i], f)
<1>1. Uses(c) \subseteq known
  BY ChangeShape DEF IsChange
<1>2. ASSUME NEW o, SlotsOf({o}) \subseteq known
      PROVE  Operand(o, e) = Operand(o, f)
  BY <1>2 DEF SlotsOf, Operand, Alike
<1>3. ASSUME c.op \in {"Add", "Remove"}
      PROVE  e[c.binding] = f[c.binding] /\ Operand(c.value, e) = Operand(c.value, f)
  <2>1. Uses(c) = {c.binding} \cup SlotsOf({c.value})
    BY <1>3 DEF Uses
  <2> QED BY <1>1, <1>2, <2>1 DEF Alike
<1>4. ASSUME c.op = "CreateTuple", NEW i \in DOMAIN c.items
      PROVE  Operand(c.items[i], e) = Operand(c.items[i], f)
  <2>1. Uses(c) = SlotsOf(Range(c.items))
    BY <1>4 DEF Uses
  <2>2. SlotsOf({c.items[i]}) \subseteq SlotsOf(Range(c.items))
    BY <1>4 DEF SlotsOf, Range
  <2> QED BY <1>1, <1>2, <2>1, <2>2
<1> QED BY <1>3, <1>4

LEMMA StateExcept ==
  ASSUME NEW todo, NEW env, NEW h, NEW id, NEW ok, NEW v
  PROVE  /\ WithTodo(State(todo, env, h, id, ok), v) = State(v, env, h, id, ok)
         /\ WithEnv(State(todo, env, h, id, ok), v) = State(todo, v, h, id, ok)
         /\ WithHeap(State(todo, env, h, id, ok), v) = State(todo, env, v, id, ok)
         /\ WithId(State(todo, env, h, id, ok), v) = State(todo, env, h, v, ok)
<1>1. WithTodo(State(todo, env, h, id, ok), v) = State(v, env, h, id, ok)
  BY DEF State, WithTodo
<1>2. WithEnv(State(todo, env, h, id, ok), v) = State(todo, v, h, id, ok)
  BY DEF State, WithEnv
<1>3. WithHeap(State(todo, env, h, id, ok), v) = State(todo, env, v, id, ok)
  BY DEF State, WithHeap
<1>4. WithId(State(todo, env, h, id, ok), v) = State(todo, env, h, v, ok)
  BY DEF State, WithId
<1> QED BY <1>1, <1>2, <1>3, <1>4

WithSlot(env, c, v) == [env EXCEPT ![c.binding] = v]
WithAttribute(h, env, c, v) == [h EXCEPT ![env[c.binding]][c.attribute] = v]

Parts(s, todo, env, h, id, ok) ==
  /\ s.todo = todo /\ s.env = env /\ s.heap = h /\ s.nextId = id /\ s.ok = ok
  /\ Abstract!Failed(s) = State(todo, env, h, id, FALSE)
  /\ \A v : WithTodo(s, v) = State(v, env, h, id, ok)
  /\ \A c, v, n : BindsTo(s, c, v, n) = State(Tail(todo), WithSlot(env, c, v), h, id + n, ok)
  /\ \A c, v : AddsTo(s, c, v) = State(Tail(todo), env, WithAttribute(h, env, c, v), id, ok)

LEMMA StateParts ==
  ASSUME NEW todo, NEW env, NEW h, NEW id, NEW ok, NEW s, s = State(todo, env, h, id, ok)
  PROVE  Parts(s, todo, env, h, id, ok)
<1>1. s.todo = todo /\ s.env = env /\ s.heap = h /\ s.nextId = id /\ s.ok = ok
  BY DEF State
<1>2. Abstract!Failed(s) = State(todo, env, h, id, FALSE)
  <2> PICK no : no = FALSE
    OBVIOUS
  <2>1. [s EXCEPT !.ok = no] = State(todo, env, h, id, no)
    BY DEF State
  <2> QED BY <2>1 DEF Abstract!Failed
<1>3. ASSUME NEW v
      PROVE  WithTodo(s, v) = State(v, env, h, id, ok)
  BY StateExcept
<1>4. ASSUME NEW c, NEW v, NEW n
      PROVE  BindsTo(s, c, v, n) = State(Tail(todo), WithSlot(env, c, v), h, id + n, ok)
  <2> PICK t, e, m : t = Tail(todo) /\ e = WithSlot(env, c, v) /\ m = id + n
    OBVIOUS
  <2>1. WithId(WithEnv(WithTodo(s, t), e), m) = State(t, e, h, m, ok)
    BY StateExcept
  <2>2. BindsTo(s, c, v, n) = [s EXCEPT !.todo = t, !.env = e, !.nextId = m]
    BY <1>1, Zenon DEF BindsTo, WithSlot
  <2>3. [s EXCEPT !.todo = t, !.env = e, !.nextId = m] = WithId(WithEnv(WithTodo(s, t), e), m)
    BY Zenon DEF WithId, WithEnv, WithTodo
  <2> QED BY <2>1, <2>2, <2>3, Zenon
<1>5. ASSUME NEW c, NEW v
      PROVE  AddsTo(s, c, v) = State(Tail(todo), env, WithAttribute(h, env, c, v), id, ok)
  <2> PICK t, g : t = Tail(todo) /\ g = WithAttribute(h, env, c, v)
    OBVIOUS
  <2>1. WithHeap(WithTodo(s, t), g) = State(t, env, g, id, ok)
    BY StateExcept
  <2>2. AddsTo(s, c, v) = [s EXCEPT !.todo = t, !.heap = g]
    BY <1>1, Zenon DEF AddsTo, WithAttribute
  <2>3. [s EXCEPT !.todo = t, !.heap = g] = WithHeap(WithTodo(s, t), g)
    BY Zenon DEF WithHeap, WithTodo
  <2> QED BY <2>1, <2>2, <2>3, Zenon
<1> QED BY <1>1, <1>2, <1>3, <1>4, <1>5, Zenon DEF Parts

\* The operations of the apply part do to the transaction what they would do.
LEMMA ChangeFollows ==
  ASSUME Shape, Typing, AsPromised, UNCHANGED <<rules, how, args, limits>>,
         CreateObject \/ CreateTuple \/ AddAttribute \/ RemoveAttribute \/ Conditional
  PROVE  AsPromised'
<1>1. /\ phase = "apply" /\ tx.todo # <<>> /\ tx \in Transactions
      /\ phase' \in {"apply", "refused"} /\ UNCHANGED <<heap, at, branch>>
  BY DEF CreateObject, CreateTuple, AddAttribute, RemoveAttribute, Conditional, Applying,
         Typing, Attempting, Go, Refuse
<1> PICK env \in Envs, known \in SUBSET Binding : Follows(env, known)
  BY <1>1 DEF AsPromised, Attempting
<1> PICK c, rest, h, id, todo, start :
      /\ c = Todo /\ rest = Tail(tx.todo) /\ h = tx.heap /\ id = nextId /\ todo = tx.todo
      /\ start = Beginning
  OBVIOUS
<1> DEFINE s == State(todo, env, h, id, TRUE)
<1>2. /\ h \in Spaces /\ todo \in Seq(Changes) /\ todo # <<>>
      /\ c = Head(todo) /\ rest = Tail(todo) /\ c \in Changes /\ rest \in Seq(Changes)
      /\ IsChange(c) /\ Needed[c] \in SUBSET Binding
      /\ id \in Nat \ {0} /\ bindings \in Envs
  BY <1>1, HeadTailProperties, ChangeShape DEF Transactions, Todo, Typing
<1>3. /\ Alike(bindings, env, known) /\ Prepared(todo, known)
      /\ Abstract!Apply[start] = Abstract!Apply[s]
  BY <1>1 DEF Follows
<1>4. /\ Needed[c] \subseteq known
      /\ ~Creates(c) => Prepared(rest, known)
      /\ Prepared(rest, known \cup {c.binding})
  <2>1. /\ Needed[Head(todo)] \subseteq known
        /\ ~Creates(Head(todo)) => Prepared(Tail(todo), known)
        /\ Prepared(Tail(todo), known \cup {Head(todo).binding})
    <3>1. todo \in Seq(Changes) /\ todo # <<>> /\ Prepared(todo, known)
      BY <1>2, <1>3
    <3> QED BY <3>1, PreparedTail
  <2>2. c = Head(todo) /\ rest = Tail(todo)
    BY <1>2
  <2> QED BY <2>1, <2>2, Zenon
<1>5. s \in Abstract!States /\ ~Abstract!Over(s)
  BY <1>2, StatesAre DEF State
<1>6. Abstract!Apply[start] = Abstract!Apply[Abstract!Once(s)] /\ ByOperation(s, c)
  <2>1. Abstract!Apply[s] = Abstract!Apply[Abstract!Once(s)]
    BY <1>5, ApplyEquation
  <2>2. ByOperation(s, Head(s.todo)) /\ Head(s.todo) = c
    BY <1>2, OnceByOperation DEF State
  <2> QED BY <1>3, <2>1, <2>2
<1>7. /\ s.todo = todo /\ s.env = env /\ s.heap = h /\ s.nextId = id
      /\ Abstract!Failed(s) = State(todo, env, h, id, FALSE)
      /\ \A v : WithTodo(s, v) = State(v, env, h, id, TRUE)
      /\ \A v, n : BindsTo(s, c, v, n) = State(rest, WithSlot(env, c, v), h, id + n, TRUE)
      /\ \A v : AddsTo(s, c, v) = State(rest, env, WithAttribute(h, env, c, v), id, TRUE)
  <2>1. rest = Tail(todo)
    BY <1>2
  <2>2. Parts(s, todo, env, h, id, TRUE)
    BY StateParts
  <2> HIDE DEF s
  <2> QED BY <2>1, <2>2, Zenon DEF Parts
<1>8. tx = [heap |-> h, todo |-> todo, first |-> tx.first]
  BY <1>1 DEF Transactions
<1> HIDE DEF s
<1>9. ASSUME NEW e \in Envs, NEW more \in SUBSET Binding,
             Alike(bindings', e, more), phase' = "apply" => Prepared(tx'.todo, more),
             tx'.first = tx.first, nextId' \in Nat, nextId <= nextId',
             Abstract!Once(s) = State(tx'.todo, e, tx'.heap, nextId', phase' = "apply")
      PROVE  AsPromised'
  <2>1. Abstract!SolutionsOf(at)' = Abstract!SolutionsOf(at) /\ Rule' = Rule /\ Chosen' = Chosen
    BY <1>1 DEF Abstract!SolutionsOf, Abstract!Fresh, Rule, Chosen
  <2>2. Beginning' = start
    BY <1>1, <1>9, <2>1 DEF Beginning
  <2>3. Abstract!Apply' = Abstract!Apply
    BY DEF Abstract!Apply
  <2>4. Abstract!Apply[start] = Abstract!Apply[State(tx'.todo, e, tx'.heap, nextId', phase' = "apply")]
    BY <1>6, <1>9, Zenon
  <2>5. Follows(e, more)'
    BY <1>9, <2>2, <2>3, <2>4 DEF Follows
  <2>6. Chosen \in 1 .. Len(Abstract!SolutionsOf(at)) /\ tx.first \in Nat \ {0} /\ tx.first <= nextId
    BY <1>1 DEF AsPromised, Attempting
  <2>7. tx'.first \in Nat \ {0} /\ tx'.first <= nextId'
    BY <1>2, <1>9, <2>6
  <2>8. Chosen' \in 1 .. Len(Abstract!SolutionsOf(at)')
    BY <2>1, <2>6
  <2>9. \E x \in Envs, y \in SUBSET Binding : Follows(x, y)'
    BY <1>9, <2>5
  <2> QED BY <2>7, <2>8, <2>9 DEF AsPromised
<1>10. Alike(bindings, env, known) /\ id = nextId /\ id \in Nat
  BY <1>2, <1>3
<1>11. ASSUME Creates(c), NEW v \in Value
       PROVE  /\ [env EXCEPT ![c.binding] = v] \in Envs
              /\ known \cup {c.binding} \in SUBSET Binding
              /\ Alike([bindings EXCEPT ![c.binding] = v], [env EXCEPT ![c.binding] = v],
                       known \cup {c.binding})
  <2>1. c.binding \in Binding
    BY <1>2, <1>11 DEF IsChange
  <2> QED BY <1>2, <1>10, <2>1 DEF Envs, Alike
<1>12. CASE CreateObject
  <2> PICK v : v = IdSequence[id]
    OBVIOUS
  <2>1. /\ c.op = "CreateObject" /\ Creates(c) /\ id <= Len(IdSequence) /\ nextId' = id + 1
        /\ bindings' = [bindings EXCEPT ![c.binding] = v]
        /\ tx' = [tx EXCEPT !.heap = h, !.todo = rest] /\ phase' = "apply"
    BY <1>1, <1>12 DEF CreateObject, Applying, Creates, Go
  <2>2. v \in Value
    <3>1. IdSequence \in Seq(Object) /\ id \in 1 .. Len(IdSequence)
      BY <1>2, <2>1, ValuesAssumption, LenProperties
    <3> QED BY <3>1, ElementOfSeq, ObjectAssumption
  <2>3. Abstract!Once(s) = State(rest, [env EXCEPT ![c.binding] = v], h, id + 1, TRUE)
    <3>1. Abstract!Once(s) = IF s.nextId > Len(IdSequence) THEN Abstract!Failed(s)
                             ELSE BindsTo(s, c, IdSequence[s.nextId], 1)
      BY <1>6, <2>1, Zenon DEF ByOperation
    <3>2. ~(s.nextId > Len(IdSequence))
      <4>1. s.nextId = id /\ IdSequence \in Seq(Object)
        BY <1>7, ValuesAssumption
      <4> QED BY <1>2, <2>1, <4>1, LenProperties
    <3>3. s.nextId = id /\ BindsTo(s, c, v, 1) = State(rest, [env EXCEPT ![c.binding] = v], h, id + 1, TRUE)
      BY <1>7 DEF WithSlot
    <3> QED BY <3>1, <3>2, <3>3
  <2>4. tx'.todo = rest /\ tx'.heap = h /\ tx'.first = tx.first
    BY <1>8, <2>1
  <2>5. id + 1 \in Nat /\ id <= id + 1
    BY <1>10
  <2> QED BY <1>4, <1>9, <1>10, <1>11, <2>1, <2>2, <2>3, <2>4, <2>5
<1>13. CASE CreateTuple
  <2>1. PICK v \in DOMAIN tupleItems :
          /\ tupleItems[v] = [i \in DOMAIN c.items |-> Operand(c.items[i], bindings)]
          /\ bindings' = [bindings EXCEPT ![c.binding] = v]
    BY <1>13 DEF CreateTuple
  <2>2. /\ c.op = "CreateTuple" /\ Creates(c) /\ nextId' = id
        /\ tx' = [tx EXCEPT !.heap = h, !.todo = rest] /\ phase' = "apply"
    BY <1>1, <1>13 DEF CreateTuple, Applying, Creates, Go
  <2>3. v \in Value
    BY ValuesAssumption
  <2>4. Abstract!Once(s) = State(rest, [env EXCEPT ![c.binding] = v], h, id, TRUE)
    <3>1. \A i \in DOMAIN c.items : Operand(c.items[i], bindings) = Operand(c.items[i], s.env)
      <4>1. s.env = env
        BY <1>7
      <4> QED BY <1>2, <1>4, <1>10, <2>2, <4>1, UsesAlike
    <3>2. tupleItems[v] = [i \in DOMAIN c.items |-> Operand(c.items[i], s.env)]
      BY <2>1, <3>1
    <3>3. Abstract!Once(s) = BindsTo(s, c, v, 0)
      BY <1>6, <2>2, <3>2, Zenon DEF ByOperation
    <3>4. id + 0 = id
      BY <1>10
    <3>5. BindsTo(s, c, v, 0) = State(rest, [env EXCEPT ![c.binding] = v], h, id + 0, TRUE)
      BY <1>7 DEF WithSlot
    <3> QED BY <3>3, <3>4, <3>5
  <2>5. tx'.todo = rest /\ tx'.heap = h /\ tx'.first = tx.first
    BY <1>8, <2>2
  <2> PICK e, more : e = [env EXCEPT ![c.binding] = v] /\ more = known \cup {c.binding}
    OBVIOUS
  <2>6. e \in Envs /\ more \in SUBSET Binding /\ Alike(bindings', e, more)
    BY <1>11, <2>1, <2>2, <2>3
  <2>7. Prepared(tx'.todo, more) /\ nextId' \in Nat /\ nextId <= nextId'
    BY <1>4, <1>10, <2>2, <2>5
  <2>8. Abstract!Once(s) = State(tx'.todo, e, tx'.heap, nextId', phase' = "apply")
    BY <2>2, <2>4, <2>5
  <2> QED BY <1>9, <2>5, <2>6, <2>7, <2>8
<1>14. ASSUME ~Creates(c), UNCHANGED <<bindings, nextId>>, tx'.first = tx.first,
              \/ phase' = "refused" /\ tx' = tx /\ Abstract!Once(s) = State(todo, env, h, id, FALSE)
              \/ /\ phase' = "apply" /\ Prepared(tx'.todo, known)
                 /\ Abstract!Once(s) = State(tx'.todo, env, tx'.heap, id, TRUE)
       PROVE  AsPromised'
  <2>1. Abstract!Once(s) = State(tx'.todo, env, tx'.heap, nextId', phase' = "apply")
    BY <1>8, <1>10, <1>14
  <2>2. Alike(bindings', env, known) /\ nextId' \in Nat /\ nextId <= nextId'
    BY <1>10, <1>14
  <2>3. phase' = "apply" => Prepared(tx'.todo, known)
    BY <1>14
  <2> QED BY <1>9, <1>14, <2>1, <2>2, <2>3
<1>15. CASE AddAttribute
  <2> PICK o, a, v : o = bindings[c.binding] /\ a = c.attribute /\ v = Operand(c.value, bindings)
    OBVIOUS
  <2>1. c.op = "Add" /\ ~Creates(c) /\ UNCHANGED <<bindings, nextId>>
    BY <1>15 DEF AddAttribute, Applying, Creates
  <2>2. o = env[c.binding] /\ v = Operand(c.value, env)
    BY <1>2, <1>4, <1>10, <2>1, UsesAlike
  <2>3. Abstract!Once(s) = IF s.env[c.binding] \notin Object THEN Abstract!Failed(s)
                           ELSE AddsTo(s, c, Append(s.heap[s.env[c.binding]][c.attribute], Operand(c.value, s.env)))
    BY <1>6, <2>1, Zenon DEF ByOperation
  <2>4. CASE o \notin Object
    <3>1. phase' = "refused" /\ tx' = tx
      BY <1>15, <2>4 DEF AddAttribute, Refuse
    <3>2. Abstract!Once(s) = State(todo, env, h, id, FALSE)
      BY <1>7, <2>2, <2>3, <2>4
    <3> QED BY <1>14, <2>1, <3>1, <3>2
  <2>5. CASE o \in Object
    <3> PICK x, next : x = Append(h[o][a], v) /\ next = [h EXCEPT ![o][a] = x]
      OBVIOUS
    <3>1. tx' = [tx EXCEPT !.heap = next, !.todo = rest] /\ phase' = "apply"
      BY <1>1, <1>15, <2>5 DEF AddAttribute, Go
    <3>2. tx'.todo = rest /\ tx'.heap = next /\ tx'.first = tx.first
      BY <1>8, <3>1
    <3>3. Abstract!Once(s) = State(rest, env, next, id, TRUE)
      <4>1. /\ s.env = env /\ s.heap = h
            /\ AddsTo(s, c, x) = State(rest, env, [h EXCEPT ![env[c.binding]][c.attribute] = x], id, TRUE)
        BY <1>7 DEF WithAttribute
      <4>2. Abstract!Once(s) = AddsTo(s, c, x)
        BY <2>2, <2>3, <2>5, <4>1
      <4> QED BY <2>2, <4>1, <4>2
    <3> QED BY <1>4, <1>14, <2>1, <3>1, <3>2, <3>3
  <2> QED BY <2>4, <2>5
<1>16. CASE RemoveAttribute
  <2> PICK o, a, v : o = bindings[c.binding] /\ a = c.attribute /\ v = Operand(c.value, bindings)
    OBVIOUS
  <2>1. c.op = "Remove" /\ ~Creates(c) /\ UNCHANGED <<bindings, nextId>>
    BY <1>16 DEF RemoveAttribute, Applying, Creates
  <2>2. o = env[c.binding] /\ v = Operand(c.value, env)
    BY <1>2, <1>4, <1>10, <2>1, UsesAlike
  <2>3. Abstract!Once(s) =
          IF \/ s.env[c.binding] \notin Object
             \/ c.required /\ Operand(c.value, s.env) \notin ToSet(s.heap[s.env[c.binding]][c.attribute])
          THEN Abstract!Failed(s)
          ELSE AddsTo(s, c, RemoveFirst(s.heap[s.env[c.binding]][c.attribute], Operand(c.value, s.env)))
    BY <1>6, <2>1, Zenon DEF ByOperation
  <2> PICK fits : fits = (o \in Object /\ (~c.required \/ v \in ToSet(h[o][a])))
    OBVIOUS
  <2>4. CASE ~fits
    <3>1. phase' = "refused" /\ tx' = tx
      BY <1>16, <2>4 DEF RemoveAttribute, Refuse
    <3>2. Abstract!Once(s) = State(todo, env, h, id, FALSE)
      BY <1>7, <2>2, <2>3, <2>4
    <3> QED BY <1>14, <2>1, <3>1, <3>2
  <2>5. CASE fits
    <3> PICK x, next : x = RemoveFirst(h[o][a], v) /\ next = [h EXCEPT ![o][a] = x]
      OBVIOUS
    <3>1. tx' = [tx EXCEPT !.heap = next, !.todo = rest] /\ phase' = "apply"
      BY <1>1, <1>16, <2>5 DEF RemoveAttribute, Go
    <3>2. tx'.todo = rest /\ tx'.heap = next /\ tx'.first = tx.first
      BY <1>8, <3>1
    <3>3. Abstract!Once(s) = State(rest, env, next, id, TRUE)
      <4>1. /\ s.env = env /\ s.heap = h
            /\ AddsTo(s, c, x) = State(rest, env, [h EXCEPT ![env[c.binding]][c.attribute] = x], id, TRUE)
        BY <1>7 DEF WithAttribute
      <4>2. Abstract!Once(s) = AddsTo(s, c, x)
        BY <2>2, <2>3, <2>5, <4>1
      <4> QED BY <2>2, <4>1, <4>2
    <3> QED BY <1>4, <1>14, <2>1, <3>1, <3>2, <3>3
  <2> QED BY <2>4, <2>5
<1>17. CASE Conditional
  <2>1. c.op = "Conditional" /\ ~Creates(c) /\ UNCHANGED <<bindings, nextId>>
    BY <1>17 DEF Conditional, Applying, Creates
  <2> PICK fails, taken :
        /\ fails = (Solutions(c.condition, bindings, h) = <<>>)
        /\ taken = IF fails THEN c.otherwise_apply ELSE c.then_apply
    OBVIOUS
  <2>2. tx' = [tx EXCEPT !.heap = h, !.todo = taken \o rest] /\ phase' = "apply"
    BY <1>1, <1>17 DEF Conditional, Go
  <2>3. /\ IsSelect(c.condition, Needed[c])
        /\ taken \in Seq(Changes) /\ Prepared(taken, Needed[c])
    BY <1>2, <2>1 DEF IsChange
  <2>4. fails <=> Solutions(c.condition, env, h) = <<>>
    <3>1. Alike(bindings, env, Needed[c])
      BY <1>4, <1>10 DEF Alike
    <3>2. IsSelect(c.condition, Needed[c]) /\ Needed[c] \subseteq Binding
      BY <1>2, <2>3
    <3> QED BY <1>2, <3>1, <3>2, FindsAsMany
  <2>5. Abstract!Once(s) = State(taken \o rest, env, h, id, TRUE)
    <3>1. Abstract!Once(s) =
            WithTodo(s, (IF Solutions(c.condition, s.env, s.heap) = <<>>
                           THEN c.otherwise_apply ELSE c.then_apply) \o Tail(s.todo))
      BY <1>6, <2>1, Zenon DEF ByOperation
    <3>2. Abstract!Once(s) = WithTodo(s, taken \o Tail(s.todo))
      BY <1>7, <2>4, <3>1
    <3>3. s.todo = todo /\ rest = Tail(todo) /\ \A v : WithTodo(s, v) = State(v, env, h, id, TRUE)
      BY <1>2, <1>7
    <3> QED BY <3>2, <3>3, Zenon
  <2>6. Prepared(taken \o rest, known)
    BY <1>2, <1>4, <2>1, <2>3, PreparedConcat
  <2>7. tx'.todo = taken \o rest /\ tx'.heap = h /\ tx'.first = tx.first
    BY <1>8, <2>2
  <2> QED BY <1>14, <2>1, <2>2, <2>5, <2>6, <2>7
<1> QED BY <1>12, <1>13, <1>15, <1>16, <1>17

-----------------------------------------------------------------------------
(* The loop over the rules.                                                *)

\* What is found, and what comes of it, depends on the rules, the arguments and
\* the space.
LEMMA SameSearches ==
  ASSUME UNCHANGED <<rules, args, heap>>
  PROVE  /\ \A r : Abstract!SolutionsOf(r)' = Abstract!SolutionsOf(r)
         /\ \A r, k, id : Abstract!Attempt(r, k, id)' = Abstract!Attempt(r, k, id)
         /\ \A r, id : Abstract!CanFire(r, id)' <=> Abstract!CanFire(r, id)
<1>1. \A r : Abstract!SolutionsOf(r)' = Abstract!SolutionsOf(r)
  BY DEF Abstract!SolutionsOf, Abstract!Fresh
<1>2. Abstract!Apply' = Abstract!Apply
  BY DEF Abstract!Apply
<1>3. \A r, k, id : Abstract!Attempt(r, k, id)' = Abstract!Attempt(r, k, id)
  BY <1>1, <1>2 DEF Abstract!Attempt
<1>4. \A r, id : Abstract!CanFire(r, id)' <=> Abstract!CanFire(r, id)
  BY <1>1, <1>3, Zenon DEF Abstract!CanFire
<1> QED BY <1>1, <1>3, <1>4

LEMMA FirstIdType ==
  ASSUME Typing, AsPromised
  PROVE  /\ FirstId \in Nat \ {0} /\ nextId \in Nat \ {0} /\ FirstId <= nextId
         /\ ~Attempting => FirstId = nextId
<1>1. nextId \in Nat \ {0}
  BY DEF Typing
<1> QED BY <1>1 DEF AsPromised, FirstId

\* A rule that was passed over stays passed over until one fires.
LEMMA PassedStays ==
  ASSUME UNCHANGED <<rules, args, heap>>, FirstId \in Nat, FirstId' \in Nat, FirstId <= FirstId'
  PROVE  \A r : Abstract!PassedOver(r) => Abstract!PassedOver(r)'
<1> SUFFICES ASSUME NEW r, Abstract!PassedOver(r)
             PROVE  Abstract!PassedOver(r)'
  OBVIOUS
<1>1. PICK id \in 1 .. FirstId : ~Abstract!CanFire(r, id)
  BY DEF Abstract!PassedOver
<1>2. id \in 1 .. FirstId' /\ ~Abstract!CanFire(r, id)'
  BY <1>1, SameSearches
<1> QED BY <1>2 DEF Abstract!PassedOver

\* Without solutions a rule cannot fire.
LEMMA NoneFound ==
  ASSUME Shape, Typing, AsPromised, NoMatch
  PROVE  Abstract!PassedOver(at)
<1>1. at \in DOMAIN rules /\ phase = "rule" /\ Called /\ Found = <<>>
  BY DEF NoMatch, Shape, Typing, Results
<1>2. Len(Found) = 0 /\ Len(Found) = Len(Abstract!SolutionsOf(at)) /\ Abstract!SolutionsOf(at) \in Seq(Envs)
  BY <1>1, FindsPromised
<1>3. Abstract!SolutionsOf(at) = <<>>
  BY <1>2, EmptySeq
<1>4. ~Abstract!CanFire(at, FirstId)
  BY <1>3 DEF Abstract!CanFire
<1>5. FirstId \in 1 .. FirstId
  BY FirstIdType
<1> QED BY <1>4, <1>5 DEF Abstract!PassedOver

\* What an attempt has come to when it ends.
LEMMA AttemptEnds ==
  ASSUME Shape, Typing, AsPromised, Attempting, phase = "apply" => tx.todo = <<>>
  PROVE  /\ Abstract!SolutionsOf(at) # <<>> /\ Chosen <= Len(Abstract!SolutionsOf(at))
         /\ Abstract!Attempt(at, Chosen, tx.first).ok <=> phase = "apply"
         /\ Abstract!Attempt(at, Chosen, tx.first).heap = tx.heap
         /\ Abstract!Attempt(at, Chosen, tx.first).nextId = nextId
<1> PICK env \in Envs, known \in SUBSET Binding : Follows(env, known)
  BY DEF AsPromised
<1> PICK ok, todo, h, id : ok = (phase = "apply") /\ todo = tx.todo /\ h = tx.heap /\ id = nextId
  OBVIOUS
<1> PICK s : s = State(todo, env, h, id, ok)
  OBVIOUS
<1>1. todo \in Seq(Changes) /\ h \in Spaces /\ id \in Nat \ {0} /\ ok \in BOOLEAN
  BY DEF Typing, Transactions
<1>2. s \in Abstract!States
  BY <1>1, StatesAre DEF State
<1>3. Abstract!Over(s)
  BY StatesAre DEF Attempting, State
<1>4. Abstract!Apply[Beginning] = s
  BY <1>2, <1>3, ApplyEquation DEF Follows
<1>5. Abstract!Attempt(at, Chosen, tx.first) = Abstract!Apply[Beginning]
  BY DEF Abstract!Attempt, Beginning, State, Rule
<1>6. Chosen \in 1 .. Len(Abstract!SolutionsOf(at))
  BY DEF AsPromised
<1>7. Abstract!SolutionsOf(at) # <<>> /\ Chosen <= Len(Abstract!SolutionsOf(at))
  <2>1. at \in DOMAIN rules /\ Called
    BY DEF Attempting, Shape, Typing, Results
  <2>2. Abstract!SolutionsOf(at) \in Seq(Envs)
    BY <2>1, FindsPromised
  <2> QED BY <1>6, <2>2, LenProperties, EmptySeq
<1>8. s.ok = ok /\ s.heap = h /\ s.nextId = id
  BY DEF State
<1> QED BY <1>4, <1>5, <1>7, <1>8

\* A rule that failed could not fire.
LEMMA Refused ==
  ASSUME Shape, Typing, AsPromised, phase = "refused", how # "splinter"
  PROVE  tx.first \in 1 .. nextId /\ ~Abstract!CanFire(at, tx.first)
<1>1. Attempting /\ Chosen = 1
  BY DEF Attempting, Chosen
<1>2. ~Abstract!Attempt(at, Chosen, tx.first).ok
  BY <1>1, AttemptEnds
<1>3. tx.first \in 1 .. nextId
  BY <1>1 DEF AsPromised, Typing
<1> QED BY <1>1, <1>2, <1>3 DEF Abstract!CanFire

\* The counters of an attempt under way belong to the rules before it.
LEMMA OrderOfSteps ==
  ASSUME Shape, Typing, AsPromised, Order, UNCHANGED <<rules, how, args, limits>>,
         \/ Call \/ NoMatch \/ Match \/ NoRuleLeft
         \/ StartSplinter \/ NextSolution \/ NoSolutionLeft
         \/ CreateObject \/ CreateTuple \/ AddAttribute \/ RemoveAttribute \/ Conditional
  PROVE  Order'
<1>1. UNCHANGED <<heap, count, last, fired>> /\ phase' \notin {"call", "control", "fired"}
      /\ phase \notin {"control", "fired"}
  BY DEF Call, NoMatch, Match, StartApply, NoRuleLeft, StartSplinter, NextSolution, NoSolutionLeft,
         CreateObject, CreateTuple, AddAttribute, RemoveAttribute, Conditional, Applying, Go, Refuse
<1>2. at' = at \/ at' = at + 1
  BY DEF Call, NoMatch, Match, StartApply, NoRuleLeft, StartSplinter, NextSolution, NoSolutionLeft,
         CreateObject, CreateTuple, AddAttribute, RemoveAttribute, Conditional
<1>3. /\ phase' = "branch" => StartSplinter
      /\ phase' = "rule" => Call \/ NoMatch \/ NoSolutionLeft
  BY DEF Call, NoMatch, Match, StartApply, NoRuleLeft, StartSplinter, NextSolution, NoSolutionLeft,
         CreateObject, CreateTuple, AddAttribute, RemoveAttribute, Conditional, Applying, Go, Refuse
<1>4. phase' = "branch" => how = "splinter" /\ branch' <= Len(Abstract!SolutionsOf(at))'
  <2> HAVE phase' = "branch"
  <2>1. /\ at \in DOMAIN rules /\ Called /\ branch' = 0 /\ UNCHANGED <<heap, at>>
        /\ how = "splinter"
    BY <1>3 DEF StartSplinter, Shape, Typing, Results
  <2>2. Len(Abstract!SolutionsOf(at)) \in Nat
    BY <2>1, FindsPromised, LenProperties
  <2>3. Abstract!SolutionsOf(at)' = Abstract!SolutionsOf(at)
    BY <2>1, SameSearches
  <2> QED BY <2>1, <2>2, <2>3
<1>5. phase' = "rule" /\ how = "splinter" => branch' = 0
  BY <1>3 DEF Order, Call, NoMatch, NoSolutionLeft
<1>6. last # 0 /\ how = "rule_saturation" => last <= at'
  BY <1>2 DEF Order, Shape
<1> QED BY <1>1, <1>4, <1>5, <1>6 DEF Order

LEMMA OrderOfEnds ==
  ASSUME Shape, Typing, AsPromised, Order, UNCHANGED <<rules, how, args, limits>>,
         Commit \/ Collect \/ Abort \/ Stop \/ Continue \/ CollectStops \/ CollectContinues
  PROVE  Order'
<1>1. at \in DOMAIN rules /\ at \in Nat /\ how \in Modes
  BY DEF Commit, Collect, Fire, Abort, Stop, Continue, CollectStops, CollectContinues, Shape
<1>2. CASE Commit \/ Collect
  <2>1. /\ phase = "apply" /\ UNCHANGED <<at, branch>> /\ count' = count + 1 /\ last' = at
        /\ fired' = [fired EXCEPT ![at] = @ + 1]
        /\ phase' = IF how = "first" THEN "fired" ELSE "control"
    BY <1>2 DEF Commit, Collect, Fire
  <2>2. count' # 0 /\ fired'[at] # 0
    BY <1>1, <2>1 DEF Shape
  <2>3. how = "splinter" => branch' <= Len(Abstract!SolutionsOf(at))'
    <3> HAVE how = "splinter"
    <3>1. UNCHANGED heap
      BY <1>2 DEF Commit, Collect
    <3>2. Abstract!SolutionsOf(at)' = Abstract!SolutionsOf(at)
      BY <2>1, <3>1, SameSearches
    <3>3. branch <= Len(Abstract!SolutionsOf(at))
      BY <2>1, AttemptEnds, <1>2 DEF Attempting, Chosen, Commit, Collect, Fire
    <3> QED BY <2>1, <3>2, <3>3
  <2> QED BY <1>1, <2>1, <2>2, <2>3 DEF Order
<1>3. CASE Abort
  <2>1. /\ phase = "refused" /\ UNCHANGED <<heap, branch, count, last, fired>>
        /\ IF how = "splinter" THEN phase' = "branch" /\ at' = at ELSE phase' = "rule" /\ at' = at + 1
    BY <1>3 DEF Abort
  <2>2. how = "splinter" => branch' <= Len(Abstract!SolutionsOf(at))'
    <3> HAVE how = "splinter"
    <3>1. Abstract!SolutionsOf(at)' = Abstract!SolutionsOf(at)
      BY <2>1, SameSearches
    <3>2. branch <= Len(Abstract!SolutionsOf(at))
      BY <2>1, AttemptEnds DEF Attempting, Chosen
    <3> QED BY <2>1, <3>1, <3>2
  <2>3. last # 0 /\ how = "rule_saturation" => last <= at'
    BY <1>1, <2>1 DEF Order, Shape
  <2> QED BY <2>1, <2>2, <2>3 DEF Order
<1>4. CASE Stop
  <2>1. phase = "control" /\ phase' = "stopped" /\ UNCHANGED <<at, count, last, fired>>
    BY <1>4 DEF Stop
  <2> QED BY <2>1 DEF Order
<1>5. CASE Continue
  <2>1. /\ phase = "control" /\ UNCHANGED <<heap, branch, count, last, fired>>
        /\ how # "splinter" /\ phase' = "rule"
        /\ at' = (IF how = "saturation" THEN 1 ELSE at)
    BY <1>5 DEF Continue
  <2> QED BY <1>1, <2>1 DEF Order
<1>6. CASE CollectStops \/ CollectContinues
  <2>1. /\ phase = "control" /\ how = "splinter" /\ phase' \in {"done", "branch"}
        /\ UNCHANGED <<heap, at, branch, count, last, fired>>
    BY <1>6 DEF CollectStops, CollectContinues
  <2>2. Abstract!SolutionsOf(at)' = Abstract!SolutionsOf(at)
    BY <2>1, SameSearches
  <2> QED BY <1>1, <2>1, <2>2 DEF Order
<1> QED BY <1>2, <1>3, <1>4, <1>5, <1>6

\* An attempt keeps the id it began with.
LEMMA FirstStays ==
  ASSUME Typing, CreateObject \/ CreateTuple \/ AddAttribute \/ RemoveAttribute \/ Conditional
  PROVE  tx'.first = tx.first
<1>1. /\ phase = "apply"
      /\ \/ tx' = tx
         \/ \E h, todo : tx' = [tx EXCEPT !.heap = h, !.todo = todo]
  BY DEF CreateObject, CreateTuple, AddAttribute, RemoveAttribute, Conditional, Applying, Go, Refuse
<1> QED BY <1>1 DEF Typing, Attempting, Transactions

\* A run passes over the rules from the one its mode begins with.
LEMMA PassedOn ==
  ASSUME Shape, Typing, AsPromised, AsPromised', Order, Passed, Typing',
         UNCHANGED <<rules, how, args, limits>>, Next
  PROVE  Passed'
<1> SUFFICES ASSUME phase' \in {"rule", "apply", "refused"}, how # "splinter",
                    NEW r \in Abstract!From' .. at' - 1
             PROVE  Abstract!PassedOver(r)'
  BY DEF Passed
<1> PICK here : here = at
  OBVIOUS
<1>1. /\ FirstId \in Nat \ {0} /\ nextId \in Nat \ {0} /\ FirstId <= nextId
      /\ ~Attempting => FirstId = nextId
      /\ FirstId' \in Nat \ {0}
      /\ ~Attempting' => FirstId' = nextId'
      /\ at \in Nat
  <2>1. /\ FirstId \in Nat \ {0} /\ nextId \in Nat \ {0} /\ FirstId <= nextId
        /\ ~Attempting => FirstId = nextId
    BY FirstIdType
  <2>2. nextId' \in Nat \ {0}
    BY DEF Typing
  <2>3. FirstId' \in Nat \ {0} /\ (~Attempting' => FirstId' = nextId')
    BY <2>2 DEF AsPromised, FirstId
  <2> QED BY <2>1, <2>3 DEF Shape
<1>2. ASSUME UNCHANGED <<heap, last>>, FirstId <= FirstId', phase \in {"rule", "apply", "refused"},
             at' = here \/ (at' = here + 1 /\ Abstract!PassedOver(here)')
      PROVE  Abstract!PassedOver(r)'
  <2>1. \A q \in Abstract!From .. here - 1 : Abstract!PassedOver(q)'
    BY <1>1, <1>2, PassedStays DEF Passed
  <2>2. Abstract!From' = Abstract!From
    BY <1>2 DEF Abstract!From
  <2>3. Abstract!From \in Int /\ here \in Int
    BY <1>1 DEF Abstract!From, Order, Shape
  <2>4. r \in Abstract!From .. here - 1 \/ (r = here /\ Abstract!PassedOver(here)')
    BY <1>2, <2>2, <2>3
  <2> QED BY <2>1, <2>4
<1>3. CASE Call
  BY <1>3 DEF Call, Order, Abstract!From
<1>4. CASE NoMatch
  <2>1. UNCHANGED <<heap, last, nextId, phase>> /\ phase = "rule" /\ at' = at + 1
    BY <1>4 DEF NoMatch
  <2>2. FirstId' = FirstId
    BY <2>1 DEF FirstId, Attempting
  <2>3. Abstract!PassedOver(here)'
    <3>1. Abstract!PassedOver(here)
      BY <1>4, <2>1, NoneFound
    <3>2. \A q : Abstract!PassedOver(q) => Abstract!PassedOver(q)'
      BY <1>1, <2>1, <2>2, PassedStays
    <3> QED BY <3>1, <3>2
  <2> QED BY <1>1, <1>2, <2>1, <2>2, <2>3
<1>5. CASE Match
  <2>1. UNCHANGED <<heap, last, at, nextId>> /\ phase = "rule" /\ phase' = "apply" /\ tx'.first = nextId
    BY <1>5 DEF Match, StartApply
  <2>2. FirstId' = FirstId
    BY <2>1 DEF FirstId, Attempting
  <2>3. /\ UNCHANGED <<heap, last>> /\ phase \in {"rule", "apply", "refused"}
        /\ at' = here /\ FirstId <= FirstId'
    BY <1>1, <2>1, <2>2
  <2> QED BY <1>2, <2>3
<1>6. CASE CreateObject \/ CreateTuple \/ AddAttribute \/ RemoveAttribute \/ Conditional
  <2>1. UNCHANGED <<heap, last, at>> /\ phase = "apply" /\ phase' \in {"apply", "refused"}
    BY <1>6 DEF CreateObject, CreateTuple, AddAttribute, RemoveAttribute, Conditional, Applying, Go, Refuse
  <2>2. tx'.first = tx.first
    BY <1>6, FirstStays
  <2>3. FirstId' = FirstId
    BY <2>1, <2>2 DEF FirstId, Attempting
  <2>4. /\ UNCHANGED <<heap, last>> /\ phase \in {"rule", "apply", "refused"}
        /\ at' = here /\ FirstId <= FirstId'
    BY <1>1, <2>1, <2>3
  <2> QED BY <1>2, <2>4
<1>7. CASE Abort
  <2>1. UNCHANGED <<heap, last, nextId>> /\ phase = "refused" /\ phase' = "rule" /\ at' = at + 1
    BY <1>7 DEF Abort
  <2>2. FirstId' = nextId /\ nextId' = nextId
    BY <2>1 DEF FirstId, Attempting
  <2>3. PICK id \in 1 .. nextId : ~Abstract!CanFire(here, id)
    BY <2>1, Refused
  <2>4. ~Abstract!CanFire(here, id)'
    BY <2>1, <2>3, SameSearches
  <2>5. Abstract!PassedOver(here)'
    BY <2>2, <2>3, <2>4 DEF Abstract!PassedOver
  <2> QED BY <1>1, <1>2, <2>1, <2>2, <2>5
<1>8. CASE Continue
  BY <1>1, <1>8 DEF Continue, Order, Shape, Modes, Abstract!From
<1>9. ~(\/ NoRuleLeft \/ StartSplinter \/ NextSolution \/ NoSolutionLeft \/ Commit \/ Collect \/ Stop
        \/ CollectStops \/ CollectContinues)
  BY DEF NoRuleLeft, StartSplinter, NextSolution, NoSolutionLeft, Commit, Collect, Fire, Stop,
         CollectStops, CollectContinues, Order, StartApply
<1> QED BY <1>3, <1>4, <1>5, <1>6, <1>7, <1>8, <1>9 DEF Next

-----------------------------------------------------------------------------
(* A run is one of Firing.                                                 *)

RInv == IInv /\ Typing /\ AsPromised /\ Order /\ Passed

LEMMA InitRefines == Init => RInv /\ Abstract!Init
<1> SUFFICES ASSUME Init PROVE RInv /\ Abstract!Init
  OBVIOUS
<1>1. IInv /\ Typing
  BY InitInvariant, InitTyping
<1>2. phase = "call" /\ ~Attempting /\ at = 1 /\ last = 0 /\ branch = 0
  BY DEF Init, Attempting
<1>3. AsPromised /\ Order /\ Passed
  BY <1>2 DEF AsPromised, Order, Passed
<1>4. Abstract!Init
  BY <1>2 DEF Init, Abstract!Init, FirstId, Status, RuleAt, SolutionsUsed, Results
<1> QED BY <1>1, <1>3, <1>4 DEF RInv

\* Every step keeps what the refinement rests on.
LEMMA NextRefines == RInv /\ [Next]_vars => RInv'
<1> SUFFICES ASSUME RInv, [Next]_vars PROVE RInv'
  OBVIOUS
<1>1. IInv' /\ Typing'
  BY NextInvariant, NextTyping DEF RInv
<1>2. Shape /\ Typing /\ AsPromised /\ Order /\ Passed
  BY DEF RInv, IInv
<1>3. CASE Next
  <2>1. AsPromised'
    <3>1. CASE Match \/ NextSolution
      BY <1>2, <1>3, <3>1, BeginsAsPromised DEF Next
    <3>2. CASE CreateObject \/ CreateTuple \/ AddAttribute \/ RemoveAttribute \/ Conditional
      BY <1>2, <1>3, <3>2, ChangeFollows DEF Next
    <3>3. CASE \/ Call \/ NoMatch \/ NoRuleLeft \/ StartSplinter \/ NoSolutionLeft
               \/ Commit \/ Collect \/ Abort \/ Stop \/ Continue
               \/ CollectStops \/ CollectContinues
      <4>1. phase' \notin {"apply", "refused"}
        BY <3>3 DEF Call, NoMatch, NoRuleLeft, StartSplinter, NoSolutionLeft, Commit, Collect, Abort,
                    Stop, Continue, CollectStops, CollectContinues
      <4> QED BY <4>1 DEF AsPromised, Attempting
    <3> QED BY <1>3, <3>1, <3>2, <3>3 DEF Next
  <2>2. Order'
    BY <1>2, <1>3, OrderOfSteps, OrderOfEnds DEF Next
  <2>3. Passed'
    <3>1. UNCHANGED <<rules, how, args, limits>>
      BY <1>3 DEF Next
    <3> QED BY <1>1, <1>2, <1>3, <2>1, <3>1, PassedOn
  <2> QED BY <1>1, <2>1, <2>2, <2>3 DEF RInv
<1>4. CASE UNCHANGED vars
  <2>1. /\ UNCHANGED <<rules, how, args, limits, heap, nextId, bindings, phase, at, branch, tx>>
        /\ UNCHANGED <<count, last, fired>>
    BY <1>4 DEF vars
  <2>2. /\ Abstract!SolutionsOf(at)' = Abstract!SolutionsOf(at) /\ Abstract!Apply' = Abstract!Apply
        /\ Chosen' = Chosen /\ Beginning' = Beginning /\ Attempting' = Attempting
        /\ Abstract!From' = Abstract!From /\ FirstId' = FirstId
    BY <2>1 DEF Abstract!SolutionsOf, Abstract!Fresh, Abstract!Apply, Chosen, Beginning, Rule,
                Attempting, Abstract!From, FirstId
  <2>3. AsPromised'
    <3>1. \A env, known : Follows(env, known) => Follows(env, known)'
      BY <2>1, <2>2 DEF Follows
    <3> QED BY <1>2, <2>1, <2>2, <3>1 DEF AsPromised
  <2>4. Order'
    BY <1>2, <2>1, <2>2 DEF Order
  <2>5. Passed'
    <3>1. FirstId \in Nat
      BY <1>2, FirstIdType
    <3>2. \A r : Abstract!PassedOver(r) => Abstract!PassedOver(r)'
      BY <2>1, <2>2, <3>1, PassedStays
    <3> QED BY <1>2, <2>1, <2>2, <3>2 DEF Passed
  <2> QED BY <1>1, <2>3, <2>4, <2>5 DEF RInv
<1> QED BY <1>3, <1>4

\* The state Firing speaks of.
mapped == <<rules, how, args, limits, heap, FirstId, RuleAt, SolutionsUsed, Status,
            count, last, fired, collected>>

LEMMA MappedIsAbstract == UNCHANGED mapped <=> UNCHANGED Abstract!vars
  BY DEF mapped, Abstract!vars

\* Searches and the operations of an apply part are no steps of Firing.
LEMMA InnerSteps ==
  ASSUME Shape, Typing, AsPromised, Order, UNCHANGED <<rules, how, args, limits>>,
         \/ NoMatch \/ Match \/ StartSplinter \/ NextSolution \/ Continue
         \/ CreateObject \/ CreateTuple \/ AddAttribute \/ RemoveAttribute \/ Conditional
  PROVE  UNCHANGED mapped
<1>1. UNCHANGED <<heap, count, last, fired, collected>>
  BY DEF NoMatch, Match, StartApply, StartSplinter, NextSolution, Continue, CreateObject, CreateTuple,
         AddAttribute, RemoveAttribute, Conditional
<1>2. Status = "running" /\ Status' = "running"
  BY DEF NoMatch, Match, StartApply, StartSplinter, NextSolution, Continue, CreateObject, CreateTuple,
         AddAttribute, RemoveAttribute, Conditional, Applying, Go, Refuse, Status, Results
<1>3. UNCHANGED RuleAt
  BY DEF NoMatch, Match, StartApply, StartSplinter, NextSolution, Continue, CreateObject, CreateTuple,
         AddAttribute, RemoveAttribute, Conditional, RuleAt
<1>4. UNCHANGED FirstId
  <2>1. CASE CreateObject \/ CreateTuple \/ AddAttribute \/ RemoveAttribute \/ Conditional
    <3>1. Attempting /\ Attempting'
      BY <2>1 DEF CreateObject, CreateTuple, AddAttribute, RemoveAttribute, Conditional, Applying, Go,
                  Refuse, Attempting
    <3> QED BY <2>1, <3>1, FirstStays DEF FirstId
  <2>2. CASE Match \/ NextSolution
    BY <2>2 DEF Match, NextSolution, StartApply, FirstId, Attempting
  <2>3. CASE NoMatch \/ StartSplinter \/ Continue
    BY <2>3 DEF NoMatch, StartSplinter, Continue, FirstId, Attempting
  <2> QED BY <2>1, <2>2, <2>3
<1>5. UNCHANGED SolutionsUsed
  <2>1. CASE CreateObject \/ CreateTuple \/ AddAttribute \/ RemoveAttribute \/ Conditional
    <3>1. Attempting /\ Attempting' /\ branch' = branch
      BY <2>1 DEF CreateObject, CreateTuple, AddAttribute, RemoveAttribute, Conditional, Applying, Go,
                  Refuse, Attempting
    <3> QED BY <3>1 DEF SolutionsUsed
  <2>2. CASE NextSolution
    <3>1. ~Attempting /\ Attempting' /\ branch' = branch + 1 /\ branch \in Nat
      BY <2>2 DEF NextSolution, StartApply, Attempting, Shape
    <3> QED BY <3>1 DEF SolutionsUsed
  <2>3. CASE NoMatch \/ Match
    BY <2>3 DEF NoMatch, Match, SolutionsUsed
  <2>4. CASE StartSplinter
    BY <2>4 DEF StartSplinter, Order, SolutionsUsed, Attempting
  <2>5. CASE Continue
    BY <2>5 DEF Continue, SolutionsUsed, Attempting
  <2> QED BY <2>1, <2>2, <2>3, <2>4, <2>5
<1> QED BY <1>1, <1>2, <1>3, <1>4, <1>5 DEF mapped

\* Between firings no limit has been reached.
LEMMA RoomLeft ==
  ASSUME RInv, how # "splinter", phase \in {"rule", "apply", "refused"}
  PROVE  ~Abstract!LimitReached
<1>1. CASE last = 0
  BY <1>1 DEF Abstract!LimitReached
<1>2. CASE last # 0
  <2>1. last \in DOMAIN rules /\ count # 0 /\ fired[last] # 0 /\ how # "first"
    BY <1>2 DEF RInv, Order
  <2>2. fired = perRule /\ Below /\ (count = 0 \/ count < limits.total)
    BY <2>1 DEF RInv, IInv, Room, Shape, Modes, Controlled
  <2>3. perRule[last] < limits.per_rule
    BY <2>1, <2>2 DEF Below
  <2>4. count \in Nat /\ limits.total \in Nat /\ limits.per_rule \in Nat /\ perRule[last] \in Nat
    BY <2>1 DEF RInv, IInv, Shape
  <2> QED BY <2>1, <2>2, <2>3, <2>4 DEF Abstract!LimitReached
<1> QED BY <1>1, <1>2

\* The call, the end of the rules and the callback are seen as they are.
LEMMA LoopRefines ==
  ASSUME RInv, UNCHANGED <<rules, how, args, limits>>,
         Call \/ NoRuleLeft \/ NoSolutionLeft \/ Stop \/ CollectStops \/ CollectContinues
  PROVE  Abstract!Next
<1>1. Shape /\ Typing /\ AsPromised /\ Order /\ Passed
  BY DEF RInv, IInv
<1>2. /\ UNCHANGED <<heap, nextId, count, last, fired, collected>>
      /\ ~Attempting /\ ~Attempting'
  BY DEF Call, NoRuleLeft, NoSolutionLeft, Stop, CollectStops, CollectContinues, Attempting
<1>3. UNCHANGED FirstId
  BY <1>2 DEF FirstId
<1>4. CASE Call
  <2>1. UNCHANGED <<RuleAt, SolutionsUsed>> /\ Status = "called"
    <3>1. phase = "call" /\ UNCHANGED <<at, branch>>
      BY <1>4 DEF Call
    <3>2. UNCHANGED <<RuleAt, SolutionsUsed>>
      BY <1>2, <3>1 DEF RuleAt, SolutionsUsed
    <3>3. Status = "called"
      BY <3>1 DEF Status, Results
    <3> QED BY <3>2, <3>3
  <2>2. Status' = IF Len(args) = Cardinality(Inputs) THEN "running" ELSE "invalid"
    BY <1>4 DEF Call, Status, Results
  <2>3. Abstract!Cardinality(Inputs) = Cardinality(Inputs)
    BY Zenon DEF Abstract!Cardinality, Cardinality
  <2>4. Abstract!Start
    BY <1>2, <1>3, <2>1, <2>2, <2>3 DEF Abstract!Start
  <2> QED BY <2>4 DEF Abstract!Next
<1>5. CASE NoRuleLeft
  <2>1. phase = "rule" /\ at > Len(rules) /\ phase' = "done" /\ UNCHANGED <<at, branch>>
    BY <1>5 DEF NoRuleLeft
  <2>2. UNCHANGED <<RuleAt, SolutionsUsed>> /\ Status = "running" /\ Status' = "done"
    BY <1>2, <2>1 DEF RuleAt, SolutionsUsed, Status, Results
  <2>3. CASE how = "splinter"
    BY <1>2, <1>3, <2>1, <2>2, <2>3 DEF Abstract!Finish, Abstract!Next, RuleAt
  <2>4. CASE how # "splinter"
    <3>1. ~Abstract!LimitReached
      BY <2>1, <2>4, RoomLeft
    <3>2. \A r \in Abstract!From .. at - 1 : Abstract!PassedOver(r)
      BY <1>1, <2>1, <2>4 DEF Passed
    <3>3. at - 1 = Len(rules)
      BY <1>1, <2>1 DEF Shape
    <3>4. Abstract!Finish
      BY <1>2, <1>3, <2>2, <2>4, <3>1, <3>2, <3>3 DEF Abstract!Finish
    <3> QED BY <3>4 DEF Abstract!Next
  <2> QED BY <2>3, <2>4
<1>6. CASE NoSolutionLeft
  <2>1. phase = "branch" /\ phase' = "rule" /\ branch = Len(Found) /\ branch' = 0 /\ at' = at + 1
    BY <1>6 DEF NoSolutionLeft
  <2>2. how = "splinter" /\ at \in DOMAIN rules /\ Called
    BY <1>1, <2>1 DEF Order, Shape, Typing, Results
  <2>3. RuleAt = at /\ RuleAt' = at + 1 /\ SolutionsUsed = branch /\ SolutionsUsed' = 0
    BY <1>2, <2>1, <2>2 DEF RuleAt, SolutionsUsed
  <2>4. Status = "running" /\ Status' = "running"
    BY <2>1 DEF Status, Results
  <2>5. branch = Len(Abstract!SolutionsOf(at)) /\ at <= Len(rules)
    BY <1>1, <2>1, <2>2, FindsPromised DEF Shape
  <2>6. Abstract!NextRule
    BY <1>2, <1>3, <2>2, <2>3, <2>4, <2>5 DEF Abstract!NextRule
  <2> QED BY <2>6 DEF Abstract!Next
<1>7. CASE Stop
  <2>1. phase = "control" /\ phase' = "stopped" /\ how # "splinter" /\ UNCHANGED <<at, branch>>
    BY <1>7 DEF Stop
  <2>2. UNCHANGED <<RuleAt, SolutionsUsed>> /\ Status = "running" /\ Status' = "stopped"
    BY <1>2, <2>1 DEF RuleAt, SolutionsUsed, Status, Results
  <2>3. Abstract!LimitReached
    <3>1. last \in DOMAIN rules /\ last # 0 /\ how # "first"
      BY <1>1, <2>1 DEF Shape, Order
    <3>2. fired = Counted
      BY <1>1, <2>1, <3>1 DEF RInv, IInv, Room, Shape, Modes, Controlled
    <3>3. count >= limits.total \/ fired[last] >= limits.per_rule
      BY <1>7, <3>2 DEF Stop, TotalReached
    <3> QED BY <3>1, <3>3 DEF Abstract!LimitReached
  <2>4. Abstract!Stop
    BY <1>2, <1>3, <2>1, <2>2, <2>3 DEF Abstract!Stop
  <2> QED BY <2>4 DEF Abstract!Next
<1>8. CASE CollectStops \/ CollectContinues
  <2>1. /\ phase = "control" /\ how = "splinter" /\ phase' \in {"done", "branch"}
        /\ UNCHANGED <<at, branch>>
    BY <1>8 DEF CollectStops, CollectContinues
  <2>2. UNCHANGED <<RuleAt, SolutionsUsed>>
    BY <1>2, <2>1 DEF RuleAt, SolutionsUsed
  <2>3. Status = "asked" /\ Status' \in {"running", "done"}
    BY <2>1 DEF Status, Results
  <2>4. Abstract!Answer
    BY <1>2, <1>3, <2>2, <2>3 DEF Abstract!Answer
  <2> QED BY <2>4 DEF Abstract!Next
<1> QED BY <1>4, <1>5, <1>6, <1>7, <1>8

\* A rule fires with the first of its solutions, as a whole, when the rules
\* before it have been passed over.
LEMMA CommitRefines ==
  ASSUME RInv, UNCHANGED <<rules, how, args, limits>>, Commit
  PROVE  Abstract!Next
<1>1. Shape /\ Typing /\ AsPromised /\ Order /\ Passed
  BY DEF RInv, IInv
<1>2. /\ phase = "apply" /\ tx.todo = <<>> /\ how # "splinter"
      /\ UNCHANGED <<nextId, at, branch, collected>>
      /\ count' = count + 1 /\ last' = at /\ fired' = [fired EXCEPT ![at] = @ + 1]
      /\ heap' = tx.heap /\ phase' = IF how = "first" THEN "fired" ELSE "control"
  BY DEF Commit, Fire
<1>3. Attempting /\ ~Attempting' /\ FirstId = tx.first /\ FirstId' = nextId /\ Chosen = 1
  BY <1>2 DEF Attempting, FirstId, Chosen
<1>4. UNCHANGED <<RuleAt, SolutionsUsed>> /\ Status = "running"
  BY <1>2 DEF RuleAt, SolutionsUsed, Status, Results
<1>5. Status' = IF how = "first" THEN "fired" ELSE Status
  BY <1>2, <1>4 DEF Status, Results
<1>6. /\ Abstract!SolutionsOf(at) # <<>>
      /\ Abstract!Attempt(at, 1, FirstId).ok
      /\ Abstract!Attempt(at, 1, FirstId).heap = tx.heap
      /\ Abstract!Attempt(at, 1, FirstId).nextId = nextId
  BY <1>1, <1>2, <1>3, AttemptEnds
<1>7. at \in Abstract!From .. Len(rules) /\ \A q \in Abstract!From .. at - 1 : Abstract!PassedOver(q)
  BY <1>1, <1>2 DEF Passed, Order, Shape, Abstract!From
<1>8. ~Abstract!LimitReached
  BY <1>2, RoomLeft
<1>9. Abstract!FireRule(at)
  BY <1>2, <1>4 DEF Abstract!FireRule
<1>10. Abstract!CanFire(at, FirstId)
  BY <1>6 DEF Abstract!CanFire
<1>11. heap' = Abstract!Result(at, 1).heap /\ FirstId' = Abstract!Result(at, 1).nextId
  BY <1>2, <1>3, <1>6 DEF Abstract!Result
<1>12. Abstract!Fire
  BY <1>2, <1>4, <1>5, <1>7, <1>8, <1>9, <1>10, <1>11 DEF Abstract!Fire
<1> QED BY <1>12 DEF Abstract!Next

\* In splinter every solution gives a result of its own, or fails.
LEMMA SplinterRefines ==
  ASSUME RInv, UNCHANGED <<rules, how, args, limits>>, how = "splinter", Collect \/ Abort
  PROVE  Abstract!Next
<1>1. Shape /\ Typing /\ AsPromised /\ Order
  BY DEF RInv, IInv
<1>2. /\ phase \in {"apply", "refused"}
      /\ phase = "apply" => tx.todo = <<>>
      /\ phase' \in {"control", "branch"} /\ UNCHANGED <<heap, nextId, at, branch>>
  BY DEF Collect, Abort, Fire
<1>3. Attempting /\ ~Attempting' /\ FirstId = tx.first /\ FirstId' = nextId /\ Chosen = branch
  BY <1>2 DEF Attempting, FirstId, Chosen
<1>4. /\ RuleAt = at /\ RuleAt' = at /\ Status = "running"
      /\ Status' = IF phase = "apply" THEN "asked" ELSE Status
      /\ SolutionsUsed = branch - 1 /\ SolutionsUsed' = branch
  BY <1>2, <1>3 DEF RuleAt, SolutionsUsed, Status, Results, Collect, Fire, Abort
<1>5. branch \in Nat /\ at <= Len(rules) /\ branch <= Len(Abstract!SolutionsOf(at))
  BY <1>1, <1>2, <1>3, AttemptEnds DEF Shape
<1>6. /\ Abstract!Result(at, branch).ok <=> phase = "apply"
      /\ Abstract!Result(at, branch).heap = tx.heap
      /\ Abstract!Result(at, branch).nextId = nextId
  BY <1>1, <1>2, <1>3, AttemptEnds DEF Abstract!Result
<1>7. branch - 1 < Len(Abstract!SolutionsOf(at)) /\ branch = (branch - 1) + 1
  <2>1. at \in DOMAIN rules /\ Called
    BY <1>1, <1>2 DEF Shape, Typing, Results
  <2>2. Len(Abstract!SolutionsOf(at)) \in Nat
    BY <1>1, <2>1, FindsPromised, LenProperties
  <2> QED BY <1>5, <2>2
<1>8. IF phase = "apply"
        THEN collected' = Append(collected, tx.heap) /\ Abstract!FireRule(at)
        ELSE UNCHANGED <<RuleAt, count, last, fired, collected>>
  BY <1>2, <1>4 DEF Collect, Abort, Fire, Abstract!FireRule
<1>9. Abstract!Produce
  BY <1>2, <1>3, <1>4, <1>5, <1>6, <1>7, <1>8 DEF Abstract!Produce
<1> QED BY <1>9 DEF Abstract!Next

\* An application that fails leaves nothing but the ids it has used.
LEMMA AbortRefines ==
  ASSUME RInv, UNCHANGED <<rules, how, args, limits>>, how # "splinter", Abort
  PROVE  Abstract!Next \/ UNCHANGED mapped
<1>1. Shape /\ Typing /\ AsPromised
  BY DEF RInv, IInv
<1>2. /\ phase = "refused" /\ phase' = "rule"
      /\ UNCHANGED <<heap, nextId, branch, count, last, fired, collected>>
  BY DEF Abort
<1>3. ~Attempting' /\ FirstId' = nextId /\ FirstId <= nextId /\ FirstId \in Nat /\ nextId \in Nat
  BY <1>1, <1>2, FirstIdType DEF Attempting, FirstId
<1>4. UNCHANGED <<RuleAt, SolutionsUsed, Status>> /\ Status = "running"
  BY <1>2 DEF RuleAt, SolutionsUsed, Status, Results
<1>5. CASE FirstId = nextId
  BY <1>2, <1>3, <1>4, <1>5 DEF mapped
<1>6. CASE FirstId # nextId
  <2>1. Abstract!LoseIds
    BY <1>2, <1>3, <1>4, <1>6 DEF Abstract!LoseIds
  <2> QED BY <2>1 DEF Abstract!Next
<1> QED BY <1>5, <1>6

LEMMA StepRefines ==
  ASSUME RInv, [Next]_vars
  PROVE  [Abstract!Next]_(Abstract!vars)
<1>1. CASE Next
  <2>1. Shape /\ Typing /\ AsPromised /\ Order /\ UNCHANGED <<rules, how, args, limits>>
    BY <1>1 DEF RInv, IInv, Next
  <2>2. CASE \/ NoMatch \/ Match \/ StartSplinter \/ NextSolution \/ Continue
             \/ CreateObject \/ CreateTuple \/ AddAttribute \/ RemoveAttribute \/ Conditional
    BY <2>1, <2>2, InnerSteps, MappedIsAbstract
  <2>3. CASE Call \/ NoRuleLeft \/ NoSolutionLeft \/ Stop \/ CollectStops \/ CollectContinues
    BY <2>1, <2>3, LoopRefines
  <2>4. CASE Commit
    BY <2>1, <2>4, CommitRefines
  <2>5. CASE Collect
    BY <2>1, <2>5, SplinterRefines DEF Collect
  <2>6. CASE Abort
    BY <2>1, <2>6, SplinterRefines, AbortRefines, MappedIsAbstract
  <2> QED BY <1>1, <2>2, <2>3, <2>4, <2>5, <2>6 DEF Next
<1>2. CASE UNCHANGED vars
  <2>1. UNCHANGED mapped
    BY <1>2 DEF vars, mapped, FirstId, RuleAt, SolutionsUsed, Status, Attempting
  <2> QED BY <2>1, MappedIsAbstract
<1> QED BY <1>1, <1>2

\* Whatever searches, negated conditions and applications have left in the
\* storage the rules share, every run is one in which rules fire one at a time
\* and as a whole, for solutions found from the arguments alone and in the order
\* its mode says, in which what fails leaves no trace in the space, and which
\* ends when no rule may fire that could.
THEOREM RunningImplementsFiring == Spec => FiresAsTried
<1>1. Init => RInv /\ Abstract!Init
  BY InitRefines
<1>2. RInv /\ [Next]_vars => RInv'
  BY NextRefines
<1>3. RInv /\ [Next]_vars => [Abstract!Next]_(Abstract!vars)
  BY StepRefines
<1> QED BY <1>1, <1>2, <1>3, PTL DEF Spec, FiresAsTried, Abstract!Spec
=============================================================================
