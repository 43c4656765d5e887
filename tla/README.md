# sym-engine in TLA+

A verification project for `sym-engine`, a symbolic rule engine in Rust.  TLA+
modules model the engine's object space, its garbage collector, its values, the
compilation of rules from text and from builder calls through to the order of
their operations, the loading of systems, the search for rule matches and the
run modes; TLC checks them on small instances, and TLAPS proves the safety
properties that matter most for every value of the constants.  All paths below
are relative to the repository; the correspondence of every definition to lines
of the source is in `PROJECT.json` under `map`.

## 1. The system

Rules match patterns in an *object space* (a graph of objects with multi-valued
attributes) and change it.  A rule belongs to a *system*; a system is run on a
space with some objects as arguments.  Everything is single threaded: the only
state shared between threads is the sequence object ids come from.  What makes
the code hard is therefore not parallelism but control that is spread out in
time: nested and cloned transactions that overlay each other, a backtracking
search that is suspended in callbacks, one vector of bindings that every rule
of a run writes to, and apply parts that fail half-way.

| Component | Source | State | Operations | Status |
|---|---|---|---|---|
| object space and transactions | `src/src/space.rs` | `OBJECT_ID_SEQUENCE`; `Space { root_objects, objects }`; per transaction `local_root_objects`, `local_objects` and the level below | trait `Access` (create, clone, roots, attributes, `transaction`), edits of `AttributesMut`, `Transaction::clone`, `shrink_to_fit` | modelled |
| garbage collection | `Space::collect_garbage` | stack of values, sorted list of marked ids | pop, expand, sweep | modelled |
| binding search | `src/src/runtime.rs` `search_bindings`, `src/src/compiler/ops.rs` | `op_index`, stack of frames, bindings | one per operation, and `'next_branch` | modelled |
| rule firing and run modes | `src/src/system.rs` run functions and control helpers, `src/src/runtime.rs` `attempt_rule_firing`, `splinter_rule`, `apply_changes` | bindings storage, rule position, counts, the transaction | the four run modes, apply operations, the callback | modelled |
| optimizer | `src/src/compiler/optimizer.rs` | partial orders with cost and bound slots, sequence of scope indices | remove assertions, place an operation, order the body of a negation, finish a list | modelled |
| definition and loading of systems | `src/src/system.rs` `System::new`, `load`, `SystemLoader` | name, inputs, rules, `max_binding_len`; systems of a loader | define, build, load a text or file | modelled |
| rule compilation and scoping | `src/src/compiler.rs`, `cfg.rs`, `cfg_ops.rs` | slots with names and use counts, names in scope, the lists and values under way | one per construct, one per end of a scope or value, the checks at the end | modelled |
| rule builder | `src/src/compiler/builder.rs` | the same counter and lists | one per call, one per end of a callback | modelled |
| values | `src/src/data.rs`, arithmetic of `runtime.rs` | none | compare, match, unify, calculate | partly: no conversions |
| parser, syntax tree | `src/src/parser.rs`, `ast.rs` | none | parse | partly: what may stand where, not the text |
| crate interface | `src/src/lib.rs` | none | none | not modelled: re-exports |

How they interact: a rule comes in as text, which the parser makes a syntax tree
and `ast_to_cfg` operation lists with numbered slots, or through the builders,
which make the same lists call by call.  `compile_cfg` gives the lists to the
optimizer; the compiled rule and the number of its slots go to the system, whose
`max_binding_len` is what a run allocates.  A run mode creates the bindings
storage and calls `attempt_rule_firing` (or `splinter_rule`) for one rule after
the other.  That opens a transaction on the space (or clones the one it was
given), runs `search_bindings` over what the transaction shows, and applies the
rule's changes to the transaction with the bindings found.  The transaction is
committed or dropped, and a callback of the caller decides whether to go on. In
`splinter_rule` the changes are applied *inside* the search's callback.

What makes each component correct:

* **Space.**  A transaction behaves as a private full copy.  Below it nothing
  changes until it ends, then all or nothing.  Ids never come twice, and no
  level knows an id that has not been handed out.
* **Collection.**  Everything a root leads to stays, everything else goes, and
  the marking loop ends.
* **Compilation.**  A variable is one slot wherever it is visible; every slot
  mentioned was handed out, and the counter never wraps; what a negation, a
  condition or a branch binds is not taken for bound outside it; the apply part
  reads only what has been written on every way to it.
* **Values.**  Equality and order are those of one linear order, calculations
  do not depend on whether a number came as an integer or as a float, and host
  patterns agree with rules.
* **Optimizer.**  Whatever order is preferred, the compiled list finds what the
  rule says, reads nothing unbound, has its scopes nested and counted right; and
  a dead end means that no order exists.
* **Loading.**  Names are unique per system, the storage has a slot for every
  slot of every rule, and a text that fails has loaded the rules before the
  failing one.
* **Search.**  The callback is told exactly the solutions of the rule, each
  once, in the order of the values; what unbound slots held before, and what is
  left in them, decides nothing; the caller's arguments survive; the stack of
  scopes is never out of step with the operations; the search ends.
* **Running.**  A rule fires completely or not at all, for its first solution
  (or once for every solution in splinter), each mode tries rules in its own
  order, limits hold, and a limited run ends.

The places where each of these could go wrong are listed with their line under
`hazards` in `PROJECT.json`, with the properties that would catch it.

## 2. The modules

```
Attributes ── Space ── SpaceRefinement ──refines── SnapshotSpace (EXTENDS Attributes)
                              └── SpaceProofs
Marking ── MCMarking
      └── MarkingProofs
Operations ─┬─ Search ── MCSearch
            │       └── SearchProofs
            ├─ Running ── RunningRefinement ──refines── Firing (EXTENDS Operations)
            │                          ├── MCRunning
            │                          └── RunningProofs
            └─ Optimizer ── MCOptimizer
                       └── OptimizerProofs
RuleLists ─┬─ Scoping ─┐
           └─ Builder ─┼─ FrontEndProofs
                       └─ Compiling ── MCCompiling      (with an instance of Optimizer)
                                  └── CompilingProofs  (with FrontEndProofs and OptimizerProofs)
Values ── MCValues
Loading ── MCLoading
      └── LoadingProofs
```

**Attributes** has the data of the space as pure operators: ids, values as far
as the space looks into them (a kind and the objects mentioned), the attribute
lists of objects, and every edit of `AttributesMut`.  A name that has lost its
last value keeps an empty vector in the code, and an object that was cleared
keeps an empty entry; both are told apart from `Missing`, because they mask
what is below.

**Space** is `struct Space`, the transactions nested on it, and the trait both
implement.  `stack[1]` is the space, each further frame the transaction of one
nested call of `transaction` with the copies its closure has made of it.  Each
method is an action; `attributes_mut` is modelled together with the edit made
through it, so that the copy on first write (`or_insert_with`) and the edit are
one step, which is what the borrow checker enforces.  A closure that returns
`Some` is `Commit`, one that returns `None` is `Abort`, and returning a copy is
`SwitchTransaction` followed by `Commit`.

**SnapshotSpace** is what a client may assume: a stack of full copies.  It
knows no overlays, entries, empty vectors or merging, and has an action for each
kind of operation that says what becomes of the values of every name.
**SpaceRefinement** has the mapping: each level is shown as what can be read
through it.  `AbstractSpec` says that every step is one of `SnapshotSpace`,
`EditsAsPromised` that each operation is the one of its own name there:
`RemoveSingle` takes the first value looked for, `RemoveSingleNamed` the last
one, and neither touches another value or name.

**Marking** runs the loop of `collect_garbage` one iteration a step over an
arbitrary heap with nested tuples.  `marked` is the vector of ids the code keeps
in order and searches by bisection: `IsMarked` is a search that finds the id,
`Place` the index one that does not returns, where the id is inserted; `TypeOK`
says that the vector stays in order, without which the searches in the loop and
in the sweep would miss ids.  `Space` uses the reachable set itself.

**Operations** has the compiled select operations, what each one tests, binds
and writes, and what the compiler makes of a rule (`WellFormed`: one `End` at
the end, scopes nested and of the stated length, slots written are the rule's
own).  `Solutions` is the reference definition of a rule's solutions, by
recursion on the operations; it is what `search_bindings` computes without
recursion.  `BoundAt` says what is bound at a position, and `BindsFirst` that no
operation reads or compares more than that.  Comparisons and calculations are
given as tables, so all outcomes of partial arithmetic are covered and none is
computed.

**Search** is `search_bindings`: `pc` is `op_index`, `frames` the vector of
iterators and not-scopes, `mode` says whether the loop is at an operation or in
`'next_branch`.  The callback may stop, and may write the slots of the apply
part.  Initially every slot that is no input holds any leftover.

**Running** is the layer above: `Call` checks the arguments and makes the
storage; `NoMatch`/`Match` (or `StartSplinter`/`NextSolution`/`NoSolutionLeft`)
are a search; each operation of `apply_changes` is a step on the transaction;
`Commit`, `Collect` and `Abort` end a firing; `Stop` and `Continue` are the
control callback `control_limit_total_and_per_rule` of the saturation modes.
`run_splinter` takes a callback of another type, which is the caller's own: it
may end the run after any result (`CollectStops`) or let it go on
(`CollectContinues`), and either way the run returns its count.  A search is one
step here, replaced by its specification: it reports the `Solutions` in order,
and leaves *anything* in the slots it writes that do not belong to a solution
(`Left`).  That is what `Search` is proved to do.  A transaction is a full copy,
which is what `Space` is proved to provide.  The rules are data: `Changes` are
the operations that apply parts are made of and `Needed` says which slots each
of them reads, whichever branch it takes.

**Firing** is what the run modes promise: a rule fires in one step, for a
solution found with nothing but the arguments bound.  `Apply` is the outcome of
an apply part, as a function of the operations left, the storage, the heap and
the next id; `PassedOver` is a rule that could not fire with one of the ids in
`tried`.  After each result of splinter the caller is `asked`.
**RunningRefinement** has two mappings.  They differ in `tried`: in
`FiresAsPromised`, which is checked, it is only the next id, so that a rule that
was passed over must still be unable to fire when the next one fires; in
`FiresAsTried`, which is weaker and proved, it is all the ids handed out so far.

**Optimizer** is the way from a rule's operations to the lists the search runs:
`optimize_select` for the select part and then for each condition of the apply
part.  `scopes` is the stack of calls of `assemble_ops` (the list, then the
negations that are open), `provided` and `ops` are the `OpState`; `Place` is
`transform_op` for one operation, `EnterNot` and `LeaveNot` for a negation.  The
code keeps up to sixteen partial orders and prefers the cheaper; the model
takes any operation that can be placed, so every order the costs can lead to,
now or after a change of the numbers, is among its behaviours.  Whether a
preference could end in a dead end is the property `StuckForGood`.  Scope
indices are counted without the gaps that dropped candidates leave.

**RuleLists** has what a rule is made into before its operations are ordered:
the slots handed out (`env`; `Extended` is `BindingSequence::next` together with
the names it was asked for), the lists under way (`scopes`, the stack of nested
calls of `compile_rule_selects` and `compile_rule_applys`, or of builder
callbacks), the values open in the innermost of them (`values`), the finished
select lists, and the steps both front ends share.  `Step` is one construct:
slots are taken, operations pushed, items added, something opened, unless the
counter is at its end, which is the panic of `next`.  An error or a panic drops
what there is (`Stop`).

**Scoping** is `cfg.rs`.  It walks the syntax tree construct by construct; which
comes next, of those the grammar lets stand there, is open, so the behaviours
are the compilations of all rules.  A guard and an error of `cfg.rs` is a
disjunct of its own; a negation, a condition and a branch get a copy of the
visible names (`env.clone()`) and share the counters, so `CloseNot`,
`CloseCondition`, `CloseThen` and `CloseOtherwise` restore `visible` and nothing
else.  `Verify` is `verify_distinct_bindings` and then `verify_multi_usage`.
Attribute names, literals, operators and the lines in errors are left out.

**Builder** is `builder.rs`.  A binding is `Copy` and the callback of a negation
can store it outside, so a call may use any slot handed out so far, visible or
not.  The callbacks of tuples and choices cannot reach the builder, so only
items are added while one is open.  A calculation has two operands here.

**Compiling** puts a front end before the optimizer: `MakeLists` is a step of
either, `CompileCfg` hands an accepted rule over, `Order` is `Optimizer!Next`
with slots as numbers.  `Sealed` says that a slot younger than a negation is
mentioned in it or outside, not in both.

**Values** has `Value` with integers of `IntBits` bits and floats of `Precision`
bits, both zeros, infinities and NaNs (of either sign, since the sign of a NaN
that a calculation gives is not fixed); `Compare` is `value_compare`, `Matches`
is `match_value` for patterns that are no `Value`, `Holds` a comparison of a
rule and `Calculated` one operation of `perform_calculation`.

**Loading** has `System::new` with its errors, rules built in code, and a
`SystemLoader` that goes through a text rule by rule.  A parsed rule is data:
the system it names, its name, the inputs it needs and its own variables;
whether it compiles is whether the system has the inputs it needs, which stands
for all compile errors.  `before` and `begun` are history.

## 3. What is checked

| Run | Module | Properties | Distinct states |
|---|---|---|---|
| `space` | SpaceRefinement | TypeOK, Fresh, AbstractSpec, AllOrNothing | 38,724 |
| `space_nested` | SpaceRefinement | AbstractSpec, AllOrNothing | 122,117 |
| `space_values` | SpaceRefinement | EditsAsPromised | 17,032 |
| `marking` | MCMarking | TypeOK, OnlyReachable, NoneMissed, Exact, Terminates | 44,049 |
| `search` | MCSearch | TypeOK, ScopeFound, Enumerates, InputsKept, Returns | 99,472 |
| `running` | MCRunning | TypeOK, WithinLimits, FiresAsPromised, Returns | 33,960 |
| `optimizer` | MCOptimizer | Compiles, BoundFirst, StuckForGood, SameSolutions | 247 |
| `optimizer_panic` | MCOptimizer | OrderFound (violated) | – |
| `loading` | MCLoading | TypeOK, UniqueNames, StorageFits, PrefixLoaded, LoadedOnce | 545,752 |
| `compiling` | MCCompiling | TypeOK, OneSlotPerName, TextSealed, WrittenOrOwn, Safe, OrderKnown | 577,302 |
| `operands` | MCCompiling | WrittenFirst (violated) | – |
| `values` | MCValues | Ordered, SameResults, PatternsAgree | 787,245 |

* `space`: two objects, one name with one value, a tuple over both objects, one
  transaction on the space.  Two objects are needed for references, cycles and
  collection; one transaction for overlay, masking, commit and abort.
* `space_nested`: one object, two nested transactions, one copy of each alive
  at a time.  Reads go through two levels, a commit lands in a transaction, an
  outer transaction is cloned while it has nested commits in it.
* `space_values`: one object, two names of up to two values, one transaction.
  `EditsAsPromised` tells which value goes (the first match, the last one), the
  order of the others and the names left alone.  The three runs split one large
  instance along independent dimensions; bounds are `MaxId`, `MaxValues`,
  `MaxDepth` and `MaxClones`. The guards with `MaxId`, `MaxValues`, `MaxDepth`,
  `MaxClones` are the only ones the code does not have.
* `marking`: three objects, a tuple and a tuple that holds it, nine contents
  for each object, all choices of objects with entries, six lists of roots:
  every shape of cycle among three objects, objects without an entry,
  unreachable ones that refer to reachable ones.  Ids come up for marking in
  every order, so they are inserted at the front, in the middle and at the end.
* `search`: thirteen rules that cover every operation, joins, negations beside
  and inside each other up to depth three, an empty negated scope, negations of
  tuples and calculations; 36 heaps; every combination of two leftovers in the
  unbound slots.  `Enumerates` compares what the callback is told with
  `Solutions` from slots marked `Unbound`, so a leftover that matters shows.
* `running`: five systems of one to three rules (an endless rule, rules that
  undo each other, rules that fail after a change, after using an id, or always
  for their first solution, rules with negations, conditionals, conditionals in
  conditionals, created objects and tuples), all four modes, sixteen spaces,
  right and wrong numbers of arguments, limits of zero, one limit at a time and
  both.  Limits are part of every run with control, and keep runs finite;
  splinter has none, ends by itself, and is stopped after every possible result.
  `IdSequence` and `Leftover` are bounds.  `MCNeeded` collects what each
  operation reads, by recursion into branches and conditions.
* `optimizer`: ten rules with joins, nested patterns, tuples with a repeated
  slot, calculations that bind and compare, negations beside and inside each
  other, conditions with negations, and three rules without an order; all
  orders of each.  `SameSolutions` evaluates each finished order with
  `Solutions` on 25 heaps, with slots that hold nothing or leftovers, against
  `Meaning`: all assignments in which the operations hold and the negations
  cannot be made to, a definition that knows no order.  Which solution comes
  first, and how often, depends on the order; that is not compared.
* `compiling`: an input and one more name, wildcards, all rules of up to three
  constructs from text and of up to three builder calls, all orders of each.
  Three constructs are enough for a scope with a construct in it and one after
  it, for a name bound twice in different scopes, for a condition with a branch,
  and for a tuple in a value.  `MaxSlots = 3` puts the end of the slot counter
  (65535 in the code) within reach.  Slots and names are what the properties
  tell apart, so more of them only repeat these cases; four constructs with one
  slot more (3.6 million states) show nothing else.  The bounds are
  `MaxConstructs` and `MaxOrdered`.
* `values`: all triples of about ninety values: every integer of five bits,
  every float with three bits and four exponents, both infinities and NaNs, ids,
  symbols, and tuples of them, with one tuple in a tuple.  With `IntBits = 5`
  and `Precision = 3` the odd integers from 9 on round to a neighbour, as those
  beyond 2^53 do in the code.  The order is transitive, but where two different
  integers are compared with the float both are rounded to (`a = f`, `f = b`,
  `a > b`), or are in one place of three tuples; for numbers `Ordered` says that
  it fails exactly there, which is the hazard at `src/src/data.rs:80`.
  `SameResults` holds but where an operand or result is not exact.  The exceptions
  the three properties name are the code's behaviour and worth knowing: integer
  division drops the rest while the float division of the same numbers does not,
  `-0.0` and `0.0` are different to rules and the same to patterns, and a NaN
  equals itself in rules.
* `optimizer_panic`: only the rules without an order, see below.
* `loading`: two systems with equal or different names, with one input or none,
  two rule names, three texts (empty; for both systems, with a rule the other
  system may not compile; with a repeated name), loaders over any systems in any
  order.  The bounds are `MaxSystems`, `MaxInputs` and `MaxOwn`.

*Violations.*  The compiler asserts that an order exists
(`expect("select op order solution")`, `src/src/compiler/optimizer.rs:142`).  The
run `optimizer_panic` shows rules that the earlier stages accept and for which
there is none, so that loading panics instead of returning a `CompileError`:
`$x is $x + 1`, where the result is bound before the operands are compiled
(`src/src/compiler/cfg.rs:505`), and a conditional in the apply part whose
condition reads an object created before it, since a condition is given only
what the select part provides (`optimizer.rs:122`).  `OrderKnown` checks that
these two are the only kinds of rules in text without an order.  For the same
reason a condition that has a created variable as the value of an attribute
(`if { $ROOT.a: $o } then { .. }`) is compiled to a search that binds the
variable anew instead of a test of it.

The run `operands` shows that a tuple which the apply part makes can have itself
as an item (`+ $ROOT.x: $t @ [$t]`): its variable is bound before its items are
compiled (`src/src/compiler/cfg.rs:259`, and 312 and 364 for tuples to remove
and nested ones), so that the slot is read before it is written, where
`ExistingBindingRequired` is what other uses before binding get.
`WrittenOrOwn` checks that nothing else is read too early.

`AbstractSpec` (`Space` implements `SnapshotSpace`) and `FiresAsPromised`
(`Running` implements `Firing`) are refinements, under mappings in
`SpaceRefinement` and `RunningRefinement`; `EditsAsPromised` uses the first one.
In `FiresAsPromised` an application is a stutter until it ends: then it is a
firing or nothing.

*Fairness.*  `Terminates` and both `Returns` assume weak fairness of `Next`: the
code is one thread in a loop without waiting, so it takes the next step as long
as there is one.  No other fairness is used.  Deadlock is not checked where the
system stops by design (`marking`, `search`, `running`, `optimizer`,
`compiling`, `operands`: the call has returned; `values`: three values are
picked); in the space runs and in `loading` it is.

## 4. What is proved

Proofs hold for every value of the constants, under the named assumptions in
the modules.  Most of these say that constants have their types.  Four say
more.  `MissingAssumption` (`Space`) tells an absent entry from an empty one, as
`Option` does in the code.  `ProgramsAssumption` (`Search`) and
`SystemsAssumption` (`Running`) say that compiled lists are well formed and bind
what they read first (`BindsFirst`); `OrderCompiles` and `OrderBindsFirst` prove
both of what the optimizer returns.  A rule's own select list begins with the
arguments bound, and its search does not write the slots of the apply part.
`ChangesAssumption` and `SystemsAssumption` also say that each operation of an
apply part reads only what the select part binds or an operation before it on
the same way creates (`Prepared`, by the certificate `Needed`).  That is what
`ReadsAreWritten` proves of rules in text (`WrittenOrOwn`); left out are the
tuple that is its own item (run `operands`) and the bindings that a builder's
callback hands out, for both of which what a slot happens to hold does matter.
`RulesAssumption` of `Optimizer` (`IsRule`) says what the front end gives to it:
operations with their fields, negations whose bodies lie in the list and in each
other, and slots of a negation that are mentioned in it alone (`Sealed`).  That
is proved of every rule in text that is accepted (`RuleGiven` in
`CompilingProofs`).  It is needed: with a slot carried out of a negation, which
the builder's types allow, the optimizer counts as bound what is not.

* `SpaceProofs`: `TypeCorrect` (`Spec => []TypeOK`), `FreshIds`
  (`Spec => []Fresh`), `Refinement` (`Spec => AbstractSpec`: `Space` implements
  `SnapshotSpace`), `EditsAreExact` (`Spec => EditsAsPromised`) and
  `TransactionsAreAtomic` (`Spec => AllOrNothing`), for any number of objects,
  names, values, nested levels and copies.  Invariant: `TypeOK /\ Fresh /\
  TopmostHolder`.  `Fresh` alone is nearly inductive, since everything that is
  written is made of what is held; what it needs is that a read through the
  levels finds the entry of *some* level, which `TopmostHolder` says.  For the
  refinement, a snapshot is an entry-wise overlay of a level on what the level
  below shows (`Overlay`, `Under`).  What lies under a level does not change
  while the level is open (`UnderKept`), so a step is one of three: of the
  innermost level (`FrameView`, `UpdateView`, `EditView`), a level added
  (`BeginShown`) or a level ended (`EndView`).  A commit is a replacement since
  merging a level into the one below shows what the level showed
  (`BelowIsRead`).  An edit of the list that was read, in whichever level it was
  found, shows as the same edit of the copy (`AddedShows`, `RemovedShows`,
  `ClearedShows`, `RetainedShows`, and `FirstIsTaken` and `LastIsTaken` for the
  value a removal takes); that is `EditsAreExact`, and each operation is then a
  step of `SnapshotSpace`.  A collection forgets what it should since entries
  and snapshots mention the same objects (`SameLive`).
* `MarkingProofs`: `TypeCorrect`, `MarksOnlyReachable`, `MarksAllReachable` and
  `CollectionExact`.  Invariant: `TypeOK /\ OnlyReachable /\ Complete`.  That the
  vector of marks stays in order (`TypeOK`) rests on `PutInPlace`: an id inserted
  where the search has found its place is there, next to what was there, and the
  vector is in order again.
  Tuples leave no mark when they are traced, so `Complete` cannot speak of the
  tuples seen; it says that whatever set is settled by its objects (it has a
  tuple exactly if it has all items) and has the marked ids and the stack, also
  has the roots and what the marked objects hold.  With an empty stack, the
  settled set of the marked ids is closed, hence contains all that is
  reachable.
* `SearchProofs`: `TypeCorrect`, `ScopesAreFound` (the `expect` on the frame of
  a scope does not panic), `InputsAreKept` and `SolutionsAreEnumerated`
  (`Spec => []Enumerates`: the callback is told the solutions of the rule, each
  once and in order, whatever the unbound slots held).  Invariant of the first
  three: `TypeOK /\ Discipline /\ OwnSlots`.  `Discipline` relates positions and
  stack: wherever the search is, and wherever a frame may send it back to, the
  scopes around that operation have frames below.  It needs the lemmas on
  positions (going on enters at most one scope, what follows a scope is in
  what the scope is in) that rest on `WellFormed`.
  For `SolutionsAreEnumerated` the search is followed by another one that began
  with the same value in every unbound slot (`Followed`): to the position and to
  each frame belongs an environment of that search, which agrees with the storage
  on what is bound there.  What has been told, and then what the position and the
  frames from the innermost to the outermost still have to give, is all of
  `Solutions`, frame by frame (`left`); each step takes something from one to the
  other, and a negation that is left drops what its frames had.  `Solutions` is a
  recursive function on positions; that it exists and what it returns
  (`FoundType`), and that it returns the same for environments that agree on what
  is bound (`FoundAlike`), is shown by well-founded recursion and by looking at
  the last position at which it might fail.
* `RunningProofs`: `LimitsHold` (`Spec => []WithinLimits`), `RunsAreTyped`
  (`Spec => []TypeOK`) and `RunningImplementsFiring` (`Spec => FiresAsTried`), for
  all systems, spaces, arguments, limits and leftovers.  For the limits, which
  the two saturation modes have, the invariant is that in the phases in which a
  rule may still fire, counts are below them (`Room`).  For the types it is
  `Typing`, in which the transaction and the operations left of it are typed
  too.  For the refinement it is `RInv == IInv /\ Typing /\ AsPromised /\ Order
  /\ Passed`.  `AsPromised` goes with an attempt: there is an environment of an
  attempt that began with the arguments alone, with which the storage agrees on
  the slots the operations left may read (`Follows`), and what these come to
  from there is what the whole apply part comes to.  `Order` says where the loop
  over the rules is, and `Passed` that each rule it has passed over could not
  fire with one of the ids handed out so far; since there are only more of these
  later, that stays true until a rule fires, after which the rules that may fire
  next are counted anew.  `Apply` is a recursive function on states for which no
  measure is at hand; that its equation has a solution (`ApplyEquation`) is
  shown with the states that every closed set around a state ends in (`Ends`),
  which are the same for the next one. Two things are used of a search: it finds
  the same from environments that agree on the arguments (`FoundAlike` again),
  and it leaves the slots of its solution.

* `OptimizerProofs`: `OrderCompiles` (`Spec => []Compiles`), `OrderBindsFirst`
  (`Spec => []BoundFirst`) and `NoOrderIsLost` (`Spec => []StuckForGood`), for
  every rule and every order the costs may prefer.  The invariant relates three
  things.  What has been placed (`ops`): closed scopes are closed right, none
  reaches over the beginning of an open one (`Closed`, `CutAt`).  What is still
  to be placed: the open negations lie in each other, and each is entered with
  what it needs (`Frames`, `Negations`).  And the slots *counted* as bound, of
  which there are more than are bound, since the optimizer keeps those of a
  negation when it leaves it: `Waiting` and `WaitingLists` say that whatever is
  still to be placed mentions only such counted slots as are really bound.  That
  is where `Sealed` is needed, when a negation is left.  `StuckForGood` follows
  from `Placed`: an operation that could be placed in the list of a slot's
  binder has been, so the slots missing in a dead end are those of operations
  that are stuck themselves.

* `LoadingProofs`: `TypeCorrect`, `NamesUnique` (`UniqueNames`),
  `StorageIsEnough` (`StorageFits`), `LoadsInOrder` (`PrefixLoaded`) and
  `NoTextTwice` (`LoadedOnce`).  Invariant: `TypeOK /\ AllGood /\ Started /\
  NotBegun`.  `StorageFits` needs that the inputs of a system differ, or a rule
  could have fewer slots than the system has arguments.  `LoadedOnce` needs
  that a system still has the first rule of each text it has begun (`Started`),
  and that a call that is past its first rule is the first for that text and
  system (`NotBegun`).  `PrefixLoaded` says where the rules of a text are by
  counting those of the text for the same system (`For`); it is inductive, and
  its step rests on that count growing by one for one system only (`ForNext`)
  and placing different rules differently (`ForOrder`).

* `FrontEndProofs`: `TypeCorrect` (`Spec => []TypeOK`) and `NamesHaveOneSlot`
  (`Spec => []OneSlotPerName`) of `Scoping`, for any number of names, inputs,
  slots and constructs, and `BuilderTypeCorrect`, the same type invariant for
  `Builder`.  Invariant: `TypeOK /\ Counted(env) /\ Outermost /\
  OneSlotPerName`.  `OneSlotPerName` speaks of the end of the compilation; what
  is kept all along is `Counted`: how often a name was given a slot bounds how
  many slots have it, so that a rule in which none was given one twice has none
  with two.  `Outermost` says that the list at the bottom of the stack is the
  select or apply part, so that a scope that ends has a list around it.  For
  the builders there are also `NoComparison` (calls open nothing within
  something open) and `Anonymous` (no slot has a name).
  Both rest on one lemma for each step of `RuleLists`: what mentions only slots
  of a smaller environment mentions only slots of a larger one, and a list that
  ends leaves the one around it in order.  The module also has the steps of what
  the next one needs of the lists under way (`SealedInv`, `Sorted`).
* `CompilingProofs`: `NegationsSealed` (`CompilingSpec => []TextSealed`),
  `CompiledIsSafe` (`CompilingSpec => []Safe`), `TextCompiles` and
  `ReadsAreWritten` (`CompilingSpec => []WrittenOrOwn`), for any number of names,
  inputs, slots and constructs.  `TextSealed` speaks of finished rules;
  what each construct keeps (`SealedInv`) is four things.  `Sorted`: the
  operations of a list are those its kind may have, bodies lie in each other,
  and lists stand only where lists of their kind can.  `Separate`: every list,
  finished or under way, is sealed, and a slot that is dead (bound in a negation
  that has ended) is used in no other.  `Unseen`: no name stands for a dead slot,
  now or in an environment that a scope will give back, and nothing that is open
  has one, so no later construct can use it.  `Aged`: what there was before a
  scope is older than its `mark`, so when a negation ends, the slots that become
  dead are used in its body alone; this is where the shared counters matter.
  A callback of a builder can keep a binding, so for the builders only `Sorted`
  holds: their lists have the shape the optimizer asks for, and `Safe` is stated
  of those that are sealed.  From the lists on, the invariant is that of
  `OptimizerProofs` (`WholeInv`): what that module assumes of its constants is
  proved here (`OptimizerAssumptions`, `RuleGiven`), so that `Compiles`,
  `BoundFirst` and `StuckForGood` hold of every rule in text without an
  assumption on rules.

  For `WrittenOrOwn` the invariant is `FedInv`.  `Base(k)` are the slots written
  before the list of scope `k`, by the inputs, the select part and the lists
  around it on every way; `Reach` adds those of the innermost list and `Pending`,
  the slots of tuples, choices and calculations that are still open, whose
  operation comes after those of their parts.  What a name stands for and what is
  open is within `Reach`, and what a scope will give back within the `Base` of its
  list (`VisibleIn`), so whatever the next construct mentions has been written or
  is pending.  In an apply list under way every read is written by the `Base`, by
  an operation on its way, by the tuple around it, or is pending (`Fed`); a pending
  slot counts only out of the branches, as its operation is put at the end of the
  list.  Where a list becomes a branch, `FedConditional` shifts all of it: the
  branches a place is in are those it was in and one more, so what was on its way
  before stays on its way.

Only model-checked:

* of the compilation `OrderKnown`;
* the values (`Ordered`, `SameResults`, `PatternsAgree`), whose comparison is
  recursive, as tuples hold tuples;
* that all orders of a rule find the same (`SameSolutions`): its other side,
  `Meaning`, is recursive in the negations;
* the stronger `FiresAsPromised`.  It needs that an apply part fails or not
  whichever new ids it is given, an induction over data with a renaming of
  objects in heaps, storage and the values of attributes; `FiresAsTried`, which
  leaves open only which ids a rule that was passed over failed with, is proved;
* termination (`Terminates`, `Returns`), since liveness is out of reach of the
  proof system.

## 5. What is not modelled, and what could follow

* *The text of rules.*  White space, comments, identifiers, numbers and the
  order in which the parser tries its alternatives are a conversion that the
  other parts know only by its result; what a rule may contain where is what
  `Scoping` walks over.
* *Conversions and `Display`* of values and errors, iterators, tracing and
  capacity (`shrink_to_fit` is modelled as far as it drops entries) have no
  effect on the properties.  `lib.rs` only re-exports.
* *Calculations as trees.*  A calculation is one operation in `Values`; in the
  lists it is the slots it reads, in `Operations` a table.
* *Costs of the optimizer.*  Any order that can be reached by some costs is
  allowed.
* *Several spaces.*  They share nothing but the id sequence, which only makes
  the ids handed out by one of them sparser.  The wrap-around of the 64-bit id
  sequence is left out.

What would be worth doing next:

1. **Compilation, proofs**: `OrderKnown` for every rule, with an invariant like
   `FedInv` for the select lists: that the operands and inputs of an operation
   can be bound by what was compiled before it.
2. **Loading with running**: the storage of a run is that of the system loaded
   (`StorageFits` as what `Running` assumes of its slots).
3. **Proofs**: the marked set of `Marking` is `Space!Reachable`; ids can be
   renamed in an attempt, which `FiresAsPromised` needs.
