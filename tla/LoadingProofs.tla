--------------------------- MODULE LoadingProofs ---------------------------
(***************************************************************************)
(* Rule names stay unique, the bindings storage fits every rule, and a     *)
(* text is loaded into a system at most once, for any names, texts, number *)
(* of systems and lengths.                                                 *)
(***************************************************************************)
EXTENDS Loading, FiniteSetTheorems, WellFoundedInduction, TLAPS

\* The two invariants of one system, and that its inputs differ.
NamesOf(system) ==
  \A i, j \in DOMAIN system.rules : system.rules[i].name = system.rules[j].name => i = j

Fits(system) ==
  /\ \/ system.max_binding_len = Len(system.inputs)
     \/ \E i \in DOMAIN system.rules : system.max_binding_len = system.rules[i].bindings_len
  /\ Len(system.inputs) <= system.max_binding_len
  /\ \A i \in DOMAIN system.rules :
       /\ Len(system.inputs) <= system.rules[i].bindings_len
       /\ system.rules[i].bindings_len <= system.max_binding_len

Distinct(system) ==
  \A i, j \in DOMAIN system.inputs : system.inputs[i] = system.inputs[j] => i = j

Good(system) == NamesOf(system) /\ Fits(system) /\ Distinct(system)

AllGood == \A s \in DOMAIN systems : Good(systems[s])

\* A text that has been begun finds the rule it began with.
Started ==
  \A s, t : <<s, t>> \in begun =>
    s \in DOMAIN systems /\ HasRule(systems[s], t[1].name)

\* A text that is being loaded had not been begun.
NotBegun ==
  position > 1 =>
    /\ text # <<>>
    /\ Candidates(text[1]) # {}
    /\ HasRule(systems[Target(text[1])], text[1].name)
    /\ <<Target(text[1]), text>> \notin begun

IInv == TypeOK /\ AllGood /\ Started /\ NotBegun

-----------------------------------------------------------------------------
(* Lemmas.                                                                 *)

\* A set of positions that is not empty has a least one.
LEMMA LeastPosition ==
  ASSUME NEW T \in SUBSET Nat, T # {}
  PROVE  Min(T) \in T
<1>1. PICK R : (\A x, y \in Nat : <<y, x>> \in R <=> y < x) /\ IsWellFoundedOn(R, Nat)
  <2>1. \A x, y \in Nat : <<y, x>> \in OpToRel(<, Nat) <=> y < x
    BY Zenon DEF OpToRel
  <2> QED
    BY <2>1, NatLessThanWellFounded, Zenon
<1>2. PICK x \in T : \A y \in T : ~(<<y, x>> \in R)
  BY <1>1, WFMin
<1>3. \A y \in T : x <= y
  <2> TAKE y \in T
  <2>1. x \in Nat /\ y \in Nat
    OBVIOUS
  <2>2. ~(y < x)
    BY <1>1, <1>2, <2>1, Zenon
  <2> QED
    BY <2>1, <2>2
<1> QED
  BY <1>3 DEF Min

\* The rule of a text goes to a system there is.
LEMMA TargetExists ==
  ASSUME loader \in Seq(DOMAIN systems), NEW rule, Candidates(rule) # {}
  PROVE  Target(rule) \in DOMAIN systems
<1>1. Candidates(rule) \in SUBSET Nat /\ Candidates(rule) \subseteq DOMAIN loader
  BY DEF Candidates
<1>2. Min(Candidates(rule)) \in DOMAIN loader
  BY <1>1, LeastPosition
<1> QED
  BY <1>2 DEF Target

\* Where a rule goes depends on the names of the systems only.
LEMMA TargetStays ==
  ASSUME loader' = loader,
         \A i \in DOMAIN loader : systems'[loader[i]].name = systems[loader[i]].name,
         NEW rule
  PROVE  Candidates(rule)' = Candidates(rule) /\ Target(rule)' = Target(rule)
BY DEF Candidates, Target

\* Names that differ have as many slots.
LEMMA DistinctSlots ==
  ASSUME NEW inputs \in Seq(Ident),
         \A i, j \in DOMAIN inputs : inputs[i] = inputs[j] => i = j,
         NEW rule, IsFiniteSet(rule.own)
  PROVE  Slots(rule, inputs) \in Nat /\ Len(inputs) <= Slots(rule, inputs)
<1> DEFINE P == 1 .. Len(inputs)
<1>1. IsFiniteSet(P) /\ Cardinality(P) = Len(inputs)
  <2>1. Len(inputs) \in Nat
    OBVIOUS
  <2>2. IsFiniteSet(1 .. Len(inputs))
        /\ Cardinality(1 .. Len(inputs)) = IF 1 > Len(inputs) THEN 0 ELSE Len(inputs) - 1 + 1
    BY <2>1, FS_Interval
  <2> QED
    BY <2>1, <2>2
<1>2. inputs \in Bijection(P, ToSet(inputs))
  <2>1. inputs \in [P -> ToSet(inputs)] /\ DOMAIN inputs = P
    BY DEF ToSet
  <2>2. IsInjective(inputs)
    BY DEF IsInjective
  <2>3. \A v \in ToSet(inputs) : \E i \in P : inputs[i] = v
    BY <2>1 DEF ToSet
  <2> QED
    BY <2>1, <2>2, <2>3 DEF Bijection, Injection, Surjection
<1>3. IsFiniteSet(ToSet(inputs)) /\ Cardinality(ToSet(inputs)) = Len(inputs)
  BY <1>1, <1>2, FS_Bijection DEF ExistsBijection
<1>4. IsFiniteSet(ToSet(inputs) \cup rule.own)
  BY <1>3, FS_Union
<1>5. Cardinality(ToSet(inputs)) <= Cardinality(ToSet(inputs) \cup rule.own)
  BY <1>4, FS_Subset
<1> QED
  BY <1>3, <1>4, <1>5, FS_CardinalityType DEF Slots

LEMMA RuleAdded ==
  ASSUME NEW system \in SystemType, NEW rule \in RuleType
  PROVE  LET new == WithRule(system, rule) IN
         /\ new \in SystemType
         /\ new.name = system.name
         /\ new.inputs = system.inputs
         /\ new.rules = Append(system.rules, rule)
         /\ new.max_binding_len =
              IF rule.bindings_len > system.max_binding_len THEN rule.bindings_len ELSE system.max_binding_len
<1> DEFINE new == WithRule(system, rule)
<1> DEFINE longer == [system EXCEPT !.rules = Append(system.rules, rule)]
           most == IF rule.bindings_len > system.max_binding_len
                     THEN rule.bindings_len ELSE system.max_binding_len
<1>1. new = [longer EXCEPT !.max_binding_len = most]
  BY Zenon DEF WithRule
<1>2. /\ longer \in SystemType
      /\ longer.name = system.name /\ longer.inputs = system.inputs
      /\ longer.rules = Append(system.rules, rule)
  BY DEF SystemType
<1>3. most \in Nat
  BY DEF SystemType, RuleType
<1> HIDE DEF new, longer, most
<1>4. /\ [longer EXCEPT !.max_binding_len = most] \in SystemType
      /\ [longer EXCEPT !.max_binding_len = most].name = longer.name
      /\ [longer EXCEPT !.max_binding_len = most].inputs = longer.inputs
      /\ [longer EXCEPT !.max_binding_len = most].rules = longer.rules
      /\ [longer EXCEPT !.max_binding_len = most].max_binding_len = most
  BY <1>2, <1>3 DEF SystemType
<1> QED
  BY <1>1, <1>2, <1>4 DEF most, new

\* System::load keeps a system good, and the rules it has.
LEMMA LoadKeepsGood ==
  ASSUME NEW system \in SystemType, Good(system),
         NEW rule \in RuleType, Len(system.inputs) <= rule.bindings_len,
         ~HasRule(system, rule.name)
  PROVE  /\ WithRule(system, rule) \in SystemType
         /\ Good(WithRule(system, rule))
         /\ WithRule(system, rule).name = system.name
         /\ HasRule(WithRule(system, rule), rule.name)
         /\ \A name : HasRule(system, name) => HasRule(WithRule(system, rule), name)
<1> DEFINE new == WithRule(system, rule)
           n == Len(system.rules)
<1>1. /\ new \in SystemType
      /\ new.name = system.name
      /\ new.inputs = system.inputs
      /\ new.rules = Append(system.rules, rule)
      /\ new.max_binding_len =
           IF rule.bindings_len > system.max_binding_len THEN rule.bindings_len ELSE system.max_binding_len
  BY RuleAdded
<1>2. /\ DOMAIN new.rules = 1 .. n + 1
      /\ DOMAIN system.rules = 1 .. n
      /\ new.rules[n + 1] = rule
      /\ \A i \in 1 .. n : new.rules[i] = system.rules[i]
      /\ n \in Nat
  BY <1>1 DEF SystemType
<1> HIDE DEF new
<1>3. HasRule(new, rule.name) /\ \A name : HasRule(system, name) => HasRule(new, name)
  BY <1>2 DEF HasRule
<1>4. NamesOf(new)
  <2>1. \A i \in 1 .. n : new.rules[i].name # rule.name
    BY <1>2 DEF HasRule
  <2>2. \A i, j \in 1 .. n : new.rules[i].name = new.rules[j].name => i = j
    BY <1>2 DEF Good, NamesOf
  <2> QED
    BY <1>2, <2>1, <2>2 DEF NamesOf
<1>5. Fits(new)
  <2>1. \A i \in 1 .. n : system.rules[i].bindings_len \in Nat
    <3>1. system.rules \in Seq(RuleType)
      BY DEF SystemType
    <3>2. \A i \in 1 .. n : system.rules[i] \in RuleType
      BY <3>1
    <3> QED
      BY <3>2 DEF RuleType
  <2>2. rule.bindings_len \in Nat /\ system.max_binding_len \in Nat /\ Len(system.inputs) \in Nat
    BY DEF SystemType, RuleType
  <2>3. \A i \in DOMAIN new.rules :
          Len(new.inputs) <= new.rules[i].bindings_len /\ new.rules[i].bindings_len <= new.max_binding_len
    BY <1>1, <1>2, <2>1, <2>2 DEF Good, Fits
  <2>4. Len(new.inputs) <= new.max_binding_len
    BY <1>1, <2>2 DEF Good, Fits
  <2>5. \/ new.max_binding_len = Len(new.inputs)
        \/ \E i \in DOMAIN new.rules : new.max_binding_len = new.rules[i].bindings_len
    BY <1>1, <1>2 DEF Good, Fits
  <2> QED
    BY <2>3, <2>4, <2>5 DEF Fits
<1>6. Distinct(new)
  BY <1>1 DEF Good, Distinct
<1> QED
  BY <1>1, <1>3, <1>4, <1>5, <1>6 DEF Good, new

\* A system that gets a rule leaves all systems good and every rule in place.
LEMMA SystemGains ==
  ASSUME TypeOK, AllGood,
         NEW s \in DOMAIN systems, NEW rule \in RuleType,
         Len(systems[s].inputs) <= rule.bindings_len,
         ~HasRule(systems[s], rule.name),
         systems' = [systems EXCEPT ![s] = WithRule(@, rule)]
  PROVE  /\ systems' \in Seq(SystemType)
         /\ DOMAIN systems' = DOMAIN systems
         /\ AllGood'
         /\ HasRule(systems'[s], rule.name)
         /\ \A x \in DOMAIN systems :
              /\ systems'[x].name = systems[x].name
              /\ \A name : HasRule(systems[x], name) => HasRule(systems'[x], name)
<1> DEFINE new == WithRule(systems[s], rule)
<1>1. systems \in Seq(SystemType)
  BY DEF TypeOK
<1>2. systems[s] \in SystemType /\ Good(systems[s])
  BY <1>1 DEF AllGood
<1>3. /\ new \in SystemType
      /\ Good(new)
      /\ new.name = systems[s].name
      /\ HasRule(new, rule.name)
      /\ \A name : HasRule(systems[s], name) => HasRule(new, name)
  BY <1>2, LoadKeepsGood
<1>4. systems' = [systems EXCEPT ![s] = new]
  OBVIOUS
<1> HIDE DEF new
<1>5. /\ systems' \in Seq(SystemType)
      /\ DOMAIN systems' = DOMAIN systems
      /\ systems'[s] = new
      /\ \A x \in DOMAIN systems : x # s => systems'[x] = systems[x]
  BY <1>1, <1>3, <1>4
<1>6. AllGood'
  BY <1>3, <1>5 DEF AllGood
<1> QED
  BY <1>3, <1>5, <1>6

\* A system that is accepted is good.
LEMMA AcceptedIsGood ==
  ASSUME NEW name \in Path, NEW inputs \in Seq(Variable), Refused(inputs) = {}
  PROVE  LET system == [name |-> name, inputs |-> inputs,
                        max_binding_len |-> Len(inputs), rules |-> <<>>]
         IN  system \in SystemType /\ Good(system)
<1>1. \A i \in DOMAIN inputs : inputs[i] \in Ident
  BY DEF Refused
<1>2. inputs \in Seq(Ident) /\ Len(inputs) \in Nat
  BY <1>1
<1>3. \A i, j \in DOMAIN inputs : inputs[i] = inputs[j] => i = j
  <2> SUFFICES ASSUME NEW i \in DOMAIN inputs, NEW j \in DOMAIN inputs, inputs[i] = inputs[j]
               PROVE  i = j
    OBVIOUS
  <2> QED
    BY <1>2 DEF Refused
<1> QED
  BY <1>2, <1>3 DEF SystemType, RuleType, Good, NamesOf, Fits, Distinct

-----------------------------------------------------------------------------
(* The invariant.                                                          *)

LEMMA Initially == Init => IInv
<1> SUFFICES ASSUME Init PROVE IInv
  OBVIOUS
<1> USE DEF Init
<1>1. TypeOK
  BY DEF TypeOK
<1>2. AllGood /\ Started /\ NotBegun
  BY DEF AllGood, Started, NotBegun
<1> QED
  BY <1>1, <1>2 DEF IInv

\* The rule that is next, and the system it goes to.
LEMMA NextRule ==
  ASSUME TypeOK, Loading
  PROVE  /\ Rule.name \in RuleName /\ IsFiniteSet(Rule.own)
         /\ text \in Texts /\ text # <<>> /\ Len(text) \in Nat
         /\ position \in 1 .. Len(text)
         /\ Candidates(Rule) # {} => Target(Rule) \in DOMAIN systems
<1>1. text # <<>>
  BY DEF Loading
<1>2. text \in Texts
  BY <1>1 DEF TypeOK
<1>3. Rule.name \in RuleName /\ IsFiniteSet(Rule.own) /\ text \in Seq(Range(text))
  BY <1>2, TextsAssumption DEF Loading, Rule
<1>4. Len(text) \in Nat /\ position \in 1 .. Len(text)
  BY <1>3 DEF Loading
<1>5. Candidates(Rule) # {} => Target(Rule) \in DOMAIN systems
  BY TargetExists DEF TypeOK
<1> QED
  BY <1>1, <1>2, <1>3, <1>4, <1>5

\* A call that ends records what it began.
LEMMA EndKeeps ==
  ASSUME IInv, NEW outcome, Ends(outcome), UNCHANGED <<systems, loader>>
  PROVE  IInv'
<1>1. TypeOK'
  BY DEF IInv, TypeOK, Ends
<1>2. AllGood'
  BY DEF IInv, AllGood
<1>3. NotBegun'
  BY DEF Ends, NotBegun
<1>4. Started'
  <2>1. CASE position > 1
    <3>1. Target(text[1]) \in DOMAIN systems /\ HasRule(systems[Target(text[1])], text[1].name)
      BY <2>1, TargetExists DEF IInv, TypeOK, NotBegun
    <3>2. begun' = begun \cup {<<Target(text[1]), text>>}
      BY <2>1 DEF Ends, Begun
    <3> QED
      BY <3>1, <3>2 DEF IInv, Started
  <2>2. CASE ~(position > 1)
    BY <2>2 DEF IInv, Started, Ends, Begun
  <2> QED
    BY <2>1, <2>2
<1> QED
  BY <1>1, <1>2, <1>3, <1>4 DEF IInv

LEMMA LoadRuleKeeps == IInv /\ LoadRule => IInv'
<1> SUFFICES ASSUME IInv, LoadRule PROVE IInv'
  OBVIOUS
<1> DEFINE s == Target(Rule)
           rule == [name |-> Rule.name, bindings_len |-> Slots(Rule, systems[s].inputs)]
<1>1. /\ Loading /\ Candidates(Rule) # {}
      /\ ~HasRule(systems[s], Rule.name)
      /\ systems' = [systems EXCEPT ![s] = WithRule(@, rule)]
      /\ position' = position + 1
      /\ UNCHANGED <<loader, text, begun>>
  BY DEF LoadRule
<1>2. /\ Rule.name \in RuleName /\ IsFiniteSet(Rule.own)
      /\ text \in Texts /\ text # <<>> /\ Len(text) \in Nat
      /\ position \in 1 .. Len(text)
      /\ s \in DOMAIN systems
  BY <1>1, NextRule DEF IInv
<1>3. rule \in RuleType /\ Len(systems[s].inputs) <= rule.bindings_len
  <2>1. systems[s].inputs \in Seq(Ident)
    <3>1. systems \in Seq(SystemType)
      BY DEF IInv, TypeOK
    <3>2. systems[s] \in SystemType
      BY <1>2, <3>1
    <3> QED
      BY <3>2 DEF SystemType
  <2>2. \A i, j \in DOMAIN systems[s].inputs :
          systems[s].inputs[i] = systems[s].inputs[j] => i = j
    BY <1>2 DEF IInv, AllGood, Good, Distinct
  <2>3. Slots(Rule, systems[s].inputs) \in Nat
        /\ Len(systems[s].inputs) <= Slots(Rule, systems[s].inputs)
    BY <1>2, <2>1, <2>2, DistinctSlots
  <2> QED
    BY <1>2, <2>3 DEF RuleType
<1>4. rule.name = Rule.name
  OBVIOUS
<1> HIDE DEF s, rule
<1>5. /\ systems' \in Seq(SystemType)
      /\ DOMAIN systems' = DOMAIN systems
      /\ AllGood'
      /\ HasRule(systems'[s], Rule.name)
      /\ \A x \in DOMAIN systems :
           /\ systems'[x].name = systems[x].name
           /\ \A name : HasRule(systems[x], name) => HasRule(systems'[x], name)
  BY <1>1, <1>2, <1>3, <1>4, SystemGains DEF IInv
<1>6. TypeOK'
  <2>1. loader' \in Seq(DOMAIN systems')
    BY <1>1, <1>5 DEF IInv, TypeOK
  <2>2. text' \in Texts /\ position' \in 0 .. Len(text') + 1
    BY <1>1, <1>2
  <2> QED
    BY <1>5, <2>1, <2>2 DEF TypeOK
<1>7. Started'
  BY <1>1, <1>5 DEF IInv, Started
<1>8. NotBegun'
  <2>1. /\ Candidates(text[1])' = Candidates(text[1])
        /\ Target(text[1])' = Target(text[1])
    <3>1. \A i \in DOMAIN loader : systems'[loader[i]].name = systems[loader[i]].name
      <4>1. loader \in Seq(DOMAIN systems)
        BY DEF IInv, TypeOK
      <4>2. \A i \in DOMAIN loader : loader[i] \in DOMAIN systems
        BY <4>1
      <4> QED
        BY <1>5, <4>2
    <3> QED
      BY <1>1, <3>1, TargetStays
  <2>2. CASE position = 1
    <3>1. Rule = text[1] /\ s = Target(text[1])
      BY <2>2 DEF Rule, s
    <3>2. <<s, text>> \notin begun
      BY <1>1, <3>1 DEF IInv, Started, s
    <3> QED
      BY <1>1, <1>2, <1>5, <2>1, <3>1, <3>2 DEF NotBegun
  <2>3. CASE position > 1
    <3>1. Target(text[1]) \in DOMAIN systems
      BY <2>3, TargetExists DEF IInv, TypeOK, NotBegun
    <3> QED
      BY <1>1, <1>5, <2>1, <2>3, <3>1 DEF IInv, NotBegun
  <2> QED
    BY <1>2, <2>2, <2>3
<1> QED
  BY <1>5, <1>6, <1>7, <1>8 DEF IInv

LEMMA BuildRuleKeeps == IInv /\ BuildRule => IInv'
<1> SUFFICES ASSUME IInv, BuildRule PROVE IInv'
  OBVIOUS
<1>1. PICK s \in DOMAIN systems, name \in RuleName, own \in 0 .. MaxOwn :
        LET rule == [name |-> name, bindings_len |-> Len(systems[s].inputs) + own] IN
          IF HasRule(systems[s], name)
            THEN result' = "DuplicateRuleName" /\ UNCHANGED systems
            ELSE result' = "Ok" /\ systems' = [systems EXCEPT ![s] = WithRule(@, rule)]
  BY DEF BuildRule
<1> DEFINE rule == [name |-> name, bindings_len |-> Len(systems[s].inputs) + own]
<1>2. position = 0 /\ UNCHANGED <<loader, text, position, begun>>
  BY DEF BuildRule, Idle
<1>3. CASE HasRule(systems[s], name)
  BY <1>1, <1>2, <1>3 DEF IInv, TypeOK, AllGood, Started, NotBegun
<1>4. CASE ~HasRule(systems[s], name)
  <2>1. Len(systems[s].inputs) \in Nat
    BY DEF IInv, TypeOK
  <2>2. rule \in RuleType /\ Len(systems[s].inputs) <= rule.bindings_len /\ rule.name = name
    BY <2>1, BoundsAssumption DEF RuleType
  <2>3. systems' = [systems EXCEPT ![s] = WithRule(@, rule)]
    BY <1>1, <1>4
  <2> HIDE DEF rule
  <2>4. /\ systems' \in Seq(SystemType)
        /\ DOMAIN systems' = DOMAIN systems
        /\ AllGood'
        /\ \A x \in DOMAIN systems :
             \A n : HasRule(systems[x], n) => HasRule(systems'[x], n)
    BY <1>4, <2>2, <2>3, SystemGains DEF IInv
  <2>5. TypeOK'
    BY <1>2, <2>4 DEF IInv, TypeOK
  <2>6. Started' /\ NotBegun'
    BY <1>2, <2>4 DEF IInv, Started, NotBegun
  <2> QED
    BY <2>4, <2>5, <2>6 DEF IInv
<1> QED
  BY <1>3, <1>4

LEMMA NewSystemKeeps == IInv /\ NewSystem => IInv'
<1> SUFFICES ASSUME IInv, NewSystem PROVE IInv'
  OBVIOUS
<1>1. position = 0 /\ UNCHANGED <<loader, text, position, begun>>
  BY DEF NewSystem, Idle
<1>2. CASE UNCHANGED systems
  BY <1>1, <1>2 DEF IInv, TypeOK, AllGood, Started, NotBegun
<1>3. ASSUME NEW name \in Name, NEW inputs \in BoundedSeq(Variable, MaxInputs),
             name \in Path, Refused(inputs) = {},
             systems' = Append(systems, [name |-> name, inputs |-> inputs,
                                         max_binding_len |-> Len(inputs), rules |-> <<>>])
      PROVE  IInv'
  <2> DEFINE system == [name |-> name, inputs |-> inputs,
                        max_binding_len |-> Len(inputs), rules |-> <<>>]
  <2>1. inputs \in Seq(Variable)
    BY DEF BoundedSeq, SeqOf
  <2>2. system \in SystemType /\ Good(system)
    BY <1>3, <2>1, AcceptedIsGood
  <2>3. systems \in Seq(SystemType)
    BY DEF IInv, TypeOK
  <2>4. systems' = Append(systems, system)
    BY <1>3
  <2> HIDE DEF system
  <2>5. /\ systems' \in Seq(SystemType)
        /\ DOMAIN systems' = DOMAIN systems \cup {Len(systems) + 1}
        /\ systems'[Len(systems) + 1] = system
        /\ \A x \in DOMAIN systems : systems'[x] = systems[x]
    BY <2>2, <2>3, <2>4
  <2>6. AllGood'
    BY <2>2, <2>5 DEF IInv, AllGood
  <2>7. TypeOK'
    BY <1>1, <2>5 DEF IInv, TypeOK
  <2>8. Started' /\ NotBegun'
    BY <1>1, <2>5 DEF IInv, Started, NotBegun
  <2> QED
    BY <2>6, <2>7, <2>8 DEF IInv
<1> QED
  BY <1>2, <1>3 DEF NewSystem

LEMMA StepKeeps == IInv /\ [Next]_vars => IInv'
<1> SUFFICES ASSUME IInv, [Next]_vars PROVE IInv'
  OBVIOUS
<1>1. CASE NewSystem
  BY <1>1, NewSystemKeeps
<1>2. CASE NewLoader
  <2>1. loader' \in Seq(DOMAIN systems)
    BY <1>2 DEF NewLoader, BoundedSeq, SeqOf
  <2> QED
    BY <1>2, <2>1 DEF NewLoader, Idle, IInv, TypeOK, AllGood, Started, NotBegun
<1>3. CASE BuildRule
  BY <1>3, BuildRuleKeeps
<1>4. CASE LoadNothing
  BY <1>4 DEF LoadNothing, Idle, IInv, TypeOK, AllGood, Started, NotBegun
<1>5. CASE StartText
  <2>1. text' \in Texts /\ Len(text') \in Nat /\ position' = 1
    BY <1>5, TextsAssumption DEF StartText
  <2> QED
    BY <1>5, <2>1 DEF StartText, IInv, TypeOK, AllGood, Started, NotBegun
<1>6. CASE RefuseUnknown
  BY <1>6, EndKeeps DEF RefuseUnknown
<1>7. CASE RefuseInvalid
  BY <1>7, EndKeeps DEF RefuseInvalid
<1>8. CASE RefuseDuplicate
  BY <1>8, EndKeeps DEF RefuseDuplicate
<1>9. CASE LoadRule
  BY <1>9, LoadRuleKeeps
<1>10. CASE Finish
  BY <1>10, EndKeeps DEF Finish
<1>11. CASE UNCHANGED vars
  BY <1>11 DEF vars, IInv, TypeOK, AllGood, Started, NotBegun, Candidates, Target
<1> QED
  BY <1>1, <1>2, <1>3, <1>4, <1>5, <1>6, <1>7, <1>8, <1>9, <1>10, <1>11 DEF Next

LEMMA Invariance == Spec => []IInv
BY Initially, StepKeeps, PTL DEF Spec

-----------------------------------------------------------------------------
(* Where the rules of a text are.                                          *)

BeforeType == position > 0 => before \in Seq(SystemType)

LEMMA ForCounts ==
  ASSUME NEW s, NEW n \in Nat
  PROVE  IsFiniteSet(For(s, n)) /\ Cardinality(For(s, n)) \in Nat
<1>1. IsFiniteSet(1 .. n)
  BY FS_Interval
<1>2. For(s, n) \in SUBSET (1 .. n)
  BY DEF For
<1>3. IsFiniteSet(For(s, n))
  BY <1>1, <1>2, FS_Subset
<1> QED
  BY <1>3, FS_CardinalityType

LEMMA ForNext ==
  ASSUME NEW s, NEW n \in Nat
  PROVE  /\ Target(text[n + 1]) = s =>
              For(s, n + 1) = For(s, n) \cup {n + 1}
                /\ Cardinality(For(s, n + 1)) = Cardinality(For(s, n)) + 1
         /\ Target(text[n + 1]) # s => For(s, n + 1) = For(s, n)
<1>1. ASSUME Target(text[n + 1]) = s
      PROVE  For(s, n + 1) = For(s, n) \cup {n + 1}
  BY <1>1 DEF For
<1>2. ASSUME Target(text[n + 1]) # s
      PROVE  For(s, n + 1) = For(s, n)
  BY <1>2 DEF For
<1>3. n + 1 \notin For(s, n)
  BY DEF For
<1>4. IsFiniteSet(For(s, n))
  BY ForCounts
<1>5. Cardinality(For(s, n) \cup {n + 1}) = Cardinality(For(s, n)) + 1
  BY <1>3, <1>4, FS_AddElement
<1> QED
  BY <1>1, <1>2, <1>5

\* The rules for a system are counted in the order of the text.
LEMMA ForOrder ==
  ASSUME NEW s, NEW n \in Nat, NEW i \in For(s, n)
  PROVE  Cardinality(For(s, i)) \in 1 .. Cardinality(For(s, n))
<1>1. i \in 1 .. n /\ i \in For(s, i) /\ For(s, i) \in SUBSET For(s, n)
  BY DEF For
<1>2. /\ IsFiniteSet(For(s, n)) /\ Cardinality(For(s, n)) \in Nat
      /\ IsFiniteSet(For(s, i)) /\ Cardinality(For(s, i)) \in Nat
  BY <1>1, ForCounts
<1>3. Cardinality(For(s, i)) <= Cardinality(For(s, n))
  BY <1>1, <1>2, FS_Subset
<1>4. Cardinality(For(s, i)) # 0
  BY <1>1, <1>2, FS_EmptySet
<1> QED
  BY <1>2, <1>3, <1>4

\* The rule that is next comes behind those that came before it.
LEMMA PrefixGrows == IInv /\ BeforeType /\ PrefixLoaded /\ LoadRule => PrefixLoaded'
<1> SUFFICES ASSUME IInv, BeforeType, PrefixLoaded, LoadRule
             PROVE  PrefixLoaded'
  OBVIOUS
<1> DEFINE t == Target(Rule)
           rule == [name |-> Rule.name, bindings_len |-> Slots(Rule, systems[t].inputs)]
           n == position - 1
           old(s) == before[s].rules
<1>1. /\ Loading /\ Candidates(Rule) # {}
      /\ systems' = [systems EXCEPT ![t] = WithRule(@, rule)]
      /\ position' = position + 1
      /\ loader' = loader /\ text' = text /\ before' = before
  BY DEF LoadRule
<1>2. /\ text # <<>> /\ Len(text) \in Nat /\ position \in 1 .. Len(text) /\ t \in DOMAIN systems
      /\ systems \in Seq(SystemType) /\ loader \in Seq(DOMAIN systems)
  BY <1>1, NextRule DEF IInv, TypeOK
<1>3. /\ n \in Nat /\ n + 1 = position /\ position > 0 /\ position' - 1 = n + 1
      /\ Rule = text[n + 1] /\ rule.name = Rule.name
  BY <1>1, <1>2 DEF Rule
<1>4. /\ Len(systems) = Len(before)
      /\ \A i \in 1 .. n : Candidates(text[i]) # {}
      /\ \A s \in DOMAIN systems :
           /\ systems[s].name = before[s].name /\ systems[s].inputs = before[s].inputs
           /\ Len(systems[s].rules) = Len(old(s)) + Cardinality(For(s, n))
           /\ \A k \in DOMAIN old(s) : systems[s].rules[k] = old(s)[k]
           /\ \A i \in For(s, n) :
                systems[s].rules[Len(old(s)) + Cardinality(For(s, i))].name = text[i].name
  BY <1>3 DEF PrefixLoaded
<1> HIDE DEF t, rule, n
<1>5. ASSUME NEW s \in DOMAIN systems
      PROVE  systems[s] \in SystemType /\ systems[s].rules \in Seq(RuleType) /\ Len(systems[s].rules) \in Nat
  <2>1. systems[s] \in SystemType
    BY <1>2
  <2>2. systems[s].rules \in Seq(RuleType)
    BY <2>1 DEF SystemType
  <2> QED
    BY <2>1, <2>2
<1>6. rule \in RuleType
  <2>1. systems[t].inputs \in Seq(Ident)
    BY <1>2, <1>5 DEF SystemType
  <2>2. \A i, j \in DOMAIN systems[t].inputs :
          systems[t].inputs[i] = systems[t].inputs[j] => i = j
    BY <1>2 DEF IInv, AllGood, Good, Distinct
  <2>3. Rule.name \in RuleName /\ IsFiniteSet(Rule.own)
    BY <1>1, NextRule DEF IInv
  <2>4. Slots(Rule, systems[t].inputs) \in Nat
    BY <2>1, <2>2, <2>3, DistinctSlots
  <2> QED
    BY <2>3, <2>4 DEF rule, RuleType
<1>7. /\ Len(systems') = Len(systems) /\ DOMAIN systems' = DOMAIN systems
      /\ \A s \in DOMAIN systems : s # t => systems'[s] = systems[s]
      /\ systems'[t].name = systems[t].name /\ systems'[t].inputs = systems[t].inputs
      /\ systems'[t].rules = Append(systems[t].rules, rule)
  <2> DEFINE new == WithRule(systems[t], rule)
  <2>1. /\ new \in SystemType /\ new.name = systems[t].name /\ new.inputs = systems[t].inputs
        /\ new.rules = Append(systems[t].rules, rule)
    BY <1>2, <1>5, <1>6, RuleAdded
  <2>2. systems' = [systems EXCEPT ![t] = new]
    BY <1>1
  <2> HIDE DEF new
  <2>3. /\ Len(systems') = Len(systems) /\ DOMAIN systems' = DOMAIN systems
        /\ \A s \in DOMAIN systems : s # t => systems'[s] = systems[s]
        /\ systems'[t] = new
    BY <1>2, <2>1, <2>2
  <2> QED
    BY <2>1, <2>3
\* The rules there were stay where they are.
<1>8. ASSUME NEW s \in DOMAIN systems
      PROVE  /\ systems'[s].name = systems[s].name /\ systems'[s].inputs = systems[s].inputs
             /\ Len(systems'[s].rules) = IF s = t THEN Len(systems[s].rules) + 1
                                                 ELSE Len(systems[s].rules)
             /\ \A k \in 1 .. Len(systems[s].rules) : systems'[s].rules[k] = systems[s].rules[k]
             /\ s = t => systems'[s].rules[Len(systems[s].rules) + 1] = rule
  <2>1. CASE s = t
    BY <1>5, <1>6, <1>7, <2>1
  <2>2. CASE s # t
    BY <1>7, <2>2
  <2> QED
    BY <2>1, <2>2
\* And the rules go where they went.
<1>9. \A i : Candidates(text[i])' = Candidates(text[i]) /\ Target(text[i])' = Target(text[i])
  <2>1. \A i \in DOMAIN loader : systems'[loader[i]].name = systems[loader[i]].name
    <3>1. \A i \in DOMAIN loader : loader[i] \in DOMAIN systems
      BY <1>2
    <3> QED
      BY <1>8, <3>1
  <2> QED
    BY <1>1, <2>1, TargetStays
<1>10. \A s, k : For(s, k)' = For(s, k)
  BY <1>1, <1>9 DEF For
<1>11. \A i \in 1 .. n + 1 : i \in 1 .. n \/ i = n + 1
  BY <1>3
<1>12. \A i \in 1 .. n + 1 : Candidates(text[i])' # {}
  BY <1>1, <1>3, <1>4, <1>9, <1>11
<1>13. t = Target(text[n + 1])
  BY <1>3 DEF t
<1>14. ASSUME NEW s \in DOMAIN systems
       PROVE  /\ systems'[s].name = before[s].name /\ systems'[s].inputs = before[s].inputs
              /\ Len(systems'[s].rules) = Len(old(s)) + Cardinality(For(s, n + 1))
              /\ \A k \in DOMAIN old(s) : systems'[s].rules[k] = old(s)[k]
              /\ \A i \in For(s, n + 1) :
                   systems'[s].rules[Len(old(s)) + Cardinality(For(s, i))].name = text[i].name
  <2>1. Cardinality(For(s, n)) \in Nat
    BY <1>3, ForCounts
  <2>2. Len(old(s)) \in Nat /\ DOMAIN old(s) = 1 .. Len(old(s))
    <3>1. before \in Seq(SystemType) /\ s \in DOMAIN before
      BY <1>2, <1>3, <1>4 DEF BeforeType
    <3>2. before[s] \in SystemType
      BY <3>1
    <3>3. old(s) \in Seq(RuleType)
      BY <3>2 DEF SystemType
    <3> QED
      BY <3>3
  <2> HIDE DEF old
  <2>3. /\ systems[s].name = before[s].name /\ systems[s].inputs = before[s].inputs
        /\ Len(systems[s].rules) = Len(old(s)) + Cardinality(For(s, n))
        /\ \A k \in DOMAIN old(s) : systems[s].rules[k] = old(s)[k]
        /\ \A i \in For(s, n) :
             systems[s].rules[Len(old(s)) + Cardinality(For(s, i))].name = text[i].name
    BY <1>4
  <2>4. /\ s = t => /\ For(s, n + 1) = For(s, n) \cup {n + 1}
                    /\ Cardinality(For(s, n + 1)) = Cardinality(For(s, n)) + 1
        /\ s # t => For(s, n + 1) = For(s, n)
    BY <1>3, <1>13, ForNext
  <2>5. Len(systems'[s].rules) = Len(old(s)) + Cardinality(For(s, n + 1))
    <3>1. CASE s = t
      BY <1>5, <1>8, <2>1, <2>2, <2>3, <2>4, <3>1
    <3>2. CASE s # t
      BY <1>8, <2>3, <2>4, <3>2
    <3> QED
      BY <3>1, <3>2
  <2>6. \A k \in DOMAIN old(s) : systems'[s].rules[k] = old(s)[k]
    <3>1. \A k \in DOMAIN old(s) : k \in 1 .. Len(systems[s].rules)
      BY <2>1, <2>2, <2>3
    <3> QED
      BY <1>8, <2>3, <3>1
  <2>7. ASSUME NEW i \in For(s, n + 1)
        PROVE  systems'[s].rules[Len(old(s)) + Cardinality(For(s, i))].name = text[i].name
    <3>1. CASE i \in For(s, n)
      <4>1. Cardinality(For(s, i)) \in 1 .. Cardinality(For(s, n))
        BY <1>3, <3>1, ForOrder
      <4>2. Len(old(s)) + Cardinality(For(s, i)) \in 1 .. Len(systems[s].rules)
        BY <2>1, <2>2, <2>3, <4>1
      <4>3. systems'[s].rules[Len(old(s)) + Cardinality(For(s, i))]
              = systems[s].rules[Len(old(s)) + Cardinality(For(s, i))]
        BY <1>8, <4>2
      <4> QED
        BY <2>3, <3>1, <4>3
    <3>2. CASE i \notin For(s, n)
      <4>1. s = t /\ i = n + 1
        BY <2>4, <3>2
      <4>2. Len(old(s)) + Cardinality(For(s, i)) = Len(systems[s].rules) + 1
        BY <2>1, <2>2, <2>3, <2>4, <4>1
      <4>3. systems'[s].rules[Len(systems[s].rules) + 1] = rule
        BY <1>8, <4>1
      <4>4. rule.name = text[i].name
        BY <1>3, <4>1
      <4> QED
        BY <4>2, <4>3, <4>4
    <3> QED
      BY <3>1, <3>2
  <2> QED
    BY <1>8, <2>3, <2>5, <2>6, <2>7
<1> QED
  <2>1. Len(systems') = Len(before') /\ position' - 1 = n + 1
    BY <1>1, <1>3, <1>4, <1>7
  <2>2. \A i \in 1 .. position' - 1 : Candidates(text[i])' # {}
    BY <1>12, <2>1
  <2>3. \A s \in DOMAIN systems' :
          /\ systems'[s].name = before'[s].name /\ systems'[s].inputs = before'[s].inputs
          /\ Len(systems'[s].rules) = Len(before'[s].rules) + Cardinality(For(s, position - 1)')
          /\ \A k \in DOMAIN before'[s].rules : systems'[s].rules[k] = before'[s].rules[k]
          /\ \A i \in For(s, position - 1)' :
               systems'[s].rules[Len(before'[s].rules) + Cardinality(For(s, i)')].name = text'[i].name
    <3>1. \A s : For(s, position - 1)' = For(s, n + 1)
      BY <1>1, <1>9, <2>1 DEF For
    <3> TAKE s \in DOMAIN systems'
    <3>2. s \in DOMAIN systems /\ before' = before /\ text' = text
      BY <1>1, <1>7
    <3>3. \A i : For(s, i)' = For(s, i)
      BY <1>10
    <3>4. /\ systems'[s].name = before'[s].name /\ systems'[s].inputs = before'[s].inputs
          /\ Len(systems'[s].rules) = Len(before'[s].rules) + Cardinality(For(s, n + 1))
          /\ \A k \in DOMAIN before'[s].rules : systems'[s].rules[k] = before'[s].rules[k]
          /\ \A i \in For(s, n + 1) :
               systems'[s].rules[Len(before'[s].rules) + Cardinality(For(s, i))].name = text'[i].name
      BY <1>14, <3>2
    <3>5. \A i \in For(s, position - 1)' :
            systems'[s].rules[Len(before'[s].rules) + Cardinality(For(s, i)')].name = text'[i].name
      <4> TAKE i \in For(s, position - 1)'
      <4>1. i \in For(s, n + 1) /\ For(s, i)' = For(s, i)
        BY <3>1, <3>3
      <4> QED
        BY <3>4, <4>1
    <3> QED
      BY <3>1, <3>4, <3>5
  <2> QED
    BY <2>2, <2>1, <2>3, Zenon DEF PrefixLoaded

LEMMA PrefixKeeps ==
  IInv /\ BeforeType /\ PrefixLoaded /\ [Next]_vars => BeforeType' /\ PrefixLoaded'
<1> SUFFICES ASSUME IInv, BeforeType, PrefixLoaded, [Next]_vars
             PROVE  BeforeType' /\ PrefixLoaded'
  OBVIOUS
<1>1. CASE position' = 0
  BY <1>1 DEF BeforeType, PrefixLoaded
<1>2. CASE LoadRule
  <2>1. BeforeType'
    <3>1. Loading /\ before' = before /\ TypeOK
      BY <1>2 DEF LoadRule, IInv
    <3>2. position > 0
      BY <3>1, NextRule
    <3> QED
      BY <3>1, <3>2 DEF BeforeType
  <2> QED
    BY <1>2, <2>1, PrefixGrows
<1>3. CASE StartText
  <2>1. position' = 1 /\ before' = systems /\ systems' = systems
    BY <1>3 DEF StartText
  <2>2. BeforeType'
    BY <2>1 DEF BeforeType, IInv, TypeOK
  <2>3. PrefixLoaded'
    <3>1. position' - 1 = 0
      BY <2>1
    <3>2. \A s : For(s, position - 1)' = {} /\ Cardinality(For(s, position - 1)') = 0
      BY <3>1, FS_EmptySet DEF For
    <3>3. \A i \in 1 .. position' - 1 : Candidates(text[i])' # {}
      BY <3>1
    <3>4. \A s \in DOMAIN systems' :
            /\ systems'[s].name = before'[s].name /\ systems'[s].inputs = before'[s].inputs
            /\ Len(systems'[s].rules) = Len(before'[s].rules) + Cardinality(For(s, position - 1)')
            /\ \A k \in DOMAIN before'[s].rules : systems'[s].rules[k] = before'[s].rules[k]
            /\ \A i \in For(s, position - 1)' :
                 systems'[s].rules[Len(before'[s].rules) + Cardinality(For(s, i)')].name = text'[i].name
      <4> TAKE s \in DOMAIN systems'
      <4>1. Len(systems'[s].rules) \in Nat
        <5>1. systems'[s] \in SystemType
          BY <2>1 DEF IInv, TypeOK
        <5>2. systems'[s].rules \in Seq(RuleType)
          BY <5>1 DEF SystemType
        <5> QED
          BY <5>2
      <4> QED
        BY <2>1, <3>2, <4>1
    <3>5. Len(systems') = Len(before')
      BY <2>1
    <3> QED
      BY <3>3, <3>4, <3>5, Zenon DEF PrefixLoaded
  <2> QED
    BY <2>2, <2>3
<1>4. CASE UNCHANGED vars
  <2>1. /\ systems' = systems /\ loader' = loader /\ text' = text /\ position' = position
        /\ before' = before
    BY <1>4 DEF vars
  <2>2. /\ \A i : Candidates(text[i])' = Candidates(text[i])
        /\ \A s, i : For(s, i)' = For(s, i)
        /\ \A s : For(s, position - 1)' = For(s, position - 1)
    BY <2>1 DEF For, Candidates, Target
  <2>3. BeforeType'
    BY <2>1 DEF BeforeType
  <2>4. PrefixLoaded'
    BY <2>1, <2>2 DEF PrefixLoaded
  <2> QED
    BY <2>3, <2>4
<1>5. NewSystem \/ NewLoader \/ BuildRule \/ LoadNothing \/ RefuseUnknown \/ RefuseInvalid
        \/ RefuseDuplicate \/ Finish => position' = 0
  BY DEF NewSystem, NewLoader, BuildRule, LoadNothing, RefuseUnknown, RefuseInvalid,
         RefuseDuplicate, Finish, Idle, Ends
<1> QED
  BY <1>1, <1>2, <1>3, <1>4, <1>5 DEF Next

-----------------------------------------------------------------------------
(* Theorems.                                                               *)

\* Systems, loaders and calls keep their shape.
THEOREM TypeCorrect == Spec => []TypeOK
<1>1. IInv => TypeOK
  BY DEF IInv
<1> QED
  BY <1>1, Invariance, PTL

\* System::load and the loader keep the names of the rules of a system unique.
THEOREM NamesUnique == Spec => []UniqueNames
<1>1. IInv => UniqueNames
  BY DEF IInv, AllGood, Good, NamesOf, UniqueNames
<1> QED
  BY <1>1, Invariance, PTL

\* max_binding_len is what the arguments or some rule need and not less than
\* any of them needs: make_bindings_storage does not panic, and no rule
\* indexes behind the storage.
THEOREM StorageIsEnough == Spec => []StorageFits
<1>1. IInv => StorageFits
  <2> SUFFICES ASSUME IInv, NEW s \in DOMAIN systems
               PROVE  LET system == systems[s]
                          needed == {Len(system.inputs)}
                                      \cup {system.rules[i].bindings_len : i \in DOMAIN system.rules}
                      IN  /\ system.max_binding_len \in needed
                          /\ \A n \in needed : Len(system.inputs) <= n /\ n <= system.max_binding_len
    BY DEF StorageFits
  <2>1. Fits(systems[s])
    BY DEF IInv, AllGood, Good
  <2>2. Len(systems[s].inputs) <= Len(systems[s].inputs)
    BY DEF IInv, TypeOK
  <2> QED
    BY <2>1, <2>2 DEF Fits
<1> QED
  BY <1>1, Invariance, PTL

\* Whatever is loaded, each rule of a text goes to the first system of its name
\* and behind the rules before it, and no system gets anything else.
THEOREM LoadsInOrder == Spec => []PrefixLoaded
<1>1. Init => BeforeType /\ PrefixLoaded
  BY DEF Init, BeforeType, PrefixLoaded
<1> QED
  BY <1>1, PrefixKeeps, Invariance, PTL DEF Spec

\* Loading a text never succeeds for a system that already got its first rule.
THEOREM NoTextTwice == Spec => LoadedOnce
<1>1. IInv /\ [Next]_vars => [Finish /\ text # <<>> => <<Target(text[1]), text>> \notin begun]_vars
  <2> SUFFICES ASSUME IInv, Finish, text # <<>>
               PROVE  <<Target(text[1]), text>> \notin begun
    OBVIOUS
  <2>1. position > 1
    <3>1. text \in Texts
      BY DEF IInv, TypeOK
    <3>2. text \in Seq(Range(text)) /\ Len(text) \in Nat
      BY <3>1, TextsAssumption
    <3>3. Len(text) # 0
      BY <3>2
    <3> QED
      BY <3>2, <3>3 DEF Finish, IInv, TypeOK
  <2> QED
    BY <2>1 DEF IInv, NotBegun
<1> QED
  BY <1>1, Invariance, PTL DEF Spec, LoadedOnce
=============================================================================
