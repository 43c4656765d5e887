------------------------------ MODULE Loading ------------------------------
(***************************************************************************)
(* How systems come to have rules (src/src/system.rs): System::new, rules  *)
(* built in code (build_rule) and rules loaded from text by a              *)
(* SystemLoader (load_str, load_file), one rule a step.                    *)
(*                                                                         *)
(* A text is the list of the rules the parser finds in it.  A rule of a    *)
(* text is for a system, has a name, needs some variables to be inputs of  *)
(* the system, and has variables of its own.                               *)
(***************************************************************************)
EXTENDS Integers, FiniteSets, SequencesExt

CONSTANTS
  Name,        \* names tried for systems
  Path,        \* those is_path accepts
  Variable,
  Ident,       \* those is_variable_ident accepts
  RuleName,
  Texts,       \* texts that parse
  MaxInputs,   \* bound: input variables of a system
  MaxOwn,      \* bound: slots of a built rule beside the inputs
  MaxSystems   \* bound: systems defined

ASSUME BoundsAssumption == MaxInputs \in Nat /\ MaxOwn \in Nat /\ MaxSystems \in Nat
ASSUME TextsAssumption ==
  \A t \in Texts :
    /\ t \in Seq(Range(t))
    /\ \A i \in DOMAIN t : t[i].name \in RuleName /\ IsFiniteSet(t[i].own)

VARIABLES
  systems,     \* what has been defined
  loader,      \* the systems a SystemLoader borrows, in its order
  text,        \* the text being loaded
  position,    \* the next rule in it, 0 when no call is on the way
  result,      \* of the last call
  before,      \* the systems when the text was begun (history)
  begun        \* <<system, text>>: the system got the first rule of the text
               \* in a call that has ended (history)

vars == <<systems, loader, text, position, result, before, begun>>

-----------------------------------------------------------------------------

Init ==
  /\ systems = <<>>
  /\ loader = <<>>
  /\ text = <<>>
  /\ position = 0
  /\ result = "none"
  /\ before = <<>>
  /\ begun = {}

Idle == position = 0

\* Mutant: only repeated names are refused.
RefusedRepeated(inputs) ==
  {i \in DOMAIN inputs : \E j \in DOMAIN inputs : i < j /\ inputs[j] = inputs[i]}

\* The first input variable that is refused decides the error: a name that is
\* none is refused before a name that comes again.
Refused(inputs) ==
  {i \in DOMAIN inputs : inputs[i] \notin Ident
     \/ \E j \in DOMAIN inputs : i < j /\ inputs[j] = inputs[i]}

NewSystem ==
  /\ Idle
  /\ Len(systems) < MaxSystems
  /\ \E name \in Name, inputs \in BoundedSeq(Variable, MaxInputs) :
       IF name \notin Path
         THEN result' = "InvalidName" /\ UNCHANGED systems
       ELSE IF Refused(inputs) # {}
         THEN /\ result' = IF inputs[Min(Refused(inputs))] \notin Ident
                             THEN "InvalidInputVariable" ELSE "DuplicateInputVariable"
              /\ UNCHANGED systems
       ELSE /\ result' = "Ok"
            /\ systems' = Append(systems, [name |-> name, inputs |-> inputs,
                                           max_binding_len |-> Len(inputs), rules |-> <<>>])
  /\ UNCHANGED <<loader, text, position, before, begun>>

\* A loader borrows each of its systems mutably, so none of them twice.
NewLoader ==
  /\ Idle
  /\ loader' \in {l \in BoundedSeq(DOMAIN systems, Len(systems)) : IsInjective(l)}
  /\ UNCHANGED <<systems, text, position, result, before, begun>>

-----------------------------------------------------------------------------
(* System::load                                                            *)

\* Mutant: only the rule added last is compared with.
HasRuleLast(system, name) == system.rules # <<>> /\ Last(system.rules).name = name

HasRule(system, name) == \E i \in DOMAIN system.rules : system.rules[i].name = name

\* Mutant: the storage keeps the size the last rule needs.
WithRuleLast(system, rule) ==
  [system EXCEPT !.rules = Append(@, rule), !.max_binding_len = rule.bindings_len]

WithRule(system, rule) ==
  [system EXCEPT !.rules = Append(@, rule),
                 !.max_binding_len = IF rule.bindings_len > @ THEN rule.bindings_len ELSE @]

\* A rule built in code numbers the inputs before its own slots.
BuildRule ==
  /\ Idle
  /\ \E s \in DOMAIN systems, name \in RuleName, own \in 0 .. MaxOwn :
       LET rule == [name |-> name, bindings_len |-> Len(systems[s].inputs) + own] IN
         IF HasRule(systems[s], name)
           THEN result' = "DuplicateRuleName" /\ UNCHANGED systems
           ELSE result' = "Ok" /\ systems' = [systems EXCEPT ![s] = WithRule(@, rule)]
  /\ UNCHANGED <<loader, text, position, before, begun>>

-----------------------------------------------------------------------------
(* SystemLoader::load_str, load_file                                       *)

\* The file cannot be read or the text not parsed: no rule is looked at.
LoadNothing ==
  /\ Idle
  /\ result' \in {"Read", "Parse"}
  /\ UNCHANGED <<systems, loader, text, position, before, begun>>

StartText ==
  /\ Idle
  /\ text' \in Texts
  /\ position' = 1
  /\ before' = systems
  /\ UNCHANGED <<systems, loader, result, begun>>

\* The systems of the loader a rule is for; the first is taken.
Candidates(rule) == {i \in DOMAIN loader : systems[loader[i]].name = rule.system}

Target(rule) == loader[Min(Candidates(rule))]

Compiles(rule, inputs) == rule.needs \subseteq ToSet(inputs)

\* A name has one slot, whether it is an input or not.
Slots(rule, inputs) == Cardinality(ToSet(inputs) \cup rule.own)

Begun ==
  IF position > 1 THEN begun \cup {<<Target(text[1]), text>>} ELSE begun

Ends(outcome) ==
  /\ result' = outcome
  /\ position' = 0
  /\ begun' = Begun
  /\ text' = <<>>
  /\ before' = <<>>

Rule == text[position]

Loading == position \in DOMAIN text

\* Mutant: a rule that comes again is passed over.
RefuseDuplicateSkips ==
  /\ Loading
  /\ Candidates(Rule) # {}
  /\ Compiles(Rule, systems[Target(Rule)].inputs)
  /\ HasRule(systems[Target(Rule)], Rule.name)
  /\ position' = position + 1
  /\ UNCHANGED <<systems, loader, text, before, result, begun>>

\* Mutant: the systems are put back.
RefuseUnknownUndoes ==
  /\ Loading
  /\ Candidates(Rule) = {}
  /\ Ends("NoSuchSystem")
  /\ systems' = before
  /\ UNCHANGED loader

RefuseUnknown ==
  /\ Loading
  /\ Candidates(Rule) = {}
  /\ Ends("NoSuchSystem")
  /\ UNCHANGED <<systems, loader>>

RefuseInvalid ==
  /\ Loading
  /\ Candidates(Rule) # {}
  /\ ~Compiles(Rule, systems[Target(Rule)].inputs)
  /\ Ends("Compile")
  /\ UNCHANGED <<systems, loader>>

RefuseDuplicate ==
  /\ Loading
  /\ Candidates(Rule) # {}
  /\ Compiles(Rule, systems[Target(Rule)].inputs)
  /\ HasRule(systems[Target(Rule)], Rule.name)
  /\ Ends("DuplicateRuleName")
  /\ UNCHANGED <<systems, loader>>

LoadRule ==
  /\ Loading
  /\ Candidates(Rule) # {}
  /\ LET s == Target(Rule)
         rule == [name |-> Rule.name, bindings_len |-> Slots(Rule, systems[s].inputs)]
     IN  /\ Compiles(Rule, systems[s].inputs)
         /\ ~HasRule(systems[s], Rule.name)
         /\ systems' = [systems EXCEPT ![s] = WithRule(@, rule)]
  /\ position' = position + 1
  /\ UNCHANGED <<loader, text, result, before, begun>>

Finish ==
  /\ position > Len(text)
  /\ Ends("Ok")
  /\ UNCHANGED <<systems, loader>>

Next ==
  \/ NewSystem
  \/ NewLoader
  \/ BuildRule
  \/ LoadNothing
  \/ StartText
  \/ RefuseUnknown
  \/ RefuseInvalid
  \/ RefuseDuplicate
  \/ LoadRule
  \/ Finish

Spec == Init /\ [][Next]_vars

-----------------------------------------------------------------------------
(* Properties.                                                             *)

RuleType == [name : RuleName, bindings_len : Nat]

SystemType ==
  [name : Path, inputs : Seq(Ident), max_binding_len : Nat, rules : Seq(RuleType)]

\* Types: the systems System::new accepted and the rules they got.
TypeOK ==
  /\ systems \in Seq(SystemType)
  /\ loader \in Seq(DOMAIN systems)
  /\ text \in Texts \cup {<<>>}
  /\ position \in 0 .. Len(text) + 1

\* No system has two rules of one name, in whatever ways they were added.
UniqueNames ==
  \A s \in DOMAIN systems :
    \A i, j \in DOMAIN systems[s].rules :
      systems[s].rules[i].name = systems[s].rules[j].name => i = j

\* make_bindings_storage never has less room than arguments (its expect), each
\* argument has the slot of its variable in every rule, and every rule finds
\* its slots in the storage, which has none that no rule has.
StorageFits ==
  \A s \in DOMAIN systems :
    LET system == systems[s]
        needed == {Len(system.inputs)} \cup {system.rules[i].bindings_len : i \in DOMAIN system.rules}
    IN  /\ system.max_binding_len \in needed
        /\ \A n \in needed : Len(system.inputs) <= n /\ n <= system.max_binding_len

\* The first n rules of the text that are for this system.
For(s, n) == {i \in 1 .. n : Target(text[i]) = s}

\* While a text is being loaded, each rule before the one that is next is in: in
\* the first system of its name, behind the rules that were there before and
\* those of the text that came before it.  Nothing else has been added.
PrefixLoaded ==
  position > 0 =>
    /\ Len(systems) = Len(before)
    /\ \A i \in 1 .. position - 1 : Candidates(text[i]) # {}
    /\ \A s \in DOMAIN systems :
         LET old == before[s].rules
             new == systems[s].rules
         IN  /\ systems[s].name = before[s].name /\ systems[s].inputs = before[s].inputs
             /\ Len(new) = Len(old) + Cardinality(For(s, position - 1))
             /\ \A k \in DOMAIN old : new[k] = old[k]
             /\ \A i \in For(s, position - 1) :
                  new[Len(old) + Cardinality(For(s, i))].name = text[i].name

\* What a failed call has loaded stays, and so do the rules of a whole text: a
\* text whose first rule a system has got is never loaded into it again, with
\* the error repaired elsewhere or not.
LoadedOnce ==
  [][Finish /\ text # <<>> => <<Target(text[1]), text>> \notin begun]_vars
=============================================================================
