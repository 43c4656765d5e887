------------------------------- MODULE Search -------------------------------
(***************************************************************************)
(* search_bindings of src/src/runtime.rs: the backtracking search for the  *)
(* bindings that satisfy the compiled select operations of a rule.  One    *)
(* step is one operation (match &ops[op_index]) or one turn of the loop    *)
(* that goes back to the topmost frame ('next_branch).  The space is only  *)
(* read, so the values an attribute of an object has are constant.         *)
(***************************************************************************)
EXTENDS Operations

CONSTANTS
  Scratch,     \* the slots only the apply part of the rule writes
  Leftover,    \* what unbound slots may hold from earlier rules
  Applied,     \* what the apply part may write
  Programs,    \* the operation lists considered
  Heaps        \* the values of the attributes, for each object

ASSUME ScratchAssumption == Scratch \subseteq Binding \ Inputs
ASSUME ValuesAssumption == Leftover \subseteq Value /\ Applied \subseteq Value
ASSUME HeapsAssumption == \A h \in Heaps : h \in [Object -> [Attribute -> Seq(Value)]]
ASSUME ProgramsAssumption ==
  \A p \in Programs :
    /\ p \in Seq(Range(p))
    /\ WellFormed(p)
    /\ BindsFirst(p, Inputs)
    /\ \A i \in DOMAIN p : Writes(p[i]) \cap Scratch = {}

VARIABLES
  ops,         \* the operations of the rule
  heap,        \* the attributes in the space
  bindings,    \* shared by all rules of a run: unbound slots hold leftovers
  pc,          \* op_index
  frames,      \* the choices to come back to, latest last
  mode,        \* "op", "branch" while going back, or the result
  found        \* what the callback has been called with (history)

vars == <<ops, heap, bindings, pc, frames, mode, found>>

-----------------------------------------------------------------------------

Init ==
  /\ ops \in Programs
  /\ heap \in Heaps
  /\ bindings \in [Binding -> Object \cup Leftover]
  /\ \A b \in Binding : bindings[b] \in (IF b \in Inputs THEN Object ELSE Leftover)
  /\ pc = 1
  /\ frames = <<>>
  /\ mode = "op"
  /\ found = <<>>

Op == ops[pc]

\* Flow::NextOp and Flow::NextBranch.
NextOp == pc' = pc + 1 /\ mode' = "op"

NextBranch == mode' = "branch" /\ UNCHANGED pc

At(name) == mode = "op" /\ Op.op = name

Test ==
  /\ mode = "op"
  /\ Op.op \in Tests
  /\ IF Passes(Op, bindings, heap) THEN NextOp ELSE NextBranch
  /\ UNCHANGED <<bindings, frames, found>>

\* Mutant: the values are bound to the slot of the object.
SearchAttributeInPlace ==
  /\ At("Search")
  /\ frames' = IF bindings[Op.binding] \in Object
                 THEN Append(frames, [frame |-> "iter",
                                      binding |-> Op.binding,
                                      next |-> pc + 1,
                                      rest |-> ValuesOf(heap, bindings[Op.binding], Op.attribute)])
                 ELSE frames
  /\ NextBranch
  /\ UNCHANGED <<bindings, found>>

SearchAttribute ==
  /\ At("Search")
  /\ frames' = IF bindings[Op.binding] \in Object
                 THEN Append(frames, [frame |-> "iter",
                                      binding |-> Op.value_binding,
                                      next |-> pc + 1,
                                      rest |-> ValuesOf(heap, bindings[Op.binding], Op.attribute)])
                 ELSE frames
  /\ NextBranch
  /\ UNCHANGED <<bindings, found>>

UnpackTuple ==
  /\ At("Unpack")
  /\ IF CanUnpack(Op, bindings)
       THEN /\ bindings' = Unpacked(Op, bindings).env
            /\ IF Unpacked(Op, bindings).matched THEN NextOp ELSE NextBranch
       ELSE NextBranch /\ UNCHANGED bindings
  /\ UNCHANGED <<frames, found>>

Calculation ==
  /\ At("Calculation")
  /\ IF Operands(Op, bindings) \in DOMAIN Op.results
       THEN /\ bindings' = [bindings EXCEPT ![Op.binding] = Op.results[Operands(Op, bindings)]]
            /\ NextOp
       ELSE NextBranch /\ UNCHANGED bindings
  /\ UNCHANGED <<frames, found>>

\* Mutant: one operation too many is skipped when nothing is found.
BeginNotTooFar ==
  /\ At("BeginNot")
  /\ frames' = Append(frames, [frame |-> "not",
                               index |-> Op.index,
                               next |-> pc + Op.sequence_len + 2])
  /\ NextOp
  /\ UNCHANGED <<bindings, found>>

BeginNot ==
  /\ At("BeginNot")
  /\ frames' = Append(frames, [frame |-> "not",
                               index |-> Op.index,
                               next |-> pc + Op.sequence_len + 1])
  /\ NextOp
  /\ UNCHANGED <<bindings, found>>

\* The frames of the scopes with the index of an EndNot, lowest first.
ScopeFrames(index) ==
  {i \in DOMAIN frames : frames[i].frame = "not" /\ frames[i].index = index}

\* Mutant: the frame of the scope stays.
EndNotKeeps ==
  /\ At("EndNot")
  /\ \E i \in ScopeFrames(Op.index) :
       /\ \A j \in ScopeFrames(Op.index) : i <= j
       /\ frames' = SubSeq(frames, 1, i)
  /\ NextBranch
  /\ UNCHANGED <<bindings, found>>

\* The negated operations are satisfied: the scope and all that was opened in
\* it goes, and so does the branch it is on.  The code expects the frame.
EndNot ==
  /\ At("EndNot")
  /\ \E i \in ScopeFrames(Op.index) :
       /\ \A j \in ScopeFrames(Op.index) : i <= j
       /\ frames' = SubSeq(frames, 1, i - 1)
  /\ NextBranch
  /\ UNCHANGED <<bindings, found>>

\* The callback is told the bindings.  It may write the slots of the apply
\* part (splinter_rule applies the changes while the search is suspended) and
\* decides whether to go on.
Report ==
  /\ At("End")
  /\ found' = Append(found, bindings)
  /\ \E env \in [Scratch -> Applied] :
       bindings' = [b \in Binding |-> IF b \in Scratch THEN env[b] ELSE bindings[b]]
  /\ mode' \in {"branch", "true"}
  /\ UNCHANGED <<pc, frames>>

-----------------------------------------------------------------------------
(* 'next_branch                                                            *)

TopFrame == Last(frames)

NoBranchLeft ==
  /\ mode = "branch"
  /\ frames = <<>>
  /\ mode' = "false"
  /\ UNCHANGED <<bindings, pc, frames, found>>

BackTo(name) == mode = "branch" /\ frames # <<>> /\ TopFrame.frame = name

\* Mutant: the frame of the scope and the one below go.
AfterNotTwice ==
  /\ BackTo("not")
  /\ pc' = TopFrame.next
  /\ frames' = SubSeq(frames, 1, Len(frames) - 2)
  /\ mode' = "op"
  /\ UNCHANGED <<bindings, found>>

\* Nothing satisfied the negated operations: go on after them.
AfterNot ==
  /\ BackTo("not")
  /\ pc' = TopFrame.next
  /\ frames' = Front(frames)
  /\ mode' = "op"
  /\ UNCHANGED <<bindings, found>>

NextValue ==
  /\ BackTo("iter")
  /\ TopFrame.rest # <<>>
  /\ bindings' = [bindings EXCEPT ![TopFrame.binding] = Head(TopFrame.rest)]
  /\ frames' = [frames EXCEPT ![Len(frames)].rest = Tail(@)]
  /\ pc' = TopFrame.next
  /\ mode' = "op"
  /\ UNCHANGED found

\* Mutant: the frame of an exhausted iterator stays.
NoValueLeftStays ==
  /\ BackTo("iter")
  /\ TopFrame.rest = <<>>
  /\ UNCHANGED <<bindings, frames, pc, mode, found>>

NoValueLeft ==
  /\ BackTo("iter")
  /\ TopFrame.rest = <<>>
  /\ frames' = Front(frames)
  /\ UNCHANGED <<bindings, pc, mode, found>>

-----------------------------------------------------------------------------

Next ==
  /\ \/ Test
     \/ SearchAttribute
     \/ UnpackTuple
     \/ Calculation
     \/ BeginNot
     \/ EndNot
     \/ Report
     \/ NoBranchLeft
     \/ AfterNot
     \/ NextValue
     \/ NoValueLeft
  /\ UNCHANGED <<ops, heap>>

Spec == Init /\ [][Next]_vars

\* The loop runs until it returns.
FairSpec == Spec /\ WF_vars(Next)

-----------------------------------------------------------------------------
(* Properties.                                                             *)

TypeOK ==
  /\ ops \in Programs
  /\ heap \in Heaps
  /\ bindings \in [Binding -> Value]
  /\ pc \in DOMAIN ops
  /\ frames \in Seq([frame : {"iter"}, binding : Binding, next : DOMAIN ops, rest : Seq(Value)]
                      \cup [frame : {"not"}, index : Nat, next : DOMAIN ops])
  /\ mode \in {"op", "branch", "true", "false"}

\* The frame an EndNot expects is there, whatever has been pushed and popped
\* since its BeginNot: expect("corresponding not-scope frame") does not panic.
ScopeFound == At("EndNot") => ScopeFrames(Op.index) # {}

Seen(envs) == [i \in DOMAIN envs |-> Restrict(envs[i], Visible(ops))]

\* The solutions, with something in the slots that are not bound.
Expected(something) ==
  Seen(Solutions(ops, [b \in Binding |-> IF b \in Inputs THEN bindings[b] ELSE something], heap))

\* The callback is told the solutions of the rule, each once and in order, and
\* a search that was not stopped misses none, whatever the unbound slots held
\* before, however scopes nest and wherever they are left.
Enumerates ==
  \A something \in Value :
    /\ IsPrefix(Seen(found), Expected(something))
    /\ mode = "false" => Seen(found) = Expected(something)

\* The caller's arguments stay in their slots for the rules that follow.
InputsKept == [][\A b \in Inputs : bindings'[b] = bindings[b]]_vars

\* The search comes to an end.
Returns == <>(mode \in {"true", "false"})
=============================================================================
