---------------------------- MODULE SearchProofs ----------------------------
(***************************************************************************)
(* The search tells the solutions of a rule, each once and in order, never *)
(* misses the frame an EndNot expects and never writes an input slot, for  *)
(* all operation lists the compiler can make.                              *)
(***************************************************************************)
EXTENDS Search, SequenceTheorems, WellFoundedInduction, TLAPS

IterFrames == [frame : {"iter"}, binding : Binding, next : DOMAIN ops, rest : Seq(Value)]

NotFrames == [frame : {"not"}, index : Nat, next : DOMAIN ops]

\* The indices of the scopes with a frame among the first n.
Open(fs, n) == {fs[j].index : j \in {x \in 1 .. n : fs[x].frame = "not"}}

\* Wherever the search is, and wherever a frame can send it back to, the scopes
\* around that operation have their frames, below the frame in question.
Discipline ==
  /\ mode = "op" => Scopes(ops, pc) \subseteq Open(frames, Len(frames))
  /\ \A k \in DOMAIN frames : Scopes(ops, frames[k].next) \subseteq Open(frames, k - 1)

OwnSlots ==
  \A k \in DOMAIN frames : frames[k].frame = "iter" => frames[k].binding \notin Inputs

IInv == TypeOK /\ Discipline /\ OwnSlots

\* What the caller's arguments see of a step.
Kept == \A b \in Inputs : bindings'[b] = bindings[b]

-----------------------------------------------------------------------------
(* Positions in well-formed lists.                                         *)

\* A list of operations as the compiler makes it, and what a space shows.
IsProgram(p) == p \in Seq(Range(p)) /\ WellFormed(p)

IsHeap(h) == h \in [Object -> [Attribute -> Seq(Value)]]

LEMMA ListShape ==
  ASSUME NEW p, IsProgram(p)
  PROVE  p \in Seq(Range(p)) /\ Len(p) \in Nat /\ DOMAIN p = 1 .. Len(p) /\ WellFormed(p)
  BY LenProperties DEF IsProgram

\* So are the lists that are searched, and what they are searched in.
LEMMA ProgramShape ==
  ASSUME NEW p \in Programs
  PROVE  /\ Len(p) \in Nat /\ DOMAIN p = 1 .. Len(p) /\ WellFormed(p)
         /\ \A i \in DOMAIN p : Writes(p[i]) \cap Scratch = {}
         /\ BindsFirst(p, Inputs)
         /\ IsProgram(p)
  BY ProgramsAssumption, LenProperties DEF IsProgram

LEMMA HeapGiven == \A h \in Heaps : IsHeap(h)
  BY HeapsAssumption DEF IsHeap

\* Every list has a first operation, which is in no scope.
LEMMA FirstPosition ==
  ASSUME NEW p, IsProgram(p)
  PROVE  1 \in DOMAIN p /\ Scopes(p, 1) = {}
<1>1. Len(p) # 0
  BY ListShape, EmptySeq DEF WellFormed
<1>2. \A i \in 1 .. 0 : FALSE
  OBVIOUS
<1> QED
  BY <1>1, <1>2, ListShape DEF Scopes

\* Going on to the next operation leaves scopes and enters at most the one
\* that begins there.
LEMMA NextPosition ==
  ASSUME NEW p, IsProgram(p), NEW i \in DOMAIN p, p[i].op # "End"
  PROVE  /\ i + 1 \in DOMAIN p
         /\ Scopes(p, i + 1) \subseteq Scopes(p, i) \cup {p[b].index : b \in {c \in {i} : IsBegin(p, c)}}
<1>1. i + 1 \in DOMAIN p
  BY ListShape DEF WellFormed
<1>2. ASSUME NEW b \in 1 .. (i + 1) - 1, IsBegin(p, b), i + 1 <= EndOf(p, b)
      PROVE  p[b].index \in Scopes(p, i) \cup {p[c].index : c \in {x \in {i} : IsBegin(p, x)}}
  <2>1. CASE b = i
    BY <2>1, <1>2
  <2>2. CASE b # i
    <3>1. EndOf(p, b) \in DOMAIN p
      BY <1>2, ListShape DEF WellFormed, ScopeEnds, IsBegin
    <3>2. b \in 1 .. i - 1 /\ i <= EndOf(p, b)
      BY <2>2, <3>1, <1>2, ListShape
    <3> QED
      BY <3>2, <1>2 DEF Scopes
  <2> QED
    BY <2>1, <2>2
<1> QED
  BY <1>1, <1>2 DEF Scopes

\* After a scope the search is in the scopes around it.
LEMMA AfterScope ==
  ASSUME NEW p, IsProgram(p), NEW i \in DOMAIN p, IsBegin(p, i)
  PROVE  /\ i + p[i].sequence_len + 1 \in DOMAIN p
         /\ Scopes(p, i + p[i].sequence_len + 1) \subseteq Scopes(p, i)
<1> DEFINE e == i + p[i].sequence_len
<1>1. ScopeEnds(p, i) /\ e = EndOf(p, i)
  BY ListShape DEF WellFormed, EndOf
<1>2. e \in DOMAIN p /\ p[e].op # "End"
  BY <1>1 DEF ScopeEnds
<1>6. i <= e
  BY <1>1, ListShape DEF ScopeEnds
<1> HIDE DEF e
<1>3. e + 1 \in DOMAIN p
  BY <1>2, NextPosition
<1>4. e \in Nat /\ i \in Nat
  BY <1>2, ListShape
<1>5. ASSUME NEW b \in 1 .. (e + 1) - 1, IsBegin(p, b), e + 1 <= EndOf(p, b)
      PROVE  p[b].index \in Scopes(p, i)
  <2>1. EndOf(p, b) \in Nat /\ b \in Nat
    BY <1>5, ListShape DEF WellFormed, ScopeEnds, IsBegin
  <2>2. b # i
    BY <2>1, <1>1, <1>4, <1>5
  <2>3. ~(b \in i + 1 .. e)
    BY <2>1, <1>1, <1>4, <1>5 DEF ScopeEnds
  <2>4. b \in 1 .. i - 1 /\ i <= EndOf(p, b)
    BY <2>1, <2>2, <2>3, <1>4, <1>5, <1>6
  <2> QED
    BY <2>4, <1>5 DEF Scopes
<1> QED
  BY <1>3, <1>5 DEF Scopes, e

\* An EndNot is in the scope that it ends.
LEMMA EndInScope ==
  ASSUME NEW p, IsProgram(p), NEW e \in DOMAIN p, p[e].op = "EndNot"
  PROVE  p[e].index \in Scopes(p, e)
<1>1. PICK b \in 1 .. e - 1 : Closes(p, b, e)
  BY ListShape DEF WellFormed
<1>2. IsBegin(p, b) /\ e <= EndOf(p, b) /\ p[e].index = p[b].index
  BY <1>1, ListShape DEF Closes
<1> QED
  BY <1>2 DEF Scopes

-----------------------------------------------------------------------------
(* The helpers of the operations.                                          *)

\* Going through the items of a tuple leaves a value in every slot, and the
\* inputs alone.
LEMMA AfterType ==
  ASSUME NEW op, op.op = "Unpack", Typed(op), NEW env \in [Binding -> Value],
         NEW v \in DOMAIN tupleItems, NEW n,
         DOMAIN tupleItems[v] = DOMAIN op.items
  PROVE  /\ After(op, tupleItems[v], n, env) \in [Binding -> Value]
         /\ \A b \in Inputs : After(op, tupleItems[v], n, env)[b] = env[b]
<1> DEFINE items == tupleItems[v]
           Bound(b) == \E k \in DOMAIN items : k <= n /\ Binds(op.items[k], b)
<1>1. \A k \in DOMAIN items : items[k] \in Value
  BY TupleAssumption, ElementOfSeq, LenProperties
<1>2. ASSUME NEW b \in Inputs
      PROVE  ~Bound(b)
  <2>1. ASSUME NEW k \in DOMAIN items, Binds(op.items[k], b)
        PROVE  FALSE
    <3>1. op.items[k] \in ToSet(op.items)
      BY DEF ToSet
    <3>2. b \in Writes(op)
      BY <3>1, <2>1 DEF Writes, Binds
    <3> QED
      BY <3>2 DEF Typed
  <2> QED
    BY <2>1
<1>3. After(op, items, n, env) \in [Binding -> Value]
  BY <1>1 DEF After
<1>4. \A b \in Inputs : After(op, items, n, env)[b] = env[b]
  BY <1>2, InputsAssumption DEF After
<1> QED
  BY <1>3, <1>4

\* So does UnpackTupleBinding, whether the tuple matches or not.
LEMMA UnpackedType ==
  ASSUME NEW op, op.op = "Unpack", Typed(op), NEW env \in [Binding -> Value], CanUnpack(op, env)
  PROVE  /\ Unpacked(op, env).env \in [Binding -> Value]
         /\ \A b \in Inputs : Unpacked(op, env).env[b] = env[b]
<1> DEFINE items == tupleItems[env[op.binding]]
<1>1. DOMAIN items = DOMAIN op.items
  BY TupleAssumption, LenProperties DEF CanUnpack, Typed
<1>2. PICK n : Unpacked(op, env).env = After(op, items, n, env)
  BY DEF Unpacked
<1> QED
  BY <1>1, <1>2, AfterType DEF CanUnpack

\* The values of an attribute are values.
LEMMA ValuesType ==
  ASSUME heap \in Heaps, NEW v, NEW attribute \in Attribute
  PROVE  ValuesOf(heap, v, attribute) \in Seq(Value)
  BY HeapsAssumption, EmptySeq DEF ValuesOf

\* The more frames, the more scopes are open.
LEMMA OpenGrows ==
  ASSUME NEW fs, NEW m \in Nat, NEW n \in Nat, m <= n
  PROVE  Open(fs, m) \subseteq Open(fs, n)
  BY DEF Open

-----------------------------------------------------------------------------
(* The frames after a step.                                                *)

\* What the invariant says of the frames alone.
FramesOK ==
  /\ frames \in Seq(IterFrames \cup NotFrames)
  /\ \A k \in DOMAIN frames : Scopes(ops, frames[k].next) \subseteq Open(frames, k - 1)
  /\ OwnSlots

\* A new frame that sends the search back into open scopes.
LEMMA PushFrame ==
  ASSUME FramesOK, ops' = ops, NEW f \in IterFrames \cup NotFrames,
         frames' = Append(frames, f),
         Scopes(ops, f.next) \subseteq Open(frames, Len(frames)),
         f.frame = "iter" => f.binding \notin Inputs
  PROVE  /\ FramesOK'
         /\ Open(frames, Len(frames)) \subseteq Open(frames', Len(frames'))
         /\ f.frame = "not" => f.index \in Open(frames', Len(frames'))
<1> DEFINE n == Len(frames)
           S == IterFrames \cup NotFrames
<1>1. frames \in Seq(S) /\ n \in Nat
  BY LenProperties DEF FramesOK
<1>2. /\ frames' \in Seq(S) /\ Len(frames') = n + 1
      /\ frames'[n + 1] = f
      /\ \A j \in 1 .. n : frames'[j] = frames[j]
  BY <1>1, AppendProperties
<1>3. ASSUME NEW k \in 0 .. n
      PROVE  Open(frames', k) = Open(frames, k)
  BY <1>1, <1>2 DEF Open
<1>4. S = S'
  BY DEF IterFrames, NotFrames
<1>5. ASSUME NEW k \in DOMAIN frames'
      PROVE  /\ Scopes(ops, frames'[k].next) \subseteq Open(frames', k - 1)
             /\ frames'[k].frame = "iter" => frames'[k].binding \notin Inputs
  <2>1. k \in 1 .. n + 1
    BY <1>2
  <2>2. Open(frames', k - 1) = Open(frames, k - 1)
    BY <2>1, <1>1, <1>3
  <2>3. CASE k = n + 1
    BY <2>2, <2>3, <1>2, <1>1
  <2>4. CASE k # n + 1
    <3>1. k \in DOMAIN frames /\ frames'[k] = frames[k]
      BY <2>1, <2>4, <1>1, <1>2
    <3> QED
      BY <3>1, <2>2 DEF FramesOK, OwnSlots
  <2> QED
    BY <2>3, <2>4
<1>6. FramesOK'
  BY <1>2, <1>4, <1>5 DEF FramesOK, OwnSlots
<1>7. Open(frames', n) = Open(frames, n) /\ Open(frames', n) \subseteq Open(frames', n + 1)
  BY <1>1, <1>3, OpenGrows
<1>8. n + 1 \in {x \in 1 .. n + 1 : f.frame = "not" => frames'[x].frame = "not"}
  BY <1>1, <1>2
<1> QED
  BY <1>2, <1>6, <1>7, <1>8 DEF Open

\* The frames from some position on go.
LEMMA PopFrames ==
  ASSUME FramesOK, ops' = ops, NEW n \in 0 .. Len(frames), frames' = SubSeq(frames, 1, n)
  PROVE  FramesOK' /\ Len(frames') = n /\ Open(frames', n) = Open(frames, n)
<1> DEFINE S == IterFrames \cup NotFrames
<1>1. frames \in Seq(S) /\ Len(frames) \in Nat /\ n \in Nat
  BY LenProperties DEF FramesOK
<1>2. /\ frames' \in Seq(S) /\ Len(frames') = n
      /\ \A j \in 1 .. n : frames'[j] = frames[j]
  BY <1>1, SubSeqProperties
<1>3. ASSUME NEW k \in 0 .. n
      PROVE  Open(frames', k) = Open(frames, k)
  BY <1>1, <1>2 DEF Open
<1>4. S = S'
  BY DEF IterFrames, NotFrames
<1>5. ASSUME NEW k \in DOMAIN frames'
      PROVE  /\ Scopes(ops, frames'[k].next) \subseteq Open(frames', k - 1)
             /\ frames'[k].frame = "iter" => frames'[k].binding \notin Inputs
  <2>1. k \in 1 .. n /\ k \in DOMAIN frames /\ frames'[k] = frames[k]
    BY <1>1, <1>2
  <2>2. Open(frames', k - 1) = Open(frames, k - 1)
    BY <2>1, <1>1, <1>3
  <2> QED
    BY <2>1, <2>2 DEF FramesOK, OwnSlots
<1> QED
  BY <1>1, <1>2, <1>3, <1>4, <1>5 DEF FramesOK, OwnSlots

\* The topmost iterator gives its next value.
LEMMA AdvanceFrame ==
  ASSUME FramesOK, ops' = ops, frames # <<>>, TopFrame.frame = "iter", TopFrame.rest # <<>>,
         frames' = [frames EXCEPT ![Len(frames)].rest = Tail(@)]
  PROVE  FramesOK' /\ Len(frames') = Len(frames)
         /\ Open(frames', Len(frames)) = Open(frames, Len(frames))
<1> DEFINE n == Len(frames)
           S == IterFrames \cup NotFrames
<1>1. frames \in Seq(S) /\ n \in Nat \ {0} /\ DOMAIN frames = 1 .. n /\ TopFrame = frames[n]
  BY LenProperties, EmptySeq DEF FramesOK, TopFrame, Last
<1>2. frames[n] \in IterFrames
  BY <1>1 DEF IterFrames, NotFrames
<1>3. Tail(frames[n].rest) \in Seq(Value)
  BY <1>1, <1>2, HeadTailProperties DEF IterFrames
<1>4. [frames[n] EXCEPT !.rest = Tail(@)] \in IterFrames
  BY <1>2, <1>3 DEF IterFrames
<1>5. /\ frames' \in Seq(S) /\ Len(frames') = n
      /\ \A k \in 1 .. n : /\ frames'[k].frame = frames[k].frame
                           /\ frames'[k].next = frames[k].next
                           /\ frames'[k].frame = "iter" => frames'[k].binding = frames[k].binding
                           /\ frames'[k].frame = "not" => frames'[k].index = frames[k].index
  <2>1. frames' = [frames EXCEPT ![n] = [frames[n] EXCEPT !.rest = Tail(@)]]
    BY <1>1
  <2>2. \A k \in 1 .. n : frames'[k] = IF k = n THEN [frames[n] EXCEPT !.rest = Tail(@)] ELSE frames[k]
    BY <2>1, <1>1
  <2>3. frames' \in Seq(S) /\ Len(frames') = n
    BY <2>1, <1>1, <1>4, ExceptSeq
  <2> QED
    BY <2>2, <2>3, <1>2 DEF IterFrames
<1>6. ASSUME NEW k \in 0 .. n
      PROVE  Open(frames', k) = Open(frames, k)
  BY <1>5 DEF Open
<1>7. S = S'
  BY DEF IterFrames, NotFrames
<1>8. ASSUME NEW k \in DOMAIN frames'
      PROVE  /\ Scopes(ops, frames'[k].next) \subseteq Open(frames', k - 1)
             /\ frames'[k].frame = "iter" => frames'[k].binding \notin Inputs
  <2>1. k \in 1 .. n
    BY <1>5
  <2>2. k - 1 \in 0 .. n /\ k \in DOMAIN frames
    BY <2>1, <1>1
  <2>3. Open(frames', k - 1) = Open(frames, k - 1)
    BY <2>2, <1>6
  <2> QED
    BY <2>1, <2>2, <2>3, <1>5 DEF FramesOK, OwnSlots
<1>9. FramesOK'
  BY <1>5, <1>7, <1>8 DEF FramesOK, OwnSlots
<1>10. n \in 0 .. n
  BY <1>1
<1> QED
  BY <1>5, <1>6, <1>9, <1>10

-----------------------------------------------------------------------------
(* The actions.                                                            *)

\* The parts of the invariant, put together again after a step.
LEMMA Assemble ==
  ASSUME ops' \in Programs, heap' \in Heaps, bindings' \in [Binding -> Value],
         pc' \in DOMAIN ops', mode' \in {"op", "branch", "true", "false"}, FramesOK',
         mode' = "op" => Scopes(ops', pc') \subseteq Open(frames', Len(frames'))
  PROVE  IInv'
  BY DEF IInv, TypeOK, Discipline, FramesOK, IterFrames, NotFrames

\* And taken apart before it.
LEMMA TakeApart ==
  ASSUME IInv
  PROVE  /\ FramesOK
         /\ ops \in Programs /\ heap \in Heaps /\ bindings \in [Binding -> Value]
         /\ pc \in DOMAIN ops /\ Typed(Op) /\ Op = ops[pc]
         /\ mode \in {"op", "branch", "true", "false"}
         /\ mode = "op" => Scopes(ops, pc) \subseteq Open(frames, Len(frames))
  BY ProgramShape DEF IInv, TypeOK, Discipline, FramesOK, IterFrames, NotFrames, Op, WellFormed

\* Frames that stay as they are stay right.
LEMMA FramesStay ==
  ASSUME FramesOK, UNCHANGED <<ops, frames>>
  PROVE  FramesOK'
<1>1. IterFrames' = IterFrames /\ NotFrames' = NotFrames
  BY DEF IterFrames, NotFrames
<1> QED
  BY <1>1 DEF FramesOK, OwnSlots

\* Steps that leave the frames alone.
LEMMA SameFrames ==
  ASSUME IInv, UNCHANGED <<ops, heap, frames>>, bindings' \in [Binding -> Value],
         \/ mode' \in {"branch", "true", "false"} /\ pc' = pc
         \/ mode = "op" /\ Op.op \notin {"End", "BeginNot"} /\ NextOp
  PROVE  IInv'
<1>1. FramesOK'
  BY TakeApart, FramesStay
<1>2. CASE mode' \in {"branch", "true", "false"} /\ pc' = pc
  BY <1>1, <1>2, TakeApart, Assemble
<1>3. CASE mode = "op" /\ Op.op \notin {"End", "BeginNot"} /\ NextOp
  <2>1. pc + 1 \in DOMAIN ops /\ Scopes(ops, pc + 1) \subseteq Scopes(ops, pc)
    BY <1>3, TakeApart, ProgramShape, NextPosition DEF IsBegin
  <2>2. pc' = pc + 1 /\ mode' = "op"
    BY <1>3 DEF NextOp
  <2>3. Scopes(ops', pc') \subseteq Open(frames', Len(frames'))
    BY <2>1, <2>2, <1>3, TakeApart
  <2> QED
    BY <1>1, <2>1, <2>2, <2>3, TakeApart, Assemble
<1> QED
  BY <1>2, <1>3

\* Tests.
LEMMA TestStep ==
  ASSUME IInv, Test, UNCHANGED <<ops, heap>>
  PROVE  IInv' /\ Kept
  BY TakeApart, SameFrames DEF Test, Tests, NextOp, NextBranch, Kept

\* UnpackTupleBinding.
LEMMA UnpackStep ==
  ASSUME IInv, UnpackTuple, UNCHANGED <<ops, heap>>
  PROVE  IInv' /\ Kept
<1>1. CASE CanUnpack(Op, bindings)
  <2>1. /\ bindings' \in [Binding -> Value]
        /\ \A b \in Inputs : bindings'[b] = bindings[b]
    BY <1>1, TakeApart, UnpackedType DEF UnpackTuple, At
  <2> QED
    BY <1>1, <2>1, SameFrames DEF UnpackTuple, At, NextOp, NextBranch, Kept
<1>2. CASE ~CanUnpack(Op, bindings)
  BY <1>2, TakeApart, SameFrames DEF UnpackTuple, NextBranch, Kept
<1> QED
  BY <1>1, <1>2

\* Calculation.
LEMMA CalculationStep ==
  ASSUME IInv, Calculation, UNCHANGED <<ops, heap>>
  PROVE  IInv' /\ Kept
<1> DEFINE x == Operands(Op, bindings)
<1>1. CASE x \in DOMAIN Op.results
  <2>1. Op.results[x] \in Value
    BY <1>1, TakeApart DEF Typed, Calculation, At
  <2>2. Op.binding \in Binding \ Inputs
    BY TakeApart DEF Typed, Writes, Calculation, At
  <2>3. bindings' = [bindings EXCEPT ![Op.binding] = Op.results[x]]
    BY <1>1 DEF Calculation
  <2>4. bindings' \in [Binding -> Value] /\ Kept
    BY <2>1, <2>2, <2>3, TakeApart, InputsAssumption DEF Kept
  <2> QED
    BY <1>1, <2>4, SameFrames DEF Calculation, At, NextOp
<1>2. CASE x \notin DOMAIN Op.results
  BY <1>2, TakeApart, SameFrames DEF Calculation, NextBranch, Kept
<1> QED
  BY <1>1, <1>2

\* End: the callback writes no input slot.
LEMMA ReportStep ==
  ASSUME IInv, Report, UNCHANGED <<ops, heap>>
  PROVE  IInv' /\ Kept
<1>1. PICK env \in [Scratch -> Applied] :
        bindings' = [b \in Binding |-> IF b \in Scratch THEN env[b] ELSE bindings[b]]
  BY DEF Report
<1>2. bindings' \in [Binding -> Value]
  BY <1>1, TakeApart, ValuesAssumption
<1>3. Kept
  BY <1>1, ScratchAssumption, InputsAssumption DEF Kept
<1> QED
  BY <1>2, <1>3, SameFrames DEF Report

\* SearchAttributeBinding.
LEMMA SearchStep ==
  ASSUME IInv, SearchAttribute, UNCHANGED <<ops, heap>>
  PROVE  IInv' /\ Kept
<1> DEFINE f == [frame |-> "iter", binding |-> Op.value_binding, next |-> pc + 1,
                 rest |-> ValuesOf(heap, bindings[Op.binding], Op.attribute)]
<1>0. Op.op = "Search" /\ mode = "op" /\ mode' = "branch" /\ UNCHANGED <<pc, bindings>>
  BY DEF SearchAttribute, At, NextBranch
<1>1. CASE bindings[Op.binding] \in Object
  <2>1. Op.value_binding \in Binding \ Inputs /\ Op.attribute \in Attribute
    BY <1>0, TakeApart DEF Typed, Writes
  <2>2. pc + 1 \in DOMAIN ops /\ Scopes(ops, pc + 1) \subseteq Scopes(ops, pc)
    BY <1>0, TakeApart, ProgramShape, NextPosition DEF IsBegin
  <2>3. f \in IterFrames
    BY <2>1, <2>2, TakeApart, ValuesType DEF IterFrames
  <2>4. frames' = Append(frames, f)
    BY <1>1 DEF SearchAttribute
  <2>5. /\ Scopes(ops, f.next) \subseteq Open(frames, Len(frames))
        /\ f.binding \notin Inputs
    BY <1>0, <2>1, <2>2, TakeApart
  <2> HIDE DEF f
  <2>6. FramesOK'
    BY <2>3, <2>4, <2>5, TakeApart, PushFrame
  <2> QED
    BY <1>0, <2>6, TakeApart, Assemble DEF Kept
<1>2. CASE bindings[Op.binding] \notin Object
  BY <1>0, <1>2, TakeApart, SameFrames DEF SearchAttribute, Kept
<1> QED
  BY <1>1, <1>2

\* BeginNot.
LEMMA BeginNotStep ==
  ASSUME IInv, BeginNot, UNCHANGED <<ops, heap>>
  PROVE  IInv' /\ Kept
<1> DEFINE f == [frame |-> "not", index |-> Op.index, next |-> pc + Op.sequence_len + 1]
<1>0. /\ IsBegin(ops, pc) /\ mode = "op" /\ NextOp /\ bindings' = bindings
      /\ frames' = Append(frames, f)
  BY TakeApart DEF BeginNot, At, IsBegin
<1>1. f.next \in DOMAIN ops /\ Scopes(ops, f.next) \subseteq Scopes(ops, pc)
  BY <1>0, TakeApart, ProgramShape, AfterScope
<1>2. f.index \in Nat
  BY <1>0, TakeApart, ProgramShape DEF WellFormed
<1>3. pc + 1 \in DOMAIN ops /\ Scopes(ops, pc + 1) \subseteq Scopes(ops, pc) \cup {f.index}
  BY <1>0, TakeApart, ProgramShape, NextPosition DEF IsBegin
<1>4. f \in NotFrames /\ f.frame = "not"
  BY <1>1, <1>2 DEF NotFrames
<1> HIDE DEF f
<1>5. /\ FramesOK' /\ f.index \in Open(frames', Len(frames'))
      /\ Open(frames, Len(frames)) \subseteq Open(frames', Len(frames'))
  BY <1>0, <1>1, <1>4, TakeApart, PushFrame
<1>6. Scopes(ops', pc') \subseteq Open(frames', Len(frames'))
  BY <1>0, <1>3, <1>5, TakeApart DEF NextOp
<1> QED
  BY <1>0, <1>3, <1>5, <1>6, TakeApart, Assemble DEF NextOp, Kept

\* EndNot.
LEMMA EndNotStep ==
  ASSUME IInv, EndNot, UNCHANGED <<ops, heap>>
  PROVE  IInv' /\ Kept
<1>1. PICK i \in ScopeFrames(Op.index) : frames' = SubSeq(frames, 1, i - 1)
  BY DEF EndNot
<1>2. i - 1 \in 0 .. Len(frames)
  BY <1>1, TakeApart, LenProperties DEF ScopeFrames, FramesOK
<1>3. FramesOK'
  BY <1>1, <1>2, TakeApart, PopFrames
<1> QED
  BY <1>3, TakeApart, Assemble DEF EndNot, NextBranch, Kept

\* A branch is left for good.
LEMMA DropFrame ==
  ASSUME FramesOK, ops' = ops, frames # <<>>, frames' = Front(frames)
  PROVE  /\ FramesOK'
         /\ TopFrame = frames[Len(frames)] /\ Len(frames) \in DOMAIN frames
         /\ Scopes(ops, TopFrame.next) \subseteq Open(frames', Len(frames'))
         /\ TopFrame \in IterFrames \cup NotFrames
<1>1. /\ Len(frames) \in Nat \ {0} /\ DOMAIN frames = 1 .. Len(frames)
      /\ frames \in Seq(IterFrames \cup NotFrames)
  BY LenProperties, EmptySeq DEF FramesOK
<1>2. TopFrame = frames[Len(frames)] /\ Len(frames) \in DOMAIN frames
  BY <1>1 DEF TopFrame, Last
<1> DEFINE n == Len(frames) - 1
<1>3. n \in 0 .. Len(frames)
  BY <1>1
<1>4. frames' = SubSeq(frames, 1, n)
  BY DEF Front
<1>5. FramesOK' /\ Len(frames') = n /\ Open(frames', n) = Open(frames, n)
  BY <1>3, <1>4, PopFrames
<1>6. Scopes(ops, TopFrame.next) \subseteq Open(frames, n)
  BY <1>2 DEF FramesOK
<1> QED
  BY <1>1, <1>2, <1>5, <1>6, ElementOfSeq

\* The search goes on after the negated operations.
LEMMA AfterNotStep ==
  ASSUME IInv, AfterNot, UNCHANGED <<ops, heap>>
  PROVE  IInv' /\ Kept
<1>1. frames # <<>> /\ frames' = Front(frames) /\ pc' = TopFrame.next /\ mode' = "op"
  BY DEF AfterNot, BackTo
<1>2. /\ FramesOK' /\ TopFrame \in IterFrames \cup NotFrames
      /\ Scopes(ops, TopFrame.next) \subseteq Open(frames', Len(frames'))
  BY <1>1, TakeApart, DropFrame
<1>3. pc' \in DOMAIN ops
  BY <1>1, <1>2 DEF IterFrames, NotFrames
<1> QED
  BY <1>1, <1>2, <1>3, TakeApart, Assemble DEF AfterNot, Kept

\* An iterator has no value left.
LEMMA NoValueLeftStep ==
  ASSUME IInv, NoValueLeft, UNCHANGED <<ops, heap>>
  PROVE  IInv' /\ Kept
<1>1. FramesOK'
  BY TakeApart, DropFrame DEF NoValueLeft, BackTo
<1> QED
  BY <1>1, TakeApart, Assemble DEF NoValueLeft, BackTo, Kept

\* An iterator gives its next value.
LEMMA NextValueStep ==
  ASSUME IInv, NextValue, UNCHANGED <<ops, heap>>
  PROVE  IInv' /\ Kept
<1> DEFINE n == Len(frames)
<1>1. /\ frames # <<>> /\ TopFrame.frame = "iter" /\ TopFrame.rest # <<>>
      /\ frames' = [frames EXCEPT ![Len(frames)].rest = Tail(@)]
      /\ bindings' = [bindings EXCEPT ![TopFrame.binding] = Head(TopFrame.rest)]
      /\ pc' = TopFrame.next /\ mode' = "op"
  BY DEF NextValue, BackTo
<1>2. FramesOK' /\ Len(frames') = n /\ Open(frames', n) = Open(frames, n)
  BY <1>1, TakeApart, AdvanceFrame
<1>3. /\ n \in Nat \ {0} /\ DOMAIN frames = 1 .. n /\ TopFrame = frames[n]
      /\ frames[n] \in IterFrames \cup NotFrames
  BY <1>1, TakeApart, LenProperties, EmptySeq, ElementOfSeq DEF FramesOK, TopFrame, Last
<1>4. /\ TopFrame.binding \in Binding \ Inputs /\ TopFrame.rest \in Seq(Value)
      /\ TopFrame.next \in DOMAIN ops
  BY <1>1, <1>3, TakeApart DEF IterFrames, NotFrames, FramesOK, OwnSlots
<1>5. Head(TopFrame.rest) \in Value
  BY <1>1, <1>4, HeadTailProperties
<1>6. bindings' \in [Binding -> Value] /\ Kept
  BY <1>1, <1>4, <1>5, TakeApart, InputsAssumption DEF Kept
<1>7. Scopes(ops, TopFrame.next) \subseteq Open(frames, n - 1)
  BY <1>3, TakeApart DEF FramesOK
<1>8. Open(frames, n - 1) \subseteq Open(frames, n)
  BY <1>3, OpenGrows
<1> QED
  BY <1>1, <1>2, <1>4, <1>6, <1>7, <1>8, TakeApart, Assemble

\* The invariant is kept, and so are the inputs.
LEMMA NextInvariant ==
  ASSUME IInv, [Next]_vars
  PROVE  IInv' /\ Kept
<1>1. CASE UNCHANGED vars
  <2>1. UNCHANGED <<ops, heap, bindings, pc, frames, mode>>
    BY <1>1 DEF vars
  <2>2. FramesOK'
    BY <2>1, TakeApart, FramesStay
  <2> QED
    BY <2>1, <2>2, TakeApart, Assemble DEF Kept
<1>2. CASE NoBranchLeft /\ UNCHANGED <<ops, heap>>
  BY <1>2, TakeApart, SameFrames DEF NoBranchLeft, Kept
<1> QED
  BY <1>1, <1>2, TestStep, UnpackStep, CalculationStep, ReportStep, SearchStep, BeginNotStep,
     EndNotStep, AfterNotStep, NoValueLeftStep, NextValueStep DEF Next

\* The invariant holds at first.
LEMMA InitInvariant ==
  ASSUME Init
  PROVE  IInv
<1>1. bindings \in [Binding -> Value]
  BY ValuesAssumption, ObjectAssumption DEF Init
<1>2. pc \in DOMAIN ops /\ Scopes(ops, pc) = {} /\ frames = <<>>
  BY ProgramShape, FirstPosition DEF Init
<1> QED
  BY <1>1, <1>2, EmptySeq DEF Init, IInv, TypeOK, Discipline, OwnSlots

\* In the invariant an EndNot has its frame.
LEMMA FrameThere ==
  ASSUME IInv
  PROVE  ScopeFound
<1> SUFFICES ASSUME At("EndNot")
             PROVE  ScopeFrames(Op.index) # {}
  BY DEF ScopeFound
<1>1. Op.index \in Open(frames, Len(frames))
  BY TakeApart, ProgramShape, EndInScope DEF At
<1>2. PICK j \in 1 .. Len(frames) : frames[j].frame = "not" /\ frames[j].index = Op.index
  BY <1>1 DEF Open
<1>3. j \in DOMAIN frames
  BY <1>2, TakeApart, LenProperties DEF FramesOK
<1> QED
  BY <1>2, <1>3 DEF ScopeFrames

-----------------------------------------------------------------------------
(* Induction on numbers, as closure of sets of them.                       *)

LEMMA Least ==
  ASSUME NEW T \in SUBSET Nat, T # {}
  PROVE  \E x \in T : \A y \in T : x <= y
<1>1. PICK R : (\A x, y \in Nat : <<y, x>> \in R <=> y < x) /\ IsWellFoundedOn(R, Nat)
  <2>1. \A x, y \in Nat : <<y, x>> \in OpToRel(<, Nat) <=> y < x
    BY Zenon DEF OpToRel
  <2> QED BY <2>1, NatLessThanWellFounded, Zenon
<1>2. PICK x \in T : \A y \in T : ~(<<y, x>> \in R)
  BY <1>1, WFMin
<1>3. ASSUME NEW y \in T
      PROVE  x <= y
  <2>1. x \in Nat /\ y \in Nat
    OBVIOUS
  <2>2. ~(y < x)
    BY <1>1, <1>2, <2>1, Zenon
  <2> QED BY <2>1, <2>2
<1> QED BY <1>3

LEMMA Upward ==
  ASSUME NEW N \in Nat, NEW S, 0 \in S, \A k \in 0 .. N - 1 : k \in S => k + 1 \in S
  PROVE  \A k \in 0 .. N : k \in S
<1> DEFINE T == {n \in 0 .. N : n \notin S}
<1>1. SUFFICES ASSUME T # {} PROVE FALSE
  OBVIOUS
<1>2. PICK n \in T : \A m \in T : n <= m
  <2>1. T \in SUBSET Nat
    OBVIOUS
  <2> HIDE DEF T
  <2> QED BY <1>1, <2>1, Least
<1>3. n \in 0 .. N /\ n \notin S /\ n # 0
  OBVIOUS
<1>4. n - 1 \in 0 .. N - 1 /\ n - 1 \in S
  BY <1>2, <1>3
<1> QED BY <1>3, <1>4

LEMMA Downward ==
  ASSUME NEW N \in Nat, NEW S, N \in S, \A k \in 1 .. N : k \in S => k - 1 \in S
  PROVE  \A k \in 0 .. N : k \in S
<1> DEFINE T == {n \in 0 .. N : N - n \notin S}
<1>1. SUFFICES ASSUME T # {} PROVE FALSE
  <2>1. SUFFICES ASSUME NEW k \in 0 .. N, T = {} PROVE k \in S
    OBVIOUS
  <2>2. N - k \in 0 .. N /\ N - (N - k) = k
    OBVIOUS
  <2> QED BY <2>1, <2>2
<1>2. PICK n \in T : \A m \in T : n <= m
  <2>1. T \in SUBSET Nat
    OBVIOUS
  <2> HIDE DEF T
  <2> QED BY <1>1, <2>1, Least
<1>3. n \in 0 .. N /\ N - n \notin S /\ n # 0
  OBVIOUS
<1>4. n - 1 \in 0 .. N /\ n - 1 \notin T
  BY <1>2, <1>3
<1>5. N - (n - 1) \in S /\ N - (n - 1) \in 1 .. N /\ N - (n - 1) - 1 = N - n
  BY <1>3, <1>4
<1> QED BY <1>3, <1>5

-----------------------------------------------------------------------------
(* Sequences of sequences.                                                 *)

LEMMA Associates ==
  ASSUME NEW S
  PROVE  \A s, t, u \in Seq(S) : (s \o t) \o u = s \o (t \o u)
<1> SUFFICES ASSUME NEW s \in Seq(S), NEW t \in Seq(S), NEW u \in Seq(S)
             PROVE  (s \o t) \o u = s \o (t \o u)
  OBVIOUS
<1> QED BY ConcatAssociative

\* What FlattenSeq does item by item.
Flattens(g, seqs, S) ==
  /\ g \in [1 .. Len(seqs) -> Seq(S)]
  /\ \A i \in 1 .. Len(seqs) : g[i] = IF i = 1 THEN seqs[i] ELSE g[i - 1] \o seqs[i]

LEMMA FlattenSteps ==
  ASSUME NEW S, NEW seqs \in Seq(Seq(S)), seqs # <<>>
  PROVE  \E g : Flattens(g, seqs, S) /\ FlattenSeq(seqs) = g[Len(seqs)]
<1> DEFINE n == Len(seqs)
           Step(g, i) == IF i = 1 THEN seqs[i] ELSE g[i - 1] \o seqs[i]
<1>1. n \in Nat \ {0} /\ \A i \in 1 .. n : seqs[i] \in Seq(S)
  BY EmptySeq, LenProperties, ElementOfSeq
<1>2. \A i \in 1 .. n : i - 1 \in Nat /\ (i # 1 => i - 1 \in 1 .. n)
  BY <1>1
<1>3. ASSUME NEW i \in 1 .. n, NEW s \in Seq(S)
      PROVE  s \o seqs[i] \in Seq(S)
  BY <1>1, ConcatProperties
<1> DEFINE T == {k \in 0 .. n : \E g \in [1 .. n -> Seq(S)] : \A i \in 1 .. k : g[i] = Step(g, i)}
<1>4. 0 \in T
  <2>1. [i \in 1 .. n |-> <<>>] \in [1 .. n -> Seq(S)]
    BY EmptySeq
  <2> QED BY <1>1, <2>1
<1>5. ASSUME NEW k \in 0 .. n - 1, k \in T
      PROVE  k + 1 \in T
  <2>1. PICK g \in [1 .. n -> Seq(S)] : \A i \in 1 .. k : g[i] = Step(g, i)
    BY <1>5
  <2> DEFINE h == [g EXCEPT ![k + 1] = Step(g, k + 1)]
  <2>2. k + 1 \in 1 .. n /\ k + 1 \in 0 .. n
    BY <1>1
  <2>3. Step(g, k + 1) \in Seq(S)
    BY <1>1, <1>2, <1>3, <2>1, <2>2
  <2>4. h \in [1 .. n -> Seq(S)] /\ h[k + 1] = Step(g, k + 1) /\ \A i \in 1 .. n : i # k + 1 => h[i] = g[i]
    BY <2>1, <2>2, <2>3
  <2>5. ASSUME NEW i \in 1 .. k + 1
        PROVE  h[i] = Step(h, i)
    <3>1. Step(h, i) = Step(g, i)
      BY <1>2, <2>2, <2>4
    <3>2. CASE i = k + 1
      BY <2>4, <3>1, <3>2
    <3>3. CASE i # k + 1
      BY <2>1, <2>2, <2>4, <3>1, <3>3
    <3> QED BY <3>2, <3>3
  <2> QED BY <2>2, <2>4, <2>5
<1>6. n \in T
  <2>1. n \in Nat /\ n \in 0 .. n
    BY <1>1
  <2> HIDE DEF T, n
  <2>2. \A k \in 0 .. n - 1 : k \in T => k + 1 \in T
    BY <1>5
  <2>3. \A k \in 0 .. n : k \in T
    BY <1>4, <2>1, <2>2, Upward, Zenon
  <2> QED BY <2>1, <2>3
<1>7. PICK g \in [1 .. n -> Seq(S)] : \A i \in 1 .. n : g[i] = Step(g, i)
  BY <1>6
<1>8. g = [i \in 1 .. n |-> IF i = 1 THEN seqs[i] ELSE g[i - 1] \o seqs[i]]
  BY <1>7
<1> DEFINE h == CHOOSE f : f = [i \in 1 .. n |-> IF i = 1 THEN seqs[i] ELSE f[i - 1] \o seqs[i]]
<1>9. h = [i \in 1 .. n |-> IF i = 1 THEN seqs[i] ELSE h[i - 1] \o seqs[i]]
  BY <1>8
<1>10. FlattenSeq(seqs) = h[n]
  BY <1>1 DEF FlattenSeq
<1> HIDE DEF h
<1>11. DOMAIN h = 1 .. n /\ \A i \in 1 .. n : h[i] = Step(h, i)
  BY <1>9
<1> DEFINE U == {k \in 0 .. n : \A i \in 1 .. k : h[i] \in Seq(S)}
<1>12. 0 \in U
  BY <1>1
<1>13. ASSUME NEW k \in 0 .. n - 1, k \in U
       PROVE  k + 1 \in U
  <2>1. k + 1 \in 1 .. n /\ k + 1 \in 0 .. n /\ \A i \in 1 .. k : h[i] \in Seq(S)
    BY <1>1, <1>13
  <2>2. h[k + 1] \in Seq(S)
    <3>1. CASE k = 0
      <4>1. h[k + 1] = seqs[k + 1]
        <5>1. k + 1 = 1 /\ 1 \in 1 .. n
          BY <2>1, <3>1
        <5>2. h[1] = Step(h, 1)
          BY <1>11, <5>1
        <5> QED BY <5>1, <5>2
      <4> QED BY <1>1, <2>1, <4>1
    <3>2. CASE k # 0
      <4>1. k \in 1 .. k /\ k + 1 # 1 /\ (k + 1) - 1 = k
        BY <1>1, <3>2
      <4>2. h[k + 1] = h[k] \o seqs[k + 1]
        BY <1>11, <2>1, <4>1
      <4>3. h[k] \in Seq(S)
        BY <2>1, <4>1
      <4> QED BY <1>3, <2>1, <4>2, <4>3
    <3> QED BY <3>1, <3>2
  <2>3. \A i \in 1 .. k + 1 : i = k + 1 \/ i \in 1 .. k
    OBVIOUS
  <2>4. \A i \in 1 .. k + 1 : h[i] \in Seq(S)
    BY ONLY <2>1, <2>2, <2>3
  <2> QED BY <2>1, <2>4
<1>14. n \in U
  <2>1. n \in Nat /\ n \in 0 .. n
    BY <1>1
  <2> HIDE DEF U, n
  <2>2. \A k \in 0 .. n - 1 : k \in U => k + 1 \in U
    BY <1>13
  <2>3. \A k \in 0 .. n : k \in U
    BY <1>12, <2>1, <2>2, Upward, Zenon
  <2> QED BY <2>1, <2>3
<1>15. h \in [1 .. n -> Seq(S)]
  BY <1>9, <1>11, <1>14
<1> QED BY <1>10, <1>11, <1>15 DEF Flattens

\* A sequence is flattened from the left.
LEMMA FlattenFromLeft ==
  ASSUME NEW S, NEW seqs \in Seq(Seq(S))
  PROVE  /\ FlattenSeq(seqs) \in Seq(S)
         /\ FlattenSeq(seqs) = IF seqs = <<>> THEN <<>> ELSE Head(seqs) \o FlattenSeq(Tail(seqs))
<1>1. FlattenSeq(<<>>) = <<>>
  BY DEF FlattenSeq
<1>2. CASE seqs = <<>>
  BY <1>1, <1>2, EmptySeq
<1>3. CASE seqs # <<>>
  <2> DEFINE n == Len(seqs)
             t == Tail(seqs)
  <2>1. PICK g : Flattens(g, seqs, S) /\ FlattenSeq(seqs) = g[n]
    BY <1>3, FlattenSteps
  <2>2. /\ n \in Nat \ {0} /\ \A i \in 1 .. n : seqs[i] \in Seq(S)
        /\ g \in [1 .. n -> Seq(S)]
        /\ \A i \in 1 .. n : g[i] = IF i = 1 THEN seqs[i] ELSE g[i - 1] \o seqs[i]
    BY <1>3, <2>1, EmptySeq, LenProperties, ElementOfSeq DEF Flattens
  <2>3. FlattenSeq(seqs) \in Seq(S)
    BY <2>1, <2>2
  <2>4. /\ t \in Seq(Seq(S)) /\ Len(t) = n - 1
        /\ \A i \in 1 .. n - 1 : t[i] = seqs[i + 1]
        /\ Head(seqs) = seqs[1]
    BY <1>3, HeadTailProperties
  <2> HIDE DEF n, t
  <2>5. CASE n = 1
    <3>1. t = <<>>
      BY <2>4, <2>5, EmptySeq
    <3>2. g[n] = seqs[1] /\ seqs[1] \in Seq(S)
      BY <2>2, <2>5
    <3>3. g[n] = Head(seqs) \o <<>>
      BY <2>4, <3>2, ConcatEmptySeq
    <3> QED BY <1>1, <1>3, <2>1, <2>3, <3>1, <3>3 DEF t
  <2>6. CASE n # 1
    <3>1. t # <<>> /\ n - 1 \in Nat \ {0}
      BY <2>2, <2>4, <2>6, EmptySeq
    <3>2. PICK h : Flattens(h, t, S) /\ FlattenSeq(t) = h[n - 1]
      BY <2>4, <3>1, FlattenSteps
    <3>3. /\ h \in [1 .. n - 1 -> Seq(S)]
          /\ \A i \in 1 .. n - 1 : h[i] = IF i = 1 THEN t[i] ELSE h[i - 1] \o t[i]
      BY <2>4, <3>2 DEF Flattens
    <3> DEFINE U == {k \in 0 .. n - 2 : g[k + 2] = seqs[1] \o h[k + 1]}
    <3>4. 0 \in U
      <4>1. g[2] = g[1] \o seqs[2] /\ g[1] = seqs[1] /\ h[1] = t[1] /\ t[1] = seqs[2]
        <5>1. 1 \in 1 .. n /\ 2 \in 1 .. n /\ 1 \in 1 .. n - 1 /\ 2 # 1 /\ 2 - 1 = 1 /\ 1 + 1 = 2
          BY <2>2, <2>6
        <5>2. t[1] = seqs[1 + 1]
          BY <2>4, <5>1
        <5> QED BY <2>2, <3>3, <5>1, <5>2
      <4>2. 0 \in 0 .. n - 2 /\ 0 + 2 = 2 /\ 0 + 1 = 1
        BY <2>2, <2>6
      <4> QED BY <4>1, <4>2
    <3>5. ASSUME NEW k \in 0 .. (n - 2) - 1, k \in U
          PROVE  k + 1 \in U
      <4>1. /\ k + 1 \in 0 .. n - 2 /\ (k + 1) + 2 \in 1 .. n /\ (k + 1) + 2 # 1
            /\ (k + 1) + 2 - 1 = k + 2 /\ (k + 1) + 1 \in 1 .. n - 1 /\ (k + 1) + 1 # 1
            /\ (k + 1) + 1 - 1 = k + 1 /\ k + 1 \in 1 .. n - 1 /\ ((k + 1) + 1) + 1 = (k + 1) + 2
        BY <2>2, <2>6
      <4>2. g[(k + 1) + 2] = g[k + 2] \o seqs[(k + 1) + 2]
        <5> DEFINE i == (k + 1) + 2
        <5>1. i \in 1 .. n /\ i # 1 /\ i - 1 = k + 2
          BY <4>1
        <5> HIDE DEF i
        <5>2. g[i] = g[i - 1] \o seqs[i]
          BY <2>2, <5>1
        <5>3. g[i] = g[k + 2] \o seqs[i]
          BY ONLY <5>1, <5>2
        <5> QED BY ONLY <5>3 DEF i
      <4>3. h[(k + 1) + 1] = h[k + 1] \o t[(k + 1) + 1]
        <5> DEFINE i == (k + 1) + 1
        <5>1. i \in 1 .. n - 1 /\ i # 1 /\ i - 1 = k + 1
          BY <4>1
        <5> HIDE DEF i
        <5>2. h[i] = h[i - 1] \o t[i]
          BY <3>3, <5>1
        <5>3. h[i] = h[k + 1] \o t[i]
          BY ONLY <5>1, <5>2
        <5> QED BY ONLY <5>3 DEF i
      <4>4. t[(k + 1) + 1] = seqs[(k + 1) + 2]
        <5>1. t[(k + 1) + 1] = seqs[((k + 1) + 1) + 1]
          BY ONLY <2>4, <4>1
        <5> QED BY ONLY <4>1, <5>1
      <4>5. g[k + 2] = seqs[1] \o h[k + 1]
        BY <3>5
      <4>6. seqs[1] \in Seq(S) /\ h[k + 1] \in Seq(S) /\ seqs[(k + 1) + 2] \in Seq(S)
        BY <2>2, <3>3, <4>1
      <4> HIDE DEF U
      <4>7. (seqs[1] \o h[k + 1]) \o seqs[(k + 1) + 2] = seqs[1] \o (h[k + 1] \o seqs[(k + 1) + 2])
        <5> DEFINE a == h[k + 1]
                   b == seqs[1]
                   c == seqs[(k + 1) + 2]
        <5>1. a \in Seq(S) /\ b \in Seq(S) /\ c \in Seq(S)
          BY <4>6
        <5> HIDE DEF a, b, c
        <5>2. \A x, y, z \in Seq(S) : (x \o y) \o z = x \o (y \o z)
          BY Associates
        <5> DEFINE Q(x, y, z) == (x \o y) \o z = x \o (y \o z)
        <5>3. \A x, y, z \in Seq(S) : Q(x, y, z)
          BY <5>2
        <5> HIDE DEF Q
        <5>4. Q(b, a, c)
          BY ONLY <5>1, <5>3, Zenon
        <5> QED BY <5>4 DEF a, b, c, Q
      <4>8. g[(k + 1) + 2] = seqs[1] \o h[(k + 1) + 1]
        BY ONLY <4>2, <4>3, <4>4, <4>5, <4>7
      <4> QED BY <4>1, <4>8 DEF U
    <3>6. n - 2 \in U
      <4>1. n - 2 \in Nat /\ n - 2 \in 0 .. n - 2
        BY <2>2, <2>6
      <4> HIDE DEF U
      <4>2. \A k \in 0 .. (n - 2) - 1 : k \in U => k + 1 \in U
        BY <3>5
      <4>3. \A k \in 0 .. n - 2 : k \in U
        BY <3>4, <4>1, <4>2, Upward, Zenon
      <4> QED BY <4>1, <4>3
    <3>7. g[n] = seqs[1] \o h[n - 1]
      <4>1. (n - 2) + 2 = n /\ (n - 2) + 1 = n - 1
        BY <2>2
      <4> QED BY <3>6, <4>1
    <3> QED BY <1>3, <2>1, <2>3, <2>4, <3>2, <3>7 DEF t
  <2> QED BY <2>5, <2>6
<1> QED BY <1>2, <1>3

-----------------------------------------------------------------------------
(* The solutions, operation by operation.                                  *)

Envs == [Binding -> Value]

\* What later operations find for the values a slot is bound to one by one.
Branches(later, binding, rest, e) ==
  FlattenSeq([k \in DOMAIN rest |-> later[[e EXCEPT ![binding] = rest[k]]]])

\* What an operation of each kind finds.
ByKind(from, p, i, e, h) ==
  /\ p[i].op \in {"End", "EndNot"} => Continued(from, p, i, e, h) = <<e>>
  /\ p[i].op \in Tests =>
       Continued(from, p, i, e, h) = IF Passes(p[i], e, h) THEN from[i + 1][e] ELSE <<>>
  /\ p[i].op = "Search" =>
       Continued(from, p, i, e, h) =
         Branches(from[i + 1], p[i].value_binding, ValuesOf(h, e[p[i].binding], p[i].attribute), e)
  /\ p[i].op = "Unpack" =>
       Continued(from, p, i, e, h) =
         IF CanUnpack(p[i], e) /\ Unpacked(p[i], e).matched
           THEN from[i + 1][Unpacked(p[i], e).env] ELSE <<>>
  /\ p[i].op = "Calculation" =>
       Continued(from, p, i, e, h) =
         IF Operands(p[i], e) \in DOMAIN p[i].results
           THEN from[i + 1][[e EXCEPT ![p[i].binding] = p[i].results[Operands(p[i], e)]]]
           ELSE <<>>
  /\ p[i].op = "BeginNot" =>
       Continued(from, p, i, e, h) =
         IF from[i + 1][e] = <<>> THEN from[EndOf(p, i) + 1][e] ELSE <<>>

LEMMA Finds ==
  ASSUME NEW from, NEW p, NEW i, NEW e, NEW h
  PROVE  ByKind(from, p, i, e, h)
<1>1. CASE p[i].op \in {"End", "EndNot"}
  BY <1>1 DEF ByKind, Continued, Tests
<1>2. CASE p[i].op \in Tests
  BY <1>2 DEF ByKind, Continued, Tests
<1>3. CASE p[i].op = "Search"
  BY <1>3 DEF ByKind, Continued, Tests, Branches
<1>4. CASE p[i].op = "Unpack"
  BY <1>4 DEF ByKind, Continued, Tests
<1>5. CASE p[i].op = "Calculation"
  BY <1>5 DEF ByKind, Continued, Tests
<1>6. CASE p[i].op = "BeginNot"
  BY <1>6 DEF ByKind, Continued, Tests
<1>7. CASE p[i].op \notin Tests \cup {"End", "EndNot", "Search", "Unpack", "Calculation", "BeginNot"}
  BY <1>7 DEF ByKind, Tests
<1> QED BY <1>1, <1>2, <1>3, <1>4, <1>5, <1>6, <1>7

\* The kinds of operations, and where they can go on.
LEMMA KindsOfOps ==
  ASSUME NEW p, IsProgram(p), NEW i \in DOMAIN p
  PROVE  /\ \/ p[i].op \in {"End", "EndNot"}
            \/ p[i].op \in Tests
            \/ p[i].op \in {"Search", "Unpack", "Calculation", "BeginNot"}
         /\ p[i].op # "End" => i + 1 \in i + 1 .. Len(p)
         /\ p[i].op = "BeginNot" => EndOf(p, i) + 1 \in i + 1 .. Len(p)
<1>1. Typed(p[i])
  BY ListShape DEF WellFormed
<1>2. p[i].op # "End" => i + 1 \in i + 1 .. Len(p)
  BY ListShape, NextPosition
<1>3. ASSUME p[i].op = "BeginNot"
      PROVE  EndOf(p, i) + 1 \in i + 1 .. Len(p)
  <2>1. IsBegin(p, i) /\ p[i].sequence_len \in Nat
    BY <1>3, ListShape DEF IsBegin, WellFormed, ScopeEnds
  <2>2. EndOf(p, i) + 1 \in DOMAIN p
    BY <2>1, AfterScope DEF EndOf
  <2> QED BY <2>1, <2>2, ListShape DEF EndOf
<1> QED BY <1>1, <1>2, <1>3 DEF Typed, Kinds

\* What an operation finds depends on the later ones only.
LEMMA LaterOnly ==
  ASSUME NEW p, IsProgram(p), NEW i \in DOMAIN p, NEW f, NEW g, NEW e, NEW h,
         \A j \in i + 1 .. Len(p) : f[j] = g[j]
  PROVE  Continued(f, p, i, e, h) = Continued(g, p, i, e, h)
<1>1. p[i].op # "End" => f[i + 1] = g[i + 1]
  BY KindsOfOps
<1>2. p[i].op = "BeginNot" => f[EndOf(p, i) + 1] = g[EndOf(p, i) + 1]
  BY KindsOfOps
<1>3. ByKind(f, p, i, e, h) /\ ByKind(g, p, i, e, h)
  BY Finds, Zenon
<1>4. CASE p[i].op \in {"End", "EndNot"}
  BY <1>4, <1>3 DEF ByKind
<1>5. CASE p[i].op \in Tests
  BY <1>1, <1>5, <1>3 DEF ByKind
<1>6. CASE p[i].op = "Search"
  BY <1>1, <1>6, <1>3 DEF ByKind
<1>7. CASE p[i].op = "Unpack"
  BY <1>1, <1>7, <1>3 DEF ByKind
<1>8. CASE p[i].op = "Calculation"
  BY <1>1, <1>8, <1>3 DEF ByKind
<1>9. CASE p[i].op = "BeginNot"
  BY <1>1, <1>2, <1>9, <1>3 DEF ByKind
<1> QED BY <1>4, <1>5, <1>6, <1>7, <1>8, <1>9, KindsOfOps

\* The definition is well-founded: what is found from any operation on is what
\* that operation makes of what is found from later ones.
LEMMA SomeSolutions ==
  ASSUME NEW p, IsProgram(p), NEW h
  PROVE  \E g : g = [i \in DOMAIN p |-> [e \in Envs |-> Continued(g, p, i, e, h)]]
<1> DEFINE n == Len(p)
           Holds(g, i) == g[i] = [e \in Envs |-> Continued(g, p, i, e, h)]
           T == {k \in 0 .. n : \E g : g = [i \in 1 .. n |-> g[i]] /\ \A i \in k + 1 .. n : Holds(g, i)}
<1>1. n \in Nat /\ DOMAIN p = 1 .. n
  BY ListShape
<1>2. n \in T
  <2> DEFINE g == [i \in 1 .. n |-> <<>>]
  <2>1. g = [i \in 1 .. n |-> g[i]] /\ n \in 0 .. n /\ n + 1 .. n = {}
    BY <1>1
  <2> QED BY <2>1
<1>3. ASSUME NEW k \in 1 .. n, k \in T
      PROVE  k - 1 \in T
  <2>1. PICK g : g = [i \in 1 .. n |-> g[i]] /\ \A i \in k + 1 .. n : Holds(g, i)
    BY <1>3
  <2> DEFINE f == [i \in 1 .. n |-> IF i = k THEN [e \in Envs |-> Continued(g, p, k, e, h)] ELSE g[i]]
  <2>2. f = [i \in 1 .. n |-> f[i]] /\ k - 1 \in 0 .. n
    BY <1>1
  <2>3. \A i \in 1 .. n : i # k => f[i] = g[i]
    OBVIOUS
  <2>4. f[k] = [e \in Envs |-> Continued(g, p, k, e, h)]
    OBVIOUS
  <2> HIDE DEF f
  <2>5. ASSUME NEW i \in (k - 1) + 1 .. n
        PROVE  Holds(f, i)
    <3>1. i \in DOMAIN p /\ i \in 1 .. n /\ \A j \in i + 1 .. n : j # k /\ j \in 1 .. n
      BY <1>1
    <3>2. \A j \in i + 1 .. Len(p) : f[j] = g[j]
      BY <2>3, <3>1
    <3>3. \A e : Continued(f, p, i, e, h) = Continued(g, p, i, e, h)
      <4> SUFFICES ASSUME NEW e PROVE Continued(f, p, i, e, h) = Continued(g, p, i, e, h)
        OBVIOUS
      <4> QED BY <3>1, <3>2, LaterOnly
    <3>4. f[i] = [e \in Envs |-> Continued(g, p, i, e, h)]
      <4>1. CASE i = k
        BY <2>4, <4>1
      <4>2. CASE i # k
        <5>1. i \in k + 1 .. n
          BY <1>1, <4>2
        <5> QED BY <2>1, <2>3, <3>1, <4>2, <5>1
      <4> QED BY <4>1, <4>2
    <3> QED BY <3>3, <3>4
  <2> HIDE DEF Holds
  <2> QED BY <2>2, <2>5
<1>4. 0 \in T
  <2>1. 0 \in 0 .. n
    BY <1>1
  <2>2. \A k \in 1 .. n : k \in T => k - 1 \in T
    <3> HIDE DEF T
    <3> QED BY <1>3
  <2> HIDE DEF T, n
  <2>3. \A k \in 0 .. n : k \in T
    BY <1>1, <1>2, <2>2, Downward, Zenon
  <2> QED BY <2>1, <2>3
<1>5. PICK g : g = [i \in 1 .. n |-> g[i]] /\ \A i \in 0 + 1 .. n : Holds(g, i)
  BY <1>4
<1>6. g = [i \in 1 .. n |-> g[i]]
  BY <1>5
<1>7. \A i \in 1 .. n : Holds(g, i)
  BY <1>1, <1>5
<1>8. g = [i \in DOMAIN p |-> [e \in Envs |-> Continued(g, p, i, e, h)]]
  <2>1. g = [i \in 1 .. n |-> [e \in Envs |-> Continued(g, p, i, e, h)]]
    BY ONLY <1>6, <1>7
  <2> QED BY <1>1, <2>1
<1> QED BY <1>8

LEMMA SolutionsEquation ==
  ASSUME NEW p, IsProgram(p), NEW h
  PROVE  /\ DOMAIN SolutionsFrom(p, h) = DOMAIN p
         /\ \A i \in DOMAIN p : \A e \in Envs :
              SolutionsFrom(p, h)[i][e] = Continued(SolutionsFrom(p, h), p, i, e, h)
<1> DEFINE F == CHOOSE g : g = [i \in DOMAIN p |-> [e \in Envs |-> Continued(g, p, i, e, h)]]
<1>1. F = [i \in DOMAIN p |-> [e \in Envs |-> Continued(F, p, i, e, h)]]
  BY SomeSolutions
<1>2. SolutionsFrom(p, h) = F
  BY DEF SolutionsFrom, Envs
<1> HIDE DEF F
<1>3. DOMAIN F = DOMAIN p /\ \A i \in DOMAIN p : F[i] = [e \in Envs |-> Continued(F, p, i, e, h)]
  BY ONLY <1>1
<1>4. \A i \in DOMAIN p : \A e \in Envs : F[i][e] = Continued(F, p, i, e, h)
  BY ONLY <1>3
<1> QED BY <1>2, <1>3, <1>4

\* A value list is gone through from the left.
LEMMA BranchesFromLeft ==
  ASSUME NEW later, \A x \in Envs : later[x] \in Seq(Envs),
         NEW binding \in Binding, NEW rest \in Seq(Value), NEW e \in Envs
  PROVE  /\ Branches(later, binding, rest, e) \in Seq(Envs)
         /\ rest = <<>> => Branches(later, binding, rest, e) = <<>>
         /\ rest # <<>> =>
              Branches(later, binding, rest, e) =
                later[[e EXCEPT ![binding] = Head(rest)]] \o Branches(later, binding, Tail(rest), e)
<1> DEFINE Lists(s) == [k \in DOMAIN s |-> later[[e EXCEPT ![binding] = s[k]]]]
<1>1. ASSUME NEW s \in Seq(Value)
      PROVE  /\ Lists(s) \in Seq(Seq(Envs)) /\ Len(Lists(s)) = Len(s)
             /\ \A k \in 1 .. Len(s) : Lists(s)[k] = later[[e EXCEPT ![binding] = s[k]]]
  <2>1. Len(s) \in Nat /\ DOMAIN s = 1 .. Len(s) /\ \A k \in 1 .. Len(s) : s[k] \in Value
    BY LenProperties, ElementOfSeq
  <2>2. \A k \in 1 .. Len(s) : [e EXCEPT ![binding] = s[k]] \in Envs
    BY <2>1 DEF Envs
  <2>3. \A k \in 1 .. Len(s) : later[[e EXCEPT ![binding] = s[k]]] \in Seq(Envs)
    BY <2>2
  <2>4. Lists(s) \in [1 .. Len(s) -> Seq(Envs)]
    BY <2>1, <2>3
  <2>5. Lists(s) \in Seq(Seq(Envs))
    BY <2>1, <2>4, SeqDef
  <2>6. Len(Lists(s)) = Len(s)
    BY <2>1, <2>4, <2>5, LenProperties
  <2> QED BY <2>1, <2>5, <2>6
<1>2. \A s : Branches(later, binding, s, e) = FlattenSeq(Lists(s))
  BY DEF Branches
<1> HIDE DEF Lists
<1>3. Lists(rest) \in Seq(Seq(Envs))
  BY <1>1
<1>4. /\ FlattenSeq(Lists(rest)) \in Seq(Envs)
      /\ FlattenSeq(Lists(rest)) =
           IF Lists(rest) = <<>> THEN <<>> ELSE Head(Lists(rest)) \o FlattenSeq(Tail(Lists(rest)))
  BY <1>3, FlattenFromLeft
<1>5. ASSUME rest = <<>>
      PROVE  Lists(rest) = <<>>
  BY <1>1, <1>3, <1>5, EmptySeq
<1>6. ASSUME rest # <<>>
      PROVE  /\ Lists(rest) # <<>> /\ Head(Lists(rest)) = later[[e EXCEPT ![binding] = Head(rest)]]
             /\ Tail(Lists(rest)) = Lists(Tail(rest))
  <2>1. /\ Len(rest) \in Nat \ {0} /\ Len(Lists(rest)) = Len(rest)
        /\ Tail(rest) \in Seq(Value) /\ Len(Tail(rest)) = Len(rest) - 1 /\ Head(rest) = rest[1]
        /\ \A k \in 1 .. Len(rest) - 1 : Tail(rest)[k] = rest[k + 1]
    BY <1>1, <1>6, EmptySeq, HeadTailProperties, LenProperties
  <2>2. Lists(rest) # <<>>
    BY <2>1, EmptySeq
  <2>3. /\ Head(Lists(rest)) = Lists(rest)[1] /\ Tail(Lists(rest)) \in Seq(Seq(Envs))
        /\ Len(Tail(Lists(rest))) = Len(rest) - 1
        /\ \A k \in 1 .. Len(rest) - 1 : Tail(Lists(rest))[k] = Lists(rest)[k + 1]
    BY <1>3, <2>1, <2>2, HeadTailProperties
  <2>4. Lists(rest)[1] = later[[e EXCEPT ![binding] = rest[1]]]
    <3>1. 1 \in 1 .. Len(rest)
      BY <2>1
    <3> QED BY <1>1, <3>1
  <2>5. ASSUME NEW k \in 1 .. Len(rest) - 1
        PROVE  Tail(Lists(rest))[k] = Lists(Tail(rest))[k]
    <3>1. k + 1 \in 1 .. Len(rest) /\ k \in 1 .. Len(Tail(rest))
      BY <2>1
    <3>2. Lists(rest)[k + 1] = later[[e EXCEPT ![binding] = rest[k + 1]]]
      BY <1>1, <3>1
    <3>3. Lists(Tail(rest))[k] = later[[e EXCEPT ![binding] = Tail(rest)[k]]]
      BY <1>1, <2>1, <3>1
    <3> QED BY <2>1, <2>3, <3>2, <3>3
  <2>6. Lists(Tail(rest)) \in Seq(Seq(Envs)) /\ Len(Lists(Tail(rest))) = Len(rest) - 1
    BY <1>1, <2>1
  <2>7. Tail(Lists(rest)) = Lists(Tail(rest))
    BY <2>3, <2>5, <2>6, SeqEqual
  <2> QED BY <2>1, <2>2, <2>3, <2>4, <2>7
<1> QED BY <1>2, <1>4, <1>5, <1>6

\* What is found are environments.
LEMMA SolutionsType ==
  ASSUME NEW p, IsProgram(p), NEW h, IsHeap(h)
  PROVE  \A i \in DOMAIN p : \A e \in Envs : SolutionsFrom(p, h)[i][e] \in Seq(Envs)
<1> DEFINE F == SolutionsFrom(p, h)
           n == Len(p)
           T == {k \in 0 .. n : \A i \in k + 1 .. n : \A e \in Envs : F[i][e] \in Seq(Envs)}
<1>1. n \in Nat /\ DOMAIN p = 1 .. n
  BY ListShape
<1>2. n \in T
  BY <1>1
<1>3. ASSUME NEW k \in 1 .. n, \A i \in k + 1 .. n : \A e \in Envs : F[i][e] \in Seq(Envs), NEW e \in Envs
      PROVE  F[k][e] \in Seq(Envs)
  <2>1. /\ p[k].op # "End" => \A x \in Envs : F[k + 1][x] \in Seq(Envs)
        /\ p[k].op = "BeginNot" => \A x \in Envs : F[EndOf(p, k) + 1][x] \in Seq(Envs)
    BY <1>1, <1>3, KindsOfOps
  <2>2. F[k][e] = Continued(F, p, k, e, h)
    BY <1>1, SolutionsEquation
  <2>3. ByKind(F, p, k, e, h)
    BY Finds
  <2>4. Typed(p[k])
    BY <1>1, ListShape DEF WellFormed
  <2>5. <<e>> \in Seq(Envs) /\ <<>> \in Seq(Envs)
    BY EmptySeq
  <2> HIDE DEF F
  <2>6. CASE p[k].op \in {"End", "EndNot"}
    BY <2>2, <2>3, <2>5, <2>6 DEF ByKind
  <2>7. CASE p[k].op \in Tests
    BY <2>1, <2>2, <2>3, <2>5, <2>7 DEF ByKind, Tests
  <2>8. CASE p[k].op = "Search"
    <3>1. p[k].value_binding \in Binding /\ p[k].attribute \in Attribute
      BY <2>4, <2>8 DEF Typed, Writes
    <3>2. ValuesOf(h, e[p[k].binding], p[k].attribute) \in Seq(Value)
      BY <3>1, EmptySeq DEF ValuesOf, IsHeap
    <3>3. Branches(F[k + 1], p[k].value_binding, ValuesOf(h, e[p[k].binding], p[k].attribute), e) \in Seq(Envs)
      BY <2>1, <2>8, <3>1, <3>2, BranchesFromLeft
    <3> QED BY <2>2, <2>3, <2>8, <3>3 DEF ByKind
  <2>9. CASE p[k].op = "Unpack"
    <3>1. CanUnpack(p[k], e) => Unpacked(p[k], e).env \in Envs
      BY <2>4, <2>9, UnpackedType DEF Envs
    <3> QED BY <2>1, <2>2, <2>3, <2>5, <2>9, <3>1 DEF ByKind
  <2>10. CASE p[k].op = "Calculation"
    <3>1. Operands(p[k], e) \in DOMAIN p[k].results => p[k].results[Operands(p[k], e)] \in Value
      BY <2>4, <2>10 DEF Typed
    <3>2. Operands(p[k], e) \in DOMAIN p[k].results =>
            [e EXCEPT ![p[k].binding] = p[k].results[Operands(p[k], e)]] \in Envs
      BY <3>1 DEF Envs
    <3> QED BY <2>1, <2>2, <2>3, <2>5, <2>10, <3>2 DEF ByKind
  <2>11. CASE p[k].op = "BeginNot"
    BY <2>1, <2>2, <2>3, <2>5, <2>11 DEF ByKind
  <2> QED BY <1>1, <2>6, <2>7, <2>8, <2>9, <2>10, <2>11, KindsOfOps
<1>4. ASSUME NEW k \in 1 .. n, k \in T
      PROVE  k - 1 \in T
  <2>1. \A i \in k + 1 .. n : \A e \in Envs : F[i][e] \in Seq(Envs)
    BY <1>4
  <2>2. \A e \in Envs : F[k][e] \in Seq(Envs)
    BY <1>3, <2>1
  <2>3. \A i \in (k - 1) + 1 .. n : i = k \/ i \in k + 1 .. n
    BY <1>1
  <2>4. k - 1 \in 0 .. n
    BY <1>1
  <2> HIDE DEF F, n
  <2> QED BY <2>1, <2>2, <2>3, <2>4
<1>5. 0 \in T
  <2>1. 0 \in 0 .. n
    BY <1>1
  <2>2. \A k \in 1 .. n : k \in T => k - 1 \in T
    <3> HIDE DEF T
    <3> QED BY <1>4
  <2> HIDE DEF T, n
  <2>3. \A k \in 0 .. n : k \in T
    BY <1>1, <1>2, <2>2, Downward, Zenon
  <2> QED BY <2>1, <2>3
<1> QED BY <1>1, <1>5

-----------------------------------------------------------------------------
(* What is bound at the positions of a list.                               *)

Bound(p, i) == BoundAt(p, i, Inputs)

\* A scope, where it ends, and that no other has its index.
LEMMA ScopeShape ==
  ASSUME NEW p, IsProgram(p), NEW b \in DOMAIN p, IsBegin(p, b)
  PROVE  /\ b \in Nat /\ EndOf(p, b) \in DOMAIN p /\ EndOf(p, b) \in Nat /\ b < EndOf(p, b)
         /\ p[EndOf(p, b)].op = "EndNot"
         /\ \A c \in b + 1 .. EndOf(p, b) : IsBegin(p, c) => EndOf(p, c) < EndOf(p, b)
         /\ \A c \in DOMAIN p : IsBegin(p, c) /\ p[c].index = p[b].index => c = b
<1>1. ScopeEnds(p, b) /\ \A c \in DOMAIN p : IsBegin(p, c) /\ p[c].index = p[b].index => c = b
  BY ListShape DEF WellFormed
<1>2. b \in Nat /\ EndOf(p, b) \in Nat /\ EndOf(p, b) \in DOMAIN p /\ p[EndOf(p, b)].op = "EndNot"
  BY <1>1, ListShape DEF ScopeEnds
<1>3. b <= EndOf(p, b)
  BY <1>1, <1>2 DEF ScopeEnds, EndOf
<1>4. b # EndOf(p, b)
  BY <1>2 DEF IsBegin
<1> QED BY <1>1, <1>2, <1>3, <1>4 DEF ScopeEnds

\* Within a scope the search stays within it until its EndNot.
LEMMA StaysInScope ==
  ASSUME NEW p, IsProgram(p), NEW b \in DOMAIN p, IsBegin(p, b),
         NEW i \in DOMAIN p, i \in b + 1 .. EndOf(p, b)
  PROVE  /\ p[i].op # "EndNot" => i + 1 \in b + 1 .. EndOf(p, b)
         /\ IsBegin(p, i) => EndOf(p, i) + 1 \in b + 1 .. EndOf(p, b)
<1>1. i \in Nat /\ b \in Nat /\ EndOf(p, b) \in Nat /\ p[EndOf(p, b)].op = "EndNot"
  BY ScopeShape, ListShape
<1>2. ASSUME p[i].op # "EndNot"
      PROVE  i + 1 \in b + 1 .. EndOf(p, b)
  <2>1. i # EndOf(p, b)
    BY <1>1, <1>2
  <2> QED BY <1>1, <2>1
<1>3. ASSUME IsBegin(p, i)
      PROVE  EndOf(p, i) + 1 \in b + 1 .. EndOf(p, b)
  <2>1. EndOf(p, i) \in Nat /\ i < EndOf(p, i)
    BY <1>3, ScopeShape
  <2>2. EndOf(p, i) < EndOf(p, b)
    BY <1>3, ScopeShape
  <2> QED BY <1>1, <2>1, <2>2
<1> QED BY <1>2, <1>3

\* An operation that ends no scope leaves bound what is bound, and binds what
\* it writes.
LEMMA BoundNext ==
  ASSUME NEW p, IsProgram(p), NEW before, NEW i \in DOMAIN p, p[i].op \notin {"End", "EndNot"}
  PROVE  /\ BoundAt(p, i, before) \subseteq BoundAt(p, i + 1, before)
         /\ BoundAt(p, i + 1, before) \subseteq BoundAt(p, i, before) \cup Writes(p[i])
<1>1. i \in Nat /\ i \in 1 .. Len(p) /\ Len(p) \in Nat /\ DOMAIN p = 1 .. Len(p)
  BY ListShape
<1>2. Scopes(p, i) \subseteq Scopes(p, i + 1)
  <2>1. ASSUME NEW b \in 1 .. i - 1, IsBegin(p, b), i <= EndOf(p, b)
        PROVE  p[b].index \in Scopes(p, i + 1)
    <3>1. b \in DOMAIN p
      BY <2>1 DEF IsBegin
    <3>2. i \in b + 1 .. EndOf(p, b)
      BY <1>1, <2>1, <3>1, ScopeShape
    <3>3. i + 1 \in b + 1 .. EndOf(p, b)
      BY <2>1, <3>1, <3>2, StaysInScope
    <3>4. b \in 1 .. (i + 1) - 1 /\ i + 1 <= EndOf(p, b)
      BY <1>1, <2>1, <3>3
    <3> QED BY <2>1, <3>4 DEF Scopes
  <2> QED BY <2>1 DEF Scopes
<1>3. ASSUME NEW j \in 1 .. i - 1, Scopes(p, j) \subseteq Scopes(p, i + 1)
      PROVE  Scopes(p, j) \subseteq Scopes(p, i)
  <2>1. ASSUME NEW x \in Scopes(p, j), IsBegin(p, i), x = p[i].index
        PROVE  FALSE
    <3>1. PICK b \in 1 .. j - 1 : IsBegin(p, b) /\ p[b].index = x
      BY <2>1 DEF Scopes
    <3>2. b \in DOMAIN p
      BY <3>1 DEF IsBegin
    <3>3. b = i
      BY <2>1, <3>1, <3>2, ScopeShape
    <3> QED BY <1>1, <3>1, <3>3
  <2>2. Scopes(p, i + 1) \subseteq Scopes(p, i) \cup {p[b].index : b \in {c \in {i} : IsBegin(p, c)}}
    BY NextPosition
  <2> QED BY <1>3, <2>1, <2>2
<1>4. \A j \in 1 .. i - 1 : j \in 1 .. (i + 1) - 1
  BY <1>1
<1>5. \A j \in 1 .. (i + 1) - 1 : j = i \/ j \in 1 .. i - 1
  BY <1>1
<1>6. BoundAt(p, i, before) \subseteq BoundAt(p, i + 1, before)
  BY <1>2, <1>4 DEF BoundAt
<1>7. BoundAt(p, i + 1, before) \subseteq BoundAt(p, i, before) \cup Writes(p[i])
  BY <1>3, <1>5 DEF BoundAt
<1> QED BY <1>6, <1>7

\* After a scope the same is bound as before it.
LEMMA BoundAfter ==
  ASSUME NEW p, IsProgram(p), NEW before, NEW b \in DOMAIN p, IsBegin(p, b)
  PROVE  BoundAt(p, EndOf(p, b) + 1, before) = BoundAt(p, b, before)
<1> DEFINE e == EndOf(p, b)
<1>1. /\ b \in Nat /\ e \in Nat /\ b < e /\ e \in DOMAIN p
      /\ \A c \in DOMAIN p : IsBegin(p, c) /\ p[c].index = p[b].index => c = b
  BY ScopeShape
<1>2. Scopes(p, e + 1) \subseteq Scopes(p, b)
  BY AfterScope DEF EndOf
<1>3. Scopes(p, b) \subseteq Scopes(p, e + 1)
  <2>1. ASSUME NEW c \in 1 .. b - 1, IsBegin(p, c), b <= EndOf(p, c)
        PROVE  p[c].index \in Scopes(p, e + 1)
    <3>1. c \in DOMAIN p
      BY <2>1 DEF IsBegin
    <3>2. b \in c + 1 .. EndOf(p, c) /\ EndOf(p, c) \in Nat
      BY <1>1, <2>1, <3>1, ScopeShape
    <3>3. e < EndOf(p, c)
      BY <2>1, <3>1, <3>2, ScopeShape
    <3>4. c \in 1 .. (e + 1) - 1 /\ e + 1 <= EndOf(p, c)
      BY <1>1, <2>1, <3>2, <3>3
    <3> QED BY <2>1, <3>4 DEF Scopes
  <2> QED BY <2>1 DEF Scopes
<1>4. ASSUME NEW j \in b + 1 .. e, Scopes(p, j) \subseteq Scopes(p, b)
      PROVE  FALSE
  <2>1. b \in 1 .. j - 1 /\ j <= EndOf(p, b)
    BY <1>1, ListShape
  <2>2. p[b].index \in Scopes(p, b)
    BY <1>4, <2>1 DEF Scopes
  <2>3. PICK c \in 1 .. b - 1 : IsBegin(p, c) /\ p[c].index = p[b].index
    BY <2>2 DEF Scopes
  <2>4. c \in DOMAIN p
    BY <2>3 DEF IsBegin
  <2> QED BY <1>1, <2>3, <2>4
<1>5. Writes(p[b]) = {}
  BY DEF IsBegin, Writes
<1>6. \A j \in 1 .. (e + 1) - 1 : j \in 1 .. b - 1 \/ j = b \/ j \in b + 1 .. e
  BY <1>1
<1>7. \A j \in 1 .. b - 1 : j \in 1 .. (e + 1) - 1
  BY <1>1
<1>8. BoundAt(p, b, before) \subseteq BoundAt(p, e + 1, before)
  BY <1>3, <1>7 DEF BoundAt
<1>9. BoundAt(p, e + 1, before) \subseteq BoundAt(p, b, before)
  BY <1>2, <1>4, <1>5, <1>6 DEF BoundAt
<1> QED BY <1>8, <1>9

\* At the start the inputs are bound, at the end all the rule's variables, and
\* never a slot of the apply part.
LEMMA BoundEnds ==
  ASSUME NEW p \in Programs
  PROVE  /\ Bound(p, 1) = Inputs
         /\ Visible(p) \subseteq Bound(p, Len(p))
         /\ \A i \in DOMAIN p : Bound(p, i) \subseteq Binding /\ Bound(p, i) \cap Scratch = {}
<1>1. Len(p) \in Nat /\ DOMAIN p = 1 .. Len(p) /\ Len(p) # 0
  BY ProgramShape, FirstPosition
<1>2. Bound(p, 1) = Inputs
  <2>1. 1 .. 1 - 1 = {}
    OBVIOUS
  <2> QED BY <2>1 DEF Bound, BoundAt
<1>3. ASSUME NEW j \in DOMAIN p, Scopes(p, j) = {}
      PROVE  Writes(p[j]) \subseteq Bound(p, Len(p))
  <2>1. CASE j = Len(p)
    <3>1. p[j].op = "End"
      BY <2>1, ProgramShape DEF WellFormed
    <3> QED BY <3>1 DEF Writes
  <2>2. CASE j # Len(p)
    <3>1. j \in 1 .. Len(p) - 1
      BY <1>1, <2>2
    <3> QED BY <1>3, <3>1 DEF Bound, BoundAt
  <2> QED BY <2>1, <2>2
<1>4. Inputs \subseteq Bound(p, Len(p))
  BY DEF Bound, BoundAt
<1>5. ASSUME NEW i \in DOMAIN p
      PROVE  Bound(p, i) \subseteq Binding /\ Bound(p, i) \cap Scratch = {}
  <2>1. \A j \in 1 .. i - 1 : j \in DOMAIN p
    BY <1>1
  <2>2. \A j \in DOMAIN p : Writes(p[j]) \subseteq Binding /\ Writes(p[j]) \cap Scratch = {}
    BY ProgramShape DEF WellFormed, Typed
  <2>3. Inputs \subseteq Binding /\ Inputs \cap Scratch = {}
    BY InputsAssumption, ScratchAssumption
  <2> QED BY <2>1, <2>2, <2>3 DEF Bound, BoundAt
<1> QED BY <1>2, <1>3, <1>4, <1>5 DEF Visible

-----------------------------------------------------------------------------
(* An operation sees of an environment what it reads.                      *)

Alike(e, f, slots) == \A b \in slots : e[b] = f[b]

LEMMA OperandsAlike ==
  ASSUME NEW op, NEW e, NEW f, Alike(e, f, Range(op.operands))
  PROVE  Operands(op, e) = Operands(op, f)
<1>1. \A x \in DOMAIN op.operands : e[op.operands[x]] = f[op.operands[x]]
  BY DEF Alike, Range
<1> QED BY <1>1 DEF Operands

LEMMA TestsAlike ==
  ASSUME NEW op, op.op \in Tests, NEW e, NEW f, NEW h, Alike(e, f, Reads(op))
  PROVE  Passes(op, e, h) = Passes(op, f, h)
<1>1. CASE op.op \in {"AssertObject", "RequireValue", "Require", "CompareBinding"}
  <2>1. e[op.binding] = f[op.binding]
    BY <1>1 DEF Alike, Reads
  <2> QED BY <1>1, <2>1 DEF Passes
<1>2. CASE op.op = "RequireBinding"
  <2>1. e[op.binding] = f[op.binding] /\ e[op.value_binding] = f[op.value_binding]
    BY <1>2 DEF Alike, Reads
  <2> QED BY <1>2, <2>1 DEF Passes
<1>3. CASE op.op = "MatchEnum"
  <2>1. Reads(op) = {op.binding} \cup SlotsOf(op.options)
    BY <1>3 DEF Reads, Needs
  <2>2. e[op.binding] = f[op.binding]
    BY <2>1 DEF Alike
  <2>3. \A o \in op.options : Operand(o, e) = Operand(o, f)
    BY <2>1 DEF Alike, SlotsOf, Operand
  <2> QED BY <1>3, <2>2, <2>3 DEF Passes
<1>4. CASE op.op = "Compare"
  <2>1. Reads(op) = SlotsOf({op.left, op.right})
    BY <1>4 DEF Reads, Needs
  <2>2. Operand(op.left, e) = Operand(op.left, f) /\ Operand(op.right, e) = Operand(op.right, f)
    BY <2>1 DEF Alike, SlotsOf, Operand
  <2> QED BY <1>4, <2>2 DEF Passes
<1>5. CASE op.op = "CalculationCompare"
  <2>1. e[op.binding] = f[op.binding] /\ Alike(e, f, Range(op.operands))
    BY <1>5 DEF Alike, Reads
  <2>2. Operands(op, e) = Operands(op, f)
    BY <2>1, OperandsAlike
  <2> QED BY <1>5, <2>1, <2>2 DEF Passes
<1> QED BY <1>1, <1>2, <1>3, <1>4, <1>5 DEF Tests

\* A tuple is matched with what is read, and binds the same slots to the same
\* values.
LEMMA UnpackAlike ==
  ASSUME NEW op, op.op = "Unpack", Typed(op), NEW e \in Envs, NEW f \in Envs,
         Alike(e, f, Reads(op)), Reads(op) \subseteq Binding
  PROVE  /\ CanUnpack(op, e) = CanUnpack(op, f)
         /\ CanUnpack(op, e) =>
              /\ Unpacked(op, e).matched = Unpacked(op, f).matched
              /\ \A b \in Binding \ Writes(op) : Unpacked(op, e).env[b] = e[b]
              /\ Unpacked(op, e).matched => Alike(Unpacked(op, e).env, Unpacked(op, f).env, Writes(op))
<1> DEFINE items == tupleItems[e[op.binding]]
<1>1. e[op.binding] = f[op.binding]
  BY DEF Alike, Reads
<1>2. CanUnpack(op, e) = CanUnpack(op, f)
  BY <1>1 DEF CanUnpack
<1>3. SUFFICES ASSUME CanUnpack(op, e)
               PROVE  /\ Unpacked(op, e).matched = Unpacked(op, f).matched
                      /\ \A b \in Binding \ Writes(op) : Unpacked(op, e).env[b] = e[b]
                      /\ Unpacked(op, e).matched =>
                           Alike(Unpacked(op, e).env, Unpacked(op, f).env, Writes(op))
  BY <1>2
<1>4. /\ DOMAIN items = DOMAIN op.items /\ DOMAIN items = 1 .. Len(items) /\ Len(items) \in Nat
  BY <1>3, TupleAssumption, LenProperties DEF CanUnpack, Typed
<1>5. \A k \in DOMAIN op.items : \A b : Binds(op.items[k], b) => b \in Writes(op)
  BY DEF Writes, Binds, ToSet
<1>6. Writes(op) \subseteq Binding
  BY DEF Typed
<1> DEFINE BadIn(x) == {n \in DOMAIN items : ~ItemMatches(op.items[n], items[n], After(op, items, n - 1, x))}
           Some(n, b) == \E k \in DOMAIN items : k <= n /\ Binds(op.items[k], b)
           The(n, b) == items[CHOOSE k \in DOMAIN items : k <= n /\ Binds(op.items[k], b)]
<1>7. ASSUME NEW x, NEW n, NEW b \in Binding
      PROVE  After(op, items, n, x)[b] = IF Some(n, b) THEN The(n, b) ELSE x[b]
  BY DEF After
<1>8. /\ Unpacked(op, e).matched = (BadIn(e) = {}) /\ Unpacked(op, f).matched = (BadIn(f) = {})
      /\ \E n : Unpacked(op, e).env = After(op, items, n, e)
      /\ BadIn(e) = {} => Unpacked(op, e).env = After(op, items, Len(items), e)
      /\ BadIn(f) = {} => Unpacked(op, f).env = After(op, items, Len(items), f)
  BY <1>1 DEF Unpacked
<1> HIDE DEF The
<1>9. ASSUME NEW n \in DOMAIN items
      PROVE  ItemMatches(op.items[n], items[n], After(op, items, n - 1, e))
               = ItemMatches(op.items[n], items[n], After(op, items, n - 1, f))
  <2> DEFINE s == op.items[n].binding
             it == op.items[n]
  <2>1. CASE it.kind # "binding"
    BY <2>1 DEF ItemMatches
  <2>2. CASE it.kind = "binding"
    <3>1. CASE Some(n - 1, s)
      <4>1. s \in Binding
        BY <1>4, <1>5, <1>6, <3>1
      <4>2. After(op, items, n - 1, e)[s] = After(op, items, n - 1, f)[s]
        BY <1>7, <3>1, <4>1
      <4> QED BY <2>2, <4>2 DEF ItemMatches
    <3>2. CASE ~Some(n - 1, s)
      <4>1. \A k \in 1 .. n - 1 : k \in DOMAIN items /\ k <= n - 1
        BY <1>4
      <4>2. n \in Compares(op.items)
        BY <1>4, <2>2, <3>2, <4>1 DEF Compares
      <4>3. s \in Reads(op)
        BY <4>2 DEF Reads
      <4>4. After(op, items, n - 1, e)[s] = e[s] /\ After(op, items, n - 1, f)[s] = f[s]
        BY <1>7, <3>2, <4>3
      <4>5. e[s] = f[s]
        BY <4>3 DEF Alike
      <4> QED BY <2>2, <4>4, <4>5 DEF ItemMatches
    <3> QED BY <3>1, <3>2
  <2> QED BY <2>1, <2>2
<1>10. BadIn(e) = BadIn(f)
  BY <1>9
<1>11. \A b \in Binding \ Writes(op) : Unpacked(op, e).env[b] = e[b]
  <2>1. PICK n : Unpacked(op, e).env = After(op, items, n, e)
    BY <1>8
  <2>2. \A b \in Binding \ Writes(op) : ~Some(n, b)
    BY <1>4, <1>5
  <2> QED BY <1>7, <2>1, <2>2
<1>12. ASSUME BadIn(e) = {}, NEW b \in Writes(op)
       PROVE  Unpacked(op, e).env[b] = Unpacked(op, f).env[b]
  <2>1. Some(Len(items), b)
    <3>1. PICK it \in ToSet(op.items) : it.kind = "bind" /\ it.binding = b
      BY DEF Writes
    <3>2. PICK k \in DOMAIN op.items : op.items[k] = it
      BY <3>1 DEF ToSet
    <3> QED BY <1>4, <3>1, <3>2 DEF Binds
  <2>2. b \in Binding
    BY <1>6
  <2>3. After(op, items, Len(items), e)[b] = After(op, items, Len(items), f)[b]
    BY <1>7, <2>1, <2>2
  <2> QED BY <1>8, <1>10, <1>12, <2>3
<1> QED BY <1>8, <1>10, <1>11, <1>12 DEF Alike

-----------------------------------------------------------------------------
(* What is found depends on what is bound, and on nothing else.            *)

\* As many environments, pair by pair alike.
SameFor(s, t, slots) ==
  Len(s) = Len(t) /\ \A k \in 1 .. Len(s) : Alike(s[k], t[k], slots)

LEMMA SameForFewer ==
  ASSUME NEW s, NEW t, NEW more, NEW fewer, fewer \subseteq more, SameFor(s, t, more)
  PROVE  SameFor(s, t, fewer)
  BY DEF SameFor, Alike

LEMMA ConcatSame ==
  ASSUME NEW slots, NEW s \in Seq(Envs), NEW t \in Seq(Envs), NEW u \in Seq(Envs), NEW v \in Seq(Envs),
         SameFor(s, t, slots), SameFor(u, v, slots)
  PROVE  SameFor(s \o u, t \o v, slots)
<1> PICK m, n : m = Len(s) /\ n = Len(u)
  OBVIOUS
<1>1. /\ m \in Nat /\ n \in Nat /\ Len(t) = m /\ Len(v) = n
      /\ \A k \in 1 .. m : Alike(s[k], t[k], slots)
      /\ \A k \in 1 .. n : Alike(u[k], v[k], slots)
  BY LenProperties DEF SameFor
<1>2. /\ s \o u \in Seq(Envs) /\ Len(s \o u) = m + n
      /\ \A k \in 1 .. m + n : (s \o u)[k] = IF k <= m THEN s[k] ELSE u[k - m]
  BY <1>1, ConcatProperties
<1>3. /\ t \o v \in Seq(Envs) /\ Len(t \o v) = m + n
      /\ \A k \in 1 .. m + n : (t \o v)[k] = IF k <= m THEN t[k] ELSE v[k - m]
  <2>1. /\ t \o v \in Seq(Envs) /\ Len(t \o v) = Len(t) + Len(v)
        /\ \A k \in 1 .. Len(t) + Len(v) : (t \o v)[k] = IF k <= Len(t) THEN t[k] ELSE v[k - Len(t)]
    BY ConcatProperties
  <2> QED BY <1>1, <2>1
<1>4. ASSUME NEW k \in 1 .. m + n
      PROVE  Alike((s \o u)[k], (t \o v)[k], slots)
  <2>1. CASE k <= m
    <3>1. k \in 1 .. m
      BY <1>1, <2>1
    <3> QED BY <1>1, <1>2, <1>3, <2>1, <3>1
  <2>2. CASE ~(k <= m)
    <3>1. k - m \in 1 .. n
      BY <1>1, <2>2
    <3> QED BY <1>1, <1>2, <1>3, <2>2, <3>1
  <2> QED BY <2>1, <2>2
<1> QED BY <1>2, <1>3, <1>4 DEF SameFor

LEMMA BranchesAlike ==
  ASSUME NEW later, \A x \in Envs : later[x] \in Seq(Envs),
         NEW slot \in Binding, NEW e \in Envs, NEW f \in Envs, NEW slots,
         \A v \in Value : SameFor(later[[e EXCEPT ![slot] = v]], later[[f EXCEPT ![slot] = v]], slots),
         NEW rest \in Seq(Value)
  PROVE  SameFor(Branches(later, slot, rest, e), Branches(later, slot, rest, f), slots)
<1> DEFINE Same(s) == SameFor(Branches(later, slot, s, e), Branches(later, slot, s, f), slots)
           T == {n \in Nat : \A s \in Seq(Value) : Len(s) = n => Same(s)}
<1>1. 0 \in T
  <2>1. ASSUME NEW s \in Seq(Value), Len(s) = 0
        PROVE  Same(s)
    <3>1. s = <<>>
      BY <2>1, EmptySeq
    <3>2. Branches(later, slot, s, e) = <<>> /\ Branches(later, slot, s, f) = <<>>
      BY <3>1, BranchesFromLeft
    <3>3. 1 .. 0 = {} /\ Len(<<>>) = 0
      OBVIOUS
    <3> QED BY <3>2, <3>3 DEF SameFor
  <2> QED BY <2>1
<1>2. ASSUME NEW n \in Nat, n \in T
      PROVE  n + 1 \in T
  <2>1. ASSUME NEW s \in Seq(Value), Len(s) = n + 1
        PROVE  Same(s)
    <3>1. s # <<>>
      BY <2>1, EmptySeq
    <3>2. Head(s) \in Value /\ Tail(s) \in Seq(Value) /\ Len(Tail(s)) = n
      BY <2>1, <3>1, HeadTailProperties, ElementOfSeq
    <3>3. Same(Tail(s))
      BY <1>2, <3>2
    <3> PICK x, y : x = [e EXCEPT ![slot] = Head(s)] /\ y = [f EXCEPT ![slot] = Head(s)]
      OBVIOUS
    <3>4. x \in Envs /\ y \in Envs /\ SameFor(later[x], later[y], slots)
      BY <3>2 DEF Envs
    <3>5. /\ Branches(later, slot, Tail(s), e) \in Seq(Envs)
          /\ Branches(later, slot, Tail(s), f) \in Seq(Envs)
      BY <3>2, BranchesFromLeft
    <3>6. /\ Branches(later, slot, s, e) = later[x] \o Branches(later, slot, Tail(s), e)
          /\ Branches(later, slot, s, f) = later[y] \o Branches(later, slot, Tail(s), f)
      BY <3>1, BranchesFromLeft
    <3> QED BY <3>3, <3>4, <3>5, <3>6, ConcatSame
  <2> QED BY <2>1
<1>3. Len(rest) \in Nat
  BY LenProperties
<1>4. \A k \in 0 .. Len(rest) : k \in T
  <2> HIDE DEF T
  <2>1. \A k \in 0 .. Len(rest) - 1 : k \in T => k + 1 \in T
    BY <1>2, <1>3
  <2> QED BY <1>1, <1>3, <2>1, Upward, Zenon
<1>5. Len(rest) \in T
  <2> HIDE DEF T
  <2> QED BY <1>3, <1>4
<1> QED BY <1>5

\* What of the environments found from a position on shows: a negation only
\* whether there are any.
Shown(p, i, before) == IF Scopes(p, i) = {} THEN BoundAt(p, Len(p), before) ELSE {}

LEMMA ShownNext ==
  ASSUME NEW p, IsProgram(p), NEW i \in DOMAIN p, NEW before
  PROVE  /\ p[i].op \notin {"End", "BeginNot"} => Shown(p, i, before) \subseteq Shown(p, i + 1, before)
         /\ p[i].op = "BeginNot" => Shown(p, i, before) \subseteq Shown(p, EndOf(p, i) + 1, before)
         /\ p[i].op = "EndNot" => Shown(p, i, before) = {}
<1>1. ASSUME p[i].op \notin {"End", "BeginNot"}
      PROVE  Scopes(p, i + 1) \subseteq Scopes(p, i)
  BY <1>1, NextPosition DEF IsBegin
<1>2. ASSUME p[i].op = "BeginNot"
      PROVE  Scopes(p, EndOf(p, i) + 1) \subseteq Scopes(p, i)
  BY <1>2, AfterScope DEF IsBegin, EndOf
<1>3. p[i].op = "EndNot" => Scopes(p, i) # {}
  BY EndInScope
<1> QED BY <1>1, <1>2, <1>3 DEF Shown

\* Environments that agree on what is bound at a position are continued to the
\* same solutions, one by one.
LEMMA SolutionsAlike ==
  ASSUME NEW p, IsProgram(p), NEW h, IsHeap(h), NEW before, before \subseteq Binding,
         BindsFirst(p, before)
  PROVE  \A i \in DOMAIN p : \A e, f \in Envs :
           Alike(e, f, BoundAt(p, i, before)) =>
             SameFor(SolutionsFrom(p, h)[i][e], SolutionsFrom(p, h)[i][f], Shown(p, i, before))
<1> DEFINE F == SolutionsFrom(p, h)
           n == Len(p)
           Good(i) == \A e, f \in Envs :
                        Alike(e, f, BoundAt(p, i, before)) => SameFor(F[i][e], F[i][f], Shown(p, i, before))
           T == {k \in 0 .. n : \A i \in k + 1 .. n : Good(i)}
<1>1. n \in Nat /\ DOMAIN p = 1 .. n
  BY ListShape
<1>2. n \in T
  BY <1>1
<1>3. \A i \in DOMAIN p : \A e \in Envs : F[i][e] \in Seq(Envs) /\ F[i][e] = Continued(F, p, i, e, h)
  BY SolutionsType, SolutionsEquation
<1> HIDE DEF F
<1>4. ASSUME NEW k \in 1 .. n, \A i \in k + 1 .. n : Good(i),
             NEW e \in Envs, NEW f \in Envs, Alike(e, f, BoundAt(p, k, before))
      PROVE  SameFor(F[k][e], F[k][f], Shown(p, k, before))
  <2>1. k \in DOMAIN p /\ Typed(p[k])
    BY <1>1, ListShape DEF WellFormed
  <2>2. /\ F[k][e] = Continued(F, p, k, e, h) /\ ByKind(F, p, k, e, h)
        /\ F[k][f] = Continued(F, p, k, f, h) /\ ByKind(F, p, k, f, h)
    BY <1>3, <2>1, Finds
  <2>3. /\ p[k].op # "End" => k + 1 \in DOMAIN p /\ Good(k + 1)
        /\ p[k].op = "BeginNot" => EndOf(p, k) + 1 \in DOMAIN p /\ Good(EndOf(p, k) + 1)
    BY <1>1, <1>4, <2>1, KindsOfOps
  <2>4. Alike(e, f, Reads(p[k])) /\ Reads(p[k]) \subseteq BoundAt(p, k, before)
    BY <1>4, <2>1 DEF BindsFirst, Alike
  <2>5. BoundAt(p, k, before) \subseteq Binding
    <3>1. \A j \in 1 .. k - 1 : j \in DOMAIN p
      BY <1>1
    <3>2. \A j \in DOMAIN p : Writes(p[j]) \subseteq Binding
      BY ListShape DEF WellFormed, Typed
    <3> QED BY <3>1, <3>2 DEF BoundAt
  <2>6. p[k].op \notin {"End", "EndNot"} =>
          BoundAt(p, k + 1, before) \subseteq BoundAt(p, k, before) \cup Writes(p[k])
    BY <2>1, BoundNext
  <2>7. ASSUME NEW x \in Envs, NEW y \in Envs, p[k].op \notin {"End", "EndNot", "BeginNot"},
               Alike(x, y, BoundAt(p, k, before) \cup Writes(p[k]))
        PROVE  SameFor(F[k + 1][x], F[k + 1][y], Shown(p, k, before))
    <3>1. Alike(x, y, BoundAt(p, k + 1, before))
      BY <2>6, <2>7 DEF Alike
    <3>2. SameFor(F[k + 1][x], F[k + 1][y], Shown(p, k + 1, before))
      BY <2>3, <2>7, <3>1
    <3> QED BY <2>1, <2>7, <3>2, ShownNext, SameForFewer
  <2>8. Len(<<>>) = 0 /\ 1 .. 0 = {} /\ SameFor(<<>>, <<>>, Shown(p, k, before))
    BY DEF SameFor
  <2> HIDE DEF Good
  <2>9. CASE p[k].op \in {"End", "EndNot"}
    <3>1. Alike(e, f, Shown(p, k, before))
      <4>1. CASE p[k].op = "End"
        <5>1. k = Len(p)
          BY <2>1, <4>1, ListShape DEF WellFormed
        <5> QED BY <1>4, <5>1 DEF Shown, Alike
      <4>2. CASE p[k].op = "EndNot"
        <5>1. Shown(p, k, before) = {}
          BY <2>1, <4>2, ShownNext
        <5> QED BY <5>1 DEF Alike
      <4> QED BY <2>9, <4>1, <4>2
    <3>2. SameFor(<<e>>, <<f>>, Shown(p, k, before))
      BY <3>1 DEF SameFor
    <3> QED BY <2>2, <2>9, <3>2 DEF ByKind
  <2>10. CASE p[k].op \in Tests
    <3>1. Passes(p[k], e, h) = Passes(p[k], f, h)
      BY <2>4, <2>10, TestsAlike
    <3>2. Writes(p[k]) = {} /\ p[k].op \notin {"End", "EndNot", "BeginNot"}
      BY <2>10 DEF Writes, Tests
    <3>3. SameFor(F[k + 1][e], F[k + 1][f], Shown(p, k, before))
      BY <1>4, <2>7, <3>2
    <3> QED BY <2>2, <2>8, <2>10, <3>1, <3>3 DEF ByKind
  <2>11. CASE p[k].op = "Search"
    <3> PICK slot, values : slot = p[k].value_binding /\ values = ValuesOf(h, e[p[k].binding], p[k].attribute)
      OBVIOUS
    <3>1. e[p[k].binding] = f[p[k].binding]
      BY <2>4, <2>11 DEF Alike, Reads
    <3>2. slot \in Binding /\ Writes(p[k]) = {slot} /\ p[k].attribute \in Attribute
      BY <2>1, <2>11 DEF Typed, Writes
    <3>3. values \in Seq(Value)
      BY <3>2, EmptySeq DEF ValuesOf, IsHeap
    <3>4. ASSUME NEW v \in Value
          PROVE  SameFor(F[k + 1][[e EXCEPT ![slot] = v]], F[k + 1][[f EXCEPT ![slot] = v]], Shown(p, k, before))
      <4> PICK x, y : x = [e EXCEPT ![slot] = v] /\ y = [f EXCEPT ![slot] = v]
        OBVIOUS
      <4>1. /\ x \in Envs /\ y \in Envs
            /\ \A b \in Binding : /\ x[b] = IF b = slot THEN v ELSE e[b]
                                  /\ y[b] = IF b = slot THEN v ELSE f[b]
        BY <3>2 DEF Envs
      <4>2. Alike(x, y, BoundAt(p, k, before) \cup Writes(p[k]))
        BY <1>4, <2>5, <3>2, <4>1 DEF Alike
      <4> QED BY <2>7, <2>11, <4>1, <4>2
    <3>5. \A x \in Envs : F[k + 1][x] \in Seq(Envs)
      BY <1>3, <2>3, <2>11
    <3>6. SameFor(Branches(F[k + 1], slot, values, e), Branches(F[k + 1], slot, values, f), Shown(p, k, before))
      BY <3>2, <3>3, <3>4, <3>5, BranchesAlike
    <3> QED BY <2>2, <2>11, <3>1, <3>6 DEF ByKind
  <2>12. CASE p[k].op = "Unpack"
    <3>1. /\ CanUnpack(p[k], e) = CanUnpack(p[k], f)
          /\ CanUnpack(p[k], e) =>
               /\ Unpacked(p[k], e).matched = Unpacked(p[k], f).matched
               /\ \A b \in Binding \ Writes(p[k]) :
                    Unpacked(p[k], e).env[b] = e[b] /\ Unpacked(p[k], f).env[b] = f[b]
               /\ Unpacked(p[k], e).matched =>
                    Alike(Unpacked(p[k], e).env, Unpacked(p[k], f).env, Writes(p[k]))
      <4>1. Reads(p[k]) \subseteq Binding /\ Alike(f, e, Reads(p[k]))
        BY <2>4, <2>5 DEF Alike
      <4> QED BY <2>1, <2>4, <2>12, <4>1, UnpackAlike
    <3>2. CASE CanUnpack(p[k], e) /\ Unpacked(p[k], e).matched
      <4>1. Unpacked(p[k], e).env \in Envs /\ Unpacked(p[k], f).env \in Envs
        BY <2>1, <2>12, <3>1, <3>2, UnpackedType DEF Envs
      <4>2. Alike(Unpacked(p[k], e).env, Unpacked(p[k], f).env, BoundAt(p, k, before) \cup Writes(p[k]))
        BY <1>4, <2>5, <3>1, <3>2 DEF Alike
      <4>3. SameFor(F[k + 1][Unpacked(p[k], e).env], F[k + 1][Unpacked(p[k], f).env], Shown(p, k, before))
        BY <2>7, <2>12, <4>1, <4>2
      <4> QED BY <2>2, <2>12, <3>1, <3>2, <4>3 DEF ByKind
    <3>3. CASE ~(CanUnpack(p[k], e) /\ Unpacked(p[k], e).matched)
      BY <2>2, <2>8, <2>12, <3>1, <3>3 DEF ByKind
    <3> QED BY <3>2, <3>3
  <2>13. CASE p[k].op = "Calculation"
    <3> PICK slot, input : slot = p[k].binding /\ input = Operands(p[k], e)
      OBVIOUS
    <3>1. input = Operands(p[k], f)
      <4>1. Reads(p[k]) = Range(p[k].operands)
        BY <2>13 DEF Reads, Needs
      <4> QED BY <2>4, <4>1, OperandsAlike
    <3>2. slot \in Binding /\ Writes(p[k]) = {slot}
      BY <2>1, <2>13 DEF Typed, Writes
    <3>3. CASE input \in DOMAIN p[k].results
      <4> PICK v, x, y : /\ v = p[k].results[input]
                         /\ x = [e EXCEPT ![slot] = v] /\ y = [f EXCEPT ![slot] = v]
        OBVIOUS
      <4>1. v \in Value
        BY <2>1, <2>13, <3>3 DEF Typed
      <4>2. /\ x \in Envs /\ y \in Envs
            /\ \A b \in Binding : /\ x[b] = IF b = slot THEN v ELSE e[b]
                                  /\ y[b] = IF b = slot THEN v ELSE f[b]
        BY <3>2, <4>1 DEF Envs
      <4>3. Alike(x, y, BoundAt(p, k, before) \cup Writes(p[k]))
        BY <1>4, <2>5, <3>2, <4>2 DEF Alike
      <4>4. SameFor(F[k + 1][x], F[k + 1][y], Shown(p, k, before))
        BY <2>7, <2>13, <4>2, <4>3
      <4> QED BY <2>2, <2>13, <3>1, <3>3, <4>4 DEF ByKind
    <3>4. CASE input \notin DOMAIN p[k].results
      BY <2>2, <2>8, <2>13, <3>1, <3>4 DEF ByKind
    <3> QED BY <3>3, <3>4
  <2>14. CASE p[k].op = "BeginNot"
    <3>1. Alike(e, f, BoundAt(p, k + 1, before))
      <4>1. Writes(p[k]) = {}
        BY <2>14 DEF Writes
      <4> QED BY <1>4, <2>6, <2>14, <4>1 DEF Alike
    <3>2. SameFor(F[k + 1][e], F[k + 1][f], Shown(p, k + 1, before))
      BY <2>3, <2>14, <3>1 DEF Good
    <3>3. F[k + 1][e] = <<>> <=> F[k + 1][f] = <<>>
      <4>1. F[k + 1][e] \in Seq(Envs) /\ F[k + 1][f] \in Seq(Envs)
        BY <1>3, <2>3, <2>14
      <4> QED BY <3>2, <4>1, EmptySeq DEF SameFor
    <3>4. BoundAt(p, EndOf(p, k) + 1, before) = BoundAt(p, k, before)
      BY <2>1, <2>14, BoundAfter DEF IsBegin
    <3>5. SameFor(F[EndOf(p, k) + 1][e], F[EndOf(p, k) + 1][f], Shown(p, EndOf(p, k) + 1, before))
      BY <1>4, <2>3, <2>14, <3>4 DEF Good
    <3>6. SameFor(F[EndOf(p, k) + 1][e], F[EndOf(p, k) + 1][f], Shown(p, k, before))
      BY <2>1, <2>14, <3>5, ShownNext, SameForFewer
    <3> QED BY <2>2, <2>8, <2>14, <3>3, <3>6 DEF ByKind
  <2> QED BY <2>1, <2>9, <2>10, <2>11, <2>12, <2>13, <2>14, KindsOfOps
<1>5. ASSUME NEW k \in 1 .. n, k \in T
      PROVE  k - 1 \in T
  <2>1. \A i \in k + 1 .. n : Good(i)
    BY <1>5
  <2>2. Good(k)
    BY <1>4, <2>1
  <2>3. \A i \in (k - 1) + 1 .. n : i = k \/ i \in k + 1 .. n
    BY <1>1
  <2>4. k - 1 \in 0 .. n
    BY <1>1
  <2> HIDE DEF n, Good
  <2> QED BY <2>1, <2>2, <2>3, <2>4
<1>6. 0 \in T
  <2>1. 0 \in 0 .. n
    BY <1>1
  <2>2. \A k \in 1 .. n : k \in T => k - 1 \in T
    <3> HIDE DEF T
    <3> QED BY <1>5
  <2> HIDE DEF T, n
  <2>3. \A k \in 0 .. n : k \in T
    BY <1>1, <1>2, <2>2, Downward, Zenon
  <2> QED BY <2>1, <2>3
<1>7. \A i \in DOMAIN p : Good(i)
  BY <1>1, <1>6
<1> QED BY <1>7 DEF F

\* The environments that have the arguments where e has them.
WithInputsOf(e) == {x \in Envs : Alike(x, e, Inputs)}

LEMMA BranchesIn ==
  ASSUME NEW later, NEW S, NEW slot, NEW e, NEW rest \in Seq(Value),
         \A v \in Value : later[[e EXCEPT ![slot] = v]] \in Seq(S)
  PROVE  Branches(later, slot, rest, e) \in Seq(S)
<1> DEFINE lists == [k \in DOMAIN rest |-> later[[e EXCEPT ![slot] = rest[k]]]]
<1>1. Len(rest) \in Nat /\ DOMAIN rest = 1 .. Len(rest) /\ \A k \in 1 .. Len(rest) : rest[k] \in Value
  BY LenProperties, ElementOfSeq
<1>2. lists \in [1 .. Len(rest) -> Seq(S)]
  BY <1>1
<1>3. lists \in Seq(Seq(S))
  BY <1>1, <1>2, SeqDef
<1> HIDE DEF lists
<1>4. FlattenSeq(lists) \in Seq(S)
  BY <1>3, FlattenFromLeft
<1> QED BY <1>4 DEF Branches, lists

\* What is found has the arguments that were searched with.
LEMMA SolutionsKeepInputs ==
  ASSUME NEW p, IsProgram(p), NEW h, IsHeap(h)
  PROVE  \A i \in DOMAIN p : \A e \in Envs : SolutionsFrom(p, h)[i][e] \in Seq(WithInputsOf(e))
<1> DEFINE F == SolutionsFrom(p, h)
           n == Len(p)
           Good(i) == \A e \in Envs : F[i][e] \in Seq(WithInputsOf(e))
           T == {k \in 0 .. n : \A i \in k + 1 .. n : Good(i)}
<1>1. n \in Nat /\ DOMAIN p = 1 .. n
  BY ListShape
<1>2. n \in T
  BY <1>1
<1>3. ASSUME NEW k \in 1 .. n, \A i \in k + 1 .. n : Good(i), NEW e \in Envs
      PROVE  F[k][e] \in Seq(WithInputsOf(e))
  <2>1. k \in DOMAIN p /\ Typed(p[k]) /\ Writes(p[k]) \subseteq Binding \ Inputs
    BY <1>1, ListShape DEF WellFormed, Typed
  <2>2. F[k][e] = Continued(F, p, k, e, h) /\ ByKind(F, p, k, e, h)
    BY <2>1, SolutionsEquation, Finds
  <2> HIDE DEF F
  <2>3. /\ p[k].op # "End" => Good(k + 1)
        /\ p[k].op = "BeginNot" => Good(EndOf(p, k) + 1)
    BY <1>1, <1>3, <2>1, KindsOfOps
  <2>4. ASSUME NEW x \in Envs, Alike(x, e, Inputs), p[k].op # "End"
        PROVE  F[k + 1][x] \in Seq(WithInputsOf(e))
    <3>1. WithInputsOf(x) = WithInputsOf(e)
      BY <2>4 DEF WithInputsOf, Alike
    <3> QED BY <2>3, <2>4, <3>1
  <2>5. e \in WithInputsOf(e) /\ <<>> \in Seq(WithInputsOf(e)) /\ Alike(e, e, Inputs)
    BY EmptySeq DEF WithInputsOf, Alike
  <2>6. <<e>> \in Seq(WithInputsOf(e))
    BY <2>5
  <2>7. CASE p[k].op \in {"End", "EndNot"}
    BY <2>2, <2>6, <2>7 DEF ByKind
  <2>8. CASE p[k].op \in Tests
    <3>1. p[k].op # "End"
      BY <2>8 DEF Tests
    <3> QED BY <2>2, <2>4, <2>5, <2>8, <3>1 DEF ByKind
  <2>9. CASE p[k].op = "Search"
    <3> PICK slot, values : slot = p[k].value_binding /\ values = ValuesOf(h, e[p[k].binding], p[k].attribute)
      OBVIOUS
    <3>1. slot \in Binding \ Inputs /\ p[k].attribute \in Attribute
      BY <2>1, <2>9 DEF Typed, Writes
    <3>2. values \in Seq(Value)
      BY <3>1, EmptySeq DEF ValuesOf, IsHeap
    <3>3. ASSUME NEW v \in Value
          PROVE  F[k + 1][[e EXCEPT ![slot] = v]] \in Seq(WithInputsOf(e))
      <4>1. [e EXCEPT ![slot] = v] \in Envs /\ Alike([e EXCEPT ![slot] = v], e, Inputs)
        BY <3>1, InputsAssumption DEF Envs, Alike
      <4> QED BY <2>4, <2>9, <4>1
    <3>4. Branches(F[k + 1], slot, values, e) \in Seq(WithInputsOf(e))
      BY <3>2, <3>3, BranchesIn
    <3> QED BY <2>2, <2>9, <3>4 DEF ByKind
  <2>10. CASE p[k].op = "Unpack"
    <3>1. CanUnpack(p[k], e) => Unpacked(p[k], e).env \in Envs /\ Alike(Unpacked(p[k], e).env, e, Inputs)
      BY <2>1, <2>10, UnpackedType DEF Envs, Alike
    <3> QED BY <2>2, <2>4, <2>5, <2>10, <3>1 DEF ByKind
  <2>11. CASE p[k].op = "Calculation"
    <3> PICK slot, x : slot = p[k].binding /\ x = [e EXCEPT ![slot] = p[k].results[Operands(p[k], e)]]
      OBVIOUS
    <3>1. slot \in Binding \ Inputs
      BY <2>1, <2>11 DEF Writes
    <3>2. Operands(p[k], e) \in DOMAIN p[k].results => x \in Envs /\ Alike(x, e, Inputs)
      BY <2>1, <2>11, <3>1, InputsAssumption DEF Typed, Envs, Alike
    <3> QED BY <2>2, <2>4, <2>5, <2>11, <3>2 DEF ByKind
  <2>12. CASE p[k].op = "BeginNot"
    <3>1. F[k + 1][e] \in Seq(WithInputsOf(e)) /\ F[EndOf(p, k) + 1][e] \in Seq(WithInputsOf(e))
      BY <2>3, <2>12
    <3>2. F[k][e] = IF F[k + 1][e] = <<>> THEN F[EndOf(p, k) + 1][e] ELSE <<>>
      BY <2>2, <2>12 DEF ByKind
    <3> QED BY <2>5, <3>1, <3>2
  <2> QED BY <2>1, <2>7, <2>8, <2>9, <2>10, <2>11, <2>12, KindsOfOps
<1>4. ASSUME NEW k \in 1 .. n, k \in T
      PROVE  k - 1 \in T
  <2>1. \A i \in k + 1 .. n : Good(i)
    BY <1>4
  <2>2. Good(k)
    BY <1>3, <2>1
  <2>3. \A i \in (k - 1) + 1 .. n : i = k \/ i \in k + 1 .. n
    BY <1>1
  <2>4. k - 1 \in 0 .. n
    BY <1>1
  <2> HIDE DEF n, Good
  <2> QED BY <2>1, <2>2, <2>3, <2>4
<1>5. 0 \in T
  <2>1. 0 \in 0 .. n
    BY <1>1
  <2>2. \A k \in 1 .. n : k \in T => k - 1 \in T
    <3> HIDE DEF T
    <3> QED BY <1>4
  <2> HIDE DEF T, n
  <2>3. \A k \in 0 .. n : k \in T
    BY <1>1, <1>2, <2>2, Downward, Zenon
  <2> QED BY <2>1, <2>3
<1>6. \A i \in DOMAIN p : Good(i)
  BY <1>1, <1>5
<1> QED BY <1>6

\* What a list finds in a space: environments with the arguments in place, and
\* for environments that agree on what is bound before it, the same.
LEMMA FoundType ==
  ASSUME NEW p, IsProgram(p), NEW h, IsHeap(h), NEW e \in Envs
  PROVE  Solutions(p, e, h) \in Seq(WithInputsOf(e)) /\ Solutions(p, e, h) \in Seq(Envs)
<1>1. 1 \in DOMAIN p
  BY FirstPosition
<1> QED BY <1>1, SolutionsKeepInputs, SolutionsType DEF Solutions

LEMMA FoundAlike ==
  ASSUME NEW p, IsProgram(p), NEW h, IsHeap(h), NEW before, before \subseteq Binding,
         BindsFirst(p, before), NEW e \in Envs, NEW f \in Envs, Alike(e, f, before)
  PROVE  /\ SameFor(Solutions(p, e, h), Solutions(p, f, h), before)
         /\ before = Inputs => SameFor(Solutions(p, e, h), Solutions(p, f, h), Visible(p))
<1>1. 1 \in DOMAIN p /\ Scopes(p, 1) = {}
  BY FirstPosition
<1>2. BoundAt(p, 1, before) = before
  BY DEF BoundAt
<1>3. SameFor(Solutions(p, e, h), Solutions(p, f, h), BoundAt(p, Len(p), before))
  BY <1>1, <1>2, SolutionsAlike DEF Solutions, Shown
<1>4. before \subseteq BoundAt(p, Len(p), before)
  BY DEF BoundAt
<1>5. before = Inputs => Visible(p) \subseteq BoundAt(p, Len(p), before)
  <2>1. ASSUME NEW j \in DOMAIN p, Scopes(p, j) = {}
        PROVE  Writes(p[j]) \subseteq BoundAt(p, Len(p), before)
    <3>1. CASE j = Len(p)
      <4>1. p[j].op = "End"
        BY <3>1, ListShape DEF WellFormed
      <4> QED BY <4>1 DEF Writes
    <3>2. CASE j # Len(p)
      <4>1. j \in 1 .. Len(p) - 1
        BY <3>2, ListShape
      <4> QED BY <2>1, <4>1 DEF BoundAt
    <3> QED BY <3>1, <3>2
  <2> QED BY <1>4, <2>1 DEF Visible
<1> QED BY <1>3, <1>4, <1>5, SameForFewer

-----------------------------------------------------------------------------
(* What the search has still to find.  A search that began with something  *)
(* in every slot that is not bound would have an environment of its own at *)
(* the operation, and one at each operation that has left a frame: they    *)
(* agree with the bindings on what is bound there.  What is found from a   *)
(* frame down is what is found above it, and then what it sends back to.   *)

Results == SolutionsFrom(ops, heap)

\* The operation at i has left the frame.
LeftBy(frame, i) ==
  /\ i \in DOMAIN ops
  /\ frame.frame = "iter" =>
       /\ ops[i].op = "Search"
       /\ frame.next = i + 1
       /\ frame.binding = ops[i].value_binding
  /\ frame.frame = "not" =>
       /\ IsBegin(ops, i)
       /\ frame.next = EndOf(ops, i) + 1
       /\ frame.index = ops[i].index

\* Position i comes after those of the first n frames, in their scopes.
Under(at, n, i) ==
  \A j \in 1 .. n :
    /\ Bound(ops, at[j]) \subseteq Bound(ops, i)
    /\ frames[j].frame = "not" => i \in at[j] + 1 .. EndOf(ops, at[j])

Trail(at, envs) ==
  \A k \in DOMAIN frames :
    /\ LeftBy(frames[k], at[k])
    /\ envs[k] \in Envs
    /\ Alike(bindings, envs[k], Bound(ops, at[k]))
    /\ Under(at, k - 1, at[k])

Here(at, e) ==
  mode = "op" =>
    /\ e \in Envs
    /\ Alike(bindings, e, Bound(ops, pc))
    /\ Under(at, Len(frames), pc)

\* What is found from a frame down, when above it there is still this to find.
Beneath(frame, e, above) ==
  IF frame.frame = "iter"
    THEN above \o Branches(Results[frame.next], frame.binding, frame.rest, e)
    ELSE IF above = <<>> THEN Results[frame.next][e] ELSE <<>>

Ahead(left, envs, e) ==
  /\ \A k \in 0 .. Len(frames) : left[k] \in Seq(Envs)
  /\ left[Len(frames)] = IF mode = "op" THEN Results[pc][e] ELSE <<>>
  /\ \A k \in DOMAIN frames : left[k - 1] = Beneath(frames[k], envs[k], left[k])

Told(left, something) ==
  /\ found \in Seq(Envs)
  /\ mode = "false" => frames = <<>>
  /\ Expected(something) = Seen(found) \o Seen(left[0])

Follows(something, at, envs, e, left) ==
  /\ Trail(at, envs)
  /\ Here(at, e)
  /\ Ahead(left, envs, e)
  /\ Told(left, something)

Followed == \A something \in Value : \E at, envs, e, left : Follows(something, at, envs, e, left)

LEMMA ResultsFind ==
  ASSUME IInv, NEW i \in DOMAIN ops, NEW e \in Envs
  PROVE  /\ Results[i][e] \in Seq(Envs)
         /\ ByKind(Results, ops, i, e, heap)
         /\ Results[i][e] = Continued(Results, ops, i, e, heap)
<1>1. ops \in Programs /\ heap \in Heaps
  BY TakeApart
<1> QED BY <1>1, SolutionsType, ProgramShape, HeapGiven, SolutionsEquation, Finds DEF Results

\* What TakeApart says, for the proofs of this part.
LEMMA StateShape ==
  ASSUME IInv
  PROVE  /\ ops \in Programs /\ heap \in Heaps /\ bindings \in Envs /\ pc \in DOMAIN ops
         /\ Op = ops[pc] /\ Typed(Op)
         /\ Len(frames) \in Nat /\ DOMAIN frames = 1 .. Len(frames)
         /\ frames \in Seq(IterFrames \cup NotFrames)
         /\ \A k \in DOMAIN frames : frames[k] \in IterFrames \cup NotFrames /\ frames[k].frame \in {"iter", "not"}
<1>1. /\ FramesOK /\ ops \in Programs /\ heap \in Heaps /\ bindings \in [Binding -> Value]
      /\ pc \in DOMAIN ops /\ Typed(Op) /\ Op = ops[pc]
  BY TakeApart
<1> QED BY <1>1, LenProperties, ElementOfSeq DEF FramesOK, Envs, IterFrames, NotFrames

\* What the operation reads is bound, and what it writes is not.
LEMMA OpBinds ==
  ASSUME IInv
  PROVE  /\ Reads(Op) \subseteq Bound(ops, pc) /\ Writes(Op) \cap Bound(ops, pc) = {}
         /\ Bound(ops, pc) \subseteq Binding /\ Bound(ops, pc) \cap Scratch = {}
  BY StateShape, ProgramShape, BoundEnds DEF BindsFirst, Bound

\* Going on, the search stays in the scopes it is in.
LEMMA UnderNext ==
  ASSUME IInv, NEW at, NEW envs, Trail(at, envs), NEW n \in 0 .. Len(frames),
         NEW i \in DOMAIN ops, Under(at, n, i)
  PROVE  /\ ops[i].op \notin {"End", "EndNot"} => Under(at, n, i + 1)
         /\ IsBegin(ops, i) => Under(at, n, EndOf(ops, i) + 1)
<1>1. /\ ops \in Programs
      /\ \A j \in 1 .. n : j \in DOMAIN frames /\ LeftBy(frames[j], at[j])
  BY StateShape DEF Trail
<1>2. ASSUME NEW j \in 1 .. n
      PROVE  /\ at[j] \in DOMAIN ops /\ Bound(ops, at[j]) \subseteq Bound(ops, i)
             /\ frames[j].frame = "not" => IsBegin(ops, at[j]) /\ i \in at[j] + 1 .. EndOf(ops, at[j])
  BY <1>1 DEF LeftBy, Under
<1>3. ASSUME NEW j \in 1 .. n, ops[i].op \notin {"End", "EndNot"}
      PROVE  /\ Bound(ops, at[j]) \subseteq Bound(ops, i + 1)
             /\ frames[j].frame = "not" => i + 1 \in at[j] + 1 .. EndOf(ops, at[j])
  BY <1>1, <1>2, <1>3, BoundNext, ProgramShape, StaysInScope DEF Bound
<1>4. ASSUME NEW j \in 1 .. n, IsBegin(ops, i)
      PROVE  /\ Bound(ops, at[j]) \subseteq Bound(ops, EndOf(ops, i) + 1)
             /\ frames[j].frame = "not" => EndOf(ops, i) + 1 \in at[j] + 1 .. EndOf(ops, at[j])
  BY <1>1, <1>2, <1>4, BoundAfter, ProgramShape, StaysInScope DEF Bound
<1> QED BY <1>3, <1>4 DEF Under

\* What is expected does not change.
LEMMA SameExpected ==
  ASSUME Kept, UNCHANGED <<ops, heap>>, NEW something
  PROVE  Expected(something)' = Expected(something) /\ \A envs : Seen(envs)' = Seen(envs)
<1>1. [b \in Binding |-> IF b \in Inputs THEN bindings'[b] ELSE something]
        = [b \in Binding |-> IF b \in Inputs THEN bindings[b] ELSE something]
  BY DEF Kept
<1>2. \A envs : Seen(envs)' = Seen(envs)
  BY DEF Seen
<1> QED BY <1>1, <1>2 DEF Expected, Seen

LEMMA StillTold ==
  ASSUME Kept, UNCHANGED <<ops, heap, found>>, NEW something, NEW left, Told(left, something),
         NEW new, new[0] = left[0], mode' = "false" => frames' = <<>>
  PROVE  Told(new, something)'
<1>1. Expected(something)' = Expected(something)
  BY SameExpected
<1>2. Seen(found)' = Seen(found) /\ Seen(new[0])' = Seen(left[0])
  BY DEF Seen
<1>3. Envs' = Envs
  BY DEF Envs
<1> QED BY <1>1, <1>2, <1>3 DEF Told

\* Slots that no frame's operation had bound may change.
LEMMA TrailCarried ==
  ASSUME IInv, UNCHANGED <<ops, frames>>, NEW at, NEW envs, Trail(at, envs), NEW written,
         \A b \in Binding \ written : bindings'[b] = bindings[b],
         \A k \in DOMAIN frames : written \cap Bound(ops, at[k]) = {}
  PROVE  Trail(at, envs)'
<1>1. ASSUME NEW k \in DOMAIN frames
      PROVE  /\ LeftBy(frames[k], at[k])' /\ envs[k] \in Envs
             /\ Alike(bindings', envs[k], Bound(ops, at[k]))
             /\ Under(at, k - 1, at[k])'
  <2>1. LeftBy(frames[k], at[k]) /\ envs[k] \in Envs /\ Alike(bindings, envs[k], Bound(ops, at[k]))
        /\ Under(at, k - 1, at[k])
    BY DEF Trail
  <2>2. LeftBy(frames[k], at[k])' /\ Under(at, k - 1, at[k])'
    BY <2>1 DEF LeftBy, Under
  <2>3. Bound(ops, at[k]) \subseteq Binding
    BY <2>1, StateShape, BoundEnds DEF LeftBy
  <2>4. \A b \in Bound(ops, at[k]) : bindings'[b] = bindings[b]
    BY <2>3
  <2> QED BY <2>1, <2>2, <2>4 DEF Alike
<1> QED BY <1>1 DEF Trail, Envs

\* An operation that leaves the frames alone, and goes on or gives up.
LEMMA GoesOn ==
  ASSUME IInv, Kept, UNCHANGED <<ops, heap, frames, found>>, mode = "op",
         Op.op \notin {"End", "EndNot"}, bindings' \in Envs,
         \A b \in Binding \ Writes(Op) : bindings'[b] = bindings[b],
         NEW something, NEW at, NEW envs, NEW e, NEW left, Follows(something, at, envs, e, left),
         NEW d,
         \/ mode' = "branch" /\ Results[pc][e] = <<>>
         \/ NextOp /\ d \in Envs /\ Alike(bindings', d, Bound(ops, pc + 1)) /\ Results[pc][e] = Results[pc + 1][d]
  PROVE  Follows(something, at, envs, d, left)'
<1>1. /\ Trail(at, envs) /\ Under(at, Len(frames), pc) /\ e \in Envs
      /\ Ahead(left, envs, e) /\ Told(left, something)
  BY DEF Follows, Here
<1>2. Trail(at, envs)'
  <2>1. \A k \in DOMAIN frames : Writes(Op) \cap Bound(ops, at[k]) = {}
    BY <1>1, StateShape, OpBinds DEF Under
  <2> QED BY <1>1, <2>1, TrailCarried
<1>3. Here(at, d)'
  <2>1. CASE mode' = "branch"
    BY <2>1 DEF Here
  <2>2. CASE NextOp /\ d \in Envs /\ Alike(bindings', d, Bound(ops, pc + 1))
    <3>1. Under(at, Len(frames), pc + 1)
      BY <1>1, StateShape, UnderNext
    <3>2. pc' = pc + 1 /\ d \in Envs' /\ Len(frames') = Len(frames)
      BY <2>2 DEF NextOp, Envs
    <3>3. Under(at, Len(frames), pc)'
      BY <3>1, <3>2 DEF Under
    <3> QED BY <2>2, <3>2, <3>3 DEF Here
  <2> QED BY <2>1, <2>2
<1>4. Results' = Results /\ Envs' = Envs
  BY DEF Results, Envs
<1>5. Ahead(left, envs, d)'
  <2>1. \A k \in DOMAIN frames : Beneath(frames[k], envs[k], left[k])' = Beneath(frames[k], envs[k], left[k])
    BY <1>4 DEF Beneath
  <2>2. left[Len(frames)] = Results[pc][e]
    BY <1>1 DEF Ahead
  <2>3. left[Len(frames)] = IF mode' = "op" THEN Results[pc'][d] ELSE <<>>
    BY <2>2 DEF NextOp
  <2> QED BY <1>1, <1>4, <2>1, <2>3 DEF Ahead
<1>6. Told(left, something)'
  <2>1. mode' # "false"
    BY DEF NextOp
  <2> QED BY <1>1, <2>1, StillTold
<1> QED BY <1>2, <1>3, <1>5, <1>6 DEF Follows

LEMMA TestFollows ==
  ASSUME IInv, Test, Kept, UNCHANGED <<ops, heap>>, NEW something, NEW at, NEW envs, NEW e, NEW left,
         Follows(something, at, envs, e, left)
  PROVE  Follows(something, at, envs, e, left)'
<1>1. e \in Envs /\ Alike(bindings, e, Bound(ops, pc)) /\ mode = "op" /\ Op.op \in Tests
  BY DEF Follows, Here, Test
<1>2. Alike(bindings, e, Reads(Op))
  BY <1>1, OpBinds DEF Alike
<1>3. Passes(Op, bindings, heap) = Passes(Op, e, heap)
  BY <1>1, <1>2, TestsAlike
<1>4. Results[pc][e] = IF Passes(Op, e, heap) THEN Results[pc + 1][e] ELSE <<>>
  <2>1. /\ Results[pc][e] = Continued(Results, ops, pc, e, heap)
        /\ ByKind(Results, ops, pc, e, heap)
    BY <1>1, StateShape, ResultsFind
  <2>2. Op = ops[pc]
    BY StateShape
  <2> HIDE DEF Results
  <2> QED BY <1>1, <2>1, <2>2 DEF ByKind
<1>5. Op.op \notin {"End", "EndNot"} /\ Writes(Op) = {}
  BY <1>1 DEF Tests, Writes
<1>6. bindings' = bindings /\ bindings' \in Envs /\ UNCHANGED <<frames, found>>
  BY StateShape DEF Test
<1>7. CASE Passes(Op, bindings, heap)
  <2>1. NextOp
    BY <1>7 DEF Test
  <2>2. Bound(ops, pc + 1) \subseteq Bound(ops, pc)
    BY <1>5, StateShape, ProgramShape, BoundNext DEF Bound
  <2>3. Alike(bindings', e, Bound(ops, pc + 1))
    BY <1>1, <1>6, <2>2 DEF Alike
  <2> QED BY <1>1, <1>3, <1>4, <1>5, <1>6, <1>7, <2>1, <2>3, GoesOn
<1>8. CASE ~Passes(Op, bindings, heap)
  <2>1. mode' = "branch"
    BY <1>8 DEF Test, NextBranch
  <2> QED BY <1>1, <1>3, <1>4, <1>5, <1>6, <1>8, <2>1, GoesOn
<1> QED BY <1>7, <1>8

\* The operation the search is at, in the other environment.
LEMMA AtOp ==
  ASSUME IInv, mode = "op", NEW something, NEW at, NEW envs, NEW e, NEW left,
         Follows(something, at, envs, e, left)
  PROVE  /\ e \in Envs /\ Alike(bindings, e, Bound(ops, pc)) /\ Alike(bindings, e, Reads(Op))
         /\ Reads(Op) \subseteq Binding /\ Op = ops[pc]
         /\ Results[pc][e] = Continued(Results, ops, pc, e, heap)
         /\ ByKind(Results, ops, pc, e, heap)
         /\ Results[pc][e] \in Seq(Envs)
<1>1. e \in Envs /\ Alike(bindings, e, Bound(ops, pc))
  BY DEF Follows, Here
<1>2. Alike(bindings, e, Reads(Op)) /\ Reads(Op) \subseteq Binding
  BY <1>1, OpBinds DEF Alike
<1> QED BY <1>1, <1>2, StateShape, ResultsFind

LEMMA CalculationFollows ==
  ASSUME IInv, Calculation, Kept, bindings' \in Envs, UNCHANGED <<ops, heap>>, NEW something, NEW at, NEW envs, NEW e,
         NEW left, Follows(something, at, envs, e, left)
  PROVE  \E d : Follows(something, at, envs, d, left)'
<1> DEFINE v == Op.results[Operands(Op, e)]
           d == [e EXCEPT ![Op.binding] = v]
<1>1. mode = "op" /\ Op.op = "Calculation" /\ UNCHANGED <<frames, found>>
  BY DEF Calculation, At
<1>2. /\ e \in Envs /\ Alike(bindings, e, Bound(ops, pc)) /\ Alike(bindings, e, Reads(Op))
      /\ Op = ops[pc] /\ Results[pc][e] = Continued(Results, ops, pc, e, heap)
      /\ ByKind(Results, ops, pc, e, heap)
  BY <1>1, AtOp
<1>3. Operands(Op, bindings) = Operands(Op, e)
  <2>1. Reads(Op) = Range(Op.operands)
    BY <1>1 DEF Reads, Needs
  <2> QED BY <1>2, <2>1, OperandsAlike
<1> HIDE DEF Results
<1>4. Results[pc][e] = IF Operands(Op, e) \in DOMAIN Op.results THEN Results[pc + 1][d] ELSE <<>>
  BY <1>1, <1>2 DEF ByKind
<1>5. Writes(Op) = {Op.binding} /\ Op.binding \in Binding
  BY <1>1, StateShape DEF Writes, Typed
<1>6. CASE Operands(Op, bindings) \in DOMAIN Op.results
  <2>1. bindings' = [bindings EXCEPT ![Op.binding] = v] /\ NextOp
    BY <1>3, <1>6 DEF Calculation
  <2>2. v \in Value
    BY <1>1, <1>3, <1>6, StateShape DEF Typed
  <2>3. d \in Envs /\ bindings \in Envs
    BY <1>2, <2>2, StateShape DEF Envs
  <2>4. \A b \in Binding : /\ bindings'[b] = IF b = Op.binding THEN v ELSE bindings[b]
                           /\ d[b] = IF b = Op.binding THEN v ELSE e[b]
    BY <1>2, <1>5, <2>1, <2>3 DEF Envs
  <2>5. /\ Bound(ops, pc + 1) \subseteq Bound(ops, pc) \cup {Op.binding}
        /\ Bound(ops, pc) \subseteq Binding
    BY <1>1, <1>5, StateShape, ProgramShape, BoundNext, OpBinds DEF Bound
  <2> HIDE DEF d, v
  <2>6. Alike(bindings', d, Bound(ops, pc + 1))
    BY <1>2, <1>5, <2>4, <2>5 DEF Alike
  <2>7. \A b \in Binding \ Writes(Op) : bindings'[b] = bindings[b]
    BY <1>5, <2>4
  <2>8. Results[pc][e] = Results[pc + 1][d]
    BY <1>3, <1>4, <1>6
  <2> QED BY <1>1, <2>1, <2>3, <2>6, <2>7, <2>8, GoesOn
<1>7. CASE Operands(Op, bindings) \notin DOMAIN Op.results
  <2>1. mode' = "branch" /\ bindings' = bindings
    BY <1>7 DEF Calculation, NextBranch
  <2>2. Results[pc][e] = <<>>
    BY <1>3, <1>4, <1>7
  <2> QED BY <1>1, <2>1, <2>2, GoesOn
<1> QED BY <1>6, <1>7

LEMMA UnpackFollows ==
  ASSUME IInv, UnpackTuple, Kept, bindings' \in Envs, UNCHANGED <<ops, heap>>, NEW something, NEW at, NEW envs, NEW e,
         NEW left, Follows(something, at, envs, e, left)
  PROVE  \E d : Follows(something, at, envs, d, left)'
<1> DEFINE d == Unpacked(Op, e).env
           m == Unpacked(Op, e).matched
<1>1. mode = "op" /\ Op.op = "Unpack" /\ UNCHANGED <<frames, found>>
  BY DEF UnpackTuple, At
<1>2. /\ e \in Envs /\ Alike(bindings, e, Bound(ops, pc)) /\ Alike(bindings, e, Reads(Op))
      /\ Reads(Op) \subseteq Binding
      /\ Op = ops[pc] /\ Results[pc][e] = Continued(Results, ops, pc, e, heap)
      /\ ByKind(Results, ops, pc, e, heap) /\ Typed(Op) /\ bindings \in Envs
  BY <1>1, AtOp, StateShape
<1>3. Alike(e, bindings, Reads(Op))
  BY <1>2 DEF Alike
<1>4. /\ CanUnpack(Op, bindings) = CanUnpack(Op, e)
      /\ CanUnpack(Op, bindings) =>
           /\ Unpacked(Op, bindings).matched = m
           /\ \A b \in Binding \ Writes(Op) : Unpacked(Op, bindings).env[b] = bindings[b]
           /\ m => Alike(Unpacked(Op, bindings).env, d, Writes(Op))
  BY <1>1, <1>2, UnpackAlike
<1>5. CanUnpack(Op, e) => \A b \in Binding \ Writes(Op) : d[b] = e[b]
  BY <1>1, <1>2, <1>3, UnpackAlike
<1>6. CanUnpack(Op, e) => d \in Envs
  BY <1>1, <1>2, UnpackedType DEF Envs
<1> HIDE DEF Results, d, m
<1>7. Results[pc][e] = IF CanUnpack(Op, e) /\ m THEN Results[pc + 1][d] ELSE <<>>
  BY <1>1, <1>2 DEF ByKind, d, m
<1>8. CASE CanUnpack(Op, bindings)
  <2>1. bindings' = Unpacked(Op, bindings).env
    BY <1>8 DEF UnpackTuple
  <2>2. \A b \in Binding \ Writes(Op) : bindings'[b] = bindings[b]
    BY <1>4, <1>8, <2>1
  <2>3. CASE m
    <3>1. NextOp
      BY <1>4, <1>8, <2>3 DEF UnpackTuple
    <3>2. /\ Bound(ops, pc + 1) \subseteq Bound(ops, pc) \cup Writes(Op)
          /\ Bound(ops, pc) \subseteq Binding
      BY <1>1, <1>2, StateShape, ProgramShape, BoundNext, OpBinds DEF Bound
    <3>3. Alike(bindings', d, Writes(Op))
      BY <1>4, <1>8, <2>1, <2>3
    <3>4. Alike(bindings', d, Bound(ops, pc + 1))
      BY <1>2, <1>4, <1>5, <1>8, <2>2, <3>2, <3>3 DEF Alike
    <3>5. Results[pc][e] = Results[pc + 1][d]
      BY <1>4, <1>7, <1>8, <2>3
    <3> QED BY <1>1, <1>4, <1>6, <1>8, <2>2, <3>1, <3>4, <3>5, GoesOn
  <2>4. CASE ~m
    <3>1. mode' = "branch"
      BY <1>4, <1>8, <2>4 DEF UnpackTuple, NextBranch
    <3>2. Results[pc][e] = <<>>
      BY <1>7, <2>4
    <3> QED BY <1>1, <2>2, <3>1, <3>2, GoesOn
  <2> QED BY <2>3, <2>4
<1>9. CASE ~CanUnpack(Op, bindings)
  <2>1. mode' = "branch" /\ bindings' = bindings
    BY <1>9 DEF UnpackTuple, NextBranch
  <2>2. Results[pc][e] = <<>>
    BY <1>4, <1>7, <1>9
  <2> QED BY <1>1, <2>1, <2>2, GoesOn
<1> QED BY <1>8, <1>9

\* An operation that leaves a frame.
LEMMA Pushed ==
  ASSUME IInv, UNCHANGED <<ops, heap, bindings, found>>, mode = "op", mode' # "false",
         NEW f \in IterFrames \cup NotFrames, frames' = Append(frames, f), LeftBy(f, pc),
         NEW something, NEW at, NEW envs, NEW e, NEW left, Follows(something, at, envs, e, left),
         NEW c \in Seq(Envs), c = IF mode' = "op" THEN Results[pc'][e] ELSE <<>>,
         Beneath(f, e, c) = Results[pc][e],
         mode' = "op" => /\ Alike(bindings, e, Bound(ops, pc')) /\ Under(at, Len(frames), pc')
                         /\ Bound(ops, pc) \subseteq Bound(ops, pc')
                         /\ f.frame = "not" => pc' \in pc + 1 .. EndOf(ops, pc)
  PROVE  \E at2, envs2, left2 : Follows(something, at2, envs2, e, left2)'
<1>1. PICK n : n = Len(frames)
  OBVIOUS
<1>2. PICK at2 : at2 = [k \in 1 .. n + 1 |-> IF k = n + 1 THEN pc ELSE at[k]]
  OBVIOUS
<1>3. PICK envs2 : envs2 = [k \in 1 .. n + 1 |-> IF k = n + 1 THEN e ELSE envs[k]]
  OBVIOUS
<1>4. PICK left2 : left2 = [k \in 0 .. n + 1 |-> IF k = n + 1 THEN c ELSE left[k]]
  OBVIOUS
<1>5. /\ Trail(at, envs) /\ Ahead(left, envs, e) /\ Told(left, something)
      /\ e \in Envs /\ Alike(bindings, e, Bound(ops, pc)) /\ Under(at, n, pc)
  BY <1>1 DEF Follows, Here
<1>6. n \in Nat /\ DOMAIN frames = 1 .. n /\ pc \in DOMAIN ops
  BY <1>1, StateShape
<1>7. /\ Len(frames') = n + 1 /\ DOMAIN frames' = 1 .. n + 1 /\ frames'[n + 1] = f
      /\ \A k \in 1 .. n : frames'[k] = frames[k]
  BY <1>1, StateShape, AppendProperties, LenProperties
<1>8. /\ at2[n + 1] = pc /\ envs2[n + 1] = e /\ left2[n + 1] = c
      /\ \A k \in 1 .. n : at2[k] = at[k] /\ envs2[k] = envs[k]
      /\ \A k \in 0 .. n : left2[k] = left[k]
  BY <1>6, <1>2, <1>3, <1>4
<1>9. \A k \in 1 .. n + 1 : k = n + 1 \/ k \in 1 .. n
  BY <1>6
<1>10. Results' = Results /\ Envs' = Envs /\ \A i : Bound(ops, i)' = Bound(ops, i)
  BY DEF Results, Envs
<1>11. ASSUME NEW i, NEW k \in 0 .. n, Under(at, k, i)
      PROVE  \A j \in 1 .. k : /\ Bound(ops, at2[j]) \subseteq Bound(ops, i)
                               /\ frames'[j].frame = "not" => i \in at2[j] + 1 .. EndOf(ops, at2[j])
  <2>1. SUFFICES ASSUME NEW j \in 1 .. k
                 PROVE  /\ Bound(ops, at2[j]) \subseteq Bound(ops, i)
                        /\ frames'[j].frame = "not" => i \in at2[j] + 1 .. EndOf(ops, at2[j])
    OBVIOUS
  <2>2. j \in 1 .. n
    BY <1>6
  <2>3. frames'[j] = frames[j] /\ at2[j] = at[j]
    BY <1>7, <1>8, <2>2
  <2>4. /\ Bound(ops, at[j]) \subseteq Bound(ops, i)
        /\ frames[j].frame = "not" => i \in at[j] + 1 .. EndOf(ops, at[j])
    BY <1>11 DEF Under
  <2> QED BY <2>3, <2>4
<1>12. Trail(at2, envs2)'
  <2>1. ASSUME NEW k \in 1 .. n + 1
        PROVE  /\ LeftBy(frames'[k], at2[k]) /\ envs2[k] \in Envs
               /\ Alike(bindings, envs2[k], Bound(ops, at2[k]))
               /\ \A j \in 1 .. k - 1 :
                    /\ Bound(ops, at2[j]) \subseteq Bound(ops, at2[k])
                    /\ frames'[j].frame = "not" => at2[k] \in at2[j] + 1 .. EndOf(ops, at2[j])
    <3>1. CASE k = n + 1
      <4>1. \A j \in 1 .. n : /\ Bound(ops, at2[j]) \subseteq Bound(ops, pc)
                              /\ frames'[j].frame = "not" => pc \in at2[j] + 1 .. EndOf(ops, at2[j])
        <5>1. n \in 0 .. n
          BY <1>6
        <5> QED BY <1>5, <1>11, <5>1
      <4>2. k - 1 = n
        BY <1>6, <3>1
      <4> QED BY <1>5, <1>7, <1>8, <3>1, <4>1, <4>2
    <3>2. CASE k \in 1 .. n
      <4>1. /\ LeftBy(frames[k], at[k]) /\ envs[k] \in Envs /\ Under(at, k - 1, at[k])
            /\ Alike(bindings, envs[k], Bound(ops, at[k]))
        BY <1>5, <1>6, <3>2 DEF Trail
      <4>2. k - 1 \in 0 .. n
        BY <1>6, <3>2
      <4>3. frames'[k] = frames[k] /\ at2[k] = at[k] /\ envs2[k] = envs[k]
        BY <1>7, <1>8, <3>2
      <4> QED BY <1>11, <4>1, <4>2, <4>3
    <3> QED BY <1>9, <3>1, <3>2
  <2>2. \A k \in 1 .. n + 1 : LeftBy(frames[k], at2[k])' /\ Under(at2, k - 1, at2[k])'
    BY <2>1 DEF LeftBy, Under
  <2> QED BY <1>7, <1>10, <2>1, <2>2 DEF Trail
<1>13. Here(at2, e)'
  <2>1. ASSUME mode' = "op"
        PROVE  \A j \in 1 .. n + 1 : /\ Bound(ops, at2[j]) \subseteq Bound(ops, pc')
                                     /\ frames'[j].frame = "not" => pc' \in at2[j] + 1 .. EndOf(ops, at2[j])
    <3>1. n \in 0 .. n
      BY <1>6
    <3>2. \A j \in 1 .. n : /\ Bound(ops, at2[j]) \subseteq Bound(ops, pc')
                            /\ frames'[j].frame = "not" => pc' \in at2[j] + 1 .. EndOf(ops, at2[j])
      <4>1. Under(at, n, pc')
        BY <1>1, <2>1
      <4> QED BY <1>11, <3>1, <4>1
    <3> QED BY <1>7, <1>8, <1>9, <2>1, <3>2
  <2> QED BY <1>5, <1>7, <1>10, <2>1 DEF Here, Under
<1>14. Ahead(left2, envs2, e)'
  <2>1. \A k \in 1 .. n + 1 : Beneath(frames[k], envs2[k], left2[k])' = Beneath(frames'[k], envs2[k], left2[k])
    BY <1>10 DEF Beneath
  <2>2. \A k \in 0 .. n : left[k] \in Seq(Envs)
    BY <1>1, <1>5 DEF Ahead
  <2>3. \A k \in 0 .. n + 1 : left2[k] \in Seq(Envs)
    <3>1. \A k \in 0 .. n + 1 : k = n + 1 \/ k \in 0 .. n
      BY <1>6
    <3> QED BY <1>8, <2>2, <3>1
  <2>4. ASSUME NEW k \in 1 .. n + 1
        PROVE  left2[k - 1] = Beneath(frames'[k], envs2[k], left2[k])
    <3>1. CASE k = n + 1
      <4>1. left[n] = Results[pc][e]
        BY <1>1, <1>5 DEF Ahead
      <4>2. k - 1 = n /\ n \in 0 .. n
        BY <1>6, <3>1
      <4> QED BY <1>7, <1>8, <3>1, <4>1, <4>2
    <3>2. CASE k \in 1 .. n
      <4>1. left[k - 1] = Beneath(frames[k], envs[k], left[k])
        BY <1>5, <1>6, <3>2 DEF Ahead
      <4>2. k - 1 \in 0 .. n /\ k \in 0 .. n
        BY <1>6, <3>2
      <4> QED BY <1>7, <1>8, <3>2, <4>1, <4>2
    <3> QED BY <1>9, <3>1, <3>2
  <2> QED BY <1>7, <1>8, <1>10, <2>1, <2>3, <2>4 DEF Ahead
<1>15. Told(left2, something)'
  <2>1. Kept
    BY DEF Kept
  <2>2. left2[0] = left[0]
    BY <1>6, <1>8
  <2> QED BY <1>5, <2>1, <2>2, StillTold
<1> QED BY <1>12, <1>13, <1>14, <1>15 DEF Follows

LEMMA SearchFollows ==
  ASSUME IInv, SearchAttribute, Kept, UNCHANGED <<ops, heap>>, NEW something, NEW at, NEW envs, NEW e,
         NEW left, Follows(something, at, envs, e, left)
  PROVE  \E at2, envs2, left2 : Follows(something, at2, envs2, e, left2)'
<1> DEFINE rest == ValuesOf(heap, bindings[Op.binding], Op.attribute)
           f == [frame |-> "iter", binding |-> Op.value_binding, next |-> pc + 1, rest |-> rest]
<1>1. mode = "op" /\ Op.op = "Search" /\ mode' = "branch" /\ UNCHANGED <<bindings, found>>
  BY DEF SearchAttribute, At, NextBranch
<1>2. /\ e \in Envs /\ Alike(bindings, e, Reads(Op))
      /\ Op = ops[pc] /\ Results[pc][e] = Continued(Results, ops, pc, e, heap)
      /\ ByKind(Results, ops, pc, e, heap) /\ Typed(Op) /\ bindings \in Envs
      /\ pc \in DOMAIN ops /\ ops \in Programs /\ heap \in Heaps
  BY <1>1, AtOp, StateShape
<1>3. e[Op.binding] = bindings[Op.binding]
  BY <1>1, <1>2 DEF Alike, Reads
<1>4. Op.value_binding \in Binding /\ Op.attribute \in Attribute
  BY <1>1, <1>2 DEF Typed, Writes
<1>5. rest \in Seq(Value)
  BY <1>2, <1>4, ValuesType
<1>6. pc + 1 \in DOMAIN ops
  BY <1>1, <1>2, ProgramShape, NextPosition
<1> HIDE DEF Results
<1>7. Results[pc][e] = Branches(Results[pc + 1], Op.value_binding, rest, e)
  BY <1>1, <1>2, <1>3 DEF ByKind
<1>8. \A x \in Envs : Results[pc + 1][x] \in Seq(Envs)
  BY <1>6, ResultsFind
<1> HIDE DEF rest
<1>9. CASE bindings[Op.binding] \in Object
  <2>1. frames' = Append(frames, f)
    BY <1>9 DEF SearchAttribute, rest
  <2>2. f \in IterFrames
    BY <1>4, <1>5, <1>6 DEF IterFrames
  <2>3. LeftBy(f, pc)
    BY <1>1, <1>2 DEF LeftBy
  <2>4. Branches(Results[pc + 1], Op.value_binding, rest, e) \in Seq(Envs)
    BY <1>2, <1>4, <1>5, <1>8, BranchesFromLeft
  <2>5. <<>> \o Branches(Results[pc + 1], Op.value_binding, rest, e) = Results[pc][e] /\ <<>> \in Seq(Envs)
    BY <1>7, <2>4, ConcatEmptySeq, EmptySeq
  <2>6. Beneath(f, e, <<>>) = Results[pc][e]
    BY <2>5 DEF Beneath
  <2>7. UNCHANGED <<ops, heap, bindings, found>> /\ mode' # "false"
    BY <1>1
  <2>8. <<>> = IF mode' = "op" THEN Results[pc'][e] ELSE <<>>
    BY <1>1
  <2> HIDE DEF f
  <2> QED BY <1>1, <2>1, <2>2, <2>3, <2>5, <2>6, <2>7, <2>8, Pushed
<1>10. CASE bindings[Op.binding] \notin Object
  <2>1. frames' = frames
    BY <1>10 DEF SearchAttribute
  <2>2. rest = <<>>
    BY <1>10 DEF ValuesOf, rest
  <2>3. Results[pc][e] = <<>>
    BY <1>2, <1>4, <1>5, <1>7, <1>8, <2>2, BranchesFromLeft
  <2>4. Follows(something, at, envs, e, left)'
    BY <1>1, <1>2, <2>1, <2>3, GoesOn
  <2> QED BY <2>4
<1> QED BY <1>9, <1>10

LEMMA BeginNotFollows ==
  ASSUME IInv, BeginNot, Kept, UNCHANGED <<ops, heap>>, NEW something, NEW at, NEW envs, NEW e,
         NEW left, Follows(something, at, envs, e, left)
  PROVE  \E at2, envs2, left2 : Follows(something, at2, envs2, e, left2)'
<1> DEFINE f == [frame |-> "not", index |-> Op.index, next |-> pc + Op.sequence_len + 1]
<1>1. /\ mode = "op" /\ Op.op = "BeginNot" /\ NextOp /\ UNCHANGED <<bindings, found>>
      /\ frames' = Append(frames, f)
  BY DEF BeginNot, At
<1>2. /\ e \in Envs /\ Alike(bindings, e, Bound(ops, pc)) /\ Trail(at, envs) /\ Under(at, Len(frames), pc)
      /\ Op = ops[pc] /\ Results[pc][e] = Continued(Results, ops, pc, e, heap)
      /\ ByKind(Results, ops, pc, e, heap) /\ IsBegin(ops, pc)
      /\ pc \in DOMAIN ops /\ ops \in Programs /\ pc \in Nat
  BY <1>1, AtOp, StateShape, ProgramShape DEF Follows, Here, IsBegin
<1>3. /\ EndOf(ops, pc) + 1 \in DOMAIN ops /\ EndOf(ops, pc) + 1 = pc + Op.sequence_len + 1
      /\ pc < EndOf(ops, pc) /\ EndOf(ops, pc) \in Nat
      /\ f.index \in Nat /\ pc + 1 \in DOMAIN ops
  BY <1>1, <1>2, AfterScope, ScopeShape, NextPosition, ProgramShape DEF EndOf, WellFormed
<1>4. f \in NotFrames /\ LeftBy(f, pc)
  BY <1>2, <1>3 DEF NotFrames, LeftBy
<1> HIDE DEF Results
<1>5. Results[pc][e] = IF Results[pc + 1][e] = <<>> THEN Results[EndOf(ops, pc) + 1][e] ELSE <<>>
  BY <1>1, <1>2 DEF ByKind
<1>6. Beneath(f, e, Results[pc + 1][e]) = Results[pc][e]
  BY <1>3, <1>5 DEF Beneath
<1>7. Results[pc + 1][e] \in Seq(Envs)
  BY <1>2, <1>3, ResultsFind
<1>8. pc' = pc + 1 /\ mode' = "op"
  BY <1>1 DEF NextOp
<1>9. Bound(ops, pc) \subseteq Bound(ops, pc + 1) /\ Bound(ops, pc + 1) \subseteq Bound(ops, pc)
  <2>1. Writes(ops[pc]) = {}
    BY <1>1, <1>2 DEF Writes
  <2> QED BY <1>1, <1>2, <2>1, ProgramShape, BoundNext DEF Bound
<1>10. Alike(bindings, e, Bound(ops, pc + 1))
  BY <1>2, <1>9 DEF Alike
<1>11. Under(at, Len(frames), pc + 1)
  BY <1>1, <1>2, StateShape, UnderNext
<1>12. pc + 1 \in pc + 1 .. EndOf(ops, pc)
  BY <1>2, <1>3
<1> HIDE DEF f
<1>13. Results[pc + 1][e] = IF mode' = "op" THEN Results[pc'][e] ELSE <<>>
  BY <1>8
<1>14. mode' = "op" => /\ Alike(bindings, e, Bound(ops, pc')) /\ Under(at, Len(frames), pc')
                       /\ Bound(ops, pc) \subseteq Bound(ops, pc')
                       /\ f.frame = "not" => pc' \in pc + 1 .. EndOf(ops, pc)
  BY <1>8, <1>9, <1>10, <1>11, <1>12
<1>15. UNCHANGED <<ops, heap, bindings, found>> /\ mode' # "false"
  BY <1>1, <1>8
<1> QED BY <1>1, <1>4, <1>6, <1>7, <1>13, <1>14, <1>15, Pushed

\* What is still found for the values of a frame.
LEMMA FrameBranches ==
  ASSUME IInv, NEW at, NEW envs, Trail(at, envs), NEW k \in DOMAIN frames, frames[k].frame = "iter"
  PROVE  /\ \A x \in Envs : Results[frames[k].next][x] \in Seq(Envs)
         /\ frames[k].next \in DOMAIN ops /\ frames[k].binding \in Binding /\ frames[k].rest \in Seq(Value)
         /\ Branches(Results[frames[k].next], frames[k].binding, frames[k].rest, envs[k]) \in Seq(Envs)
<1>1. frames[k] \in IterFrames
  BY StateShape DEF NotFrames
<1>2. frames[k].next \in DOMAIN ops /\ frames[k].binding \in Binding /\ frames[k].rest \in Seq(Value)
  BY <1>1 DEF IterFrames
<1>3. \A x \in Envs : Results[frames[k].next][x] \in Seq(Envs)
  BY <1>2, ResultsFind
<1>4. envs[k] \in Envs
  BY DEF Trail
<1> HIDE DEF Results
<1> QED BY <1>2, <1>3, <1>4, BranchesFromLeft

\* Frames go from the top.
LEMMA Popped ==
  ASSUME IInv, UNCHANGED <<ops, heap, bindings, found>>, mode' # "false",
         NEW m \in 0 .. Len(frames), frames' = SubSeq(frames, 1, m),
         NEW something, NEW at, NEW envs, NEW e, NEW left, Follows(something, at, envs, e, left),
         NEW d, left[m] = IF mode' = "op" THEN Results[pc'][d] ELSE <<>>,
         mode' = "op" => d \in Envs /\ Alike(bindings, d, Bound(ops, pc')) /\ Under(at, m, pc')
  PROVE  Follows(something, at, envs, d, left)'
<1>1. Trail(at, envs) /\ Ahead(left, envs, e) /\ Told(left, something)
  BY DEF Follows
<1>2. /\ Len(frames) \in Nat /\ DOMAIN frames = 1 .. Len(frames)
      /\ frames \in Seq(IterFrames \cup NotFrames)
  BY StateShape
<1>3. /\ Len(frames') = m /\ DOMAIN frames' = 1 .. m
      /\ \A k \in 1 .. m : frames'[k] = frames[k] /\ k \in DOMAIN frames /\ k \in 0 .. Len(frames)
  BY <1>2, SubSeqProperties, LenProperties
<1>4. Results' = Results /\ Envs' = Envs
  BY DEF Results, Envs
<1>5. ASSUME NEW i, NEW k \in 0 .. m, Under(at, k, i)
      PROVE  \A j \in 1 .. k : /\ Bound(ops, at[j]) \subseteq Bound(ops, i)
                               /\ frames'[j].frame = "not" => i \in at[j] + 1 .. EndOf(ops, at[j])
  <2>1. SUFFICES ASSUME NEW j \in 1 .. k
                 PROVE  /\ Bound(ops, at[j]) \subseteq Bound(ops, i)
                        /\ frames'[j].frame = "not" => i \in at[j] + 1 .. EndOf(ops, at[j])
    OBVIOUS
  <2>2. frames'[j] = frames[j]
    <3>1. j \in 1 .. m
      OBVIOUS
    <3> QED BY <1>3, <3>1
  <2>3. /\ Bound(ops, at[j]) \subseteq Bound(ops, i)
        /\ frames[j].frame = "not" => i \in at[j] + 1 .. EndOf(ops, at[j])
    BY <1>5 DEF Under
  <2> QED BY <2>2, <2>3
<1>6. Trail(at, envs)'
  <2>1. ASSUME NEW k \in 1 .. m
        PROVE  LeftBy(frames[k], at[k])' /\ envs[k] \in Envs
               /\ Alike(bindings, envs[k], Bound(ops, at[k])) /\ Under(at, k - 1, at[k])'
    <3>1. /\ LeftBy(frames[k], at[k]) /\ envs[k] \in Envs /\ Under(at, k - 1, at[k])
          /\ Alike(bindings, envs[k], Bound(ops, at[k]))
      BY <1>1, <1>3 DEF Trail
    <3>2. k - 1 \in 0 .. m
      OBVIOUS
    <3>3. Under(at, k - 1, at[k])'
      BY <1>5, <3>1, <3>2 DEF Under
    <3>4. LeftBy(frames[k], at[k])'
      BY <1>3, <3>1 DEF LeftBy
    <3> QED BY <3>1, <3>3, <3>4
  <2> QED BY <1>3, <1>4, <2>1 DEF Trail
<1>7. Here(at, d)'
  <2>1. ASSUME mode' = "op"
        PROVE  \A j \in 1 .. m : /\ Bound(ops, at[j]) \subseteq Bound(ops, pc')
                                 /\ frames'[j].frame = "not" => pc' \in at[j] + 1 .. EndOf(ops, at[j])
    <3>1. m \in 0 .. m
      OBVIOUS
    <3> QED BY <1>5, <2>1, <3>1
  <2> QED BY <1>3, <1>4, <2>1 DEF Here, Under
<1>8. Ahead(left, envs, d)'
  <2>1. \A k \in 1 .. m : Beneath(frames[k], envs[k], left[k])' = Beneath(frames[k], envs[k], left[k])
    BY <1>3, <1>4 DEF Beneath
  <2>2. \A k \in 0 .. m : left[k] \in Seq(Envs)
    BY <1>1 DEF Ahead
  <2>3. \A k \in 1 .. m : left[k - 1] = Beneath(frames[k], envs[k], left[k])
    BY <1>1, <1>3 DEF Ahead
  <2> QED BY <1>3, <1>4, <2>1, <2>2, <2>3 DEF Ahead
<1>9. Told(left, something)'
  <2>1. Kept
    BY DEF Kept
  <2> QED BY <1>1, <2>1, StillTold
<1> QED BY <1>6, <1>7, <1>8, <1>9 DEF Follows

\* Only values are left above the frame of the scope an EndNot ends.
LEMMA ScopeIsTop ==
  ASSUME IInv, mode = "op", Op.op = "EndNot", NEW at, NEW envs, Trail(at, envs), Under(at, Len(frames), pc),
         NEW i \in ScopeFrames(Op.index), NEW k \in DOMAIN frames, i < k
  PROVE  frames[k].frame = "iter"
<1>1. SUFFICES ASSUME frames[k].frame = "not"
               PROVE  FALSE
  BY StateShape
<1>2. i \in DOMAIN frames /\ frames[i].frame = "not" /\ frames[i].index = Op.index
  BY DEF ScopeFrames
<1>3. /\ ops \in Programs /\ Op = ops[pc] /\ pc \in DOMAIN ops /\ DOMAIN frames = 1 .. Len(frames)
      /\ Len(frames) \in Nat
  BY StateShape
<1>4. /\ at[i] \in DOMAIN ops /\ IsBegin(ops, at[i]) /\ ops[at[i]].index = ops[pc].index
      /\ at[k] \in DOMAIN ops /\ IsBegin(ops, at[k]) /\ Under(at, k - 1, at[k])
  BY <1>1, <1>2, <1>3 DEF Trail, LeftBy
<1>5. at[k] \in at[i] + 1 .. EndOf(ops, at[i])
  <2>1. i \in 1 .. k - 1
    BY <1>2, <1>3
  <2> QED BY <1>2, <1>4, <2>1 DEF Under
<1>6. pc \in at[k] + 1 .. EndOf(ops, at[k])
  <2>1. k \in 1 .. Len(frames)
    BY <1>3
  <2> QED BY <1>1, <2>1 DEF Under
<1>7. PICK b \in 1 .. pc - 1 : Closes(ops, b, pc)
  BY <1>3, ProgramShape DEF WellFormed
<1>8. IsBegin(ops, b) /\ EndOf(ops, b) = pc /\ ops[b].index = ops[pc].index /\ b \in DOMAIN ops
  BY <1>7 DEF Closes, IsBegin
<1>9. b = at[i]
  BY <1>3, <1>4, <1>8, ProgramShape, ScopeShape
<1>10. EndOf(ops, at[k]) < pc /\ pc \in Nat /\ EndOf(ops, at[k]) \in Nat
  BY <1>3, <1>4, <1>5, <1>8, <1>9, ScopeShape, ProgramShape
<1> QED BY <1>6, <1>10

LEMMA EndNotFollows ==
  ASSUME IInv, EndNot, Kept, UNCHANGED <<ops, heap>>, NEW something, NEW at, NEW envs, NEW e,
         NEW left, Follows(something, at, envs, e, left)
  PROVE  Follows(something, at, envs, e, left)'
<1>1. mode = "op" /\ Op.op = "EndNot" /\ mode' = "branch" /\ UNCHANGED <<bindings, found>>
  BY DEF EndNot, At, NextBranch
<1>2. PICK i \in ScopeFrames(Op.index) : frames' = SubSeq(frames, 1, i - 1)
  BY DEF EndNot
<1>3. /\ i \in DOMAIN frames /\ frames[i].frame = "not"
      /\ Len(frames) \in Nat /\ DOMAIN frames = 1 .. Len(frames)
  BY <1>2, StateShape DEF ScopeFrames
<1>4. /\ Trail(at, envs) /\ Under(at, Len(frames), pc) /\ Ahead(left, envs, e)
      /\ Results[pc][e] = Continued(Results, ops, pc, e, heap)
      /\ ByKind(Results, ops, pc, e, heap) /\ Op = ops[pc]
  BY <1>1, AtOp DEF Follows, Here
<1> HIDE DEF Results
<1>5. left[Len(frames)] = <<e>>
  BY <1>1, <1>4 DEF Ahead, ByKind
<1>6. /\ \A k \in 0 .. Len(frames) : left[k] \in Seq(Envs)
      /\ \A k \in DOMAIN frames : left[k - 1] = Beneath(frames[k], envs[k], left[k])
  BY <1>4 DEF Ahead
<1>7. ASSUME NEW k \in DOMAIN frames, i < k, left[k] # <<>>
      PROVE  left[k - 1] # <<>>
  <2>1. frames[k].frame = "iter"
    BY <1>1, <1>2, <1>4, <1>7, ScopeIsTop
  <2>2. left[k - 1] = left[k] \o Branches(Results[frames[k].next], frames[k].binding, frames[k].rest, envs[k])
    BY <1>6, <2>1 DEF Beneath
  <2>3. Branches(Results[frames[k].next], frames[k].binding, frames[k].rest, envs[k]) \in Seq(Envs)
    BY <1>4, <2>1, FrameBranches
  <2>4. left[k] \in Seq(Envs)
    BY <1>3, <1>6
  <2> QED BY <1>7, <2>2, <2>3, <2>4, ConcatProperties, EmptySeq
<1> DEFINE S == {k \in 0 .. Len(frames) : i <= k => left[k] # <<>>}
<1>8. Len(frames) \in S
  <2>1. left[Len(frames)] # <<>>
    BY <1>5
  <2> QED BY <1>3, <2>1
<1>9. ASSUME NEW k \in 1 .. Len(frames), k \in S
      PROVE  k - 1 \in S
  BY <1>3, <1>7, <1>9
<1>10. i \in S
  <2>1. \A k \in 1 .. Len(frames) : k \in S => k - 1 \in S
    <3> HIDE DEF S
    <3> QED BY <1>9
  <2> HIDE DEF S
  <2>2. \A k \in 0 .. Len(frames) : k \in S
    BY <1>3, <1>8, <2>1, Downward, Zenon
  <2>3. i \in 0 .. Len(frames)
    BY <1>3
  <2> QED BY <2>2, <2>3
<1>11. left[i] # <<>>
  BY <1>3, <1>10
<1>12. left[i - 1] = <<>>
  BY <1>3, <1>6, <1>11 DEF Beneath
<1>13. i - 1 \in 0 .. Len(frames)
  BY <1>3
<1>14. left[i - 1] = IF mode' = "op" THEN Results[pc'][e] ELSE <<>>
  BY <1>1, <1>12
<1> QED BY <1>1, <1>2, <1>13, <1>14, Popped

\* While the search goes back, nothing is left above the top frame.
LEMMA AtTop ==
  ASSUME IInv, mode = "branch", frames # <<>>, NEW something, NEW at, NEW envs, NEW e, NEW left,
         Follows(something, at, envs, e, left), NEW n, n = Len(frames)
  PROVE  /\ n \in Nat \ {0} /\ n \in DOMAIN frames /\ DOMAIN frames = 1 .. n /\ TopFrame = frames[n]
         /\ Front(frames) = SubSeq(frames, 1, n - 1) /\ n - 1 \in 0 .. n
         /\ left[n] = <<>> /\ left[n - 1] = Beneath(frames[n], envs[n], <<>>)
         /\ Trail(at, envs) /\ LeftBy(frames[n], at[n]) /\ at[n] \in DOMAIN ops /\ ops \in Programs
         /\ envs[n] \in Envs /\ Alike(bindings, envs[n], Bound(ops, at[n])) /\ Under(at, n - 1, at[n])
<1>1. n \in Nat \ {0} /\ DOMAIN frames = 1 .. n /\ ops \in Programs
  BY StateShape, EmptySeq
<1>2. n \in DOMAIN frames /\ n - 1 \in 0 .. n
  BY <1>1
<1>3. TopFrame = frames[n] /\ Front(frames) = SubSeq(frames, 1, n - 1)
  BY <1>1, StateShape DEF TopFrame, Last, Front
<1>4. /\ Trail(at, envs) /\ left[n] = <<>>
      /\ left[n - 1] = Beneath(frames[n], envs[n], left[n])
  BY <1>2 DEF Follows, Ahead
<1>5. /\ LeftBy(frames[n], at[n]) /\ envs[n] \in Envs /\ Alike(bindings, envs[n], Bound(ops, at[n]))
      /\ Under(at, n - 1, at[n])
  BY <1>2, <1>4 DEF Trail
<1> QED BY <1>1, <1>2, <1>3, <1>4, <1>5 DEF LeftBy

LEMMA AfterNotFollows ==
  ASSUME IInv, AfterNot, Kept, UNCHANGED <<ops, heap>>, NEW something, NEW at, NEW envs, NEW e,
         NEW left, Follows(something, at, envs, e, left)
  PROVE  \E d : Follows(something, at, envs, d, left)'
<1>1. PICK n : n = Len(frames)
  OBVIOUS
<1>2. /\ mode = "branch" /\ mode' = "op" /\ frames # <<>> /\ TopFrame.frame = "not"
      /\ pc' = TopFrame.next /\ frames' = Front(frames) /\ UNCHANGED <<bindings, found>>
  BY DEF AfterNot, BackTo
<1>3. /\ n \in DOMAIN frames /\ TopFrame = frames[n] /\ Front(frames) = SubSeq(frames, 1, n - 1)
      /\ n - 1 \in 0 .. n /\ left[n - 1] = Beneath(frames[n], envs[n], <<>>)
      /\ Trail(at, envs) /\ LeftBy(frames[n], at[n]) /\ at[n] \in DOMAIN ops /\ ops \in Programs
      /\ envs[n] \in Envs /\ Alike(bindings, envs[n], Bound(ops, at[n])) /\ Under(at, n - 1, at[n])
  BY <1>1, <1>2, AtTop
<1>4. IsBegin(ops, at[n]) /\ pc' = EndOf(ops, at[n]) + 1
  BY <1>2, <1>3 DEF LeftBy
<1>5. Alike(bindings, envs[n], Bound(ops, pc'))
  BY <1>3, <1>4, ProgramShape, BoundAfter DEF Bound
<1>6. Under(at, n - 1, pc')
  BY <1>1, <1>3, <1>4, UnderNext
<1>7. left[n - 1] = Results[pc'][envs[n]]
  BY <1>2, <1>3 DEF Beneath
<1>8. n - 1 \in 0 .. Len(frames) /\ frames' = SubSeq(frames, 1, n - 1) /\ mode' # "false"
  BY <1>1, <1>2, <1>3
<1>9. left[n - 1] = IF mode' = "op" THEN Results[pc'][envs[n]] ELSE <<>>
  BY <1>2, <1>7
<1>10. Follows(something, at, envs, envs[n], left)'
  BY <1>2, <1>3, <1>5, <1>6, <1>8, <1>9, Popped
<1> QED BY <1>10

LEMMA NoValueLeftFollows ==
  ASSUME IInv, NoValueLeft, Kept, UNCHANGED <<ops, heap>>, NEW something, NEW at, NEW envs, NEW e,
         NEW left, Follows(something, at, envs, e, left)
  PROVE  Follows(something, at, envs, e, left)'
<1>1. PICK n : n = Len(frames)
  OBVIOUS
<1>2. /\ mode = "branch" /\ mode' = "branch" /\ frames # <<>> /\ TopFrame.frame = "iter"
      /\ TopFrame.rest = <<>> /\ frames' = Front(frames) /\ UNCHANGED <<bindings, found>>
  BY DEF NoValueLeft, BackTo
<1>3. /\ n \in DOMAIN frames /\ TopFrame = frames[n] /\ Front(frames) = SubSeq(frames, 1, n - 1)
      /\ n - 1 \in 0 .. n /\ left[n - 1] = Beneath(frames[n], envs[n], <<>>)
      /\ Trail(at, envs) /\ envs[n] \in Envs
  BY <1>1, <1>2, AtTop
<1>4. /\ \A x \in Envs : Results[frames[n].next][x] \in Seq(Envs)
      /\ frames[n].binding \in Binding /\ frames[n].rest \in Seq(Value)
  BY <1>2, <1>3, FrameBranches
<1>5. Branches(Results[frames[n].next], frames[n].binding, frames[n].rest, envs[n]) = <<>>
  <2> HIDE DEF Results
  <2> QED BY <1>2, <1>3, <1>4, BranchesFromLeft
<1>6. left[n - 1] = <<>>
  <2>1. <<>> \o <<>> = <<>>
    BY EmptySeq, ConcatEmptySeq
  <2> QED BY <1>2, <1>3, <1>5, <2>1 DEF Beneath
<1>7. left[n - 1] = IF mode' = "op" THEN Results[pc'][e] ELSE <<>>
  BY <1>2, <1>6
<1>8. n - 1 \in 0 .. Len(frames) /\ frames' = SubSeq(frames, 1, n - 1)
  BY <1>1, <1>2, <1>3
<1> QED BY <1>2, <1>7, <1>8, Popped

LEMMA NoBranchLeftFollows ==
  ASSUME IInv, NoBranchLeft, Kept, UNCHANGED <<ops, heap>>, NEW something, NEW at, NEW envs, NEW e,
         NEW left, Follows(something, at, envs, e, left)
  PROVE  Follows(something, at, envs, e, left)'
<1>1. /\ mode = "branch" /\ mode' = "false" /\ frames = <<>> /\ UNCHANGED <<bindings, pc, frames, found>>
  BY DEF NoBranchLeft
<1>2. Trail(at, envs) /\ Ahead(left, envs, e) /\ Told(left, something)
  BY DEF Follows
<1>3. Trail(at, envs)'
  <2>1. \A b \in Binding \ {} : bindings'[b] = bindings[b]
    BY <1>1
  <2>2. \A k \in DOMAIN frames : {} \cap Bound(ops, at[k]) = {}
    OBVIOUS
  <2> QED BY <1>1, <1>2, <2>1, <2>2, TrailCarried
<1>4. Here(at, e)'
  BY <1>1 DEF Here
<1>5. Ahead(left, envs, e)'
  <2>1. Results' = Results /\ Envs' = Envs
    BY DEF Results, Envs
  <2>2. \A k \in DOMAIN frames : Beneath(frames[k], envs[k], left[k])' = Beneath(frames[k], envs[k], left[k])
    BY <1>1, <2>1 DEF Beneath
  <2> QED BY <1>1, <1>2, <2>1, <2>2 DEF Ahead
<1>6. Told(left, something)'
  BY <1>1, <1>2, StillTold
<1> QED BY <1>3, <1>4, <1>5, <1>6 DEF Follows

LEMMA NextValueFollows ==
  ASSUME IInv, NextValue, Kept, UNCHANGED <<ops, heap>>, NEW something, NEW at, NEW envs, NEW e,
         NEW left, Follows(something, at, envs, e, left)
  PROVE  \E d, left2 : Follows(something, at, envs, d, left2)'
<1>1. PICK n : n = Len(frames)
  OBVIOUS
<1>2. /\ mode = "branch" /\ mode' = "op" /\ frames # <<>> /\ TopFrame.frame = "iter"
      /\ TopFrame.rest # <<>> /\ pc' = TopFrame.next /\ found' = found
      /\ bindings' = [bindings EXCEPT ![TopFrame.binding] = Head(TopFrame.rest)]
      /\ frames' = [frames EXCEPT ![Len(frames)].rest = Tail(@)]
  BY DEF NextValue, BackTo
<1>3. /\ n \in Nat \ {0} /\ n \in DOMAIN frames /\ DOMAIN frames = 1 .. n /\ TopFrame = frames[n]
      /\ n - 1 \in 0 .. n /\ left[n - 1] = Beneath(frames[n], envs[n], <<>>)
      /\ Trail(at, envs) /\ LeftBy(frames[n], at[n]) /\ at[n] \in DOMAIN ops /\ ops \in Programs
      /\ envs[n] \in Envs /\ Alike(bindings, envs[n], Bound(ops, at[n])) /\ Under(at, n - 1, at[n])
  BY <1>1, <1>2, AtTop
<1>4. PICK slot, value, rest : slot = frames[n].binding /\ value = Head(frames[n].rest) /\ rest = Tail(frames[n].rest)
  OBVIOUS
<1>5. /\ \A x \in Envs : Results[frames[n].next][x] \in Seq(Envs)
      /\ slot \in Binding /\ frames[n].rest \in Seq(Value) /\ frames[n].next \in DOMAIN ops
  BY <1>2, <1>3, <1>4, FrameBranches
<1>6. value \in Value /\ rest \in Seq(Value)
  BY <1>2, <1>3, <1>4, <1>5, HeadTailProperties
<1>7. PICK d : d = [envs[n] EXCEPT ![slot] = value]
  OBVIOUS
<1>8. /\ bindings' \in Envs /\ d \in Envs
      /\ \A b \in Binding : /\ bindings'[b] = IF b = slot THEN value ELSE bindings[b]
                            /\ d[b] = IF b = slot THEN value ELSE envs[n][b]
  <2>1. bindings \in Envs
    BY StateShape
  <2>2. bindings' = [bindings EXCEPT ![slot] = value]
    BY <1>2, <1>3, <1>4
  <2> QED BY <1>3, <1>5, <1>6, <1>7, <2>1, <2>2 DEF Envs
<1>9. /\ ops[at[n]].op = "Search" /\ pc' = at[n] + 1 /\ slot = ops[at[n]].value_binding
      /\ Writes(ops[at[n]]) = {slot} /\ frames[n].next = at[n] + 1
  BY <1>2, <1>3, <1>4 DEF LeftBy, Writes
<1>10. /\ Bound(ops, pc') \subseteq Bound(ops, at[n]) \cup {slot}
       /\ Bound(ops, at[n]) \subseteq Binding /\ slot \notin Bound(ops, at[n])
  <2>1. IsProgram(ops) /\ BindsFirst(ops, Inputs)
    BY <1>3, ProgramShape
  <2>2. Bound(ops, pc') \subseteq Bound(ops, at[n]) \cup Writes(ops[at[n]])
    BY <1>3, <1>9, <2>1, BoundNext DEF Bound
  <2>3. Bound(ops, at[n]) \subseteq Binding
    BY <1>3, BoundEnds
  <2>4. Writes(ops[at[n]]) \cap Bound(ops, at[n]) = {}
    BY <1>3, <2>1 DEF BindsFirst, Bound
  <2> QED BY <1>9, <2>2, <2>3, <2>4
<1>11. Alike(bindings', d, Bound(ops, pc'))
  BY <1>3, <1>5, <1>8, <1>10 DEF Alike
<1>12. /\ Len(frames') = n /\ DOMAIN frames' = 1 .. n
       /\ \A k \in 1 .. n : k # n => frames'[k] = frames[k]
       /\ frames'[n].frame = "iter" /\ frames'[n].next = frames[n].next /\ frames'[n].binding = slot
       /\ frames'[n].rest = rest
  <2>1. frames[n] \in IterFrames
    BY <1>2, <1>3, StateShape DEF NotFrames
  <2>2. frames' = [frames EXCEPT ![n] = [frames[n] EXCEPT !.rest = Tail(@)]]
    BY <1>1, <1>2
  <2>3. \A k \in 1 .. n : frames'[k] = IF k = n THEN [frames[n] EXCEPT !.rest = Tail(@)] ELSE frames[k]
    BY <1>3, <2>2
  <2>4. [frames[n] EXCEPT !.rest = Tail(@)].frame = "iter" /\ [frames[n] EXCEPT !.rest = Tail(@)].next = frames[n].next
        /\ [frames[n] EXCEPT !.rest = Tail(@)].binding = slot /\ [frames[n] EXCEPT !.rest = Tail(@)].rest = rest
    BY <1>4, <2>1 DEF IterFrames
  <2>5. Len(frames') = n /\ DOMAIN frames' = 1 .. n
    BY <1>1, <1>3, <2>2, StateShape, LenProperties
  <2> QED BY <1>3, <2>3, <2>4, <2>5
<1>13. \A k \in 1 .. n : k - 1 \in 0 .. n /\ k \in 0 .. n /\ (k - 1 = n - 1 \/ k # n) /\ k - 1 # n
  BY <1>3
<1>14. Results' = Results /\ Envs' = Envs
  BY <1>2 DEF Results, Envs
<1>15. ASSUME NEW k \in 1 .. n
       PROVE  /\ LeftBy(frames[k], at[k]) /\ envs[k] \in Envs /\ Under(at, k - 1, at[k])
              /\ Alike(bindings, envs[k], Bound(ops, at[k]))
              /\ at[k] \in DOMAIN ops /\ Bound(ops, at[k]) \subseteq Bound(ops, at[n])
  <2>1. /\ LeftBy(frames[k], at[k]) /\ envs[k] \in Envs /\ Under(at, k - 1, at[k])
        /\ Alike(bindings, envs[k], Bound(ops, at[k])) /\ at[k] \in DOMAIN ops
    BY <1>3 DEF Trail, LeftBy
  <2>2. CASE k = n
    BY <2>1, <2>2
  <2>3. CASE k # n
    <3>1. k \in 1 .. n - 1
      BY <1>3, <2>3
    <3> QED BY <1>3, <2>1, <3>1 DEF Under
  <2> QED BY <2>2, <2>3
<1>16. \A i, m : m \in 0 .. n /\ Under(at, m, i) => Under(at, m, i)'
  <2>1. SUFFICES ASSUME NEW i, NEW m \in 0 .. n, Under(at, m, i), NEW j \in 1 .. m
                 PROVE  /\ Bound(ops, at[j]) \subseteq Bound(ops, i)
                        /\ frames'[j].frame = "not" => i \in at[j] + 1 .. EndOf(ops, at[j])
    BY DEF Under
  <2>2. j \in 1 .. n
    BY <1>3
  <2>3. frames'[j].frame = frames[j].frame
    BY <1>2, <1>3, <1>12, <2>2
  <2> QED BY <2>1, <2>3 DEF Under
<1>17. Trail(at, envs)'
  <2>1. ASSUME NEW k \in 1 .. n
        PROVE  /\ LeftBy(frames[k], at[k])' /\ envs[k] \in Envs /\ Under(at, k - 1, at[k])'
               /\ Alike(bindings', envs[k], Bound(ops, at[k]))
    <3>1. LeftBy(frames[k], at[k])'
      <4>1. CASE k = n
        BY <1>3, <1>9, <1>12, <4>1 DEF LeftBy
      <4>2. CASE k # n
        BY <1>12, <1>15, <4>2 DEF LeftBy
      <4> QED BY <4>1, <4>2
    <3>2. Under(at, k - 1, at[k])'
      BY <1>13, <1>15, <1>16
    <3>3. Alike(bindings', envs[k], Bound(ops, at[k]))
      BY <1>8, <1>10, <1>15 DEF Alike
    <3> QED BY <1>15, <3>1, <3>2, <3>3
  <2> QED BY <1>12, <1>14, <2>1 DEF Trail
<1>18. Here(at, d)'
  <2>1. Under(at, n - 1, at[n] + 1)
    BY <1>1, <1>3, <1>9, UnderNext
  <2>2. Under(at, n, at[n] + 1)
    <3>1. Bound(ops, at[n]) \subseteq Bound(ops, at[n] + 1)
      BY <1>3, <1>9, ProgramShape, BoundNext DEF Bound
    <3>2. \A j \in 1 .. n : j = n \/ j \in 1 .. n - 1
      BY <1>3
    <3> QED BY <1>2, <1>3, <2>1, <3>1, <3>2 DEF Under
  <2>3. n \in 0 .. n
    BY <1>3
  <2>4. \A j \in 1 .. n : /\ Bound(ops, at[j]) \subseteq Bound(ops, pc')
                          /\ frames'[j].frame = "not" => pc' \in at[j] + 1 .. EndOf(ops, at[j])
    BY <1>2, <1>3, <1>9, <1>12, <2>2 DEF Under
  <2>5. ops' = ops
    OBVIOUS
  <2>6. Under(at, Len(frames), pc)'
    BY <1>12, <2>4, <2>5 DEF Under
  <2>7. Alike(bindings', d, Bound(ops', pc')) /\ d \in Envs'
    BY <1>8, <1>11, <1>14, <2>5
  <2> QED BY <2>6, <2>7 DEF Here
<1>19. PICK left2 : left2 = [k \in 0 .. n |-> IF k = n THEN Results[pc'][d] ELSE left[k]]
  OBVIOUS
<1>20. \A k \in 0 .. n : left2[k] = IF k = n THEN Results[pc'][d] ELSE left[k]
  BY <1>19
<1>21. Ahead(left2, envs, d)'
  <2>1. \A k \in 1 .. n : Beneath(frames[k], envs[k], left2[k])' = Beneath(frames'[k], envs[k], left2[k])
    BY <1>14 DEF Beneath
  <2>2. /\ \A k \in 0 .. n : left[k] \in Seq(Envs)
        /\ \A k \in 1 .. n : left[k - 1] = Beneath(frames[k], envs[k], left[k])
    BY <1>1, <1>3 DEF Follows, Ahead
  <2>3. Results[pc'][d] \in Seq(Envs) /\ pc' = frames[n].next
    BY <1>5, <1>8, <1>9
  <2>4. left2[n - 1] = Beneath(frames'[n], envs[n], left2[n])
    <3> DEFINE all == Branches(Results[frames[n].next], slot, frames[n].rest, envs[n])
               more == Branches(Results[frames[n].next], slot, rest, envs[n])
    <3> HIDE DEF Results
    <3>1. all = Results[pc'][d] \o more /\ all \in Seq(Envs)
      <4> DEFINE later == Results[frames[n].next]
                 list == frames[n].rest
                 from == envs[n]
      <4>1. /\ \A x \in Envs : later[x] \in Seq(Envs)
            /\ slot \in Binding /\ list \in Seq(Value) /\ list # <<>> /\ from \in Envs
        BY <1>2, <1>3, <1>5
      <4>2. d = [from EXCEPT ![slot] = Head(list)] /\ rest = Tail(list)
        BY <1>4, <1>7
      <4> HIDE DEF later, list, from
      <4>3. /\ Branches(later, slot, list, from) \in Seq(Envs)
            /\ Branches(later, slot, list, from)
                 = later[[from EXCEPT ![slot] = Head(list)]] \o Branches(later, slot, Tail(list), from)
        BY <4>1, BranchesFromLeft
      <4>4. /\ Branches(later, slot, list, from) \in Seq(Envs)
            /\ Branches(later, slot, list, from) = later[d] \o Branches(later, slot, rest, from)
        BY <4>2, <4>3
      <4> QED BY <2>3, <4>4 DEF later, list, from
    <3>2. left[n - 1] = <<>> \o all
      BY <1>2, <1>3, <1>4 DEF Beneath
    <3>3. left[n - 1] = all
      BY <3>1, <3>2, ConcatEmptySeq
    <3>4. left2[n] = Results[pc'][d] /\ left2[n - 1] = left[n - 1]
      BY <1>3, <1>20
    <3>5. Beneath(frames'[n], envs[n], left2[n]) = left2[n] \o more
      BY <1>12 DEF Beneath
    <3> QED BY <3>1, <3>3, <3>4, <3>5
  <2>5. ASSUME NEW k \in 1 .. n, k # n
        PROVE  left2[k - 1] = Beneath(frames'[k], envs[k], left2[k])
    BY <1>12, <1>13, <1>20, <2>2, <2>5
  <2>6. \A k \in 0 .. n : left2[k] \in Seq(Envs)
    BY <1>20, <2>2, <2>3
  <2>7. left2[n] = Results[pc'][d]
    BY <1>3, <1>20
  <2>8. \A k \in DOMAIN frames' : left2[k - 1] = Beneath(frames[k], envs[k], left2[k])'
    BY <1>12, <2>1, <2>4, <2>5
  <2>9. left2[Len(frames')] = IF mode' = "op" THEN Results'[pc'][d] ELSE <<>>
    BY <1>2, <1>12, <1>14, <2>7
  <2>10. \A k \in 0 .. Len(frames') : left2[k] \in Seq(Envs')
    BY <1>12, <1>14, <2>6
  <2> QED BY <2>8, <2>9, <2>10 DEF Ahead
<1>22. Told(left2, something)'
  <2>1. Told(left, something) /\ left2[0] = left[0]
    BY <1>3, <1>20 DEF Follows
  <2> QED BY <1>2, <2>1, StillTold
<1> QED BY <1>17, <1>18, <1>21, <1>22 DEF Follows

\* The first of two sequences gives the head and keeps the tail.
LEMMA TailOfConcat ==
  ASSUME NEW S, NEW s \in Seq(S), NEW t \in Seq(S), s # <<>>
  PROVE  /\ s \o t \in Seq(S) /\ s \o t # <<>> /\ Head(s \o t) = Head(s)
         /\ Tail(s \o t) = Tail(s) \o t /\ Tail(s) \in Seq(S)
<1>1. Len(s) \in Nat \ {0} /\ Len(t) \in Nat
  BY EmptySeq, LenProperties
<1>2. /\ s \o t \in Seq(S) /\ Len(s \o t) = Len(s) + Len(t)
      /\ \A i \in 1 .. Len(s) + Len(t) : (s \o t)[i] = IF i <= Len(s) THEN s[i] ELSE t[i - Len(s)]
  BY ConcatProperties
<1>3. s \o t # <<>>
  BY <1>1, <1>2, EmptySeq
<1>4. /\ Tail(s) \in Seq(S) /\ Len(Tail(s)) = Len(s) - 1 /\ Head(s) = s[1]
      /\ \A i \in 1 .. Len(s) - 1 : Tail(s)[i] = s[i + 1]
  BY <1>1, HeadTailProperties
<1>5. /\ Tail(s \o t) \in Seq(S) /\ Len(Tail(s \o t)) = Len(s) + Len(t) - 1 /\ Head(s \o t) = (s \o t)[1]
      /\ \A i \in 1 .. Len(s) + Len(t) - 1 : Tail(s \o t)[i] = (s \o t)[i + 1]
  BY <1>2, <1>3, HeadTailProperties
<1>6. /\ Tail(s) \o t \in Seq(S) /\ Len(Tail(s) \o t) = Len(s) + Len(t) - 1
      /\ \A i \in 1 .. Len(s) + Len(t) - 1 :
           (Tail(s) \o t)[i] = IF i <= Len(s) - 1 THEN Tail(s)[i] ELSE t[i - (Len(s) - 1)]
  <2>1. (Len(s) - 1) + Len(t) = Len(s) + Len(t) - 1
    BY <1>1
  <2> QED BY <1>4, <2>1, ConcatProperties
<1>7. Head(s \o t) = Head(s)
  <2>1. 1 \in 1 .. Len(s) + Len(t) /\ 1 <= Len(s)
    BY <1>1
  <2> QED BY <1>2, <1>4, <1>5, <2>1
<1>8. ASSUME NEW i \in 1 .. Len(s) + Len(t) - 1
      PROVE  Tail(s \o t)[i] = (Tail(s) \o t)[i]
  <2>1. i + 1 \in 1 .. Len(s) + Len(t) /\ (i + 1) - Len(s) = i - (Len(s) - 1)
    BY <1>1
  <2>2. Tail(s \o t)[i] = IF i + 1 <= Len(s) THEN s[i + 1] ELSE t[(i + 1) - Len(s)]
    BY <1>2, <1>5, <2>1
  <2>3. CASE i <= Len(s) - 1
    <3>1. i \in 1 .. Len(s) - 1 /\ i + 1 <= Len(s)
      BY <1>1, <2>3
    <3> QED BY <1>4, <1>6, <2>2, <2>3, <3>1
  <2>4. CASE ~(i <= Len(s) - 1)
    <3>1. ~(i + 1 <= Len(s))
      BY <1>1, <2>4
    <3> QED BY <1>6, <2>1, <2>2, <2>4, <3>1
  <2> QED BY <2>3, <2>4
<1>9. Tail(s \o t) = Tail(s) \o t
  BY <1>5, <1>6, <1>8, SeqEqual
<1> QED BY <1>2, <1>3, <1>4, <1>7, <1>9

\* An environment that is told moves from what is left to what is found.
LEMMA SeenMoves ==
  ASSUME NEW past \in Seq(Envs), NEW next \in Seq(Envs), next # <<>>, NEW e \in Envs,
         Alike(e, Head(next), Visible(ops))
  PROVE  Seen(Append(past, e)) \o Seen(Tail(next)) = Seen(past) \o Seen(next)
<1> DEFINE View(x) == Restrict(x, Visible(ops))
           T == {View(x) : x \in Envs}
           Joint == Seen(past) \o Seen(next)
           Moved == Seen(Append(past, e)) \o Seen(Tail(next))
<1>1. ASSUME NEW s \in Seq(Envs)
      PROVE  /\ Seen(s) \in Seq(T) /\ Len(Seen(s)) = Len(s)
             /\ \A i \in 1 .. Len(s) : Seen(s)[i] = View(s[i])
  <2>1. Len(s) \in Nat /\ DOMAIN s = 1 .. Len(s) /\ \A i \in 1 .. Len(s) : s[i] \in Envs
    BY LenProperties, ElementOfSeq
  <2>2. Seen(s) \in [1 .. Len(s) -> T] /\ \A i \in 1 .. Len(s) : Seen(s)[i] = View(s[i])
    BY <2>1 DEF Seen
  <2>3. Seen(s) \in Seq(T)
    <3> HIDE DEF T
    <3> QED BY <2>1, <2>2, SeqDef
  <2> QED BY <2>1, <2>2, <2>3, LenProperties
<1>2. View(e) = View(Head(next))
  BY DEF Restrict, Alike
<1> HIDE DEF View, T
<1>3. Len(past) \in Nat /\ Len(next) \in Nat \ {0}
  BY EmptySeq, LenProperties
<1> DEFINE n == Len(past)
           m == Len(next)
<1>4. /\ Append(past, e) \in Seq(Envs) /\ Len(Append(past, e)) = n + 1 /\ Append(past, e)[n + 1] = e
      /\ \A i \in 1 .. n : Append(past, e)[i] = past[i]
  BY AppendProperties
<1>5. /\ Tail(next) \in Seq(Envs) /\ Len(Tail(next)) = m - 1 /\ Head(next) = next[1]
      /\ \A i \in 1 .. m - 1 : Tail(next)[i] = next[i + 1]
  BY HeadTailProperties
<1>6. /\ Joint \in Seq(T) /\ Len(Joint) = n + m
      /\ \A i \in 1 .. n + m : Joint[i] = IF i <= n THEN Seen(past)[i] ELSE Seen(next)[i - n]
  <2>1. /\ Seen(past) \in Seq(T) /\ Len(Seen(past)) = n
        /\ Seen(next) \in Seq(T) /\ Len(Seen(next)) = m
    BY <1>1
  <2> HIDE DEF n, m
  <2> QED BY <2>1, ConcatProperties
<1>7. /\ Moved \in Seq(T) /\ Len(Moved) = n + m
      /\ \A i \in 1 .. n + m : Moved[i] = IF i <= n + 1 THEN Seen(Append(past, e))[i] ELSE Seen(Tail(next))[i - (n + 1)]
  <2>1. /\ Seen(Append(past, e)) \in Seq(T) /\ Len(Seen(Append(past, e))) = n + 1
        /\ Seen(Tail(next)) \in Seq(T) /\ Len(Seen(Tail(next))) = m - 1
    BY <1>1, <1>4, <1>5
  <2>2. (n + 1) + (m - 1) = n + m
    BY <1>3
  <2> DEFINE a == Seen(Append(past, e))
             b == Seen(Tail(next))
  <2> HIDE DEF n, m, a, b
  <2>3. /\ a \o b \in Seq(T) /\ Len(a \o b) = n + m
        /\ \A i \in 1 .. n + m : (a \o b)[i] = IF i <= n + 1 THEN a[i] ELSE b[i - (n + 1)]
    <3>1. a \in Seq(T) /\ b \in Seq(T) /\ Len(a) = n + 1 /\ Len(b) = m - 1
      BY <2>1 DEF a, b
    <3>2. /\ a \o b \in Seq(T) /\ Len(a \o b) = Len(a) + Len(b)
          /\ \A i \in 1 .. Len(a) + Len(b) : (a \o b)[i] = IF i <= Len(a) THEN a[i] ELSE b[i - Len(a)]
      BY <3>1, ConcatProperties
    <3>3. Len(a) + Len(b) = n + m
      BY <2>2, <3>1
    <3> QED BY <3>1, <3>2, <3>3
  <2> QED BY <2>3 DEF a, b
<1>8. ASSUME NEW i \in 1 .. n + m
      PROVE  Moved[i] = Joint[i]
  <2>1. CASE i <= n
    <3>1. i \in 1 .. n /\ i \in 1 .. n + 1 /\ i <= n + 1
      BY <1>3, <2>1
    <3>2. Moved[i] = View(past[i])
      BY <1>1, <1>4, <1>7, <3>1
    <3>3. Joint[i] = View(past[i])
      BY <1>1, <1>6, <2>1, <3>1
    <3> QED BY <3>2, <3>3
  <2>2. CASE i = n + 1
    <3>1. i \in 1 .. n + 1 /\ i <= n + 1 /\ ~(i <= n) /\ i - n = 1 /\ 1 \in 1 .. m
      BY <1>3, <2>2
    <3>2. Moved[i] = View(e)
      <4>1. Moved[i] = Seen(Append(past, e))[i]
        BY <1>7, <3>1
      <4>2. Seen(Append(past, e))[i] = View(Append(past, e)[i])
        BY <1>1, <1>4, <3>1
      <4> QED BY <1>4, <2>2, <4>1, <4>2
    <3>3. Joint[i] = View(next[1])
      BY <1>1, <1>6, <3>1
    <3> QED BY <1>2, <1>5, <3>2, <3>3
  <2>3. CASE i > n + 1
    <3>1. i - (n + 1) \in 1 .. m - 1 /\ ~(i <= n + 1) /\ ~(i <= n) /\ i - n \in 1 .. m
          /\ (i - (n + 1)) + 1 = i - n
      BY <1>3, <2>3
    <3>2. Moved[i] = View(Tail(next)[i - (n + 1)])
      BY <1>1, <1>5, <1>7, <3>1
    <3>3. Tail(next)[i - (n + 1)] = next[i - n]
      BY <1>5, <3>1
    <3>4. Joint[i] = View(next[i - n])
      BY <1>1, <1>6, <3>1
    <3> QED BY <3>2, <3>3, <3>4
  <2> HIDE DEF Moved, Joint
  <2>4. i \in Nat /\ n \in Nat
    BY <1>3
  <2>5. i <= n \/ i = n + 1 \/ i > n + 1
    BY ONLY <2>4
  <2> QED BY <2>1, <2>2, <2>3, <2>5
<1> HIDE DEF Joint, Moved, n, m
<1>9. Moved = Joint
  BY <1>6, <1>7, <1>8, SeqEqual
<1> QED BY <1>9 DEF Joint, Moved

\* At the end no scope is open, so that every frame is one of values.
LEMMA EndIsOpen ==
  ASSUME IInv, mode = "op", Op.op = "End", NEW at, NEW envs, Trail(at, envs), Under(at, Len(frames), pc),
         NEW k \in DOMAIN frames
  PROVE  frames[k].frame = "iter"
<1>1. SUFFICES ASSUME frames[k].frame = "not"
               PROVE  FALSE
  BY StateShape
<1>2. /\ ops \in Programs /\ Op = ops[pc] /\ pc \in DOMAIN ops /\ k \in 1 .. Len(frames)
  BY StateShape
<1>3. /\ at[k] \in DOMAIN ops /\ IsBegin(ops, at[k]) /\ pc \in at[k] + 1 .. EndOf(ops, at[k])
  BY <1>1, <1>2 DEF Trail, LeftBy, Under
<1>4. pc = Len(ops) /\ DOMAIN ops = 1 .. Len(ops) /\ Len(ops) \in Nat
  BY <1>2, ProgramShape DEF WellFormed
<1>5. EndOf(ops, at[k]) \in DOMAIN ops /\ ops[EndOf(ops, at[k])].op = "EndNot"
  BY <1>2, <1>3, ProgramShape, ScopeShape
<1>6. EndOf(ops, at[k]) = pc
  BY <1>3, <1>4, <1>5
<1> QED BY <1>2, <1>5, <1>6

LEMMA ReportFollows ==
  ASSUME IInv, Report, Kept, bindings' \in Envs, UNCHANGED <<ops, heap>>, NEW something, NEW at, NEW envs,
         NEW e, NEW left, Follows(something, at, envs, e, left)
  PROVE  \E left2 : Follows(something, at, envs, e, left2)'
<1>1. PICK n : n = Len(frames)
  OBVIOUS
<1>2. /\ mode = "op" /\ Op.op = "End" /\ mode' \in {"branch", "true"} /\ UNCHANGED <<pc, frames>>
      /\ found' = Append(found, bindings)
  BY DEF Report, At
<1>3. /\ n \in Nat /\ DOMAIN frames = 1 .. n /\ pc \in DOMAIN ops /\ ops \in Programs /\ bindings \in Envs
  BY <1>1, StateShape
<1>4. /\ e \in Envs /\ Alike(bindings, e, Bound(ops, pc)) /\ Trail(at, envs) /\ Under(at, n, pc)
      /\ Ahead(left, envs, e) /\ Told(left, something)
      /\ Results[pc][e] = Continued(Results, ops, pc, e, heap)
      /\ ByKind(Results, ops, pc, e, heap) /\ Op = ops[pc]
  BY <1>1, <1>2, AtOp DEF Follows, Here
<1> HIDE DEF Results
<1>5. left[n] = <<e>>
  BY <1>1, <1>2, <1>4 DEF Ahead, ByKind
<1>6. /\ \A k \in 0 .. n : left[k] \in Seq(Envs)
      /\ \A k \in 1 .. n : left[k - 1] = Beneath(frames[k], envs[k], left[k])
  BY <1>1, <1>3, <1>4 DEF Ahead
<1>7. ASSUME NEW k \in 1 .. n
      PROVE  /\ frames[k].frame = "iter"
             /\ Branches(Results[frames[k].next], frames[k].binding, frames[k].rest, envs[k]) \in Seq(Envs)
             /\ left[k - 1] = left[k] \o Branches(Results[frames[k].next], frames[k].binding, frames[k].rest, envs[k])
             /\ left[k] \in Seq(Envs)
  <2>1. frames[k].frame = "iter"
    BY <1>1, <1>2, <1>3, <1>4, EndIsOpen
  <2>2. k \in 0 .. n
    BY <1>3
  <2> QED BY <1>3, <1>4, <1>6, <2>1, <2>2, FrameBranches DEF Beneath
<1> DEFINE S == {k \in 0 .. n : left[k] # <<>> /\ Head(left[k]) = e}
<1>8. n \in S
  <2>1. left[n] # <<>> /\ Head(left[n]) = e
    <3>1. <<e>> # <<>> /\ Head(<<e>>) = e
      OBVIOUS
    <3> QED BY ONLY <1>5, <3>1
  <2>2. n \in 0 .. n
    BY <1>3
  <2> QED BY <2>1, <2>2
<1>9. ASSUME NEW k \in 1 .. n, k \in S
      PROVE  k - 1 \in S
  <2>1. left[k - 1] # <<>> /\ Head(left[k - 1]) = Head(left[k])
    <3> DEFINE s == left[k]
               t == Branches(Results[frames[k].next], frames[k].binding, frames[k].rest, envs[k])
    <3>1. s \in Seq(Envs) /\ t \in Seq(Envs) /\ s # <<>> /\ left[k - 1] = s \o t
      BY <1>7, <1>9
    <3> HIDE DEF s, t
    <3>2. s \o t # <<>> /\ Head(s \o t) = Head(s)
      BY <3>1, TailOfConcat
    <3> QED BY <3>1, <3>2 DEF s
  <2> QED BY <1>3, <1>9, <2>1
<1>10. \A k \in 0 .. n : left[k] # <<>> /\ Head(left[k]) = e
  <2>1. \A k \in 1 .. n : k \in S => k - 1 \in S
    <3> HIDE DEF S
    <3> QED BY <1>9
  <2>2. \A k \in 0 .. n : k \in S
    <3> HIDE DEF S
    <3> QED BY <1>3, <1>8, <2>1, Downward, Zenon
  <2> QED BY <2>2
<1>11. PICK left2 : left2 = [k \in 0 .. n |-> Tail(left[k])]
  OBVIOUS
<1>12. \A k \in 0 .. n : left2[k] = Tail(left[k])
  BY <1>11
<1>13. Results' = Results /\ Envs' = Envs
  BY DEF Results, Envs
<1>14. Trail(at, envs)'
  <2>1. \A b \in Binding \ Scratch : bindings'[b] = bindings[b]
    BY DEF Report
  <2>2. \A k \in DOMAIN frames : Scratch \cap Bound(ops, at[k]) = {}
    BY <1>3, <1>4, BoundEnds DEF Trail, LeftBy
  <2> QED BY <1>2, <1>4, <2>1, <2>2, TrailCarried
<1>15. Here(at, e)'
  BY <1>2 DEF Here
<1>16. Ahead(left2, envs, e)'
  <2>1. \A k \in 1 .. n : Beneath(frames[k], envs[k], left2[k])' = Beneath(frames[k], envs[k], left2[k])
    BY <1>2, <1>13 DEF Beneath
  <2>2. \A k \in 0 .. n : left2[k] \in Seq(Envs)
    BY <1>6, <1>10, <1>12, HeadTailProperties
  <2>3. left2[n] = <<>>
    <3>1. Tail(<<e>>) = <<>>
      OBVIOUS
    <3>2. n \in 0 .. n
      BY <1>3
    <3>3. left2[n] = Tail(left[n])
      BY <1>12, <3>2
    <3> QED BY ONLY <1>5, <3>1, <3>3
  <2>4. ASSUME NEW k \in 1 .. n
        PROVE  left2[k - 1] = Beneath(frames[k], envs[k], left2[k])
    <3> DEFINE b == Branches(Results[frames[k].next], frames[k].binding, frames[k].rest, envs[k])
    <3>1. k \in 0 .. n /\ k - 1 \in 0 .. n
      BY <1>3
    <3>2. b \in Seq(Envs) /\ left[k - 1] = left[k] \o b /\ left[k] \in Seq(Envs) /\ left[k] # <<>>
      BY <1>7, <1>10, <3>1
    <3>3. Beneath(frames[k], envs[k], left2[k]) = left2[k] \o b
      BY <1>7 DEF Beneath
    <3> HIDE DEF b
    <3>4. Tail(left[k] \o b) = Tail(left[k]) \o b
      <4> DEFINE s == left[k]
      <4>1. s \in Seq(Envs) /\ s # <<>>
        BY <3>2
      <4> HIDE DEF s
      <4>2. Tail(s \o b) = Tail(s) \o b
        BY <3>2, <4>1, TailOfConcat
      <4> QED BY <4>2 DEF s
    <3> QED BY <1>12, <3>1, <3>2, <3>3, <3>4
  <2>5. Len(frames') = n /\ DOMAIN frames' = 1 .. n
    BY <1>1, <1>2, <1>3
  <2>6. \A k \in DOMAIN frames' : left2[k - 1] = Beneath(frames[k], envs[k], left2[k])'
    BY <2>1, <2>4, <2>5
  <2>7. left2[Len(frames')] = IF mode' = "op" THEN Results'[pc'][e] ELSE <<>>
    BY <1>2, <2>3, <2>5
  <2>8. \A k \in 0 .. Len(frames') : left2[k] \in Seq(Envs')
    BY <1>13, <2>2, <2>5
  <2> QED BY <2>6, <2>7, <2>8 DEF Ahead
<1>17. Told(left2, something)'
  <2>1. 0 \in 0 .. n
    BY <1>3
  <2>2. left2[0] = Tail(left[0]) /\ left[0] # <<>> /\ Head(left[0]) = e /\ left[0] \in Seq(Envs)
    BY <1>6, <1>10, <1>12, <2>1
  <2>3. found \in Seq(Envs) /\ Expected(something) = Seen(found) \o Seen(left[0])
    BY <1>4 DEF Told
  <2>4. Alike(bindings, e, Visible(ops))
    <3>1. pc = Len(ops)
      BY <1>2, <1>3, <1>4, ProgramShape DEF WellFormed
    <3>2. Visible(ops) \subseteq Bound(ops, pc)
      BY <1>3, <3>1, BoundEnds
    <3> QED BY <1>4, <3>2 DEF Alike
  <2>5. Seen(Append(found, bindings)) \o Seen(Tail(left[0])) = Seen(found) \o Seen(left[0])
    BY <1>3, <2>2, <2>3, <2>4, SeenMoves
  <2>6. found' \in Seq(Envs') /\ mode' # "false"
    BY <1>2, <1>3, <1>13, <2>3, AppendProperties
  <2>7. Expected(something)' = Expected(something)
    BY SameExpected
  <2>8. (Seen(found) \o Seen(left2[0]))' = Seen(Append(found, bindings)) \o Seen(Tail(left[0]))
    BY <1>2, <2>2 DEF Seen
  <2> QED BY <2>3, <2>5, <2>6, <2>7, <2>8 DEF Told
<1> QED BY <1>14, <1>15, <1>16, <1>17 DEF Follows

LEMMA StutterFollows ==
  ASSUME IInv, UNCHANGED vars, NEW something, NEW at, NEW envs, NEW e, NEW left,
         Follows(something, at, envs, e, left)
  PROVE  Follows(something, at, envs, e, left)'
<1>1. UNCHANGED <<ops, heap, bindings, pc, frames, mode, found>>
  BY DEF vars
<1>2. Trail(at, envs) /\ Here(at, e) /\ Ahead(left, envs, e) /\ Told(left, something)
  BY DEF Follows
<1>3. Trail(at, envs)'
  <2>1. \A b \in Binding \ {} : bindings'[b] = bindings[b]
    BY <1>1
  <2>2. \A k \in DOMAIN frames : {} \cap Bound(ops, at[k]) = {}
    OBVIOUS
  <2> QED BY <1>1, <1>2, <2>1, <2>2, TrailCarried
<1>4. Here(at, e)'
  BY <1>1, <1>2 DEF Here, Under, Envs
<1>5. Ahead(left, envs, e)'
  <2>1. Results' = Results /\ Envs' = Envs
    BY <1>1 DEF Results, Envs
  <2>2. \A k \in DOMAIN frames : Beneath(frames[k], envs[k], left[k])' = Beneath(frames[k], envs[k], left[k])
    BY <1>1, <2>1 DEF Beneath
  <2> QED BY <1>1, <1>2, <2>1, <2>2 DEF Ahead
<1>6. Told(left, something)'
  <2>1. Kept /\ (mode' = "false" => frames' = <<>>)
    BY <1>1, <1>2 DEF Kept, Told
  <2> QED BY <1>1, <1>2, <2>1, StillTold
<1> QED BY <1>3, <1>4, <1>5, <1>6 DEF Follows

\* What is seen of a sequence of environments is a sequence.
LEMMA SeenIsSeq ==
  ASSUME NEW s \in Seq(Envs)
  PROVE  Seen(s) \in Seq({Restrict(x, Visible(ops)) : x \in Envs}) /\ Len(Seen(s)) = Len(s)
<1> DEFINE T == {Restrict(x, Visible(ops)) : x \in Envs}
<1>1. Len(s) \in Nat /\ DOMAIN s = 1 .. Len(s) /\ \A i \in 1 .. Len(s) : s[i] \in Envs
  BY LenProperties, ElementOfSeq
<1>2. Seen(s) \in [1 .. Len(s) -> T]
  BY <1>1 DEF Seen
<1> HIDE DEF T
<1>3. Seen(s) \in Seq(T)
  BY <1>1, <1>2, SeqDef
<1> QED BY <1>1, <1>2, <1>3, LenProperties DEF T

LEMMA FollowedFirst ==
  ASSUME Init, IInv
  PROVE  Followed
<1>1. SUFFICES ASSUME NEW something \in Value
               PROVE  \E at, envs, e, left : Follows(something, at, envs, e, left)
  BY DEF Followed
<1>2. pc = 1 /\ frames = <<>> /\ mode = "op" /\ found = <<>>
  BY DEF Init
<1>3. ops \in Programs /\ bindings \in Envs /\ 1 \in DOMAIN ops /\ DOMAIN frames = {} /\ Len(frames) = 0
  BY <1>2, StateShape, ProgramShape, FirstPosition, EmptySeq
<1>4. PICK e : e = [b \in Binding |-> IF b \in Inputs THEN bindings[b] ELSE something]
  OBVIOUS
<1>5. e \in Envs
  BY <1>3, <1>4 DEF Envs
<1>6. PICK left : left = [k \in {0} |-> Results[1][e]]
  OBVIOUS
<1>7. left[0] = Results[1][e] /\ left[0] \in Seq(Envs)
  BY <1>3, <1>5, <1>6, ResultsFind
<1>8. Trail(<<>>, <<>>)
  BY <1>3 DEF Trail
<1>9. Here(<<>>, e)
  <2>1. Bound(ops, pc) = Inputs
    BY <1>2, <1>3, BoundEnds
  <2>2. Alike(bindings, e, Inputs)
    BY <1>4, InputsAssumption DEF Alike
  <2>3. Under(<<>>, Len(frames), pc)
    <3>1. 1 .. 0 = {}
      OBVIOUS
    <3> QED BY <1>3, <3>1 DEF Under
  <2> QED BY <1>5, <2>1, <2>2, <2>3 DEF Here
<1>10. Ahead(left, <<>>, e)
  <2>1. \A k \in 0 .. 0 : k = 0
    OBVIOUS
  <2> QED BY <1>2, <1>3, <1>7, <2>1 DEF Ahead
<1>11. Told(left, something)
  <2>1. Solutions(ops, e, heap) = left[0]
    BY <1>7 DEF Solutions, Results
  <2>2. Expected(something) = Seen(left[0])
    BY <1>4, <2>1 DEF Expected
  <2>3. Seen(found) = <<>>
    BY <1>2 DEF Seen
  <2>4. <<>> \o Seen(left[0]) = Seen(left[0])
    <3> DEFINE s == Seen(left[0])
               T == {Restrict(x, Visible(ops)) : x \in Envs}
    <3>1. s \in Seq(T)
      BY <1>7, SeenIsSeq
    <3> HIDE DEF s, T
    <3>2. <<>> \o s = s
      BY <3>1, ConcatEmptySeq
    <3> QED BY <3>2 DEF s
  <2>5. found \in Seq(Envs)
    BY <1>2, EmptySeq
  <2> QED BY <1>2, <2>2, <2>3, <2>4, <2>5 DEF Told
<1>12. Follows(something, <<>>, <<>>, e, left)
  BY <1>8, <1>9, <1>10, <1>11 DEF Follows
<1> QED BY <1>12

LEMMA FollowedNext ==
  ASSUME IInv, Followed, [Next]_vars, IInv'
  PROVE  Followed'
<1>1. SUFFICES ASSUME NEW something \in Value
               PROVE  \E at, envs, e, left : Follows(something, at, envs, e, left)'
  BY DEF Followed
<1>2. PICK at, envs, e, left : Follows(something, at, envs, e, left)
  BY DEF Followed
<1>3. CASE UNCHANGED vars
  BY <1>2, <1>3, StutterFollows
<1> SUFFICES ASSUME Next PROVE \E at2, envs2, e2, left2 : Follows(something, at2, envs2, e2, left2)'
  BY <1>3
<1>4. UNCHANGED <<ops, heap>>
  BY DEF Next
<1>5. Kept
  BY NextInvariant
<1>6. bindings' \in Envs
  BY DEF IInv, TypeOK, Envs
<1>7. CASE Test
  BY <1>2, <1>4, <1>5, <1>7, TestFollows
<1>8. CASE SearchAttribute
  BY <1>2, <1>4, <1>5, <1>8, SearchFollows
<1>9. CASE UnpackTuple
  BY <1>2, <1>4, <1>5, <1>6, <1>9, UnpackFollows
<1>10. CASE Calculation
  BY <1>2, <1>4, <1>5, <1>6, <1>10, CalculationFollows
<1>11. CASE BeginNot
  BY <1>2, <1>4, <1>5, <1>11, BeginNotFollows
<1>12. CASE EndNot
  BY <1>2, <1>4, <1>5, <1>12, EndNotFollows
<1>13. CASE Report
  BY <1>2, <1>4, <1>5, <1>6, <1>13, ReportFollows
<1>14. CASE NoBranchLeft
  BY <1>2, <1>4, <1>5, <1>14, NoBranchLeftFollows
<1>15. CASE AfterNot
  BY <1>2, <1>4, <1>5, <1>15, AfterNotFollows
<1>16. CASE NextValue
  BY <1>2, <1>4, <1>5, <1>16, NextValueFollows
<1>17. CASE NoValueLeft
  BY <1>2, <1>4, <1>5, <1>17, NoValueLeftFollows
<1> QED
  BY <1>7, <1>8, <1>9, <1>10, <1>11, <1>12, <1>13, <1>14, <1>15, <1>16, <1>17 DEF Next

\* What is told is the first part of what is expected, and all of it when
\* nothing is left.
LEMMA FollowedEnumerates ==
  ASSUME IInv, Followed
  PROVE  Enumerates
<1>1. SUFFICES ASSUME NEW something \in Value
               PROVE  /\ IsPrefix(Seen(found), Expected(something))
                      /\ mode = "false" => Seen(found) = Expected(something)
  BY DEF Enumerates
<1>2. PICK at, envs, e, left : Follows(something, at, envs, e, left)
  BY DEF Followed
<1>3. Ahead(left, envs, e) /\ Told(left, something) /\ Len(frames) \in Nat
  BY <1>2, StateShape DEF Follows
<1>4. left[0] \in Seq(Envs) /\ found \in Seq(Envs) /\ Expected(something) = Seen(found) \o Seen(left[0])
  BY <1>3 DEF Ahead, Told
<1> DEFINE T == {Restrict(x, Visible(ops)) : x \in Envs}
           s == Seen(found)
           t == Seen(left[0])
<1>5. s \in Seq(T) /\ t \in Seq(T) /\ Len(t) = Len(left[0])
  BY <1>4, SeenIsSeq
<1> HIDE DEF T, s, t
<1>6. IsPrefix(s, s \o t)
  <2>1. Len(s) \in Nat /\ Len(t) \in Nat
    BY <1>5, LenProperties
  <2>2. Len(s \o t) = Len(s) + Len(t)
    BY <1>5, ConcatProperties
  <2>3. SubSeq(s \o t, 1, Len(s)) = s
    <3>1. /\ s \o t \in Seq(T) /\ Len(s) \in 0 .. Len(s \o t)
          /\ \A i \in 1 .. Len(s) : (s \o t)[i] = s[i]
      BY <1>5, <2>1, <2>2, ConcatProperties
    <3>2. /\ SubSeq(s \o t, 1, Len(s)) \in Seq(T) /\ Len(SubSeq(s \o t, 1, Len(s))) = Len(s)
          /\ \A i \in 1 .. Len(s) : SubSeq(s \o t, 1, Len(s))[i] = (s \o t)[i]
      BY <2>1, <3>1, SubSeqProperties
    <3> QED BY <1>5, <3>1, <3>2, SeqEqual
  <2>4. SubSeq(s, 1, Len(s)) = s
    BY <1>5, SubSeqFull
  <2> QED BY <2>1, <2>2, <2>3, <2>4 DEF IsPrefix
<1>7. ASSUME mode = "false"
      PROVE  s = s \o t
  <2>1. frames = <<>> /\ Len(frames) = 0
    BY <1>3, <1>7, EmptySeq DEF Told
  <2>2. left[0] = <<>>
    BY <1>3, <1>7, <2>1 DEF Ahead
  <2>3. Len(t) = 0
    BY <1>5, <2>2, EmptySeq
  <2>4. t = <<>>
    BY <1>5, <2>3, EmptySeq
  <2> QED BY <1>5, <2>4, ConcatEmptySeq
<1> QED BY <1>4, <1>6, <1>7 DEF s, t

-----------------------------------------------------------------------------
(* The theorems.                                                           *)

\* The inductive invariant holds in every state of every search.
LEMMA Invariance == Spec => []IInv
<1>1. Init => IInv
  BY InitInvariant
<1>2. IInv /\ [Next]_vars => IInv'
  BY NextInvariant
<1> QED
  BY <1>1, <1>2, PTL DEF Spec

\* The variables of search_bindings have their types: op_index never leaves
\* the operations, also where frames send it.
THEOREM TypeCorrect == Spec => []TypeOK
<1>1. IInv => TypeOK
  BY DEF IInv
<1> QED
  BY <1>1, Invariance, PTL

\* The frame EndNot expects ("corresponding not-scope frame") is always there,
\* for all nestings of negations, searches and failures within them.
THEOREM ScopesAreFound == Spec => []ScopeFound
<1>1. IInv => ScopeFound
  BY FrameThere
<1> QED
  BY <1>1, Invariance, PTL

\* No search changes the slots of the arguments, which the rules tried later in
\* the run find there.
THEOREM InputsAreKept == Spec => InputsKept
<1>1. IInv /\ [Next]_vars => [\A b \in Inputs : bindings'[b] = bindings[b]]_vars
  BY NextInvariant DEF Kept
<1> QED
  BY <1>1, Invariance, PTL DEF Spec, InputsKept

\* The callback is told the solutions of the rule, each once and in order, and
\* a search that was not stopped misses none: for every list of operations the
\* compiler can make, whatever the space and the unbound slots hold.
THEOREM SolutionsAreEnumerated == Spec => []Enumerates
<1>1. Init => IInv /\ Followed
  BY InitInvariant, FollowedFirst
<1>2. (IInv /\ Followed) /\ [Next]_vars => (IInv /\ Followed)'
  BY NextInvariant, FollowedNext
<1>3. IInv /\ Followed => Enumerates
  BY FollowedEnumerates
<1> QED
  BY <1>1, <1>2, <1>3, PTL DEF Spec
=============================================================================
