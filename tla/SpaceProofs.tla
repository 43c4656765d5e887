---------------------------- MODULE SpaceProofs ----------------------------
(***************************************************************************)
(* Proofs about Space, for every number of ids, names, values, levels and  *)
(* copies.                                                                 *)
(***************************************************************************)
EXTENDS SpaceRefinement, SequenceTheorems, TLAPS

-----------------------------------------------------------------------------
(* What the edits of attribute lists return.                               *)

\* Vec::remove takes one value out and keeps the others.
LEMMA RemoveAtType ==
  ASSUME NEW S, NEW s \in Seq(S), NEW i \in 1 .. Len(s)
  PROVE  RemoveAt(s, i) \in Seq(S)
  BY SubSeqProperties, ConcatProperties DEF RemoveAt

\* A function on 1 .. n is a sequence of length n.
LEMMA FunctionIsSeq ==
  ASSUME NEW S, NEW n \in Nat, NEW f \in [1 .. n -> S]
  PROVE  f \in Seq(S) /\ Len(f) = n
  BY SeqDef, LenProperties

\* A name that occurs or not has a sequence of values.
LEMMA NamedType ==
  ASSUME NEW ids, NEW attrs \in AttrData(ids), NEW n \in Names
  PROVE  Named(attrs, n) \in Seq(Value(ids))
  BY DEF Named, AttrData

\* No attributes are attributes.
LEMMA NoAttrsType ==
  ASSUME NEW ids
  PROVE  NoAttrs \in AttrData(ids)
  BY DEF NoAttrs, AttrData

\* add keeps the shape of an attribute list.
LEMMA AddedType ==
  ASSUME NEW ids, NEW attrs \in AttrData(ids), NEW n \in Names, NEW v \in Value(ids)
  PROVE  Added(attrs, n, v) \in AttrData(ids)
  <1>1. Append(Named(attrs, n), v) \in Seq(Value(ids))
    BY NamedType, AppendProperties
  <1> QED BY <1>1 DEF Added, AttrData

\* remove_single keeps the shape of an attribute list.
LEMMA RemovedType ==
  ASSUME NEW ids, NEW attrs \in AttrData(ids), NEW n \in Names,
         NEW i \in DOMAIN Named(attrs, n)
  PROVE  Removed(attrs, n, i) \in AttrData(ids)
  <1>1. attrs[n] \in Seq(Value(ids)) /\ i \in 1 .. Len(attrs[n])
    BY NamedType DEF Named, AttrData
  <1>2. RemoveAt(attrs[n], i) \in Seq(Value(ids))
    BY <1>1, RemoveAtType
  <1> QED BY <1>2 DEF Removed, AttrData

\* remove_single_named keeps the shape of an attribute list.
LEMMA PoppedType ==
  ASSUME NEW ids, NEW attrs \in AttrData(ids), NEW n \in Names
  PROVE  Popped(attrs, n) \in AttrData(ids)
  <1>1. CASE Named(attrs, n) = <<>>
    BY <1>1 DEF Popped
  <1>2. CASE Named(attrs, n) # <<>>
    <2>1. attrs[n] # Missing /\ attrs[n] \in Seq(Value(ids)) /\ attrs[n] # <<>>
      BY <1>2 DEF Named, AttrData
    <2>2. Len(attrs[n]) \in DOMAIN Named(attrs, n)
      BY <2>1, EmptySeq DEF Named
    <2> QED BY <1>2, <2>2, RemovedType DEF Popped
  <1> QED BY <1>1, <1>2

\* The remaining edits keep the shape of an attribute list.
LEMMA ClearedType ==
  ASSUME NEW ids, NEW attrs \in AttrData(ids), NEW n \in Names
  PROVE  /\ Emptied(attrs, n) \in AttrData(ids)
         /\ OnlyNamed(attrs, n) \in AttrData(ids)
  BY EmptySeq DEF Emptied, OnlyNamed, AttrData

\* The caller's choice of values to retain leaves values.
LEMMA RetainedType ==
  ASSUME NEW ids, NEW attrs \in AttrData(ids), NEW pick \in PicksOf(attrs)
  PROVE  Retained(attrs, pick) \in AttrData(ids)
  <1>1. ASSUME NEW n \in Names, attrs[n] # Missing
        PROVE  Picked(attrs[n], pick[n]) \in Seq(Value(ids))
    <2>1. attrs[n] \in Seq(Value(ids)) /\ Named(attrs, n) = attrs[n]
      BY <1>1 DEF AttrData, Named
    <2>2. pick[n] \in Picks(Len(attrs[n]))
      BY <2>1 DEF PicksOf
    <2>3. PICK k \in 0 .. Len(attrs[n]) : pick[n] \in [1 .. k -> 1 .. Len(attrs[n])]
      BY <2>2 DEF Picks
    <2>4. Picked(attrs[n], pick[n]) \in [1 .. k -> Value(ids)]
      BY <2>1, <2>3, ElementOfSeq DEF Picked
    <2> QED BY <2>1, <2>3, <2>4, SeqDef
  <1> QED BY <1>1 DEF Retained, AttrData

-----------------------------------------------------------------------------
(* Levels over more ids.                                                   *)

\* What is made of some ids is made of more.
LEMMA Monotone ==
  ASSUME NEW ids, NEW more \in SUBSET Id, ids \subseteq more
  PROVE  /\ AttrData(ids) \subseteq AttrData(more)
         /\ Level(ids) \subseteq Level(more)
         /\ Seq(Frame(ids)) \subseteq Seq(Frame(more))
  <1>1. Value(ids) \subseteq Value(more)
    BY DEF Value
  <1>2. Seq(Value(ids)) \subseteq Seq(Value(more))
    BY <1>1, SeqMonotonic
  <1>3. AttrData(ids) \subseteq AttrData(more)
    BY <1>2 DEF AttrData
  <1>4. Objects(ids) \subseteq Objects(more)
    BY <1>3 DEF Objects
  <1>5. Level(ids) \subseteq Level(more)
    BY <1>4 DEF Level
  <1>6. Frame(ids) \subseteq Frame(more)
    BY <1>5 DEF Frame
  <1> QED BY <1>3, <1>5, <1>6, SeqMonotonic

\* A transaction starts with no entries.
LEMMA NoObjectsType ==
  ASSUME NEW ids
  PROVE  NoObjects \in Objects(ids)
  BY DEF NoObjects, Objects

\* A level with one more entry.
LEMMA WithEntryType ==
  ASSUME NEW ids \in SUBSET Id, NEW level \in Level(ids), NEW id \in ids,
         NEW attrs \in AttrData(ids)
  PROVE  WithEntry(level, id, attrs) \in Level(ids)
  BY DEF WithEntry, Level, Objects

\* A level with one more root.
LEMMA WithRootType ==
  ASSUME NEW ids \in SUBSET Id, NEW level \in Level(ids), NEW id \in ids
  PROVE  WithRoot(level, id) \in Level(ids)
  BY DEF WithRoot, Level

\* A level a transaction has been committed into.
LEMMA MergedType ==
  ASSUME NEW ids, NEW level \in Level(ids), NEW update \in Level(ids)
  PROVE  Merged(level, update) \in Level(ids)
  <1>1. [i \in Id |-> IF update.objs[i] = Missing THEN level.objs[i] ELSE update.objs[i]]
          \in Objects(ids)
    BY DEF Level, Objects
  <1> QED BY <1>1 DEF Merged, Level

-----------------------------------------------------------------------------
(* The inductive invariant.  The last part says that the search of a read  *)
(* for the topmost level with an entry finds one: a fact about finite sets *)
(* of levels, established here along the steps of the system.              *)

TopmostHolder ==
  \A d \in 1 .. Depth, id \in Id :
    Holders(d, id) # {} => \E j \in Holders(d, id) : \A i \in Holders(d, id) : i <= j

IInv == TypeOK /\ Fresh /\ TopmostHolder

\* With n levels open, what lies under the innermost one lay there before.
LowerKept(n) == \A d \in 1 .. n - 1 : d \in 1 .. Depth /\ stack'[d].tx = stack[d].tx

\* Reads find the topmost entry after a step that keeps the lower levels.
LEMMA TopmostHolderStep ==
  ASSUME IInv, NEW n \in Nat, Depth' = n, LowerKept(n)
  PROVE  TopmostHolder'
  <1> SUFFICES ASSUME NEW d \in 1 .. n, NEW id \in Id, Holders(d, id)' # {}
               PROVE  \E j \in Holders(d, id)' : \A i \in Holders(d, id)' : i <= j
    BY DEF TopmostHolder
  <1>1. CASE d < n
    <2>1. d \in 1 .. Depth /\ \A j \in 1 .. d : stack'[j].tx = stack[j].tx
      BY <1>1 DEF LowerKept
    <2>2. Holders(d, id)' = Holders(d, id)
      BY <2>1 DEF Holders
    <2> QED BY <2>1, <2>2 DEF IInv, TopmostHolder
  <1>2. CASE d = n /\ d \in Holders(d, id)'
    BY <1>2 DEF Holders
  <1>3. CASE d = n /\ d \notin Holders(d, id)'
    <2>1. Holders(d, id)' \subseteq 1 .. d - 1
      BY <1>3 DEF Holders
    <2>2. d - 1 \in 1 .. n - 1
      BY <1>3, <2>1
    <2>3. d - 1 \in 1 .. Depth /\ \A j \in 1 .. d - 1 : stack'[j].tx = stack[j].tx
      BY <1>3, <2>2 DEF LowerKept
    <2>4. Holders(d, id)' = Holders(d - 1, id)
      BY <1>3, <2>1, <2>3 DEF Holders
    <2> QED BY <2>3, <2>4 DEF IInv, TopmostHolder
  <1> QED BY <1>1, <1>2, <1>3

\* The levels and the ids in use.
LEMMA Shape ==
  ASSUME IInv
  PROVE  /\ Depth \in Nat /\ Depth >= 1
         /\ Held \subseteq Id
         /\ stack \in Seq(Frame(Held))
         /\ \A d \in 1 .. Depth : stack[d] \in Frame(Held) /\ stack[d].tx \in Level(Held)
         /\ Tx \in Level(Held)
  <1>1. Depth \in 1 .. MaxDepth /\ nextId \in 1 .. MaxId + 1 /\ stack \in Seq(Frame(Held))
    BY DEF IInv, TypeOK, Fresh
  <1>2. Held \subseteq Id
    BY <1>1, MaxIdAssumption DEF Held, Id
  <1>3. \A d \in 1 .. Depth : stack[d] \in Frame(Held)
    BY <1>1, ElementOfSeq DEF Depth
  <1> QED BY <1>1, <1>2, <1>3, BoundsAssumption DEF Frame, Tx

\* A read of a level is a list of attributes made of the ids handed out.
LEMMA AttrsType ==
  ASSUME IInv, NEW d \in 1 .. Depth, NEW level \in Level(Held), NEW id \in Id
  PROVE  Attrs(level, d, id) \in AttrData(Held)
  <1>1. Below(d - 1, id) \in AttrData(Held)
    <2>1. CASE Holders(d - 1, id) = {}
      BY <2>1, NoAttrsType DEF Below
    <2>2. CASE Holders(d - 1, id) # {}
      <3>1. d - 1 \in 1 .. Depth
        BY <2>2, Shape DEF Holders
      <3> DEFINE top == CHOOSE j \in Holders(d - 1, id) : \A i \in Holders(d - 1, id) : i <= j
      <3>2. top \in Holders(d - 1, id)
        BY <2>2, <3>1 DEF IInv, TopmostHolder
      <3> HIDE DEF top
      <3>3. top \in 1 .. Depth /\ stack[top].tx.objs[id] # Missing
        BY <3>1, <3>2, Shape DEF Holders
      <3>4. stack[top].tx.objs[id] \in AttrData(Held)
        BY <3>3, Shape DEF Level, Objects
      <3> QED BY <2>2, <3>4 DEF Below, top
    <2> QED BY <2>1, <2>2
  <1>2. level.objs[id] \in {Missing} \cup AttrData(Held)
    BY DEF Level, Objects
  <1> QED BY <1>1, <1>2 DEF Attrs

\* What the innermost level shows of an object is of its held ids.
LEMMA ReadType ==
  ASSUME IInv, NEW id \in Id
  PROVE  Read(id) \in AttrData(Held)
  BY Shape, AttrsType DEF Read

-----------------------------------------------------------------------------
(* Every step preserves the invariant.                                     *)

\* What is left to show of a step: what it stores is made of ids handed out.
LEMMA Preserved ==
  ASSUME IInv, NEW n \in 1 .. MaxDepth, Depth' = n, LowerKept(n),
         nextId' \in 1 .. MaxId + 1, stack' \in Seq(Frame(Held'))
  PROVE  IInv'
  <1>1. n \in Nat
    BY BoundsAssumption
  <1>2. TopmostHolder'
    BY <1>1, TopmostHolderStep
  <1>3. Held' \subseteq Id
    BY MaxIdAssumption DEF Held, Id
  <1>4. stack' \in Seq(Frame(Id))
    BY <1>3, Monotone
  <1> QED BY <1>2, <1>4 DEF IInv, TypeOK, Fresh

\* A step of the innermost level.
LEMMA UpdateStep ==
  ASSUME IInv, NEW level \in Level(Held'), Update(level),
         nextId' \in nextId .. MaxId + 1
  PROVE  IInv'
  <1> USE Shape
  <1>1. nextId' \in 1 .. MaxId + 1 /\ nextId \in 1 .. MaxId + 1
    BY MaxIdAssumption DEF IInv, TypeOK
  <1>2. Held' \subseteq Id /\ Held \subseteq Held'
    BY <1>1, MaxIdAssumption DEF Held, Id
  <1>3. stack \in Seq(Frame(Held'))
    BY <1>2, Monotone
  <1> DEFINE frame == [stack[Depth] EXCEPT !.tx = level]
  <1>4. Depth \in 1 .. Len(stack) /\ stack' = [stack EXCEPT ![Depth] = frame]
    BY DEF Update, Depth
  <1>5. stack[Depth] \in Frame(Held')
    BY <1>3, <1>4, ElementOfSeq
  <1>6. frame \in Frame(Held') /\ frame.tx = level
    BY <1>5 DEF Frame
  <1> HIDE DEF frame
  <1>7. stack' \in Seq(Frame(Held')) /\ Len(stack') = Len(stack)
    BY <1>3, <1>4, <1>6, ExceptSeq
  <1>8. \A d \in 1 .. Depth - 1 : d \in 1 .. Depth /\ stack'[d] = stack[d]
    BY <1>3, <1>4, <1>6, ExceptSeq DEF Depth
  <1>9. Depth' = Depth /\ Depth \in 1 .. MaxDepth
    BY <1>7 DEF Depth, IInv, TypeOK
  <1>10. LowerKept(Depth)
    BY <1>8 DEF LowerKept
  <1> QED BY <1>1, <1>7, <1>9, <1>10, Preserved

\* attributes_mut and an edit of it.
LEMMA EditStep ==
  ASSUME IInv, NEW id \in Held, NEW attrs \in AttrData(Held), Edit(id, attrs)
  PROVE  IInv'
  <1>1. WithEntry(Tx, id, attrs) \in Level(Held)
    BY Shape, WithEntryType
  <1>2. Held' = Held /\ nextId' \in nextId .. MaxId + 1
    BY DEF Edit, Held, IInv, TypeOK
  <1> QED BY <1>1, <1>2, UpdateStep DEF Edit

\* The steps that hand out an id.
LEMMA NewIdStep ==
  ASSUME IInv, NewId
  PROVE  /\ nextId \in Id /\ nextId \in Held'
         /\ nextId' \in nextId .. MaxId + 1
         /\ Held \subseteq Held' /\ Held' \in SUBSET Id
         /\ Tx \in Level(Held')
         /\ Read(nextId) \in AttrData(Held')
         /\ \A id \in Id : Read(id) \in AttrData(Held')
  <1>1. nextId \in 1 .. MaxId + 1 /\ nextId <= MaxId /\ nextId' = nextId + 1
    BY DEF IInv, TypeOK, NewId
  <1>2. nextId \in Id /\ nextId \in Held' /\ Held \subseteq Held' /\ Held' \in SUBSET Id
    BY <1>1, MaxIdAssumption DEF Id, Held
  <1>3. Tx \in Level(Held) /\ \A id \in Id : Read(id) \in AttrData(Held)
    BY Shape, ReadType
  <1>4. Level(Held) \subseteq Level(Held') /\ AttrData(Held) \subseteq AttrData(Held')
    BY <1>2, Monotone
  <1> QED BY <1>1, <1>2, <1>3, <1>4, MaxIdAssumption

\* Nothing is known when the space is new.
LEMMA InitInvariant == Init => IInv
  <1> SUFFICES ASSUME Init PROVE IInv
    OBVIOUS
  <1> DEFINE empty == [tx |-> [roots |-> {}, objs |-> NoObjects], clones |-> {}]
  <1>1. empty \in Frame(Held) /\ empty \in Frame(Id) /\ empty.tx.objs = NoObjects
    BY NoObjectsType DEF Frame, Level
  <1>2. stack = <<empty>> /\ nextId = 1
    BY DEF Init
  <1> HIDE DEF empty
  <1>3. stack \in Seq(Frame(Held)) /\ stack \in Seq(Frame(Id)) /\ Len(stack) = 1
    BY <1>1, <1>2
  <1>4. TypeOK /\ Fresh
    BY <1>2, <1>3, MaxIdAssumption, BoundsAssumption DEF TypeOK, Fresh, Depth
  <1>5. ASSUME NEW d \in 1 .. Depth, NEW id \in Id
        PROVE  Holders(d, id) = {}
    BY <1>1, <1>2, <1>3 DEF Holders, Depth, NoObjects
  <1> QED BY <1>4, <1>5 DEF IInv, TopmostHolder

\* The steps that make a new object.
LEMMA CreateSteps ==
  ASSUME IInv, CreateId \/ CreateRootId \/ CreateObject \/ CreateRootObject
  PROVE  IInv'
  <1>1. NewId
    BY DEF CreateId, CreateRootId, CreateObject, CreateRootObject
  <1> DEFINE rooted == WithRoot(Tx, nextId)
  <1>2. rooted \in Level(Held')
    BY <1>1, NewIdStep, WithRootType
  <1>3. WithEntry(Tx, nextId, Read(nextId)) \in Level(Held')
    BY <1>1, NewIdStep, WithEntryType
  <1>4. WithEntry(rooted, nextId, Read(nextId)) \in Level(Held')
    BY <1>1, <1>2, NewIdStep, WithEntryType
  <1>5. nextId' \in nextId .. MaxId + 1
    BY <1>1, NewIdStep
  <1> HIDE DEF rooted
  <1>6. CASE CreateId
    <2>1. stack' = stack /\ Held' \in SUBSET Id /\ Held \subseteq Held'
      BY <1>1, <1>6, NewIdStep DEF CreateId
    <2>2. stack' \in Seq(Frame(Held'))
      BY <2>1, Shape, Monotone
    <2>3. Depth' = Depth /\ Depth \in 1 .. MaxDepth /\ LowerKept(Depth)
      BY <2>1 DEF Depth, IInv, TypeOK, LowerKept
    <2>4. nextId' \in 1 .. MaxId + 1
      BY <1>5 DEF IInv, TypeOK
    <2> QED BY <2>2, <2>3, <2>4, Preserved
  <1>7. CASE CreateRootId
    BY <1>2, <1>5, <1>7, UpdateStep DEF CreateRootId, rooted
  <1>8. CASE CreateObject
    BY <1>3, <1>5, <1>8, UpdateStep DEF CreateObject
  <1>9. CASE CreateRootObject
    BY <1>4, <1>5, <1>9, UpdateStep DEF CreateRootObject, rooted
  <1> QED BY <1>6, <1>7, <1>8, <1>9

\* The copy of an object.
LEMMA CloneObjectStep ==
  ASSUME IInv, NEW id \in Held, CloneObject(id)
  PROVE  IInv'
  <1>1. NewId /\ id \in Id
    BY DEF CloneObject, Held
  <1>2. WithEntry(Tx, nextId, Read(id)) \in Level(Held')
    BY <1>1, NewIdStep, WithEntryType
  <1>3. nextId' \in nextId .. MaxId + 1
    BY <1>1, NewIdStep
  <1>4. CASE UNCHANGED stack
    BY <1>1, <1>4, CreateSteps DEF CreateId
  <1>5. CASE Update(WithEntry(Tx, nextId, Read(id)))
    BY <1>2, <1>3, <1>5, UpdateStep
  <1> QED BY <1>4, <1>5 DEF CloneObject

\* Everything a client can do with an id it holds.
LEMMA UseStep ==
  ASSUME IInv, NEW id \in Held, Use(id)
  PROVE  IInv'
  <1> DEFINE attrs == Read(id)
  <1>1. attrs \in AttrData(Held) /\ id \in Id
    BY ReadType DEF Held
  <1>2. UNCHANGED nextId => nextId' \in nextId .. MaxId + 1 /\ Held' = Held
    BY DEF Held, IInv, TypeOK
  <1> HIDE DEF attrs
  <1>3. CASE CloneObject(id)
    BY <1>3, CloneObjectStep
  <1>4. CASE RegisterRoot(id)
    <2>1. WithRoot(Tx, id) \in Level(Held)
      BY Shape, WithRootType
    <2> QED BY <1>2, <1>4, <2>1, UpdateStep DEF RegisterRoot
  <1>5. CASE UnregisterRoot(id)
    <2>1. [Tx EXCEPT !.roots = Tx.roots \ {id}] \in Level(Held)
      BY Shape DEF Level
    <2> QED BY <1>2, <1>5, <2>1, UpdateStep DEF UnregisterRoot
  <1>6. CASE Retain(id)
    BY <1>1, <1>6, RetainedType, EditStep DEF Retain, attrs
  <1>7. CASE ClearAll(id)
    BY <1>7, NoAttrsType, EditStep DEF ClearAll
  <1>8. ASSUME NEW n \in Names, NEW v \in Value(Held), Add(id, n, v)
        PROVE  IInv'
    BY <1>1, <1>8, AddedType, EditStep DEF Add, attrs
  <1>9. ASSUME NEW n \in Names, RemoveSingle(id, n)
        PROVE  IInv'
    BY <1>1, <1>9, RemovedType, EditStep DEF RemoveSingle, attrs
  <1>10. ASSUME NEW n \in Names, RemoveSingleNamed(id, n)
         PROVE  IInv'
    BY <1>1, <1>10, PoppedType, EditStep DEF RemoveSingleNamed, attrs
  <1>11. ASSUME NEW n \in Names, RemoveAllNamed(id, n) \/ RetainNamed(id, n) \/ ClearNamed(id, n)
         PROVE  IInv'
    BY <1>1, <1>11, ClearedType, EditStep DEF RemoveAllNamed, RetainNamed, ClearNamed, attrs
  <1> QED BY <1>3, <1>4, <1>5, <1>6, <1>7, <1>8, <1>9, <1>10, <1>11 DEF Use

\* A transaction opens: its roots are the ones of the level below.
LEMMA BeginStep ==
  ASSUME IInv, Begin
  PROVE  IInv'
  <1> USE Shape
  <1> DEFINE frame == [tx |-> [Tx EXCEPT !.objs = NoObjects], clones |-> {}]
  <1>1. frame \in Frame(Held)
    BY NoObjectsType DEF Frame, Level
  <1>2. stack' = Append(stack, frame) /\ nextId' = nextId /\ Depth < MaxDepth
    BY DEF Begin
  <1> HIDE DEF frame
  <1>3. /\ stack' \in Seq(Frame(Held))
        /\ Len(stack') = Len(stack) + 1
        /\ \A d \in 1 .. Len(stack) : stack'[d] = stack[d]
    BY <1>1, <1>2, AppendProperties
  <1>4. Held' = Held /\ nextId' \in 1 .. MaxId + 1
    BY <1>2 DEF Held, IInv, TypeOK
  <1>5. Depth' = Depth + 1 /\ Depth + 1 \in 1 .. MaxDepth
    BY <1>2, <1>3, BoundsAssumption DEF Depth
  <1>6. LowerKept(Depth + 1)
    BY <1>3 DEF LowerKept, Depth
  <1> QED BY <1>3, <1>4, <1>5, <1>6, Preserved

\* The innermost transaction ends, with or without effect on the level below.
LEMMA EndStep ==
  ASSUME IInv, Depth > 1, UNCHANGED nextId,
         NEW level \in Level(Held),
         stack' = [i \in 1 .. Depth - 1 |->
                     IF i = Depth - 1 THEN [stack[i] EXCEPT !.tx = level] ELSE stack[i]]
  PROVE  IInv'
  <1> USE Shape
  <1> DEFINE n == Depth - 1
  <1>1. n \in Nat /\ n \in 1 .. MaxDepth /\ n \in 1 .. Depth
    <2>1. Depth \in 1 .. MaxDepth
      BY DEF IInv, TypeOK
    <2> QED BY <2>1, BoundsAssumption
  <1> DEFINE frame(i) == IF i = n THEN [stack[i] EXCEPT !.tx = level] ELSE stack[i]
  <1>2. \A i \in 1 .. n : frame(i) \in Frame(Held)
    <2>1. \A i \in 1 .. n : stack[i] \in Frame(Held)
      BY <1>1
    <2>2. \A f \in Frame(Held) : [f EXCEPT !.tx = level] \in Frame(Held)
      BY DEF Frame
    <2> QED BY <2>1, <2>2, Zenon
  <1>3. stack' = [i \in 1 .. n |-> frame(i)] /\ \A i \in 1 .. n - 1 : frame(i) = stack[i]
    BY <1>1
  <1> HIDE DEF n, frame
  <1>4. stack' \in Seq(Frame(Held)) /\ Len(stack') = n
    <2>1. stack' \in [1 .. n -> Frame(Held)]
      BY <1>2, <1>3
    <2> QED BY <1>1, <2>1, FunctionIsSeq
  <1>5. Held' = Held /\ nextId' \in 1 .. MaxId + 1
    BY DEF Held, IInv, TypeOK
  <1>6. Depth' = n
    BY <1>4 DEF Depth
  <1>7. LowerKept(n)
    BY <1>1, <1>3 DEF LowerKept
  <1> QED BY <1>1, <1>4, <1>5, <1>6, <1>7, Preserved

\* A commit merges well-formed entries into a well-formed level.
LEMMA CommitStep ==
  ASSUME IInv, Commit
  PROVE  IInv'
  <1>1. Depth > 1 /\ Depth - 1 \in 1 .. Depth
    BY Shape DEF Commit
  <1> DEFINE level == Merged(stack[Depth - 1].tx, Tx)
  <1>2. level \in Level(Held)
    BY <1>1, Shape, MergedType
  <1>3. stack' = [i \in 1 .. Depth - 1 |->
                    IF i = Depth - 1 THEN [stack[i] EXCEPT !.tx = level] ELSE stack[i]]
    BY DEF Commit
  <1> HIDE DEF level
  <1> QED BY <1>1, <1>2, <1>3, EndStep DEF Commit

\* An abort leaves levels that were well formed before.
LEMMA AbortStep ==
  ASSUME IInv, Abort
  PROVE  IInv'
  <1>1. Depth > 1 /\ Depth - 1 \in 1 .. Depth
    BY Shape DEF Abort
  <1> DEFINE level == stack[Depth - 1].tx
  <1>2. level \in Level(Held) /\ [stack[Depth - 1] EXCEPT !.tx = level] = stack[Depth - 1]
    BY <1>1, Shape DEF Frame
  <1>3. stack' = [i \in 1 .. Depth - 1 |->
                    IF i = Depth - 1 THEN [stack[i] EXCEPT !.tx = level] ELSE stack[i]]
    BY <1>2 DEF Abort
  <1> HIDE DEF level
  <1> QED BY <1>1, <1>2, <1>3, EndStep DEF Abort

\* The innermost transaction and its copies change roles.
LEMMA FrameStep ==
  ASSUME IInv, UNCHANGED nextId, NEW frame \in Frame(Held),
         stack' = [stack EXCEPT ![Depth] = frame]
  PROVE  IInv'
  <1> USE Shape
  <1>1. Depth \in 1 .. Len(stack)
    BY DEF Depth
  <1>2. stack' \in Seq(Frame(Held)) /\ Len(stack') = Len(stack)
    BY <1>1, ExceptSeq
  <1>3. \A d \in 1 .. Depth - 1 : d \in 1 .. Depth /\ stack'[d] = stack[d]
    BY <1>1, ExceptSeq DEF Depth
  <1>4. Held' = Held /\ nextId' \in 1 .. MaxId + 1 /\ Depth' = Depth /\ Depth \in 1 .. MaxDepth
    BY <1>2 DEF Held, Depth, IInv, TypeOK
  <1> QED BY <1>2, <1>3, <1>4, Preserved DEF LowerKept

\* A copy of a transaction is as well formed as the transaction.
LEMMA CopySteps ==
  ASSUME IInv, CloneTransaction \/ SwitchTransaction
  PROVE  IInv'
  <1>1. stack[Depth] \in Frame(Held) /\ Tx \in Level(Held)
    BY Shape
  <1>2. CASE CloneTransaction
    <2> DEFINE frame == [stack[Depth] EXCEPT !.clones = stack[Depth].clones \cup {Tx}]
    <2>1. frame \in Frame(Held)
      BY <1>1 DEF Frame
    <2>2. stack' = [stack EXCEPT ![Depth] = frame]
      BY <1>2 DEF CloneTransaction
    <2> HIDE DEF frame
    <2> QED BY <1>2, <2>1, <2>2, FrameStep DEF CloneTransaction
  <1>3. CASE SwitchTransaction
    <2>1. PICK c \in stack[Depth].clones :
            stack' = [stack EXCEPT ![Depth] =
                        [tx |-> c, clones |-> (stack[Depth].clones \ {c}) \cup {Tx}]]
      BY <1>3 DEF SwitchTransaction
    <2>2. [tx |-> c, clones |-> (stack[Depth].clones \ {c}) \cup {Tx}] \in Frame(Held)
      BY <1>1 DEF Frame
    <2> QED BY <1>3, <2>1, <2>2, FrameStep DEF SwitchTransaction
  <1> QED BY <1>2, <1>3

\* The steps that drop entries of the space.
LEMMA SpaceSteps ==
  ASSUME IInv, CollectGarbage \/ ShrinkToFit
  PROVE  IInv'
  <1>1. Tx \in Level(Held) /\ UNCHANGED nextId
    BY Shape DEF CollectGarbage, ShrinkToFit
  <1>2. Held' = Held /\ nextId' \in nextId .. MaxId + 1
    BY <1>1 DEF Held, IInv, TypeOK
  <1>3. CASE CollectGarbage
    <2> DEFINE kept == [i \in Id |-> IF i \in Reachable(Tx) THEN Tx.objs[i] ELSE Missing]
    <2>1. kept \in Objects(Held)
      BY <1>1 DEF Level, Objects
    <2> HIDE DEF kept
    <2>2. [Tx EXCEPT !.objs = kept] \in Level(Held)
      BY <1>1, <2>1 DEF Level
    <2>3. Update([Tx EXCEPT !.objs = kept])
      BY <1>3 DEF CollectGarbage, kept
    <2> QED BY <1>2, <2>2, <2>3, UpdateStep
  <1>4. CASE ShrinkToFit
    <2> DEFINE kept == [i \in Id |-> IF Tx.objs[i] = NoAttrs THEN Missing ELSE Tx.objs[i]]
    <2>1. kept \in Objects(Held)
      BY <1>1 DEF Level, Objects
    <2> HIDE DEF kept
    <2>2. [Tx EXCEPT !.objs = kept] \in Level(Held)
      BY <1>1, <2>1 DEF Level
    <2>3. Update([Tx EXCEPT !.objs = kept])
      BY <1>4 DEF ShrinkToFit, kept
    <2> QED BY <1>2, <2>2, <2>3, UpdateStep
  <1> QED BY <1>3, <1>4

\* Every operation of a space or a transaction, and every end of one, keeps
\* the invariant.
LEMMA NextInvariant == IInv /\ [Next]_vars => IInv'
  <1> SUFFICES ASSUME IInv, [Next]_vars PROVE IInv'
    OBVIOUS
  <1>1. CASE UNCHANGED vars
    BY <1>1 DEF vars, IInv, TypeOK, Fresh, TopmostHolder, Depth, Holders, Held
  <1>2. CASE CreateId \/ CreateRootId \/ CreateObject \/ CreateRootObject
    BY <1>2, CreateSteps
  <1>3. CASE \E id \in Held : Use(id)
    BY <1>3, UseStep
  <1>4. CASE Begin
    BY <1>4, BeginStep
  <1>5. CASE Commit
    BY <1>5, CommitStep
  <1>6. CASE Abort
    BY <1>6, AbortStep
  <1>7. CASE CloneTransaction \/ SwitchTransaction
    BY <1>7, CopySteps
  <1>8. CASE CollectGarbage \/ ShrinkToFit
    BY <1>8, SpaceSteps
  <1> QED BY <1>1, <1>2, <1>3, <1>4, <1>5, <1>6, <1>7, <1>8 DEF Next

\* The fields of Space and of every open transaction keep their shape.
THEOREM TypeCorrect == Spec => []TypeOK
  <1>1. IInv => TypeOK
    BY DEF IInv
  <1> QED BY InitInvariant, NextInvariant, <1>1, PTL DEF Spec

\* No level knows an id that has not been handed out.
THEOREM FreshIds == Spec => []Fresh
  <1>1. IInv => Fresh
    BY DEF IInv
  <1> QED BY InitInvariant, NextInvariant, <1>1, PTL DEF Spec

-----------------------------------------------------------------------------
(* The refinement.  A level is seen through what lies under it; a step     *)
(* changes the innermost level, or adds or ends one, so what lies under    *)
(* the levels that stay is the same before and after it.                   *)

\* A level, read through the attributes the levels below it show.
Overlay(level, under) ==
  [roots |-> level.roots,
   attrs |-> [id \in Id |->
                Contents(IF level.objs[id] = Missing THEN under[id] ELSE level.objs[id])]]

Under(d) == [id \in Id |-> Below(d - 1, id)]

View(frame, under) ==
  [tx |-> Overlay(frame.tx, under), clones |-> {Overlay(c, under) : c \in frame.clones}]

\* With n levels open, what lies under the innermost one lay there before.
FramesKept(n) == \A d \in 1 .. n - 1 : d \in 1 .. Depth /\ stack'[d] = stack[d]

ShownAsViews ==
  /\ Snaps = [d \in 1 .. Depth |-> View(stack[d], Under(d))]
  /\ DOMAIN Snaps = 1 .. Depth
  /\ Abstract!Depth = Depth
  /\ Abstract!Tx = Overlay(Tx, Under(Depth))

\* The snapshots, level by level.
LEMMA SnapsShape == IInv => ShownAsViews
  <1> SUFFICES ASSUME IInv PROVE ShownAsViews
    OBVIOUS
  <1>1. ASSUME NEW level, NEW d
        PROVE  Snap(level, d) = Overlay(level, Under(d))
    BY DEF Snap, Overlay, Under, Attrs
  <1>2. DOMAIN stack = 1 .. Depth /\ Depth \in Nat /\ Depth >= 1
    BY Shape DEF Depth
  <1>3. \A d \in 1 .. Depth :
          [tx |-> Snap(stack[d].tx, d), clones |-> {Snap(c, d) : c \in stack[d].clones}]
            = View(stack[d], Under(d))
    BY <1>1 DEF View
  <1>4. Snaps = [d \in 1 .. Depth |-> View(stack[d], Under(d))]
    BY <1>2, <1>3 DEF Snaps
  <1>5. DOMAIN Snaps = 1 .. Depth
    BY <1>4
  <1>6. Len(Snaps) = Depth
    <2> DEFINE S == {Snaps[d] : d \in 1 .. Depth}
    <2>1. Snaps \in [1 .. Depth -> S]
      BY <1>4
    <2> HIDE DEF S
    <2> QED BY <1>2, <2>1, FunctionIsSeq
  <1>7. Abstract!Depth = Depth
    BY <1>6 DEF Abstract!Depth
  <1>8. Snaps[Depth].tx = Overlay(Tx, Under(Depth))
    BY <1>2, <1>4 DEF View, Tx
  <1> QED BY <1>4, <1>5, <1>7, <1>8 DEF Abstract!Tx, ShownAsViews

\* What lies under the level on top of level d is what level d shows.
LEMMA BelowIsRead ==
  ASSUME IInv, NEW d \in 1 .. Depth, NEW id \in Id
  PROVE  Below(d, id) = Attrs(stack[d].tx, d, id)
  <1> DEFINE Top(S) == CHOOSE j \in S : \A i \in S : i <= j
  <1>1. ASSUME NEW n
        PROVE  Below(n, id) = IF Holders(n, id) = {} THEN NoAttrs
                              ELSE stack[Top(Holders(n, id))].tx.objs[id]
    BY DEF Below
  <1>2. d \in Nat /\ d >= 1
    BY Shape
  <1>3. CASE stack[d].tx.objs[id] = Missing
    <2>1. Holders(d, id) = Holders(d - 1, id)
      BY <1>2, <1>3 DEF Holders
    <2> HIDE DEF Top
    <2>2. Below(d, id) = Below(d - 1, id)
      BY <1>1, <2>1
    <2> QED BY <1>3, <2>2 DEF Attrs
  <1>4. CASE stack[d].tx.objs[id] # Missing
    <2>1. d \in Holders(d, id) /\ \A i \in Holders(d, id) : i \in Nat /\ i <= d
      BY <1>2, <1>4 DEF Holders
    <2>2. Top(Holders(d, id)) \in Holders(d, id) /\ d <= Top(Holders(d, id))
      BY <2>1
    <2> HIDE DEF Top
    <2>3. Top(Holders(d, id)) = d
      BY <2>1, <2>2, <1>2
    <2>4. Below(d, id) = stack[d].tx.objs[id]
      BY <1>1, <2>1, <2>3
    <2> QED BY <1>4, <2>4 DEF Attrs
  <1> QED BY <1>3, <1>4

\* A step that keeps the lower levels keeps what lies under the innermost one.
LEMMA UnderKept ==
  ASSUME IInv, NEW n \in Nat, FramesKept(n), NEW d \in 1 .. n
  PROVE  Under(d)' = Under(d)
  <1> SUFFICES ASSUME NEW id \in Id
               PROVE  Below(d - 1, id)' = Below(d - 1, id)
    BY DEF Under
  <1> DEFINE Top(S) == CHOOSE j \in S : \A i \in S : i <= j
  <1> DEFINE H == Holders(d - 1, id)
  <1>1. \A j \in 1 .. d - 1 : j \in 1 .. Depth /\ stack'[j] = stack[j]
    BY DEF FramesKept
  <1>2. H' = H
    BY <1>1 DEF Holders
  <1>3. Below(d - 1, id) = IF H = {} THEN NoAttrs ELSE stack[Top(H)].tx.objs[id]
    BY DEF Below
  <1>4. Below(d - 1, id)' = IF H' = {} THEN NoAttrs ELSE stack'[Top(H')].tx.objs[id]
    BY DEF Below
  <1>5. CASE H = {}
    BY <1>2, <1>3, <1>4, <1>5
  <1>6. CASE H # {}
    <2>1. d - 1 \in 1 .. Depth
      BY <1>1, <1>6 DEF Holders
    <2>2. \E j \in H : \A i \in H : i <= j
      BY <1>6, <2>1 DEF IInv, TopmostHolder
    <2>3. Top(H) \in 1 .. d - 1
      BY <2>2 DEF Holders
    <2> HIDE DEF Top, H
    <2>4. stack'[Top(H)] = stack[Top(H)]
      BY <1>1, <2>3
    <2> QED BY <1>2, <1>3, <1>4, <1>6, <2>4
  <1> QED BY <1>5, <1>6

\* The snapshots after a step that keeps the lower levels.
LEMMA SnapsAfter ==
  ASSUME IInv, IInv', NEW n \in Nat, Depth' = n, FramesKept(n)
  PROVE  /\ Snaps' = [d \in 1 .. n |-> View(stack'[d], Under(d))]
         /\ \A d \in 1 .. n - 1 : Snaps'[d] = Snaps[d]
  <1>1. Snaps' = [d \in 1 .. n |-> View(stack'[d], Under(d)')]
    <2>1. IInv' => ShownAsViews'
      BY SnapsShape, PTL
    <2> QED BY <2>1 DEF ShownAsViews
  <1>2. \A d \in 1 .. n : View(stack'[d], Under(d)') = View(stack'[d], Under(d))
    BY UnderKept
  <1>3. Snaps' = [d \in 1 .. n |-> View(stack'[d], Under(d))]
    BY <1>1, <1>2
  <1>4. \A d \in 1 .. n - 1 : d \in 1 .. n /\ d \in 1 .. Depth /\ stack'[d] = stack[d]
    BY DEF FramesKept
  <1> QED BY <1>3, <1>4, SnapsShape DEF ShownAsViews

\* A step of the innermost level, as a step of the innermost snapshot.
LEMMA FrameView ==
  ASSUME IInv, IInv', NEW frame, stack' = [stack EXCEPT ![Depth] = frame]
  PROVE  /\ Depth' = Depth
         /\ Snaps' = [Snaps EXCEPT ![Depth] = View(frame, Under(Depth))]
         /\ \A d \in 1 .. Depth - 1 : Snaps'[d] = Snaps[d]
  <1> DEFINE S == Frame(Held) \cup {frame}
  <1>1. stack \in Seq(S) /\ Depth \in 1 .. Len(stack) /\ frame \in S /\ Depth \in Nat
    <2>1. stack \in Seq(Frame(Held)) /\ Depth \in Nat /\ Depth >= 1
      BY Shape
    <2>2. stack \in Seq(S)
      BY <2>1, SeqMonotonic
    <2> QED BY <2>1, <2>2 DEF Depth
  <1> HIDE DEF S
  <1>2. /\ Len(stack') = Len(stack)
        /\ \A d \in 1 .. Len(stack) : stack'[d] = IF d = Depth THEN frame ELSE stack[d]
    BY <1>1, ExceptSeq
  <1>3. Depth' = Depth
    BY <1>2 DEF Depth
  <1>4. \A d \in 1 .. Depth : stack'[d] = IF d = Depth THEN frame ELSE stack[d]
    BY <1>2 DEF Depth
  <1>5. FramesKept(Depth)
    BY <1>1, <1>4 DEF FramesKept
  <1>6. Snaps' = [d \in 1 .. Depth |-> View(stack'[d], Under(d))]
    BY <1>1, <1>3, <1>5, SnapsAfter
  <1>7. Snaps = [d \in 1 .. Depth |-> View(stack[d], Under(d))]
    BY SnapsShape DEF ShownAsViews
  <1>8. Snaps' = [Snaps EXCEPT ![Depth] = View(frame, Under(Depth))]
    <2>1. \A d \in 1 .. Depth :
            View(stack'[d], Under(d))
              = IF d = Depth THEN View(frame, Under(Depth)) ELSE View(stack[d], Under(d))
      BY <1>4
    <2> QED BY <1>6, <1>7, <2>1
  <1>9. \A d \in 1 .. Depth - 1 : Snaps'[d] = Snaps[d]
    BY <1>1, <1>3, <1>5, SnapsAfter
  <1> QED BY <1>3, <1>8, <1>9

\* An update of the innermost level, as one of the innermost snapshot.
LEMMA UpdateView ==
  ASSUME IInv, IInv', NEW level, Update(level)
  PROVE  /\ Abstract!Becomes(Overlay(level, Under(Depth)))
         /\ Depth' = Depth
         /\ \A d \in 1 .. Depth - 1 : Snaps'[d] = Snaps[d]
  <1> DEFINE frame == [stack[Depth] EXCEPT !.tx = level]
  <1>1. stack' = [stack EXCEPT ![Depth] = frame]
    BY DEF Update
  <1>2. Depth \in 1 .. Depth /\ stack[Depth] \in Frame(Held)
    BY Shape
  <1>3. frame.tx = level /\ frame.clones = stack[Depth].clones
    BY <1>2 DEF Frame
  <1> HIDE DEF frame
  <1>4. /\ Depth' = Depth
        /\ Snaps' = [Snaps EXCEPT ![Depth] = View(frame, Under(Depth))]
        /\ \A d \in 1 .. Depth - 1 : Snaps'[d] = Snaps[d]
    BY <1>1, FrameView
  <1>5. Snaps[Depth] = View(stack[Depth], Under(Depth)) /\ Abstract!Depth = Depth
    BY <1>2, SnapsShape DEF ShownAsViews
  <1>6. View(frame, Under(Depth)) = [Snaps[Depth] EXCEPT !.tx = Overlay(level, Under(Depth))]
    BY <1>3, <1>5 DEF View
  <1> QED BY <1>4, <1>5, <1>6 DEF Abstract!Becomes

\* A read through the overlays.
LEMMA ReadView ==
  ASSUME IInv, NEW id \in Id
  PROVE  /\ Abstract!Tx.attrs[id] = Contents(Read(id))
         /\ Abstract!Tx = Overlay(Tx, Under(Depth))
         /\ Abstract!Tx.attrs = Overlay(Tx, Under(Depth)).attrs
  <1>1. Abstract!Tx = Overlay(Tx, Under(Depth))
    BY SnapsShape DEF ShownAsViews
  <1> QED BY <1>1 DEF Overlay, Under, Read, Attrs

\* An entry of its own shows what is in it.
LEMMA WithEntryView ==
  ASSUME IInv, NEW level, NEW ids, level \in Level(ids), NEW id \in Id,
         NEW attrs \in AttrData(Id), NEW under
  PROVE  Overlay(WithEntry(level, id, attrs), under)
           = [Overlay(level, under) EXCEPT !.attrs[id] = Contents(attrs)]
  <1>1. attrs # Missing
    BY MissingAssumption
  <1>2. level.objs \in [Id -> {Missing} \cup AttrData(ids)] /\ level.roots \in SUBSET ids
        /\ level = [roots |-> level.roots, objs |-> level.objs]
    BY DEF Level, Objects
  <1>3. WithEntry(level, id, attrs)
          = [roots |-> level.roots, objs |-> [level.objs EXCEPT ![id] = attrs]]
    BY <1>2 DEF WithEntry
  <1> DEFINE objs == [level.objs EXCEPT ![id] = attrs]
  <1>4. \A i \in Id : objs[i] = IF i = id THEN attrs ELSE level.objs[i]
    BY <1>2
  <1> HIDE DEF objs
  <1>5. WithEntry(level, id, attrs) = [roots |-> level.roots, objs |-> objs]
    BY <1>3 DEF objs
  <1> DEFINE shown(os) == [i \in Id |-> Contents(IF os[i] = Missing THEN under[i] ELSE os[i])]
  <1>6. shown(objs) = [shown(level.objs) EXCEPT ![id] = Contents(attrs)]
    BY <1>1, <1>4
  <1> HIDE DEF shown
  <1>7. Overlay(level, under) = [roots |-> level.roots, attrs |-> shown(level.objs)]
    BY DEF Overlay, shown
  <1>8. Overlay(WithEntry(level, id, attrs), under)
          = [roots |-> level.roots, attrs |-> shown(objs)]
    BY <1>5 DEF Overlay, shown
  <1> QED BY <1>6, <1>7, <1>8

\* attributes_mut and an edit change the values one snapshot has of one object.
LEMMA EditView ==
  ASSUME IInv, IInv', NEW id \in Held, NEW attrs \in AttrData(Id), Edit(id, attrs)
  PROVE  /\ Abstract!Becomes([Abstract!Tx EXCEPT !.attrs[id] = Contents(attrs)])
         /\ Depth' = Depth
         /\ \A d \in 1 .. Depth - 1 : Snaps'[d] = Snaps[d]
  <1>1. id \in Id /\ Tx \in Level(Held)
    BY Shape
  <1>2. Overlay(WithEntry(Tx, id, attrs), Under(Depth))
          = [Abstract!Tx EXCEPT !.attrs[id] = Contents(attrs)]
    BY <1>1, WithEntryView, ReadView
  <1>3. Update(WithEntry(Tx, id, attrs))
    BY DEF Edit
  <1> QED BY <1>2, <1>3, UpdateView

-----------------------------------------------------------------------------
(* What each edit makes of the values of an object, as a client sees them. *)

\* Both modules look at values the same way.
LEMMA SameValues ==
  /\ Abstract!Id = Id /\ Abstract!Held = Held
  /\ \A ids : Abstract!Value(ids) = Value(ids)
  /\ \A m : Abstract!Picks(m) = Picks(m)
  /\ \A s, p : Abstract!Picked(s, p) = Picked(s, p)
  /\ \A attrs, n : Abstract!Named(attrs, n) = Named(attrs, n)
  /\ \A attrs : Abstract!PicksOf(attrs) = PicksOf(attrs)
  /\ \A s : Abstract!Front(s) = Front(s) /\ Abstract!ToSet(s) = ToSet(s)
  BY DEF Abstract!Picks, Picks, Abstract!Picked, Picked, Abstract!Named, Named, Abstract!PicksOf,
         PicksOf, Abstract!Id, Id, Abstract!Held, Held, Abstract!Value, Value, Abstract!Object, Object,
         Abstract!Front, Front, Abstract!ToSet, ToSet

\* An attribute list shows a sequence of values for each name.
LEMMA ContentsType ==
  ASSUME NEW ids, NEW attrs \in AttrData(ids)
  PROVE  /\ Contents(attrs) \in [Names -> Seq(Value(ids))]
         /\ \A n \in Names : Contents(attrs)[n] = Named(attrs, n)
         /\ \A n \in Names : attrs[n] # Missing => attrs[n] = Named(attrs, n)
  BY NamedType DEF Contents, Named

\* An edit of the innermost level is one of the innermost snapshot.
LEMMA ChangeView ==
  ASSUME IInv, IInv', NEW id \in Held, NEW attrs \in AttrData(Id), Edit(id, attrs)
  PROVE  /\ Abstract!Change(id, Contents(attrs))
         /\ Abstract!Tx.attrs[id] = Contents(Read(id))
         /\ Read(id) \in AttrData(Id)
  <1>1. id \in Id /\ Held \subseteq Id
    BY Shape
  <1>2. Read(id) \in AttrData(Id)
    BY <1>1, ReadType, Monotone
  <1>3. UNCHANGED nextId
    BY DEF Edit
  <1> QED BY <1>1, <1>2, <1>3, EditView, ReadView DEF Abstract!Change

\* add shows one more value, at the end.
LEMMA AddedShows ==
  ASSUME NEW old \in AttrData(Id), NEW n \in Names, NEW v \in Value(Id)
  PROVE  Contents(Added(old, n, v)) = [Contents(old) EXCEPT ![n] = Append(Contents(old)[n], v)]
  <1>1. Append(Named(old, n), v) # Missing
    <2>1. Append(Named(old, n), v) \in Seq(Value(Id))
      BY NamedType, AppendProperties
    <2> QED BY <2>1, MissingAssumption
  <1>2. \A m \in Names : Named(Added(old, n, v), m)
                           = IF m = n THEN Append(Named(old, n), v) ELSE Named(old, m)
    BY <1>1 DEF Named, Added, AttrData
  <1> QED BY <1>2 DEF Contents

\* What is no longer there shows no values, whether its name is kept or not.
LEMMA ClearedShows ==
  ASSUME NEW old \in AttrData(Id), NEW n \in Names
  PROVE  /\ Contents(Emptied(old, n)) = [Contents(old) EXCEPT ![n] = <<>>]
         /\ Contents(OnlyNamed(old, n)) = [Abstract!Empty EXCEPT ![n] = Contents(old)[n]]
         /\ Contents(NoAttrs) = Abstract!Empty
  <1>1. \A m \in Names : Named(Emptied(old, n), m) = IF m = n THEN <<>> ELSE Named(old, m)
    BY DEF Named, Emptied, AttrData
  <1>2. \A m \in Names : Named(OnlyNamed(old, n), m) = IF m = n THEN Named(old, m) ELSE <<>>
    BY DEF Named, OnlyNamed, AttrData
  <1>3. \A m \in Names : Named(NoAttrs, m) = <<>>
    BY DEF Named, NoAttrs
  <1> QED BY <1>1, <1>2, <1>3 DEF Contents, Abstract!Empty

\* One value is taken out of a vector, and no other changes.
LEMMA RemovedShows ==
  ASSUME NEW old \in AttrData(Id), NEW n \in Names, NEW i \in DOMAIN Named(old, n)
  PROVE  /\ Contents(Removed(old, n, i)) = [Contents(old) EXCEPT ![n] = RemoveAt(Contents(old)[n], i)]
         /\ Contents(old)[n] \in Seq(Value(Id)) /\ i \in 1 .. Len(Contents(old)[n])
  <1>1. Named(old, n) \in Seq(Value(Id)) /\ i \in 1 .. Len(Named(old, n))
    BY NamedType
  <1>2. old[n] # Missing /\ old[n] = Named(old, n)
    BY <1>1 DEF Named
  <1>3. RemoveAt(old[n], i) # Missing
    BY <1>1, <1>2, RemoveAtType, MissingAssumption
  <1>4. \A m \in Names : Named(Removed(old, n, i), m)
                           = IF m = n THEN RemoveAt(Named(old, n), i) ELSE Named(old, m)
    BY <1>2, <1>3 DEF Named, Removed, AttrData
  <1> QED BY <1>1, <1>4 DEF Contents

\* The first position of a value is the one RemoveFirst takes.
LEMMA FirstIsTaken ==
  ASSUME NEW S, NEW s \in Seq(S), NEW i \in 1 .. Len(s), \A j \in 1 .. i - 1 : s[j] # s[i]
  PROVE  Abstract!RemoveFirst(s, s[i]) = RemoveAt(s, i)
  <1> DEFINE v == s[i]
             k == Abstract!SelectInSeq(s, LAMBDA w : w = v)
             I == {j \in 1 .. Len(s) : s[j] = v}
  <1>1. Abstract!RemoveFirst(s, v) = Abstract!RemoveAt(s, k)
    BY DEF Abstract!RemoveFirst
  <1>2. k = Abstract!Min(I)
    BY DEF Abstract!SelectInSeq
  <1>3. i \in I /\ I \subseteq Nat /\ \A j \in I : i <= j
    BY LenProperties
  <1> HIDE DEF k, I
  <1>4. \A m \in I : (\A j \in I : m <= j) => m = i
    BY <1>3
  <1>5. Abstract!Min(I) = i
    BY <1>3, <1>4, Zenon DEF Abstract!Min
  <1> QED BY <1>1, <1>2, <1>5 DEF Abstract!RemoveAt, RemoveAt

\* Vec::pop takes the last value.
LEMMA LastIsTaken ==
  ASSUME NEW S, NEW s \in Seq(S), s # <<>>
  PROVE  /\ RemoveAt(s, Len(s)) = Front(s)
         /\ Len(s) \in 1 .. Len(s)
  <1>1. Len(s) \in Nat \ {0} /\ Len(s) - 1 \in Nat
    BY EmptySeq
  <1>2. SubSeq(s, Len(s) + 1, Len(s)) = <<>>
    BY <1>1, SubSeqEmpty
  <1>3. SubSeq(s, 1, Len(s) - 1) \in Seq(S)
    BY <1>1, SubSeqProperties
  <1>4. SubSeq(s, 1, Len(s) - 1) \o <<>> = SubSeq(s, 1, Len(s) - 1)
    BY <1>3, ConcatEmptySeq
  <1> QED BY <1>1, <1>2, <1>4 DEF RemoveAt, Front

\* retain shows what the caller's closure has chosen.
LEMMA RetainedShows ==
  ASSUME NEW old \in AttrData(Id), NEW pick \in PicksOf(old)
  PROVE  /\ Contents(Retained(old, pick)) = [m \in Names |-> Picked(Contents(old)[m], pick[m])]
         /\ pick \in PicksOf(Contents(old))
  <1> DEFINE V == Seq(Value(Id))
  <1>1. \A m \in Names : Named(old, m) \in V /\ (old[m] # Missing => Named(old, m) = old[m])
    BY NamedType DEF Named
  <1>2. \A q : Missing = q => q \notin V
    BY MissingAssumption
  <1>3. \A m \in Names : pick[m] \in Picks(Len(Named(old, m)))
    BY DEF PicksOf
  <1>4. ASSUME NEW m \in Names
        PROVE  Named(Retained(old, pick), m) = Picked(Named(old, m), pick[m])
    <2>1. CASE old[m] = Missing
      <3>1. Named(old, m) = <<>> /\ Named(Retained(old, pick), m) = <<>>
        BY <2>1 DEF Named, Retained
      <3>2. PICK k \in 0 .. 0 : pick[m] \in [1 .. k -> 1 .. 0]
        BY <1>3, <3>1, EmptySeq DEF Picks
      <3>3. Picked(<<>>, pick[m]) \in [1 .. 0 -> {}]
        BY <3>2 DEF Picked
      <3>4. Picked(<<>>, pick[m]) = <<>>
        BY <3>3, FunctionIsSeq, EmptySeq
      <3> QED BY <3>1, <3>4
    <2>2. CASE old[m] # Missing
      <3>1. Retained(old, pick)[m] = Picked(old[m], pick[m]) /\ Named(old, m) = old[m]
        BY <2>2 DEF Retained, Named
      <3>2. Picked(old[m], pick[m]) # Missing
        <4>1. old[m] \in V
          BY <1>1, <2>2
        <4>2. PICK k \in 0 .. Len(old[m]) : pick[m] \in [1 .. k -> 1 .. Len(old[m])]
          BY <1>3, <3>1 DEF Picks
        <4>3. Picked(old[m], pick[m]) \in [1 .. k -> Value(Id)]
          BY <4>1, <4>2, ElementOfSeq DEF Picked
        <4>4. Picked(old[m], pick[m]) \in V
          BY <4>1, <4>2, <4>3, SeqDef
        <4> QED BY <1>2, <4>4
      <3> QED BY <3>1, <3>2 DEF Named
    <2> QED BY <2>1, <2>2
  <1>5. \A m \in Names : Contents(old)[m] = Named(old, m) /\ Named(Contents(old), m) = Named(old, m)
    BY <1>1, <1>2 DEF Contents, Named
  <1>6. PicksOf(Contents(old)) = PicksOf(old)
    BY <1>5 DEF PicksOf
  <1> QED BY <1>4, <1>5, <1>6 DEF Contents

-----------------------------------------------------------------------------
(* Every step of the space is a step of the snapshots, and keeps what the  *)
(* levels below the innermost one show or replaces it as a whole.          *)

Shown == [Abstract!Next]_(Abstract!vars) /\ KeptOrWhole

Inner ==
  /\ Depth' = Depth
  /\ \A d \in 1 .. Depth - 1 : Snaps'[d] = Snaps[d]

\* A step of the innermost level leaves the other levels alone.
LEMMA InnermostShown ==
  ASSUME IInv, Inner, [Abstract!Next]_(Abstract!vars)
  PROVE  Shown
  BY DEF Shown, KeptOrWhole, Inner

\* So does one that only draws an id.
LEMMA StackKept ==
  ASSUME IInv, IInv', UNCHANGED stack
  PROVE  Snaps' = Snaps /\ Inner
  <1>1. Depth' = Depth /\ Depth \in Nat /\ FramesKept(Depth)
    BY Shape DEF Depth, FramesKept
  <1>2. Snaps' = [d \in 1 .. Depth |-> View(stack'[d], Under(d))]
    BY <1>1, SnapsAfter
  <1>3. Snaps' = Snaps
    BY <1>2, SnapsShape DEF ShownAsViews
  <1> QED BY <1>1, <1>3 DEF Inner

\* New ids: nothing of the new object is shown before something is added to
\* it.
LEMMA CreateShown ==
  ASSUME IInv, IInv'
  PROVE  /\ CreateId \/ CreateObject => Abstract!CreateObject /\ Inner
         /\ CreateRootId \/ CreateRootObject => Abstract!CreateRoot /\ Inner
  <1> SUFFICES ASSUME NewId
               PROVE  /\ CreateId \/ CreateObject => Abstract!CreateObject /\ Inner
                      /\ CreateRootId \/ CreateRootObject => Abstract!CreateRoot /\ Inner
    BY DEF CreateId, CreateRootId, CreateObject, CreateRootObject
  <1>1. nextId \in Id /\ Tx \in Level(Id) /\ Abstract!NewId
    <2>1. nextId \in Id /\ nextId' = nextId + 1 /\ Tx \in Level(Id)
      BY NewIdStep, Shape, Monotone DEF NewId
    <2> QED BY <2>1, SameValues DEF Abstract!NewId
  <1>2. Read(nextId) \in AttrData(Id)
    BY <1>1, ReadType, Monotone, Shape
  <1> DEFINE under == Under(Depth)
  <1>3. Overlay(WithRoot(Tx, nextId), under)
          = [Abstract!Tx EXCEPT !.roots = Abstract!Tx.roots \cup {nextId}]
    BY <1>1, ReadView DEF WithRoot, Overlay, Level
  <1>4. [Abstract!Tx EXCEPT !.attrs[nextId] = Contents(Read(nextId))] = Abstract!Tx
    BY <1>1, ReadView DEF Overlay
  <1>5. Overlay(WithEntry(Tx, nextId, Read(nextId)), under) = Abstract!Tx
    BY <1>1, <1>2, <1>4, WithEntryView, ReadView
  <1>6. Overlay(WithEntry(WithRoot(Tx, nextId), nextId, Read(nextId)), under)
          = [Abstract!Tx EXCEPT !.roots = Abstract!Tx.roots \cup {nextId}]
    <2>1. WithRoot(Tx, nextId) \in Level(Id)
      BY <1>1, WithRootType
    <2>2. Overlay(WithEntry(WithRoot(Tx, nextId), nextId, Read(nextId)), under)
            = [Overlay(WithRoot(Tx, nextId), under) EXCEPT !.attrs[nextId] = Contents(Read(nextId))]
      BY <1>1, <1>2, <2>1, WithEntryView
    <2>3. Overlay(WithRoot(Tx, nextId), under).attrs[nextId] = Contents(Read(nextId))
      BY <1>1, <1>3, ReadView DEF Overlay
    <2>4. [Overlay(WithRoot(Tx, nextId), under) EXCEPT !.attrs[nextId] = Contents(Read(nextId))]
            = Overlay(WithRoot(Tx, nextId), under)
      BY <1>1, <2>3 DEF Overlay
    <2> QED BY <1>3, <2>2, <2>4
  <1>7. ASSUME CreateId
        PROVE  Abstract!CreateObject /\ Inner
    BY <1>1, <1>7, StackKept DEF CreateId, Abstract!CreateObject
  <1>8. ASSUME CreateObject
        PROVE  Abstract!CreateObject /\ Inner
    <2>1. Update(WithEntry(Tx, nextId, Read(nextId)))
      BY <1>8 DEF CreateObject
    <2>2. Abstract!Becomes(Abstract!Tx) /\ Inner
      BY <1>5, <2>1, UpdateView DEF Inner
    <2>3. Snaps' = Snaps
      BY <2>2, SnapsShape DEF Abstract!Becomes, Abstract!Tx, ShownAsViews, View
    <2> QED BY <1>1, <2>2, <2>3 DEF Abstract!CreateObject
  <1>9. ASSUME CreateRootId \/ CreateRootObject
        PROVE  Abstract!CreateRoot /\ Inner
    <2>1. \/ Update(WithRoot(Tx, nextId))
          \/ Update(WithEntry(WithRoot(Tx, nextId), nextId, Read(nextId)))
      BY <1>9 DEF CreateRootId, CreateRootObject
    <2>2. Abstract!Becomes([Abstract!Tx EXCEPT !.roots = Abstract!Tx.roots \cup {nextId}]) /\ Inner
      BY <1>3, <1>6, <2>1, UpdateView DEF Inner
    <2> QED BY <1>1, <2>2 DEF Abstract!CreateRoot
  <1> QED BY <1>7, <1>8, <1>9

\* Without an entry in any level there are no attributes.
LEMMA FreshRead ==
  ASSUME IInv, nextId \in Id
  PROVE  Read(nextId) = NoAttrs
  <1>1. \A j \in 1 .. Depth : stack[j].tx.objs[nextId] = Missing
    <2>1. \A j \in 1 .. Depth : stack[j] \in Frame(Held)
      BY Shape
    <2>2. nextId \notin Held
      BY DEF Held, Id
    <2> QED BY <2>1, <2>2 DEF Frame, Level, Objects
  <1>2. Depth \in Nat /\ Depth \in 1 .. Depth
    BY Shape
  <1>3. Holders(Depth - 1, nextId) = {}
    BY <1>1, <1>2 DEF Holders
  <1> QED BY <1>1, <1>2, <1>3 DEF Read, Attrs, Below, Tx

\* Nothing is below the space.
LEMMA AloneRead ==
  ASSUME IInv, Depth = 1, NEW id \in Id, Tx.objs[id] = Missing
  PROVE  Read(id) = NoAttrs
  <1>1. Holders(Depth - 1, id) = {}
    BY DEF Holders
  <1> QED BY <1>1 DEF Read, Attrs, Below

\* A copy of an object shows what the original does.
LEMMA CloneObjectShown ==
  ASSUME IInv, IInv', NEW id \in Held, CloneObject(id)
  PROVE  Abstract!CloneObject(id)
  <1>1. nextId \in Id /\ Tx \in Level(Id) /\ id \in Id /\ Abstract!NewId
    <2>1. nextId \in Id /\ nextId' = nextId + 1 /\ Tx \in Level(Id) /\ id \in Id
      BY NewIdStep, Shape, Monotone DEF NewId, CloneObject
    <2> QED BY <2>1, SameValues DEF Abstract!NewId
  <1>2. Read(id) \in AttrData(Id) /\ Read(nextId) \in AttrData(Id)
    BY <1>1, ReadType, Monotone, Shape
  <1>3. /\ Abstract!Tx.attrs[id] = Contents(Read(id))
        /\ Abstract!Tx.attrs[nextId] = Contents(Read(nextId))
    BY <1>1, ReadView
  <1>4. Abstract!Becomes([Abstract!Tx EXCEPT !.attrs[nextId] = Abstract!Tx.attrs[id]])
    <2> DEFINE copied == IF Depth = 1 THEN Tx.objs[id] # Missing ELSE Read(id) # NoAttrs
    <2>1. CASE copied
      <3>0. Update(WithEntry(Tx, nextId, Read(id)))
        BY <2>1 DEF CloneObject
      <3>1. Overlay(WithEntry(Tx, nextId, Read(id)), Under(Depth))
              = [Abstract!Tx EXCEPT !.attrs[nextId] = Abstract!Tx.attrs[id]]
        BY <1>1, <1>2, WithEntryView, ReadView
      <3> QED BY <3>0, <3>1, UpdateView
    <2>2. CASE ~copied
      <3>0. UNCHANGED stack
        BY <2>2 DEF CloneObject
      <3>1. Read(id) = NoAttrs
        BY <1>1, <2>2, AloneRead
      <3>2. Read(nextId) = NoAttrs
        BY <1>1, FreshRead
      <3>3. [Abstract!Tx EXCEPT !.attrs[nextId] = Abstract!Tx.attrs[id]] = Abstract!Tx
        BY <1>1, <1>3, <3>1, <3>2, ReadView DEF Overlay
      <3>4. Snaps' = Snaps
        BY <3>0, StackKept
      <3>5. Abstract!Becomes(Abstract!Tx)
        BY <3>4, SnapsShape DEF Abstract!Becomes, Abstract!Tx, ShownAsViews, View
      <3> QED BY <3>3, <3>5
    <2> QED BY <2>1, <2>2
  <1> QED BY <1>1, <1>4 DEF Abstract!CloneObject

\* Roots come and go in the innermost snapshot.
LEMMA RootsShown ==
  ASSUME IInv, IInv', NEW id \in Held
  PROVE  /\ RegisterRoot(id) => Abstract!RegisterRoot(id)
         /\ UnregisterRoot(id) => Abstract!UnregisterRoot(id)
  <1>1. id \in Id /\ Tx \in Level(Held)
    BY Shape
  <1>2. Abstract!Tx.roots = Tx.roots
    <2>1. Abstract!Tx = Overlay(Tx, Under(Depth))
      BY <1>1, ReadView
    <2> QED BY <2>1 DEF Overlay
  <1>3. ASSUME NEW roots, Update([Tx EXCEPT !.roots = roots])
        PROVE  Abstract!Becomes([Abstract!Tx EXCEPT !.roots = roots])
    <2>1. Overlay([Tx EXCEPT !.roots = roots], Under(Depth))
            = [Abstract!Tx EXCEPT !.roots = roots]
      BY <1>1, ReadView DEF Overlay, Level
    <2> QED BY <1>3, <2>1, UpdateView
  <1>4. RegisterRoot(id) => Abstract!RegisterRoot(id)
    BY <1>2, <1>3 DEF RegisterRoot, WithRoot, Abstract!RegisterRoot
  <1>5. UnregisterRoot(id) => Abstract!UnregisterRoot(id)
    BY <1>2, <1>3 DEF UnregisterRoot, Abstract!UnregisterRoot
  <1> QED BY <1>4, <1>5

\* Edits of all names of an object.
LEMMA ObjectEditsShown ==
  ASSUME IInv, IInv', NEW id \in Held
  PROVE  /\ Retain(id) => Abstract!Retain(id)
         /\ ClearAll(id) => Abstract!ClearAll(id)
  <1> DEFINE old == Read(id)
  <1>1. old \in AttrData(Id)
    BY ReadType, Monotone, Shape
  <1>2. ASSUME Retain(id)
        PROVE  Abstract!Retain(id)
    <2>1. PICK pick \in PicksOf(old) : Edit(id, Retained(old, pick))
      BY <1>2 DEF Retain
    <2>2. Abstract!Change(id, Contents(Retained(old, pick))) /\ Abstract!Tx.attrs[id] = Contents(old)
      BY <1>1, <2>1, RetainedType, ChangeView
    <2>3. /\ Contents(Retained(old, pick)) = [m \in Names |-> Picked(Contents(old)[m], pick[m])]
          /\ pick \in PicksOf(Contents(old))
      BY <1>1, <2>1, RetainedShows
    <2> HIDE DEF old
    <2> QED BY <2>2, <2>3, SameValues DEF Abstract!Retain
  <1>3. ASSUME ClearAll(id)
        PROVE  Abstract!ClearAll(id)
    <2>1. Edit(id, NoAttrs) /\ NoAttrs \in AttrData(Id)
      BY <1>3, NoAttrsType DEF ClearAll
    <2>2. Abstract!Change(id, Contents(NoAttrs)) /\ Contents(NoAttrs) = [n \in Names |-> <<>>]
      BY <2>1, ChangeView DEF Contents, Named, NoAttrs
    <2> QED BY <2>2 DEF Abstract!ClearAll, Abstract!Empty
  <1> QED BY <1>2, <1>3

\* Edits of one name of an object.
LEMMA NameEditsShown ==
  ASSUME IInv, IInv', NEW id \in Held, NEW n \in Names
  PROVE  /\ \A v \in Value(Held) : Add(id, n, v) => Abstract!Add(id, n, v)
         /\ RemoveSingle(id, n) => Abstract!RemoveSingle(id, n)
         /\ RemoveSingleNamed(id, n) => Abstract!RemoveSingleNamed(id, n)
         /\ RemoveAllNamed(id, n) \/ ClearNamed(id, n) => Abstract!ClearNamed(id, n)
         /\ RetainNamed(id, n) => Abstract!RetainNamed(id, n)
  <1> DEFINE old == Read(id)
             values == Contents(old)[n]
  <1>1. old \in AttrData(Id) /\ id \in Id
    BY ReadType, Monotone, Shape
  <1>2. ASSUME NEW attrs \in AttrData(Id), Edit(id, attrs)
        PROVE  Abstract!Change(id, Contents(attrs))
    BY <1>2, ChangeView
  <1>3. Abstract!Tx.attrs[id] = Contents(old)
    BY <1>1, ReadView
  <1>4. values \in Seq(Value(Id)) /\ Named(old, n) = values
    BY <1>1, ContentsType
  <1> HIDE DEF old
  <1>5. ASSUME NEW v \in Value(Held), Add(id, n, v)
        PROVE  Abstract!Add(id, n, v)
    <2>1. v \in Value(Id)
      BY Shape DEF Value, Held
    <2>2. Edit(id, Added(old, n, v))
      BY <1>5 DEF Add, old
    <2>3. Added(old, n, v) \in AttrData(Id)
      BY <1>1, <2>1, AddedType
    <2>4. Contents(Added(old, n, v)) = [Contents(old) EXCEPT ![n] = Append(values, v)]
      BY <1>1, <2>1, AddedShows
    <2>5. Abstract!Change(id, [Contents(old) EXCEPT ![n] = Append(values, v)])
      BY <1>2, <2>2, <2>3, <2>4
    <2> QED BY <1>3, <2>5 DEF Abstract!Add, Abstract!ChangeNamed
  <1>6. ASSUME RemoveSingle(id, n)
        PROVE  Abstract!RemoveSingle(id, n)
    <2>1. CASE Edit(id, old)
      BY <1>1, <1>2, <1>3, <2>1 DEF Abstract!RemoveSingle
    <2>2. CASE \E i \in DOMAIN Named(old, n) : FirstMatch(old, n, i) /\ Edit(id, Removed(old, n, i))
      <3>1. PICK i \in DOMAIN values : FirstMatch(old, n, i) /\ Edit(id, Removed(old, n, i))
        BY <1>4, <2>2
      <3>2. /\ Abstract!Change(id, [Contents(old) EXCEPT ![n] = RemoveAt(values, i)])
            /\ i \in 1 .. Len(values)
        BY <1>1, <1>2, <1>4, <3>1, RemovedType, RemovedShows
      <3>3. \A j \in 1 .. i - 1 : values[j] # values[i]
        BY <1>4, <3>1 DEF FirstMatch
      <3>4. RemoveAt(values, i) = Abstract!RemoveFirst(values, values[i])
        BY <1>4, <3>2, <3>3, FirstIsTaken
      <3>5. values[i] \in Abstract!ToSet(values)
        BY <1>4, <3>2 DEF Abstract!ToSet
      <3> QED BY <1>3, <3>2, <3>4, <3>5 DEF Abstract!RemoveSingle, Abstract!ChangeNamed
    <2> QED BY <1>6, <2>1, <2>2 DEF RemoveSingle, old
  <1>7. ASSUME RemoveSingleNamed(id, n)
        PROVE  Abstract!RemoveSingleNamed(id, n)
    <2>1. Edit(id, Popped(old, n))
      BY <1>7 DEF RemoveSingleNamed, old
    <2>2. CASE values = <<>>
      <3>1. Edit(id, old)
        BY <1>4, <2>1, <2>2 DEF Popped
      <3> QED BY <1>1, <1>2, <1>3, <2>2, <3>1 DEF Abstract!RemoveSingleNamed
    <2>3. CASE values # <<>>
      <3>1. RemoveAt(values, Len(values)) = Front(values) /\ Len(values) \in 1 .. Len(values)
        BY <1>4, <2>3, LastIsTaken
      <3>2. old[n] = values
        BY <1>4, <2>3 DEF Named
      <3>3. Edit(id, Removed(old, n, Len(values))) /\ Len(values) \in DOMAIN Named(old, n)
        BY <1>4, <2>1, <2>3, <3>1, <3>2 DEF Popped
      <3>4. Abstract!Change(id, [Contents(old) EXCEPT ![n] = Front(values)])
        BY <1>1, <1>2, <3>1, <3>3, RemovedType, RemovedShows
      <3>5. Abstract!Front(values) = Front(values)
        BY SameValues
      <3> QED BY <1>3, <2>3, <3>4, <3>5 DEF Abstract!RemoveSingleNamed, Abstract!ChangeNamed
    <2> QED BY <2>2, <2>3
  <1>8. ASSUME RemoveAllNamed(id, n) \/ ClearNamed(id, n)
        PROVE  Abstract!ClearNamed(id, n)
    <2>1. Edit(id, Emptied(old, n))
      BY <1>8 DEF RemoveAllNamed, ClearNamed, old
    <2>2. Abstract!Change(id, [Contents(old) EXCEPT ![n] = <<>>])
      BY <1>1, <1>2, <2>1, ClearedType, ClearedShows
    <2> QED BY <1>3, <2>2 DEF Abstract!ClearNamed, Abstract!ChangeNamed
  <1>9. ASSUME RetainNamed(id, n)
        PROVE  Abstract!RetainNamed(id, n)
    <2>1. Edit(id, OnlyNamed(old, n))
      BY <1>9 DEF RetainNamed, old
    <2>2. Abstract!Change(id, [Abstract!Empty EXCEPT ![n] = values])
      BY <1>1, <1>2, <2>1, ClearedType, ClearedShows
    <2> QED BY <1>3, <2>2 DEF Abstract!RetainNamed
  <1> QED BY <1>5, <1>6, <1>7, <1>8, <1>9

\* Every operation on an object is the one of its name on the snapshots.
LEMMA UseSame ==
  ASSUME IInv, IInv', NEW id \in Held
  PROVE  SameUse(id)
  BY CloneObjectShown, RootsShown, ObjectEditsShown, NameEditsShown DEF SameUse

\* And so it shows as one.
LEMMA UseShown ==
  ASSUME IInv, IInv', NEW id \in Held, Use(id)
  PROVE  Shown
  <1>1. UNCHANGED stack \/ \E level : Update(level)
    BY DEF Use, CloneObject, RegisterRoot, UnregisterRoot, Retain, ClearAll, Add, RemoveSingle,
           RemoveSingleNamed, RemoveAllNamed, RetainNamed, ClearNamed, Edit
  <1>2. Inner
    BY <1>1, StackKept, UpdateView DEF Inner
  <1>3. Abstract!Use(id)
    BY UseSame, SameValues DEF Use, SameUse, Abstract!Use
  <1>4. Abstract!Next
    BY <1>3, SameValues DEF Abstract!Next
  <1> QED BY <1>2, <1>4, InnermostShown

-----------------------------------------------------------------------------
(* Transactions open and end.                                              *)

\* A transaction starts with what the level below it shows.
LEMMA BeginShown ==
  ASSUME IInv, IInv', Begin
  PROVE  Shown
  <1> DEFINE frame == [tx |-> [Tx EXCEPT !.objs = NoObjects], clones |-> {}]
  <1>1. stack' = Append(stack, frame) /\ nextId' = nextId
    BY DEF Begin
  <1>2. stack \in Seq(Frame(Held)) /\ Depth \in Nat /\ Depth >= 1 /\ Tx \in Level(Held)
        /\ Len(stack) = Depth /\ Depth \in 1 .. Depth
    BY Shape DEF Depth
  <1>3. /\ frame.clones = {} /\ frame.tx.roots = Tx.roots
        /\ \A id \in Id : frame.tx.objs[id] = Missing
    BY <1>2 DEF Level, NoObjects
  <1>4. frame \in Frame(Held)
    BY <1>2, NoObjectsType DEF Frame, Level
  <1> HIDE DEF frame
  <1>5. /\ Depth' = Depth + 1
        /\ stack'[Depth + 1] = frame
        /\ \A d \in 1 .. Depth : stack'[d] = stack[d]
    BY <1>1, <1>2, <1>4, AppendProperties DEF Depth
  <1>6. FramesKept(Depth + 1)
    BY <1>2, <1>5 DEF FramesKept
  <1>7. Snaps' = [d \in 1 .. Depth + 1 |-> View(stack'[d], Under(d))]
    BY <1>2, <1>5, <1>6, SnapsAfter
  <1>8. \A d \in 1 .. Depth : Snaps'[d] = Snaps[d]
    <2>1. Depth + 1 \in Nat /\ 1 .. (Depth + 1) - 1 = 1 .. Depth
      BY <1>2
    <2>2. \A d \in 1 .. (Depth + 1) - 1 : Snaps'[d] = Snaps[d]
      BY <1>5, <1>6, <2>1, SnapsAfter
    <2> QED BY <2>1, <2>2
  <1> DEFINE copy == [tx |-> Abstract!Tx, clones |-> {}]
  <1>9. Snaps'[Depth + 1] = copy
    <2>1. Snaps'[Depth + 1] = View(frame, Under(Depth + 1))
      BY <1>2, <1>5, <1>7
    <2>2. \A id \in Id : Under(Depth + 1)[id] = Attrs(Tx, Depth, id)
      BY <1>2, BelowIsRead DEF Under, Tx
    <2>3. Overlay(frame.tx, Under(Depth + 1)) = Overlay(Tx, Under(Depth))
      BY <1>3, <2>2 DEF Overlay, Under, Attrs
    <2>4. Abstract!Tx = Overlay(Tx, Under(Depth))
      BY SnapsShape DEF ShownAsViews
    <2>5. {Overlay(c, Under(Depth + 1)) : c \in frame.clones} = {}
      BY <1>3
    <2> QED BY <2>1, <2>3, <2>4, <2>5 DEF View
  <1> HIDE DEF copy
  <1>10. Snaps' = Append(Snaps, copy)
    <2> DEFINE S == {Snaps[d] : d \in 1 .. Depth} \cup {copy}
    <2>1. DOMAIN Snaps = 1 .. Depth /\ Snaps = [d \in 1 .. Depth |-> Snaps[d]]
      BY SnapsShape DEF ShownAsViews
    <2>2. Snaps \in [1 .. Depth -> S] /\ copy \in S
      BY <2>1
    <2>3. Snaps' \in [1 .. Depth + 1 -> S]
      <3>1. \A d \in 1 .. Depth + 1 : d \in 1 .. Depth \/ d = Depth + 1
        BY <1>2
      <3>2. \A d \in 1 .. Depth + 1 : Snaps'[d] \in S
        BY <1>8, <1>9, <3>1
      <3> QED BY <1>7, <3>2
    <2> HIDE DEF S
    <2>4. Snaps \in Seq(S) /\ Len(Snaps) = Depth /\ Snaps' \in Seq(S) /\ Len(Snaps') = Depth + 1
      BY <1>2, <2>2, <2>3, FunctionIsSeq
    <2>5. /\ Append(Snaps, copy) \in Seq(S)
          /\ Len(Append(Snaps, copy)) = Depth + 1
          /\ \A d \in 1 .. Depth : Append(Snaps, copy)[d] = Snaps[d]
          /\ Append(Snaps, copy)[Depth + 1] = copy
      BY <2>2, <2>4, AppendProperties
    <2>6. \A d \in 1 .. Depth + 1 : Snaps'[d] = Append(Snaps, copy)[d]
      <3>1. \A d \in 1 .. Depth + 1 : d \in 1 .. Depth \/ d = Depth + 1
        BY <1>2
      <3> QED BY <1>8, <1>9, <2>5, <3>1
    <2> QED BY <2>4, <2>5, <2>6, SeqEqual
  <1>11. Abstract!Begin
    BY <1>1, <1>10 DEF Abstract!Begin, copy
  <1>12. KeptOrWhole
    BY <1>2, <1>8 DEF KeptOrWhole
  <1> QED BY <1>11, <1>12 DEF Shown, Abstract!Next

\* The level below an ended transaction, and the levels under that.
LEMMA EndView ==
  ASSUME IInv, IInv', Depth > 1, NEW level,
         stack' = [i \in 1 .. Depth - 1 |->
                     IF i = Depth - 1 THEN [stack[i] EXCEPT !.tx = level] ELSE stack[i]]
  PROVE  /\ Depth' = Depth - 1 /\ Depth - 1 \in 1 .. Depth
         /\ Snaps' = [i \in 1 .. Depth - 1 |->
                        IF i = Depth - 1
                          THEN [Snaps[i] EXCEPT !.tx = Overlay(level, Under(Depth - 1))]
                          ELSE Snaps[i]]
  <1>1. Depth \in Nat /\ Depth - 1 \in Nat /\ Depth - 1 >= 1 /\ Depth - 1 \in 1 .. Depth
    BY Shape
  <1> DEFINE n == Depth - 1
  <1> DEFINE frame == [stack[n] EXCEPT !.tx = level]
  <1>2. stack' = [i \in 1 .. n |-> IF i = n THEN frame ELSE stack[i]]
    OBVIOUS
  <1>3. frame.tx = level /\ frame.clones = stack[n].clones
    BY <1>1, Shape DEF Frame
  <1> HIDE DEF frame
  <1>4. Depth' = n
    <2> DEFINE S == {stack'[i] : i \in 1 .. n}
    <2>1. stack' \in [1 .. n -> S]
      BY <1>2
    <2> HIDE DEF S
    <2> QED BY <1>1, <2>1, FunctionIsSeq DEF Depth
  <1>5. FramesKept(n)
    BY <1>1, <1>2 DEF FramesKept
  <1>6. /\ Snaps' = [d \in 1 .. n |-> View(stack'[d], Under(d))]
        /\ \A d \in 1 .. n - 1 : Snaps'[d] = Snaps[d]
    BY <1>1, <1>4, <1>5, SnapsAfter
  <1>7. Snaps[n] = View(stack[n], Under(n))
    BY <1>1, SnapsShape DEF ShownAsViews
  <1>8. Snaps'[n] = [Snaps[n] EXCEPT !.tx = Overlay(level, Under(n))]
    <2>1. Snaps'[n] = View(frame, Under(n))
      BY <1>1, <1>2, <1>6
    <2>2. View(frame, Under(n)) = [Snaps[n] EXCEPT !.tx = Overlay(level, Under(n))]
      <3> DEFINE under == Under(n)
      <3>1. frame.tx = level /\ frame.clones = stack[n].clones
        BY <1>3
      <3>2. Snaps[n] = View(stack[n], under)
        BY <1>7
      <3> HIDE DEF n, under
      <3> DEFINE copies == {Overlay(c, under) : c \in stack[n].clones}
      <3>3. View(frame, under) = [tx |-> Overlay(level, under), clones |-> copies]
        BY <3>1 DEF View
      <3>4. Snaps[n] = [tx |-> Overlay(stack[n].tx, under), clones |-> copies]
        BY <3>2 DEF View
      <3> HIDE DEF copies
      <3>5. View(frame, under) = [Snaps[n] EXCEPT !.tx = Overlay(level, under)]
        BY <3>3, <3>4
      <3> QED BY <3>5 DEF under
    <2> QED BY <2>1, <2>2
  <1>9. \A d \in 1 .. n :
          Snaps'[d] = IF d = n THEN [Snaps[d] EXCEPT !.tx = Overlay(level, Under(n))] ELSE Snaps[d]
    <2>1. \A d \in 1 .. n : d \in 1 .. n - 1 \/ d = n
      BY <1>1
    <2>2. \A d \in 1 .. n - 1 : d # n
      BY <1>1
    <2> HIDE DEF n
    <2> QED BY <1>6, <1>8, <2>1, <2>2
  <1> QED BY <1>1, <1>4, <1>6, <1>9

\* A commit replaces what the level below shows by what the transaction shows.
LEMMA CommitShown ==
  ASSUME IInv, IInv', Commit
  PROVE  Shown
  <1>1. Depth > 1 /\ Depth - 1 \in 1 .. Depth /\ Depth \in 1 .. Depth /\ Depth \in Nat
        /\ UNCHANGED nextId
    BY Shape DEF Commit
  <1> DEFINE lower == stack[Depth - 1].tx
  <1> DEFINE level == Merged(lower, Tx)
  <1>2. stack' = [i \in 1 .. Depth - 1 |->
                    IF i = Depth - 1 THEN [stack[i] EXCEPT !.tx = level] ELSE stack[i]]
    BY DEF Commit
  <1>3. Overlay(level, Under(Depth - 1)) = Abstract!Tx
    <2>1. Abstract!Tx = Overlay(Tx, Under(Depth))
      BY SnapsShape DEF ShownAsViews
    <2>2. \A id \in Id : Under(Depth)[id] = Attrs(lower, Depth - 1, id)
      BY <1>1, BelowIsRead DEF Under
    <2> HIDE DEF lower
    <2>3. \A id \in Id :
            (IF level.objs[id] = Missing THEN Under(Depth - 1)[id] ELSE level.objs[id])
              = IF Tx.objs[id] = Missing THEN Under(Depth)[id] ELSE Tx.objs[id]
      BY <2>2 DEF Merged, Under, Attrs
    <2>4. level.roots = Tx.roots
      BY DEF Merged
    <2> HIDE DEF level
    <2> QED BY <2>1, <2>3, <2>4 DEF Overlay
  <1> HIDE DEF level
  <1>4. /\ Depth' = Depth - 1
        /\ Snaps' = [i \in 1 .. Depth - 1 |->
                       IF i = Depth - 1 THEN [Snaps[i] EXCEPT !.tx = Abstract!Tx] ELSE Snaps[i]]
    BY <1>1, <1>2, <1>3, EndView
  <1>5. Abstract!Depth = Depth /\ Abstract!Tx = Snaps[Depth].tx
    BY SnapsShape DEF ShownAsViews, Abstract!Tx
  <1>6. Abstract!Commit
    BY <1>1, <1>4, <1>5 DEF Abstract!Commit
  <1>7. Snaps'[Depth - 1].tx = Snaps[Depth].tx
    <2>1. Snaps[Depth - 1] = View(stack[Depth - 1], Under(Depth - 1))
      BY <1>1, SnapsShape DEF ShownAsViews
    <2> QED BY <1>1, <1>4, <1>5, <2>1 DEF View
  <1>8. KeptOrWhole
    BY <1>1, <1>4, <1>7 DEF KeptOrWhole
  <1> QED BY <1>6, <1>8 DEF Shown, Abstract!Next

\* An abort leaves the level below as it is.
LEMMA AbortShown ==
  ASSUME IInv, IInv', Abort
  PROVE  Shown
  <1>1. Depth > 1 /\ Depth - 1 \in 1 .. Depth /\ Depth \in Nat /\ UNCHANGED nextId
    BY Shape DEF Abort
  <1> DEFINE level == stack[Depth - 1].tx
  <1>2. [stack[Depth - 1] EXCEPT !.tx = level] = stack[Depth - 1]
    BY <1>1, Shape DEF Frame
  <1>3. stack' = [i \in 1 .. Depth - 1 |->
                    IF i = Depth - 1 THEN [stack[i] EXCEPT !.tx = level] ELSE stack[i]]
    BY <1>2 DEF Abort
  <1>4. Snaps[Depth - 1] = View(stack[Depth - 1], Under(Depth - 1))
    BY <1>1, SnapsShape DEF ShownAsViews
  <1>5. [Snaps[Depth - 1] EXCEPT !.tx = Overlay(level, Under(Depth - 1))] = Snaps[Depth - 1]
    BY <1>4 DEF View
  <1> HIDE DEF level
  <1>6. Depth' = Depth - 1 /\ Snaps' = [i \in 1 .. Depth - 1 |-> Snaps[i]]
    <2>1. /\ Depth' = Depth - 1
          /\ Snaps' = [i \in 1 .. Depth - 1 |->
                         IF i = Depth - 1
                           THEN [Snaps[i] EXCEPT !.tx = Overlay(level, Under(Depth - 1))]
                           ELSE Snaps[i]]
      BY <1>1, <1>3, EndView
    <2> QED BY <1>5, <2>1
  <1>7. Abstract!Depth = Depth
    BY SnapsShape DEF ShownAsViews
  <1>8. Abstract!Abort
    BY <1>1, <1>6, <1>7 DEF Abstract!Abort
  <1>9. KeptOrWhole
    BY <1>1, <1>6 DEF KeptOrWhole
  <1> QED BY <1>8, <1>9 DEF Shown, Abstract!Next

-----------------------------------------------------------------------------
(* Copies of a transaction, and the operations of the space itself.        *)

\* A copy of a transaction shows what the transaction shows.
LEMMA CopiesShown ==
  ASSUME IInv, IInv', CloneTransaction \/ SwitchTransaction
  PROVE  Shown
  <1> DEFINE under == Under(Depth)
  <1>1. /\ Depth > 1 /\ Depth \in 1 .. Depth /\ UNCHANGED nextId
        /\ stack[Depth] \in Frame(Held)
        /\ Tx = stack[Depth].tx
    BY Shape DEF CloneTransaction, SwitchTransaction, Tx
  <1>2. /\ Abstract!Depth = Depth
        /\ Abstract!Tx = Overlay(Tx, under)
        /\ Snaps[Depth] = View(stack[Depth], under)
    BY <1>1, SnapsShape DEF ShownAsViews
  <1> HIDE DEF under
  <1> DEFINE copies == {Overlay(c, under) : c \in stack[Depth].clones}
  <1>3. Snaps[Depth] = [tx |-> Abstract!Tx, clones |-> copies]
    BY <1>1, <1>2 DEF View
  <1>4. CASE CloneTransaction
    <2> DEFINE frame == [stack[Depth] EXCEPT !.clones = stack[Depth].clones \cup {Tx}]
    <2>1. stack' = [stack EXCEPT ![Depth] = frame]
      BY <1>4 DEF CloneTransaction
    <2>2. frame.tx = Tx /\ frame.clones = stack[Depth].clones \cup {Tx}
      BY <1>1 DEF Frame
    <2> HIDE DEF frame
    <2>3. {Overlay(c, under) : c \in frame.clones} = copies \cup {Abstract!Tx}
      BY <1>2, <2>2
    <2> HIDE DEF copies
    <2>4. View(frame, under) = [Snaps[Depth] EXCEPT !.clones = copies \cup {Abstract!Tx}]
      BY <1>2, <1>3, <2>2, <2>3 DEF View
    <2>5. Snaps[Depth].clones = copies
      BY <1>3
    <2>6. Snaps' = [Snaps EXCEPT ![Depth].clones = @ \cup {Abstract!Tx}]
      BY <2>1, <2>4, <2>5, FrameView DEF under
    <2>7. Abstract!CopyTransaction
      BY <1>1, <1>2, <2>6 DEF Abstract!CopyTransaction
    <2> QED BY <2>1, <2>7, FrameView, InnermostShown DEF Abstract!Next, Inner
  <1>5. CASE SwitchTransaction
    <2>1. PICK c \in stack[Depth].clones :
            stack' = [stack EXCEPT ![Depth] =
                        [tx |-> c, clones |-> (stack[Depth].clones \ {c}) \cup {Tx}]]
      BY <1>5 DEF SwitchTransaction
    <2> DEFINE frame == [tx |-> c, clones |-> (stack[Depth].clones \ {c}) \cup {Tx}]
    <2> DEFINE rest == {Overlay(b, under) : b \in stack[Depth].clones \ {c}}
    <2>2. rest \in {copies, copies \ {Overlay(c, under)}} /\ Overlay(c, under) \in copies
      <3>1. copies = rest \cup {Overlay(c, under)}
        OBVIOUS
      <3> HIDE DEF copies, rest
      <3> QED BY <3>1
    <2>3. {Overlay(b, under) : b \in frame.clones} = rest \cup {Abstract!Tx}
      BY <1>2
    <2> HIDE DEF rest
    <2>4. View(frame, under) = [tx |-> Overlay(c, under), clones |-> rest \cup {Abstract!Tx}]
      BY <2>3 DEF View
    <2>5. stack' = [stack EXCEPT ![Depth] = frame]
      BY <2>1
    <2> HIDE DEF frame, copies
    <2>6. Snaps' = [Snaps EXCEPT ![Depth] =
                      [tx |-> Overlay(c, under), clones |-> rest \cup {Abstract!Tx}]]
      BY <2>4, <2>5, FrameView DEF under
    <2>7. Snaps[Depth].clones = copies
      BY <1>3
    <2>8. Abstract!SwitchTransaction
      BY <1>1, <1>2, <2>2, <2>6, <2>7 DEF Abstract!SwitchTransaction
    <2> QED BY <2>5, <2>8, FrameView, InnermostShown DEF Abstract!Next, Inner
  <1> QED BY <1>4, <1>5

\* In the space itself nothing lies under an entry.
LEMMA SpaceView ==
  ASSUME IInv, Depth = 1
  PROVE  /\ Abstract!Depth = 1
         /\ Abstract!Tx.roots = Tx.roots
         /\ \A i \in Id : Abstract!Tx.attrs[i] =
                            Contents(IF Tx.objs[i] = Missing THEN NoAttrs ELSE Tx.objs[i])
         /\ Abstract!Tx = Overlay(Tx, Under(Depth))
         /\ \A i \in Id : Under(Depth)[i] = NoAttrs
  <1>1. \A i \in Id : Under(Depth)[i] = NoAttrs
    <2>1. \A i \in Id : Holders(Depth - 1, i) = {}
      BY DEF Holders
    <2> QED BY <2>1 DEF Under, Below
  <1>2. Abstract!Depth = 1 /\ Abstract!Tx = Overlay(Tx, Under(Depth))
    BY SnapsShape DEF ShownAsViews
  <1>3. \A i \in Id : Overlay(Tx, Under(Depth)).attrs[i] =
                        Contents(IF Tx.objs[i] = Missing THEN NoAttrs ELSE Tx.objs[i])
    BY <1>1 DEF Overlay
  <1>4. Overlay(Tx, Under(Depth)).roots = Tx.roots
    BY DEF Overlay
  <1> QED BY <1>1, <1>2, <1>3, <1>4

\* The snapshot of an object mentions what its attributes mention.
LEMMA SameMentions ==
  ASSUME NEW attrs \in AttrData(Id)
  PROVE  Abstract!Mentions(Contents(attrs)) = Mentions(attrs)
  <1>1. ASSUME NEW n \in Names
        PROVE  Abstract!Named(Contents(attrs), n) = Named(attrs, n)
    <2>1. Contents(attrs)[n] = Named(attrs, n) /\ Named(attrs, n) # Missing
      BY NamedType, MissingAssumption DEF Contents
    <2> QED BY <2>1 DEF Abstract!Named
  <1> DEFINE refs(s) == UNION {s[i].refs : i \in DOMAIN s}
  <1>2. Mentions(attrs) = UNION {refs(Named(attrs, n)) : n \in Names}
    BY DEF Mentions
  <1>3. Abstract!Mentions(Contents(attrs))
          = UNION {refs(Abstract!Named(Contents(attrs), n)) : n \in Names}
    BY DEF Abstract!Mentions
  <1> HIDE DEF refs
  <1> QED BY <1>1, <1>2, <1>3

\* What the roots lead to in the space is what they lead to in the snapshot.
LEMMA SameLive ==
  ASSUME IInv, Depth = 1
  PROVE  Abstract!Live(Abstract!Tx) = Reachable(Tx)
  <1> DEFINE Closure(S) == \A j \in S : Abstract!Mentions(Abstract!Tx.attrs[j]) \subseteq S
  <1>1. Tx.objs \in [Id -> {Missing} \cup AttrData(Id)]
    BY Shape, Monotone DEF Level, Objects
  <1>2. Mentions(NoAttrs) = {}
    <2>1. \A n \in Names : DOMAIN Named(NoAttrs, n) = {}
      BY DEF Named, NoAttrs
    <2> QED BY <2>1 DEF Mentions
  <1>3. \A i \in Id : Abstract!Mentions(Abstract!Tx.attrs[i])
                        = IF Tx.objs[i] = Missing THEN {} ELSE Mentions(Tx.objs[i])
    BY <1>1, <1>2, SpaceView, SameMentions, NoAttrsType
  <1>4. \A S \in SUBSET Id : Closure(S) <=> Closed(Tx.objs, S)
    BY <1>3 DEF Closed
  <1>5. Abstract!Id = Id /\ Abstract!Tx.roots = Tx.roots
    BY SpaceView DEF Abstract!Id, Id
  <1>6. Abstract!Live(Abstract!Tx)
          = {i \in Id : \A S \in SUBSET Id : Abstract!Tx.roots \subseteq S /\ Closure(S) => i \in S}
    BY <1>5 DEF Abstract!Live
  <1> HIDE DEF Closure
  <1> QED BY <1>4, <1>5, <1>6 DEF Reachable

\* The collection changes nothing a root leads to and clears everything else;
\* dropping cleared objects shows no difference.
LEMMA CollectionShown ==
  ASSUME IInv, IInv', CollectGarbage \/ ShrinkToFit
  PROVE  Shown
  <1>1. Depth = 1 /\ UNCHANGED nextId /\ Tx \in Level(Held)
    BY Shape DEF CollectGarbage, ShrinkToFit
  <1> DEFINE under == Under(Depth)
  <1>2. Abstract!Tx = Overlay(Tx, under) /\ \A i \in Id : under[i] = NoAttrs
    BY <1>1, SpaceView
  <1> HIDE DEF under
  <1>3. Contents(NoAttrs) = Abstract!Empty
    BY DEF Contents, Named, NoAttrs, Abstract!Empty
  <1>4. CASE CollectGarbage
    <2> DEFINE kept == [i \in Id |-> IF i \in Reachable(Tx) THEN Tx.objs[i] ELSE Missing]
    <2>1. Update([Tx EXCEPT !.objs = kept])
      BY <1>4 DEF CollectGarbage
    <2> DEFINE live == [i \in Id |-> IF i \in Abstract!Live(Abstract!Tx)
                                       THEN Abstract!Tx.attrs[i] ELSE Abstract!Empty]
    <2>2. \A i \in Id : Contents(IF kept[i] = Missing THEN under[i] ELSE kept[i]) = live[i]
      BY <1>1, <1>2, <1>3, SpaceView, SameLive
    <2>3. [Tx EXCEPT !.objs = kept] = [roots |-> Tx.roots, objs |-> kept]
      BY <1>1 DEF Level
    <2>4. live = [i \in Id |-> live[i]]
      OBVIOUS
    <2> HIDE DEF kept, live
    <2>5. Overlay([Tx EXCEPT !.objs = kept], under) = [roots |-> Tx.roots, attrs |-> live]
      BY <2>2, <2>3, <2>4 DEF Overlay
    <2>6. [Abstract!Tx EXCEPT !.attrs = live] = [roots |-> Tx.roots, attrs |-> live]
      BY <1>2 DEF Overlay
    <2>7. Abstract!Becomes([Abstract!Tx EXCEPT !.attrs = live])
      BY <2>1, <2>5, <2>6, UpdateView DEF under
    <2>8. Abstract!Forget
      BY <1>1, <2>7, SpaceView DEF Abstract!Forget, live, Abstract!Id, Id
    <2> QED BY <2>1, <2>8, UpdateView, InnermostShown DEF Abstract!Next, Inner
  <1>5. CASE ShrinkToFit
    <2> DEFINE kept == [i \in Id |-> IF Tx.objs[i] = NoAttrs THEN Missing ELSE Tx.objs[i]]
    <2>1. Update([Tx EXCEPT !.objs = kept])
      BY <1>5 DEF ShrinkToFit
    <2>2. \A i \in Id : Contents(IF kept[i] = Missing THEN under[i] ELSE kept[i])
                          = Contents(IF Tx.objs[i] = Missing THEN under[i] ELSE Tx.objs[i])
      BY <1>2
    <2>3. [Tx EXCEPT !.objs = kept] = [roots |-> Tx.roots, objs |-> kept]
      BY <1>1 DEF Level
    <2> HIDE DEF kept
    <2>4. Overlay([Tx EXCEPT !.objs = kept], under) = Abstract!Tx
      BY <1>2, <2>2, <2>3 DEF Overlay
    <2>5. Abstract!Becomes(Abstract!Tx)
      BY <2>1, <2>4, UpdateView DEF under
    <2>6. Snaps' = Snaps
      BY <2>5, SnapsShape DEF Abstract!Becomes, Abstract!Tx, ShownAsViews, View
    <2> QED BY <1>1, <2>1, <2>6, UpdateView, InnermostShown DEF Abstract!vars, Inner
  <1> QED BY <1>4, <1>5

\* An empty space shows the empty snapshot.
LEMMA InitShown == Init => Abstract!Init
  <1> SUFFICES ASSUME Init PROVE Abstract!Init
    OBVIOUS
  <1> DEFINE level == [roots |-> {}, objs |-> NoObjects]
  <1>1. stack = << [tx |-> level, clones |-> {}] >> /\ nextId = 1
    BY DEF Init
  <1>2. IInv /\ Depth = 1
    BY <1>1, InitInvariant DEF Depth
  <1>3. Tx = level
    BY <1>1, <1>2 DEF Tx
  <1>4. Abstract!Tx = [roots |-> {}, attrs |-> [id \in Id |-> Abstract!Empty]]
    <2>1. Contents(NoAttrs) = Abstract!Empty
      BY DEF Contents, Named, NoAttrs, Abstract!Empty
    <2> QED BY <1>2, <1>3, <2>1, SpaceView DEF Overlay, NoObjects
  <1>5. Snaps = [d \in 1 .. 1 |-> [tx |-> Abstract!Tx, clones |-> {}]]
    <2>1. Snaps = [d \in 1 .. 1 |-> View(stack[d], Under(d))]
      BY <1>2, SnapsShape DEF ShownAsViews
    <2>2. stack[1].clones = {} /\ stack[1].tx = Tx
      BY <1>1, <1>3
    <2>3. View(stack[1], Under(1)) = [tx |-> Abstract!Tx, clones |-> {}]
      BY <1>2, <2>2, SpaceView DEF View
    <2> QED BY <2>1, <2>3
  <1>6. Abstract!Id = Id
    BY DEF Abstract!Id, Id
  <1>7. Snaps = << [tx |-> Abstract!Tx, clones |-> {}] >>
    BY <1>5
  <1> QED BY <1>1, <1>4, <1>6, <1>7 DEF Abstract!Init

\* Every operation is shown as one on full copies.
LEMMA NextShown == IInv /\ IInv' /\ [Next]_vars => Shown
  <1> SUFFICES ASSUME IInv, IInv', [Next]_vars PROVE Shown
    OBVIOUS
  <1>1. CASE UNCHANGED vars
    <2>1. UNCHANGED <<nextId, stack>>
      BY <1>1 DEF vars
    <2>2. Depth' = Depth /\ Depth \in Nat /\ FramesKept(Depth)
      BY <2>1, Shape DEF Depth, FramesKept
    <2>3. Snaps' = Snaps
      <3>1. Snaps' = [d \in 1 .. Depth |-> View(stack'[d], Under(d))]
        BY <2>2, SnapsAfter
      <3> QED BY <2>1, <3>1, SnapsShape DEF ShownAsViews
    <2> QED BY <2>1, <2>2, <2>3, InnermostShown DEF Abstract!vars, Inner
  <1>2. CASE CreateId \/ CreateRootId \/ CreateObject \/ CreateRootObject
    BY <1>2, CreateShown, InnermostShown DEF Abstract!Next
  <1>3. CASE \E id \in Held : Use(id)
    BY <1>3, UseShown
  <1>4. CASE Begin
    BY <1>4, BeginShown
  <1>5. CASE Commit
    BY <1>5, CommitShown
  <1>6. CASE Abort
    BY <1>6, AbortShown
  <1>7. CASE CloneTransaction \/ SwitchTransaction
    BY <1>7, CopiesShown
  <1>8. CASE CollectGarbage \/ ShrinkToFit
    BY <1>8, CollectionShown
  <1> QED BY <1>1, <1>2, <1>3, <1>4, <1>5, <1>6, <1>7, <1>8 DEF Next

\* A space with its nested transactions cannot be told from one in which every
\* transaction works on a full copy of the level below it.
THEOREM Refinement == Spec => AbstractSpec
  <1>1. IInv /\ IInv' /\ [Next]_vars => [Abstract!Next]_(Abstract!vars)
    BY NextShown DEF Shown
  <1> QED BY InitInvariant, NextInvariant, InitShown, <1>1, PTL DEF Spec, AbstractSpec, Abstract!Spec

\* Each operation of the space and of its transactions is the operation of its
\* name on the copies: an edit takes just the values it is to take, in an object
\* that any of the levels may hold.
THEOREM EditsAreExact == Spec => EditsAsPromised
  <1>1. IInv /\ IInv' /\ [Next]_vars => [SameOperation]_vars
    BY CreateShown, UseSame DEF SameOperation
  <1> QED BY InitInvariant, NextInvariant, <1>1, PTL DEF Spec, EditsAsPromised

\* The levels below an open transaction keep what they show, and its end has
\* no effect on them or all of its effects on the one it was opened on.
THEOREM TransactionsAreAtomic == Spec => AllOrNothing
  <1>1. IInv /\ IInv' /\ [Next]_vars => [KeptOrWhole]_vars
    BY NextShown DEF Shown
  <1> QED BY InitInvariant, NextInvariant, <1>1, PTL DEF Spec, AllOrNothing
=============================================================================
