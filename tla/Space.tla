------------------------------- MODULE Space -------------------------------
(***************************************************************************)
(* The object space of src/src/space.rs: struct Space, the transactions    *)
(* nested on it and the trait Access both implement.  The state is the     *)
(* stack of what is open: stack[1] is the Space, every further frame the   *)
(* transaction of one nested call of `transaction`, with the copies its    *)
(* closure made of it (Transaction is Clone; System::run_splinter relies   *)
(* on that).  Only the innermost level can be used: the closure's caller   *)
(* is borrowed.                                                            *)
(***************************************************************************)
EXTENDS Attributes

CONSTANTS
  MaxDepth,    \* bound: levels open at a time, the space included
  MaxValues,   \* bound: values of one attribute name
  MaxClones    \* bound: copies of a transaction alive at a time

ASSUME BoundsAssumption == MaxDepth \in Nat \ {0} /\ MaxValues \in Nat /\ MaxClones \in Nat
ASSUME DataAssumption == Data \cap {"object", "tuple"} = {}
\* Missing is told apart from vectors and attributes.
ASSUME MissingAssumption == Missing \notin Seq(Value(Id)) /\ Missing \notin AttrData(Id)

VARIABLES
  nextId,      \* OBJECT_ID_SEQUENCE, shared by every level
  stack        \* the open levels, innermost last

vars == <<nextId, stack>>

Objects(ids) ==
  {objs \in [Id -> {Missing} \cup AttrData(ids)] : \A i \in Id \ ids : objs[i] = Missing}

\* Space's fields and Transaction's local ones, made of the given ids.
Level(ids) == [roots : SUBSET ids, objs : Objects(ids)]

Frame(ids) == [tx : Level(ids), clones : SUBSET Level(ids)]

NoObjects == [id \in Id |-> Missing]

Init ==
  /\ nextId = 1
  /\ stack = << [tx |-> [roots |-> {}, objs |-> NoObjects], clones |-> {}] >>

Depth == Len(stack)

Tx == stack[Depth].tx

\* The ids a client can hold: the field of Id is private.
Held == {i \in Id : i < nextId}

-----------------------------------------------------------------------------
(* attributes: a level answers for the objects it has an entry for and     *)
(* asks the level below for the others.                                    *)

Holders(d, id) == {j \in 1 .. d : stack[j].tx.objs[id] # Missing}

Below(d, id) ==
  IF Holders(d, id) = {} THEN NoAttrs
  ELSE stack[CHOOSE j \in Holders(d, id) : \A i \in Holders(d, id) : i <= j]
         .tx.objs[id]

\* Mutant: an object whose attributes have been cleared masks nothing.
AttrsUnmasked(level, d, id) ==
  IF level.objs[id] \in {Missing, NoAttrs} THEN Below(d - 1, id) ELSE level.objs[id]

Attrs(level, d, id) ==
  IF level.objs[id] = Missing THEN Below(d - 1, id) ELSE level.objs[id]

Read(id) == Attrs(Tx, Depth, id)

-----------------------------------------------------------------------------

WithEntry(level, id, attrs) == [level EXCEPT !.objs[id] = attrs]

WithRoot(level, id) == [level EXCEPT !.roots = @ \cup {id}]

\* Mutant: edits go to the space.
UpdateSpace(level) == stack' = [stack EXCEPT ![1].tx = level]

Update(level) == stack' = [stack EXCEPT ![Depth].tx = level]

\* attributes_mut followed by one edit: the level gets an entry of its own,
\* which starts as what it reads.
Edit(id, attrs) ==
  /\ Update(WithEntry(Tx, id, attrs))
  /\ UNCHANGED nextId

\* Mutant: the sequence is read and not advanced.
NewIdStuck == nextId <= MaxId /\ UNCHANGED nextId

NewId ==
  /\ nextId <= MaxId
  /\ nextId' = nextId + 1

CreateId == NewId /\ UNCHANGED stack

CreateRootId == NewId /\ Update(WithRoot(Tx, nextId))

CreateObject == NewId /\ Update(WithEntry(Tx, nextId, Read(nextId)))

CreateRootObject ==
  NewId /\ Update(WithEntry(WithRoot(Tx, nextId), nextId, Read(nextId)))

\* A space copies the entry it has, a transaction what it reads unless empty.
CloneObject(id) ==
  /\ NewId
  /\ IF (IF Depth = 1 THEN Tx.objs[id] # Missing ELSE Read(id) # NoAttrs)
       THEN Update(WithEntry(Tx, nextId, Read(id)))
       ELSE UNCHANGED stack

RegisterRoot(id) == Update(WithRoot(Tx, id)) /\ UNCHANGED nextId

UnregisterRoot(id) ==
  Update([Tx EXCEPT !.roots = @ \ {id}]) /\ UNCHANGED nextId

Add(id, n, v) ==
  /\ Len(Named(Read(id), n)) < MaxValues
  /\ Edit(id, Added(Read(id), n, v))

\* remove_single: the first match goes, or nothing matches.
RemoveSingle(id, n) ==
  \/ \E i \in DOMAIN Named(Read(id), n) :
        FirstMatch(Read(id), n, i) /\ Edit(id, Removed(Read(id), n, i))
  \/ Edit(id, Read(id))

RemoveSingleNamed(id, n) == Edit(id, Popped(Read(id), n))

RemoveAllNamed(id, n) == Edit(id, Emptied(Read(id), n))

Retain(id) ==
  \E pick \in PicksOf(Read(id)) : Edit(id, Retained(Read(id), pick))

RetainNamed(id, n) == Edit(id, OnlyNamed(Read(id), n))

ClearAll(id) == Edit(id, NoAttrs)

ClearNamed(id, n) == Edit(id, Emptied(Read(id), n))

-----------------------------------------------------------------------------
(* transaction: the closure runs on a new level with a copy of the roots   *)
(* and no objects of its own.                                              *)

\* Mutant: a transaction starts without the roots.
BeginRootless ==
  /\ Depth < MaxDepth
  /\ stack' = Append(stack, [tx |-> [roots |-> {}, objs |-> NoObjects], clones |-> {}])
  /\ UNCHANGED nextId

Begin ==
  /\ Depth < MaxDepth
  /\ stack' = Append(stack, [tx |-> [Tx EXCEPT !.objs = NoObjects], clones |-> {}])
  /\ UNCHANGED nextId

\* Mutant: what has been cleared in the transaction is not taken over.
MergedNonEmpty(level, update) ==
  [roots |-> update.roots,
   objs |-> [i \in Id |->
               IF update.objs[i] \in {Missing, NoAttrs} THEN level.objs[i] ELSE update.objs[i]]]

\* The roots are replaced as a whole, the entries one by one.
Merged(level, update) ==
  [roots |-> update.roots,
   objs |-> [i \in Id |->
               IF update.objs[i] = Missing THEN level.objs[i] ELSE update.objs[i]]]

\* The closure returns Some(tx).
Commit ==
  /\ Depth > 1
  /\ stack' = [i \in 1 .. Depth - 1 |->
                 IF i = Depth - 1
                   THEN [stack[i] EXCEPT !.tx = Merged(@, Tx)]
                   ELSE stack[i]]
  /\ UNCHANGED nextId

\* Mutant: an abort also drops the level the transaction was opened on.
AbortBoth ==
  /\ Depth > 1
  /\ stack' = [i \in 1 .. Depth - 2 |-> stack[i]]
  /\ UNCHANGED nextId

\* The closure returns None.
Abort ==
  /\ Depth > 1
  /\ stack' = [i \in 1 .. Depth - 1 |-> stack[i]]
  /\ UNCHANGED nextId

\* The closure copies its transaction, or goes on with one of the copies.
CloneTransaction ==
  /\ Depth > 1
  /\ Cardinality(stack[Depth].clones) < MaxClones
  /\ stack' = [stack EXCEPT ![Depth].clones = @ \cup {Tx}]
  /\ UNCHANGED nextId

SwitchTransaction ==
  /\ Depth > 1
  /\ \E c \in stack[Depth].clones :
       stack' = [stack EXCEPT ![Depth] =
                   [tx |-> c, clones |-> (@.clones \ {c}) \cup {Tx}]]
  /\ UNCHANGED nextId

-----------------------------------------------------------------------------
(* The two operations only the Space itself has.                           *)

Closed(objs, S) ==
  \A i \in S : objs[i] # Missing => Mentions(objs[i]) \subseteq S

\* What the marking loop marks (module Marking runs the loop itself).
Reachable(level) ==
  {i \in Id : \A S \in SUBSET Id :
     level.roots \subseteq S /\ Closed(level.objs, S) => i \in S}

CollectGarbage ==
  /\ Depth = 1
  /\ Update([Tx EXCEPT !.objs =
                [i \in Id |-> IF i \in Reachable(Tx) THEN @[i] ELSE Missing]])
  /\ UNCHANGED nextId

ShrinkToFit ==
  /\ Depth = 1
  /\ Update([Tx EXCEPT !.objs =
                [i \in Id |-> IF @[i] = NoAttrs THEN Missing ELSE @[i]]])
  /\ UNCHANGED nextId

-----------------------------------------------------------------------------

Use(id) ==
  \/ CloneObject(id)
  \/ RegisterRoot(id)
  \/ UnregisterRoot(id)
  \/ Retain(id)
  \/ ClearAll(id)
  \/ \E n \in Names :
       \/ \E v \in Value(Held) : Add(id, n, v)
       \/ RemoveSingle(id, n)
       \/ RemoveSingleNamed(id, n)
       \/ RemoveAllNamed(id, n)
       \/ RetainNamed(id, n)
       \/ ClearNamed(id, n)

Next ==
  \/ CreateId
  \/ CreateRootId
  \/ CreateObject
  \/ CreateRootObject
  \/ \E id \in Held : Use(id)
  \/ Begin
  \/ Commit
  \/ Abort
  \/ CloneTransaction
  \/ SwitchTransaction
  \/ CollectGarbage
  \/ ShrinkToFit

Spec == Init /\ [][Next]_vars

-----------------------------------------------------------------------------
(* Properties.                                                             *)

\* The fields of Space and Transaction, and the levels that can be open.
TypeOK ==
  /\ nextId \in 1 .. MaxId + 1
  /\ stack \in Seq(Frame(Id))
  /\ Depth \in 1 .. MaxDepth

\* An id that has not been handed out is known to no level and no copy of a
\* transaction, as a root, as an object or inside a value: what create_object
\* and clone_object write under a new id meets nothing that is already there,
\* also when transactions that created objects were aborted before.
Fresh == stack \in Seq(Frame(Held))
=============================================================================
