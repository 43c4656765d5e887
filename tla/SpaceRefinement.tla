-------------------------- MODULE SpaceRefinement --------------------------
(***************************************************************************)
(* What Space promises its clients: read through its overlays, it is       *)
(* SnapshotSpace.                                                          *)
(***************************************************************************)
EXTENDS Space

Contents(attrs) == [n \in Names |-> Named(attrs, n)]

Snap(level, d) ==
  [roots |-> level.roots, attrs |-> [id \in Id |-> Contents(Attrs(level, d, id))]]

Snaps ==
  [d \in DOMAIN stack |->
     [tx |-> Snap(stack[d].tx, d), clones |-> {Snap(c, d) : c \in stack[d].clones}]]

Abstract == INSTANCE SnapshotSpace WITH snaps <- Snaps

\* Space and its nested transactions behave as if every transaction worked on
\* a full copy: overlay reads, copy on first write, entry-wise commit, cloned
\* transactions, the cleared objects that mask the level below, and the
\* collection cannot be told from the snapshots of SnapshotSpace.
AbstractSpec == Abstract!Spec

\* The operations on an object, and what they are on snapshots.
SameUse(id) ==
  /\ CloneObject(id) => Abstract!CloneObject(id)
  /\ RegisterRoot(id) => Abstract!RegisterRoot(id)
  /\ UnregisterRoot(id) => Abstract!UnregisterRoot(id)
  /\ Retain(id) => Abstract!Retain(id)
  /\ ClearAll(id) => Abstract!ClearAll(id)
  /\ \A n \in Names :
       /\ \A v \in Value(Held) : Add(id, n, v) => Abstract!Add(id, n, v)
       /\ RemoveSingle(id, n) => Abstract!RemoveSingle(id, n)
       /\ RemoveSingleNamed(id, n) => Abstract!RemoveSingleNamed(id, n)
       /\ RemoveAllNamed(id, n) \/ ClearNamed(id, n) => Abstract!ClearNamed(id, n)
       /\ RetainNamed(id, n) => Abstract!RetainNamed(id, n)

SameOperation ==
  /\ CreateId \/ CreateObject => Abstract!CreateObject
  /\ CreateRootId \/ CreateRootObject => Abstract!CreateRoot
  /\ \A id \in Held : SameUse(id)

\* Each operation does to the snapshots what the operation of its name does:
\* an edit takes the values it is to take, the first match or the last one
\* added, and leaves all others, those of other names and those it copies from
\* the level below, in their order, although a name without values can be a
\* name with an empty vector, a name that is not there, or an object without an
\* entry.
EditsAsPromised == [][SameOperation]_vars

KeptOrWhole ==
  \A d \in 1 .. Depth - 1 :
    d \in DOMAIN stack' =>
      \/ Snaps'[d] = Snaps[d]
      \/ /\ Depth' = Depth - 1
         /\ d = Depth'
         /\ Snaps'[d].tx = Snaps[Depth].tx

\* While a transaction is open the levels below it show what they showed, and
\* when it ends the level below shows either that or all the transaction did.
AllOrNothing == [][KeptOrWhole]_vars
=============================================================================
