--------------------------- MODULE SnapshotSpace ---------------------------
(***************************************************************************)
(* What an object space promises its clients, whatever it stores: every    *)
(* open transaction works on a full private copy of the level below it; a  *)
(* commit replaces the level below by that copy, an abort drops it, and a  *)
(* copy of a transaction is another full copy.  Every edit says which      *)
(* values of which names go, new ids are unknown to every level, and a     *)
(* garbage collection changes nothing a root leads to.                     *)
(***************************************************************************)
EXTENDS Attributes

VARIABLES
  nextId,      \* the next object id
  snaps        \* the open levels, innermost last

vars == <<nextId, snaps>>

\* Every object has a (possibly empty) list of values for every name.
Contents(ids) == [Names -> Seq(Value(ids))]

Snapshot == [roots : SUBSET Id, attrs : [Id -> Contents(Id)]]

Empty == [n \in Names |-> <<>>]

Init ==
  /\ nextId = 1
  /\ snaps = << [tx |-> [roots |-> {}, attrs |-> [id \in Id |-> Empty]], clones |-> {}] >>

Depth == Len(snaps)

Tx == snaps[Depth].tx

Held == {i \in Id : i < nextId}

Becomes(snapshot) == snaps' = [snaps EXCEPT ![Depth].tx = snapshot]

-----------------------------------------------------------------------------

NewId ==
  /\ nextId \in Id
  /\ nextId' = nextId + 1

\* A new object has no attributes, and leads to nothing.
CreateObject == NewId /\ UNCHANGED snaps

CreateRoot == NewId /\ Becomes([Tx EXCEPT !.roots = @ \cup {nextId}])

CloneObject(id) == NewId /\ Becomes([Tx EXCEPT !.attrs[nextId] = Tx.attrs[id]])

RegisterRoot(id) ==
  /\ Becomes([Tx EXCEPT !.roots = @ \cup {id}])
  /\ UNCHANGED nextId

UnregisterRoot(id) ==
  /\ Becomes([Tx EXCEPT !.roots = @ \ {id}])
  /\ UNCHANGED nextId

-----------------------------------------------------------------------------
(* Edits say what becomes of the values of every name of an object.        *)

Change(id, contents) ==
  /\ Becomes([Tx EXCEPT !.attrs[id] = contents])
  /\ UNCHANGED nextId

\* The values of one name change, those of the others stay.
ChangeNamed(id, n, values) == Change(id, [Tx.attrs[id] EXCEPT ![n] = values])

Add(id, n, v) == ChangeNamed(id, n, Append(Tx.attrs[id][n], v))

\* The first of the values that are looked for goes, or there is none.
RemoveSingle(id, n) ==
  \/ \E v \in ToSet(Tx.attrs[id][n]) : ChangeNamed(id, n, RemoveFirst(Tx.attrs[id][n], v))
  \/ Change(id, Tx.attrs[id])

\* The value added last goes.
RemoveSingleNamed(id, n) ==
  IF Tx.attrs[id][n] = <<>> THEN Change(id, Tx.attrs[id])
                            ELSE ChangeNamed(id, n, Front(Tx.attrs[id][n]))

ClearNamed(id, n) == ChangeNamed(id, n, <<>>)

RetainNamed(id, n) == Change(id, [Empty EXCEPT ![n] = Tx.attrs[id][n]])

ClearAll(id) == Change(id, Empty)

\* Some of the values of every name stay, in their order.
Retain(id) ==
  \E pick \in PicksOf(Tx.attrs[id]) :
    Change(id, [n \in Names |-> Picked(Tx.attrs[id][n], pick[n])])

Use(id) ==
  \/ CloneObject(id)
  \/ RegisterRoot(id)
  \/ UnregisterRoot(id)
  \/ Retain(id)
  \/ ClearAll(id)
  \/ \E n \in Names :
       \/ \E v \in Value(Held) : Add(id, n, v)
       \/ RemoveSingle(id, n)
       \/ RemoveSingleNamed(id, n)
       \/ ClearNamed(id, n)
       \/ RetainNamed(id, n)

-----------------------------------------------------------------------------

Begin ==
  /\ snaps' = Append(snaps, [tx |-> Tx, clones |-> {}])
  /\ UNCHANGED nextId

Commit ==
  /\ Depth > 1
  /\ snaps' = [i \in 1 .. Depth - 1 |->
                 IF i = Depth - 1 THEN [snaps[i] EXCEPT !.tx = Tx] ELSE snaps[i]]
  /\ UNCHANGED nextId

Abort ==
  /\ Depth > 1
  /\ snaps' = [i \in 1 .. Depth - 1 |-> snaps[i]]
  /\ UNCHANGED nextId

CopyTransaction ==
  /\ Depth > 1
  /\ snaps' = [snaps EXCEPT ![Depth].clones = @ \cup {Tx}]
  /\ UNCHANGED nextId

\* Go on with a copy; the one worked on so far becomes a copy.
SwitchTransaction ==
  /\ Depth > 1
  /\ \E c \in snaps[Depth].clones :
       \E rest \in {snaps[Depth].clones, snaps[Depth].clones \ {c}} :
         snaps' = [snaps EXCEPT ![Depth] = [tx |-> c, clones |-> rest \cup {Tx}]]
  /\ UNCHANGED nextId

-----------------------------------------------------------------------------

Live(snapshot) ==
  {i \in Id : \A S \in SUBSET Id :
     snapshot.roots \subseteq S /\ (\A j \in S : Mentions(snapshot.attrs[j]) \subseteq S)
       => i \in S}

\* Every object no root leads to loses its attributes, the others keep them.
Forget ==
  /\ Depth = 1
  /\ Becomes([Tx EXCEPT !.attrs =
                [i \in Id |-> IF i \in Live(Tx) THEN @[i] ELSE Empty]])
  /\ UNCHANGED nextId

Next ==
  \/ CreateObject
  \/ CreateRoot
  \/ \E id \in Held : Use(id)
  \/ Begin
  \/ Commit
  \/ Abort
  \/ CopyTransaction
  \/ SwitchTransaction
  \/ Forget

Spec == Init /\ [][Next]_vars
=============================================================================
