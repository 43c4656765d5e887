------------------------------ MODULE Marking ------------------------------
(***************************************************************************)
(* Space::collect_garbage of src/src/space.rs, one iteration of its loop a *)
(* step: a stack of values to trace, the vector of the ids marked so far,  *)
(* which is kept in order and searched by bisection, and the final retain. *)
(* Tuples nest to any depth and are traced through; objects may refer to   *)
(* each other in cycles, to themselves, and to objects without an entry.   *)
(***************************************************************************)
EXTENDS Naturals, SequencesExt

CONSTANTS
  Id,          \* object ids; as values, the objects they refer to
  Tuple,       \* tuple values
  Plain,       \* symbols, integers and floats
  items,       \* the values a tuple holds
  Contents,    \* what an object's attributes may hold, all names together
  Roots        \* the root registrations considered

Value == Id \cup Tuple \cup Plain

\* Ids are ordered as the numbers in them.
ASSUME KindsAssumption ==
  /\ Id \subseteq Nat
  /\ Id \cap Tuple = {}
  /\ Id \cap Plain = {}
  /\ Tuple \cap Plain = {}
ASSUME ItemsAssumption == items \in [Tuple -> Seq(Value)]
ASSUME ContentsAssumption == Contents \subseteq Seq(Value)
ASSUME RootsAssumption == Roots \subseteq Seq(Id)

VARIABLES
  roots,       \* root_objects
  objects,     \* the ids that have an entry
  contents,    \* the attribute values of each object, none without an entry
  trace,       \* values to look at, a stack
  marked,      \* ids found to be in use, a vector
  pc           \* "trace", then "done"

vars == <<roots, objects, contents, trace, marked, pc>>

Init ==
  /\ roots \in Roots
  /\ objects \in SUBSET Id
  /\ contents \in [Id -> Contents \cup {<<>>}]
  /\ \A id \in Id \ objects : contents[id] = <<>>
  /\ trace = roots
  /\ marked = <<>>
  /\ pc = "trace"

-----------------------------------------------------------------------------

Top == Last(trace)

\* Mutant: tuples are not looked into.
TraceTupleAsPlain ==
  /\ Top \in Tuple
  /\ trace' = Front(trace)
  /\ UNCHANGED marked

TraceTuple ==
  /\ Top \in Tuple
  /\ trace' = Front(trace) \o items[Top]
  /\ UNCHANGED marked

TracePlain ==
  /\ Top \in Plain
  /\ trace' = Front(trace)
  /\ UNCHANGED marked

\* binary_search on the vector: the id is there, or this is the place for it.
IsMarked(id) == id \in ToSet(marked)

Place(k, id) ==
  /\ \A i \in 1 .. k - 1 : marked[i] < id
  /\ \A i \in k .. Len(marked) : id < marked[i]

\* Mutant: a marked object ends the loop.
TraceMarkedBreaks ==
  /\ Top \in Id
  /\ IsMarked(Top)
  /\ trace' = <<>>
  /\ UNCHANGED marked

\* Mutant: a marked object is expanded again.
TraceMarkedAgain ==
  /\ Top \in Id
  /\ IsMarked(Top)
  /\ trace' = Front(trace) \o contents[Top]
  /\ UNCHANGED marked

TraceMarked ==
  /\ Top \in Id
  /\ IsMarked(Top)
  /\ trace' = Front(trace)
  /\ UNCHANGED marked

\* Mutant: every object with an entry is traced along.
TraceObjectConservative ==
  /\ Top \in Id
  /\ ~IsMarked(Top)
  /\ \E k \in 1 .. Len(marked) + 1 : Place(k, Top) /\ marked' = InsertAt(marked, k, Top)
  /\ trace' = Front(trace) \o contents[Top] \o SetToSeq({id \in objects : ~IsMarked(id)})

\* Mutant: the id is put at the end of the vector.
TraceObjectPushes ==
  /\ Top \in Id
  /\ ~IsMarked(Top)
  /\ marked' = Append(marked, Top)
  /\ trace' = Front(trace) \o contents[Top]

TraceObject ==
  /\ Top \in Id
  /\ ~IsMarked(Top)
  /\ \E k \in 1 .. Len(marked) + 1 : Place(k, Top) /\ marked' = InsertAt(marked, k, Top)
  /\ trace' = Front(trace) \o contents[Top]

Trace ==
  /\ pc = "trace"
  /\ trace # <<>>
  /\ TraceTuple \/ TracePlain \/ TraceMarked \/ TraceObject
  /\ UNCHANGED <<roots, objects, contents, pc>>

Sweep ==
  /\ pc = "trace"
  /\ trace = <<>>
  /\ objects' = {id \in objects : IsMarked(id)}
  /\ contents' = [id \in Id |-> IF IsMarked(id) THEN contents[id] ELSE <<>>]
  /\ pc' = "done"
  /\ UNCHANGED <<roots, trace, marked>>

Next == Trace \/ Sweep

Spec == Init /\ [][Next]_vars

\* The loop runs to its end.
FairSpec == Spec /\ WF_vars(Next)

-----------------------------------------------------------------------------
(* Properties.                                                             *)

\* The values directly inside a value: a tuple's items, an object's values.
Inside(v) ==
  IF v \in Tuple THEN ToSet(items[v]) ELSE IF v \in Id THEN ToSet(contents[v]) ELSE {}

Closed(S) == \A v \in S : Inside(v) \subseteq S

\* The values a root leads to.
Reachable ==
  {v \in Value : \A S \in SUBSET Value : ToSet(roots) \subseteq S /\ Closed(S) => v \in S}

\* The ids in the vector are in order and none is there twice: the searches by
\* bisection, in the loop and in the sweep, find what has been marked.
TypeOK ==
  /\ roots \in Seq(Id)
  /\ objects \subseteq Id
  /\ contents \in [Id -> Seq(Value)]
  /\ trace \in Seq(Value)
  /\ marked \in Seq(Id)
  /\ \A i, j \in DOMAIN marked : i < j => marked[i] < marked[j]
  /\ pc \in {"trace", "done"}

\* Nothing is marked or traced that no root leads to.
OnlyReachable ==
  pc = "trace" => ToSet(marked) \subseteq Reachable /\ ToSet(trace) \subseteq Reachable

\* When the loop ends every object a root leads to, through tuples of any
\* depth and cycles of objects, has been marked: the sweep takes none of them.
NoneMissed == pc = "trace" /\ trace = <<>> => Reachable \cap Id \subseteq ToSet(marked)

\* The sweep removes the entries of the objects no root leads to and no other.
Exact == [][objects' = objects \cap Reachable]_<<objects, pc>>

\* Cycles do not keep the loop going: each object is expanded at most once.
Terminates == <>(pc = "done")
=============================================================================
