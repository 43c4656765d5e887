----------------------------- MODULE Attributes -----------------------------
(***************************************************************************)
(* The data of src/src/space.rs: object ids, values as far as the space    *)
(* looks into them, and the attribute lists of objects with their edits    *)
(* (struct AttributesMut).  Pure operators, no state.                      *)
(***************************************************************************)
EXTENDS Naturals, SequencesExt

CONSTANTS
  MaxId,     \* bound: the last id OBJECT_ID_SEQUENCE hands out
  Names,     \* attribute names
  Data,      \* values that mention no object: symbols, integers, floats
  Tuples,    \* what tuples hold: the set of objects in them, at any depth
  Missing    \* a name without a vector, an object without an entry

ASSUME MaxIdAssumption == MaxId \in Nat

Id == 1 .. MaxId

\* A value is what the space distinguishes: its kind and the objects in it.
Object(id) == [kind |-> "object", refs |-> {id}]

Value(ids) == {Object(id) : id \in ids}
                \cup [kind : Data, refs : {{}}]
                \cup [kind : {"tuple"}, refs : {t \in Tuples : t \subseteq ids}]

-----------------------------------------------------------------------------
(* AttrData: the vector of values of each name.  A name whose values have  *)
(* all been removed keeps an empty vector, other names are Missing.        *)

AttrData(ids) == [Names -> {Missing} \cup Seq(Value(ids))]

NoAttrs == [n \in Names |-> Missing]

\* iter_named: the values of a name, none when the name does not occur.
Named(attrs, n) == IF attrs[n] = Missing THEN <<>> ELSE attrs[n]

\* add: push to the values of the name, or append a new name.
Added(attrs, n, v) == [attrs EXCEPT ![n] = Append(Named(attrs, n), v)]

\* Position i holds the first value of the name that some matcher accepts: a
\* MatchValue is a predicate on values, so no equal value comes before it.
FirstMatch(attrs, n, i) ==
  \A j \in 1 .. i - 1 : Named(attrs, n)[j] # Named(attrs, n)[i]

\* remove_single with a match at position i.
Removed(attrs, n, i) == [attrs EXCEPT ![n] = RemoveAt(@, i)]

\* Mutant: the value added first is taken.
PoppedFirst(attrs, n) ==
  IF Named(attrs, n) = <<>> THEN attrs ELSE Removed(attrs, n, 1)

\* remove_single_named: Vec::pop takes the last value.
Popped(attrs, n) ==
  IF Named(attrs, n) = <<>> THEN attrs ELSE Removed(attrs, n, Len(attrs[n]))

\* remove_all_named and clear_named: the name stays with no values.
Emptied(attrs, n) ==
  [attrs EXCEPT ![n] = IF @ = Missing THEN Missing ELSE <<>>]

\* retain_named: every other name stays with no values.
OnlyNamed(attrs, n) ==
  [m \in Names |-> IF m = n \/ attrs[m] = Missing THEN attrs[m] ELSE <<>>]

\* The ways to keep some of the first m positions of a vector, in order.
Picks(m) ==
  {p \in UNION {[1 .. k -> 1 .. m] : k \in 0 .. m} :
     \A i, j \in DOMAIN p : i < j => p[i] < p[j]}

Picked(s, p) == [i \in DOMAIN p |-> s[p[i]]]

\* A choice of positions for each name.
PicksOf(attrs) ==
  {pick \in [Names -> UNION {Picks(Len(Named(attrs, n))) : n \in Names}] :
     \A n \in Names : pick[n] \in Picks(Len(Named(attrs, n)))}

\* retain: the caller's closure decides value by value, so any subsequence of
\* the values of each name may remain.
Retained(attrs, pick) ==
  [n \in Names |->
     IF attrs[n] = Missing THEN Missing ELSE Picked(attrs[n], pick[n])]

\* The objects mentioned by the attributes of an object.
Mentions(attrs) ==
  UNION {UNION {Named(attrs, n)[i].refs : i \in DOMAIN Named(attrs, n)} : n \in Names}
=============================================================================
