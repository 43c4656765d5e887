--------------------------- MODULE MarkingProofs ---------------------------
(***************************************************************************)
(* The marking loop marks exactly what the roots lead to, for every heap.  *)
(***************************************************************************)
EXTENDS Marking, SequenceTheorems, TLAPS

\* Popping the last value and pushing others.
LEMMA PopPush ==
  ASSUME NEW S, NEW s \in Seq(S), s # <<>>, NEW t \in Seq(S)
  PROVE  /\ Last(s) \in S /\ Last(s) \in ToSet(s)
         /\ Front(s) \in Seq(S) /\ Front(s) \o t \in Seq(S)
         /\ ToSet(s) = ToSet(Front(s)) \cup {Last(s)}
         /\ ToSet(Front(s) \o t) = ToSet(Front(s)) \cup ToSet(t)
  <1> DEFINE n == Len(s) - 1
  <1>1. n \in Nat /\ Len(s) = n + 1 /\ Len(s) \in 1 .. Len(s)
    BY EmptySeq
  <1>2. Front(s) \in Seq(S) /\ Len(Front(s)) = n /\ \A i \in 1 .. n : Front(s)[i] = s[i]
    BY <1>1, SubSeqProperties DEF Front
  <1>3. Last(s) = s[n + 1] /\ Last(s) \in S
    BY <1>1, ElementOfSeq DEF Last
  <1>4. Last(s) \in ToSet(s)
    BY <1>1, <1>3 DEF ToSet
  <1>5. ToSet(s) = ToSet(Front(s)) \cup {Last(s)}
    BY <1>1, <1>2, <1>3 DEF ToSet
  <1>6. Front(s) \o t \in Seq(S) /\ ToSet(Front(s) \o t) = ToSet(Front(s)) \cup ToSet(t)
    <2> DEFINE f == Front(s)
    <2>1. f \in Seq(S)
      BY <1>2
    <2> HIDE DEF f
    <2>2. f \o t \in Seq(S)
      BY <2>1, ConcatProperties
    <2>3. Range(f \o t) = Range(f) \cup Range(t)
      BY <2>1, RangeConcatenation
    <2>4. \A q : ToSet(q) = Range(q)
      BY DEF ToSet, Range
    <2> QED BY <2>2, <2>3, <2>4 DEF f
  <1> QED BY <1>2, <1>3, <1>4, <1>5, <1>6

Ascending(s) == \A i, j \in DOMAIN s : i < j => s[i] < s[j]

\* An id put in its place: the vector has it and what it had, still in order.
LEMMA PutInPlace ==
  ASSUME NEW s \in Seq(Id), Ascending(s), NEW v \in Id, NEW k \in 1 .. Len(s) + 1,
         \A i \in 1 .. k - 1 : s[i] < v, \A i \in k .. Len(s) : v < s[i]
  PROVE  /\ InsertAt(s, k, v) \in Seq(Id)
         /\ ToSet(InsertAt(s, k, v)) = ToSet(s) \cup {v}
         /\ Ascending(InsertAt(s, k, v))
  <1> DEFINE r == InsertAt(s, k, v)
  <1> DEFINE n == Len(s)
  <1>1. n \in Nat /\ k \in Nat /\ k >= 1 /\ k <= n + 1
    OBVIOUS
  <1>2. \A i \in 1 .. n : s[i] \in Id /\ s[i] \in Nat
    BY ElementOfSeq, KindsAssumption
  <1>3. DOMAIN s = 1 .. n
    OBVIOUS
  <1> DEFINE p == SubSeq(s, 1, k - 1)
  <1> DEFINE q == SubSeq(s, k, n)
  <1>4. p \in Seq(Id) /\ Len(p) = k - 1 /\ \A i \in 1 .. k - 1 : p[i] = s[i]
    BY <1>1, <1>2, SubSeqProperties
  <1>5. q \in Seq(Id) /\ Len(q) = n - k + 1 /\ \A i \in 1 .. n - k + 1 : q[i] = s[k + i - 1]
    BY <1>1, <1>2, SubSeqProperties
  <1>6. r = (p \o <<v>>) \o q
    BY DEF InsertAt
  <1> HIDE DEF p, q, r
  <1>7. /\ r \in Seq(Id) /\ Len(r) = n + 1
        /\ \A i \in 1 .. n + 1 :
             r[i] = IF i < k THEN s[i] ELSE IF i = k THEN v ELSE s[i - 1]
    <2>1. p \o <<v>> \in Seq(Id) /\ Len(p \o <<v>>) = k
      BY <1>1, <1>4
    <2>2. \A i \in 1 .. k : (p \o <<v>>)[i] = IF i < k THEN s[i] ELSE v
      BY <1>1, <1>4
    <2> DEFINE h == p \o <<v>>
    <2> HIDE DEF h
    <2>3. h \in Seq(Id) /\ Len(h) = k /\ r = h \o q
      BY <2>1, <1>6 DEF h
    <2>4. r \in Seq(Id) /\ Len(r) = n + 1
      BY <2>3, <1>1, <1>5
    <2>5. ASSUME NEW i \in 1 .. n + 1
          PROVE  r[i] = IF i < k THEN s[i] ELSE IF i = k THEN v ELSE s[i - 1]
      <3>1. CASE i <= k
        BY <3>1, <2>2, <2>3, <1>1, <1>5 DEF h
      <3>2. CASE i > k
        <4>1. i - k \in 1 .. n - k + 1 /\ k + (i - k) - 1 = i - 1
          BY <3>2, <1>1
        <4>2. r[i] = q[i - k]
          BY <3>2, <2>3, <1>1, <1>5
        <4> QED BY <4>1, <4>2, <3>2, <1>1, <1>5
      <3> QED BY <3>1, <3>2, <1>1
    <2> QED BY <2>4, <2>5
  <1>8. ToSet(r) = ToSet(s) \cup {v}
    <2>1. DOMAIN r = 1 .. n + 1
      BY <1>7
    <2>2. ASSUME NEW x \in ToSet(r) PROVE x \in ToSet(s) \cup {v}
      <3>1. PICK i \in 1 .. n + 1 : x = r[i]
        BY <2>1 DEF ToSet
      <3>2. CASE i < k
        <4>1. i \in 1 .. n /\ x = s[i]
          BY <3>1, <3>2, <1>1, <1>7
        <4> QED BY <4>1, <1>3 DEF ToSet
      <3>3. CASE i = k
        BY <3>1, <3>3, <1>1, <1>7
      <3>4. CASE i > k
        <4>1. i - 1 \in 1 .. n /\ x = s[i - 1]
          BY <3>1, <3>4, <1>1, <1>7
        <4> QED BY <4>1, <1>3 DEF ToSet
      <3> QED BY <3>2, <3>3, <3>4, <1>1
    <2>3. ASSUME NEW x \in ToSet(s) PROVE x \in ToSet(r)
      <3>1. PICK i \in 1 .. n : x = s[i]
        BY <1>3 DEF ToSet
      <3>2. CASE i < k
        BY <3>1, <3>2, <2>1, <1>1, <1>7 DEF ToSet
      <3>3. CASE i >= k
        <4>1. i + 1 \in 1 .. n + 1 /\ r[i + 1] = s[i]
          BY <3>3, <1>1, <1>7
        <4> QED BY <4>1, <3>1, <2>1 DEF ToSet
      <3> QED BY <3>2, <3>3, <1>1
    <2>4. v \in ToSet(r)
      BY <2>1, <1>1, <1>7 DEF ToSet
    <2> QED BY <2>2, <2>3, <2>4
  <1>9. Ascending(r)
    <2> SUFFICES ASSUME NEW i \in 1 .. n + 1, NEW j \in 1 .. n + 1, i < j PROVE r[i] < r[j]
      BY <1>7 DEF Ascending
    <2>1. v \in Nat
      BY KindsAssumption
    <2>2. CASE j < k
      BY <2>2, <1>1, <1>3, <1>7 DEF Ascending
    <2>3. CASE j = k
      BY <2>3, <1>1, <1>7
    <2>4. CASE j > k /\ i = k
      BY <2>4, <1>1, <1>7
    <2>5. CASE j > k /\ i > k
      BY <2>5, <1>1, <1>3, <1>7 DEF Ascending
    <2>6. CASE j > k /\ i < k
      <3>1. i \in 1 .. n /\ j - 1 \in 1 .. n
        BY <2>6, <1>1
      <3>2. s[i] < v /\ v < s[j - 1]
        BY <2>6, <1>1, <3>1
      <3>3. s[i] < s[j - 1]
        BY <3>1, <3>2, <2>1, <1>2
      <3> QED BY <2>6, <3>3, <1>1, <1>7
    <2> QED BY <2>2, <2>3, <2>4, <2>5, <2>6, <1>1
  <1> QED BY <1>7, <1>8, <1>9 DEF r

-----------------------------------------------------------------------------

\* A set of values settled by its objects: it has the plain values and just
\* the tuples all of whose items it has.
Settled(S) ==
  Plain \subseteq S /\ \A t \in Tuple : t \in S <=> ToSet(items[t]) \subseteq S

\* Nothing is forgotten: tuples leave no mark, but whatever settled set has
\* the marked ids and the values still to trace has the roots and what the
\* marked objects hold.
Complete ==
  pc = "trace" =>
    \A S \in SUBSET Value :
      Settled(S) /\ ToSet(marked) \subseteq S /\ ToSet(trace) \subseteq S =>
        ToSet(roots) \subseteq S /\ \A id \in ToSet(marked) : ToSet(contents[id]) \subseteq S

IInv == TypeOK /\ OnlyReachable /\ Complete

\* The roots are reachable, and so is everything inside a reachable value.
LEMMA ReachableClosed ==
  ASSUME TypeOK
  PROVE  /\ ToSet(roots) \subseteq Reachable
         /\ Closed(Reachable)
  <1>1. ToSet(roots) \subseteq Value
    BY ElementOfSeq DEF TypeOK, ToSet, Value
  <1>2. \A v \in Value : Inside(v) \subseteq Value
    <2>1. \A v \in Tuple : ToSet(items[v]) \subseteq Value
      BY ItemsAssumption, ElementOfSeq DEF ToSet
    <2>2. \A v \in Id : ToSet(contents[v]) \subseteq Value
      BY ElementOfSeq DEF TypeOK, ToSet
    <2> QED BY <2>1, <2>2 DEF Inside
  <1> QED BY <1>1, <1>2 DEF Reachable, Closed

\* The loop starts with the roots to trace and nothing marked.
LEMMA InitInvariant == Init => IInv
  <1> SUFFICES ASSUME Init PROVE IInv
    OBVIOUS
  <1>1. TypeOK
    <2>1. roots \in Seq(Id) /\ roots \in Seq(Value)
      BY RootsAssumption, SeqMonotonic DEF Init, Value
    <2>2. <<>> \in Seq(Value)
      BY EmptySeq
    <2>3. contents \in [Id -> Seq(Value)]
      BY <2>2, ContentsAssumption DEF Init
    <2> QED BY <2>1, <2>3 DEF Init, TypeOK
  <1>2. OnlyReachable
    BY <1>1, ReachableClosed DEF Init, OnlyReachable, ToSet
  <1>3. Complete
    BY DEF Init, Complete, ToSet
  <1> QED BY <1>1, <1>2, <1>3 DEF IInv

\* One value off the stack, with what is inside it pushed or not.
LEMMA TraceStep ==
  ASSUME IInv, Trace
  PROVE  IInv'
  <1> DEFINE v == Last(trace)
  <1> DEFINE rest == Front(trace)
  <1>1. TypeOK /\ OnlyReachable /\ Complete /\ pc = "trace" /\ pc' = "trace" /\ trace # <<>>
    BY DEF IInv, Trace
  <1>2. /\ UNCHANGED <<roots, objects, contents>>
        /\ Reachable' = Reachable
    BY DEF Trace, Reachable, Closed, Inside
  <1>3. /\ v \in Value /\ v \in Reachable
        /\ ToSet(trace) = ToSet(rest) \cup {v}
        /\ ToSet(rest) \subseteq Reachable
        /\ rest \in Seq(Value)
        /\ \A t \in Seq(Value) : /\ rest \o t \in Seq(Value)
                                 /\ ToSet(rest \o t) = ToSet(rest) \cup ToSet(t)
    <2>1. trace \in Seq(Value) /\ <<>> \in Seq(Value)
      BY <1>1, EmptySeq DEF TypeOK
    <2> QED BY <1>1, <2>1, PopPush DEF OnlyReachable
  \* Whatever is pushed is inside v: settled sets and Reachable cannot tell.
  <1>4. CASE TraceTuple
    <2>1. v \in Tuple /\ trace' = rest \o items[v] /\ marked' = marked
      BY <1>4 DEF TraceTuple, Top
    <2>2. items[v] \in Seq(Value)
      BY <2>1, ItemsAssumption
    <2>3. trace' \in Seq(Value) /\ ToSet(trace') = ToSet(rest) \cup ToSet(items[v])
      BY <1>3, <2>1, <2>2
    <2>4. ToSet(items[v]) \subseteq Reachable
      BY <1>1, <1>3, <2>1, ReachableClosed DEF Closed, Inside
    <2>5. TypeOK'
      BY <1>1, <1>2, <2>1, <2>3 DEF TypeOK
    <2>6. OnlyReachable'
      BY <1>1, <1>2, <1>3, <2>1, <2>3, <2>4 DEF OnlyReachable
    <2>7. Complete'
      <3>1. SUFFICES ASSUME NEW S \in SUBSET Value,
                            Settled(S), ToSet(marked) \subseteq S, ToSet(trace') \subseteq S
                     PROVE  /\ ToSet(roots) \subseteq S
                            /\ \A id \in ToSet(marked) : ToSet(contents[id]) \subseteq S
        BY <1>2, <2>1 DEF Complete, Settled
      <3>2. v \in S
        BY <2>1, <2>3, <3>1 DEF Settled
      <3>3. ToSet(trace) \subseteq S
        BY <1>3, <2>3, <3>1, <3>2
      <3> QED BY <1>1, <3>1, <3>3 DEF Complete
    <2> QED BY <2>5, <2>6, <2>7 DEF IInv
  <1>5. CASE TracePlain \/ TraceMarked
    <2>1. v \in Plain \cup ToSet(marked) /\ trace' = rest /\ marked' = marked
      BY <1>5 DEF TracePlain, TraceMarked, IsMarked, Top
    <2>2. TypeOK'
      BY <1>1, <1>2, <1>3, <2>1 DEF TypeOK
    <2>3. OnlyReachable'
      BY <1>1, <1>2, <1>3, <2>1 DEF OnlyReachable
    <2>4. Complete'
      <3>1. SUFFICES ASSUME NEW S \in SUBSET Value,
                            Settled(S), ToSet(marked) \subseteq S, ToSet(trace') \subseteq S
                     PROVE  /\ ToSet(roots) \subseteq S
                            /\ \A id \in ToSet(marked) : ToSet(contents[id]) \subseteq S
        BY <1>2, <2>1 DEF Complete, Settled
      <3>2. v \in S
        BY <2>1, <3>1 DEF Settled
      <3>3. ToSet(trace) \subseteq S
        BY <1>3, <2>1, <3>1, <3>2
      <3> QED BY <1>1, <3>1, <3>3 DEF Complete
    <2> QED BY <2>2, <2>3, <2>4 DEF IInv
  <1>6. CASE TraceObject
    <2>1. /\ v \in Id /\ trace' = rest \o contents[v]
          /\ ToSet(marked') = ToSet(marked) \cup {v}
          /\ marked' \in Seq(Id) /\ Ascending(marked')
      <3>1. /\ v \in Id /\ trace' = rest \o contents[v]
            /\ \E k \in 1 .. Len(marked) + 1 : Place(k, v) /\ marked' = InsertAt(marked, k, v)
        BY <1>6 DEF TraceObject, Top
      <3>2. marked \in Seq(Id) /\ Ascending(marked)
        BY <1>1 DEF TypeOK, Ascending
      <3> QED BY <3>1, <3>2, PutInPlace DEF Place
    <2>2. contents[v] \in Seq(Value) /\ v \notin Tuple
      BY <1>1, <2>1, KindsAssumption DEF TypeOK
    <2>3. trace' \in Seq(Value) /\ ToSet(trace') = ToSet(rest) \cup ToSet(contents[v])
      BY <1>3, <2>1, <2>2
    <2>4. ToSet(contents[v]) \subseteq Reachable
      BY <1>1, <1>3, <2>1, <2>2, ReachableClosed DEF Closed, Inside
    <2>5. TypeOK'
      BY <1>1, <1>2, <2>1, <2>3 DEF TypeOK, Ascending
    <2>6. OnlyReachable'
      BY <1>1, <1>2, <1>3, <2>1, <2>3, <2>4 DEF OnlyReachable
    <2>7. Complete'
      BY <1>1, <1>2, <1>3, <2>1, <2>3 DEF Complete, Settled
    <2> QED BY <2>5, <2>6, <2>7 DEF IInv
  <1> QED BY <1>4, <1>5, <1>6 DEF Trace

\* When the stack is empty the marked ids are the reachable ones: the least
\* settled set with the marked ids is closed and has no other ids.
LEMMA AllMarked ==
  ASSUME IInv, pc = "trace", trace = <<>>
  PROVE  Reachable \cap Id = ToSet(marked)
  <1>1. TypeOK /\ ToSet(marked) \subseteq Reachable /\ ToSet(marked) \subseteq Id
    BY ElementOfSeq DEF IInv, OnlyReachable, TypeOK, ToSet
  <1> DEFINE found == ToSet(marked)
  <1> DEFINE Up(T) == /\ found \subseteq T /\ Plain \subseteq T
                      /\ \A t \in Tuple : ToSet(items[t]) \subseteq T => t \in T
  <1> DEFINE least == {v \in Value : \A T \in SUBSET Value : Up(T) => v \in T}
  <1>2. least \subseteq Value /\ Up(least)
    BY <1>1 DEF Value
  <1>3. \A T \in SUBSET Value : Up(T) => least \subseteq T
    OBVIOUS
  <1>4. ASSUME NEW t \in Tuple, t \in least
        PROVE  ToSet(items[t]) \subseteq least
    <2>1. SUFFICES ASSUME ~(ToSet(items[t]) \subseteq least) PROVE FALSE
      OBVIOUS
    <2>2. t \notin found /\ t \notin Plain
      BY <1>1, KindsAssumption
    <2>3. Up(least \ {t})
      BY <1>2, <2>1, <2>2
    <2> QED BY <1>2, <1>3, <1>4, <2>3
  <1>5. least \cap Id \subseteq found
    <2> DEFINE T == least \ (Id \ found)
    <2>1. Up(T)
      BY <1>2, KindsAssumption
    <2>2. T \in SUBSET Value
      BY <1>2
    <2> QED BY <1>3, <2>1, <2>2
  <1>6. Settled(least)
    BY <1>2, <1>4 DEF Settled
  <1>7. ToSet(trace) = {}
    BY DEF ToSet
  <1>8. ToSet(roots) \subseteq least /\ \A id \in ToSet(marked) : ToSet(contents[id]) \subseteq least
    BY <1>2, <1>6, <1>7 DEF IInv, Complete
  <1>9. Closed(least)
    BY <1>4, <1>5, <1>8 DEF Closed, Inside
  <1>10. Reachable \subseteq least
    BY <1>2, <1>8, <1>9 DEF Reachable
  <1> QED BY <1>1, <1>5, <1>10

\* The sweep.
LEMMA SweepStep ==
  ASSUME IInv, Sweep
  PROVE  IInv'
  <1>1. <<>> \in Seq(Value) /\ TypeOK
    BY EmptySeq DEF IInv
  <1>2. TypeOK'
    BY <1>1 DEF Sweep, TypeOK
  <1> QED BY <1>2 DEF Sweep, IInv, OnlyReachable, Complete

\* Every iteration, and the sweep, preserves the invariant.
LEMMA NextInvariant == IInv /\ [Next]_vars => IInv'
  <1> SUFFICES ASSUME IInv, [Next]_vars PROVE IInv'
    OBVIOUS
  <1>1. CASE UNCHANGED vars
    BY <1>1 DEF vars, IInv, TypeOK, OnlyReachable, Complete, Reachable, Closed, Inside
  <1> QED BY <1>1, TraceStep, SweepStep DEF Next

\* The loop's variables keep their types.
THEOREM TypeCorrect == Spec => []TypeOK
  <1>1. IInv => TypeOK
    BY DEF IInv
  <1> QED BY InitInvariant, NextInvariant, <1>1, PTL DEF Spec

\* Only what a root leads to is ever marked.
THEOREM MarksOnlyReachable == Spec => []OnlyReachable
  <1>1. IInv => OnlyReachable
    BY DEF IInv
  <1> QED BY InitInvariant, NextInvariant, <1>1, PTL DEF Spec

\* When the stack is empty every reachable object has been marked.
THEOREM MarksAllReachable == Spec => []NoneMissed
  <1>1. IInv => NoneMissed
    BY AllMarked DEF NoneMissed
  <1> QED BY InitInvariant, NextInvariant, <1>1, PTL DEF Spec

\* collect_garbage removes the entries of the objects no root leads to, and no
\* other, whatever the objects and tuples refer to.
THEOREM CollectionExact == Spec => Exact
  <1>1. IInv /\ [Next]_vars => [objects' = objects \cap Reachable]_<<objects, pc>>
    <2> SUFFICES ASSUME IInv, [Next]_vars, ~UNCHANGED <<objects, pc>>
                 PROVE  objects' = objects \cap Reachable
      OBVIOUS
    <2>1. Sweep
      BY DEF Next, Trace, vars
    <2>2. Reachable \cap Id = ToSet(marked) /\ objects \subseteq Id
      BY <2>1, AllMarked DEF Sweep, IInv, TypeOK
    <2> QED BY <2>1, <2>2 DEF Sweep, IsMarked
  <1> QED BY InitInvariant, NextInvariant, <1>1, PTL DEF Spec, Exact
=============================================================================
