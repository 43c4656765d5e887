-------------------------- MODULE OptimizerProofs --------------------------
(***************************************************************************)
(* Every order the optimizer can choose, for any rule the compiler makes,  *)
(* gives lists with nested scopes in which no operation reads a slot that  *)
(* nothing has bound, and no choice is one to be taken back.               *)
(***************************************************************************)
EXTENDS Optimizer, SequenceTheorems, WellFoundedInduction, TLAPS

-----------------------------------------------------------------------------
(* The invariant.                                                          *)

IsSequence(s) == s \in Seq(Range(s))

\* What is bound, in no scope, by a list that begins with these slots bound.
BoundIn(p, before) == before \cup UNION {Writes(p[i]) : i \in {j \in DOMAIN p : Scopes(p, j) = {}}}

\* The slots bound before the list that is being ordered.
Before == IF at = 1 THEN Inputs ELSE Visible(compiled[1])

\* Each scope has an index of its own.
Distinct(p) ==
  \A b, c \in DOMAIN p : IsBegin(p, b) /\ IsBegin(p, c) /\ p[b].index = p[c].index => b = c

\* The operations placed so far: what has been closed is closed right.
Closed(p) ==
  /\ IsSequence(p)
  /\ \A b \in DOMAIN p : IsBegin(p, b) => ScopeEnds(p, b) /\ p[b].index \in Nat
  /\ \A e \in DOMAIN p : p[e].op = "EndNot" => \E b \in 1 .. e - 1 : Closes(p, b, e)
  /\ Distinct(p)
  /\ \A i \in DOMAIN p : p[i].op # "End" /\ Typed(p[i])

\* No scope goes beyond s that begins before.
CutAt(p, s) == \A b \in 1 .. s : IsBegin(p, b) => EndOf(p, b) <= s

Frame == [not : Nat, start : Nat, todo : SUBSET Nat]

\* The open negations are each in the one before.
Frames ==
  /\ scopes \in Seq(Frame) /\ scopes # <<>>
  /\ scopes[1].not = 0
  /\ \A n \in DOMAIN scopes :
       /\ scopes[n].todo \subseteq Body(List, scopes[n].not)
       /\ scopes[n].start <= Len(ops)
       /\ n > 1 => scopes[n].not \in DOMAIN List /\ List[scopes[n].not].op = "Not"
  /\ \A n \in 1 .. Len(scopes) - 1 :
       scopes[n + 1].not \in Body(List, scopes[n].not) \ scopes[n].todo
  /\ \A n, m \in DOMAIN scopes : n <= m =>
       /\ scopes[n].start <= scopes[m].start
       /\ scopes[n].not <= scopes[m].not
       /\ BodyEnd(List, scopes[m].not) <= BodyEnd(List, scopes[n].not)

\* What a negation needs is bound before it is entered, and it binds its own.
Negations ==
  \A n \in 2 .. Len(scopes) :
    /\ Required(List, scopes[n].not) \subseteq provided
    /\ \A i \in scopes[n].start + 1 .. Len(ops) : Writes(ops[i]) \subseteq Own(List, scopes[n].not)

\* What counts as bound is bound, for all that is still to be placed.
Waiting ==
  \A n \in DOMAIN scopes : \A j \in scopes[n].todo :
    MentionedIn(List, Under(List, j)) \cap provided \subseteq BoundIn(ops, Before)

\* And for the lists behind the select part.
WaitingLists ==
  \A m \in 2 .. Len(rule) :
    MentionedIn(rule[m], DOMAIN rule[m]) \cap (IF at = 1 THEN provided ELSE given)
      \subseteq IF at = 1 THEN BoundIn(ops, Inputs) ELSE Visible(compiled[1])

\* What has been placed counts as bound.
Placed ==
  \A n \in DOMAIN scopes : \A j \in Body(List, scopes[n].not) \ scopes[n].todo :
    List[j].op # "Not" => Provides(List[j]) \subseteq provided

Finished ==
  /\ IsSequence(compiled) /\ Len(compiled) = IF pc = "done" THEN at ELSE at - 1
  /\ \A n \in DOMAIN compiled :
       /\ WellFormed(compiled[n])
       /\ BindsFirst(compiled[n], IF n = 1 THEN Inputs ELSE Visible(compiled[1]))

IInv ==
  /\ IsRule(rule) /\ at \in 1 .. Len(rule) /\ nextIndex \in Nat
  /\ Inputs \subseteq given /\ Before \subseteq given /\ given \subseteq provided
  /\ BoundIn(ops, Before) \subseteq provided
  /\ \A b \in DOMAIN ops : IsBegin(ops, b) => ops[b].index < nextIndex
  /\ Finished
  /\ Closed(ops) /\ BindsFirst(ops, Before)
  /\ Frames
  /\ \A n \in DOMAIN scopes : CutAt(ops, scopes[n].start)
  /\ Negations
  /\ Waiting /\ WaitingLists
  /\ Placed
  /\ pc = "panic" => \A j \in Scope.todo : ~Ready(j)

-----------------------------------------------------------------------------
(* Sequences.                                                              *)

LEMMA SequenceFacts ==
  ASSUME NEW s, IsSequence(s)
  PROVE  Len(s) \in Nat /\ DOMAIN s = 1 .. Len(s)
BY DEF IsSequence

LEMMA SequenceOfAny ==
  ASSUME NEW S, NEW s \in Seq(S)
  PROVE  IsSequence(s)
<1>1. Len(s) \in Nat /\ DOMAIN s = 1 .. Len(s) /\ s \in [1 .. Len(s) -> S]
  BY LenProperties
<1>2. s \in [1 .. Len(s) -> Range(s)]
  BY <1>1 DEF Range
<1> QED BY <1>1, <1>2, SeqDef DEF IsSequence

LEMMA NoOperations == IsSequence(<<>>) /\ Len(<<>>) = 0 /\ DOMAIN <<>> = {}
<1>1. <<>> \in Seq({}) /\ Len(<<>>) = 0
  BY EmptySeq
<1>2. IsSequence(<<>>)
  BY <1>1, SequenceOfAny
<1> QED BY <1>1, <1>2, SequenceFacts

LEMMA Appended ==
  ASSUME NEW s, IsSequence(s), NEW e
  PROVE  /\ IsSequence(Append(s, e))
         /\ Len(Append(s, e)) = Len(s) + 1
         /\ DOMAIN Append(s, e) = 1 .. Len(s) + 1
         /\ \A i \in 1 .. Len(s) : Append(s, e)[i] = s[i]
         /\ Append(s, e)[Len(s) + 1] = e
<1> DEFINE S == Range(s) \cup {e}
<1>1. s \in Seq(S) /\ e \in S
  BY SeqMonotonic DEF IsSequence
<1> HIDE DEF S
<1> DEFINE t == Append(s, e)
<1>2. /\ t \in Seq(S) /\ Len(t) = Len(s) + 1
      /\ \A i \in 1 .. Len(s) : t[i] = s[i]
      /\ t[Len(s) + 1] = e
  BY <1>1
<1> HIDE DEF t
<1>3. IsSequence(t)
  BY <1>2, SequenceOfAny
<1>4. DOMAIN t = 1 .. Len(s) + 1
  BY <1>2, <1>3, SequenceFacts
<1> QED BY <1>2, <1>3, <1>4 DEF t

\* The list a negation is put around the end of.
Surrounds(q, p, s, begin, end) ==
  /\ IsSequence(q) /\ Len(q) = Len(p) + 2
  /\ \A i \in 1 .. s : q[i] = p[i]
  /\ q[s + 1] = begin
  /\ \A i \in s + 1 .. Len(p) : q[i + 1] = p[i]
  /\ q[Len(p) + 2] = end

LEMMA Enclosing ==
  ASSUME NEW p, IsSequence(p), NEW s \in 0 .. Len(p), NEW begin, NEW end,
         NEW q, q = SubSeq(p, 1, s) \o <<begin>> \o Append(SubSeq(p, s + 1, Len(p)), end)
  PROVE  Surrounds(q, p, s, begin, end)
<1> DEFINE S == Range(p) \cup {begin, end}
           a == SubSeq(p, 1, s)
           b == SubSeq(p, s + 1, Len(p))
           c == Append(b, end)
           d == a \o <<begin>>
<1>1. p \in Seq(S) /\ begin \in S /\ end \in S /\ Len(p) \in Nat /\ DOMAIN p = 1 .. Len(p)
  BY SeqMonotonic, SequenceFacts DEF IsSequence
<1>2. \A i \in 1 .. Len(p) : p[i] \in S
  BY <1>1, ElementOfSeq
<1> HIDE DEF S
<1>3. a \in Seq(S) /\ Len(a) = s /\ \A i \in 1 .. s : a[i] = p[i]
  BY <1>1, <1>2, SubSeqProperties
<1>4. /\ b \in Seq(S) /\ Len(b) = Len(p) - s
      /\ \A i \in 1 .. Len(p) - s : b[i] = p[s + i]
  <2>1. s + 1 \in Int /\ Len(p) \in Int /\ \A i \in s + 1 .. Len(p) : p[i] \in S
    BY <1>1, <1>2
  <2>2. /\ b \in Seq(S) /\ Len(b) = IF s + 1 <= Len(p) THEN Len(p) - (s + 1) + 1 ELSE 0
        /\ \A i \in 1 .. Len(p) - (s + 1) + 1 : b[i] = p[s + 1 + i - 1]
    BY <2>1, SubSeqProperties
  <2> HIDE DEF b
  <2>3. \A i \in 1 .. Len(p) - s : b[i] = p[s + i]
    <3> TAKE i \in 1 .. Len(p) - s
    <3>1. i \in 1 .. Len(p) - (s + 1) + 1 /\ s + 1 + i - 1 = s + i
      BY <1>1
    <3> QED BY <2>2, <3>1, Zenon
  <2>4. Len(b) = Len(p) - s
    <3>1. Len(b) = IF s + 1 <= Len(p) THEN Len(p) - (s + 1) + 1 ELSE 0
      BY <2>2
    <3>2. Len(p) \in Nat /\ s \in Nat /\ s <= Len(p)
      BY <1>1
    <3>3. CASE s + 1 <= Len(p)
      BY <3>1, <3>2, <3>3
    <3>4. CASE ~(s + 1 <= Len(p))
      BY <3>1, <3>2, <3>4
    <3> QED BY <3>3, <3>4
  <2> QED BY <2>2, <2>3, <2>4
<1> HIDE DEF a, b
<1>5. /\ c \in Seq(S) /\ Len(c) = Len(p) - s + 1
      /\ \A i \in 1 .. Len(p) - s : c[i] = p[s + i]
      /\ c[Len(p) - s + 1] = end
  BY <1>1, <1>4
<1>6. /\ d \in Seq(S) /\ Len(d) = s + 1
      /\ \A i \in 1 .. s : d[i] = p[i]
      /\ d[s + 1] = begin
  <2>1. <<begin>> \in Seq(S) /\ Len(<<begin>>) = 1 /\ <<begin>>[1] = begin
    BY <1>1
  <2> QED BY <1>3, <2>1, ConcatProperties
<1>7. q = d \o c
  BY DEF a, b
<1> HIDE DEF c, d
<1>8. /\ q \in Seq(S) /\ Len(q) = Len(d) + Len(c)
      /\ \A i \in 1 .. Len(d) + Len(c) : q[i] = IF i <= Len(d) THEN d[i] ELSE c[i - Len(d)]
  <2>1. /\ d \o c \in Seq(S) /\ Len(d \o c) = Len(d) + Len(c)
        /\ \A i \in 1 .. Len(d) + Len(c) :
             (d \o c)[i] = IF i <= Len(d) THEN d[i] ELSE c[i - Len(d)]
    BY ONLY <1>5, <1>6, ConcatProperties
  <2> QED BY <1>7, <2>1, Zenon
<1>9. IsSequence(q)
  BY <1>8, SequenceOfAny
<1>10. \A i \in s + 1 .. Len(p) : q[i + 1] = p[i]
  <2> TAKE i \in s + 1 .. Len(p)
  <2>1. i \in Nat /\ s \in Nat
    BY <1>1
  <2>2. i + 1 \in 1 .. Len(d) + Len(c) /\ ~(i + 1 <= Len(d)) /\ i + 1 - Len(d) = i - s
        /\ i - s \in 1 .. Len(p) - s /\ s + (i - s) = i
    BY <1>1, <1>5, <1>6, <2>1
  <2>3. q[i + 1] = c[i + 1 - Len(d)]
    BY ONLY <1>8, <2>2
  <2>4. c[i - s] = p[s + (i - s)]
    BY <1>5, <2>2
  <2> QED BY <2>2, <2>3, <2>4, Zenon
<1>11. q[s + 1] = begin
  <2>1. s + 1 \in 1 .. Len(d) + Len(c) /\ s + 1 <= Len(d)
    BY <1>1, <1>5, <1>6
  <2> QED BY <1>6, <1>8, <2>1
<1>12. q[Len(p) + 2] = end
  <2>1. /\ Len(p) + 2 \in 1 .. Len(d) + Len(c) /\ ~(Len(p) + 2 <= Len(d))
        /\ Len(p) + 2 - Len(d) = Len(p) - s + 1
    BY <1>1, <1>5, <1>6
  <2>2. q[Len(p) + 2] = c[Len(p) + 2 - Len(d)]
    BY ONLY <1>8, <2>1
  <2> QED BY <1>5, <2>1, <2>2, Zenon
<1>13. \A i \in 1 .. s : q[i] = p[i]
  <2> TAKE i \in 1 .. s
  <2>1. i \in 1 .. Len(d) + Len(c) /\ i <= Len(d)
    BY <1>1, <1>5, <1>6
  <2> QED BY <1>6, <1>8, <2>1
<1>14. Len(q) = Len(p) + 2
  BY ONLY <1>1, <1>5, <1>6, <1>8, s \in 0 .. Len(p)
<1> QED BY <1>9, <1>10, <1>11, <1>12, <1>13, <1>14 DEF Surrounds

-----------------------------------------------------------------------------
(* Scopes, and what is bound in them.                                      *)

LEMMA InScopes ==
  ASSUME NEW p, NEW i, NEW x
  PROVE  x \in Scopes(p, i) <=>
           \E c \in 1 .. i - 1 : IsBegin(p, c) /\ i <= EndOf(p, c) /\ x = p[c].index
BY DEF Scopes

LEMMA InBoundAt ==
  ASSUME NEW p, NEW i, NEW before, NEW x
  PROVE  x \in BoundAt(p, i, before) <=>
           \/ x \in before
           \/ \E k \in 1 .. i - 1 : Scopes(p, k) \subseteq Scopes(p, i) /\ x \in Writes(p[k])
BY DEF BoundAt

LEMMA InBoundIn ==
  ASSUME NEW p, NEW before, NEW x
  PROVE  x \in BoundIn(p, before) <=>
           \/ x \in before
           \/ \E k \in DOMAIN p : Scopes(p, k) = {} /\ x \in Writes(p[k])
BY DEF BoundIn

\* Scopes depend on what is before only.
LEMMA SameStart ==
  ASSUME NEW p, IsSequence(p), NEW q, IsSequence(q), NEW n \in Nat, n <= Len(p), n <= Len(q),
         \A i \in 1 .. n : q[i] = p[i]
  PROVE  /\ \A c \in 1 .. n : (IsBegin(q, c) <=> IsBegin(p, c)) /\ EndOf(q, c) = EndOf(p, c)
         /\ \A i \in 1 .. n + 1 : Scopes(q, i) = Scopes(p, i)
         /\ \A i \in 1 .. n + 1 : \A before : BoundAt(q, i, before) = BoundAt(p, i, before)
         /\ \A b \in 1 .. n : EndOf(p, b) <= n /\ ScopeEnds(p, b) => ScopeEnds(q, b)
<1>1. /\ Len(p) \in Nat /\ DOMAIN p = 1 .. Len(p)
      /\ Len(q) \in Nat /\ DOMAIN q = 1 .. Len(q)
  BY SequenceFacts
<1>2. \A c \in 1 .. n : (IsBegin(q, c) <=> IsBegin(p, c)) /\ EndOf(q, c) = EndOf(p, c)
  BY <1>1 DEF IsBegin, EndOf
<1>3. ASSUME NEW i \in 1 .. n + 1
      PROVE  Scopes(q, i) = Scopes(p, i)
  <2>1. \A c \in 1 .. i - 1 : c \in 1 .. n
    OBVIOUS
  <2>2. \A x : x \in Scopes(q, i) <=> x \in Scopes(p, i)
    BY <1>2, <2>1, InScopes
  <2> QED BY <2>2
<1>4. ASSUME NEW i \in 1 .. n + 1, NEW before
      PROVE  BoundAt(q, i, before) = BoundAt(p, i, before)
  <2>1. \A k \in 1 .. i - 1 : k \in 1 .. n /\ k \in 1 .. n + 1
    OBVIOUS
  <2>2. \A k \in 1 .. i - 1 : Scopes(q, k) = Scopes(p, k) /\ q[k] = p[k]
    BY <1>3, <2>1
  <2>3. Scopes(q, i) = Scopes(p, i)
    BY <1>3
  <2>4. \A x : x \in BoundAt(q, i, before) <=> x \in BoundAt(p, i, before)
    BY <2>2, <2>3, InBoundAt
  <2> QED BY <2>4
<1>5. ASSUME NEW b \in 1 .. n, EndOf(p, b) <= n, ScopeEnds(p, b)
      PROVE  ScopeEnds(q, b)
  <2>1. q[b] = p[b] /\ EndOf(q, b) = EndOf(p, b) /\ EndOf(p, b) \in 1 .. n
    BY <1>1, <1>2, <1>5 DEF ScopeEnds
  <2>2. \A c \in b + 1 .. EndOf(p, b) : c \in 1 .. n
    BY <2>1
  <2>3. \A c \in b + 1 .. EndOf(q, b) : IsBegin(q, c) => EndOf(q, c) < EndOf(q, b)
    BY <1>2, <1>5, <2>1, <2>2 DEF ScopeEnds
  <2>4. EndOf(q, b) \in DOMAIN q /\ q[EndOf(q, b)].op = "EndNot" /\ q[b].sequence_len \in Nat
    BY <1>1, <1>5, <2>1 DEF ScopeEnds
  <2> QED BY <2>3, <2>4 DEF ScopeEnds
<1> QED BY <1>2, <1>3, <1>4, <1>5

\* Behind a list that is closed no scope is open.
LEMMA NoScopeBehind ==
  ASSUME NEW p, Closed(p)
  PROVE  Scopes(p, Len(p) + 1) = {}
<1>1. Len(p) \in Nat /\ DOMAIN p = 1 .. Len(p)
  BY SequenceFacts DEF Closed
<1>2. ASSUME NEW c \in 1 .. Len(p), IsBegin(p, c)
      PROVE  ~(Len(p) + 1 <= EndOf(p, c))
  BY <1>1, <1>2 DEF Closed, ScopeEnds
<1> QED BY <1>1, <1>2, InScopes

\* What there is to say of a list that an operation is placed behind.
Prolongs(q, p, op) ==
  /\ IsSequence(q) /\ Len(q) = Len(p) + 1 /\ q[Len(q)] = op
  /\ \A i \in 1 .. Len(p) : q[i] = p[i]
  /\ \A b \in DOMAIN q : IsBegin(q, b) => ScopeEnds(q, b) /\ q[b].index \in Nat
  /\ \A e \in DOMAIN q : q[e].op = "EndNot" => \E b \in 1 .. e - 1 : Closes(q, b, e)
  /\ Distinct(q)
  /\ \A b \in DOMAIN q : IsBegin(q, b) => b \in DOMAIN p /\ IsBegin(p, b) /\ q[b] = p[b]
  /\ \A before : BoundIn(q, before) = BoundIn(p, before) \cup Writes(op)
  /\ \A before : BindsFirst(p, before) /\ Reads(op) \subseteq BoundIn(p, before)
                     /\ Writes(op) \cap BoundIn(p, before) = {}
                   => BindsFirst(q, before)
  /\ \A s \in 0 .. Len(p) : CutAt(p, s) => CutAt(q, s)

LEMMA PlacedAtEnd ==
  ASSUME NEW p, Closed(p), NEW op, op.op \notin {"BeginNot", "EndNot"},
         NEW q, q = Append(p, op)
  PROVE  Prolongs(q, p, op)
<1>1. /\ Len(p) \in Nat /\ DOMAIN p = 1 .. Len(p) /\ IsSequence(p)
      /\ IsSequence(q) /\ Len(q) = Len(p) + 1 /\ DOMAIN q = 1 .. Len(p) + 1
      /\ \A i \in 1 .. Len(p) : q[i] = p[i]
      /\ q[Len(p) + 1] = op
  BY SequenceFacts, Appended DEF Closed
<1>2. /\ \A c \in 1 .. Len(p) : (IsBegin(q, c) <=> IsBegin(p, c)) /\ EndOf(q, c) = EndOf(p, c)
      /\ \A i \in 1 .. Len(p) + 1 : Scopes(q, i) = Scopes(p, i)
      /\ \A i \in 1 .. Len(p) + 1 : \A before : BoundAt(q, i, before) = BoundAt(p, i, before)
      /\ \A b \in 1 .. Len(p) : EndOf(p, b) <= Len(p) /\ ScopeEnds(p, b) => ScopeEnds(q, b)
  <2>1. Len(p) \in Nat /\ Len(p) <= Len(p) /\ Len(p) <= Len(q)
    BY <1>1
  <2> QED BY ONLY <1>1, <2>1, SameStart
<1>3. Scopes(q, Len(p) + 1) = {}
  BY <1>1, <1>2, NoScopeBehind
<1>4. ~IsBegin(q, Len(p) + 1)
  BY <1>1 DEF IsBegin
<1>5. ASSUME NEW b \in DOMAIN q, IsBegin(q, b)
      PROVE  ScopeEnds(q, b) /\ q[b].index \in Nat
  <2>1. b \in 1 .. Len(p)
    BY <1>1, <1>4, <1>5
  <2>2. IsBegin(p, b) /\ ScopeEnds(p, b) /\ p[b].index \in Nat
    BY <1>1, <1>2, <1>5, <2>1 DEF Closed
  <2> QED BY <1>1, <1>2, <2>1, <2>2 DEF ScopeEnds
<1>6. ASSUME NEW e \in DOMAIN q, q[e].op = "EndNot"
      PROVE  \E b \in 1 .. e - 1 : Closes(q, b, e)
  <2>1. e \in 1 .. Len(p)
    BY <1>1, <1>6
  <2>2. PICK b \in 1 .. e - 1 : Closes(p, b, e)
    BY <1>1, <1>6, <2>1 DEF Closed
  <2>3. b \in 1 .. Len(p)
    BY <2>1, <2>2
  <2>4. Closes(q, b, e)
    BY <1>1, <1>2, <2>1, <2>2, <2>3 DEF Closes
  <2> QED BY <2>4
<1>7. ASSUME NEW b \in DOMAIN q, IsBegin(q, b)
      PROVE  b \in DOMAIN p /\ IsBegin(p, b) /\ q[b] = p[b]
  <2>1. b \in 1 .. Len(p)
    BY <1>1, <1>4, <1>7
  <2> QED BY <1>1, <1>2, <1>7, <2>1
<1>8. Distinct(q)
  BY <1>7 DEF Distinct, Closed
<1>9. \A k \in DOMAIN p : k \in DOMAIN q /\ k \in 1 .. (Len(p) + 1) - 1 /\ Scopes(q, k) = Scopes(p, k) /\ q[k] = p[k]
  BY <1>1, <1>2
<1>10. ASSUME NEW before
       PROVE  BoundIn(q, before) = BoundIn(p, before) \cup Writes(op)
  <2>1. Len(p) + 1 \in DOMAIN q
    BY <1>1
  <2>2. ASSUME NEW x \in BoundIn(p, before)
        PROVE  x \in BoundIn(q, before)
    <3>1. CASE x \in before
      BY <3>1, InBoundIn
    <3>2. ASSUME NEW k \in DOMAIN p, Scopes(p, k) = {}, x \in Writes(p[k])
          PROVE  x \in BoundIn(q, before)
      <4>1. k \in DOMAIN q /\ Scopes(q, k) = {} /\ x \in Writes(q[k])
        BY <1>9, <3>2
      <4> QED BY ONLY <4>1, InBoundIn, Zenon
    <3>3. x \in before \/ \E k \in DOMAIN p : Scopes(p, k) = {} /\ x \in Writes(p[k])
      BY ONLY <2>2, InBoundIn, Zenon
    <3> QED BY <3>1, <3>2, <3>3
  <2>3. ASSUME NEW x \in Writes(op)
        PROVE  x \in BoundIn(q, before)
    BY <1>1, <1>3, <2>1, <2>3, InBoundIn
  <2>4. ASSUME NEW x \in BoundIn(q, before), x \notin before
        PROVE  x \in BoundIn(p, before) \cup Writes(op)
    <3>1. PICK k \in DOMAIN q : Scopes(q, k) = {} /\ x \in Writes(q[k])
      BY <2>4, InBoundIn
    <3>2. CASE k \in DOMAIN p
      BY <1>9, <3>1, <3>2, InBoundIn
    <3>3. CASE k \notin DOMAIN p
      <4>1. k = Len(p) + 1
        BY <1>1, <3>3
      <4> QED BY <1>1, <3>1, <4>1
    <3> QED BY <3>2, <3>3
  <2>5. before \subseteq BoundIn(p, before)
    BY DEF BoundIn
  <2> QED BY <2>2, <2>3, <2>4, <2>5
<1>11. ASSUME NEW before
       PROVE  BoundAt(q, Len(p) + 1, before) = BoundIn(p, before)
  <2>1. ASSUME NEW x
        PROVE  x \in BoundAt(q, Len(p) + 1, before) <=> x \in BoundIn(p, before)
    <3>1. CASE x \in before
      BY <3>1, InBoundAt, InBoundIn
    <3>2. ASSUME NEW k \in DOMAIN p, Scopes(p, k) = {}, x \in Writes(p[k])
          PROVE  x \in BoundAt(q, Len(p) + 1, before)
      BY <1>9, <3>2, InBoundAt
    <3>3. ASSUME NEW k \in 1 .. (Len(p) + 1) - 1, Scopes(q, k) \subseteq Scopes(q, Len(p) + 1),
                 x \in Writes(q[k])
          PROVE  x \in BoundIn(p, before)
      <4>1. k \in DOMAIN p
        BY <1>1, <3>3
      <4>2. Scopes(p, k) = {} /\ x \in Writes(p[k])
        BY <1>3, <1>9, <3>3, <4>1
      <4> QED BY ONLY <4>1, <4>2, InBoundIn, Zenon
    <3>4. x \in BoundAt(q, Len(p) + 1, before) => x \in BoundIn(p, before)
      BY ONLY <3>1, <3>3, InBoundAt, Zenon
    <3>5. x \in BoundIn(p, before) => x \in BoundAt(q, Len(p) + 1, before)
      BY ONLY <3>1, <3>2, InBoundIn, Zenon
    <3> QED BY <3>4, <3>5
  <2> QED BY <2>1
<1>12. ASSUME NEW before, BindsFirst(p, before), Reads(op) \subseteq BoundIn(p, before),
              Writes(op) \cap BoundIn(p, before) = {}
       PROVE  BindsFirst(q, before)
  <2>1. ASSUME NEW i \in 1 .. Len(p)
        PROVE  /\ Reads(q[i]) \subseteq BoundAt(q, i, before)
               /\ Writes(q[i]) \cap BoundAt(q, i, before) = {}
    BY <1>1, <1>2, <1>12 DEF BindsFirst
  <2>2. /\ Reads(q[Len(p) + 1]) \subseteq BoundAt(q, Len(p) + 1, before)
        /\ Writes(q[Len(p) + 1]) \cap BoundAt(q, Len(p) + 1, before) = {}
    BY <1>1, <1>11, <1>12
  <2>3. \A i \in DOMAIN q : i \in 1 .. Len(p) \/ i = Len(p) + 1
    BY <1>1
  <2> QED BY <2>1, <2>2, <2>3 DEF BindsFirst
<1>13. \A s \in 0 .. Len(p) : CutAt(p, s) => CutAt(q, s)
  BY <1>1, <1>2 DEF CutAt
<1> QED BY <1>1, <1>5, <1>6, <1>7, <1>8, <1>10, <1>12, <1>13 DEF Prolongs

LEMMA BodyLength ==
  ASSUME NEW p, IsSequence(p), NEW s \in 0 .. Len(p), NEW end
  PROVE  Len(Append(SubSeq(p, s + 1, Len(p)), end)) = Len(p) - s + 1
<1> DEFINE b == SubSeq(p, s + 1, Len(p))
<1>1. Len(p) \in Nat /\ s \in Nat /\ s <= Len(p) /\ \A i \in s + 1 .. Len(p) : p[i] \in Range(p)
  BY SequenceFacts DEF Range
<1>2. b \in Seq(Range(p)) /\ Len(b) = IF s + 1 <= Len(p) THEN Len(p) - (s + 1) + 1 ELSE 0
  <2>1. s + 1 \in Int /\ Len(p) \in Int
    BY <1>1
  <2> QED BY <1>1, <2>1, SubSeqProperties
<1> HIDE DEF b
<1>3. Len(b) = Len(p) - s
  <2>1. CASE s + 1 <= Len(p)
    BY <1>1, <1>2, <2>1
  <2>2. CASE ~(s + 1 <= Len(p))
    BY <1>1, <1>2, <2>2
  <2> QED BY <2>1, <2>2
<1>4. IsSequence(b)
  BY <1>2, SequenceOfAny
<1>5. Len(Append(b, end)) = Len(b) + 1
  BY <1>4, Appended
<1> QED BY <1>3, <1>5 DEF b

LEMMA Delimiters ==
  ASSUME NEW index, NEW len
  PROVE  /\ Typed([op |-> "BeginNot", index |-> index, sequence_len |-> len])
         /\ Typed([op |-> "EndNot", index |-> index]) /\ Typed([op |-> "End"])
         /\ Reads([op |-> "BeginNot", index |-> index, sequence_len |-> len]) = {}
         /\ Reads([op |-> "EndNot", index |-> index]) = {} /\ Reads([op |-> "End"]) = {}
         /\ Writes([op |-> "BeginNot", index |-> index, sequence_len |-> len]) = {}
         /\ Writes([op |-> "EndNot", index |-> index]) = {} /\ Writes([op |-> "End"]) = {}
BY DEF Typed, Kinds, Reads, Writes

\* What a list is when the end of p, behind s, has been put into a scope.
Encloses(q, p, s, index, begin, end) ==
  /\ Surrounds(q, p, s, begin, end)
  /\ begin.op = "BeginNot" /\ begin.index = index /\ begin.sequence_len = Len(p) - s + 1
  /\ end.op = "EndNot" /\ end.index = index
  /\ \A op \in {begin, end} : Typed(op) /\ Reads(op) = {} /\ Writes(op) = {}

\* The operations of a negation are put into a scope.
LEMMA ScopeClosed ==
  ASSUME NEW p, Closed(p), NEW s \in 0 .. Len(p), CutAt(p, s), NEW index \in Nat,
         \A b \in DOMAIN p : IsBegin(p, b) => p[b].index < index,
         NEW begin, NEW end, NEW q, Encloses(q, p, s, index, begin, end)
  PROVE  /\ Closed(q) /\ Len(q) = Len(p) + 2
         /\ \A i \in 1 .. s : q[i] = p[i]
         /\ \A i \in s + 1 .. Len(q) : Writes(q[i]) = {} \/ \E k \in s + 1 .. Len(p) : q[i] = p[k]
         /\ \A before : \A x \in BoundIn(p, before) :
              x \in BoundIn(q, before) \/ \E k \in s + 1 .. Len(p) : x \in Writes(p[k])
         /\ \A before : BoundIn(q, before) \subseteq BoundIn(p, before)
         /\ \A b \in DOMAIN q : IsBegin(q, b) => q[b].index < index + 1
         /\ \A before : BindsFirst(p, before) => BindsFirst(q, before)
         /\ \A r \in 0 .. s : CutAt(p, r) => CutAt(q, r)
<1>1. /\ IsSequence(p) /\ Len(p) \in Nat /\ DOMAIN p = 1 .. Len(p) /\ s \in Nat /\ s <= Len(p)
  BY SequenceFacts DEF Closed
<1>2. /\ IsSequence(q) /\ Len(q) = Len(p) + 2
      /\ \A i \in 1 .. s : q[i] = p[i]
      /\ q[s + 1] = begin
      /\ \A i \in s + 1 .. Len(p) : q[i + 1] = p[i]
      /\ q[Len(p) + 2] = end
      /\ begin.op = "BeginNot" /\ begin.index = index /\ begin.sequence_len = Len(p) - s + 1
      /\ end.op = "EndNot" /\ end.index = index
      /\ \A op \in {begin, end} : Typed(op) /\ Reads(op) = {} /\ Writes(op) = {}
  BY DEF Encloses, Surrounds
<1>3. DOMAIN q = 1 .. Len(p) + 2
  BY <1>2, SequenceFacts
<1>4. ASSUME NEW i \in DOMAIN q
      PROVE  \/ i \in 1 .. s /\ q[i] = p[i]
             \/ i = s + 1 /\ q[i] = begin
             \/ i - 1 \in s + 1 .. Len(p) /\ q[i] = p[i - 1] /\ i = (i - 1) + 1
             \/ i = Len(p) + 2 /\ q[i] = end
  <2>1. CASE i \in 1 .. s
    BY <1>2, <2>1
  <2>2. CASE i = s + 1
    BY <1>2, <2>2
  <2>3. CASE i - 1 \in s + 1 .. Len(p)
    <3>1. i = (i - 1) + 1
      BY <1>1, <1>3
    <3> QED BY <1>2, <2>3, <3>1
  <2>4. CASE i = Len(p) + 2
    BY <1>2, <2>4
  <2> QED BY <1>1, <1>3, <2>1, <2>2, <2>3, <2>4
<1>5. /\ \A c \in 1 .. s : (IsBegin(q, c) <=> IsBegin(p, c)) /\ EndOf(q, c) = EndOf(p, c)
      /\ \A i \in 1 .. s + 1 : Scopes(q, i) = Scopes(p, i)
      /\ \A i \in 1 .. s + 1 : \A before : BoundAt(q, i, before) = BoundAt(p, i, before)
      /\ \A b \in 1 .. s : EndOf(p, b) <= s /\ ScopeEnds(p, b) => ScopeEnds(q, b)
  <2>1. s <= Len(q)
    BY <1>1, <1>2
  <2> QED BY ONLY <1>1, <1>2, <2>1, SameStart
<1>6. IsBegin(q, s + 1) /\ EndOf(q, s + 1) = Len(p) + 2 /\ ~IsBegin(q, Len(p) + 2)
  BY <1>1, <1>2, <1>3 DEF IsBegin, EndOf
<1>7. \A c \in s + 1 .. Len(p) : IsBegin(q, c + 1) <=> IsBegin(p, c)
  BY <1>1, <1>2, <1>3 DEF IsBegin
<1>8. ASSUME NEW c \in s + 1 .. Len(p), IsBegin(p, c)
      PROVE  EndOf(q, c + 1) = EndOf(p, c) + 1 /\ EndOf(p, c) \in c .. Len(p)
  <2>1. p[c].sequence_len \in Nat /\ EndOf(p, c) \in 1 .. Len(p)
    BY <1>1, <1>8 DEF Closed, ScopeEnds
  <2> QED BY <1>1, <1>2, <2>1 DEF EndOf
<1>9. \A c \in 1 .. s : IsBegin(p, c) => EndOf(p, c) \in 1 .. s
  BY <1>1 DEF CutAt, Closed, ScopeEnds

<1>10. ASSUME NEW i \in s + 1 .. Len(p)
       PROVE  Scopes(q, i + 1) = Scopes(p, i) \cup {index}
  <2>1. ASSUME NEW c \in 1 .. (i + 1) - 1, IsBegin(q, c), i + 1 <= EndOf(q, c)
        PROVE  q[c].index \in Scopes(p, i) \cup {index}
    <3>1. c \in DOMAIN q
      BY <1>1, <1>3
    <3>2. CASE c \in 1 .. s
      BY <1>1, <1>5, <1>9, <2>1, <3>2
    <3>3. CASE c = s + 1
      BY <1>2, <3>3
    <3>4. CASE c - 1 \in s + 1 .. Len(p) /\ q[c] = p[c - 1] /\ c = (c - 1) + 1
      <4>1. IsBegin(p, c - 1) /\ EndOf(q, c) = EndOf(p, c - 1) + 1 /\ EndOf(p, c - 1) \in Nat
        BY <1>1, <1>7, <1>8, <2>1, <3>4
      <4>2. c - 1 \in 1 .. i - 1 /\ i <= EndOf(p, c - 1)
        BY <1>1, <2>1, <3>4, <4>1
      <4> QED BY <3>4, <4>1, <4>2, InScopes
    <3>5. CASE c = Len(p) + 2
      BY <1>1, <3>5
    <3> QED BY <1>4, <3>1, <3>2, <3>3, <3>4, <3>5
  <2>2. index \in Scopes(q, i + 1)
    <3>1. s + 1 \in 1 .. (i + 1) - 1 /\ i + 1 <= Len(p) + 2 /\ index = q[s + 1].index
      BY <1>1, <1>2
    <3> QED BY <1>6, <3>1, InScopes
  <2>3. ASSUME NEW c \in 1 .. i - 1, IsBegin(p, c), i <= EndOf(p, c)
        PROVE  p[c].index \in Scopes(q, i + 1)
    <3>1. c \in s + 1 .. Len(p)
      BY <1>1, <1>9, <2>3
    <3>2. /\ IsBegin(q, c + 1) /\ EndOf(q, c + 1) = EndOf(p, c) + 1 /\ EndOf(p, c) \in Nat
          /\ q[c + 1] = p[c]
      BY <1>1, <1>2, <1>7, <1>8, <2>3, <3>1
    <3>3. c + 1 \in 1 .. (i + 1) - 1 /\ i + 1 <= EndOf(q, c + 1)
      BY <1>1, <2>3, <3>1, <3>2
    <3> QED BY <3>2, <3>3, InScopes
  <2>4. Scopes(q, i + 1) \subseteq Scopes(p, i) \cup {index}
    BY <2>1, InScopes
  <2>5. Scopes(p, i) \subseteq Scopes(q, i + 1)
    BY <2>3, InScopes
  <2> QED BY <2>2, <2>4, <2>5
<1>11. index \in Scopes(q, Len(p) + 2)
  <2>1. s + 1 \in 1 .. (Len(p) + 2) - 1 /\ index = q[s + 1].index
    BY <1>1, <1>2
  <2> QED BY <1>1, <1>6, <2>1, InScopes
\* Every scope ends.
<1>12. ASSUME NEW b \in DOMAIN q, IsBegin(q, b)
       PROVE  ScopeEnds(q, b) /\ q[b].index \in Nat
  <2>1. CASE b \in 1 .. s /\ q[b] = p[b]
    <3>1. IsBegin(p, b) /\ b \in DOMAIN p
      BY <1>1, <1>5, <1>12, <2>1
    <3>2. ScopeEnds(p, b) /\ p[b].index \in Nat
      BY <3>1 DEF Closed
    <3> QED BY <1>5, <1>9, <2>1, <3>1, <3>2
  <2>2. CASE b = s + 1 /\ q[b] = begin
    <3>1. ASSUME NEW c \in b + 1 .. EndOf(q, b), IsBegin(q, c)
          PROVE  EndOf(q, c) < EndOf(q, b)
      <4>1. c \in DOMAIN q /\ c # Len(p) + 2
        BY <1>1, <1>3, <1>6, <2>2, <3>1
      <4>2. c - 1 \in s + 1 .. Len(p) /\ c = (c - 1) + 1
        BY <1>1, <1>4, <2>2, <4>1
      <4>3. EndOf(q, c) = EndOf(p, c - 1) + 1 /\ EndOf(p, c - 1) \in 1 .. Len(p)
        BY <1>1, <1>7, <1>8, <3>1, <4>2
      <4> QED BY <1>1, <1>6, <2>2, <4>3
    <3>2. q[EndOf(q, b)].op = "EndNot" /\ EndOf(q, b) \in DOMAIN q
      BY <1>1, <1>2, <1>3, <1>6, <2>2
    <3>3. q[b].sequence_len \in Nat /\ q[b].index \in Nat
      BY <1>1, <1>2, <2>2
    <3> QED BY <3>1, <3>2, <3>3 DEF ScopeEnds
  <2>3. CASE b - 1 \in s + 1 .. Len(p) /\ q[b] = p[b - 1] /\ b = (b - 1) + 1
    <3>1. IsBegin(p, b - 1) /\ b - 1 \in DOMAIN p
      BY <1>1, <1>7, <1>12, <2>3
    <3>2. ScopeEnds(p, b - 1) /\ p[b - 1].index \in Nat
      BY <3>1 DEF Closed
    <3>3. EndOf(q, b) = EndOf(p, b - 1) + 1 /\ EndOf(p, b - 1) \in b - 1 .. Len(p)
      BY <1>8, <2>3, <3>1
    <3>4. ASSUME NEW c \in b + 1 .. EndOf(q, b), IsBegin(q, c)
          PROVE  EndOf(q, c) < EndOf(q, b)
      <4>1. c - 1 \in s + 1 .. Len(p) /\ c = (c - 1) + 1 /\ c - 1 \in (b - 1) + 1 .. EndOf(p, b - 1)
        BY <1>1, <2>3, <3>3
      <4>2. IsBegin(p, c - 1)
        BY <1>7, <3>4, <4>1
      <4>3. EndOf(q, c) = EndOf(p, c - 1) + 1 /\ EndOf(p, c - 1) \in Nat
        BY <1>1, <1>8, <4>1, <4>2
      <4>4. EndOf(p, c - 1) < EndOf(p, b - 1)
        BY <3>2, <4>1, <4>2 DEF ScopeEnds
      <4> QED BY <1>1, <3>3, <4>3, <4>4
    <3>5. q[EndOf(q, b)].op = "EndNot" /\ EndOf(q, b) \in DOMAIN q
      <4>1. EndOf(p, b - 1) \in s + 1 .. Len(p)
        BY <1>1, <2>3, <3>3
      <4>2. p[EndOf(p, b - 1)].op = "EndNot"
        BY <3>2 DEF ScopeEnds
      <4> QED BY <1>1, <1>2, <1>3, <3>3, <4>1, <4>2
    <3> QED BY <2>3, <3>2, <3>4, <3>5 DEF ScopeEnds
  <2>4. CASE b = Len(p) + 2
    BY <1>6, <1>12, <2>4
  <2> QED BY <1>4, <2>1, <2>2, <2>3, <2>4
<1>13. ASSUME NEW e \in DOMAIN q, q[e].op = "EndNot"
       PROVE  \E b \in 1 .. e - 1 : Closes(q, b, e)
  <2>1. CASE e \in 1 .. s /\ q[e] = p[e]
    <3>1. e \in DOMAIN p /\ p[e].op = "EndNot"
      BY <1>1, <1>13, <2>1
    <3>2. PICK b \in 1 .. e - 1 : Closes(p, b, e)
      BY <3>1 DEF Closed
    <3>3. b \in 1 .. s
      BY <1>1, <2>1, <3>2
    <3>4. Closes(q, b, e)
      BY <1>2, <1>5, <2>1, <3>2, <3>3 DEF Closes
    <3> QED BY <3>4
  <2>2. CASE e = s + 1 /\ q[e] = begin
    BY <1>2, <1>13, <2>2
  <2>3. CASE e - 1 \in s + 1 .. Len(p) /\ q[e] = p[e - 1] /\ e = (e - 1) + 1
    <3>1. e - 1 \in DOMAIN p /\ p[e - 1].op = "EndNot"
      BY <1>1, <1>13, <2>3
    <3>2. PICK b \in 1 .. (e - 1) - 1 : Closes(p, b, e - 1)
      BY <3>1 DEF Closed
    <3>3. IsBegin(p, b) /\ EndOf(p, b) = e - 1 /\ p[b].index = p[e - 1].index
      BY <3>2 DEF Closes
    <3>4. b \in s + 1 .. Len(p)
      BY <1>1, <1>9, <2>3, <3>2, <3>3
    <3>5. IsBegin(q, b + 1) /\ EndOf(q, b + 1) = e /\ q[b + 1].index = q[e].index
      BY <1>2, <1>7, <1>8, <2>3, <3>3, <3>4
    <3>6. b + 1 \in 1 .. e - 1
      BY <1>1, <2>3, <3>2
    <3> QED BY <3>5, <3>6 DEF Closes
  <2>4. CASE e = Len(p) + 2 /\ q[e] = end
    <3>1. s + 1 \in 1 .. e - 1 /\ q[s + 1].index = q[e].index
      BY <1>1, <1>2, <2>4
    <3> QED BY <1>6, <2>4, <3>1 DEF Closes
  <2> QED BY <1>4, <2>1, <2>2, <2>3, <2>4
<1>14. ASSUME NEW i \in DOMAIN q
       PROVE  q[i].op # "End" /\ Typed(q[i])
  <2>1. \A k \in 1 .. Len(p) : p[k].op # "End" /\ Typed(p[k])
    BY <1>1 DEF Closed
  <2>2. begin.op # "End" /\ end.op # "End" /\ Typed(begin) /\ Typed(end)
    BY <1>2
  <2>3. \A k \in s + 1 .. Len(p) : k \in 1 .. Len(p)
    BY <1>1
  <2>4. \A k \in 1 .. s : k \in 1 .. Len(p)
    BY <1>1
  <2>5. CASE i \in 1 .. s /\ q[i] = p[i]
    BY <2>1, <2>4, <2>5
  <2>6. CASE i = s + 1 /\ q[i] = begin
    BY <2>2, <2>6
  <2>7. CASE i - 1 \in s + 1 .. Len(p) /\ q[i] = p[i - 1]
    BY <2>1, <2>3, <2>7
  <2>8. CASE i = Len(p) + 2 /\ q[i] = end
    BY <2>2, <2>8
  <2> QED BY <1>4, <2>5, <2>6, <2>7, <2>8

\* The index is a new one.
<1>15. \A i \in DOMAIN p : index \notin Scopes(p, i)
  <2>1. ASSUME NEW i \in DOMAIN p, NEW c \in 1 .. i - 1, IsBegin(p, c), index = p[c].index
        PROVE  FALSE
    <3>1. c \in DOMAIN p /\ p[c].index \in Nat
      BY <1>1, <2>1 DEF Closed, IsBegin
    <3> QED BY <2>1, <3>1
  <2> QED BY <2>1, InScopes
<1>16. ASSUME NEW b \in DOMAIN q, IsBegin(q, b)
       PROVE  \/ b \in 1 .. s /\ b \in DOMAIN p /\ IsBegin(p, b) /\ q[b] = p[b]
              \/ b = s + 1 /\ q[b].index = index
              \/ b - 1 \in s + 1 .. Len(p) /\ b - 1 \in DOMAIN p /\ IsBegin(p, b - 1) /\ q[b] = p[b - 1]
  <2>1. CASE b \in 1 .. s /\ q[b] = p[b]
    BY <1>1, <1>5, <1>16, <2>1
  <2>2. CASE b = s + 1 /\ q[b] = begin
    BY <1>2, <2>2
  <2>3. CASE b - 1 \in s + 1 .. Len(p) /\ q[b] = p[b - 1] /\ b = (b - 1) + 1
    BY <1>1, <1>7, <1>16, <2>3
  <2>4. CASE b = Len(p) + 2
    BY <1>6, <1>16, <2>4
  <2> QED BY <1>4, <2>1, <2>2, <2>3, <2>4
<1>17. \A b \in DOMAIN p : IsBegin(p, b) => p[b].index \in Nat /\ p[b].index < index
  BY DEF Closed
<1>18. ASSUME NEW b \in DOMAIN q, IsBegin(q, b)
       PROVE  q[b].index < index + 1
  BY <1>16, <1>17, <1>18
<1>19. Distinct(q)
  <2>1. SUFFICES ASSUME NEW b \in DOMAIN q, NEW c \in DOMAIN q, IsBegin(q, b), IsBegin(q, c),
                        q[b].index = q[c].index
                 PROVE  b = c
    BY DEF Distinct
  <2>2. Distinct(p)
    BY DEF Closed
  <2>3. CASE b = s + 1
    <3>1. q[b].index = index
      BY <1>2, <2>3
    <3>2. ~(q[c].index < index)
      BY <2>1, <3>1
    <3> QED BY <1>16, <1>17, <2>1, <2>3, <3>2
  <2>4. CASE c = s + 1
    <3>1. q[c].index = index
      BY <1>2, <2>4
    <3>2. ~(q[b].index < index)
      BY <2>1, <3>1
    <3> QED BY <1>16, <1>17, <2>1, <2>4, <3>2
  <2>5. CASE b # s + 1 /\ c # s + 1
    <3>1. b \in Nat /\ c \in Nat
      BY <1>3
    <3>2. CASE b \in 1 .. s /\ c \in 1 .. s
      BY <1>1, <1>16, <2>1, <2>2, <3>2 DEF Distinct
    <3>3. CASE b - 1 \in s + 1 .. Len(p) /\ c - 1 \in s + 1 .. Len(p)
      <4>1. b - 1 = c - 1
        <5>1. /\ b - 1 \in DOMAIN p /\ IsBegin(p, b - 1) /\ q[b] = p[b - 1]
              /\ c - 1 \in DOMAIN p /\ IsBegin(p, c - 1) /\ q[c] = p[c - 1]
          BY <1>1, <1>16, <2>1, <2>5, <3>1, <3>3
        <5> QED BY <2>1, <2>2, <5>1 DEF Distinct
      <4> QED BY <3>1, <4>1
    <3>4. CASE b \in 1 .. s /\ c - 1 \in s + 1 .. Len(p)
      <4>1. /\ b \in DOMAIN p /\ IsBegin(p, b) /\ q[b] = p[b]
            /\ c - 1 \in DOMAIN p /\ IsBegin(p, c - 1) /\ q[c] = p[c - 1]
        BY <1>1, <1>16, <2>1, <2>5, <3>1, <3>4
      <4>2. b = c - 1
        BY <2>1, <2>2, <4>1 DEF Distinct
      <4> QED BY <1>1, <3>1, <3>4, <4>2
    <3>5. CASE c \in 1 .. s /\ b - 1 \in s + 1 .. Len(p)
      <4>1. /\ c \in DOMAIN p /\ IsBegin(p, c) /\ q[c] = p[c]
            /\ b - 1 \in DOMAIN p /\ IsBegin(p, b - 1) /\ q[b] = p[b - 1]
        BY <1>1, <1>16, <2>1, <2>5, <3>1, <3>5
      <4>2. c = b - 1
        BY <2>1, <2>2, <4>1 DEF Distinct
      <4> QED BY <1>1, <3>1, <3>5, <4>2
    <3> QED BY <1>16, <2>1, <2>5, <3>2, <3>3, <3>4, <3>5
  <2> QED BY <2>3, <2>4, <2>5
<1>20. ASSUME NEW before
       PROVE  BoundIn(q, before) \subseteq BoundIn(p, before)
  <2>1. ASSUME NEW x \in BoundIn(q, before), x \notin before
        PROVE  x \in BoundIn(p, before)
    <3>1. PICK k \in DOMAIN q : Scopes(q, k) = {} /\ x \in Writes(q[k])
      BY <2>1, InBoundIn
    <3>2. CASE k \in 1 .. s /\ q[k] = p[k]
      <4>1. k \in DOMAIN p /\ Scopes(p, k) = {} /\ x \in Writes(p[k])
        BY <1>1, <1>5, <3>1, <3>2
      <4> QED BY ONLY <4>1, InBoundIn, Zenon
    <3>3. CASE k - 1 \in s + 1 .. Len(p) /\ k = (k - 1) + 1
      <4>1. index \in Scopes(q, k)
        BY <1>10, <3>3
      <4> QED BY <3>1, <4>1
    <3>4. CASE q[k] \in {begin, end}
      BY <1>2, <3>1, <3>4
    <3> QED BY <1>4, <3>2, <3>3, <3>4
  <2>2. before \subseteq BoundIn(p, before)
    BY DEF BoundIn
  <2> QED BY <2>1, <2>2

<1>21. ASSUME NEW i \in s + 1 .. Len(q)
       PROVE  Writes(q[i]) = {} \/ \E k \in s + 1 .. Len(p) : q[i] = p[k]
  <2>1. Writes(begin) = {} /\ Writes(end) = {}
    BY <1>2
  <2>2. i \in DOMAIN q /\ ~(i \in 1 .. s)
    BY <1>1, <1>2, <1>3
  <2> QED BY <1>4, <2>1, <2>2
<1>22. ASSUME NEW before, NEW x \in BoundIn(p, before)
       PROVE  x \in BoundIn(q, before) \/ \E k \in s + 1 .. Len(p) : x \in Writes(p[k])
  <2>1. CASE x \in before
    BY <2>1, InBoundIn
  <2>2. CASE \E k \in DOMAIN p : Scopes(p, k) = {} /\ x \in Writes(p[k])
    <3>1. PICK k \in DOMAIN p : Scopes(p, k) = {} /\ x \in Writes(p[k])
      BY <2>2
    <3>2. CASE k \in 1 .. s
      <4>1. k \in DOMAIN q /\ k \in 1 .. s + 1 /\ q[k] = p[k]
        BY <1>1, <1>2, <1>3, <3>2
      <4> QED BY <1>5, <3>1, <4>1, InBoundIn
    <3>3. CASE k \in s + 1 .. Len(p)
      BY <3>1, <3>3
    <3> QED BY <1>1, <3>2, <3>3
  <2> QED BY <1>22, <2>1, <2>2, InBoundIn
<1>23. ASSUME NEW before, BindsFirst(p, before)
       PROVE  BindsFirst(q, before)
  <2>1. ASSUME NEW j \in s + 1 .. Len(p), NEW x \in BoundAt(p, j, before)
        PROVE  x \in BoundAt(q, j + 1, before)
    <3>1. CASE x \in before
      BY <3>1, InBoundAt
    <3>2. CASE \E k \in 1 .. j - 1 : Scopes(p, k) \subseteq Scopes(p, j) /\ x \in Writes(p[k])
      <4>1. PICK k \in 1 .. j - 1 : Scopes(p, k) \subseteq Scopes(p, j) /\ x \in Writes(p[k])
        BY <3>2
      <4>2. Scopes(q, j + 1) = Scopes(p, j) \cup {index}
        BY <1>10
      <4>3. CASE k \in 1 .. s
        <5>1. k \in 1 .. s + 1 /\ k \in 1 .. (j + 1) - 1 /\ q[k] = p[k]
          BY <1>1, <1>2, <4>3
        <5>2. Scopes(q, k) \subseteq Scopes(q, j + 1)
          BY <1>5, <4>1, <4>2, <5>1
        <5> QED BY <4>1, <5>1, <5>2, InBoundAt
      <4>4. CASE k \in s + 1 .. Len(p)
        <5>1. k + 1 \in 1 .. (j + 1) - 1 /\ q[k + 1] = p[k]
          BY <1>1, <1>2, <4>4
        <5>2. Scopes(q, k + 1) \subseteq Scopes(q, j + 1)
          BY <1>10, <4>1, <4>2, <4>4
        <5> QED BY <4>1, <5>1, <5>2, InBoundAt
      <4> QED BY <1>1, <4>3, <4>4
    <3> QED BY <2>1, <3>1, <3>2, InBoundAt
  <2>2. ASSUME NEW j \in s + 1 .. Len(p), NEW x \in BoundAt(q, j + 1, before)
        PROVE  x \in BoundAt(p, j, before)
    <3>1. CASE x \in before
      BY <3>1, InBoundAt
    <3>2. ASSUME NEW k \in 1 .. (j + 1) - 1, Scopes(q, k) \subseteq Scopes(q, j + 1), x \in Writes(q[k])
          PROVE  x \in BoundAt(p, j, before)
      <4>1. Scopes(q, k) \subseteq Scopes(p, j) \cup {index} /\ k \in DOMAIN q
        BY <1>1, <1>3, <1>10, <3>2
      <4>2. CASE k \in 1 .. s /\ q[k] = p[k]
        <5>1. k \in 1 .. j - 1 /\ k \in DOMAIN p /\ k \in 1 .. s + 1
          BY <1>1, <4>2
        <5>2. Scopes(p, k) \subseteq Scopes(p, j) /\ x \in Writes(p[k])
          BY <1>5, <1>15, <3>2, <4>1, <4>2, <5>1
        <5> QED BY ONLY <5>1, <5>2, InBoundAt, Zenon
      <4>3. CASE k = s + 1 /\ q[k] = begin
        BY <1>2, <3>2, <4>3
      <4>4. CASE k - 1 \in s + 1 .. Len(p) /\ q[k] = p[k - 1] /\ k = (k - 1) + 1
        <5>1. k - 1 \in 1 .. j - 1 /\ k - 1 \in DOMAIN p
          BY <1>1, <4>4
        <5>2. Scopes(p, k - 1) \subseteq Scopes(p, j) /\ x \in Writes(p[k - 1])
          BY <1>10, <1>15, <3>2, <4>1, <4>4, <5>1
        <5> QED BY ONLY <5>1, <5>2, InBoundAt, Zenon
      <4>5. CASE k = Len(p) + 2 /\ q[k] = end
        BY <1>2, <3>2, <4>5
      <4> QED BY <1>4, <4>1, <4>2, <4>3, <4>4, <4>5
    <3>3. x \in before \/ \E k \in 1 .. (j + 1) - 1 : Scopes(q, k) \subseteq Scopes(q, j + 1) /\ x \in Writes(q[k])
      BY ONLY <2>2, InBoundAt, Zenon
    <3> QED BY <3>1, <3>2, <3>3
  <2>3. \A j \in s + 1 .. Len(p) : BoundAt(q, j + 1, before) = BoundAt(p, j, before)
    BY <2>1, <2>2
  <2>4. ASSUME NEW i \in DOMAIN q
        PROVE  /\ Reads(q[i]) \subseteq BoundAt(q, i, before)
               /\ Writes(q[i]) \cap BoundAt(q, i, before) = {}
    <3>1. CASE i \in 1 .. s /\ q[i] = p[i]
      <4>1. i \in DOMAIN p /\ i \in 1 .. s + 1
        BY <1>1, <3>1
      <4> QED BY <1>5, <1>23, <3>1, <4>1 DEF BindsFirst
    <3>2. CASE i = s + 1 /\ q[i] = begin
      BY <1>2, <3>2
    <3>3. CASE i - 1 \in s + 1 .. Len(p) /\ q[i] = p[i - 1] /\ i = (i - 1) + 1
      <4>1. i - 1 \in DOMAIN p
        BY <1>1, <3>3
      <4>2. /\ Reads(q[i]) \subseteq BoundAt(p, i - 1, before)
            /\ Writes(q[i]) \cap BoundAt(p, i - 1, before) = {}
        BY <1>23, <3>3, <4>1 DEF BindsFirst
      <4>3. BoundAt(q, i, before) = BoundAt(p, i - 1, before)
        BY <2>3, <3>3
      <4> QED BY <4>2, <4>3
    <3>4. CASE i = Len(p) + 2 /\ q[i] = end
      BY <1>2, <3>4
    <3> QED BY <1>4, <3>1, <3>2, <3>3, <3>4
  <2> QED BY <2>4 DEF BindsFirst
<1>24. ASSUME NEW r \in 0 .. s, CutAt(p, r)
       PROVE  CutAt(q, r)
  <2>1. \A b \in 1 .. r : b \in 1 .. s
    BY <1>1
  <2> QED BY <1>5, <1>24, <2>1 DEF CutAt
<1>25. Closed(q)
  BY <1>2, <1>12, <1>13, <1>14, <1>19 DEF Closed
<1> QED BY <1>2, <1>21, <1>22, <1>23, <1>24, <1>25, <1>18, <1>20

-----------------------------------------------------------------------------
(* Lists.                                                                  *)

LEMMA MentionedMore ==
  ASSUME NEW p, NEW S, NEW T, S \subseteq T
  PROVE  MentionedIn(p, S) \subseteq MentionedIn(p, T)
BY DEF MentionedIn

LEMMA InMentioned ==
  ASSUME NEW p, NEW S, NEW j \in S, p[j].op # "Not"
  PROVE  Mentioned(p[j]) \subseteq MentionedIn(p, S)
BY DEF MentionedIn

LEMMA BodyFacts ==
  ASSUME NEW p, IsList(p), NEW i \in {0} \cup DOMAIN p, i = 0 \/ p[i].op = "Not"
  PROVE  /\ i \in Nat /\ BodyEnd(p, i) \in i .. Len(p)
         /\ \A j \in Body(p, i) :
              /\ j \in DOMAIN p /\ j \in i + 1 .. BodyEnd(p, i) /\ IsOperation(p[j])
              /\ Under(p, j) \subseteq i + 1 .. BodyEnd(p, i)
              /\ Under(p, j) \subseteq DOMAIN p
              /\ p[j].op = "Not" => BodyEnd(p, j) \in j .. BodyEnd(p, i)
<1>1. Len(p) \in Nat /\ DOMAIN p = 1 .. Len(p)
  BY SequenceFacts DEF IsList, IsSequence
<1>2. \A k \in DOMAIN p : p[k].op = "Not" => BodyEnd(p, k) \in k .. Len(p)
  BY <1>1 DEF IsList, Nests, BodyEnd
<1>3. i \in Nat /\ BodyEnd(p, i) \in i .. Len(p)
  <2>1. CASE i = 0
    BY <1>1, <2>1 DEF BodyEnd
  <2>2. CASE i \in DOMAIN p /\ p[i].op = "Not"
    BY <1>1, <1>2, <2>2
  <2> QED BY <1>1, <2>1, <2>2
<1>4. ASSUME NEW j \in Body(p, i)
      PROVE  /\ j \in DOMAIN p /\ j \in i + 1 .. BodyEnd(p, i) /\ IsOperation(p[j])
             /\ Under(p, j) \subseteq i + 1 .. BodyEnd(p, i)
             /\ Under(p, j) \subseteq DOMAIN p
             /\ p[j].op = "Not" => BodyEnd(p, j) \in j .. BodyEnd(p, i)
  <2>1. j \in i + 1 .. BodyEnd(p, i)
    BY DEF Body
  <2>2. j \in DOMAIN p
    BY <1>1, <1>3, <2>1
  <2>3. p[j].op = "Not" => BodyEnd(p, j) \in j .. BodyEnd(p, i)
    <3>1. CASE i = 0
      BY <1>2, <2>2, <3>1 DEF BodyEnd
    <3>2. CASE i # 0
      <4>1. j \in Under(p, i) /\ Nests(p, i)
        BY <2>1, <3>2 DEF Under, IsList
      <4> QED BY <1>1, <1>2, <1>3, <2>2, <4>1 DEF Nests
    <3> QED BY <3>1, <3>2
  <2>4. Under(p, j) \subseteq i + 1 .. BodyEnd(p, i)
    BY <1>1, <1>3, <2>1, <2>3 DEF Under
  <2> QED BY <1>1, <1>3, <2>1, <2>2, <2>3, <2>4 DEF IsList
<1> QED BY <1>3, <1>4

\* What is in a negation is apart from what is beside it.
LEMMA Apart ==
  ASSUME NEW p, IsList(p), NEW i \in {0} \cup DOMAIN p, i = 0 \/ p[i].op = "Not",
         NEW j \in Body(p, i), NEW k \in Body(p, i), j # k
  PROVE  Under(p, j) \cap Under(p, k) = {}
<1>1. j \in Nat /\ k \in Nat /\ i \in Nat
  BY BodyFacts
<1>2. ASSUME NEW a \in Body(p, i), NEW b \in Body(p, i), a < b
      PROVE  Under(p, a) \cap Under(p, b) = {}
  <2>1. /\ a \in i + 1 .. BodyEnd(p, i) /\ b \in i + 1 .. BodyEnd(p, i)
        /\ BodyEnd(p, i) \in Nat /\ i \in Nat
        /\ p[a].op = "Not" => BodyEnd(p, a) \in Nat
    BY BodyFacts
  <2>2. p[a].op = "Not" => b > BodyEnd(p, a)
    BY <1>2, <2>1 DEF Body
  <2> QED BY <1>2, <2>1, <2>2 DEF Under
<1> QED BY <1>1, <1>2

LEMMA ToOrderFacts ==
  ASSUME NEW p, NEW i
  PROVE  /\ ToOrder(p, i) \subseteq Body(p, i)
         /\ \A j \in Body(p, i) \ ToOrder(p, i) : Provides(p[j]) = {}
BY DEF ToOrder, Redundant, Provides

-----------------------------------------------------------------------------
(* What an operation becomes.                                              *)

LEMMA FirstOf ==
  ASSUME NEW T \in SUBSET Nat, T # {}
  PROVE  \E x \in T : \A y \in T : x <= y
<1>1. PICK R : (\A x, y \in Nat : <<y, x>> \in R <=> y < x) /\ IsWellFoundedOn(R, Nat)
  <2>1. \A x, y \in Nat : <<y, x>> \in OpToRel(<, Nat) <=> y < x
    BY Zenon DEF OpToRel
  <2> QED BY <2>1, NatLessThanWellFounded, Zenon
<1>2. PICK x \in T : \A y \in T : ~(<<y, x>> \in R)
  BY <1>1, WFMin
<1>3. ASSUME NEW y \in T
      PROVE  x <= y
  <2>1. x \in Nat /\ y \in Nat
    OBVIOUS
  <2>2. ~(y < x)
    BY <1>1, <1>2, <2>1, Zenon
  <2> QED BY <2>1, <2>2
<1> QED BY <1>3

\* The first of the items with a slot that is not bound binds it.
LEMMA FirstBinds ==
  ASSUME NEW items, IsSequence(items), \A i \in DOMAIN items : IsItem(items[i]),
         NEW k \in DOMAIN items, items[k].kind = "binding",
         NEW bound, items[k].binding \notin bound
  PROVE  \E i \in DOMAIN items :
           /\ i <= k
           /\ TupleItem(items, i, bound) = [kind |-> "bind", binding |-> items[k].binding]
<1>1. Len(items) \in Nat /\ DOMAIN items = 1 .. Len(items)
  BY SequenceFacts
<1> DEFINE T == {i \in DOMAIN items : items[i] = items[k]}
<1>2. T \in SUBSET Nat /\ T # {}
  BY <1>1
<1>3. PICK i \in T : \A y \in T : i <= y
  BY <1>2, FirstOf
<1>4. i \in DOMAIN items /\ items[i] = items[k] /\ i <= k
  BY <1>3
<1>5. ~\E m \in 1 .. i - 1 : items[m] = items[i]
  BY <1>1, <1>3, <1>4
<1>6. TupleItem(items, i, bound) = [kind |-> "bind", binding |-> items[k].binding]
  BY <1>4, <1>5 DEF TupleItem
<1> QED BY <1>4, <1>6

\* What an operation that is placed does.
GoodPlaced(c, op, bound) ==
  /\ op.op \notin {"BeginNot", "EndNot", "End"}
  /\ Typed(op)
  /\ Writes(op) \subseteq Provides(c) /\ Provides(c) \subseteq Mentioned(c)
  /\ Writes(op) \cap bound = {}
  /\ Provides(c) \subseteq bound \cup Writes(op)
  /\ Needs(c) \subseteq Mentioned(c)
  /\ Reads(op) \subseteq Needs(c) \cup (Mentioned(c) \cap bound)

LEMMA TuplePlaced ==
  ASSUME NEW c, IsOperation(c), c.op = "Tuple", NEW bound, Inputs \subseteq bound
  PROVE  GoodPlaced(c, Compiled(c, bound), bound)
<1> DEFINE items == [i \in DOMAIN c.items |-> TupleItem(c.items, i, bound)]
           op == Compiled(c, bound)
<1>1. op = [op |-> "Unpack", binding |-> c.binding, items |-> items]
  BY DEF Compiled
<1>2. op.op = "Unpack" /\ op.binding = c.binding /\ op.items = items
  BY <1>1
<1> HIDE DEF op
<1>3. IsSequence(c.items) /\ \A i \in DOMAIN c.items : IsItem(c.items[i])
  BY DEF IsOperation, IsSequence
<1>4. Len(c.items) \in Nat /\ DOMAIN c.items = 1 .. Len(c.items)
  BY <1>3, SequenceFacts
<1>5. DOMAIN items = DOMAIN c.items /\ \A i \in DOMAIN items : items[i] = TupleItem(c.items, i, bound)
  OBVIOUS
<1> HIDE DEF items
<1>6. items \in Seq(Range(items))
  <2>1. items = [i \in 1 .. Len(c.items) |-> items[i]] /\ \A i \in 1 .. Len(c.items) : items[i] \in Range(items)
    BY <1>4, <1>5 DEF items, Range
  <2>2. items \in [1 .. Len(c.items) -> Range(items)]
    BY <2>1
  <2> QED BY <1>4, <2>2, SeqDef
<1>7. ASSUME NEW i \in DOMAIN items
      PROVE  \/ items[i] = c.items[i] /\ items[i].kind \in {"ignore", "binding", "value"}
             \/ /\ items[i] = [kind |-> "bind", binding |-> c.items[i].binding]
                /\ items[i].kind = "bind" /\ items[i].binding = c.items[i].binding
                /\ c.items[i].kind = "binding" /\ c.items[i].binding \notin bound
                /\ ~\E k \in 1 .. i - 1 : c.items[k] = c.items[i]
  BY <1>3, <1>5 DEF TupleItem, IsItem
<1>8. \A i \in DOMAIN c.items : c.items[i].kind = "binding" =>
         c.items[i].binding \in SlotsOf(Range(c.items))
  BY DEF SlotsOf, Range
<1>9. \A b \in SlotsOf(Range(c.items)) : \E i \in DOMAIN c.items :
         c.items[i].kind = "binding" /\ c.items[i].binding = b
  BY DEF SlotsOf, Range
<1>10. Provides(c) = SlotsOf(Range(c.items)) /\ Mentioned(c) = {c.binding} \cup SlotsOf(Range(c.items))
       /\ Needs(c) = {c.binding}
  BY DEF Provides, Mentioned, Needs
<1>11. Writes(op) = {item.binding : item \in {it \in ToSet(items) : it.kind = "bind"}}
  BY <1>2 DEF Writes
<1>12. \A b : b \in Writes(op) <=> \E i \in DOMAIN items : items[i].kind = "bind" /\ items[i].binding = b
  BY <1>11 DEF ToSet
<1>13. Writes(op) \subseteq Provides(c) /\ Writes(op) \cap bound = {}
  <2>1. ASSUME NEW b \in Writes(op)
        PROVE  b \in Provides(c) /\ b \notin bound
    <3>1. PICK i \in DOMAIN items : items[i].kind = "bind" /\ items[i].binding = b
      BY <1>12
    <3>2. c.items[i].kind = "binding" /\ c.items[i].binding = b /\ b \notin bound
      BY <1>7, <3>1
    <3> QED BY <1>5, <1>8, <1>10, <3>2
  <2> QED BY <2>1
<1>14. ASSUME NEW k \in DOMAIN c.items, c.items[k].kind = "binding", c.items[k].binding \notin bound
       PROVE  \E i \in DOMAIN items : i <= k /\ items[i] = [kind |-> "bind", binding |-> c.items[k].binding]
  BY <1>3, <1>5, <1>14, FirstBinds
<1>15. Provides(c) \subseteq bound \cup Writes(op)
  <2>1. ASSUME NEW b \in Provides(c), b \notin bound
        PROVE  b \in Writes(op)
    <3>1. PICK k \in DOMAIN c.items : c.items[k].kind = "binding" /\ c.items[k].binding = b
      BY <1>9, <1>10
    <3>2. PICK i \in DOMAIN items : items[i] = [kind |-> "bind", binding |-> b]
      BY <1>14, <2>1, <3>1
    <3> QED BY <1>12, <3>2
  <2> QED BY <2>1
<1>16. ASSUME NEW i \in DOMAIN items, NEW j \in DOMAIN items, items[i].kind = "bind",
              Binds(items[j], items[i].binding)
       PROVE  i = j
  <2>1. items[j].kind = "bind" /\ items[j].binding = items[i].binding
    BY <1>16 DEF Binds
  <2>2. /\ c.items[i] \in [kind : {"binding"}, binding : Binding]
        /\ c.items[j] \in [kind : {"binding"}, binding : Binding]
        /\ c.items[i].binding = c.items[j].binding
    BY <1>3, <1>5, <1>7, <1>16, <2>1 DEF IsItem
  <2>3. c.items[i] = c.items[j]
    BY <2>2
  <2>4. ~(i < j) /\ ~(j < i)
    <3>1. /\ ~\E k \in 1 .. i - 1 : c.items[k] = c.items[i]
          /\ ~\E k \in 1 .. j - 1 : c.items[k] = c.items[j]
      BY <1>7, <1>16, <2>1
    <3> QED BY <1>4, <1>5, <2>3, <3>1
  <2> QED BY <1>4, <1>5, <2>4
<1>17. Typed(op)
  <2>1. Writes(op) \subseteq Binding \ Inputs
    BY <1>10, <1>13 DEF IsOperation
  <2> QED BY <1>2, <1>6, <1>16, <2>1 DEF Typed, Kinds, Tests
<1>18. Reads(op) \subseteq Needs(c) \cup (Mentioned(c) \cap bound)
  <2>1. Reads(op) = {op.binding} \cup {items[n].binding : n \in Compares(items)}
    BY <1>2 DEF Reads
  <2>2. ASSUME NEW k \in Compares(items)
        PROVE  items[k].binding \in SlotsOf(Range(c.items)) \cap bound
    <3>1. /\ k \in DOMAIN items /\ items[k].kind = "binding"
          /\ ~\E i \in 1 .. k - 1 : Binds(items[i], items[k].binding)
      BY DEF Compares
    <3>2. items[k] = c.items[k]
      BY <1>7, <3>1
    <3>3. ASSUME items[k].binding \notin bound
          PROVE  FALSE
      <4>1. PICK i \in DOMAIN items : i <= k /\ items[i] = [kind |-> "bind", binding |-> items[k].binding]
        BY <1>5, <1>14, <3>1, <3>2, <3>3
      <4>2. i # k
        BY <3>1, <4>1
      <4>3. Binds(items[i], items[k].binding)
        BY <4>1 DEF Binds
      <4> QED BY <1>4, <1>5, <3>1, <4>1, <4>2, <4>3
    <3> QED BY <1>5, <1>8, <3>1, <3>2, <3>3
  <2> QED BY <1>2, <1>10, <2>1, <2>2
<1>19. Provides(c) \subseteq Mentioned(c) /\ Needs(c) \subseteq Mentioned(c)
  BY <1>10
<1> QED BY <1>2, <1>13, <1>15, <1>17, <1>18, <1>19 DEF GoodPlaced, op

LEMMA OperationPlaced ==
  ASSUME NEW c, IsOperation(c), c.op # "Not", NEW bound, Inputs \subseteq bound
  PROVE  GoodPlaced(c, Compiled(c, bound), bound)
<1> DEFINE op == Compiled(c, bound)
<1>1. CASE c.op = "Tuple"
  BY <1>1, TuplePlaced
<1>2. CASE c.op = "Attribute"
  <2>1. op = [op |-> IF c.value_binding \in bound THEN "RequireBinding" ELSE "Search",
              binding |-> c.binding, attribute |-> c.attribute, value_binding |-> c.value_binding]
    BY <1>2 DEF Compiled
  <2>2. /\ op.op = IF c.value_binding \in bound THEN "RequireBinding" ELSE "Search"
        /\ op.binding = c.binding /\ op.attribute = c.attribute
        /\ op.value_binding = c.value_binding
    BY <2>1
  <2> HIDE DEF op
  <2>3. /\ Mentioned(c) = {c.binding, c.value_binding} /\ Provides(c) = {c.value_binding}
        /\ Needs(c) = {c.binding}
    BY <1>2 DEF Mentioned, Provides, Needs
  <2>4. CASE c.value_binding \in bound
    <3>1. Writes(op) = {} /\ Reads(op) = {c.binding, c.value_binding}
      BY <2>2, <2>4 DEF Writes, Reads
    <3>2. Typed(op)
      BY <2>2, <2>4, <3>1 DEF Typed, Kinds, Tests
    <3> QED BY <2>2, <2>3, <2>4, <3>1, <3>2 DEF GoodPlaced, op
  <2>5. CASE c.value_binding \notin bound
    <3>1. Writes(op) = {c.value_binding} /\ Reads(op) = {c.binding}
      BY <2>2, <2>5 DEF Writes, Reads
    <3>2. Typed(op)
      BY <1>2, <2>2, <2>3, <2>5, <3>1 DEF Typed, Kinds, Tests, IsOperation
    <3> QED BY <2>2, <2>3, <2>5, <3>1, <3>2 DEF GoodPlaced, op
  <2> QED BY <2>4, <2>5
<1>3. CASE c.op = "Calculation"
  <2>1. op = [op |-> IF c.binding \in bound THEN "CalculationCompare" ELSE "Calculation",
              binding |-> c.binding, operands |-> c.operands, results |-> c.results]
    BY <1>3 DEF Compiled
  <2>2. /\ op.op = IF c.binding \in bound THEN "CalculationCompare" ELSE "Calculation"
        /\ op.binding = c.binding /\ op.operands = c.operands /\ op.results = c.results
    BY <2>1
  <2> HIDE DEF op
  <2>3. /\ Mentioned(c) = {c.binding} \cup Range(c.operands) /\ Provides(c) = {c.binding}
        /\ Needs(c) = Range(c.operands)
    BY <1>3 DEF Mentioned, Provides, Needs
  <2>4. CASE c.binding \in bound
    <3>1. Writes(op) = {} /\ Reads(op) = {c.binding} \cup Range(c.operands)
      BY <2>2, <2>4 DEF Writes, Reads
    <3>2. Typed(op)
      BY <2>2, <2>4, <3>1 DEF Typed, Kinds, Tests
    <3> QED BY <2>2, <2>3, <2>4, <3>1, <3>2 DEF GoodPlaced, op
  <2>5. CASE c.binding \notin bound
    <3>1. Writes(op) = {c.binding} /\ Reads(op) = Range(c.operands)
      BY <2>2, <2>5 DEF Writes, Reads, Needs
    <3>2. Typed(op)
      BY <1>3, <2>2, <2>3, <2>5, <3>1 DEF Typed, Kinds, Tests, IsOperation
    <3> QED BY <2>2, <2>3, <2>5, <3>1, <3>2 DEF GoodPlaced, op
  <2> QED BY <2>4, <2>5
<1>4. CASE c.op \in {"RequireValue", "Require", "AssertObject", "CompareBinding", "MatchEnum", "Compare"}
  <2>1. op = c
    BY <1>4 DEF Compiled
  <2>2. Writes(c) = {} /\ Provides(c) = {} /\ Mentioned(c) = Needs(c) /\ Reads(c) = Needs(c)
    BY <1>4 DEF Writes, Provides, Mentioned, Needs, Reads
  <2>3. Typed(c)
    BY <1>4, <2>2 DEF Typed, Kinds, Tests
  <2> QED BY <1>4, <2>1, <2>2, <2>3 DEF GoodPlaced
<1> QED BY <1>1, <1>2, <1>3, <1>4 DEF IsOperation

-----------------------------------------------------------------------------
(* Steps.                                                                  *)

LEMMA FrameFacts ==
  ASSUME IInv
  PROVE  /\ IsList(List)
         /\ Len(scopes) \in Nat \ {0} /\ DOMAIN scopes = 1 .. Len(scopes)
         /\ Scope = scopes[Len(scopes)]
         /\ Len(ops) \in Nat /\ DOMAIN ops = 1 .. Len(ops)
         /\ \A n \in DOMAIN scopes :
              /\ scopes[n] \in Frame
              /\ scopes[n].not \in {0} \cup DOMAIN List
              /\ scopes[n].not = 0 \/ List[scopes[n].not].op = "Not"
              /\ \A j \in scopes[n].todo : j \in DOMAIN List /\ j \in Body(List, scopes[n].not)
<1>1. at \in DOMAIN rule
  BY SequenceFacts DEF IInv, IsRule, IsSequence
<1>2. IsList(List)
  BY <1>1 DEF IInv, IsRule, List
<1>3. scopes \in Seq(Frame) /\ scopes # <<>>
  BY DEF IInv, Frames
<1>4. Len(scopes) \in Nat \ {0} /\ DOMAIN scopes = 1 .. Len(scopes)
  BY <1>3, EmptySeq, LenProperties
<1>5. Scope = scopes[Len(scopes)]
  BY DEF Scope, Last
<1>6. Len(ops) \in Nat /\ DOMAIN ops = 1 .. Len(ops)
  BY SequenceFacts DEF IInv, Closed
<1>7. ASSUME NEW n \in DOMAIN scopes
      PROVE  /\ scopes[n] \in Frame
             /\ scopes[n].not \in {0} \cup DOMAIN List
             /\ scopes[n].not = 0 \/ List[scopes[n].not].op = "Not"
             /\ \A j \in scopes[n].todo : j \in DOMAIN List /\ j \in Body(List, scopes[n].not)
  <2>1. scopes[n] \in Frame
    BY <1>3, <1>4, ElementOfSeq
  <2>2. /\ scopes[n].not \in {0} \cup DOMAIN List
        /\ scopes[n].not = 0 \/ List[scopes[n].not].op = "Not"
    BY <1>4 DEF IInv, Frames
  <2>3. scopes[n].todo \subseteq Body(List, scopes[n].not)
    BY DEF IInv, Frames
  <2>4. \A j \in Body(List, scopes[n].not) : j \in DOMAIN List
    BY <1>2, <2>2, BodyFacts
  <2> QED BY <2>1, <2>2, <2>3, <2>4
<1> QED BY <1>2, <1>4, <1>5, <1>6, <1>7

\* One operation less to place.
LEMMA WithoutFacts ==
  ASSUME IInv, NEW j
  PROVE  LET t == Without(j) IN
         /\ t \in Seq(Frame) /\ t # <<>> /\ Len(t) = Len(scopes) /\ DOMAIN t = DOMAIN scopes
         /\ \A n \in DOMAIN scopes :
              /\ t[n].not = scopes[n].not /\ t[n].start = scopes[n].start
              /\ t[n].todo = IF n = Len(scopes) THEN scopes[n].todo \ {j} ELSE scopes[n].todo
<1> DEFINE f == [scopes[Len(scopes)] EXCEPT !.todo = @ \ {j}]
           t == Without(j)
<1>1. scopes \in Seq(Frame) /\ Len(scopes) \in 1 .. Len(scopes) /\ DOMAIN scopes = 1 .. Len(scopes)
  BY FrameFacts DEF IInv, Frames
<1>2. scopes[Len(scopes)] \in Frame
  BY <1>1, ElementOfSeq
<1>3. /\ f \in Frame
      /\ f.not = scopes[Len(scopes)].not /\ f.start = scopes[Len(scopes)].start
      /\ f.todo = scopes[Len(scopes)].todo \ {j}
  BY <1>2 DEF Frame
<1>4. t = [scopes EXCEPT ![Len(scopes)] = f]
  BY Zenon DEF Without
<1> HIDE DEF f, t
<1>5. /\ t \in Seq(Frame) /\ Len(t) = Len(scopes)
      /\ \A n \in 1 .. Len(scopes) : t[n] = IF n = Len(scopes) THEN f ELSE scopes[n]
  BY ONLY <1>1, <1>3, <1>4, ExceptSeq
<1>6. t # <<>> /\ DOMAIN t = 1 .. Len(t)
  <2>1. t # <<>>
    <3>1. Len(t) # 0
      BY <1>5, FrameFacts
    <3> QED BY <3>1, NoOperations
  <2> QED BY ONLY <1>5, <2>1, LenProperties
<1> QED BY <1>1, <1>3, <1>5, <1>6 DEF t

\* The frames stay when an operation is taken from the innermost and others may
\* have been placed.
LEMMA FramesShrink ==
  ASSUME IInv, NEW j, scopes' = Without(j), rule' = rule, at' = at,
         Len(ops') \in Nat, Len(ops) <= Len(ops')
  PROVE  Frames'
<1> DEFINE t == Without(j)
<1>1. /\ t \in Seq(Frame) /\ t # <<>> /\ Len(t) = Len(scopes) /\ DOMAIN t = DOMAIN scopes
      /\ \A n \in DOMAIN scopes :
           /\ t[n].not = scopes[n].not /\ t[n].start = scopes[n].start
           /\ t[n].todo = IF n = Len(scopes) THEN scopes[n].todo \ {j} ELSE scopes[n].todo
  BY WithoutFacts
<1> HIDE DEF t
<1>2. List' = List /\ scopes' = t
  BY DEF List, t
<1>3. /\ Len(scopes) \in Nat \ {0} /\ DOMAIN scopes = 1 .. Len(scopes) /\ Len(ops) \in Nat
      /\ \A n \in DOMAIN scopes : scopes[n].start \in Nat
  BY FrameFacts DEF Frame
<1>4. Frames
  BY DEF IInv
<1>5. scopes'[1].not = 0
  <2>1. 1 \in DOMAIN scopes /\ scopes[1].not = 0
    BY <1>3, <1>4 DEF Frames
  <2> QED BY <1>1, <1>2, <2>1
<1>6. \A n \in DOMAIN scopes' :
        /\ scopes'[n].todo \subseteq Body(List', scopes'[n].not)
        /\ scopes'[n].start <= Len(ops')
        /\ n > 1 => scopes'[n].not \in DOMAIN List' /\ List'[scopes'[n].not].op = "Not"
  <2> SUFFICES ASSUME NEW n \in DOMAIN scopes
               PROVE  /\ t[n].todo \subseteq Body(List, t[n].not)
                      /\ t[n].start <= Len(ops')
                      /\ n > 1 => t[n].not \in DOMAIN List /\ List[t[n].not].op = "Not"
    BY <1>1, <1>2
  <2>1. /\ scopes[n].todo \subseteq Body(List, scopes[n].not)
        /\ scopes[n].start <= Len(ops)
        /\ n > 1 => scopes[n].not \in DOMAIN List /\ List[scopes[n].not].op = "Not"
    BY <1>4 DEF Frames
  <2>2. scopes[n].start <= Len(ops')
    BY <1>3, <2>1
  <2> QED BY <1>1, <2>1, <2>2
<1>7. ASSUME NEW n \in 1 .. Len(scopes') - 1
      PROVE  scopes'[n + 1].not \in Body(List', scopes'[n].not) \ scopes'[n].todo
  <2>1. n \in DOMAIN scopes /\ n + 1 \in DOMAIN scopes /\ n \in 1 .. Len(scopes) - 1
    BY <1>1, <1>2, <1>3
  <2>2. scopes[n + 1].not \in Body(List, scopes[n].not) \ scopes[n].todo
    BY <1>4, <2>1 DEF Frames
  <2> QED BY <1>1, <1>2, <2>1, <2>2
<1>8. \A n, m \in DOMAIN scopes' : n <= m =>
        /\ scopes'[n].start <= scopes'[m].start
        /\ scopes'[n].not <= scopes'[m].not
        /\ BodyEnd(List', scopes'[m].not) <= BodyEnd(List', scopes'[n].not)
  BY <1>1, <1>2, <1>4 DEF Frames
<1> QED BY <1>1, <1>2, <1>5, <1>6, <1>7, <1>8 DEF Frames

\* What is placed reads what is bound.
LEMMA PlaceKeeps ==
  ASSUME IInv, Place, rule' = rule
  PROVE  IInv'
<1>1. PICK j \in Scope.todo :
        /\ List[j].op # "Not" /\ Ready(j)
        /\ ops' = Append(ops, Compiled(List[j], provided))
        /\ provided' = provided \cup Writes(Compiled(List[j], provided))
        /\ scopes' = Without(j)
  BY Zenon DEF Place
<1> DEFINE op == Compiled(List[j], provided)
<1>2. /\ pc = "order" /\ pc' = "order" /\ at' = at /\ given' = given /\ nextIndex' = nextIndex
      /\ compiled' = compiled
  BY DEF Place
<1>3. /\ IsList(List)
      /\ Len(scopes) \in Nat \ {0} /\ DOMAIN scopes = 1 .. Len(scopes)
      /\ Scope = scopes[Len(scopes)]
      /\ Len(ops) \in Nat /\ DOMAIN ops = 1 .. Len(ops)
      /\ \A n \in DOMAIN scopes :
           /\ scopes[n] \in Frame
           /\ scopes[n].not \in {0} \cup DOMAIN List
           /\ scopes[n].not = 0 \/ List[scopes[n].not].op = "Not"
           /\ \A k \in scopes[n].todo : k \in DOMAIN List /\ k \in Body(List, scopes[n].not)
  BY FrameFacts
<1>4. Len(scopes) \in DOMAIN scopes
  BY <1>3
<1>5. j \in DOMAIN List /\ j \in Body(List, Scope.not) /\ IsOperation(List[j]) /\ List[j].op # "Not"
  BY <1>1, <1>3, <1>4 DEF IsList
<1>6. Inputs \subseteq provided
  BY DEF IInv
<1>7. GoodPlaced(List[j], op, provided)
  BY <1>5, <1>6, OperationPlaced
<1>8. List' = List /\ Before' = Before /\ ops' = Append(ops, op) /\ provided' = provided \cup Writes(op)
  BY <1>1, <1>2 DEF List, Before
<1> HIDE DEF op
<1>9. Closed(ops) /\ BindsFirst(ops, Before)
  BY DEF IInv
<1>10. op.op \notin {"BeginNot", "EndNot"}
  BY <1>7 DEF GoodPlaced
<1>11. /\ IsSequence(ops') /\ Len(ops') = Len(ops) + 1 /\ ops'[Len(ops')] = op
       /\ \A i \in 1 .. Len(ops) : ops'[i] = ops[i]
       /\ \A b \in DOMAIN ops' : IsBegin(ops', b) => ScopeEnds(ops', b) /\ ops'[b].index \in Nat
       /\ \A e \in DOMAIN ops' : ops'[e].op = "EndNot" => \E b \in 1 .. e - 1 : Closes(ops', b, e)
       /\ Distinct(ops')
       /\ \A b \in DOMAIN ops' : IsBegin(ops', b) => b \in DOMAIN ops /\ IsBegin(ops, b) /\ ops'[b] = ops[b]
       /\ \A before : BoundIn(ops', before) = BoundIn(ops, before) \cup Writes(op)
       /\ \A before : BindsFirst(ops, before) /\ Reads(op) \subseteq BoundIn(ops, before)
                          /\ Writes(op) \cap BoundIn(ops, before) = {}
                        => BindsFirst(ops', before)
       /\ \A s \in 0 .. Len(ops) : CutAt(ops, s) => CutAt(ops', s)
  <2>1. Prolongs(ops', ops, op)
    BY <1>8, <1>9, <1>10, PlacedAtEnd
  <2> QED BY <2>1 DEF Prolongs
<1>12. \A m \in DOMAIN List : m = j => MentionedIn(List, Under(List, m)) = Mentioned(List[j])
  BY <1>5 DEF Under, MentionedIn
<1>13. Reads(op) \subseteq BoundIn(ops, Before) /\ Writes(op) \cap BoundIn(ops, Before) = {}
  <2>1. Mentioned(List[j]) \cap provided \subseteq BoundIn(ops, Before)
    BY <1>1, <1>3, <1>4, <1>5, <1>12 DEF IInv, Waiting
  <2>2. Needs(List[j]) \subseteq provided
    BY <1>1 DEF Ready
  <2>3. BoundIn(ops, Before) \subseteq provided
    BY DEF IInv
  <2> QED BY <1>7, <2>1, <2>2, <2>3 DEF GoodPlaced
<1>14. Closed(ops')
  <2>1. DOMAIN ops' = 1 .. Len(ops) + 1
    BY <1>11, SequenceFacts
  <2>2. ASSUME NEW i \in DOMAIN ops'
        PROVE  ops'[i].op # "End" /\ Typed(ops'[i])
    <3>1. CASE i \in 1 .. Len(ops)
      BY <1>3, <1>9, <1>11, <3>1 DEF Closed
    <3>2. CASE i = Len(ops) + 1
      BY <1>7, <1>11, <3>2 DEF GoodPlaced
    <3> QED BY <1>3, <2>1, <3>1, <3>2
  <2> QED BY <1>11, <2>2 DEF Closed
<1>15. BindsFirst(ops', Before')
  BY <1>8, <1>9, <1>11, <1>13
<1>16. Frames'
  <2>1. Len(ops') \in Nat /\ Len(ops) <= Len(ops')
    BY <1>3, <1>11
  <2> QED BY <1>1, <1>2, <2>1, FramesShrink
<1>17. /\ Len(scopes') = Len(scopes) /\ DOMAIN scopes' = DOMAIN scopes
       /\ \A n \in DOMAIN scopes :
            /\ scopes'[n].not = scopes[n].not /\ scopes'[n].start = scopes[n].start
            /\ scopes'[n].todo = IF n = Len(scopes) THEN scopes[n].todo \ {j} ELSE scopes[n].todo
  BY <1>1, WithoutFacts
<1>18. \A n \in DOMAIN scopes' : CutAt(ops', scopes'[n].start)
  <2>1. \A n \in DOMAIN scopes : scopes[n].start \in 0 .. Len(ops)
    BY <1>3 DEF IInv, Frames, Frame
  <2> QED BY <1>11, <1>17, <2>1 DEF IInv
<1>19. Negations'
  <2>1. ASSUME NEW n \in 2 .. Len(scopes)
        PROVE  Required(List, scopes[n].not) \subseteq provided'
    BY <1>8, <2>1 DEF IInv, Negations
  <2>2. ASSUME NEW n \in 2 .. Len(scopes)
        PROVE  Writes(op) \subseteq Own(List, scopes[n].not)
    <3>1. n \in DOMAIN scopes /\ n <= Len(scopes)
      BY <1>3
    <3>2. j \in scopes[n].not + 1 .. BodyEnd(List, scopes[n].not)
      <4>1. /\ j \in Scope.not + 1 .. BodyEnd(List, Scope.not)
            /\ Scope.not \in Nat /\ BodyEnd(List, Scope.not) \in Nat
        BY <1>3, <1>4, <1>5, BodyFacts
      <4>2. scopes[n].not \in Nat /\ BodyEnd(List, scopes[n].not) \in Nat
        BY <1>3, <3>1, BodyFacts
      <4>3. scopes[n].not <= Scope.not /\ BodyEnd(List, Scope.not) <= BodyEnd(List, scopes[n].not)
        BY <1>3, <1>4, <3>1 DEF IInv, Frames
      <4> QED BY <4>1, <4>2, <4>3
    <3>3. List[scopes[n].not].op = "Not"
      BY <1>3, <3>1 DEF IInv, Frames
    <3>4. Mentioned(List[j]) \subseteq MentionedIn(List, Under(List, scopes[n].not))
      <4>1. j \in Under(List, scopes[n].not)
        BY <3>2, <3>3 DEF Under
      <4> QED BY <1>5, <4>1, InMentioned
    <3>5. Required(List, scopes[n].not) \subseteq provided
      BY DEF IInv, Negations
    <3> QED BY <1>7, <3>4, <3>5 DEF GoodPlaced, Own, Required
  <2>3. ASSUME NEW n \in 2 .. Len(scopes), NEW i \in scopes[n].start + 1 .. Len(ops')
        PROVE  Writes(ops'[i]) \subseteq Own(List, scopes[n].not)
    <3>1. n \in DOMAIN scopes /\ scopes[n].start \in Nat
      BY <1>3 DEF Frame
    <3>2. CASE i \in scopes[n].start + 1 .. Len(ops)
      <4>1. ops'[i] = ops[i]
        BY <1>3, <1>11, <3>1, <3>2
      <4> QED BY <3>2, <4>1 DEF IInv, Negations
    <3>3. CASE i = Len(ops')
      BY <1>11, <2>2, <3>3
    <3> QED BY <1>3, <1>11, <3>1, <3>2, <3>3
  <2>4. \A n \in 2 .. Len(scopes) : n \in DOMAIN scopes
    BY <1>3
  <2> QED BY <1>8, <1>17, <2>1, <2>3, <2>4 DEF Negations
<1>20. BoundIn(ops, Before) \cup Writes(op) \subseteq BoundIn(ops', Before')
  BY <1>8, <1>11
<1>21. Waiting'
  <2>1. ASSUME NEW n \in DOMAIN scopes, NEW k \in scopes'[n].todo
        PROVE  MentionedIn(List, Under(List, k)) \cap provided' \subseteq BoundIn(ops', Before')
    <3>1. k \in scopes[n].todo
      BY <1>17
    <3>2. MentionedIn(List, Under(List, k)) \cap provided \subseteq BoundIn(ops, Before)
      BY <3>1 DEF IInv, Waiting
    <3> QED BY <1>8, <1>20, <3>2
  <2> QED BY <1>8, <1>17, <2>1 DEF Waiting
<1>22. WaitingLists'
  <2>1. ASSUME NEW m \in 2 .. Len(rule)
        PROVE  MentionedIn(rule[m], DOMAIN rule[m]) \cap (IF at = 1 THEN provided' ELSE given)
                 \subseteq IF at = 1 THEN BoundIn(ops', Inputs) ELSE Visible(compiled[1])
    <3>1. MentionedIn(rule[m], DOMAIN rule[m]) \cap (IF at = 1 THEN provided ELSE given)
            \subseteq IF at = 1 THEN BoundIn(ops, Inputs) ELSE Visible(compiled[1])
      BY DEF IInv, WaitingLists
    <3>2. CASE at = 1
      <4>1. BoundIn(ops, Inputs) \cup Writes(op) \subseteq BoundIn(ops', Inputs)
        BY <1>11
      <4> QED BY <1>8, <3>1, <3>2, <4>1
    <3>3. CASE at # 1
      BY <3>1, <3>3
    <3> QED BY <3>2, <3>3
  <2> QED BY <1>2, <2>1 DEF WaitingLists
<1>23. Placed'
  <2>1. ASSUME NEW n \in DOMAIN scopes, NEW k \in Body(List, scopes[n].not) \ scopes'[n].todo,
               List[k].op # "Not"
        PROVE  Provides(List[k]) \subseteq provided'
    <3>1. CASE k \notin scopes[n].todo
      BY <1>8, <2>1, <3>1 DEF IInv, Placed
    <3>2. CASE k \in scopes[n].todo
      <4>1. k = j
        BY <1>17, <2>1, <3>2
      <4> QED BY <1>7, <1>8, <4>1 DEF GoodPlaced
    <3> QED BY <3>1, <3>2
  <2> QED BY <1>8, <1>17, <2>1 DEF Placed
<1>24. Finished'
  BY <1>2 DEF IInv, Finished
<1>25. BoundIn(ops', Before') \subseteq provided' /\ Before' \subseteq given'
  BY <1>2, <1>8, <1>11 DEF IInv
<1>26. \A b \in DOMAIN ops' : IsBegin(ops', b) => ops'[b].index < nextIndex'
  BY <1>2, <1>11 DEF IInv
<1> QED BY <1>2, <1>8, <1>14, <1>15, <1>16, <1>18, <1>19, <1>21, <1>22, <1>23, <1>24, <1>25, <1>26 DEF IInv

\* A negation that is entered waits for no more than it did as a whole.
LEMMA EnterNotKeeps ==
  ASSUME IInv, EnterNot, rule' = rule
  PROVE  IInv'
<1>1. PICK j \in Scope.todo :
        /\ List[j].op = "Not" /\ Ready(j)
        /\ scopes' = Append(Without(j), [not |-> j, start |-> Len(ops), todo |-> ToOrder(List, j)])
  BY Zenon DEF EnterNot
<1> DEFINE f == [not |-> j, start |-> Len(ops), todo |-> ToOrder(List, j)]
           t == Without(j)
           N == Len(scopes)
<1>2. /\ pc = "order" /\ pc' = "order" /\ at' = at /\ given' = given /\ nextIndex' = nextIndex
      /\ compiled' = compiled /\ ops' = ops /\ provided' = provided
  BY DEF EnterNot
<1>3. /\ IsList(List)
      /\ N \in Nat \ {0} /\ DOMAIN scopes = 1 .. N
      /\ Scope = scopes[N]
      /\ Len(ops) \in Nat /\ DOMAIN ops = 1 .. Len(ops)
      /\ \A n \in DOMAIN scopes :
           /\ scopes[n] \in Frame
           /\ scopes[n].not \in {0} \cup DOMAIN List
           /\ scopes[n].not = 0 \/ List[scopes[n].not].op = "Not"
           /\ \A k \in scopes[n].todo : k \in DOMAIN List /\ k \in Body(List, scopes[n].not)
  BY FrameFacts
<1>4. N \in DOMAIN scopes
  BY <1>3
<1>5. j \in DOMAIN List /\ j \in Body(List, scopes[N].not) /\ j \in scopes[N].todo
  BY <1>1, <1>3, <1>4
<1>6. /\ j \in Nat /\ BodyEnd(List, j) \in Nat
      /\ \A k \in Body(List, j) :
           /\ k \in Nat /\ k \in DOMAIN List
           /\ Under(List, k) \subseteq Under(List, j)
  BY <1>1, <1>3, <1>5, BodyFacts DEF Under
<1>7. /\ scopes[N].not <= j /\ BodyEnd(List, j) <= BodyEnd(List, scopes[N].not)
      /\ \A n \in DOMAIN scopes : scopes[n].not \in Nat /\ BodyEnd(List, scopes[n].not) \in Nat
  <2>1. ASSUME NEW n \in DOMAIN scopes
        PROVE  /\ scopes[n].not \in Nat /\ BodyEnd(List, scopes[n].not) \in Nat
               /\ \A k \in Body(List, scopes[n].not) :
                    /\ k \in scopes[n].not + 1 .. BodyEnd(List, scopes[n].not)
                    /\ List[k].op = "Not" => BodyEnd(List, k) \in k .. BodyEnd(List, scopes[n].not)
    <3>1. /\ scopes[n].not \in {0} \cup DOMAIN List
          /\ scopes[n].not = 0 \/ List[scopes[n].not].op = "Not"
      BY <1>3
    <3>2. /\ scopes[n].not \in Nat
          /\ BodyEnd(List, scopes[n].not) \in scopes[n].not .. Len(List)
          /\ \A k \in Body(List, scopes[n].not) :
                    /\ k \in scopes[n].not + 1 .. BodyEnd(List, scopes[n].not)
                    /\ List[k].op = "Not" => BodyEnd(List, k) \in k .. BodyEnd(List, scopes[n].not)
      BY <1>3, <3>1, BodyFacts
    <3> QED BY <3>2
  <2>2. /\ scopes[N].not \in Nat /\ BodyEnd(List, scopes[N].not) \in Nat
        /\ j \in scopes[N].not + 1 .. BodyEnd(List, scopes[N].not)
        /\ BodyEnd(List, j) \in j .. BodyEnd(List, scopes[N].not)
    BY <1>1, <1>4, <1>5, <2>1
  <2> QED BY <2>1, <2>2
<1>8. f \in Frame /\ f.not = j /\ f.start = Len(ops) /\ f.todo = ToOrder(List, j)
  <2>1. ToOrder(List, j) \in SUBSET Nat
    BY <1>6, ToOrderFacts
  <2> QED BY <1>3, <1>6, <2>1 DEF Frame
<1>9. /\ t \in Seq(Frame) /\ t # <<>> /\ Len(t) = N /\ DOMAIN t = DOMAIN scopes
      /\ \A n \in DOMAIN scopes :
           /\ t[n].not = scopes[n].not /\ t[n].start = scopes[n].start
           /\ t[n].todo = IF n = N THEN scopes[n].todo \ {j} ELSE scopes[n].todo
  BY WithoutFacts
<1>10. List' = List /\ Before' = Before /\ scopes' = Append(t, f)
  BY <1>1, <1>2 DEF List, Before
<1> HIDE DEF f, t, N
<1>11. /\ scopes' \in Seq(Frame) /\ Len(scopes') = N + 1
       /\ \A n \in 1 .. N : scopes'[n] = t[n]
       /\ scopes'[N + 1] = f
  BY ONLY <1>8, <1>9, <1>10
<1>12. /\ scopes' # <<>> /\ DOMAIN scopes' = 1 .. N + 1
       /\ \A n \in 1 .. N :
            /\ n \in DOMAIN scopes
            /\ scopes'[n].not = scopes[n].not /\ scopes'[n].start = scopes[n].start
            /\ scopes'[n].todo = IF n = N THEN scopes[n].todo \ {j} ELSE scopes[n].todo
  <2>1. Len(scopes') # 0
    BY <1>3, <1>11
  <2>2. DOMAIN scopes' = 1 .. Len(scopes')
    BY <1>11, LenProperties
  <2> QED BY <1>3, <1>9, <1>11, <2>1, <2>2, NoOperations
<1>13. \A n \in DOMAIN scopes' : n \in 1 .. N \/ n = N + 1
  BY <1>3, <1>12
<1>14. Frames'
  <2>1. scopes'[1].not = 0
    <3>1. 1 \in 1 .. N /\ scopes[1].not = 0
      BY <1>3 DEF IInv, Frames
    <3> QED BY <1>12, <3>1
  <2>2. ASSUME NEW n \in DOMAIN scopes'
        PROVE  /\ scopes'[n].todo \subseteq Body(List, scopes'[n].not)
               /\ scopes'[n].start <= Len(ops)
               /\ n > 1 => scopes'[n].not \in DOMAIN List /\ List[scopes'[n].not].op = "Not"
    <3>1. CASE n \in 1 .. N
      <4>1. /\ scopes[n].todo \subseteq Body(List, scopes[n].not)
            /\ scopes[n].start <= Len(ops)
            /\ n > 1 => scopes[n].not \in DOMAIN List /\ List[scopes[n].not].op = "Not"
        BY <1>12, <3>1 DEF IInv, Frames
      <4> QED BY <1>12, <3>1, <4>1
    <3>2. CASE n = N + 1
      BY <1>1, <1>3, <1>5, <1>8, <1>11, <3>2, ToOrderFacts
    <3> QED BY <1>13, <3>1, <3>2
  <2>3. ASSUME NEW n \in 1 .. Len(scopes') - 1
        PROVE  scopes'[n + 1].not \in Body(List, scopes'[n].not) \ scopes'[n].todo
    <3>1. CASE n = N
      <4>1. scopes'[n + 1].not = j
        BY <1>8, <1>11, <3>1
      <4>2. N \in 1 .. N
        BY <1>3
      <4>3. scopes'[N].not = scopes[N].not /\ scopes'[N].todo = scopes[N].todo \ {j}
        BY <1>12, <4>2
      <4> QED BY <1>5, <3>1, <4>1, <4>3
    <3>2. CASE n # N
      <4>1. n \in 1 .. N - 1 /\ n \in 1 .. N /\ n + 1 \in 1 .. N
        BY <1>3, <1>11, <3>2
      <4>2. scopes[n + 1].not \in Body(List, scopes[n].not) \ scopes[n].todo
        BY <4>1 DEF IInv, Frames, N
      <4> QED BY <1>12, <4>1, <4>2
    <3> QED BY <3>1, <3>2
  <2>4. ASSUME NEW n \in DOMAIN scopes', NEW m \in DOMAIN scopes', n <= m
        PROVE  /\ scopes'[n].start <= scopes'[m].start
               /\ scopes'[n].not <= scopes'[m].not
               /\ BodyEnd(List, scopes'[m].not) <= BodyEnd(List, scopes'[n].not)
    <3>1. CASE m \in 1 .. N
      <4>1. n \in 1 .. N
        BY <1>3, <1>12, <2>4, <3>1
      <4> QED BY <1>12, <2>4, <3>1, <4>1 DEF IInv, Frames
    <3>2. CASE n \in 1 .. N /\ m = N + 1
      <4>1. scopes'[m].start = Len(ops) /\ scopes'[m].not = j
        BY <1>8, <1>11, <3>2
      <4>2. /\ scopes[n].start <= Len(ops)
            /\ scopes[n].not <= scopes[N].not
            /\ BodyEnd(List, scopes[N].not) <= BodyEnd(List, scopes[n].not)
        <5>1. n <= N
          BY <1>3, <3>2
        <5> QED BY <1>4, <1>12, <3>2, <5>1 DEF IInv, Frames
      <4>3. scopes'[n].start = scopes[n].start /\ scopes'[n].not = scopes[n].not
        BY <1>12, <3>2
      <4>4. /\ scopes[n].not \in Nat /\ scopes[N].not \in Nat
            /\ BodyEnd(List, scopes[n].not) \in Nat /\ BodyEnd(List, scopes[N].not) \in Nat
        BY <1>4, <1>7, <1>12, <3>2
      <4>5. scopes[n].not <= j /\ BodyEnd(List, j) <= BodyEnd(List, scopes[n].not)
        BY <1>6, <1>7, <4>2, <4>4
      <4> QED BY <4>1, <4>2, <4>3, <4>5
    <3>3. CASE n = N + 1 /\ m = N + 1
      BY <1>3, <1>6, <1>8, <1>11, <3>3
    <3> QED BY <1>13, <3>1, <3>2, <3>3
  <2> QED BY <1>2, <1>10, <1>11, <1>12, <2>1, <2>2, <2>3, <2>4 DEF Frames
<1>15. ASSUME NEW n \in DOMAIN scopes'
       PROVE  CutAt(ops, scopes'[n].start)
  <2>1. CASE n \in 1 .. N
    BY <1>12, <2>1 DEF IInv
  <2>2. CASE n = N + 1
    <3>1. CutAt(ops, Len(ops))
      BY <1>3 DEF IInv, Closed, ScopeEnds, CutAt
    <3> QED BY <1>8, <1>11, <2>2, <3>1
  <2> QED BY <1>13, <2>1, <2>2
<1>16. Negations'
  <2>1. ASSUME NEW n \in 2 .. Len(scopes')
        PROVE  /\ Required(List, scopes'[n].not) \subseteq provided
               /\ \A i \in scopes'[n].start + 1 .. Len(ops) : Writes(ops[i]) \subseteq Own(List, scopes'[n].not)
    <3>1. CASE n \in 1 .. N
      <4>1. n \in 2 .. Len(scopes)
        BY <3>1 DEF N
      <4> QED BY <1>12, <3>1, <4>1 DEF IInv, Negations
    <3>2. CASE n = N + 1
      <4>1. scopes'[n].not = j /\ scopes'[n].start = Len(ops)
        BY <1>8, <1>11, <3>2
      <4>2. Required(List, j) \subseteq provided
        BY <1>1 DEF Ready
      <4> QED BY <1>3, <4>1, <4>2
    <3> QED BY <1>3, <1>11, <3>1, <3>2
  <2> QED BY <1>2, <1>10, <2>1 DEF Negations
<1>17. Waiting'
  <2>1. ASSUME NEW n \in DOMAIN scopes', NEW k \in scopes'[n].todo
        PROVE  MentionedIn(List, Under(List, k)) \cap provided \subseteq BoundIn(ops, Before)
    <3>1. CASE n \in 1 .. N
      <4>1. k \in scopes[n].todo /\ n \in DOMAIN scopes
        BY <1>12, <3>1
      <4> QED BY <4>1 DEF IInv, Waiting
    <3>2. CASE n = N + 1
      <4>1. Under(List, k) \subseteq Under(List, j)
        BY <1>6, <1>8, <1>11, <3>2, ToOrderFacts
      <4>2. MentionedIn(List, Under(List, j)) \cap provided \subseteq BoundIn(ops, Before)
        BY <1>4, <1>5 DEF IInv, Waiting
      <4> QED BY <4>1, <4>2, MentionedMore
    <3> QED BY <1>13, <3>1, <3>2
  <2> QED BY <1>2, <1>10, <2>1 DEF Waiting
<1>18. Placed'
  <2>1. ASSUME NEW n \in DOMAIN scopes', NEW k \in Body(List, scopes'[n].not) \ scopes'[n].todo,
               List[k].op # "Not"
        PROVE  Provides(List[k]) \subseteq provided
    <3>1. CASE n \in 1 .. N
      <4>1. k # j
        BY <1>1, <2>1
      <4>2. k \in Body(List, scopes[n].not) \ scopes[n].todo /\ n \in DOMAIN scopes
        BY <1>12, <3>1, <4>1
      <4> QED BY <2>1, <4>2 DEF IInv, Placed
    <3>2. CASE n = N + 1
      BY <1>8, <1>11, <3>2, ToOrderFacts
    <3> QED BY <1>13, <3>1, <3>2
  <2> QED BY <1>2, <1>10, <2>1 DEF Placed
<1>19. Closed(ops') /\ BindsFirst(ops', Before')
  BY <1>2, <1>10 DEF IInv
<1>20. Finished' /\ WaitingLists'
  BY <1>2 DEF IInv, Finished, WaitingLists
<1>21. /\ BoundIn(ops', Before') \subseteq provided' /\ Before' \subseteq given'
       /\ \A b \in DOMAIN ops' : IsBegin(ops', b) => ops'[b].index < nextIndex'
  BY <1>2, <1>10 DEF IInv
<1> QED BY <1>2, <1>10, <1>14, <1>15, <1>16, <1>17, <1>18, <1>19, <1>20, <1>21 DEF IInv

LEMMA Enclosed ==
  ASSUME NEW p, IsSequence(p), NEW s \in 0 .. Len(p), NEW index, NEW begin, NEW end,
         end = [op |-> "EndNot", index |-> index],
         begin = [op |-> "BeginNot", index |-> index,
                  sequence_len |-> Len(Append(SubSeq(p, s + 1, Len(p)), end))],
         NEW q, q = SubSeq(p, 1, s) \o <<begin>> \o Append(SubSeq(p, s + 1, Len(p)), end)
  PROVE  Encloses(q, p, s, index, begin, end)
<1>1. Surrounds(q, p, s, begin, end)
  BY ONLY IsSequence(p), s \in 0 .. Len(p), Enclosing,
          q = SubSeq(p, 1, s) \o <<begin>> \o Append(SubSeq(p, s + 1, Len(p)), end)
<1>2. Len(Append(SubSeq(p, s + 1, Len(p)), end)) = Len(p) - s + 1
  BY BodyLength
<1>3. begin = [op |-> "BeginNot", index |-> index, sequence_len |-> Len(p) - s + 1]
  BY ONLY <1>2,
          begin = [op |-> "BeginNot", index |-> index,
                   sequence_len |-> Len(Append(SubSeq(p, s + 1, Len(p)), end))]
<1>4. /\ begin.op = "BeginNot" /\ begin.index = index /\ begin.sequence_len = Len(p) - s + 1
      /\ end.op = "EndNot" /\ end.index = index
  BY ONLY <1>3, end = [op |-> "EndNot", index |-> index]
<1>5. /\ Typed(begin) /\ Reads(begin) = {} /\ Writes(begin) = {}
      /\ Typed(end) /\ Reads(end) = {} /\ Writes(end) = {}
  BY ONLY <1>3, end = [op |-> "EndNot", index |-> index], Delimiters
<1>6. \A op \in {begin, end} : Typed(op) /\ Reads(op) = {} /\ Writes(op) = {}
  BY ONLY <1>5
<1> QED BY ONLY <1>1, <1>4, <1>6 DEF Encloses

\* The slots of a negation are mentioned nowhere else.
LEMMA OwnIsSealed ==
  ASSUME IInv, NEW i \in DOMAIN List, List[i].op = "Not"
  PROVE  /\ \A S \in SUBSET (DOMAIN List) : S \cap Under(List, i) = {} =>
              Own(List, i) \cap MentionedIn(List, S) = {}
         /\ at = 1 => \A m \in 2 .. Len(rule) :
              Own(List, i) \cap MentionedIn(rule[m], DOMAIN rule[m]) = {}
<1>1. at \in DOMAIN rule /\ DOMAIN rule = 1 .. Len(rule) /\ Len(rule) \in Nat /\ Sealed(rule)
  BY SequenceFacts DEF IInv, IsRule, IsSequence
<1>2. /\ Own(List, i) \cap MentionedIn(List, DOMAIN List \ Under(List, i)) = {}
      /\ at = 1 => \A m \in DOMAIN rule \ {1} :
           Own(List, i) \cap MentionedIn(rule[m], DOMAIN rule[m]) = {}
  BY <1>1 DEF Sealed, List
<1>3. ASSUME NEW S \in SUBSET (DOMAIN List), S \cap Under(List, i) = {}
      PROVE  Own(List, i) \cap MentionedIn(List, S) = {}
  <2>1. S \subseteq DOMAIN List \ Under(List, i)
    BY <1>3
  <2>2. MentionedIn(List, S) \subseteq MentionedIn(List, DOMAIN List \ Under(List, i))
    BY <2>1, MentionedMore
  <2> QED BY <1>2, <2>2
<1>4. \A m \in 2 .. Len(rule) : m \in DOMAIN rule \ {1}
  BY <1>1
<1> QED BY <1>2, <1>3, <1>4

\* Leaving a scope, the frames but for the innermost stay.
LEMMA FrontFacts ==
  ASSUME IInv, Len(scopes) > 1
  PROVE  LET t == Front(scopes) IN
         /\ t \in Seq(Frame) /\ t # <<>> /\ Len(t) = Len(scopes) - 1
         /\ DOMAIN t = 1 .. Len(scopes) - 1
         /\ \A n \in 1 .. Len(scopes) - 1 : t[n] = scopes[n]
<1> DEFINE t == Front(scopes)
           N == Len(scopes)
<1>1. N \in Nat /\ scopes \in Seq(Frame) /\ DOMAIN scopes = 1 .. N /\ N > 1
  BY FrameFacts DEF IInv, Frames
<1>2. \A n \in 1 .. N - 1 : scopes[n] \in Frame
  BY <1>1, ElementOfSeq
<1>3. t = SubSeq(scopes, 1, N - 1)
  BY DEF Front
<1> HIDE DEF t, N
<1>4. /\ t \in Seq(Frame) /\ Len(t) = IF 1 <= N - 1 THEN (N - 1) - 1 + 1 ELSE 0
      /\ \A n \in 1 .. (N - 1) - 1 + 1 : t[n] = scopes[1 + n - 1]
  <2>1. 1 \in Int /\ N - 1 \in Int
    BY <1>1
  <2> QED BY ONLY <1>1, <1>2, <1>3, <2>1, SubSeqProperties
<1>5. Len(t) = N - 1
  BY <1>1, <1>4
<1>6. \A n \in 1 .. N - 1 : t[n] = scopes[n]
  <2> TAKE n \in 1 .. N - 1
  <2>1. n \in 1 .. (N - 1) - 1 + 1 /\ 1 + n - 1 = n
    BY <1>1
  <2> QED BY <1>4, <2>1, Zenon
<1>7. DOMAIN t = 1 .. N - 1
  BY <1>4, <1>5, LenProperties
<1>8. t # <<>>
  BY <1>1, <1>5, NoOperations
<1> QED BY <1>4, <1>5, <1>6, <1>7, <1>8 DEF t, N

\* A scope that is closed binds nothing for what is outside, and nothing outside
\* mentions what it has bound.
LEMMA LeaveNotKeeps ==
  ASSUME IInv, LeaveNot, rule' = rule
  PROVE  IInv'
<1> DEFINE N == Len(scopes)
           i0 == Scope.not
           s == Scope.start
<1>1. /\ pc = "order" /\ pc' = "order" /\ at' = at /\ given' = given /\ nextIndex' = nextIndex + 1
      /\ compiled' = compiled /\ provided' = provided
      /\ N > 1 /\ Scope.todo = {} /\ scopes' = Front(scopes)
  BY DEF LeaveNot
<1>2. /\ IsList(List)
      /\ N \in Nat \ {0} /\ DOMAIN scopes = 1 .. N
      /\ Scope = scopes[N]
      /\ Len(ops) \in Nat /\ DOMAIN ops = 1 .. Len(ops)
      /\ \A n \in DOMAIN scopes :
           /\ scopes[n] \in Frame
           /\ scopes[n].not \in {0} \cup DOMAIN List
           /\ scopes[n].not = 0 \/ List[scopes[n].not].op = "Not"
           /\ \A k \in scopes[n].todo : k \in DOMAIN List /\ k \in Body(List, scopes[n].not)
  BY FrameFacts
<1>3. N \in DOMAIN scopes /\ i0 = scopes[N].not /\ s = scopes[N].start
  BY <1>2
<1>4. s \in 0 .. Len(ops) /\ i0 \in DOMAIN List /\ List[i0].op = "Not"
  <2>1. /\ scopes[N].start <= Len(ops)
        /\ scopes[N].not \in DOMAIN List /\ List[scopes[N].not].op = "Not"
    BY <1>1, <1>3 DEF IInv, Frames
  <2>2. scopes[N].start \in Nat
    BY <1>2, <1>3 DEF Frame
  <2> QED BY <1>2, <1>3, <2>1, <2>2
<1>5. IsSequence(ops) /\ Closed(ops) /\ BindsFirst(ops, Before) /\ CutAt(ops, s) /\ nextIndex \in Nat
  BY <1>3 DEF IInv, Closed
<1>6. PICK begin, end : Encloses(ops', ops, s, nextIndex, begin, end)
  <2> DEFINE end == [op |-> "EndNot", index |-> nextIndex]
             body == Append(SubSeq(ops, s + 1, Len(ops)), end)
             begin == [op |-> "BeginNot", index |-> nextIndex, sequence_len |-> Len(body)]
  <2>1. ops' = SubSeq(ops, 1, s) \o <<begin>> \o body
    BY Zenon DEF LeaveNot
  <2>2. Encloses(ops', ops, s, nextIndex, begin, end)
    BY ONLY <1>4, <1>5, <2>1, Enclosed
  <2> QED BY <2>2
<1> HIDE DEF N, i0, s
<1>7. /\ Closed(ops') /\ Len(ops') = Len(ops) + 2
      /\ \A i \in 1 .. s : ops'[i] = ops[i]
      /\ \A i \in s + 1 .. Len(ops') :
           Writes(ops'[i]) = {} \/ \E k \in s + 1 .. Len(ops) : ops'[i] = ops[k]
      /\ \A before : \A x \in BoundIn(ops, before) :
           x \in BoundIn(ops', before) \/ \E k \in s + 1 .. Len(ops) : x \in Writes(ops[k])
      /\ \A before : BoundIn(ops', before) \subseteq BoundIn(ops, before)
      /\ \A b \in DOMAIN ops' : IsBegin(ops', b) => ops'[b].index < nextIndex + 1
      /\ \A before : BindsFirst(ops, before) => BindsFirst(ops', before)
      /\ \A r \in 0 .. s : CutAt(ops, r) => CutAt(ops', r)
  <2>1. \A b \in DOMAIN ops : IsBegin(ops, b) => ops[b].index < nextIndex
    BY DEF IInv
  <2> QED BY ONLY <1>4, <1>5, <1>6, <2>1, ScopeClosed
<1>8. /\ scopes' \in Seq(Frame) /\ scopes' # <<>> /\ Len(scopes') = N - 1
      /\ DOMAIN scopes' = 1 .. N - 1
      /\ \A n \in 1 .. N - 1 : scopes'[n] = scopes[n]
  BY <1>1, FrontFacts DEF N
<1>9. \A n \in 1 .. N - 1 : n \in DOMAIN scopes /\ n <= N /\ n + 1 \in DOMAIN scopes /\ n + 1 <= N
  BY <1>2
<1>10. List' = List /\ Before' = Before
  BY <1>1 DEF List, Before
<1>11. ASSUME NEW n \in 1 .. N - 1
       PROVE  scopes[n].start \in 0 .. s
  <2>1. scopes[n].start <= scopes[N].start
    BY <1>3, <1>9 DEF IInv, Frames
  <2>2. scopes[n].start \in Nat
    BY <1>2, <1>9 DEF Frame
  <2> QED BY <1>3, <1>4, <2>1, <2>2
<1>12. \A k \in s + 1 .. Len(ops) : Writes(ops[k]) \subseteq Own(List, i0)
  <2>1. N \in 2 .. Len(scopes)
    BY <1>1, <1>2 DEF N
  <2> QED BY <1>3, <2>1 DEF IInv, Negations
<1>13. Frames'
  <2>1. Frames
    BY DEF IInv
  <2>2. scopes'[1].not = 0
    <3>1. 1 \in 1 .. N - 1 /\ scopes[1].not = 0
      BY <1>1, <1>2, <2>1 DEF Frames
    <3> QED BY <1>8, <3>1
  <2>3. ASSUME NEW n \in 1 .. N - 1
        PROVE  /\ scopes'[n].todo \subseteq Body(List, scopes'[n].not)
               /\ scopes'[n].start <= Len(ops')
               /\ n > 1 => scopes'[n].not \in DOMAIN List /\ List[scopes'[n].not].op = "Not"
    <3>1. /\ scopes[n].todo \subseteq Body(List, scopes[n].not)
          /\ scopes[n].start <= Len(ops)
          /\ n > 1 => scopes[n].not \in DOMAIN List /\ List[scopes[n].not].op = "Not"
      BY <1>9, <2>1 DEF Frames
    <3>2. scopes[n].start <= Len(ops')
      BY <1>2, <1>7, <1>11, <3>1
    <3> QED BY <1>8, <3>1, <3>2
  <2>4. ASSUME NEW n \in 1 .. Len(scopes') - 1
        PROVE  scopes'[n + 1].not \in Body(List, scopes'[n].not) \ scopes'[n].todo
    <3>1. n \in 1 .. N - 1 /\ n + 1 \in 1 .. N - 1
      BY <1>2, <1>8
    <3>2. scopes[n + 1].not \in Body(List, scopes[n].not) \ scopes[n].todo
      BY <2>1, <3>1 DEF Frames, N
    <3> QED BY <1>8, <3>1, <3>2
  <2>5. ASSUME NEW n \in 1 .. N - 1, NEW m \in 1 .. N - 1, n <= m
        PROVE  /\ scopes'[n].start <= scopes'[m].start
               /\ scopes'[n].not <= scopes'[m].not
               /\ BodyEnd(List, scopes'[m].not) <= BodyEnd(List, scopes'[n].not)
    BY <1>8, <1>9, <2>1, <2>5 DEF Frames
  <2> QED BY <1>8, <1>10, <2>2, <2>3, <2>4, <2>5 DEF Frames
<1>14. ASSUME NEW n \in DOMAIN scopes'
       PROVE  CutAt(ops', scopes'[n].start)
  <2>1. n \in 1 .. N - 1 /\ n \in DOMAIN scopes
    BY <1>8, <1>9
  <2>2. CutAt(ops, scopes[n].start)
    BY <2>1 DEF IInv
  <2> QED BY <1>7, <1>8, <1>11, <2>1, <2>2
<1>15. Negations'
  <2>1. ASSUME NEW n \in 2 .. N - 1
        PROVE  /\ Required(List, scopes'[n].not) \subseteq provided
               /\ \A i \in scopes'[n].start + 1 .. Len(ops') :
                    Writes(ops'[i]) \subseteq Own(List, scopes'[n].not)
    <3>1. n \in 1 .. N - 1 /\ n \in 2 .. Len(scopes) /\ scopes'[n] = scopes[n]
      BY <1>2, <1>8 DEF N
    <3>2. /\ Required(List, scopes[n].not) \subseteq provided
          /\ \A i \in scopes[n].start + 1 .. Len(ops) : Writes(ops[i]) \subseteq Own(List, scopes[n].not)
      BY <3>1 DEF IInv, Negations
    <3>3. scopes[n].start \in 0 .. s
      BY <1>11, <3>1
    <3>4. ASSUME NEW i \in scopes[n].start + 1 .. Len(ops')
          PROVE  Writes(ops'[i]) \subseteq Own(List, scopes[n].not)
      <4>1. CASE i \in 1 .. s
        <5>1. i \in scopes[n].start + 1 .. Len(ops) /\ ops'[i] = ops[i]
          BY <1>4, <1>7, <3>3, <4>1
        <5> QED BY <3>2, <5>1
      <4>2. CASE i \in s + 1 .. Len(ops')
        <5>1. CASE Writes(ops'[i]) = {}
          BY <5>1
        <5>2. CASE \E k \in s + 1 .. Len(ops) : ops'[i] = ops[k]
          <6>1. PICK k \in s + 1 .. Len(ops) : ops'[i] = ops[k]
            BY <5>2
          <6>2. k \in scopes[n].start + 1 .. Len(ops)
            BY <1>2, <1>4, <3>3
          <6> QED BY <3>2, <6>1, <6>2
        <5> QED BY <1>7, <4>2, <5>1, <5>2
      <4>3. i \in 1 .. s \/ i \in s + 1 .. Len(ops')
        BY <1>2, <1>4, <1>7, <3>3
      <4> QED BY <4>1, <4>2, <4>3
    <3> QED BY <3>1, <3>2, <3>4
  <2> QED BY <1>1, <1>8, <1>10, <2>1 DEF Negations
<1>16. Waiting'
  <2>1. ASSUME NEW n \in 1 .. N - 1, NEW m \in scopes[n].todo
        PROVE  MentionedIn(List, Under(List, m)) \cap provided \subseteq BoundIn(ops', Before)
    <3>1. MentionedIn(List, Under(List, m)) \cap provided \subseteq BoundIn(ops, Before)
      BY <1>9 DEF IInv, Waiting
    <3>2. Under(List, m) \cap Under(List, i0) = {}
      <4> DEFINE k == scopes[n + 1].not
      <4>1. k \in Body(List, scopes[n].not) \ scopes[n].todo
        BY DEF IInv, Frames, N
      <4>2. n \in DOMAIN scopes /\ n + 1 \in DOMAIN scopes /\ n + 1 <= N
        BY <1>9
      <4>3. m \in Body(List, scopes[n].not) /\ m # k
        BY <1>2, <4>1, <4>2
      <4>4. Under(List, m) \cap Under(List, k) = {}
        BY <1>2, <4>1, <4>2, <4>3, Apart
      <4>5. k <= i0 /\ BodyEnd(List, i0) <= BodyEnd(List, k)
        BY <1>3, <4>2 DEF IInv, Frames
      <4>6. k \in DOMAIN List /\ List[k].op = "Not"
        <5>1. n + 1 > 1
          OBVIOUS
        <5> QED BY <4>2, <5>1 DEF IInv, Frames
      <4> HIDE DEF k
      <4>7. k \in Nat /\ i0 \in Nat /\ BodyEnd(List, k) \in Nat /\ BodyEnd(List, i0) \in Nat
        BY <1>2, <1>4, <4>6, BodyFacts
      <4>8. Under(List, i0) \subseteq Under(List, k)
        BY <1>4, <4>5, <4>6, <4>7 DEF Under
      <4> QED BY <4>4, <4>8
    <3>3. Own(List, i0) \cap MentionedIn(List, Under(List, m)) = {}
      <4>1. Under(List, m) \in SUBSET (DOMAIN List)
        BY <1>2, <1>9, BodyFacts
      <4> QED BY <1>4, <3>2, <4>1, OwnIsSealed
    <3>4. ASSUME NEW x \in MentionedIn(List, Under(List, m)) \cap provided
          PROVE  x \in BoundIn(ops', Before)
      <4>1. x \in BoundIn(ops, Before) /\ x \notin Own(List, i0)
        BY <3>1, <3>3
      <4>2. ~\E k \in s + 1 .. Len(ops) : x \in Writes(ops[k])
        BY <1>12, <4>1
      <4> QED BY <1>7, <4>1, <4>2
    <3> QED BY <3>4
  <2> QED BY <1>1, <1>8, <1>10, <2>1 DEF Waiting
<1>17. WaitingLists'
  <2>1. ASSUME NEW m \in 2 .. Len(rule)
        PROVE  MentionedIn(rule[m], DOMAIN rule[m]) \cap (IF at = 1 THEN provided ELSE given)
                 \subseteq IF at = 1 THEN BoundIn(ops', Inputs) ELSE Visible(compiled[1])
    <3>1. MentionedIn(rule[m], DOMAIN rule[m]) \cap (IF at = 1 THEN provided ELSE given)
            \subseteq IF at = 1 THEN BoundIn(ops, Inputs) ELSE Visible(compiled[1])
      BY DEF IInv, WaitingLists
    <3>2. CASE at = 1
      <4>1. ASSUME NEW x \in MentionedIn(rule[m], DOMAIN rule[m]) \cap provided
            PROVE  x \in BoundIn(ops', Inputs)
        <5>1. x \in BoundIn(ops, Inputs)
          BY <3>1, <3>2
        <5>2. x \notin Own(List, i0)
          BY <1>4, <3>2, OwnIsSealed
        <5>3. ~\E k \in s + 1 .. Len(ops) : x \in Writes(ops[k])
          BY <1>12, <5>2
        <5> QED BY <1>7, <5>1, <5>3
      <4> QED BY <3>2, <4>1
    <3>3. CASE at # 1
      BY <3>1, <3>3
    <3> QED BY <3>2, <3>3
  <2> QED BY <1>1, <2>1 DEF WaitingLists
<1>18. Placed'
  BY <1>1, <1>8, <1>9, <1>10 DEF IInv, Placed
<1>19. Finished'
  BY <1>1 DEF IInv, Finished
<1>20. BindsFirst(ops', Before')
  BY <1>5, <1>7, <1>10
<1>21. nextIndex' \in Nat /\ \A b \in DOMAIN ops' : IsBegin(ops', b) => ops'[b].index < nextIndex'
  BY <1>1, <1>5, <1>7
<1>22. BoundIn(ops', Before') \subseteq provided' /\ Before' \subseteq given'
  BY <1>1, <1>7, <1>10 DEF IInv
<1> QED BY <1>1, <1>7, <1>13, <1>14, <1>15, <1>16, <1>17, <1>18, <1>19, <1>20, <1>21, <1>22 DEF IInv

LEMMA WholeFacts ==
  ASSUME NEW p, IsList(p)
  PROVE  /\ Whole(p) \in Seq(Frame) /\ Whole(p) # <<>>
         /\ Len(Whole(p)) = 1 /\ DOMAIN Whole(p) = {1}
         /\ Whole(p)[1].not = 0 /\ Whole(p)[1].start = 0 /\ Whole(p)[1].todo = ToOrder(p, 0)
<1> DEFINE f == [not |-> 0, start |-> 0, todo |-> ToOrder(p, 0)]
           t == <<f>>
<1>1. ToOrder(p, 0) \in SUBSET Nat
  <2>1. \A j \in Body(p, 0) : j \in DOMAIN p
    BY BodyFacts
  <2>2. DOMAIN p \subseteq Nat
    BY SequenceFacts DEF IsList, IsSequence
  <2> QED BY <2>1, <2>2, ToOrderFacts
<1>2. f \in Frame /\ f.not = 0 /\ f.start = 0 /\ f.todo = ToOrder(p, 0)
  BY <1>1 DEF Frame
<1>3. Whole(p) = t
  BY DEF Whole
<1> HIDE DEF f
<1>4. t \in Seq(Frame) /\ Len(t) = 1 /\ DOMAIN t = {1} /\ t[1] = f /\ t # <<>>
  BY <1>2
<1> QED BY <1>2, <1>3, <1>4

\* A list is begun with nothing placed, when what counts as bound of its slots is bound.
Begun ==
  /\ IsList(List)
  /\ ops = <<>> /\ scopes = Whole(List)
  /\ MentionedIn(List, DOMAIN List) \cap provided \subseteq Before

Ordering ==
  /\ Closed(ops) /\ BindsFirst(ops, Before) /\ BoundIn(ops, Before) = Before
  /\ \A b \in DOMAIN ops : IsBegin(ops, b) => ops[b].index < nextIndex
  /\ Frames
  /\ \A n \in DOMAIN scopes : CutAt(ops, scopes[n].start)
  /\ Negations /\ Waiting /\ Placed

LEMMA BegunGood == Begun => Ordering
<1> SUFFICES ASSUME Begun
             PROVE  Ordering
  OBVIOUS
<1>1. /\ IsList(List) /\ ops = <<>> /\ scopes = Whole(List)
      /\ MentionedIn(List, DOMAIN List) \cap provided \subseteq Before
  BY DEF Begun
<1>2. /\ scopes \in Seq(Frame) /\ scopes # <<>> /\ Len(scopes) = 1 /\ DOMAIN scopes = {1}
      /\ scopes[1].not = 0 /\ scopes[1].start = 0 /\ scopes[1].todo = ToOrder(List, 0)
  BY <1>1, WholeFacts
<1>3. IsSequence(ops) /\ Len(ops) = 0 /\ DOMAIN ops = {}
  BY <1>1, NoOperations
<1>4. Closed(ops) /\ BindsFirst(ops, Before) /\ BoundIn(ops, Before) = Before
  BY <1>3 DEF Closed, BindsFirst, Distinct, BoundIn
<1>5. BodyEnd(List, 0) \in Nat
  BY <1>1, BodyFacts
<1>6. Frames
  BY <1>2, <1>3, <1>5, ToOrderFacts DEF Frames
<1>7. \A n \in DOMAIN scopes : CutAt(ops, scopes[n].start)
  BY <1>2 DEF CutAt
<1>8. Negations
  BY <1>2 DEF Negations
<1>9. Waiting
  <2>1. ASSUME NEW j \in ToOrder(List, 0)
        PROVE  MentionedIn(List, Under(List, j)) \cap provided \subseteq BoundIn(ops, Before)
    <3>1. j \in Body(List, 0)
      BY ToOrderFacts
    <3>2. Under(List, j) \subseteq DOMAIN List
      BY <1>1, <3>1, BodyFacts
    <3>3. MentionedIn(List, Under(List, j)) \subseteq MentionedIn(List, DOMAIN List)
      BY <3>2, MentionedMore
    <3>4. Before \subseteq BoundIn(ops, Before)
      BY DEF BoundIn
    <3> QED BY <1>1, <3>3, <3>4
  <2> QED BY <1>2, <2>1 DEF Waiting
<1>10. Placed
  BY <1>2, ToOrderFacts DEF Placed
<1> QED BY <1>3, <1>4, <1>6, <1>7, <1>8, <1>9, <1>10 DEF Ordering

LEMMA BegunGoodNext == Begun' => Ordering'
BY BegunGood, PTL

\* The ordering of a rule starts with its select part.
Started ==
  /\ IsRule(rule)
  /\ at = 1 /\ given = Inputs /\ ops = <<>> /\ provided = Inputs
  /\ scopes = Whole(rule[1]) /\ nextIndex = 0 /\ compiled = <<>> /\ pc = "order"

LEMMA StartedGood == Started => IInv
<1> SUFFICES ASSUME Started
             PROVE  IInv
  OBVIOUS
<1>1. /\ at = 1 /\ given = Inputs /\ ops = <<>> /\ provided = Inputs
      /\ scopes = Whole(rule[1]) /\ nextIndex = 0 /\ compiled = <<>> /\ pc = "order"
  BY DEF Started
<1>2. IsRule(rule)
  BY DEF Started
<1>3. Len(rule) \in Nat \ {0} /\ DOMAIN rule = 1 .. Len(rule)
  BY <1>2, EmptySeq, LenProperties DEF IsRule
<1>4. at \in 1 .. Len(rule) /\ nextIndex \in Nat /\ Before = Inputs
  BY <1>1, <1>3 DEF Before
<1>5. Begun
  BY <1>1, <1>2, <1>3, <1>4 DEF Begun, List, IsRule
<1>6. Ordering
  BY <1>5, BegunGood
<1>7. WaitingLists
  <2>1. Inputs \subseteq BoundIn(ops, Inputs)
    BY DEF BoundIn
  <2> QED BY <1>1, <2>1 DEF WaitingLists
<1>8. Finished
  BY <1>1, NoOperations DEF Finished
<1> QED BY <1>1, <1>2, <1>4, <1>6, <1>7, <1>8 DEF IInv, Ordering

LEMMA InitGood == Init => IInv
<1>1. Init => Started
  BY RulesAssumption DEF Init, Started
<1> QED BY <1>1, StartedGood

\* A list that is finished is what the search relies on.
LEMMA ListFinished ==
  ASSUME NEW p, Closed(p), NEW before, BindsFirst(p, before),
         NEW q, q = Append(p, [op |-> "End"])
  PROVE  WellFormed(q) /\ BindsFirst(q, before) /\ Visible(q) = BoundIn(p, Inputs)
<1> DEFINE end == [op |-> "End"]
<1>1. end.op = "End" /\ Typed(end) /\ Reads(end) = {} /\ Writes(end) = {}
  BY Delimiters
<1>2. q = Append(p, end)
  OBVIOUS
<1> HIDE DEF end
<1>3. Prolongs(q, p, end)
  BY <1>1, <1>2, PlacedAtEnd
<1>4. /\ IsSequence(q) /\ Len(q) = Len(p) + 1 /\ q[Len(q)] = end
      /\ \A i \in 1 .. Len(p) : q[i] = p[i]
      /\ \A b \in DOMAIN q : IsBegin(q, b) => ScopeEnds(q, b) /\ q[b].index \in Nat
      /\ \A e \in DOMAIN q : q[e].op = "EndNot" => \E b \in 1 .. e - 1 : Closes(q, b, e)
      /\ Distinct(q)
      /\ BoundIn(q, Inputs) = BoundIn(p, Inputs) \cup Writes(end)
      /\ BindsFirst(p, before) /\ Reads(end) \subseteq BoundIn(p, before)
           /\ Writes(end) \cap BoundIn(p, before) = {}
         => BindsFirst(q, before)
  BY <1>3 DEF Prolongs
<1>5. Len(p) \in Nat /\ DOMAIN p = 1 .. Len(p) /\ DOMAIN q = 1 .. Len(p) + 1
  BY <1>4, SequenceFacts DEF Closed
<1>6. ASSUME NEW i \in DOMAIN q
      PROVE  Typed(q[i]) /\ (q[i].op = "End" <=> i = Len(q))
  <2>1. CASE i \in 1 .. Len(p)
    BY <1>4, <1>5, <2>1 DEF Closed
  <2>2. CASE i = Len(p) + 1
    BY <1>1, <1>4, <2>2
  <2> QED BY <1>5, <2>1, <2>2
<1>7. q # <<>>
  BY <1>4, <1>5, NoOperations
<1>8. WellFormed(q)
  BY <1>4, <1>6, <1>7 DEF WellFormed, Distinct
<1>9. Visible(q) = BoundIn(q, Inputs)
  BY DEF Visible, BoundIn
<1> QED BY <1>1, <1>4, <1>8, <1>9

\* The next list begins with what the lists before have bound for it.
LEMMA FinishListKeeps ==
  ASSUME IInv, FinishList, rule' = rule
  PROVE  IInv'
<1> DEFINE p == Append(ops, [op |-> "End"])
<1>1. /\ pc = "order" /\ Len(scopes) = 1 /\ Scope.todo = {} /\ nextIndex' = nextIndex
      /\ compiled' = Append(compiled, p)
      /\ given' = IF at = 1 THEN provided ELSE given
  BY DEF FinishList
<1>2. Closed(ops) /\ BindsFirst(ops, Before)
  BY DEF IInv
<1>3. WellFormed(p) /\ BindsFirst(p, Before) /\ Visible(p) = BoundIn(ops, Inputs)
  BY <1>2, ListFinished
<1> HIDE DEF p
<1>4. /\ IsRule(rule) /\ at \in 1 .. Len(rule) /\ Len(rule) \in Nat /\ DOMAIN rule = 1 .. Len(rule)
      /\ Inputs \subseteq given /\ given \subseteq provided
  BY SequenceFacts DEF IInv, IsRule, IsSequence
<1>5. /\ IsSequence(compiled) /\ Len(compiled) = at - 1 /\ DOMAIN compiled = 1 .. at - 1
      /\ \A n \in DOMAIN compiled :
           /\ WellFormed(compiled[n])
           /\ BindsFirst(compiled[n], IF n = 1 THEN Inputs ELSE Visible(compiled[1]))
  <2>1. IsSequence(compiled) /\ Len(compiled) = at - 1
    BY <1>1 DEF IInv, Finished
  <2> QED BY <2>1, SequenceFacts DEF IInv, Finished
<1>6. /\ IsSequence(compiled') /\ Len(compiled') = at /\ DOMAIN compiled' = 1 .. at
      /\ \A n \in 1 .. at - 1 : compiled'[n] = compiled[n]
      /\ compiled'[at] = p
  <2>1. /\ IsSequence(compiled') /\ Len(compiled') = Len(compiled) + 1
        /\ DOMAIN compiled' = 1 .. Len(compiled) + 1
        /\ \A n \in 1 .. Len(compiled) : compiled'[n] = compiled[n]
        /\ compiled'[Len(compiled) + 1] = p
    BY ONLY <1>1, <1>5, Appended
  <2>2. Len(compiled) + 1 = at
    BY <1>4, <1>5
  <2> QED BY <1>5, <2>1, <2>2
<1>7. compiled'[1] = IF at = 1 THEN p ELSE compiled[1]
  BY <1>4, <1>6
<1>8. ASSUME NEW n \in DOMAIN compiled'
      PROVE  /\ WellFormed(compiled'[n])
             /\ BindsFirst(compiled'[n], IF n = 1 THEN Inputs ELSE Visible(compiled'[1]))
  <2>1. CASE n \in 1 .. at - 1
    <3>1. at # 1
      BY <1>4, <2>1
    <3> QED BY <1>5, <1>6, <1>7, <2>1, <3>1
  <2>2. CASE n = at
    <3>1. CASE at = 1
      BY <1>3, <1>6, <2>2, <3>1 DEF Before
    <3>2. CASE at # 1
      BY <1>3, <1>6, <1>7, <2>2, <3>2 DEF Before
    <3> QED BY <3>1, <3>2
  <2> QED BY <1>4, <1>6, <2>1, <2>2
<1>9. ASSUME NEW m \in 2 .. Len(rule)
      PROVE  MentionedIn(rule[m], DOMAIN rule[m]) \cap given' \subseteq Visible(compiled'[1])
  <2>1. MentionedIn(rule[m], DOMAIN rule[m]) \cap (IF at = 1 THEN provided ELSE given)
          \subseteq IF at = 1 THEN BoundIn(ops, Inputs) ELSE Visible(compiled[1])
    BY DEF IInv, WaitingLists
  <2>2. CASE at = 1
    BY <1>1, <1>3, <1>7, <2>1, <2>2
  <2>3. CASE at # 1
    BY <1>1, <1>7, <2>1, <2>3
  <2> QED BY <2>2, <2>3
<1>10. Inputs \subseteq given' /\ nextIndex' \in Nat
  BY <1>1, <1>4 DEF IInv
<1>11. /\ Before \subseteq given /\ BoundIn(ops, Before) \subseteq provided
       /\ \A b \in DOMAIN ops : IsBegin(ops, b) => ops[b].index < nextIndex
  BY DEF IInv
<1>12. Visible(compiled'[1]) \subseteq given'
  <2>1. CASE at = 1
    BY <1>1, <1>3, <1>7, <1>11, <2>1 DEF Before
  <2>2. CASE at # 1
    BY <1>1, <1>7, <1>11, <2>2 DEF Before
  <2> QED BY <2>1, <2>2
<1>13. CASE at < Len(rule)
  <2>1. /\ at' = at + 1 /\ ops' = <<>> /\ provided' = given' /\ scopes' = Whole(rule[at + 1])
        /\ pc' = "order"
    BY <1>1, <1>13 DEF FinishList
  <2>2. /\ at' \in 1 .. Len(rule) /\ at' \in 2 .. Len(rule) /\ at' # 1 /\ at' - 1 = at
    BY <1>4, <1>13, <2>1
  <2>3. List' = rule[at'] /\ Before' = Visible(compiled'[1])
    BY <2>2 DEF List, Before
  <2>4. Begun'
    <3>1. IsList(rule[at'])
      BY <1>4, <2>2 DEF IsRule
    <3>2. scopes' = Whole(List')
      BY <2>1, <2>3
    <3>3. MentionedIn(List', DOMAIN List') \cap provided' \subseteq Before'
      BY <1>9, <2>1, <2>2, <2>3
    <3> QED BY <2>1, <2>3, <3>1, <3>2, <3>3 DEF Begun
  <2>5. Ordering'
    BY <2>4, BegunGoodNext
  <2>6. WaitingLists'
    BY <1>9, <2>2 DEF WaitingLists
  <2>7. Finished'
    BY <1>6, <1>8, <2>1, <2>2 DEF Finished
  <2> QED BY <1>4, <1>10, <1>12, <2>1, <2>2, <2>3, <2>5, <2>6, <2>7 DEF IInv, Ordering
<1>14. CASE ~(at < Len(rule))
  <2>1. /\ pc' = "done" /\ at' = at /\ ops' = ops /\ provided' = provided /\ scopes' = scopes
    BY <1>1, <1>14 DEF FinishList
  <2>2. List' = List /\ Before' = Before
    BY <1>7, <2>1 DEF List, Before
  <2>3. Frames' /\ Negations' /\ Waiting' /\ Placed'
    BY <2>1, <2>2 DEF IInv, Frames, Negations, Waiting, Placed
  <2>4. WaitingLists'
    <3>1. CASE at = 1
      BY <2>1, <3>1 DEF IInv, WaitingLists
    <3>2. CASE at # 1
      BY <1>9, <2>1, <3>2 DEF WaitingLists
    <3> QED BY <3>1, <3>2
  <2>5. Finished'
    BY <1>6, <1>8, <2>1 DEF Finished
  <2>6. given' \subseteq provided'
    BY <1>1, <1>4, <2>1
  <2>7. \A n \in DOMAIN scopes' : CutAt(ops', scopes'[n].start)
    BY <2>1 DEF IInv
  <2>8. Closed(ops') /\ BindsFirst(ops', Before')
    BY <1>2, <2>1, <2>2
  <2>9. /\ Before' \subseteq given' /\ BoundIn(ops', Before') \subseteq provided'
        /\ \A b \in DOMAIN ops' : IsBegin(ops', b) => ops'[b].index < nextIndex'
    BY <1>1, <1>4, <1>11, <2>1, <2>2
  <2> QED BY <1>4, <1>10, <2>1, <2>3, <2>4, <2>5, <2>6, <2>7, <2>8, <2>9 DEF IInv
<1> QED BY <1>13, <1>14

LEMMA StutterKeeps ==
  ASSUME IInv,
         rule' = rule, at' = at, given' = given, ops' = ops, provided' = provided,
         scopes' = scopes, nextIndex' = nextIndex, compiled' = compiled,
         pc' = pc \/ (pc = "order" /\ pc' = "panic" /\ \A j \in Scope.todo : ~Ready(j))
  PROVE  IInv'
<1>1. /\ List' = List /\ Before' = Before /\ Scope' = Scope /\ provided' = provided
  BY DEF List, Before, Scope
<1>2. Frames' /\ Negations' /\ Waiting' /\ WaitingLists' /\ Placed'
  BY <1>1 DEF IInv, Frames, Negations, Waiting, WaitingLists, Placed
<1>3. Finished'
  BY DEF IInv, Finished
<1>4. pc' = "panic" => \A j \in Scope'.todo : ~Ready(j)'
  BY <1>1 DEF IInv, Ready
<1>5. /\ IsRule(rule') /\ at' \in 1 .. Len(rule') /\ nextIndex' \in Nat
      /\ Inputs \subseteq given' /\ Before' \subseteq given' /\ given' \subseteq provided'
      /\ BoundIn(ops', Before') \subseteq provided'
      /\ \A b \in DOMAIN ops' : IsBegin(ops', b) => ops'[b].index < nextIndex'
      /\ Closed(ops') /\ BindsFirst(ops', Before')
      /\ \A n \in DOMAIN scopes' : CutAt(ops', scopes'[n].start)
  BY <1>1 DEF IInv
<1> QED BY <1>1, <1>2, <1>3, <1>4, <1>5 DEF IInv

LEMMA NextKeeps == IInv /\ [Next]_vars => IInv'
<1> SUFFICES ASSUME IInv, [Next]_vars
             PROVE  IInv'
  OBVIOUS
<1>1. CASE Place /\ rule' = rule
  BY <1>1, PlaceKeeps
<1>2. CASE EnterNot /\ rule' = rule
  BY <1>2, EnterNotKeeps
<1>3. CASE LeaveNot /\ rule' = rule
  BY <1>3, LeaveNotKeeps
<1>4. CASE FinishList /\ rule' = rule
  BY <1>4, FinishListKeeps
<1>5. CASE NoOrder /\ rule' = rule
  BY <1>5, StutterKeeps DEF NoOrder
<1>6. CASE UNCHANGED vars
  BY <1>6, StutterKeeps DEF vars
<1> QED BY <1>1, <1>2, <1>3, <1>4, <1>5, <1>6 DEF Next

-----------------------------------------------------------------------------
(* What the invariant says.                                                *)

\* When nothing more can be placed, each operation left reads a slot that only
\* the operations left could bind.
LEMMA NoWrongChoice == IInv => StuckForGood
<1> SUFFICES ASSUME IInv, pc = "panic", NEW j \in Scope.todo
             PROVE  \E b \in (IF List[j].op = "Not" THEN Required(List, j) ELSE Needs(List[j])) :
                      b \notin Obtainable
  BY DEF StuckForGood
<1> DEFINE N == Len(scopes)
<1>1. /\ IsList(List)
      /\ N \in Nat \ {0} /\ DOMAIN scopes = 1 .. N
      /\ Scope = scopes[N]
      /\ \A n \in DOMAIN scopes :
           /\ scopes[n].not \in {0} \cup DOMAIN List
           /\ scopes[n].not = 0 \/ List[scopes[n].not].op = "Not"
           /\ \A k \in scopes[n].todo : k \in DOMAIN List /\ k \in Body(List, scopes[n].not)
  BY FrameFacts
<1>2. N \in DOMAIN scopes /\ j \in Body(List, scopes[N].not) /\ j \in DOMAIN List
  BY <1>1
<1>3. PICK b \in (IF List[j].op = "Not" THEN Required(List, j) ELSE Needs(List[j])) : b \notin provided
  BY DEF IInv, Ready
<1>4. b \in MentionedIn(List, Under(List, j))
  <2>1. CASE List[j].op = "Not"
    BY <1>3, <2>1 DEF Required
  <2>2. CASE List[j].op # "Not"
    <3>1. IsOperation(List[j]) /\ j \in Under(List, j)
      BY <1>1, <1>2, <2>2 DEF IsList, Under
    <3>2. Needs(List[j]) \subseteq Mentioned(List[j])
      <4>1. Inputs \subseteq provided
        BY DEF IInv
      <4> QED BY <2>2, <3>1, <4>1, OperationPlaced DEF GoodPlaced
    <3> QED BY <1>3, <2>2, <3>1, <3>2, InMentioned
  <2> QED BY <2>1, <2>2
<1>5. b \notin given
  BY <1>3 DEF IInv
<1>6. ASSUME NEW n \in DOMAIN scopes, NEW k \in Body(List, scopes[n].not) \ Scope.todo,
             List[k].op # "Not", b \in Provides(List[k])
      PROVE  FALSE
  <2>1. CASE k \notin scopes[n].todo
    BY <1>3, <1>6, <2>1 DEF IInv, Placed
  <2>2. CASE k \in scopes[n].todo
    <3>1. n \in 1 .. N - 1 /\ n + 1 \in DOMAIN scopes /\ n + 1 <= N /\ n + 1 > 1 /\ n + 1 \in 2 .. N
      BY <1>1, <1>6, <2>2
    <3> DEFINE h == scopes[n + 1].not
    <3>2. h \in Body(List, scopes[n].not) /\ h \in DOMAIN List /\ List[h].op = "Not"
      BY <3>1 DEF IInv, Frames
    <3>3. h <= scopes[N].not /\ BodyEnd(List, scopes[N].not) <= BodyEnd(List, h)
      BY <1>2, <3>1 DEF IInv, Frames
    <3>4. Required(List, h) \subseteq provided
      BY <3>1 DEF IInv, Negations
    <3> HIDE DEF h
    <3>5. k \in DOMAIN List /\ k # h /\ Under(List, k) = {k}
      BY <1>1, <1>6, <2>2, <3>2 DEF Under
    <3>6. {k} \cap Under(List, h) = {}
      BY <1>1, <1>6, <3>2, <3>5, Apart
    <3>7. Own(List, h) \cap MentionedIn(List, {k}) = {}
      BY <3>2, <3>5, <3>6, OwnIsSealed
    <3>8. b \in MentionedIn(List, {k})
      <4>1. Inputs \subseteq provided /\ IsOperation(List[k])
        BY <1>1, <3>5 DEF IInv, IsList
      <4>2. Provides(List[k]) \subseteq Mentioned(List[k])
        BY <1>6, <4>1, OperationPlaced DEF GoodPlaced
      <4> QED BY <1>6, <4>2, InMentioned
    <3>9. Under(List, j) \subseteq Under(List, h)
      <4>1. /\ Under(List, j) \subseteq scopes[N].not + 1 .. BodyEnd(List, scopes[N].not)
            /\ scopes[N].not \in Nat /\ BodyEnd(List, scopes[N].not) \in Nat
        BY <1>1, <1>2, BodyFacts
      <4>2. h \in Nat /\ BodyEnd(List, h) \in Nat
        BY <1>1, <3>2, BodyFacts
      <4>3. Under(List, h) = h + 1 .. BodyEnd(List, h)
        BY <3>2 DEF Under
      <4>4. scopes[N].not + 1 .. BodyEnd(List, scopes[N].not) \subseteq h + 1 .. BodyEnd(List, h)
        BY <3>3, <4>1, <4>2
      <4> QED BY <4>1, <4>3, <4>4
    <3>10. b \in MentionedIn(List, Under(List, h))
      BY <1>4, <3>9, MentionedMore
    <3> QED BY <1>3, <3>4, <3>7, <3>8, <3>10 DEF Own, Required
  <2> QED BY <2>1, <2>2
<1>7. b \notin Obtainable
  <2>1. ASSUME b \in UNION {Provides(List[k]) :
                 k \in {m \in (UNION {Body(List, scopes[n].not) : n \in DOMAIN scopes}) \ Scope.todo :
                         List[m].op # "Not"}}
        PROVE  FALSE
    <3>1. PICK k \in (UNION {Body(List, scopes[n].not) : n \in DOMAIN scopes}) \ Scope.todo :
            List[k].op # "Not" /\ b \in Provides(List[k])
      BY <2>1
    <3>2. PICK n \in DOMAIN scopes : k \in Body(List, scopes[n].not)
      BY <3>1
    <3>3. k \in Body(List, scopes[n].not) \ Scope.todo
      BY <3>1, <3>2
    <3> QED BY <1>6, <3>1, <3>2, <3>3, Zenon
  <2> QED BY <1>5, <2>1 DEF Obtainable
<1> QED BY <1>3, <1>7

\* The invariant holds of every order that assemble_ops can come to.
THEOREM Invariance == Spec => []IInv
BY InitGood, NextKeeps, PTL DEF Spec

\* Whatever rule the compiler makes and whichever order is chosen for it, the
\* lists have scopes that are nested and closed, and what they bind is typed.
THEOREM OrderCompiles == Spec => []Compiles
<1>1. IInv => Compiles
  BY DEF IInv, Finished, Compiles
<1> QED BY <1>1, Invariance, PTL

\* No operation of any list reads a slot that nothing before it has bound for
\* certain, and none binds a slot again: what a negation has bound is counted as
\* bound by the optimizer, and nothing behind the negation can tell.
THEOREM OrderBindsFirst == Spec => []BoundFirst
<1>1. IInv => BoundFirst
  BY DEF IInv, Finished, BoundFirst
<1> QED BY <1>1, Invariance, PTL

\* The choice by cost, and the cut to sixteen orders, can lose no rule: when the
\* optimizer panics, no other order would have been one.
THEOREM NoOrderIsLost == Spec => []StuckForGood
BY NoWrongChoice, Invariance, PTL
=============================================================================
