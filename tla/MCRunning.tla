----------------------------- MODULE MCRunning -----------------------------
(***************************************************************************)
(* Running on systems like the ones of src/tests/running.rs and the rules  *)
(* of src/tests/language.rs.                                               *)
(***************************************************************************)
EXTENDS RunningRefinement

CONSTANTS o1, n1, n2, n3, n4, n5, s, t, zero

MCObject == {o1, n1, n2, n3, n4, n5}
MCValue == MCObject \cup {s, t, zero}
MCTupleItems == [v \in {t} |-> <<o1, s>>]
MCIdSequence == <<n1, n2, n3, n4, n5>>

-----------------------------------------------------------------------------
(* Operations.  Slot 0 is $A.                                              *)

Find(from, attribute, to) ==
  [op |-> "Search", binding |-> from, attribute |-> attribute, value_binding |-> to]
Has(b, attribute, v) == [op |-> "RequireValue", binding |-> b, attribute |-> attribute, value |-> v]
Is(b, v) == [op |-> "CompareBinding", binding |-> b, value |-> v]
Begin(k, n) == [op |-> "BeginNot", index |-> k, sequence_len |-> n]
End(k) == [op |-> "EndNot", index |-> k]
Done == [op |-> "End"]

Slot(b) == [kind |-> "binding", binding |-> b]
Lit(v) == [kind |-> "value", value |-> v]
Plus(b, attribute, v) == [op |-> "Add", binding |-> b, attribute |-> attribute, value |-> v]
Minus(b, attribute, v) ==
  [op |-> "Remove", binding |-> b, attribute |-> attribute, value |-> v, required |-> TRUE]
MinusAny(b, attribute, v) ==
  [op |-> "Remove", binding |-> b, attribute |-> attribute, value |-> v, required |-> FALSE]
New(b) == [op |-> "CreateObject", binding |-> b]
Tuple(b, items) == [op |-> "CreateTuple", binding |-> b, items |-> items]
Cond(condition, yes, no) ==
  [op |-> "Conditional", condition |-> condition, then_apply |-> yes, otherwise_apply |-> no]

-----------------------------------------------------------------------------
(* Rules.                                                                  *)

Endless == [select |-> <<Done>>, apply |-> <<>>]

Move(from, to) ==
  [select |-> <<Find(0, from, 1), Done>>,
   apply |-> <<Minus(0, from, Slot(1)), Plus(0, to, Slot(1))>>]

\* Fails after a change when the first value of a is not s.
Partial ==
  [select |-> <<Find(0, "a", 2), Done>>,
   apply |-> <<Plus(0, "b", Lit(s)), Minus(0, "b", Slot(2)), Minus(0, "a", Slot(2))>>]

\* Fails after it has used an id.
Waste ==
  [select |-> <<Find(0, "b", 2), Done>>,
   apply |-> <<New(1), Plus(1, "a", Slot(2)), Minus(0, "a", Slot(1))>>]

\* Slot 2 is local to the scope, slot 3 is for the object the rule creates.
Create ==
  [select |-> <<Find(0, "a", 1), Begin(0, 3), Find(0, "b", 2), Is(2, s), End(0), Done>>,
   apply |-> <<New(3), Plus(3, "a", Slot(1)), Minus(0, "a", Slot(1)), Plus(0, "b", Slot(3))>>]

\* The condition sees what has been removed before.
Choose ==
  [select |-> <<Find(0, "b", 3), Done>>,
   apply |-> <<Minus(0, "b", Slot(3)),
               Cond(<<Find(3, "a", 1), Begin(1, 2), Has(0, "b", s), End(1), Done>>,
                    <<MinusAny(3, "a", Lit(s)), Plus(0, "a", Slot(3))>>,
                    <<Cond(<<Has(0, "b", s), Done>>,
                           <<Tuple(2, <<Slot(0), Lit(s)>>), Plus(0, "a", Slot(2))>>,
                           <<Plus(3, "b", Lit(s))>>)>>)>>]

MCSystems == {
  <<Endless>>,
  <<Move("a", "b"), Move("b", "a")>>,
  <<Partial, Move("a", "b")>>,
  <<Waste, Create, Choose>>,
  <<Create, Move("a", "b"), Partial>> }

Bodies == {<<>>, <<s>>, <<o1>>, <<o1, s>>}

MCHeaps ==
  {[o \in MCObject |-> [x \in {"a", "b"} |-> IF o = o1 THEN body[x] ELSE <<>>]] :
     body \in [{"a", "b"} -> Bodies]}

MCArguments == {<<o1>>, <<>>, <<o1, o1>>}

MCLimits ==
  {[total |-> l[1], per_rule |-> l[2]] : l \in {<<0, 9>>, <<9, 0>>, <<3, 9>>, <<4, 2>>}}

-----------------------------------------------------------------------------
(* The operations of the apply parts, and what they read.                  *)

Inner(changes) ==
  UNION {ToSet(c.then_apply) \cup ToSet(c.otherwise_apply) :
           c \in {x \in changes : x.op = "Conditional"}}

Outer == UNION {UNION {ToSet(r.apply) : r \in ToSet(rs)} : rs \in MCSystems}

MCChanges == Outer \cup Inner(Outer) \cup Inner(Inner(Outer))

RECURSIVE Reading(_)

ReadIn(changes) ==
  UNION {Reading(changes[i]) \ CreatedBefore(changes, i) : i \in DOMAIN changes}

Reading(c) ==
  IF c.op # "Conditional" THEN Uses(c)
  ELSE UNION {Reads(c.condition[i]) \ BoundAt(c.condition, i, {}) : i \in DOMAIN c.condition}
         \cup ReadIn(c.then_apply) \cup ReadIn(c.otherwise_apply)

MCNeeded == [c \in MCChanges |-> Reading(c)]
=============================================================================
