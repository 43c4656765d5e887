----------------------------- MODULE Compiling -----------------------------
(***************************************************************************)
(* The whole compilation of a rule (compile and build_and_compile of       *)
(* src/src/compiler.rs): from its syntax tree or by calls to the builders, *)
(* and then through the ordering of its select operations.                 *)
(***************************************************************************)
EXTENDS Scoping, Builder

CONSTANT MaxOrdered   \* bound: constructs in a rule that is ordered

ASSUME MaxAssumption == MaxOrdered \in Nat

VARIABLES
  front,   \* "text" or "builder"
  rule, at, given, ops, provided, open, nextIndex, compiled,
  pc       \* "front", then as in Optimizer

optimizerVars == <<rule, at, given, ops, provided, open, nextIndex, compiled, pc>>

\* The slots are numbers and have no values here.
Optimize ==
  INSTANCE Optimizer WITH
    scopes <- open, Rules <- {}, Binding <- 0 .. MaxSlots - 1,
    Attribute <- {"any"}, Value <- {}, Object <- {}, tupleItems <- <<>>

CompilingInit ==
  /\ front \in {"text", "builder"}
  /\ IF front = "text" THEN Init ELSE BuilderInit
  /\ rule = <<>> /\ at = 1 /\ given = {} /\ ops = <<>> /\ provided = {}
  /\ open = <<>> /\ nextIndex = 0 /\ compiled = <<>>
  /\ pc = "front"

MakeLists ==
  /\ pc = "front"
  /\ \/ front = "text" /\ Next
     \/ front = "builder" /\ BuilderNext
  /\ UNCHANGED <<front, optimizerVars>>

\* compile_cfg: a rule that is not refused is given to the optimizer.
CompileCfg ==
  /\ pc = "front" /\ status = "accepted" /\ size <= MaxOrdered
  /\ rule' = lists
  /\ at' = 1
  /\ given' = Inputs
  /\ ops' = <<>>
  /\ provided' = Inputs
  /\ open' = Optimize!Whole(lists[1])
  /\ nextIndex' = 0
  /\ compiled' = <<>>
  /\ pc' = "order"
  /\ UNCHANGED <<vars, front>>

Order == Optimize!Next /\ UNCHANGED <<vars, front>>

CompilingNext == MakeLists \/ CompileCfg \/ Order

CompilingSpec == CompilingInit /\ [][CompilingNext]_<<vars, front, optimizerVars>>

-----------------------------------------------------------------------------
(* What the lists of an accepted rule mention.                             *)

ApplyList == scopes[1].ops

Reads(c) ==
  CASE c.op = "CreateTuple"         -> Optimize!SlotsOf(Range(c.items))
    [] c.op \in {"Add", "Remove"} -> {c.binding} \cup Optimize!SlotsOf({c.value})
    [] OTHER                        -> {}

Created(p) == {p[j].binding : j \in {k \in DOMAIN p : p[k].op \in {"CreateObject", "CreateTuple"}}}

ApplyMentions(p) == Created(p) \cup UNION {Reads(p[j]) : j \in DOMAIN p}

\* No slot that is younger than a negation is mentioned in it and out of it.
Sealed ==
  \A n \in DOMAIN lists :
    \A i \in {k \in DOMAIN lists[n] : lists[n][k].op = "Not"} :
      LET body == i + 1 .. Optimize!BodyEnd(lists[n], i)
          own == {b \in Optimize!MentionedIn(lists[n], body) : b >= lists[n][i].mark}
      IN  /\ own \cap Optimize!MentionedIn(lists[n], DOMAIN lists[n] \ body) = {}
          /\ \A m \in DOMAIN lists \ {n} : own \cap Optimize!MentionedIn(lists[m], DOMAIN lists[m]) = {}
          /\ own \cap ApplyMentions(ApplyList) = {}

\* The branches a position of the apply list is in.
Branches(p, j) ==
  {branch \in (1 .. j - 1) \X {"then", "otherwise"} :
     LET c == branch[1] IN
       /\ p[c].op = "Conditional"
       /\ IF branch[2] = "then" THEN j <= c + p[c].then_len
          ELSE /\ c + p[c].then_len < j
               /\ j <= c + p[c].then_len + p[c].otherwise_len}

\* The slots that an operation of the apply list has from the select part, or
\* from operations on its way that come before it.
Written(p, j) ==
  Inputs \cup Optimize!MentionedIn(lists[1], Optimize!Body(lists[1], 0))
    \cup {p[k].binding : k \in {m \in 1 .. j - 1 :
            /\ p[m].op \in {"CreateObject", "CreateTuple"}
            /\ Branches(p, m) \subseteq Branches(p, j)}}

\* The tuples that are made with it among their parts.
Around(p, j) ==
  {p[k].binding : k \in {m \in DOMAIN p :
     m >= j /\ p[m].op = "CreateTuple" /\ Branches(p, m) = Branches(p, j)}}

-----------------------------------------------------------------------------
(* Properties.                                                             *)

\* A variable that a negation binds is nowhere else taken for bound: a rule that
\* is accepted mentions it in the negation alone.  (The builder's types do not
\* keep a callback from handing a binding out.)
TextSealed == front = "text" /\ status = "accepted" => Sealed

\* Every slot that the apply part of an accepted rule reads has been written
\* when it is read, by the select part or on every way there, and not just in a
\* condition or another branch; but for that of a tuple that is part of itself.
WrittenOrOwn ==
  front = "text" /\ status = "accepted" =>
    \A j \in DOMAIN ApplyList :
      Reads(ApplyList[j]) \subseteq Written(ApplyList, j) \cup Around(ApplyList, j)

\* Every variable the apply part uses is bound before it is used: otherwise
\* "existing binding required" (CompileError::ExistingBindingRequired).
WrittenFirst ==
  front = "text" /\ status = "accepted" =>
    \A j \in DOMAIN ApplyList : Reads(ApplyList[j]) \subseteq Written(ApplyList, j)

\* In whatever order the optimizer puts the operations of a rule that either
\* front end makes, none reads a slot that nothing has bound, as long as no
\* binding is carried out of its negation.
Safe == Optimize!BoundFirst \/ ~Sealed

\* There are two ways only for a rule in text to be accepted and then to have no
\* order: a variable is calculated from itself, or a condition of the apply part
\* mentions what the apply part creates.
OrderKnown ==
  front = "text" /\ pc = "panic" =>
    \/ \E j \in DOMAIN rule[at] :
         rule[at][j].op = "Calculation" /\ rule[at][j].binding \in Range(rule[at][j].operands)
    \/ at > 1 /\ Optimize!MentionedIn(rule[at], DOMAIN rule[at]) \cap Created(ApplyList) # {}
=============================================================================
