-------------------------- MODULE CompilingProofs --------------------------
(***************************************************************************)
(* The lists that are made for a rule are ones the optimizer can order,    *)
(* from text with every negation sealed: what only a negation binds is     *)
(* mentioned nowhere else.  So in whatever order they are put, nothing is  *)
(* read that nothing has bound; and what the apply part of a rule in text  *)
(* reads has been written, whichever branches are taken.                   *)
(***************************************************************************)
EXTENDS Compiling, FrontEndProofs

-----------------------------------------------------------------------------
(* The lists of a rule, from either front end.                             *)

CompilingInv ==
  \/ front = "text" /\ IInv /\ SealedInv
  \/ front = "builder" /\ BInv /\ Sorted

LEMMA CompilingBegins == CompilingInit => CompilingInv
<1> SUFFICES ASSUME CompilingInit PROVE CompilingInv
  OBVIOUS
<1>1. CASE front = "text"
  <2>1. Init
    BY <1>1 DEF CompilingInit
  <2> QED BY <1>1, <2>1, InitGood, BeginSealed DEF CompilingInv
<1>2. CASE front = "builder"
  <2>1. BuilderInit
    BY <1>2 DEF CompilingInit
  <2>2. /\ scopes = <<NewScope("select", env, <<>>)>> /\ values = <<>> /\ lists = <<>>
        /\ status = "compiling"
    BY <2>1 DEF BuilderInit
  <2>3. Sorted
    BY <2>2, BeginSorted
  <2> QED BY <1>2, <2>1, <2>3, BuilderInitGood DEF CompilingInv
<1> QED BY <1>1, <1>2 DEF CompilingInit

LEMMA CompilingKeeps ==
  CompilingInv /\ [CompilingNext]_<<vars, front, optimizerVars>> => CompilingInv'
<1> SUFFICES ASSUME CompilingInv, [CompilingNext]_<<vars, front, optimizerVars>>
             PROVE  CompilingInv'
  OBVIOUS
<1>1. front' = front
  BY DEF CompilingNext, MakeLists, CompileCfg, Order
<1>2. CASE front = "text"
  <2>1. IInv /\ SealedInv
    BY <1>2 DEF CompilingInv
  <2>2. [Next]_vars
    BY <1>2 DEF CompilingNext, MakeLists, CompileCfg, Order
  <2>3. IInv' /\ SealedInv'
    BY <2>1, <2>2, NextKeeps, TextKeepsSealed
  <2> QED BY <1>1, <1>2, <2>3 DEF CompilingInv
<1>3. CASE front = "builder"
  <2>1. BInv /\ Sorted
    BY <1>3 DEF CompilingInv
  <2>2. [BuilderNext]_vars
    BY <1>3 DEF CompilingNext, MakeLists, CompileCfg, Order
  <2>3. BInv' /\ Sorted'
    BY <2>1, <2>2, CallsKeep, CallsKeepSorted
  <2> QED BY <1>1, <1>3, <2>3 DEF CompilingInv
<1> QED BY <1>2, <1>3 DEF CompilingInv

\* The optimizer's view of a select list is the one here.
LEMMA SelectListViewed ==
  ASSUME NEW S, NEW p \in Ops(S), Named(p, SelectNames), Nested(p)
  PROVE  /\ \A places \in SUBSET DOMAIN p : Optimize!MentionedIn(p, places) = UsedIn(p, places)
         /\ \A i \in Negations(p) :
              /\ i > 0 /\ Optimize!BodyEnd(p, i) = i + p[i].len
              /\ Optimize!Under(p, i) = BodyOf(p, i)
              /\ BodyOf(p, i) \subseteq DOMAIN p
<1>1. Len(p) \in Nat /\ DOMAIN p = 1 .. Len(p)
  BY LenProperties DEF Ops
<1>2. ASSUME NEW items PROVE Optimize!SlotsOf(items) = ItemSlots(items)
  BY DEF Optimize!SlotsOf, ItemSlots
<1>3. ASSUME NEW j \in DOMAIN p, p[j].op # "Not" PROVE Optimize!Mentioned(p[j]) = Uses(p[j])
  <2> DEFINE c == p[j]
  <2>1. c.op \in SelectNames \ {"Not"}
    BY <1>3 DEF Named
  <2> HIDE DEF c
  <2>2. Optimize!Mentioned(c) = Uses(c)
    <3>1. CASE c.op = "Attribute"
      BY <3>1 DEF Optimize!Mentioned, Uses
    <3>2. CASE c.op = "Tuple"
      BY <1>2, <3>2 DEF Optimize!Mentioned, Uses, Optimize!Range, Range
    <3>3. CASE c.op = "Calculation"
      BY <3>3 DEF Optimize!Mentioned, Uses, Optimize!Range, Range
    <3>4. CASE c.op = "MatchEnum"
      BY <1>2, <3>4 DEF Optimize!Mentioned, Optimize!Needs, Uses
    <3>5. CASE c.op = "Compare"
      BY <1>2, <3>5 DEF Optimize!Mentioned, Optimize!Needs, Uses
    <3>6. CASE c.op \in SelectTests
      BY <3>6 DEF Optimize!Mentioned, Optimize!Needs, Uses, SelectTests
    <3> QED BY <2>1, <3>1, <3>2, <3>3, <3>4, <3>5, <3>6 DEF SelectNames, SelectTests
  <2> QED BY <2>2 DEF c
<1>4. ASSUME NEW places \in SUBSET DOMAIN p
      PROVE  Optimize!MentionedIn(p, places) = UsedIn(p, places)
  <2>1. \A j \in places : p[j].op = "Not" => Uses(p[j]) = {}
    BY DEF Uses
  <2>2. \A j \in places : p[j].op # "Not" => Optimize!Mentioned(p[j]) = Uses(p[j])
    BY <1>3
  <2> HIDE DEF Uses
  <2> QED BY <2>1, <2>2 DEF Optimize!MentionedIn, UsedIn
<1>5. ASSUME NEW i \in Negations(p)
      PROVE  /\ i > 0 /\ Optimize!BodyEnd(p, i) = i + p[i].len
             /\ Optimize!Under(p, i) = BodyOf(p, i)
             /\ BodyOf(p, i) \subseteq DOMAIN p
  <2>1. i \in 1 .. Len(p) /\ p[i].op = "Not" /\ p[i].len \in Nat /\ i + p[i].len <= Len(p)
    BY <1>1 DEF Negations, Nested
  <2>2. i > 0 /\ Optimize!BodyEnd(p, i) = i + p[i].len
    BY <1>1, <2>1 DEF Optimize!BodyEnd
  <2>3. Optimize!Under(p, i) = BodyOf(p, i)
    BY <2>1, <2>2 DEF Optimize!Under, BodyOf
  <2>4. BodyOf(p, i) \subseteq DOMAIN p
    BY <1>1, <2>1 DEF BodyOf
  <2> QED BY <2>2, <2>3, <2>4
<1> QED BY <1>4, <1>5

\* What the invariant says of the lists that are finished.
LEMMA ListsKnown ==
  ASSUME CompilingInv
  PROVE  /\ IInv /\ Sorted
         /\ lists \in Seq(Ops(Handed))
         /\ \A n \in DOMAIN lists :
              lists[n] \in Ops(Handed) /\ Named(lists[n], SelectNames) /\ Nested(lists[n])
<1>1. IInv /\ Sorted
  BY DEF CompilingInv, BInv, SealedInv
<1>2. lists \in Seq(Ops(Handed))
  BY <1>1 DEF IInv, TypeOK
<1>3. \A n \in DOMAIN lists : lists[n] \in Ops(Handed)
  BY <1>2, ElementOfSeq, LenProperties
<1>4. ListsSorted
  BY <1>1 DEF Sorted
<1> QED BY <1>1, <1>2, <1>3, <1>4 DEF ListsSorted

LEMMA ApplyViewed ==
  ASSUME NEW p
  PROVE  ApplyMentions(p) \subseteq Used(p)
<1>1. ASSUME NEW items PROVE Optimize!SlotsOf(items) = ItemSlots(items)
  BY DEF Optimize!SlotsOf, ItemSlots
<1>2. Created(p) \subseteq Used(p)
  BY DEF Created, Used, UsedIn, Uses
<1>3. ASSUME NEW j \in DOMAIN p PROVE Reads(p[j]) \subseteq Uses(p[j])
  <2> DEFINE c == p[j]
  <2> SUFFICES Reads(c) \subseteq Uses(c)
    OBVIOUS
  <2> HIDE DEF c
  <2>1. CASE c.op = "CreateTuple"
    BY <1>1, <2>1 DEF Reads, Uses
  <2>2. CASE c.op \in {"Add", "Remove"}
    BY <1>1, <2>2 DEF Reads, Uses
  <2>3. CASE c.op \notin {"CreateTuple", "Add", "Remove"}
    BY <2>3 DEF Reads
  <2> QED BY <2>1, <2>2, <2>3
<1>4. UNION {Reads(p[j]) : j \in DOMAIN p} \subseteq Used(p)
  BY <1>3 DEF Used, UsedIn
<1> QED BY <1>2, <1>4 DEF ApplyMentions

\* What the invariant is for.
LEMMA AcceptedSealed ==
  ASSUME CompilingInv, front = "text", status = "accepted"
  PROVE  Sealed
<1>1. SealedInv
  BY DEF CompilingInv
<1>2. Separate(Contents)
  BY <1>1 DEF SealedInv
<1>3. 1 \in DOMAIN scopes
  <2>1. scopes \in Seq(ScopeFrame(Handed)) /\ scopes # <<>>
    BY ListsKnown DEF IInv, TypeOK
  <2>2. Len(scopes) \in Nat \ {0} /\ DOMAIN scopes = 1 .. Len(scopes)
    BY <2>1, EmptySeq, LenProperties
  <2> QED BY <2>2
<1> SUFFICES ASSUME NEW n \in DOMAIN lists, NEW i \in DOMAIN lists[n], lists[n][i].op = "Not"
             PROVE  LET body == i + 1 .. Optimize!BodyEnd(lists[n], i)
                        own == {b \in Optimize!MentionedIn(lists[n], body) : b >= lists[n][i].mark}
                    IN  /\ own \cap Optimize!MentionedIn(lists[n], DOMAIN lists[n] \ body) = {}
                        /\ \A m \in DOMAIN lists \ {n} :
                             own \cap Optimize!MentionedIn(lists[m], DOMAIN lists[m]) = {}
                        /\ own \cap ApplyMentions(ApplyList) = {}
  BY Zenon DEF Sealed
<1> DEFINE p == lists[n]
           own == Younger(p, i)
<1>4. \A m \in DOMAIN lists :
        Optimize!MentionedIn(lists[m], DOMAIN lists[m]) = Used(lists[m])
  BY ListsKnown, SelectListViewed DEF Used
<1>5. /\ i \in Negations(p) /\ Optimize!BodyEnd(p, i) = i + p[i].len
      /\ BodyOf(p, i) \subseteq DOMAIN p
      /\ \A places \in SUBSET DOMAIN p : Optimize!MentionedIn(p, places) = UsedIn(p, places)
  <2>1. i \in Negations(p)
    BY DEF Negations
  <2> QED BY <2>1, ListsKnown, SelectListViewed
<1> HIDE DEF p
<1>6. /\ i + 1 .. Optimize!BodyEnd(p, i) = BodyOf(p, i)
      /\ {b \in Optimize!MentionedIn(p, BodyOf(p, i)) : b >= p[i].mark} = own
      /\ Optimize!MentionedIn(p, DOMAIN p \ BodyOf(p, i)) = UsedIn(p, DOMAIN p \ BodyOf(p, i))
  BY <1>5 DEF BodyOf, Younger
<1>7. <<"list", n>> \in DOMAIN Contents /\ Contents[<<"list", n>>] = p
  BY ContentsAre DEF ContentsKnown, p
<1>8. SealedList(p) /\ own \subseteq Dead(p)
  BY <1>2, <1>5, <1>7 DEF Separate, Dead
<1>9. own \cap UsedIn(p, DOMAIN p \ BodyOf(p, i)) = {}
  BY <1>5, <1>8 DEF SealedList, KeptIn
<1>10. ASSUME NEW m \in DOMAIN lists \ {n}
       PROVE  own \cap Used(lists[m]) = {}
  <2>1. <<"list", m>> \in DOMAIN Contents /\ Contents[<<"list", m>>] = lists[m]
        /\ <<"list", m>> # <<"list", n>>
    BY ContentsAre DEF ContentsKnown
  <2>2. Dead(p) \cap Used(lists[m]) = {}
    BY <1>2, <1>7, <2>1 DEF Separate
  <2> QED BY <1>8, <2>2
<1>11. own \cap ApplyMentions(ApplyList) = {}
  <2>1. <<"ops", 1>> \in DOMAIN Contents /\ Contents[<<"ops", 1>>] = ApplyList
        /\ <<"ops", 1>> # <<"list", n>>
    BY <1>3, ContentsAre DEF ContentsKnown, ApplyList
  <2>2. Dead(p) \cap Used(ApplyList) = {}
    BY <1>2, <1>7, <2>1 DEF Separate
  <2> QED BY <1>8, <2>2, ApplyViewed
<1> HIDE DEF own
<1>12. /\ own \cap Optimize!MentionedIn(p, DOMAIN p \ BodyOf(p, i)) = {}
       /\ \A m \in DOMAIN lists \ {n} :
            own \cap Optimize!MentionedIn(lists[m], DOMAIN lists[m]) = {}
       /\ own \cap ApplyMentions(ApplyList) = {}
  BY <1>4, <1>6, <1>9, <1>10, <1>11
<1> QED BY <1>6, <1>12 DEF p

\* A rule in text that is accepted has no variable that a negation alone binds
\* and another part of the rule reads: the environments of the scopes forget it
\* (compile_not and compile_apply_conditional of src/src/compiler/cfg.rs), however
\* negations, conditions and values are nested.
THEOREM NegationsSealed == CompilingSpec => []TextSealed
<1>1. CompilingInv => TextSealed
  BY AcceptedSealed DEF TextSealed
<1> QED BY <1>1, CompilingBegins, CompilingKeeps, PTL DEF CompilingSpec

-----------------------------------------------------------------------------
(* They are given to the optimizer.                                        *)

\* Is one the optimizer's: its slots are those of the bindings storage.
LEMMA OperationGiven ==
  ASSUME NEW S, S \subseteq 0 .. MaxSlots - 1,
         NEW c \in SelectOperation(S) \cup ApplyOperation(S), c.op \in SelectNames
  PROVE  Optimize!IsOperation(c)
<1>1. c \in SelectOperation(S)
  BY DEF SelectNames, ApplyOperation
<1>2. ASSUME NEW item \in ItemOf(S) PROVE Optimize!IsItem(item)
  <2>1. CASE item = Literal
    BY <2>1 DEF Literal, Optimize!IsItem
  <2>2. CASE item = Ignore
    BY <2>2 DEF Ignore, Optimize!IsItem
  <2>3. CASE item \in [kind : {"binding"}, binding : S]
    BY <2>3 DEF Optimize!IsItem
  <2> QED BY <2>1, <2>2, <2>3 DEF ItemOf
<1>3. ASSUME NEW items, items \subseteq ItemOf(S) PROVE Optimize!SlotsOf(items) \subseteq S
  BY <1>3 DEF Optimize!SlotsOf, ItemOf, Literal, Ignore
<1>4. c.op \in {"Attribute", "RequireValue", "Require", "AssertObject", "CompareBinding", "Tuple",
                "MatchEnum", "Compare", "Calculation", "Not"}
  BY DEF SelectNames
<1>5. CASE c.op = "Attribute"
  <2>1. c.binding \in S /\ c.value_binding \in S /\ c.attribute = "any"
    BY <1>1, <1>5 DEF SelectOperation
  <2> QED BY <1>4, <1>5, <2>1 DEF Optimize!IsOperation, Optimize!Mentioned
<1>6. CASE c.op = "Tuple"
  <2>1. c.binding \in S /\ c.items \in Seq(ItemOf(S))
    BY <1>1, <1>6 DEF SelectOperation
  <2>2. /\ Range(c.items) \subseteq ItemOf(S)
        /\ \A k \in DOMAIN c.items : c.items[k] \in ItemOf(S)
    BY <2>1, ElementOfSeq, LenProperties DEF Range
  <2>3. c.items \in Seq(Range(c.items))
    BY <2>1, LenProperties, SeqDef DEF Range
  <2>4. \A k \in DOMAIN c.items : Optimize!IsItem(c.items[k])
    BY <1>2, <2>2
  <2>5. Optimize!Mentioned(c) \subseteq S
    BY <1>3, <1>6, <2>1, <2>2 DEF Optimize!Mentioned, Optimize!Range, Range
  <2> QED BY <1>4, <1>6, <2>3, <2>4, <2>5 DEF Optimize!IsOperation, Optimize!Range, Range
<1>7. CASE c.op = "MatchEnum"
  <2>1. c.binding \in S /\ c.options \subseteq ItemOf(S)
    BY <1>1, <1>7 DEF SelectOperation
  <2>2. Optimize!Mentioned(c) \subseteq S
    BY <1>3, <1>7, <2>1 DEF Optimize!Mentioned, Optimize!Needs
  <2> QED BY <1>4, <1>7, <2>2 DEF Optimize!IsOperation
<1>8. CASE c.op = "Compare"
  <2>1. c.left \in ItemOf(S) /\ c.right \in ItemOf(S)
    BY <1>1, <1>8 DEF SelectOperation
  <2>2. Optimize!Mentioned(c) \subseteq S
    BY <1>3, <1>8, <2>1 DEF Optimize!Mentioned, Optimize!Needs
  <2> QED BY <1>4, <1>8, <2>2 DEF Optimize!IsOperation
<1>9. CASE c.op = "Calculation"
  <2>1. c.binding \in S /\ c.operands \in Seq(S) /\ c.results = <<>>
    BY <1>1, <1>9 DEF SelectOperation
  <2>2. Range(c.operands) \subseteq S /\ DOMAIN c.results = {}
    BY <2>1, ElementOfSeq, LenProperties DEF Range
  <2>3. Optimize!Mentioned(c) \subseteq S
    BY <1>9, <2>1, <2>2 DEF Optimize!Mentioned, Optimize!Range, Range
  <2> QED BY <1>4, <1>9, <2>2, <2>3 DEF Optimize!IsOperation
<1>10. CASE c.op \in SelectTests
  <2>1. c.binding \in S
    BY <1>1, <1>10 DEF SelectOperation, SelectTests
  <2>2. Optimize!Mentioned(c) \subseteq S
    BY <1>10, <2>1 DEF Optimize!Mentioned, Optimize!Needs, SelectTests
  <2> QED BY <1>4, <1>10, <2>2 DEF Optimize!IsOperation, SelectTests
<1>11. CASE c.op = "Not"
  BY <1>4, <1>11 DEF Optimize!IsOperation
<1> QED BY <1>4, <1>5, <1>6, <1>7, <1>8, <1>9, <1>10, <1>11 DEF SelectTests

LEMMA ListGiven ==
  ASSUME NEW S, S \subseteq 0 .. MaxSlots - 1, NEW p \in Ops(S), Named(p, SelectNames), Nested(p)
  PROVE  Optimize!IsList(p)
<1>1. /\ Len(p) \in Nat /\ DOMAIN p = 1 .. Len(p)
      /\ \A i \in DOMAIN p : p[i] \in SelectOperation(S) \cup ApplyOperation(S)
  BY ElementOfSeq, LenProperties DEF Ops
<1>2. p \in Seq(Range(p))
  BY LenProperties, SeqDef DEF Range, Ops
<1>3. \A i \in DOMAIN p : Optimize!IsOperation(p[i])
  BY <1>1, OperationGiven DEF Named
<1>4. ASSUME NEW i \in DOMAIN p, p[i].op = "Not" PROVE Optimize!Nests(p, i)
  <2>1. i \in Negations(p)
    BY <1>4 DEF Negations
  <2>2. /\ p[i].len \in Nat /\ i + p[i].len <= Len(p)
        /\ \A k \in BodyOf(p, i) : p[k].op = "Not" => k + p[k].len <= i + p[i].len
    BY <2>1 DEF Nested
  <2>3. /\ Optimize!BodyEnd(p, i) = i + p[i].len /\ Optimize!Under(p, i) = BodyOf(p, i)
        /\ BodyOf(p, i) \subseteq DOMAIN p
        /\ \A k \in BodyOf(p, i) : p[k].op = "Not" => Optimize!BodyEnd(p, k) = k + p[k].len
    BY <2>1, SelectListViewed DEF Negations
  <2> QED BY <2>2, <2>3 DEF Optimize!Nests
<1> QED BY <1>2, <1>3, <1>4 DEF Optimize!IsList, Optimize!Range, Range

LEMMA RuleGiven ==
  ASSUME CompilingInv, status = "accepted", Sealed
  PROVE  Optimize!IsRule(lists)
<1>1. /\ lists \in Seq(Ops(Handed)) /\ lists # <<>>
      /\ \A n \in DOMAIN lists :
           lists[n] \in Ops(Handed) /\ Named(lists[n], SelectNames) /\ Nested(lists[n])
  BY ListsKnown DEF Sorted
<1>2. Handed \subseteq 0 .. MaxSlots - 1 /\ Handed \subseteq Int
  <2>1. Len(env.slots) \in Nat /\ Len(env.slots) <= MaxSlots
    BY ListsKnown, LenProperties DEF IInv, TypeOK
  <2> QED BY <2>1, BoundsAssumption DEF Handed
<1>3. lists \in Seq(Range(lists))
  BY <1>1, LenProperties, SeqDef DEF Range
<1>4. \A n \in DOMAIN lists : Optimize!IsList(lists[n])
  BY <1>1, <1>2, ListGiven
<1>5. ASSUME NEW n \in DOMAIN lists, NEW i \in DOMAIN lists[n], lists[n][i].op = "Not"
      PROVE  /\ Optimize!Own(lists[n], i)
                  \cap Optimize!MentionedIn(lists[n], DOMAIN lists[n] \ Optimize!Under(lists[n], i)) = {}
             /\ \A m \in DOMAIN lists \ {n} :
                  Optimize!Own(lists[n], i) \cap Optimize!MentionedIn(lists[m], DOMAIN lists[m]) = {}
  <2> DEFINE p == lists[n]
             body == i + 1 .. Optimize!BodyEnd(p, i)
             own == {b \in Optimize!MentionedIn(p, body) : b >= p[i].mark}
  <2>1. i \in Negations(p) /\ i \in DOMAIN p /\ p[i].op = "Not"
    BY <1>5 DEF Negations
  <2>2. /\ own \cap Optimize!MentionedIn(p, DOMAIN p \ body) = {}
        /\ \A m \in DOMAIN lists \ {n} :
             own \cap Optimize!MentionedIn(lists[m], DOMAIN lists[m]) = {}
    BY <1>5, Zenon DEF Sealed
  <2>3. p \in Ops(Handed) /\ Named(p, SelectNames) /\ Nested(p)
    BY <1>1
  <2> HIDE DEF p
  <2>4. /\ \A places \in SUBSET DOMAIN p : Optimize!MentionedIn(p, places) = UsedIn(p, places)
        /\ Optimize!BodyEnd(p, i) = i + p[i].len
        /\ Optimize!Under(p, i) = BodyOf(p, i) /\ BodyOf(p, i) \subseteq DOMAIN p
    BY <2>1, <2>3, SelectListViewed
  <2>5. body = Optimize!Under(p, i)
    BY <2>4 DEF BodyOf
  <2>6. p[i].mark \in Int
    <3>1. p[i] \in SelectOperation(Handed) \cup ApplyOperation(Handed)
      BY <2>1, <2>3, ElementOfSeq, LenProperties DEF Ops
    <3> QED BY <2>1, <3>1 DEF SelectOperation, ApplyOperation
  <2>7. Optimize!MentionedIn(p, body) \subseteq Int
    <3>1. Optimize!MentionedIn(p, body) = UsedIn(p, body) /\ body \subseteq DOMAIN p
      BY <2>4, <2>5
    <3>2. UsedIn(p, body) \subseteq Used(p)
      BY <3>1, UsedMore DEF Used
    <3>3. Used(p) \subseteq Handed
      BY <2>3, UsedTyped
    <3> QED BY <1>2, <3>1, <3>2, <3>3
  <2>8. Optimize!Own(p, i) = own
    <3> DEFINE M == Optimize!MentionedIn(p, body)
               mark == p[i].mark
    <3> HIDE DEF M, mark
    <3>1. \A b \in M : b >= mark <=> ~(b < mark)
      BY <2>6, <2>7 DEF M, mark
    <3>2. own = {b \in M : b >= mark}
      BY DEF M, mark
    <3>3. Optimize!Own(p, i) = {b \in M : ~(b < mark)}
      BY <2>5 DEF Optimize!Own, M, mark
    <3> QED BY <3>1, <3>2, <3>3
  <2> HIDE DEF own, body
  <2>9. /\ Optimize!Own(p, i) \cap Optimize!MentionedIn(p, DOMAIN p \ Optimize!Under(p, i)) = {}
        /\ \A m \in DOMAIN lists \ {n} :
             Optimize!Own(p, i) \cap Optimize!MentionedIn(lists[m], DOMAIN lists[m]) = {}
    BY <2>2, <2>5, <2>8
  <2> QED BY <2>9 DEF p
<1>6. Optimize!Sealed(lists)
  BY <1>5 DEF Optimize!Sealed
<1> QED BY <1>1, <1>3, <1>4, <1>6 DEF Optimize!IsRule, Optimize!Range, Range

\* The optimizer with what is proved about it.
P ==
  INSTANCE OptimizerProofs WITH
    scopes <- open, Rules <- {}, Binding <- 0 .. MaxSlots - 1,
    Attribute <- {"any"}, Value <- {}, Object <- {}, tupleItems <- <<>>

LEMMA OptimizerAssumptions ==
  /\ Inputs \subseteq 0 .. MaxSlots - 1
  /\ \A v \in DOMAIN <<>> : <<>>[v] \in Seq({})
<1>1. Len(InputNames) \in Nat
  BY InputNamesAssumption
<1> QED BY <1>1, BoundsAssumption DEF Inputs

LEMMA SameRule == ASSUME NEW r PROVE P!IsRule(r) <=> Optimize!IsRule(r)
BY SMT DEF P!SlotsOf, Optimize!SlotsOf, P!Range, Optimize!Range, P!Needs, Optimize!Needs,
             P!Mentioned, Optimize!Mentioned, P!BodyEnd, Optimize!BodyEnd, P!MentionedIn,
             Optimize!MentionedIn, P!Under, Optimize!Under, P!IsRule, Optimize!IsRule, P!IsList,
             Optimize!IsList, P!IsOperation, Optimize!IsOperation, P!Nests, Optimize!Nests,
             P!Sealed, Optimize!Sealed, P!IsItem, Optimize!IsItem, P!Own, Optimize!Own

LEMMA SameWhole == ASSUME NEW p PROVE P!Whole(p) = Optimize!Whole(p)
BY DEF P!Whole, Optimize!Whole, P!ToOrder, Optimize!ToOrder, P!Body, Optimize!Body,
             P!BodyEnd, Optimize!BodyEnd, P!Redundant, Optimize!Redundant

LEMMA SameOrders == P!BoundFirst <=> Optimize!BoundFirst
BY SMT DEF P!SlotsOf, Optimize!SlotsOf, P!Range, Optimize!Range, P!Needs, Optimize!Needs,
             P!Mentioned, Optimize!Mentioned, P!BodyEnd, Optimize!BodyEnd, P!MentionedIn,
             Optimize!MentionedIn, P!Under, Optimize!Under, P!BoundFirst, Optimize!BoundFirst,
             P!BindsFirst, Optimize!BindsFirst, P!Compares, Optimize!Compares,
             P!Reads, Optimize!Reads, P!BoundAt, Optimize!BoundAt, P!Scopes, Optimize!Scopes,
             P!IsBegin, Optimize!IsBegin, P!EndOf, Optimize!EndOf, P!Visible, Optimize!Visible,
             P!Writes, Optimize!Writes, P!ToSet, Optimize!ToSet, P!Binds, Optimize!Binds

LEMMA SameSteps == Optimize!Next => P!Next
<1>1. Optimize!Place => P!Place
  BY Zenon DEF P!SlotsOf, Optimize!SlotsOf, P!Range, Optimize!Range, P!Needs, Optimize!Needs,
             P!Mentioned, Optimize!Mentioned, P!BodyEnd, Optimize!BodyEnd, P!MentionedIn,
             Optimize!MentionedIn, P!Under, Optimize!Under, P!Place, Optimize!Place, P!Compiled,
             Optimize!Compiled, P!TupleItem, Optimize!TupleItem, P!Scope, Optimize!Scope, P!Last, Optimize!Last, P!Ready,
             Optimize!Ready, P!List, Optimize!List, P!Without, Optimize!Without, P!Writes,
             Optimize!Writes, P!Required, Optimize!Required, P!ToSet, Optimize!ToSet
<1>2. Optimize!EnterNot => P!EnterNot
  BY Zenon DEF P!SlotsOf, Optimize!SlotsOf, P!Range, Optimize!Range, P!Needs, Optimize!Needs,
             P!Mentioned, Optimize!Mentioned, P!BodyEnd, Optimize!BodyEnd, P!MentionedIn,
             Optimize!MentionedIn, P!Under, Optimize!Under, P!EnterNot, Optimize!EnterNot,
             P!Scope, Optimize!Scope, P!Last, Optimize!Last, P!Ready, Optimize!Ready, P!List, Optimize!List, P!Without,
             Optimize!Without, P!Required, Optimize!Required, P!ToOrder, Optimize!ToOrder, P!Body,
             Optimize!Body, P!Redundant, Optimize!Redundant
<1>3. Optimize!LeaveNot => P!LeaveNot
  BY Zenon DEF P!LeaveNot, Optimize!LeaveNot, P!Front, Optimize!Front, P!Scope, Optimize!Scope, P!Last, Optimize!Last
<1>4. Optimize!FinishList => P!FinishList
  BY Zenon DEF P!FinishList, Optimize!FinishList, P!Scope, Optimize!Scope, P!Last, Optimize!Last, P!Whole, Optimize!Whole,
             P!ToOrder, Optimize!ToOrder, P!Body, Optimize!Body, P!BodyEnd, Optimize!BodyEnd,
             P!Redundant, Optimize!Redundant
<1>5. Optimize!NoOrder => P!NoOrder
  BY Zenon DEF P!SlotsOf, Optimize!SlotsOf, P!Range, Optimize!Range, P!Needs, Optimize!Needs,
             P!Mentioned, Optimize!Mentioned, P!BodyEnd, Optimize!BodyEnd, P!MentionedIn,
             Optimize!MentionedIn, P!Under, Optimize!Under, P!NoOrder, Optimize!NoOrder, P!Scope,
             Optimize!Scope, P!Last, Optimize!Last, P!Ready, Optimize!Ready, P!List, Optimize!List, P!Required,
             Optimize!Required
<1> QED BY <1>1, <1>2, <1>3, <1>4, <1>5 DEF P!Next, Optimize!Next

\* Ordering starts with what the optimizer's invariant asks for, and keeps it.
LEMMA Starts == P!Started => P!IInv
BY OptimizerAssumptions, P!StartedGood

LEMMA StartsNext == P!Started' => P!IInv'
BY Starts, PTL

LEMMA OrderKeeps == P!IInv /\ [P!Next]_(P!vars) => P!IInv'
BY OptimizerAssumptions, P!NextKeeps

\* What both front ends and the optimizer keep together.
WholeInv ==
  /\ CompilingInv
  /\ pc = "front" => compiled = <<>>
  /\ pc # "front" => status = "accepted" /\ (Sealed => P!IInv)

LEMMA WholeBegins == CompilingInit => WholeInv
<1>1. CompilingInit => pc = "front" /\ compiled = <<>>
  BY DEF CompilingInit
<1> QED BY <1>1, CompilingBegins DEF WholeInv

LEMMA SameSealed ==
  ASSUME scopes' = scopes, lists' = lists
  PROVE  Sealed' = Sealed
BY DEF Sealed, ApplyList

LEMMA CompileCfgKeeps ==
  ASSUME WholeInv, CompileCfg
  PROVE  WholeInv'
<1>1. /\ status = "accepted" /\ UNCHANGED <<vars, front>>
      /\ rule' = lists /\ at' = 1 /\ given' = Inputs /\ ops' = <<>> /\ provided' = Inputs
      /\ open' = Optimize!Whole(lists[1]) /\ nextIndex' = 0 /\ compiled' = <<>> /\ pc' = "order"
  BY DEF CompileCfg
<1>2. CompilingInv'
  BY CompilingKeeps DEF WholeInv, CompilingNext
<1>3. Sealed' = Sealed
  BY <1>1, SameSealed DEF vars
<1>4. ASSUME Sealed PROVE P!IInv'
  <2>1. P!IsRule(lists)
    BY <1>1, <1>4, RuleGiven, SameRule DEF WholeInv
  <2>2. open' = P!Whole(lists[1])
    BY <1>1, SameWhole
  <2>3. P!Started'
    BY <1>1, <2>1, <2>2 DEF P!Started
  <2> QED BY <2>3, StartsNext
<1> QED BY <1>1, <1>2, <1>3, <1>4 DEF WholeInv, vars

LEMMA OrderStepKeeps ==
  ASSUME WholeInv, Order
  PROVE  WholeInv'
<1>1. Optimize!Next /\ UNCHANGED <<vars, front>>
  BY DEF Order
<1>2. pc = "order" /\ pc' # "front"
  <2>1. Optimize!Place \/ Optimize!EnterNot \/ Optimize!LeaveNot \/ Optimize!FinishList
          \/ Optimize!NoOrder
    BY <1>1 DEF Optimize!Next
  <2>2. CASE Optimize!Place
    BY <2>2 DEF Optimize!Place
  <2>3. CASE Optimize!EnterNot
    BY <2>3 DEF Optimize!EnterNot
  <2>4. CASE Optimize!LeaveNot
    BY <2>4 DEF Optimize!LeaveNot
  <2>5. CASE Optimize!FinishList
    BY <2>5 DEF Optimize!FinishList
  <2>6. CASE Optimize!NoOrder
    BY <2>6 DEF Optimize!NoOrder
  <2> QED BY <2>1, <2>2, <2>3, <2>4, <2>5, <2>6
<1>3. CompilingInv'
  BY CompilingKeeps DEF WholeInv, CompilingNext
<1>4. Sealed' = Sealed /\ status' = status
  BY <1>1, SameSealed DEF vars
<1>5. ASSUME Sealed PROVE P!IInv'
  <2>1. P!IInv /\ P!Next
    BY <1>1, <1>2, <1>5, SameSteps DEF WholeInv
  <2> QED BY <2>1, OrderKeeps
<1> QED BY <1>2, <1>3, <1>4, <1>5 DEF WholeInv

LEMMA WholeKeeps ==
  WholeInv /\ [CompilingNext]_<<vars, front, optimizerVars>> => WholeInv'
<1> SUFFICES ASSUME WholeInv, [CompilingNext]_<<vars, front, optimizerVars>>
             PROVE  WholeInv'
  OBVIOUS
<1>1. CASE MakeLists
  <2>1. CompilingInv'
    BY <1>1, CompilingKeeps DEF WholeInv, CompilingNext
  <2>2. pc = "front" /\ pc' = pc /\ compiled' = compiled
    BY <1>1 DEF MakeLists, optimizerVars
  <2> QED BY <2>1, <2>2 DEF WholeInv
<1>2. CASE CompileCfg
  BY <1>2, CompileCfgKeeps
<1>3. CASE Order
  BY <1>3, OrderStepKeeps
<1>4. CASE UNCHANGED <<vars, front, optimizerVars>>
  <2>1. CompilingInv'
    BY CompilingKeeps DEF WholeInv
  <2>2. Sealed' = Sealed /\ status' = status /\ pc' = pc /\ compiled' = compiled
    BY <1>4, SameSealed DEF vars, optimizerVars
  <2>3. UNCHANGED P!vars
    BY <1>4 DEF optimizerVars, P!vars
  <2>4. P!IInv => P!IInv'
    BY <2>3, OrderKeeps
  <2> QED BY <2>1, <2>2, <2>4 DEF WholeInv
<1> QED BY <1>1, <1>2, <1>3, <1>4 DEF CompilingNext

\* Whatever a rule consists of, whichever way it was made and in whatever order
\* its operations are put (compile and build_and_compile of src/src/compiler.rs):
\* as long as no binding is carried out of its negation, no operation reads a
\* slot that nothing has bound.
THEOREM CompiledIsSafe == CompilingSpec => []Safe
<1>1. WholeInv => Safe
  <2> SUFFICES ASSUME WholeInv, Sealed PROVE Optimize!BoundFirst
    BY DEF Safe
  <2>1. CASE pc = "front"
    <3>1. DOMAIN compiled = {}
      BY <2>1 DEF WholeInv
    <3> QED BY <3>1 DEF Optimize!BoundFirst
  <2>2. CASE pc # "front"
    <3>1. P!IInv
      BY <2>2 DEF WholeInv
    <3>2. P!BoundFirst
      BY <3>1 DEF P!IInv, P!Finished, P!BoundFirst
    <3> QED BY <3>2, SameOrders
  <2> QED BY <2>1, <2>2
<1> QED BY <1>1, WholeBegins, WholeKeeps, PTL DEF CompilingSpec

LEMMA SameLists == P!Compiles <=> Optimize!Compiles
BY SMT DEF P!Compiles, Optimize!Compiles, P!WellFormed, Optimize!WellFormed, P!IsBegin,
             Optimize!IsBegin, P!EndOf, Optimize!EndOf, P!ScopeEnds, Optimize!ScopeEnds, P!Scopes,
             Optimize!Scopes, P!Typed, Optimize!Typed, P!Writes, Optimize!Writes, P!Range,
             Optimize!Range, P!ToSet, Optimize!ToSet, P!Binds, Optimize!Binds, P!Closes, Optimize!Closes,
             P!Kinds, Optimize!Kinds, P!Tests, Optimize!Tests

LEMMA SamePanics == P!StuckForGood <=> Optimize!StuckForGood
BY SMT DEF P!SlotsOf, Optimize!SlotsOf, P!Range, Optimize!Range, P!Needs, Optimize!Needs,
             P!Mentioned, Optimize!Mentioned, P!BodyEnd, Optimize!BodyEnd, P!MentionedIn,
             Optimize!MentionedIn, P!Under, Optimize!Under, P!StuckForGood, Optimize!StuckForGood,
             P!Scope, Optimize!Scope, P!Last, Optimize!Last, P!List, Optimize!List, P!Required, Optimize!Required,
             P!Obtainable, Optimize!Obtainable, P!Provides, Optimize!Provides, P!Body,
             Optimize!Body

\* Every rule in text that is accepted is one the optimizer can be given, however
\* it is written: the lists it comes to are those the search relies on, nothing in
\* them is read before it is bound, and when there is no order for them
\* (expect("select op order solution") in src/src/compiler/optimizer.rs), there is
\* none to be found by another choice.
THEOREM TextCompiles ==
  CompilingSpec =>
    [](front = "text" => Optimize!Compiles /\ Optimize!BoundFirst /\ Optimize!StuckForGood)
<1>1. ASSUME WholeInv, front = "text"
      PROVE  Optimize!Compiles /\ Optimize!BoundFirst /\ Optimize!StuckForGood
  <2>1. CASE pc = "front"
    <3>1. DOMAIN compiled = {}
      BY <1>1, <2>1 DEF WholeInv
    <3> QED BY <2>1, <3>1 DEF Optimize!Compiles, Optimize!BoundFirst, Optimize!StuckForGood
  <2>2. CASE pc # "front"
    <3>1. Sealed
      BY <1>1, <2>2, AcceptedSealed DEF WholeInv
    <3>2. P!IInv
      BY <1>1, <2>2, <3>1 DEF WholeInv
    <3>3. P!Compiles /\ P!BoundFirst
      BY <3>2 DEF P!IInv, P!Finished, P!Compiles, P!BoundFirst
    <3>4. P!StuckForGood
      BY <3>2, OptimizerAssumptions, P!NoWrongChoice
    <3> QED BY <3>3, <3>4, SameLists, SameOrders, SamePanics
  <2> QED BY <2>1, <2>2
<1> QED BY <1>1, WholeBegins, WholeKeeps, PTL DEF CompilingSpec

-----------------------------------------------------------------------------
(* What the apply part reads has been written.  A slot is written by the   *)
(* select part, by an operation on the way, or at last by a tuple that is  *)
(* still open: its operation comes after those of its parts.               *)

\* The places of a list that are in no negation, and the slots used there.
Top(p) == {j \in DOMAIN p : \A k \in 1 .. j - 1 : p[k].op = "Not" => j > k + p[k].len}

TopUsed(p) == UsedIn(p, Top(p))

\* The places of an operation that makes something.
Makes(p) == {j \in DOMAIN p : p[j].op \in {"CreateObject", "CreateTuple"}}

\* The slots that are written before place j, on the way there, and by the end on
\* every way.
OnWay(p, j) == {p[k].binding : k \in {m \in Makes(p) : m < j /\ Branches(p, m) \subseteq Branches(p, j)}}

OnEveryWay(p) == {p[k].binding : k \in {m \in Makes(p) : Branches(p, m) = {}}}

\* Both branches are in the list.
Branched(p) ==
  \A c \in DOMAIN p : p[c].op = "Conditional" =>
    /\ p[c].then_len \in Nat /\ p[c].otherwise_len \in Nat
    /\ c + p[c].then_len + p[c].otherwise_len <= Len(p)

\* What an operation reads has been written, if the slots of base are written
\* before the list, and those that are pending by tuples still to be put at its end.
FedAt(p, j, base, pending) ==
  \A b \in Reads(p[j]) :
    b \in base \/ b \in OnWay(p, j) \/ b \in Around(p, j) \/ (Branches(p, j) = {} /\ b \in pending)

Fed(p, base, pending) == Branched(p) /\ \A j \in DOMAIN p : FedAt(p, j, base, pending)

\* The slots that what is open will have written when it is closed.
OpenSlots(f) ==
  CASE f.kind = "tuple" -> {f.slot} \cup ItemSlots(Range(f.items))
    [] f.kind \in {"enum", "calculation", "new", "removed"} -> {f.slot}
    [] OTHER -> {}

PendingIn(s) == UNION {OpenSlots(s[i]) : i \in DOMAIN s}

Pending == PendingIn(values)

\* What a list under way gives to those in it: a select list what it mentions out
\* of its negations, an apply list what it makes out of its conditionals.
GivenBy(p, kind) == IF kind \in SelectKinds THEN TopUsed(p) ELSE OnEveryWay(p)

Gives(k) == GivenBy(scopes[k].ops, scopes[k].kind)

First == IF lists = <<>> THEN {} ELSE TopUsed(lists[1])

\* What is written before the list of scope k, and where compilation is.
Base(k) == Inputs \cup First \cup UNION {Gives(i) : i \in 1 .. k - 1}

Reach == Base(Len(scopes)) \cup Gives(Len(scopes)) \cup Pending

\* The names stand for slots of S.
VisibleIn(visible, S) == \A n \in Names : visible[n] = NoSlot \/ visible[n] \in S

ScopeFed(k) ==
  /\ VisibleIn(scopes[k].visible, Base(k))
  /\ scopes[k].kind = "select" => k = 1 /\ lists = <<>>
  /\ scopes[k].kind \in ApplyKinds =>
       /\ Fed(scopes[k].ops, Base(k), IF k = Len(scopes) THEN Pending ELSE {})
       /\ Fed(scopes[k].then, Base(k), {})

\* A list without conditionals.
Plain(p) == \A i \in DOMAIN p : p[i].op # "Conditional"

\* The invariant: what a name stands for, and what is open, is within reach; in every list
\* under way what is read has been written.
AllFed ==
  /\ VisibleIn(env.visible, Reach)
  /\ values \in Seq(ValueFrame(Reach))
  /\ \A i \in DOMAIN values : Plain(values[i].after)
  /\ \A k \in DOMAIN scopes : ScopeFed(k)

FedInv ==
  status \in {"compiling", "accepted"} =>
    /\ AllFed
    /\ status = "accepted" => values = <<>> /\ scopes[1].kind = "apply"

-----------------------------------------------------------------------------
(* What a list gives to what follows it.                                   *)

LEMMA TopUsedJoined ==
  ASSUME NEW T, NEW p \in Seq(T), NEW q \in Seq(T)
  PROVE  /\ TopUsed(p) \subseteq TopUsed(p \o q)
         /\ Nested(p) /\ Negations(q) = {} => Used(q) \subseteq TopUsed(p \o q)
<1> DEFINE r == p \o q
<1>1. /\ PartAt(p, r, 0) /\ PartAt(q, r, Len(p))
      /\ DOMAIN r = 1 .. Len(p) + Len(q) /\ Len(p) \in Nat /\ Len(q) \in Nat
  BY Joined
<1> HIDE DEF r
<1>2. /\ DOMAIN p = 1 .. Len(p) /\ DOMAIN q = 1 .. Len(q)
      /\ \A i \in 1 .. Len(p) : r[i] = p[i] /\ i \in DOMAIN r
      /\ \A i \in 1 .. Len(q) : r[Len(p) + i] = q[i] /\ Len(p) + i \in DOMAIN r
  BY <1>1 DEF PartAt
<1>3. TopUsed(p) \subseteq TopUsed(r)
  <2> SUFFICES ASSUME NEW b, NEW j \in Top(p), b \in Uses(p[j]) PROVE b \in UsedIn(r, Top(r))
    BY InUsed DEF TopUsed
  <2>1. j \in 1 .. Len(p) /\ \A k \in 1 .. j - 1 : k \in 1 .. Len(p)
    BY <1>1, <1>2 DEF Top
  <2>2. j \in Top(r)
    BY <1>2, <2>1 DEF Top
  <2>3. b \in Uses(r[j])
    BY <1>2, <2>1
  <2> QED BY <2>2, <2>3, InUsed
<1>4. ASSUME Nested(p), Negations(q) = {} PROVE Used(q) \subseteq TopUsed(r)
  <2> SUFFICES ASSUME NEW b, NEW i \in DOMAIN q, b \in Uses(q[i]) PROVE b \in UsedIn(r, Top(r))
    BY InUsed DEF TopUsed, Used
  <2>1. ASSUME NEW k \in 1 .. Len(p) + i - 1, r[k].op = "Not" PROVE Len(p) + i > k + r[k].len
    <3>1. CASE k \in 1 .. Len(p)
      <4>1. p[k].len \in Nat /\ k + p[k].len <= Len(p) /\ r[k] = p[k]
        BY <1>2, <1>4, <2>1, <3>1 DEF Nested, Negations
      <4> QED BY <1>1, <1>2, <4>1
    <3>2. CASE k \notin 1 .. Len(p)
      <4>1. k - Len(p) \in 1 .. Len(q) /\ Len(p) + (k - Len(p)) = k
        BY <1>1, <1>2, <3>2
      <4>2. r[k] = q[k - Len(p)] /\ k - Len(p) \in DOMAIN q
        BY <1>2, <4>1
      <4> QED BY <1>4, <2>1, <4>2 DEF Negations
    <3> QED BY <3>1, <3>2
  <2>2. Len(p) + i \in Top(r) /\ b \in Uses(r[Len(p) + i])
    BY <1>2, <2>1 DEF Top
  <2> QED BY <2>2, InUsed
<1> QED BY <1>3, <1>4 DEF r

LEMMA TopUsedNegated ==
  ASSUME NEW T, NEW p \in Seq(T), NEW q \in Seq(T), NEW mark
  PROVE  TopUsed(p) \subseteq TopUsed(WithNot(p, mark, q))
<1> DEFINE n == [op |-> "Not", len |-> Len(q), mark |-> mark]
           U == T \cup {n}
           h == p \o <<n>>
<1>1. p \in Seq(U) /\ q \in Seq(U) /\ <<n>> \in Seq(U)
  BY MoreSequences
<1>2. WithNot(p, mark, q) = h \o q
  BY DEF WithNot
<1> HIDE DEF n, U
<1>3. h \in Seq(U)
  BY <1>1, ConcatProperties
<1>4. TopUsed(p) \subseteq TopUsed(h)
  BY <1>1, TopUsedJoined
<1> HIDE DEF h
<1>5. TopUsed(h) \subseteq TopUsed(h \o q)
  BY <1>1, <1>3, TopUsedJoined
<1> QED BY <1>2, <1>4, <1>5

\* The place is in this branch of the conditional at c.
Inside(p, j, c, way) ==
  /\ p[c].op = "Conditional"
  /\ IF way = "then" THEN j <= c + p[c].then_len
     ELSE c + p[c].then_len < j /\ j <= c + p[c].then_len + p[c].otherwise_len

Ways == {"then", "otherwise"}

LEMMA BranchesAre ==
  ASSUME NEW p, NEW j
  PROVE  Branches(p, j) \subseteq (1 .. j - 1) \X Ways
BY DEF Branches, Ways

\* A part of a list is as a whole in these branches of the conditionals before it.
Surrounds(outer, p, r, o) ==
  /\ outer \subseteq (1 .. o) \X Ways
  /\ \A i \in 1 .. Len(p), c \in 1 .. o, way \in Ways :
       <<c, way>> \in outer <=> Inside(r, o + i, c, way)

Shifted(branches, o) == {<<o + branch[1], branch[2]>> : branch \in branches}

LEMMA BranchesInPart ==
  ASSUME NEW p, NEW r, NEW o, PartAt(p, r, o), Branched(p), NEW outer, Surrounds(outer, p, r, o),
         NEW i \in 1 .. Len(p), NEW j, j = o + i
  PROVE  Branches(r, j) = outer \cup Shifted(Branches(p, i), o)
<1>1. o \in Nat /\ Len(p) \in Nat /\ i \in Nat /\ j \in Nat
  BY DEF PartAt
<1>2. ASSUME NEW c \in 1 .. i - 1, NEW way \in Ways
      PROVE  Inside(r, j, o + c, way) <=> Inside(p, i, c, way)
  <2>1. c \in DOMAIN p /\ r[o + c] = p[c]
    BY <1>1 DEF PartAt
  <2>2. CASE p[c].op = "Conditional"
    <3> DEFINE n == p[c].then_len
               m == p[c].otherwise_len
    <3>1. n \in Nat /\ m \in Nat
      BY <2>1, <2>2 DEF Branched
    <3> HIDE DEF n, m
    <3>2. /\ j <= o + c + n <=> i <= c + n
          /\ o + c + n < j <=> c + n < i
          /\ j <= o + c + n + m <=> i <= c + n + m
      BY <1>1, <3>1
    <3> QED BY <2>1, <3>2 DEF Inside, n, m
  <2>3. CASE p[c].op # "Conditional"
    BY <2>1, <2>3 DEF Inside
  <2> QED BY <2>2, <2>3
<1>3. ASSUME NEW c, NEW way, <<c, way>> \in Branches(r, j)
      PROVE  <<c, way>> \in outer \cup Shifted(Branches(p, i), o)
  <2>1. c \in 1 .. j - 1 /\ way \in Ways /\ Inside(r, j, c, way)
    BY ONLY <1>3 DEF Branches, Inside, Ways
  <2>2. CASE c \in 1 .. o
    BY <2>1, <2>2 DEF Surrounds
  <2>3. CASE c \notin 1 .. o
    <3>1. c - o \in 1 .. i - 1 /\ o + (c - o) = c
      BY <1>1, <2>1, <2>3
    <3>2. <<c - o, way>> \in Branches(p, i)
      <4>1. Inside(p, i, c - o, way)
        BY <1>2, <2>1, <3>1
      <4> QED BY ONLY <2>1, <3>1, <4>1 DEF Branches, Inside, Ways
    <3>3. <<o + (c - o), way>> \in Shifted(Branches(p, i), o)
      BY <3>2 DEF Shifted
    <3> QED BY <3>1, <3>3
  <2> QED BY <2>2, <2>3
<1>4. ASSUME NEW c, NEW way, <<c, way>> \in outer
      PROVE  <<c, way>> \in Branches(r, j)
  <2>1. c \in 1 .. o /\ way \in Ways
    BY <1>4 DEF Surrounds
  <2>2. Inside(r, j, c, way) /\ c \in 1 .. j - 1
    BY <1>1, <1>4, <2>1 DEF Surrounds
  <2> QED BY ONLY <2>1, <2>2 DEF Branches, Inside, Ways
<1>5. ASSUME NEW c, NEW way, <<c, way>> \in Branches(p, i)
      PROVE  <<o + c, way>> \in Branches(r, j)
  <2>1. c \in 1 .. i - 1 /\ way \in Ways /\ Inside(p, i, c, way)
    BY ONLY <1>5 DEF Branches, Inside, Ways
  <2>2. o + c \in 1 .. j - 1 /\ Inside(r, j, o + c, way)
    BY <1>1, <1>2, <2>1
  <2> QED BY ONLY <2>1, <2>2 DEF Branches, Inside, Ways
<1>6. Branches(r, j) \subseteq outer \cup Shifted(Branches(p, i), o)
  <2>1. Branches(r, j) \subseteq (1 .. j - 1) \X Ways
    BY BranchesAre
  <2> SUFFICES ASSUME NEW branch \in Branches(r, j)
               PROVE  branch \in outer \cup Shifted(Branches(p, i), o)
    OBVIOUS
  <2>2. branch = <<branch[1], branch[2]>>
    BY <2>1
  <2> QED BY <1>3, <2>2
<1>7. outer \subseteq Branches(r, j)
  <2>1. outer \subseteq (1 .. o) \X Ways
    BY DEF Surrounds
  <2> QED BY <1>4, <2>1
<1>8. Shifted(Branches(p, i), o) \subseteq Branches(r, j)
  <2>1. Branches(p, i) \subseteq (1 .. i - 1) \X Ways
    BY BranchesAre, Zenon
  <2> SUFFICES ASSUME NEW branch \in Branches(p, i)
               PROVE  <<o + branch[1], branch[2]>> \in Branches(r, j)
    BY DEF Shifted
  <2>2. branch = <<branch[1], branch[2]>>
    BY <2>1
  <2> QED BY <1>5, <2>2
<1> QED BY <1>6, <1>7, <1>8

\* What is in the same branches of a part is in the same branches of the list.
LEMMA BranchesKept ==
  ASSUME NEW p, NEW r, NEW o, PartAt(p, r, o), Branched(p), NEW outer, Surrounds(outer, p, r, o),
         NEW i \in 1 .. Len(p), NEW k \in 1 .. Len(p)
  PROVE  /\ Branches(p, k) \subseteq Branches(p, i) => Branches(r, o + k) \subseteq Branches(r, o + i)
         /\ Branches(p, k) = Branches(p, i) => Branches(r, o + k) = Branches(r, o + i)
         /\ Branches(p, i) = {} => Branches(r, o + i) = outer
         /\ outer \subseteq Branches(r, o + i)
<1> DEFINE j == o + i
           m == o + k
<1>1. j = o + i /\ m = o + k
  OBVIOUS
<1> HIDE DEF j, m
<1>2. /\ Branches(r, j) = outer \cup Shifted(Branches(p, i), o)
      /\ Branches(r, m) = outer \cup Shifted(Branches(p, k), o)
  BY <1>1, BranchesInPart
<1>3. /\ Branches(p, k) \subseteq Branches(p, i) => Branches(r, m) \subseteq Branches(r, j)
      /\ Branches(p, k) = Branches(p, i) => Branches(r, m) = Branches(r, j)
      /\ Branches(p, i) = {} => Branches(r, j) = outer
      /\ outer \subseteq Branches(r, j)
  BY <1>2 DEF Shifted
<1> QED BY <1>1, <1>3

\* What a part has from its own operations it has in the list.
LEMMA PartFed ==
  ASSUME NEW p, NEW r, NEW o, PartAt(p, r, o), Branched(p), NEW outer, Surrounds(outer, p, r, o),
         NEW base, NEW pending, NEW i \in 1 .. Len(p), FedAt(p, i, base, pending),
         NEW b \in Reads(r[o + i])
  PROVE  \/ b \in base \/ b \in OnWay(r, o + i) \/ b \in Around(r, o + i)
         \/ Branches(r, o + i) = outer /\ b \in pending
<1>1. /\ o \in Nat /\ Len(p) \in Nat /\ i \in DOMAIN p /\ r[o + i] = p[i]
      /\ DOMAIN p = 1 .. Len(p)
      /\ \A k \in 1 .. Len(p) : o + k \in DOMAIN r /\ r[o + k] = p[k]
  BY DEF PartAt
<1>2. \/ b \in base \/ b \in OnWay(p, i) \/ b \in Around(p, i)
      \/ Branches(p, i) = {} /\ b \in pending
  BY <1>1 DEF FedAt
<1>3. CASE b \in OnWay(p, i)
  <2>1. PICK k \in Makes(p) : k < i /\ Branches(p, k) \subseteq Branches(p, i) /\ b = p[k].binding
    BY <1>3 DEF OnWay
  <2>2. k \in 1 .. Len(p)
    BY <1>1, <2>1 DEF Makes
  <2>3. o + k \in Makes(r) /\ o + k < o + i /\ b = r[o + k].binding
    BY <1>1, <2>1, <2>2 DEF Makes
  <2>4. Branches(r, o + k) \subseteq Branches(r, o + i)
    BY <2>1, <2>2, BranchesKept
  <2> QED BY <2>3, <2>4 DEF OnWay
<1>4. CASE b \in Around(p, i)
  <2>1. PICK k \in DOMAIN p : /\ k >= i /\ p[k].op = "CreateTuple" /\ b = p[k].binding
                              /\ Branches(p, k) = Branches(p, i)
    BY <1>4 DEF Around
  <2>2. k \in 1 .. Len(p)
    BY <1>1, <2>1
  <2>3. /\ o + k \in DOMAIN r /\ o + k >= o + i /\ r[o + k].op = "CreateTuple"
        /\ b = r[o + k].binding
    BY <1>1, <2>1, <2>2
  <2>4. Branches(r, o + k) = Branches(r, o + i)
    BY <2>1, <2>2, BranchesKept
  <2> QED BY <2>3, <2>4 DEF Around
<1>5. CASE Branches(p, i) = {} /\ b \in pending
  BY <1>1, <1>5, BranchesKept
<1> QED BY <1>2, <1>3, <1>4, <1>5

\* What a part makes on every way is made on every way through the branches around it.
LEMMA PartMakes ==
  ASSUME NEW p, NEW r, NEW o, PartAt(p, r, o), Branched(p), NEW outer, Surrounds(outer, p, r, o),
         NEW b \in OnEveryWay(p)
  PROVE  \E k \in o + 1 .. o + Len(p) : k \in Makes(r) /\ b = r[k].binding /\ Branches(r, k) = outer
<1>1. PICK k \in Makes(p) : Branches(p, k) = {} /\ b = p[k].binding
  BY DEF OnEveryWay
<1>2. /\ k \in 1 .. Len(p) /\ o + k \in o + 1 .. o + Len(p) /\ r[o + k] = p[k] /\ o + k \in DOMAIN r
  BY <1>1 DEF Makes, PartAt
<1>3. o + k \in Makes(r) /\ b = r[o + k].binding
  BY <1>1, <1>2 DEF Makes
<1>4. Branches(r, o + k) = outer
  BY <1>1, <1>2, BranchesKept
<1> QED BY <1>2, <1>3, <1>4

\* The beginning of a list is in no branch of the list.
LEMMA BeginningSurrounded ==
  ASSUME NEW p, NEW r
  PROVE  Surrounds({}, p, r, 0)
BY DEF Surrounds

\* So is what comes after all branches.
LEMMA EndSurrounded ==
  ASSUME NEW p, NEW q, NEW r, NEW o, PartAt(p, r, 0), PartAt(q, r, o), o >= Len(p), Branched(p),
         \A c \in Len(p) + 1 .. o : r[c].op # "Conditional"
  PROVE  Surrounds({}, q, r, o)
<1>1. o \in Nat /\ Len(p) \in Nat
  BY DEF PartAt
<1> SUFFICES ASSUME NEW i \in 1 .. Len(q), NEW c \in 1 .. o, NEW way \in Ways,
                    Inside(r, o + i, c, way)
             PROVE  FALSE
  BY DEF Surrounds
<1>2. r[c].op = "Conditional" /\ c \in 1 .. Len(p)
  BY <1>1 DEF Inside
<1>3. r[c] = p[c] /\ c \in DOMAIN p
  BY <1>2 DEF PartAt
<1> DEFINE n == p[c].then_len
           m == p[c].otherwise_len
<1>4. n \in Nat /\ m \in Nat /\ c + n + m <= Len(p)
  BY <1>2, <1>3 DEF Branched
<1>5. o + i <= c + n \/ o + i <= c + n + m
  BY <1>3 DEF Inside
<1> HIDE DEF n, m
<1> QED BY <1>1, <1>2, <1>4, <1>5

TuplesIn(q) == {q[i].binding : i \in {k \in DOMAIN q : q[k].op = "CreateTuple"}}

\* Operations are put at the end of a list, tuples among them that were pending.
LEMMA FedJoined ==
  ASSUME NEW T, NEW p \in Seq(T), NEW q \in Seq(T), NEW base, NEW before, NEW after,
         Fed(p, base, before), \A i \in DOMAIN q : q[i].op # "Conditional",
         before \subseteq after \cup TuplesIn(q),
         \A i \in DOMAIN q : Reads(q[i]) \subseteq base \cup OnEveryWay(p) \cup after \cup TuplesIn(q)
  PROVE  /\ Fed(p \o q, base, after)
         /\ OnEveryWay(p) \cup Created(q) \subseteq OnEveryWay(p \o q)
<1> DEFINE r == p \o q
           n == Len(p)
<1>1. /\ PartAt(p, r, 0) /\ PartAt(q, r, n)
      /\ DOMAIN r = 1 .. n + Len(q) /\ Len(r) = n + Len(q) /\ n \in Nat /\ Len(q) \in Nat
  BY Joined
<1> HIDE DEF r, n
<1>2. /\ DOMAIN p = 1 .. n /\ DOMAIN q = 1 .. Len(q) /\ Len(p) = n
      /\ \A i \in 1 .. n : r[0 + i] = p[i] /\ r[i] = p[i]
      /\ \A i \in 1 .. Len(q) : r[n + i] = q[i] /\ n + i \in DOMAIN r
  BY <1>1 DEF PartAt, n
<1>3. Branched(p) /\ Branched(q)
  BY <1>2 DEF Fed, Branched
<1>4. Surrounds({}, p, r, 0)
  BY BeginningSurrounded
<1>5. Surrounds({}, q, r, n)
  <2>1. \A c \in n + 1 .. n : r[c].op # "Conditional"
    BY <1>1
  <2> QED BY <1>1, <1>2, <1>3, <2>1, EndSurrounded
<1>6. \A i \in 1 .. Len(q) : Branches(r, n + i) = {}
  <2> SUFFICES ASSUME NEW i \in 1 .. Len(q) PROVE Branches(r, n + i) = {}
    OBVIOUS
  <2>1. Branches(q, i) = {}
    <3>1. \A c \in 1 .. i - 1 : c \in DOMAIN q
      BY <1>1, <1>2
    <3> QED BY <3>1 DEF Branches
  <2> QED BY <1>1, <1>3, <1>5, <2>1, BranchesKept
<1>7. OnEveryWay(p) \subseteq OnEveryWay(r)
  <2> SUFFICES ASSUME NEW b \in OnEveryWay(p) PROVE b \in OnEveryWay(r)
    OBVIOUS
  <2>1. \E k \in 0 + 1 .. 0 + Len(p) : k \in Makes(r) /\ b = r[k].binding /\ Branches(r, k) = {}
    BY <1>1, <1>3, <1>4, PartMakes
  <2> QED BY <2>1 DEF OnEveryWay
<1>8. Created(q) \subseteq OnEveryWay(r)
  <2> SUFFICES ASSUME NEW i \in DOMAIN q, q[i].op \in {"CreateObject", "CreateTuple"}
               PROVE  q[i].binding \in OnEveryWay(r)
    BY DEF Created
  <2>1. n + i \in Makes(r) /\ r[n + i].binding = q[i].binding /\ Branches(r, n + i) = {}
    BY <1>2, <1>6 DEF Makes
  <2> QED BY <2>1 DEF OnEveryWay
<1>9. Branched(r)
  <2> SUFFICES ASSUME NEW c \in DOMAIN r, r[c].op = "Conditional"
               PROVE  /\ r[c].then_len \in Nat /\ r[c].otherwise_len \in Nat
                      /\ c + r[c].then_len + r[c].otherwise_len <= Len(r)
    BY DEF Branched
  <2>1. c \in 1 .. n
    <3> SUFFICES ASSUME c \notin 1 .. n PROVE FALSE
      OBVIOUS
    <3>1. c - n \in 1 .. Len(q) /\ n + (c - n) = c
      BY <1>1
    <3> QED BY <1>2, <3>1
  <2>2. r[c] = p[c]
    BY <1>2, <2>1
  <2> DEFINE k == p[c].then_len
             m == p[c].otherwise_len
  <2>3. k \in Nat /\ m \in Nat /\ c + k + m <= n
    BY <1>2, <1>3, <2>1, <2>2 DEF Branched
  <2> HIDE DEF k, m
  <2>4. c + k + m <= Len(r)
    BY <1>1, <2>1, <2>3
  <2> QED BY <2>2, <2>3, <2>4 DEF k, m
<1>10. ASSUME NEW j \in DOMAIN r PROVE FedAt(r, j, base, after)
  <2> SUFFICES ASSUME NEW b \in Reads(r[j])
               PROVE  \/ b \in base \/ b \in OnWay(r, j) \/ b \in Around(r, j)
                      \/ Branches(r, j) = {} /\ b \in after
    BY DEF FedAt
  <2>1. ASSUME Branches(r, j) = {}, b \in TuplesIn(q) PROVE b \in OnWay(r, j) \/ b \in Around(r, j)
    <3>1. PICK i \in 1 .. Len(q) : q[i].op = "CreateTuple" /\ b = q[i].binding
      BY <1>2, <2>1 DEF TuplesIn
    <3>2. /\ n + i \in DOMAIN r /\ r[n + i].op = "CreateTuple" /\ b = r[n + i].binding
          /\ Branches(r, n + i) = {} /\ n + i \in Int /\ j \in Int
      BY <1>1, <1>2, <1>6, <3>1
    <3>3. CASE n + i < j
      BY <2>1, <3>2, <3>3 DEF OnWay, Makes
    <3>4. CASE n + i >= j
      BY <2>1, <3>2, <3>4 DEF Around
    <3> QED BY <3>2, <3>3, <3>4
  <2>2. CASE j \in 1 .. n
    <3>1. FedAt(p, j, base, before) /\ 0 + j = j
      BY <1>2, <2>2 DEF Fed
    <3>2. \/ b \in base \/ b \in OnWay(r, 0 + j) \/ b \in Around(r, 0 + j)
          \/ Branches(r, 0 + j) = {} /\ b \in before
      BY <1>1, <1>2, <1>3, <1>4, <2>2, <3>1, PartFed
    <3> QED BY <2>1, <3>1, <3>2
  <2>3. CASE j \notin 1 .. n
    <3>1. j - n \in 1 .. Len(q) /\ n + (j - n) = j
      BY <1>1, <2>3
    <3>2. b \in base \cup OnEveryWay(p) \cup after \cup TuplesIn(q) /\ Branches(r, j) = {}
      BY <1>2, <1>6, <3>1
    <3>3. ASSUME b \in OnEveryWay(p) PROVE b \in OnWay(r, j)
      <4>1. PICK k \in 0 + 1 .. 0 + Len(p) :
              k \in Makes(r) /\ b = r[k].binding /\ Branches(r, k) = {}
        BY <1>1, <1>3, <1>4, <3>3, PartMakes
      <4>2. k < j
        BY <1>1, <1>2, <2>3, <4>1
      <4> QED BY <4>1, <4>2 DEF OnWay
    <3> QED BY <2>1, <3>2, <3>3
  <2> QED BY <2>2, <2>3
<1> QED BY <1>7, <1>8, <1>9, <1>10 DEF Fed, r

LEMMA JoinedAt ==
  ASSUME NEW T, NEW p \in Seq(T), NEW q \in Seq(T)
  PROVE  /\ p \o q \in Seq(T) /\ Len(p \o q) = Len(p) + Len(q)
         /\ PartAt(p, p \o q, 0) /\ PartAt(q, p \o q, Len(p))
BY Joined, ConcatProperties

\* Where the parts of a list with a conditional are.
ConditionalAt(p, then, otherwise, r) ==
  /\ Len(p) \in Nat /\ Len(then) \in Nat /\ Len(otherwise) \in Nat
  /\ Len(r) = Len(p) + 1 + Len(then) + Len(otherwise)
  /\ DOMAIN r = 1 .. Len(p) + 1 + Len(then) + Len(otherwise)
  /\ PartAt(p, r, 0) /\ PartAt(then, r, Len(p) + 1) /\ PartAt(otherwise, r, Len(p) + 1 + Len(then))
  /\ r[Len(p) + 1].op = "Conditional"
  /\ r[Len(p) + 1].then_len = Len(then) /\ r[Len(p) + 1].otherwise_len = Len(otherwise)

LEMMA ConditionalParts ==
  ASSUME NEW T, NEW p \in Seq(T), NEW then \in Seq(T), NEW otherwise \in Seq(T)
  PROVE  ConditionalAt(p, then, otherwise, WithConditional(p, then, otherwise))
<1> DEFINE c == [op |-> "Conditional", then_len |-> Len(then), otherwise_len |-> Len(otherwise)]
           one == <<c>>
           U == T \cup {c}
           n == Len(p)
           k == Len(then)
           m == Len(otherwise)
<1>1. c.op = "Conditional" /\ c.then_len = k /\ c.otherwise_len = m
  OBVIOUS
<1>2. WithConditional(p, then, otherwise) = p \o one \o then \o otherwise
  BY DEF WithConditional
<1> HIDE DEF c
<1>3. /\ p \in Seq(U) /\ then \in Seq(U) /\ otherwise \in Seq(U) /\ one \in Seq(U)
      /\ one[1] = c /\ Len(one) = 1
  BY MoreSequences
<1> HIDE DEF U, one
<1> DEFINE a == p \o one
           b == a \o then
           d == b \o otherwise
<1>5. /\ n \in Nat /\ k \in Nat /\ m \in Nat
      /\ n = Len(p) /\ k = Len(then) /\ m = Len(otherwise)
  BY LenProperties
<1> HIDE DEF n, k, m
<1>4. a = p \o one /\ b = a \o then /\ d = b \o otherwise /\ WithConditional(p, then, otherwise) = d
  BY <1>2
<1> HIDE DEF a, b, d
<1>6. a \in Seq(U) /\ Len(a) = n + 1 /\ PartAt(p, a, 0) /\ PartAt(one, a, n)
  <2>1. /\ p \o one \in Seq(U) /\ Len(p \o one) = Len(p) + Len(one)
        /\ PartAt(p, p \o one, 0) /\ PartAt(one, p \o one, Len(p))
    BY ONLY <1>3, JoinedAt
  <2> QED BY ONLY <1>3, <1>4, <1>5, <2>1
<1>7. b \in Seq(U) /\ Len(b) = n + 1 + k /\ PartAt(a, b, 0) /\ PartAt(then, b, n + 1)
  <2>1. /\ a \o then \in Seq(U) /\ Len(a \o then) = Len(a) + Len(then)
        /\ PartAt(a, a \o then, 0) /\ PartAt(then, a \o then, Len(a))
    BY ONLY <1>3, <1>6, JoinedAt
  <2> QED BY ONLY <1>3, <1>4, <1>5, <1>6, <2>1
<1>8. d \in Seq(U) /\ Len(d) = n + 1 + k + m /\ PartAt(b, d, 0) /\ PartAt(otherwise, d, n + 1 + k)
  <2>1. /\ b \o otherwise \in Seq(U) /\ Len(b \o otherwise) = Len(b) + Len(otherwise)
        /\ PartAt(b, b \o otherwise, 0) /\ PartAt(otherwise, b \o otherwise, Len(b))
    BY ONLY <1>3, <1>7, JoinedAt
  <2> QED BY ONLY <1>3, <1>4, <1>5, <1>7, <2>1
<1>9. DOMAIN d = 1 .. n + 1 + k + m
  BY <1>8, LenProperties
<1>10. \A i \in 1 .. n + 1 + k : d[i] = b[i]
  BY ONLY <1>5, <1>7, <1>8 DEF PartAt
<1>11. \A i \in 1 .. n + 1 : b[i] = a[i]
  BY ONLY <1>5, <1>6, <1>7 DEF PartAt
<1>12. a[n + 1] = c /\ \A i \in 1 .. n : a[i] = p[i]
  BY ONLY <1>3, <1>5, <1>6 DEF PartAt
<1>13. \A i \in 1 .. k : b[n + 1 + i] = then[i]
  BY ONLY <1>5, <1>7 DEF PartAt
<1>14. d[n + 1] = c
  <2>1. n + 1 \in 1 .. n + 1 /\ n + 1 \in 1 .. n + 1 + k
    BY ONLY <1>5
  <2> QED BY ONLY <1>10, <1>11, <1>12, <2>1
<1>17. DOMAIN p = 1 .. n /\ DOMAIN then = 1 .. k
  BY <1>5, LenProperties
<1>15. PartAt(p, d, 0)
  <2>1. \A i \in 1 .. n : i \in 1 .. n + 1 /\ i \in 1 .. n + 1 + k /\ 0 + i = i
    BY ONLY <1>5
  <2>2. \A i \in 1 .. n : d[0 + i] = p[i]
    BY ONLY <1>10, <1>11, <1>12, <2>1
  <2> QED BY <1>5, <1>8, <1>9, <1>17, <2>2 DEF PartAt
<1>16. PartAt(then, d, n + 1)
  <2>1. \A i \in 1 .. k : n + 1 + i \in 1 .. n + 1 + k
    BY ONLY <1>5
  <2>2. \A i \in 1 .. k : d[n + 1 + i] = then[i]
    BY ONLY <1>10, <1>13, <2>1
  <2> QED BY <1>5, <1>8, <1>9, <1>17, <2>2 DEF PartAt
<1> QED BY ONLY <1>1, <1>4, <1>5, <1>8, <1>9, <1>14, <1>15, <1>16 DEF ConditionalAt

\* A conditional is put at the end of a list: its branches have what the list has
\* on every way.
LEMMA FedConditional ==
  ASSUME NEW T, NEW p \in Seq(T), NEW then \in Seq(T), NEW otherwise \in Seq(T),
         NEW r, r = WithConditional(p, then, otherwise), NEW base, Fed(p, base, {}),
         Fed(then, base \cup OnEveryWay(p), {}), Fed(otherwise, base \cup OnEveryWay(p), {})
  PROVE  Fed(r, base, {}) /\ OnEveryWay(p) \subseteq OnEveryWay(r)
<1> DEFINE n == Len(p)
           k == Len(then)
           m == Len(otherwise)
           o == n + 1
           e == n + 1 + k
<1>2. /\ Len(p) = n /\ Len(then) = k /\ Len(otherwise) = m /\ o = n + 1 /\ e = n + 1 + k
      /\ DOMAIN p = 1 .. n /\ DOMAIN then = 1 .. k /\ DOMAIN otherwise = 1 .. m
  BY LenProperties
<1> HIDE DEF n, k, m, o, e
<1>1. /\ n \in Nat /\ k \in Nat /\ m \in Nat
      /\ Len(r) = n + 1 + k + m /\ DOMAIN r = 1 .. n + 1 + k + m
      /\ PartAt(p, r, 0) /\ PartAt(then, r, o) /\ PartAt(otherwise, r, e)
      /\ r[o].op = "Conditional" /\ r[o].then_len = k /\ r[o].otherwise_len = m
  <2>1. ConditionalAt(p, then, otherwise, r)
    BY ConditionalParts
  <2> QED BY ONLY <1>2, <2>1 DEF ConditionalAt
<1>3. /\ \A i \in 1 .. n : r[i] = p[i] /\ 0 + i = i
      /\ \A i \in 1 .. k : r[o + i] = then[i]
      /\ \A i \in 1 .. m : r[e + i] = otherwise[i]
  BY <1>1, <1>2 DEF PartAt
<1>4. Branched(p) /\ Branched(then) /\ Branched(otherwise)
  BY DEF Fed
<1>5. Surrounds({}, p, r, 0)
  BY BeginningSurrounded
\* The operations before the conditional and in its first branch end their
\* branches before what follows.
<1>6. ASSUME NEW c \in 1 .. n, NEW j \in Int, j > n, NEW way \in Ways, Inside(r, j, c, way)
      PROVE  FALSE
  <2> DEFINE x == p[c].then_len
             y == p[c].otherwise_len
  <2>1. r[c] = p[c] /\ p[c].op = "Conditional" /\ c \in DOMAIN p
    BY <1>2, <1>3, <1>6 DEF Inside
  <2>2. x \in Nat /\ y \in Nat /\ c + x + y <= n
    BY <1>2, <1>4, <2>1 DEF Branched
  <2>3. j <= c + x \/ j <= c + x + y
    BY <1>6, <2>1 DEF Inside
  <2> HIDE DEF x, y
  <2> QED BY <1>1, <1>6, <2>2, <2>3
<1>7. ASSUME NEW c \in o + 1 .. e, NEW j \in Int, j > e, NEW way \in Ways, Inside(r, j, c, way)
      PROVE  FALSE
  <2>1. c - o \in 1 .. k /\ o + (c - o) = c
    BY <1>1, <1>2
  <2> DEFINE d == c - o
             x == then[d].then_len
             y == then[d].otherwise_len
  <2>2. r[c] = then[d] /\ then[d].op = "Conditional" /\ d \in DOMAIN then
    BY <1>2, <1>3, <1>7, <2>1 DEF Inside
  <2>3. x \in Nat /\ y \in Nat /\ d + x + y <= k
    BY <1>2, <1>4, <2>2 DEF Branched
  <2>4. j <= c + x \/ j <= c + x + y
    BY <1>7, <2>2 DEF Inside
  <2> HIDE DEF x, y
  <2> QED BY <1>1, <1>2, <1>7, <2>1, <2>3, <2>4
<1>8. Surrounds({<<o, "then">>}, then, r, o)
  <2>1. ASSUME NEW i \in 1 .. k, NEW c \in 1 .. o, NEW way \in Ways
        PROVE  <<c, way>> \in {<<o, "then">>} <=> Inside(r, o + i, c, way)
    <3>1. CASE c = o /\ way = "then"
      <4>1. o + i <= o + k
        BY <1>1, <1>2
      <4> QED BY <1>1, <3>1, <4>1 DEF Inside
    <3>2. CASE c = o /\ way = "otherwise"
      <4>1. ~(o + k < o + i)
        BY <1>1, <1>2
      <4> QED BY <1>1, <3>2, <4>1 DEF Inside
    <3>3. CASE c # o
      <4>1. c \in 1 .. n /\ o + i \in Int /\ o + i > n
        BY <1>1, <1>2, <3>3
      <4> QED BY <1>6, <3>3, <4>1
    <3> QED BY <3>1, <3>2, <3>3 DEF Ways
  <2>2. {<<o, "then">>} \subseteq (1 .. o) \X Ways
    BY <1>1, <1>2 DEF Ways
  <2> QED BY <1>2, <2>1, <2>2 DEF Surrounds
<1>9. Surrounds({<<o, "otherwise">>}, otherwise, r, e)
  <2>1. ASSUME NEW i \in 1 .. m, NEW c \in 1 .. e, NEW way \in Ways
        PROVE  <<c, way>> \in {<<o, "otherwise">>} <=> Inside(r, e + i, c, way)
    <3>1. CASE c = o /\ way = "otherwise"
      <4>1. o + k < e + i /\ e + i <= o + k + m
        BY <1>1, <1>2
      <4> QED BY <1>1, <3>1, <4>1 DEF Inside
    <3>2. CASE c = o /\ way = "then"
      <4>1. ~(e + i <= o + k)
        BY <1>1, <1>2
      <4> QED BY <1>1, <3>2, <4>1 DEF Inside
    <3>3. CASE c # o
      <4>1. /\ c \in 1 .. n \/ c \in o + 1 .. e
            /\ e + i \in Int /\ e + i > n /\ e + i > e
        BY <1>1, <1>2, <3>3
      <4> QED BY <1>6, <1>7, <3>3, <4>1
    <3> QED BY <3>1, <3>2, <3>3 DEF Ways
  <2>2. {<<o, "otherwise">>} \subseteq (1 .. e) \X Ways
    BY <1>1, <1>2 DEF Ways
  <2> QED BY <1>2, <2>1, <2>2 DEF Surrounds
<1>10. Branched(r)
  <2> SUFFICES ASSUME NEW c \in DOMAIN r, r[c].op = "Conditional"
               PROVE  /\ r[c].then_len \in Nat /\ r[c].otherwise_len \in Nat
                      /\ c + r[c].then_len + r[c].otherwise_len <= Len(r)
    BY DEF Branched
  <2>1. c \in 1 .. n \/ c = o \/ c - o \in 1 .. k \/ c - e \in 1 .. m
    BY <1>1, <1>2
  <2>2. CASE c \in 1 .. n
    <3> DEFINE x == p[c].then_len
               y == p[c].otherwise_len
    <3>1. r[c] = p[c] /\ c \in DOMAIN p
      BY <1>2, <1>3, <2>2
    <3>2. x \in Nat /\ y \in Nat /\ c + x + y <= n
      BY <1>2, <1>4, <3>1 DEF Branched
    <3> HIDE DEF x, y
    <3>3. c + x + y <= Len(r)
      BY <1>1, <2>2, <3>2
    <3> QED BY <3>1, <3>2, <3>3 DEF x, y
  <2>3. CASE c = o
    <3>1. o + k + m <= Len(r)
      BY <1>1, <1>2
    <3> QED BY <1>1, <2>3, <3>1
  <2>4. CASE c - o \in 1 .. k
    <3> DEFINE d == c - o
               x == then[d].then_len
               y == then[d].otherwise_len
    <3>1. o + d = c
      BY <1>1, <1>2, <2>4
    <3>2. r[c] = then[d] /\ d \in DOMAIN then
      BY <1>2, <1>3, <2>4, <3>1
    <3>3. x \in Nat /\ y \in Nat /\ d + x + y <= k
      BY <1>2, <1>4, <3>2 DEF Branched
    <3> HIDE DEF x, y
    <3>4. c + x + y <= Len(r)
      BY <1>1, <1>2, <2>4, <3>3
    <3> QED BY <3>2, <3>3, <3>4 DEF x, y
  <2>5. CASE c - e \in 1 .. m
    <3> DEFINE d == c - e
               x == otherwise[d].then_len
               y == otherwise[d].otherwise_len
    <3>1. e + d = c
      BY <1>1, <1>2, <2>5
    <3>2. r[c] = otherwise[d] /\ d \in DOMAIN otherwise
      BY <1>2, <1>3, <2>5, <3>1
    <3>3. x \in Nat /\ y \in Nat /\ d + x + y <= m
      BY <1>2, <1>4, <3>2 DEF Branched
    <3> HIDE DEF x, y
    <3>4. c + x + y <= Len(r)
      BY <1>1, <1>2, <2>5, <3>3
    <3> QED BY <3>2, <3>3, <3>4 DEF x, y
  <2> QED BY <2>1, <2>2, <2>3, <2>4, <2>5
<1>11. ASSUME NEW b \in OnEveryWay(p)
       PROVE  b \in OnEveryWay(r) /\ \A j \in Int : j > n => b \in OnWay(r, j)
  <2>1. PICK c \in 0 + 1 .. 0 + Len(p) :
          c \in Makes(r) /\ b = r[c].binding /\ Branches(r, c) = {}
    BY <1>1, <1>4, <1>5, <1>11, PartMakes
  <2>2. b \in OnEveryWay(r)
    BY <2>1 DEF OnEveryWay
  <2>3. ASSUME NEW j \in Int, j > n PROVE b \in OnWay(r, j)
    <3>1. c < j
      BY <1>1, <1>2, <2>1, <2>3
    <3> QED BY <2>1, <3>1 DEF OnWay
  <2> QED BY <2>2, <2>3
<1>12. ASSUME NEW j \in DOMAIN r, NEW b \in Reads(r[j])
       PROVE  b \in base \/ b \in OnWay(r, j) \/ b \in Around(r, j)
  <2>1. j \in 1 .. n \/ j = o \/ j - o \in 1 .. k \/ j - e \in 1 .. m
    BY <1>1, <1>2
  <2>2. CASE j \in 1 .. n
    <3>1. FedAt(p, j, base, {}) /\ 0 + j = j
      BY <1>1, <1>2, <2>2 DEF Fed
    <3>2. \/ b \in base \/ b \in OnWay(r, 0 + j) \/ b \in Around(r, 0 + j)
          \/ Branches(r, 0 + j) = {} /\ b \in {}
      BY <1>1, <1>2, <1>4, <1>5, <1>12, <2>2, <3>1, PartFed
    <3> QED BY <3>1, <3>2
  <2>3. CASE j = o
    BY <1>1, <1>12, <2>3 DEF Reads
  <2>4. CASE j - o \in 1 .. k
    <3> DEFINE i == j - o
    <3>1. o + i = j /\ j > n /\ j \in Int /\ i \in 1 .. k
      <4>1. j \in Int /\ n \in Nat /\ o = n + 1 /\ k \in Nat /\ i \in 1 .. k /\ i = j - o
        BY <1>1, <1>2, <2>4
      <4> HIDE DEF i
      <4> QED BY ONLY <4>1
    <3>4. FedAt(then, i, base \cup OnEveryWay(p), {})
      <4>1. i \in DOMAIN then
        BY <1>2, <2>4
      <4> QED BY <4>1 DEF Fed
    <3>2. b \in Reads(r[o + i])
      BY <1>12, <3>1
    <3> HIDE DEF i
    <3>3. \/ b \in base \cup OnEveryWay(p) \/ b \in OnWay(r, o + i) \/ b \in Around(r, o + i)
          \/ Branches(r, o + i) = {<<o, "then">>} /\ b \in {}
      <4>1. PartAt(then, r, o) /\ Branched(then) /\ i \in 1 .. Len(then)
        BY <1>1, <1>2, <1>4, <3>1
      <4> QED BY <1>8, <3>2, <3>4, <4>1, PartFed
    <3> QED BY <1>11, <3>1, <3>3
  <2>5. CASE j - e \in 1 .. m
    <3> DEFINE i == j - e
    <3>1. e + i = j /\ j > n /\ j \in Int /\ i \in 1 .. m
      BY <1>1, <1>2, <2>5
    <3>4. FedAt(otherwise, i, base \cup OnEveryWay(p), {})
      <4>1. i \in DOMAIN otherwise
        BY <1>2, <2>5
      <4> QED BY <4>1 DEF Fed
    <3>2. b \in Reads(r[e + i])
      BY <1>12, <3>1
    <3> HIDE DEF i
    <3>3. \/ b \in base \cup OnEveryWay(p) \/ b \in OnWay(r, e + i) \/ b \in Around(r, e + i)
          \/ Branches(r, e + i) = {<<o, "otherwise">>} /\ b \in {}
      <4>1. PartAt(otherwise, r, e) /\ Branched(otherwise) /\ i \in 1 .. Len(otherwise)
        BY <1>1, <1>2, <1>4, <3>1
      <4> QED BY <1>9, <3>2, <3>4, <4>1, PartFed
    <3> QED BY <1>11, <3>1, <3>3
  <2> QED BY <2>1, <2>2, <2>3, <2>4, <2>5
<1>13. \A j \in DOMAIN r : FedAt(r, j, base, {})
  BY <1>12 DEF FedAt
<1> QED BY <1>10, <1>11, <1>13 DEF Fed

LEMMA NothingFed ==
  ASSUME NEW base, NEW pending
  PROVE  /\ Fed(<<>>, base, pending) /\ OnEveryWay(<<>>) = {} /\ TopUsed(<<>>) = {}
<1>1. DOMAIN <<>> = {}
  OBVIOUS
<1> QED BY <1>1 DEF Fed, Branched, OnEveryWay, Makes, TopUsed, Top, UsedIn

LEMMA FedMore ==
  ASSUME NEW p, NEW base, NEW base2, NEW pending, NEW pending2, Fed(p, base, pending),
         base \subseteq base2, pending \subseteq pending2
  PROVE  Fed(p, base2, pending2)
BY DEF Fed, FedAt

-----------------------------------------------------------------------------
(* Steps.                                                                  *)

LEMMA ReadsUsed ==
  ASSUME NEW c
  PROVE  Reads(c) \subseteq Uses(c)
<1>1. ASSUME NEW items PROVE Optimize!SlotsOf(items) = ItemSlots(items)
  BY DEF Optimize!SlotsOf, ItemSlots
<1>2. CASE c.op = "CreateTuple"
  BY <1>1, <1>2 DEF Reads, Uses
<1>3. CASE c.op \in {"Add", "Remove"}
  BY <1>1, <1>3 DEF Reads, Uses
<1>4. CASE c.op \notin {"CreateTuple", "Add", "Remove"}
  BY <1>4 DEF Reads
<1> QED BY <1>2, <1>3, <1>4

\* What was visible stays visible.
LEMMA VisibleMore ==
  ASSUME NEW visible, NEW S, NEW T, VisibleIn(visible, S), S \subseteq T
  PROVE  VisibleIn(visible, T)
BY DEF VisibleIn

\* What is before a list depends on the lists around it.
LEMMA BaseKept ==
  ASSUME First' = First, NEW m \in Int, \A k \in 1 .. m - 1 : scopes'[k] = scopes[k]
  PROVE  \A k \in 1 .. m : Base(k)' = Base(k)
<1> SUFFICES ASSUME NEW k \in 1 .. m PROVE Base(k)' = Base(k)
  OBVIOUS
<1>1. \A i \in 1 .. k - 1 : Gives(i)' = Gives(i)
  BY DEF Gives
<1> QED BY <1>1 DEF Base

\* What the list at place k gives is before the next.
LEMMA BaseNext ==
  ASSUME NEW k \in Nat \ {0}
  PROVE  Base(k + 1) = Base(k) \cup Gives(k)
<1>1. 1 .. (k + 1) - 1 = (1 .. k - 1) \cup {k}
  OBVIOUS
<1> QED BY <1>1 DEF Base

Gained(more) == IF Scope.kind \in SelectKinds THEN Used(more) ELSE Created(more)

\* Operations are pushed: nothing is out of reach that was within it.
LEMMA PushFed ==
  ASSUME IInv, Sorted, AllFed, status = "compiling", NEW S, NEW more \in Ops(S),
         Fits(more, Scope.kind), Plain(more),
         Scope.kind \in ApplyKinds => \A i \in DOMAIN more : Reads(more[i]) \subseteq Reach,
         Pending \subseteq
           Pending' \cup (IF Scope.kind \in SelectKinds THEN Used(more) ELSE TuplesIn(more)),
         scopes' = [scopes EXCEPT ![Len(scopes)].ops = @ \o more], lists' = lists
  PROVE  /\ Reach \cup Gained(more) \subseteq Reach'
         /\ Pending' \subseteq Reach'
         /\ \A k \in DOMAIN scopes' : ScopeFed(k)'
<1> SUFFICES ASSUME NEW n, n = Len(scopes)
             PROVE  /\ Reach \cup Gained(more) \subseteq Reach'
                    /\ Pending' \subseteq Reach'
                    /\ \A k \in DOMAIN scopes' : ScopeFed(k)'
  OBVIOUS
<1> DEFINE f == scopes[n]
           g == scopes'[n]
           X == Handed \cup S
           T == SelectOperation(X) \cup ApplyOperation(X)
<1>1. /\ n \in Nat \ {0} /\ DOMAIN scopes = 1 .. n
      /\ Scope = f
      /\ DOMAIN scopes' = 1 .. n /\ Scope' = g
      /\ \A k \in 1 .. n - 1 : scopes'[k] = scopes[k]
      /\ SameButOps(g, f, f.ops \o more)
      /\ n = Len(scopes) /\ Len(scopes') = n
  BY TopPushed
<1>2. f.ops \in Seq(T) /\ more \in Seq(T) /\ f.kind \in SelectKinds \cup ApplyKinds
  <2>1. f.ops \in Ops(Handed) /\ f.kind \in SelectKinds \cup ApplyKinds
    BY <1>1, Shape DEF ScopeFrame, SelectKinds, ApplyKinds
  <2>2. Ops(Handed) \subseteq Ops(X) /\ Ops(S) \subseteq Ops(X)
    BY MoreOps
  <2> QED BY <2>1, <2>2 DEF Ops
<1>3. /\ g.kind = f.kind /\ g.visible = f.visible /\ g.then = f.then /\ g.ops = f.ops \o more
      /\ Scope.kind = f.kind
  BY <1>1 DEF SameButOps
<1>4. n \in 1 .. n /\ n \in DOMAIN scopes /\ f = scopes[n] /\ g = scopes'[n]
  BY <1>1
<1> HIDE DEF X, T, f, g
<1>5. First' = First
  BY DEF First
<1>6. \A k \in 1 .. n : Base(k)' = Base(k)
  BY <1>1, <1>5, BaseKept
<1>7. /\ Gives(n) = GivenBy(f.ops, f.kind)
      /\ Gives(n)' = GivenBy(g.ops, g.kind)
  BY <1>4 DEF Gives
<1>8. ASSUME f.kind \in SelectKinds
      PROVE  Gives(n) \cup Gained(more) \subseteq Gives(n)'
  <2>1. Nested(f.ops) /\ Negations(more) = {}
    BY <1>3, <1>4, FitsNamed DEF Sorted, ScopesSorted, SortedScope
  <2>2. TopUsed(f.ops) \cup Used(more) \subseteq TopUsed(f.ops \o more)
    BY <1>2, <2>1, TopUsedJoined
  <2> QED BY <1>3, <1>7, <1>8, <2>2 DEF GivenBy, Gained
<1>9. ASSUME f.kind \notin SelectKinds
      PROVE  /\ Fed(g.ops, Base(n), Pending')
             /\ OnEveryWay(f.ops) \cup Created(more) \subseteq OnEveryWay(g.ops)
  <2>1. Scope.kind \in ApplyKinds /\ f.kind \in ApplyKinds
    BY <1>2, <1>3, <1>9
  <2>2. Fed(f.ops, Base(n), Pending)
    BY <1>1, <1>4, <2>1 DEF AllFed, ScopeFed
  <2>3. Pending \subseteq Pending' \cup TuplesIn(more)
    BY <1>3, <1>9
  <2>4. \A i \in DOMAIN more :
          Reads(more[i]) \subseteq Base(n) \cup OnEveryWay(f.ops) \cup Pending' \cup TuplesIn(more)
    BY <1>1, <1>7, <1>9, <2>1, <2>3 DEF Reach, GivenBy
  <2> DEFINE p == f.ops
             B == Base(n)
             before == Pending
             after == Pending'
  <2>5. /\ Fed(p, B, before) /\ before \subseteq after \cup TuplesIn(more)
        /\ \A i \in DOMAIN more :
             Reads(more[i]) \subseteq B \cup OnEveryWay(p) \cup after \cup TuplesIn(more)
        /\ p \in Seq(T) /\ \A i \in DOMAIN more : more[i].op # "Conditional"
    BY <1>2, <2>2, <2>3, <2>4 DEF Plain
  <2> HIDE DEF p, B, before, after
  <2>6. /\ Fed(p \o more, B, after)
        /\ OnEveryWay(p) \cup Created(more) \subseteq OnEveryWay(p \o more)
    BY <1>2, <2>5, FedJoined
  <2> QED BY <1>3, <2>6 DEF p, B, after
<1>10. Gives(n) \cup Gained(more) \subseteq Gives(n)'
  <2>1. CASE f.kind \in SelectKinds
    BY <1>8, <2>1
  <2>2. CASE f.kind \notin SelectKinds
    BY <1>3, <1>7, <1>9, <2>2 DEF GivenBy, Gained
  <2> QED BY <2>1, <2>2
<1>11. Reach' = Base(n)' \cup Gives(n)' \cup Pending' /\ Reach = Base(n) \cup Gives(n) \cup Pending
  BY <1>1 DEF Reach
<1>12. Pending \subseteq Pending' \cup Gained(more)
  BY DEF Gained, TuplesIn, Created
<1>13. Reach \cup Gained(more) \subseteq Reach' /\ Pending' \subseteq Reach'
  BY <1>4, <1>6, <1>10, <1>11, <1>12
<1>14. ASSUME NEW k \in 1 .. n PROVE ScopeFed(k)'
  <2>1. ScopeFed(k) /\ Base(k)' = Base(k)
    BY <1>1, <1>6 DEF AllFed
  <2>2. CASE k # n
    <3>1. scopes'[k] = scopes[k]
      BY <1>1, <2>2
    <3> QED BY <1>1, <2>1, <2>2, <3>1 DEF ScopeFed
  <2>3. CASE k = n
    <3>1. g.kind \in ApplyKinds => Fed(g.ops, Base(n), Pending')
      BY <1>3, <1>9 DEF ApplyKinds, SelectKinds
    <3> QED BY <1>1, <1>3, <1>4, <2>1, <2>3, <3>1 DEF ScopeFed
  <2> QED BY <2>2, <2>3
<1> QED BY <1>1, <1>13, <1>14

-----------------------------------------------------------------------------
(* What is pending.                                                        *)

LEMMA RangeJoined ==
  ASSUME NEW T, NEW p \in Seq(T), NEW q \in Seq(T)
  PROVE  Range(p) \cup Range(q) \subseteq Range(p \o q)
<1> DEFINE r == p \o q
<1>1. /\ Len(r) = Len(p) + Len(q) /\ DOMAIN r = 1 .. Len(r)
      /\ \A i \in 1 .. Len(p) : r[i] = p[i]
      /\ \A i \in 1 .. Len(q) : r[Len(p) + i] = q[i]
      /\ Len(p) \in Nat /\ Len(q) \in Nat /\ DOMAIN p = 1 .. Len(p) /\ DOMAIN q = 1 .. Len(q)
  BY ConcatProperties, LenProperties
<1> HIDE DEF r
<1>2. \A i \in DOMAIN p : i \in DOMAIN r /\ r[i] = p[i]
  BY <1>1
<1>3. \A i \in DOMAIN q : Len(p) + i \in DOMAIN r /\ r[Len(p) + i] = q[i]
  BY <1>1
<1> QED BY <1>2, <1>3 DEF Range, r

\* With more items what is open will write more.
LEMMA OpenMore ==
  ASSUME NEW S, NEW g \in ValueFrame(S), NEW items \in Seq(ItemOf(S)), NEW f,
         f = [g EXCEPT !.items = g.items \o items]
  PROVE  /\ OpenSlots(g) \subseteq OpenSlots(f)
         /\ g.kind = "tuple" => ItemSlots(Range(items)) \subseteq OpenSlots(f)
<1>1. f.kind = g.kind /\ f.slot = g.slot /\ f.items = g.items \o items
      /\ g.items \in Seq(ItemOf(S))
  BY DEF ValueFrame
<1>2. ItemSlots(Range(g.items)) \cup ItemSlots(Range(items)) \subseteq ItemSlots(Range(f.items))
  BY <1>1, RangeJoined DEF ItemSlots
<1> HIDE DEF ItemSlots
<1>3. CASE g.kind = "tuple"
  BY <1>1, <1>2, <1>3 DEF OpenSlots
<1>4. CASE g.kind # "tuple"
  BY <1>1, <1>4 DEF OpenSlots
<1> QED BY <1>3, <1>4

\* What is open gets items, and more is opened: nothing that was pending is lost.
NothingLost(s, items, opened, t) ==
  /\ PendingIn(s) \cup PendingIn(opened) \subseteq PendingIn(t)
  /\ items # <<>> /\ s[Len(s)].kind = "tuple" => ItemSlots(Range(items)) \subseteq PendingIn(t)

LEMMA PendingAfter ==
  ASSUME NEW S, NEW s \in Seq(ValueFrame(S)), NEW items \in Seq(ItemOf(S)),
         items = <<>> \/ s # <<>>, NEW opened \in Seq(ValueFrame(S)), NEW t,
         t = (IF items = <<>> THEN s ELSE [s EXCEPT ![Len(s)].items = @ \o items]) \o opened
  PROVE  NothingLost(s, items, opened, t)
<1> DEFINE r == IF items = <<>> THEN s ELSE [s EXCEPT ![Len(s)].items = @ \o items]
<1>1. Len(s) \in Nat /\ DOMAIN s = 1 .. Len(s) /\ \A i \in 1 .. Len(s) : s[i] \in ValueFrame(S)
  BY LenProperties, ElementOfSeq
<1>2. /\ r \in Seq(ValueFrame(S)) /\ Len(r) = Len(s)
      /\ \A i \in 1 .. Len(s) : OpenSlots(s[i]) \subseteq OpenSlots(r[i])
      /\ items # <<>> /\ s[Len(s)].kind = "tuple"
           => Len(s) \in 1 .. Len(s) /\ ItemSlots(Range(items)) \subseteq OpenSlots(r[Len(s)])
  <2>1. CASE items = <<>>
    BY <2>1
  <2>2. CASE items # <<>>
    <3> DEFINE g == s[Len(s)]
               f == [g EXCEPT !.items = g.items \o items]
    <3>0. Len(s) # 0
      BY <2>2, EmptySeq
    <3>1. Len(s) \in 1 .. Len(s) /\ g \in ValueFrame(S)
      <4>1. Len(s) \in 1 .. Len(s)
        BY ONLY <1>1, <3>0
      <4> QED BY ONLY <1>1, <4>1
    <3>2. r = [s EXCEPT ![Len(s)] = f]
      BY <2>2, Zenon
    <3>3. /\ OpenSlots(g) \subseteq OpenSlots(f)
          /\ g.kind = "tuple" => ItemSlots(Range(items)) \subseteq OpenSlots(f)
      BY <3>1, OpenMore
    <3>4. r \in Seq(ValueFrame(S))
      BY <2>2, Added
    <3> DEFINE U == ValueFrame(S) \cup {f}
    <3>5. s \in Seq(U) /\ f \in U
      BY MoreSequences
    <3> HIDE DEF f, U, r
    <3>6. Len(r) = Len(s) /\ \A j \in 1 .. Len(s) : r[j] = IF j = Len(s) THEN f ELSE s[j]
      BY <3>1, <3>2, <3>5, ExceptSeq
    <3>7. r[Len(s)] = f
      BY <3>1, <3>6
    <3>8. \A i \in 1 .. Len(s) : OpenSlots(s[i]) \subseteq OpenSlots(r[i])
      BY <3>3, <3>6
    <3> QED BY <3>1, <3>3, <3>4, <3>6, <3>7, <3>8
  <2> QED BY <2>1, <2>2
<1>3. t = r \o opened
  OBVIOUS
<1> HIDE DEF r
<1>4. /\ t \in Seq(ValueFrame(S)) /\ Len(t) = Len(r) + Len(opened)
      /\ \A i \in 1 .. Len(r) : t[i] = r[i]
      /\ \A i \in 1 .. Len(opened) : t[Len(r) + i] = opened[i]
  <2>1. r \in Seq(ValueFrame(S)) /\ opened \in Seq(ValueFrame(S))
    BY <1>2
  <2> QED BY ONLY <1>3, <2>1, ConcatProperties
<1>5. DOMAIN t = 1 .. Len(s) + Len(opened) /\ DOMAIN opened = 1 .. Len(opened) /\ Len(opened) \in Nat
  BY <1>2, <1>4, LenProperties
<1>6. \A i \in DOMAIN s : i \in DOMAIN t /\ OpenSlots(s[i]) \subseteq OpenSlots(t[i])
  <2>1. DOMAIN s = 1 .. Len(s) /\ Len(r) = Len(s) /\ Len(s) \in Nat
    BY <1>1, <1>2
  <2>2. \A i \in 1 .. Len(s) : i \in 1 .. Len(s) + Len(opened)
    BY ONLY <1>5, <2>1
  <2>3. \A i \in 1 .. Len(s) : i \in DOMAIN t /\ t[i] = r[i]
    BY <1>4, <1>5, <2>1, <2>2, Zenon
  <2> QED BY <1>2, <2>1, <2>3, Zenon
<1>7. \A i \in DOMAIN opened : \E j \in DOMAIN t : t[j] = opened[i]
  <2> SUFFICES ASSUME NEW i \in DOMAIN opened PROVE \E j \in DOMAIN t : t[j] = opened[i]
    OBVIOUS
  <2>1. Len(r) + i \in 1 .. Len(s) + Len(opened)
    <3>1. i \in 1 .. Len(opened) /\ Len(r) = Len(s) /\ Len(s) \in Nat
      BY <1>1, <1>2, <1>5
    <3> QED BY ONLY <1>5, <3>1
  <2>2. t[Len(r) + i] = opened[i]
    BY <1>4, <1>5, Zenon
  <2> QED BY <1>5, <2>1, <2>2, Zenon
<1>8. PendingIn(s) \cup PendingIn(opened) \subseteq PendingIn(t)
  <2>1. PendingIn(s) \subseteq PendingIn(t)
    BY <1>6, Zenon DEF PendingIn
  <2>2. ASSUME NEW i \in DOMAIN opened PROVE OpenSlots(opened[i]) \subseteq PendingIn(t)
    BY <1>7 DEF PendingIn
  <2>3. PendingIn(opened) \subseteq PendingIn(t)
    BY <2>2 DEF PendingIn
  <2> QED BY <2>1, <2>3
<1>9. ASSUME items # <<>>, s[Len(s)].kind = "tuple"
      PROVE  ItemSlots(Range(items)) \subseteq PendingIn(t)
  <2>1. /\ Len(s) \in 1 .. Len(s) /\ ItemSlots(Range(items)) \subseteq OpenSlots(r[Len(s)])
        /\ Len(r) = Len(s)
    BY <1>2, <1>9
  <2>2. t[Len(s)] = r[Len(s)] /\ Len(s) \in DOMAIN t
    BY <1>1, <1>4, <1>6, <2>1, Zenon
  <2>3. OpenSlots(t[Len(s)]) \subseteq PendingIn(t)
    BY <2>2 DEF PendingIn
  <2> QED BY <2>1, <2>2, <2>3
<1> QED BY <1>8, <1>9 DEF NothingLost

\* Without the innermost, its slots may be lost.
LEMMA PendingFront ==
  ASSUME NEW S, NEW s \in Seq(ValueFrame(S)), s # <<>>
  PROVE  PendingIn(s) \subseteq PendingIn(Front(s)) \cup OpenSlots(s[Len(s)])
<1>1. /\ Front(s) \in Seq(ValueFrame(S)) /\ Len(Front(s)) = Len(s) - 1 /\ Len(s) \in Nat \ {0}
      /\ \A i \in 1 .. Len(s) - 1 : Front(s)[i] = s[i]
  BY FrontOf
<1>2. DOMAIN s = 1 .. Len(s) /\ DOMAIN Front(s) = 1 .. Len(s) - 1
  BY <1>1, LenProperties
<1>3. \A i \in DOMAIN s : i = Len(s) \/ (i \in DOMAIN Front(s) /\ Front(s)[i] = s[i])
  BY <1>1, <1>2
<1> QED BY <1>3 DEF PendingIn

-----------------------------------------------------------------------------
(* One construct.                                                          *)

LEMMA StopFed ==
  ASSUME NEW why, why \notin {"compiling", "accepted"}, Stop(why)
  PROVE  FedInv'
BY DEF Stop, FedInv

\* What is read in time.
InTime(more) == Scope.kind \in ApplyKinds => \A i \in DOMAIN more : Reads(more[i]) \subseteq Reach

\* The slots a construct brings within reach.
Brought(more, items, opened) ==
  Reach \cup Gained(more) \cup PendingIn(opened)
    \cup (IF items # <<>> /\ Inner.kind = "tuple" THEN ItemSlots(Range(items)) ELSE {})

LEMMA StepFed ==
  ASSUME IInv, Sorted, AllFed, status = "compiling", NEW e, NEW more, NEW items, NEW opened,
         NEW S, Allowed(S, more, items, opened), Step(e, more, items, opened),
         VisibleIn(e.visible, S), S \subseteq Brought(more, items, opened),
         Plain(more), \A i \in DOMAIN opened : Plain(opened[i].after), InTime(more)
  PROVE  FedInv'
<1>1. CASE Len(e.slots) > MaxSlots
  BY <1>1, StopFed DEF Step
<1>2. CASE ~(Len(e.slots) > MaxSlots)
  <2>1. /\ env' = e
        /\ scopes' = [scopes EXCEPT ![Len(scopes)].ops = @ \o more]
        /\ values' = (IF items = <<>> THEN values
                      ELSE [values EXCEPT ![Len(values)].items = @ \o items]) \o opened
        /\ lists' = lists /\ status' = status
    BY <1>2, Zenon DEF Step
  <2> DEFINE X == Reach \cup S
             s == values
             t == values'
  <2>2. s \in Seq(ValueFrame(X)) /\ items \in Seq(ItemOf(X)) /\ opened \in Seq(ValueFrame(X))
    <3>1. Reach \subseteq X /\ S \subseteq X
      OBVIOUS
    <3> HIDE DEF X
    <3>2. Seq(ValueFrame(Reach)) \subseteq Seq(ValueFrame(X))
      BY <3>1, MoreFrames
    <3>3. Seq(ValueFrame(S)) \subseteq Seq(ValueFrame(X))
      BY <3>1, MoreFrames
    <3>4. Seq(ItemOf(S)) \subseteq Seq(ItemOf(X))
      BY <3>1, MoreItems, MoreSequences
    <3> QED BY <3>2, <3>3, <3>4 DEF Allowed, AllFed
  <2>3. items = <<>> \/ s # <<>>
    BY DEF Allowed
  <2>4. t = (IF items = <<>> THEN s ELSE [s EXCEPT ![Len(s)].items = @ \o items]) \o opened
    BY <2>1, Zenon
  <2> HIDE DEF X, s, t
  <2>5. t \in Seq(ValueFrame(X))
    BY ONLY <2>2, <2>3, <2>4, ValuesAfter
  <2>15. \A i \in DOMAIN t :
           \/ i \in DOMAIN s /\ t[i].kind = s[i].kind /\ t[i].after = s[i].after
           \/ \E j \in DOMAIN opened : t[i] = opened[j]
    BY ONLY <2>2, <2>3, <2>4, ValuesAfter
  <2>16. NothingLost(s, items, opened, t)
    BY ONLY <2>2, <2>3, <2>4, PendingAfter
  <2>6. PendingIn(s) \cup PendingIn(opened) \subseteq PendingIn(t)
    BY <2>16 DEF NothingLost
  <2>7. Pending = PendingIn(s) /\ Pending' = PendingIn(t) /\ Inner = s[Len(s)]
    BY DEF Pending, PendingIn, Inner, Last, s, t
  <2>8. more \in Ops(S) /\ Fits(more, Scope.kind)
    BY DEF Allowed
  <2>9. /\ Reach \cup Gained(more) \subseteq Reach'
        /\ Pending' \subseteq Reach'
        /\ \A k \in DOMAIN scopes' : ScopeFed(k)'
    BY <2>1, <2>6, <2>7, <2>8, PushFed DEF InTime
  <2>10. X \subseteq Reach'
    BY <2>6, <2>7, <2>9, <2>16 DEF Brought, X, NothingLost
  <2>11. VisibleIn(env'.visible, Reach')
    BY <2>1, <2>10, VisibleMore DEF X
  <2>12. values' \in Seq(ValueFrame(Reach'))
    BY <2>5, <2>10, MoreFrames DEF t
  <2>13. \A i \in DOMAIN values' : Plain(values'[i].after)
    <3>1. \A i \in DOMAIN t : Plain(t[i].after)
      BY <2>15 DEF AllFed, s, Plain
    <3> QED BY <3>1 DEF t
  <2>14. AllFed'
    BY <2>9, <2>11, <2>12, <2>13 DEF AllFed
  <2> QED BY <2>1, <2>14 DEF FedInv
<1> QED BY <1>1, <1>2

-----------------------------------------------------------------------------
(* What is open is closed.                                                 *)

LEMMA PlainJoined ==
  ASSUME NEW T, NEW p \in Seq(T), NEW q \in Seq(T), Plain(p), Plain(q)
  PROVE  Plain(p \o q)
<1> DEFINE names == {p[i].op : i \in DOMAIN p} \cup {q[i].op : i \in DOMAIN q}
<1>1. /\ \A i \in DOMAIN p : p[i].op \in names
      /\ \A i \in DOMAIN q : q[i].op \in names
      /\ "Conditional" \notin names
  BY DEF Plain
<1> HIDE DEF names
<1>2. \A i \in DOMAIN (p \o q) : (p \o q)[i].op \in names
  BY <1>1, JoinedNames
<1> QED BY <1>1, <1>2 DEF Plain

LEMMA FirstPushed ==
  ASSUME NEW T, NEW c \in T, NEW q \in Seq(T)
  PROVE  /\ Uses(c) \subseteq Used(<<c>> \o q)
         /\ c.op = "CreateTuple" => c.binding \in TuplesIn(<<c>> \o q)
<1> DEFINE p == <<c>>
           r == p \o q
<1>1. p \in Seq(T) /\ Len(p) = 1 /\ p[1] = c
  OBVIOUS
<1> HIDE DEF p
<1>2. 1 \in 1 .. Len(p)
  BY <1>1
<1>3. PartAt(p, r, 0)
  BY <1>1, Joined
<1>4. 0 + 1 = 1 /\ 1 \in DOMAIN r /\ r[1] = c
  BY <1>1, <1>2, <1>3 DEF PartAt
<1> HIDE DEF r
<1>5. Uses(c) \subseteq Used(r)
  BY <1>4 DEF Used, UsedIn
<1>6. c.op = "CreateTuple" => c.binding \in TuplesIn(r)
  BY <1>4 DEF TuplesIn
<1> QED BY <1>5, <1>6 DEF r, p

\* What it was to write is written.
LEMMA MadeWritten ==
  ASSUME NEW S, Inner \in ValueFrame(S), Inner.kind = "comparison" => Len(Inner.items) = 2,
         SortedValue(Inner, Scope.kind)
  PROVE  OpenSlots(Inner) \subseteq
           (IF Scope.kind \in SelectKinds THEN Used(Made \o Inner.after)
                                          ELSE TuplesIn(Made \o Inner.after))
<1> DEFINE q == Inner.after
           T == SelectOperation(S) \cup ApplyOperation(S)
           f == Inner
<1>1. Made \in Seq(T) /\ q \in Seq(T)
  BY MadeOps DEF Ops
<1>2. \A c : <<c>> \in Seq(T) => c \in T
  <2> SUFFICES ASSUME NEW c, <<c>> \in Seq(T) PROVE c \in T
    OBVIOUS
  <2> DEFINE s == <<c>>
  <2>1. s \in Seq(T) /\ Len(s) = 1 /\ s[1] = c
    OBVIOUS
  <2> HIDE DEF s, T
  <2> QED BY <2>1, ElementOfSeq
<1>3. \A c \in T : /\ Uses(c) \subseteq Used(<<c>> \o q)
                   /\ c.op = "CreateTuple" => c.binding \in TuplesIn(<<c>> \o q)
  BY <1>1, FirstPushed
<1>4. /\ f.kind \in SelectValues => Scope.kind \in SelectKinds
      /\ f.kind \notin SelectValues => Scope.kind \notin SelectKinds
      /\ Made = CASE f.kind = "tuple"              -> <<TupleOp(f.slot, f.items)>>
                  [] f.kind = "enum"               -> <<EnumOp(f.slot, f.items)>>
                  [] f.kind = "calculation"        -> <<CalculationOp(f.slot, f.items)>>
                  [] f.kind = "comparison"         -> <<CompareOp(f.items)>>
                  [] f.kind \in {"new", "removed"} -> <<CreateTuple(f.slot, f.items)>>
                  [] OTHER                         -> <<>>
  BY DEF SortedValue, SelectKinds, ApplyKinds, Made
<1> HIDE DEF q, T, f
<1> SUFFICES OpenSlots(f) \subseteq
               (IF Scope.kind \in SelectKinds THEN Used(Made \o q) ELSE TuplesIn(Made \o q))
  BY DEF f, q
<1>5. CASE f.kind = "tuple"
  <2> DEFINE c == TupleOp(f.slot, f.items)
  <2>1. Made = <<c>> /\ Scope.kind \in SelectKinds
    BY <1>4, <1>5 DEF SelectValues
  <2>2. OpenSlots(f) \subseteq Uses(c)
    BY <1>5 DEF OpenSlots, Uses, TupleOp
  <2> HIDE DEF c
  <2> QED BY <1>1, <1>2, <1>3, <2>1, <2>2
<1>6. CASE f.kind = "enum"
  <2> DEFINE c == EnumOp(f.slot, f.items)
  <2>1. Made = <<c>> /\ Scope.kind \in SelectKinds
    BY <1>4, <1>6 DEF SelectValues
  <2>2. OpenSlots(f) \subseteq Uses(c)
    BY <1>6 DEF OpenSlots, Uses, EnumOp
  <2> HIDE DEF c
  <2> QED BY <1>1, <1>2, <1>3, <2>1, <2>2
<1>7. CASE f.kind = "calculation"
  <2> DEFINE c == CalculationOp(f.slot, f.items)
  <2>1. Made = <<c>> /\ Scope.kind \in SelectKinds
    BY <1>4, <1>7 DEF SelectValues
  <2>2. OpenSlots(f) \subseteq Uses(c)
    BY <1>7 DEF OpenSlots, Uses, CalculationOp
  <2> HIDE DEF c
  <2> QED BY <1>1, <1>2, <1>3, <2>1, <2>2
<1>8. CASE f.kind \in {"new", "removed"}
  <2> DEFINE c == CreateTuple(f.slot, f.items)
  <2>1. Made = <<c>> /\ Scope.kind \notin SelectKinds
    BY <1>4, <1>8 DEF SelectValues
  <2>2. OpenSlots(f) = {c.binding} /\ c.op = "CreateTuple"
    BY <1>8 DEF OpenSlots, CreateTuple
  <2> HIDE DEF c
  <2> QED BY <1>1, <1>2, <1>3, <2>1, <2>2
<1>9. CASE f.kind \notin {"tuple", "enum", "calculation", "new", "removed"}
  BY <1>9 DEF OpenSlots
<1> QED BY <1>5, <1>6, <1>7, <1>8, <1>9

LEMMA CloseInnerFed ==
  ASSUME IInv, Sorted, AllFed, status = "compiling", values # <<>>,
         Inner.kind = "comparison" => Len(Inner.items) = 2,
         CloseInner
  PROVE  FedInv'
<1>1. /\ scopes' = [scopes EXCEPT ![Len(scopes)].ops = @ \o (Made \o Inner.after)]
      /\ values' = Front(values)
      /\ env' = env /\ lists' = lists /\ status' = status
  BY DEF CloseInner
<1> DEFINE S == Reach
           more == Made \o Inner.after
<1>2. Len(values) \in DOMAIN values /\ DOMAIN values = 1 .. Len(values)
  BY Shape, LenProperties
<1>3. values \in Seq(ValueFrame(S))
  BY DEF AllFed
<1>4. Inner \in ValueFrame(S) /\ SortedValue(Inner, Scope.kind) /\ Plain(Inner.after)
      /\ Inner = values[Len(values)]
  BY <1>2, <1>3, ElementOfSeq DEF Sorted, ValuesSorted, Inner, Last, AllFed
<1> HIDE DEF S
<1>5. more \in Ops(S) /\ Fits(more, Scope.kind)
  BY <1>4, MadeFits
<1>6. Plain(more)
  <2>1. Plain(Made)
    BY DEF Plain, Made, TupleOp, EnumOp, CalculationOp, CompareOp, CreateTuple
  <2>2. Made \in Ops(S) /\ Inner.after \in Ops(S)
    BY <1>4, MadeOps
  <2> QED BY <1>4, <2>1, <2>2, PlainJoined DEF Ops
<1>7. OpenSlots(Inner) \subseteq
        (IF Scope.kind \in SelectKinds THEN Used(more) ELSE TuplesIn(more))
  BY <1>4, MadeWritten
<1>8. scopes' = [scopes EXCEPT ![Len(scopes)].ops = @ \o more]
  BY <1>1
<1> HIDE DEF more
<1>9. \A i \in DOMAIN more : Reads(more[i]) \subseteq Reach
  <2> SUFFICES ASSUME NEW i \in DOMAIN more PROVE Reads(more[i]) \subseteq S
    BY DEF S
  <2>1. more[i] \in SelectOperation(S) \cup ApplyOperation(S)
    BY <1>5, ElementOfSeq, LenProperties DEF Ops
  <2> QED BY <2>1, UsesTyped, ReadsUsed
<1>10. Pending \subseteq Pending' \cup OpenSlots(Inner)
  BY <1>1, <1>3, <1>4, PendingFront DEF Pending
<1>11. /\ Reach \cup Gained(more) \subseteq Reach'
       /\ Pending' \subseteq Reach'
       /\ \A k \in DOMAIN scopes' : ScopeFed(k)'
  <2>1. Pending \subseteq
          Pending' \cup (IF Scope.kind \in SelectKinds THEN Used(more) ELSE TuplesIn(more))
    BY <1>7, <1>10
  <2> QED BY <1>1, <1>5, <1>6, <1>8, <1>9, <2>1, PushFed
<1>12. values' \in Seq(ValueFrame(Reach'))
  <2>1. values' \in Seq(ValueFrame(S)) /\ S \subseteq Reach'
    BY <1>1, <1>3, <1>11, FrontOf DEF S
  <2> QED BY <2>1, MoreFrames
<1>13. \A i \in DOMAIN values' : Plain(values'[i].after)
  <2>1. /\ Front(values) \in Seq(ValueFrame(S)) /\ Len(Front(values)) = Len(values) - 1
        /\ \A i \in 1 .. Len(values) - 1 : Front(values)[i] = values[i]
    BY <1>3, FrontOf
  <2>2. DOMAIN Front(values) = 1 .. Len(values) - 1
    BY <2>1, LenProperties
  <2>3. \A i \in DOMAIN values' : i \in DOMAIN values /\ values'[i] = values[i]
    BY <1>1, <1>2, <2>1, <2>2
  <2> QED BY <2>3 DEF AllFed
<1>14. VisibleIn(env'.visible, Reach')
  BY <1>1, <1>11, VisibleMore DEF AllFed
<1>15. AllFed'
  BY <1>11, <1>12, <1>13, <1>14 DEF AllFed
<1> QED BY <1>1, <1>15 DEF FedInv

-----------------------------------------------------------------------------
(* Lists begin and end.                                                    *)

LEMMA NothingPending ==
  ASSUME values = <<>>
  PROVE  Pending = {}
<1>1. DOMAIN <<>> = {}
  OBVIOUS
<1> QED BY <1>1 DEF Pending, PendingIn

\* What all that is before a list, and no value that is open, makes of the invariant.
LEMMA FedWithout ==
  ASSUME values = <<>>, VisibleIn(env.visible, Reach), \A k \in DOMAIN scopes : ScopeFed(k)
  PROVE  AllFed
<1>1. values \in Seq(ValueFrame(Reach))
  BY EmptySeq
<1>2. DOMAIN <<>> = {}
  OBVIOUS
<1> QED BY <1>1, <1>2 DEF AllFed

LEMMA OpenScopeFed ==
  ASSUME IInv, AllFed, status = "compiling", NEW kind \in {"not", "condition"},
         values = <<>>, OpenScope(kind, <<>>)
  PROVE  FedInv'
<1> SUFFICES ASSUME NEW n, n = Len(scopes) PROVE FedInv'
  OBVIOUS
<1> DEFINE f == NewScope(kind, env, <<>>)
<1>1. /\ scopes' = Append(scopes, f) /\ values' = values /\ lists' = lists /\ env' = env
      /\ status' = status
  BY DEF OpenScope
<1>2. f.kind = kind /\ f.visible = env.visible /\ f.ops = <<>> /\ f.then = <<>>
  BY DEF NewScope
<1> HIDE DEF f
<1>3. /\ n \in Nat \ {0} /\ DOMAIN scopes = 1 .. n
      /\ DOMAIN scopes' = 1 .. n + 1
      /\ \A k \in 1 .. n : scopes'[k] = scopes[k]
      /\ scopes'[n + 1] = f /\ Len(scopes') = n + 1
  BY <1>1, TopOpened
<1>4. Pending = {} /\ Pending' = {}
  <2>1. values = <<>> => Pending = {}
    BY NothingPending
  <2>2. (values = <<>> => Pending = {})'
    BY NothingPending, PTL
  <2> QED BY <1>1, <2>1, <2>2
<1>5. First' = First
  BY <1>1 DEF First
<1>6. \A k \in 1 .. n + 1 : Base(k)' = Base(k)
  <2> DEFINE m == n + 1
  <2>1. m \in Int /\ \A k \in 1 .. m - 1 : scopes'[k] = scopes[k]
    BY <1>3
  <2> HIDE DEF m
  <2>2. \A k \in 1 .. m : Base(k)' = Base(k)
    BY <1>5, <2>1, BaseKept
  <2> QED BY <2>2 DEF m
<1>7. Base(n + 1)' = Reach
  <2>1. Base(n + 1) = Base(n) \cup Gives(n)
    BY <1>3, BaseNext
  <2>2. Base(n + 1)' = Base(n + 1)
    BY <1>3, <1>6
  <2> QED BY <1>4, <2>1, <2>2 DEF Reach
<1>8. Reach' = Base(n + 1)' \cup Gives(n + 1)' \cup Pending'
  BY <1>3 DEF Reach
<1>9. VisibleIn(env'.visible, Reach')
  BY <1>1, <1>7, <1>8, VisibleMore DEF AllFed
<1>10. ASSUME NEW k \in 1 .. n + 1 PROVE ScopeFed(k)'
  <2>1. CASE k = n + 1
    BY <1>1, <1>2, <1>3, <1>7, <2>1 DEF ScopeFed, AllFed, ApplyKinds
  <2>2. CASE k # n + 1
    <3>1. k \in 1 .. n /\ scopes'[k] = scopes[k] /\ Base(k)' = Base(k) /\ ScopeFed(k)
      BY <1>3, <1>6, <2>2 DEF AllFed
    <3> QED BY <1>1, <1>3, <1>4, <2>2, <3>1 DEF ScopeFed
  <2> QED BY <2>1, <2>2
<1>11. AllFed'
  <2>1. values = <<>> /\ VisibleIn(env.visible, Reach) /\ (\A k \in DOMAIN scopes : ScopeFed(k))
          => AllFed
    BY FedWithout
  <2>2. (values = <<>> /\ VisibleIn(env.visible, Reach) /\ (\A k \in DOMAIN scopes : ScopeFed(k))
          => AllFed)'
    BY FedWithout, PTL
  <2> QED BY <1>1, <1>3, <1>9, <1>10, <2>2
<1> QED BY <1>1, <1>11 DEF FedInv

\* A list is followed by another.
LEMMA NextPartFed ==
  ASSUME IInv, AllFed, status = "compiling", NEW kind \in {"then", "otherwise"}, NEW then,
         Fed(then, Base(Len(scopes)), {}),
         scopes' = Append(Front(scopes), NewScope(kind, Restored, then)),
         env' = Restored, values' = <<>>, First' = First, lists = <<>> => lists' = <<>>
  PROVE  AllFed'
<1> SUFFICES ASSUME NEW n, n = Len(scopes) PROVE AllFed'
  OBVIOUS
<1> DEFINE f == NewScope(kind, Restored, then)
<1>1. env'.visible = Scope.visible
  BY RestoredGood
<1>2. f.kind = kind /\ f.visible = Scope.visible /\ f.ops = <<>> /\ f.then = then
  BY RestoredGood DEF NewScope
<1>3. scopes' = Append(Front(scopes), f)
  OBVIOUS
<1> HIDE DEF f
<1>4. /\ n \in Nat \ {0} /\ DOMAIN scopes = 1 .. n /\ Scope = scopes[n]
      /\ DOMAIN scopes' = 1 .. n
      /\ \A k \in 1 .. n - 1 : scopes'[k] = scopes[k]
      /\ scopes'[n] = f /\ Len(scopes') = n
  BY <1>3, TopFollowed
<1>5. (values = <<>> => Pending = {})'
  <2>1. values = <<>> => Pending = {}
    BY NothingPending
  <2> QED BY NothingPending, PTL
<1>6. Pending' = {}
  BY <1>5
<1>7. \A k \in 1 .. n : Base(k)' = Base(k)
  <2>1. First' = First /\ n \in Int /\ \A k \in 1 .. n - 1 : scopes'[k] = scopes[k]
    BY <1>4
  <2> QED BY ONLY <2>1, BaseKept
<1>8. n \in DOMAIN scopes /\ Base(n)' = Base(n)
  BY <1>4, <1>7
<1>9. VisibleIn(Scope.visible, Base(n))
  BY <1>4, <1>8 DEF AllFed, ScopeFed
<1>10. Reach' = Base(n)' \cup Gives(n)' \cup Pending'
  BY <1>4 DEF Reach
<1>11. VisibleIn(env'.visible, Reach')
  BY <1>1, <1>8, <1>9, <1>10, VisibleMore
<1>12. ASSUME NEW k \in 1 .. n PROVE ScopeFed(k)'
  <2>1. CASE k = n
    <3>1. Fed(<<>>, Base(n), {}) /\ Fed(then, Base(n), {})
      BY NothingFed
    <3> QED BY <1>2, <1>4, <1>6, <1>8, <1>9, <2>1, <3>1 DEF ScopeFed
  <2>2. CASE k # n
    <3>1. k \in 1 .. n - 1 /\ scopes'[k] = scopes[k] /\ Base(k)' = Base(k) /\ ScopeFed(k)
      BY <1>4, <1>7, <2>2 DEF AllFed
    <3> QED BY <1>4, <2>2, <3>1 DEF ScopeFed
  <2> QED BY <2>1, <2>2
<1>13. (values = <<>> /\ VisibleIn(env.visible, Reach) /\ (\A k \in DOMAIN scopes : ScopeFed(k))
          => AllFed)'
  <2>1. values = <<>> /\ VisibleIn(env.visible, Reach) /\ (\A k \in DOMAIN scopes : ScopeFed(k))
          => AllFed
    BY FedWithout
  <2> QED BY FedWithout, PTL
<1> QED BY <1>4, <1>11, <1>12, <1>13

LEMMA CloseThenFed ==
  ASSUME IInv, AllFed, CloseThen
  PROVE  FedInv'
<1>1. /\ status = "compiling" /\ status' = status /\ Scope.kind = "then" /\ lists' = lists
      /\ scopes' = Append(Front(scopes), NewScope("otherwise", Restored, Scope.ops))
      /\ env' = Restored /\ values' = <<>> /\ values = <<>>
  BY DEF CloseThen
<1>2. Len(scopes) \in DOMAIN scopes /\ Scope = scopes[Len(scopes)]
  BY <1>1, Shape, LenProperties
<1>3. Fed(Scope.ops, Base(Len(scopes)), {})
  BY <1>1, <1>2, NothingPending DEF AllFed, ScopeFed, ApplyKinds
<1>4. First' = First
  BY <1>1 DEF First
<1>5. AllFed'
  BY <1>1, <1>3, <1>4, NextPartFed
<1> QED BY <1>1, <1>5 DEF FedInv

LEMMA CloseConditionFed ==
  ASSUME IInv, Sorted, AllFed, CloseCondition
  PROVE  FedInv'
<1>1. /\ status = "compiling" /\ status' = status /\ Scope.kind = "condition"
      /\ lists' = Append(lists, Scope.ops)
      /\ scopes' = Append(Front(scopes), NewScope("then", Restored, <<>>))
      /\ env' = Restored /\ values' = <<>>
  BY DEF CloseCondition
<1>2. lists # <<>>
  <2>1. Len(scopes) > 1 /\ Len(scopes) \in Nat /\ DOMAIN scopes = 1 .. Len(scopes)
    BY <1>1, Shape, LenProperties
  <2>2. Len(scopes) - 1 \in 1 .. Len(scopes) - 1 /\ Len(scopes) - 1 \in DOMAIN scopes
    BY <2>1
  <2>3. scopes[Len(scopes) - 1].kind \in ApplyKinds
    BY <1>1, <2>2, ApplyAround DEF Sorted
  <2> QED BY <2>2, <2>3 DEF Sorted, ScopesSorted
<1>3. lists' # <<>> /\ lists'[1] = lists[1]
  <2>1. lists \in Seq(Ops(Handed)) /\ Scope.ops \in Ops(Handed)
    BY <1>1, Shape DEF ScopeFrame
  <2> DEFINE s == lists'
  <2>2. s = Append(lists, Scope.ops)
    BY <1>1
  <2> HIDE DEF s
  <2>3. /\ s \in Seq(Ops(Handed)) /\ Len(s) = Len(lists) + 1
        /\ \A m \in 1 .. Len(lists) : s[m] = lists[m]
    BY <2>1, <2>2, AppendProperties
  <2>4. Len(lists) \in Nat \ {0}
    BY <1>2, <2>1, EmptySeq
  <2>5. s[1] = lists[1] /\ s # <<>>
    BY <2>3, <2>4, EmptySeq
  <2> QED BY <2>5 DEF s
<1>4. First' = First
  BY <1>2, <1>3 DEF First
<1>5. Fed(<<>>, Base(Len(scopes)), {})
  BY NothingFed
<1>6. AllFed'
  BY <1>1, <1>2, <1>4, <1>5, NextPartFed
<1> QED BY <1>1, <1>6 DEF FedInv

\* A list becomes part of the one around it.
LEMMA ReturnFed ==
  ASSUME IInv, AllFed, status = "compiling", Len(scopes) > 1, NEW list,
         scopes' = [Front(scopes) EXCEPT ![Len(scopes) - 1].ops = list],
         values' = <<>>, lists' = lists, env'.visible = Scope.visible,
         Gives(Len(scopes) - 1) \subseteq GivenBy(list, scopes[Len(scopes) - 1].kind),
         scopes[Len(scopes) - 1].kind \in ApplyKinds => Fed(list, Base(Len(scopes) - 1), {})
  PROVE  AllFed'
<1> SUFFICES ASSUME NEW m, m = Len(scopes) - 1 PROVE AllFed'
  OBVIOUS
<1> DEFINE f == scopes[m]
           g == scopes'[m]
<1>1. /\ Len(scopes) = m + 1 /\ m \in Nat \ {0} /\ DOMAIN scopes = 1 .. m + 1
      /\ Scope = scopes[m + 1]
      /\ DOMAIN scopes' = 1 .. m /\ Len(scopes') = m
      /\ \A k \in 1 .. m - 1 : scopes'[k] = scopes[k]
      /\ SameButOps(g, f, list)
  <2>1. /\ Len(scopes) \in Nat \ {0} /\ DOMAIN scopes = 1 .. Len(scopes)
        /\ Scope = scopes[Len(scopes)]
        /\ DOMAIN scopes' = 1 .. Len(scopes) - 1
        /\ \A k \in 1 .. Len(scopes) - 2 : scopes'[k] = scopes[k]
        /\ SameButOps(scopes'[Len(scopes) - 1], scopes[Len(scopes) - 1], list)
        /\ Len(scopes') = Len(scopes) - 1
    BY TopReturned
  <2>2. Len(scopes) = m + 1 /\ m \in Nat \ {0} /\ Len(scopes) - 2 = m - 1
    BY <2>1
  <2> QED BY <2>1, <2>2
<1>2. /\ Gives(m) \subseteq GivenBy(list, f.kind)
      /\ f.kind \in ApplyKinds => Fed(list, Base(m), {})
      /\ m \in DOMAIN scopes /\ m + 1 \in DOMAIN scopes /\ m \in 1 .. m
      /\ f = scopes[m] /\ g = scopes'[m]
  BY <1>1
<1>3. g.kind = f.kind /\ g.visible = f.visible /\ g.then = f.then /\ g.ops = list
  BY <1>1 DEF SameButOps
<1> HIDE DEF f, g
<1>4. (values = <<>> => Pending = {})'
  <2>1. values = <<>> => Pending = {}
    BY NothingPending
  <2> QED BY NothingPending, PTL
<1>5. Pending' = {} /\ First' = First
  BY <1>4 DEF First
<1>6. \A k \in 1 .. m : Base(k)' = Base(k)
  BY <1>1, <1>5, BaseKept
<1>7. Base(m)' = Base(m) /\ Gives(m)' = GivenBy(list, f.kind)
  BY <1>2, <1>3, <1>6 DEF Gives
<1>8. Base(m + 1) \subseteq Reach'
  <2>1. Base(m + 1) = Base(m) \cup Gives(m)
    BY <1>1, BaseNext
  <2>2. Reach' = Base(m)' \cup Gives(m)' \cup Pending'
    BY <1>1 DEF Reach
  <2> QED BY <1>2, <1>7, <2>1, <2>2
<1>9. VisibleIn(env'.visible, Reach')
  <2>1. VisibleIn(Scope.visible, Base(m + 1))
    BY <1>1, <1>2 DEF AllFed, ScopeFed
  <2> QED BY <1>8, <2>1, VisibleMore
<1>10. ASSUME NEW k \in 1 .. m PROVE ScopeFed(k)'
  <2>1. ScopeFed(k) /\ Base(k)' = Base(k) /\ k # Len(scopes)
    BY <1>1, <1>6 DEF AllFed
  <2>2. CASE k = m
    <3>1. g.kind \in ApplyKinds => Fed(g.ops, Base(m), {}) /\ Fed(g.then, Base(m), {})
      BY <1>2, <1>3, <2>1, <2>2 DEF ScopeFed
    <3> QED BY <1>1, <1>2, <1>3, <1>5, <2>1, <2>2, <3>1 DEF ScopeFed
  <2>3. CASE k # m
    <3>1. scopes'[k] = scopes[k]
      BY <1>1, <2>3
    <3> QED BY <1>1, <2>1, <2>3, <3>1 DEF ScopeFed
  <2> QED BY <2>2, <2>3
<1>11. (values = <<>> /\ VisibleIn(env.visible, Reach) /\ (\A k \in DOMAIN scopes : ScopeFed(k))
          => AllFed)'
  <2>1. values = <<>> /\ VisibleIn(env.visible, Reach) /\ (\A k \in DOMAIN scopes : ScopeFed(k))
          => AllFed
    BY FedWithout
  <2> QED BY FedWithout, PTL
<1> QED BY <1>1, <1>9, <1>10, <1>11

\* A negation is complete.
LEMMA CloseNotFed ==
  ASSUME IInv, Sorted, AllFed, CloseNot
  PROVE  FedInv'
<1> DEFINE list == WithNot(OuterOps, Scope.mark, Scope.ops)
           p == OuterOps
           q == Scope.ops
           T == SelectOperation(Handed) \cup ApplyOperation(Handed)
<1>1. /\ status = "compiling" /\ status' = status /\ lists' = lists
      /\ values' = <<>>
      /\ Len(scopes) > 1
      /\ scopes' = [Front(scopes) EXCEPT ![Len(scopes) - 1].ops = list]
      /\ env'.visible = Scope.visible
      /\ scopes[Len(scopes) - 1].kind \in SelectKinds
  BY NotEnds, Zenon
<1>2. p \in Seq(T) /\ q \in Seq(T)
  BY <1>1, OuterFront DEF Ops
<1>3. list = WithNot(p, Scope.mark, q) /\ p = scopes[Len(scopes) - 1].ops
  BY DEF OuterOps
<1> HIDE DEF list, p, q, T
<1>4. TopUsed(p) \subseteq TopUsed(list)
  BY <1>2, <1>3, TopUsedNegated
<1>5. Gives(Len(scopes) - 1) \subseteq GivenBy(list, scopes[Len(scopes) - 1].kind)
  BY <1>1, <1>3, <1>4 DEF Gives, GivenBy
<1>6. scopes[Len(scopes) - 1].kind \notin ApplyKinds
  BY <1>1 DEF SelectKinds, ApplyKinds
<1>7. AllFed'
  BY <1>1, <1>5, <1>6, ReturnFed
<1> QED BY <1>1, <1>7 DEF FedInv

\* So is a conditional.
LEMMA CloseOtherwiseFed ==
  ASSUME IInv, Sorted, AllFed, CloseOtherwise
  PROVE  FedInv'
<1> DEFINE list == WithConditional(OuterOps, Scope.then, Scope.ops)
           p == OuterOps
           q == Scope.then
           r == Scope.ops
           T == SelectOperation(Handed) \cup ApplyOperation(Handed)
           m == Len(scopes) - 1
<1>1. /\ status = "compiling" /\ status' = status /\ lists' = lists
      /\ values' = <<>> /\ values = <<>>
      /\ Len(scopes) > 1
      /\ scopes' = [Front(scopes) EXCEPT ![Len(scopes) - 1].ops = list]
      /\ env'.visible = Scope.visible
      /\ scopes[Len(scopes) - 1].kind \in ApplyKinds
  BY OtherwiseEnds, Zenon
<1>2. /\ p \in Seq(T) /\ q \in Seq(T) /\ r \in Seq(T)
      /\ Len(scopes) \in DOMAIN scopes /\ m \in DOMAIN scopes /\ Scope = scopes[Len(scopes)]
      /\ Len(scopes) \in Nat
  BY <1>1, OuterFront, Shape DEF Ops
<1>3. list = WithConditional(p, q, r) /\ p = scopes[m].ops
  BY DEF OuterOps
<1>4. m \in Nat \ {0} /\ m + 1 = Len(scopes) /\ m # Len(scopes) /\ scopes[m].kind \in ApplyKinds
  BY <1>1, <1>2
<1>5. Scope.kind \in ApplyKinds
  BY DEF CloseOtherwise, ApplyKinds
<1>6. Fed(p, Base(m), {})
  <2>1. ScopeFed(m)
    BY <1>2 DEF AllFed
  <2> QED BY <1>3, <1>4, <2>1 DEF ScopeFed
<1>7. Gives(m) = OnEveryWay(p)
  BY <1>3, <1>4 DEF Gives, GivenBy, ApplyKinds, SelectKinds
<1>8. Base(Len(scopes)) = Base(m) \cup OnEveryWay(p)
  BY <1>4, <1>7, BaseNext
<1>9. Fed(q, Base(m) \cup OnEveryWay(p), {}) /\ Fed(r, Base(m) \cup OnEveryWay(p), {})
  <2>1. ScopeFed(Len(scopes)) /\ Pending = {}
    BY <1>1, <1>2, NothingPending DEF AllFed
  <2> QED BY <1>2, <1>5, <1>8, <2>1 DEF ScopeFed
<1> DEFINE B == Base(m)
<1>10. Fed(p, B, {}) /\ Fed(q, B \cup OnEveryWay(p), {}) /\ Fed(r, B \cup OnEveryWay(p), {})
  BY <1>6, <1>9
<1> HIDE DEF list, p, q, r, T, B
<1>11. Fed(list, B, {}) /\ OnEveryWay(p) \subseteq OnEveryWay(list)
  BY <1>2, <1>3, <1>10, FedConditional
<1>12. Fed(list, Base(m), {})
  BY <1>11 DEF B
<1>13. Gives(m) \subseteq GivenBy(list, scopes[m].kind)
  BY <1>4, <1>7, <1>11 DEF GivenBy, ApplyKinds, SelectKinds
<1>14. AllFed'
  BY <1>1, <1>12, <1>13, ReturnFed
<1> QED BY <1>1, <1>14 DEF FedInv

\* The select part is complete.
LEMMA CloseSelectFed ==
  ASSUME IInv, Sorted, AllFed, CloseSelect
  PROVE  FedInv'
<1> DEFINE f == NewScope("apply", env, <<>>)
<1>0. status = "compiling" /\ status' = status /\ values = <<>>
  BY DEF CloseSelect
<1>1. /\ DOMAIN scopes' = {1} /\ scopes'[1] = f
      /\ DOMAIN lists' = {1} /\ lists'[1] = Scope.ops /\ lists' # <<>>
      /\ env' = env /\ values' = <<>> /\ Scope.kind = "select"
      /\ f.kind = "apply" /\ f.visible = env.visible
      /\ f.ops = <<>> /\ f.then = <<>>
      /\ Len(scopes) \in DOMAIN scopes /\ Scope = scopes[Len(scopes)]
  BY <1>0, SelectEnds, Zenon
<1>2. Len(scopes') = 1
  BY DEF CloseSelect
<1> HIDE DEF f
<1>3. Len(scopes) = 1 /\ lists = <<>>
  BY <1>1 DEF AllFed, ScopeFed
<1>4. Pending = {} /\ First = {}
  BY <1>0, <1>3, NothingPending DEF First
<1>5. \A i \in 1 .. 1 - 1 : FALSE
  OBVIOUS
<1>6. Base(1) = Inputs /\ Base(1)' = Inputs \cup First'
  <2>1. UNION {Gives(i) : i \in 1 .. 1 - 1} = {}
    BY <1>5
  <2>2. (UNION {Gives(i) : i \in 1 .. 1 - 1} = {})'
    BY <1>5
  <2> HIDE DEF Gives
  <2> QED BY <1>4, <2>1, <2>2 DEF Base, Inputs
<1>7. First' = TopUsed(Scope.ops)
  BY <1>1 DEF First
<1>8. Gives(1) = TopUsed(Scope.ops)
  BY <1>1, <1>3 DEF Gives, GivenBy, SelectKinds
<1>9. Reach = Base(1)'
  BY <1>3, <1>4, <1>6, <1>7, <1>8 DEF Reach
<1>10. Reach \subseteq Reach'
  BY <1>2, <1>9 DEF Reach
<1>11. VisibleIn(env'.visible, Reach')
  BY <1>1, <1>10, VisibleMore DEF AllFed
<1>12. ScopeFed(1)'
  <2>1. VisibleIn(env.visible, Base(1)')
    BY <1>9 DEF AllFed
  <2>2. Fed(<<>>, Base(1)', Pending') /\ Fed(<<>>, Base(1)', {})
    BY NothingFed
  <2> QED BY <1>1, <1>2, <2>1, <2>2 DEF ScopeFed
<1>13. (values = <<>> /\ VisibleIn(env.visible, Reach) /\ (\A k \in DOMAIN scopes : ScopeFed(k))
          => AllFed)'
  <2>1. values = <<>> /\ VisibleIn(env.visible, Reach) /\ (\A k \in DOMAIN scopes : ScopeFed(k))
          => AllFed
    BY FedWithout
  <2> QED BY FedWithout, PTL
<1>14. AllFed'
  BY <1>1, <1>11, <1>12, <1>13
<1> QED BY <1>0, <1>14 DEF FedInv

\* A rule ends.
LEMMA VerifyFed ==
  ASSUME IInv, Sorted, AllFed, Verify
  PROVE  FedInv'
<1>1. /\ status = "compiling" /\ values = <<>> /\ Scope.kind = "apply"
      /\ UNCHANGED <<env, scopes, values, lists>>
  BY DEF Verify
<1>2. AllFed'
  <2>1. \A k : Gives(k)' = Gives(k)
    BY <1>1 DEF Gives
  <2>2. First' = First /\ Pending' = Pending
    BY <1>1 DEF First, Pending
  <2>3. \A k : Base(k)' = Base(k)
    BY <2>1, <2>2 DEF Base
  <2>4. Reach' = Reach
    BY <1>1, <2>1, <2>2, <2>3 DEF Reach
  <2>5. \A k \in DOMAIN scopes' : ScopeFed(k)'
    BY <1>1, <2>2, <2>3 DEF AllFed, ScopeFed
  <2> QED BY <1>1, <2>4, <2>5 DEF AllFed
<1>3. scopes[1].kind = "apply"
  <2>1. Len(scopes) \in Nat \ {0} /\ DOMAIN scopes = 1 .. Len(scopes) /\ Scope = scopes[Len(scopes)]
    BY <1>1, Shape, LenProperties
  <2>2. lists # <<>>
    BY <1>1, <2>1 DEF Sorted, ScopesSorted, ApplyKinds
  <2>3. 1 \in DOMAIN scopes
    BY <2>1
  <2>4. scopes[1].kind # "select"
    BY <2>2, <2>3 DEF AllFed, ScopeFed
  <2> QED BY <1>1, <2>4 DEF IInv, Outermost
<1> QED BY <1>1, <1>2, <1>3 DEF FedInv

-----------------------------------------------------------------------------
(* The constructs of a rule in text.                                       *)

\* A variable that is bound is visible with its slot, and a known one has its slot.
LEMMA BoundVisible ==
  ASSUME NEW e, Good(e), NEW R, VisibleIn(e.visible, R), NEW v \in Variables
  PROVE  /\ VisibleIn(Bound(e, v).visible, R \cup {SlotOf(e, v)})
         /\ Known(e, v) => SlotOf(e, v) \in R
<1> DEFINE f == Bound(e, v)
<1>1. CASE ~Known(e, v)
  <2>1. f = Extended(e, v) /\ SlotOf(e, v) = Len(e.slots)
    BY <1>1 DEF Bound, SlotOf
  <2>2. f.visible = [n \in Names |-> IF n = v THEN Len(e.slots) ELSE e.visible[n]]
    BY <2>1 DEF Extended
  <2> HIDE DEF f
  <2> QED BY <1>1, <2>1, <2>2 DEF VisibleIn, f
<1>2. CASE Known(e, v)
  <2>1. SlotOf(e, v) = e.visible[v] /\ v \in Names /\ e.visible[v] # NoSlot
    BY <1>2 DEF SlotOf, Known, Variables
  <2>2. f.visible = e.visible
    BY <1>2 DEF Bound, Good, Environment
  <2> HIDE DEF f
  <2> QED BY <1>2, <2>1, <2>2 DEF VisibleIn, f
<1> QED BY <1>1, <1>2

LEMMA GoodHere ==
  ASSUME IInv, AllFed, status = "compiling"
  PROVE  /\ Good(env) /\ VisibleIn(env.visible, Reach)
         /\ \A v \in Variables : Known(env, v) =>
              /\ Good(Bound(env, v)) /\ VisibleIn(Bound(env, v).visible, Reach)
              /\ SlotOf(env, v) \in Reach
<1>1. Good(env) /\ VisibleIn(env.visible, Reach)
  BY Shape DEF AllFed
<1>2. ASSUME NEW v \in Variables, Known(env, v)
      PROVE  /\ Good(Bound(env, v)) /\ VisibleIn(Bound(env, v).visible, Reach)
             /\ SlotOf(env, v) \in Reach
  <2> DEFINE R == Reach
  <2>1. VisibleIn(env.visible, R)
    BY <1>1
  <2> HIDE DEF R
  <2>2. SlotOf(env, v) \in R
    BY <1>1, <1>2, <2>1, BoundVisible
  <2>3. VisibleIn(Bound(env, v).visible, R \cup {SlotOf(env, v)})
    BY <1>1, <2>1, BoundVisible
  <2>4. R \cup {SlotOf(env, v)} = R
    BY <2>2
  <2> QED BY <1>1, <2>2, <2>3, <2>4, BoundGood DEF R
<1> QED BY <1>1, <1>2

\* What is open has a slot that is within reach.
LEMMA InnerWithin ==
  ASSUME IInv, AllFed, status = "compiling", values # <<>>
  PROVE  /\ Inner \in ValueFrame(Reach)
         /\ Inner.kind # "comparison" => Inner.slot \in Reach
<1>1. Len(values) \in DOMAIN values /\ values \in Seq(ValueFrame(Reach))
      /\ DOMAIN values = 1 .. Len(values)
  BY Shape, LenProperties DEF AllFed
<1>2. Inner \in ValueFrame(Reach)
  BY <1>1, ElementOfSeq DEF Inner, Last
<1> HIDE DEF Reach
<1> QED BY <1>2 DEF ValueFrame

LEMMA ErrorsFed ==
  ASSUME NEW why, Stop(why),
         \/ \E v : why = ExistingError(v)
         \/ why \in {"IllegalReuse", "IllegalBindingMatch", "IllegalNamedBinding",
                     "IllegalEnumSpecification", "IllegalObjectSpecification", "IllegalWildcard"}
  PROVE  FedInv'
BY StopFed DEF ExistingError

\* The slots that single operations, items and values have.
LEMMA Singles ==
  ASSUME NEW b, NEW s
  PROVE  /\ s \in Used(<<AttributeOp(b, s)>>)
         /\ s \in Used(<<AttributeOp(b, s), Test("AssertObject", s)>>)
         /\ s \in Created(<<Create(s)>>)
         /\ s \in ItemSlots(Range(<<Slot(s)>>))
         /\ \A kind \in {"calculation", "new", "removed"} : \A after :
              s \in PendingIn(<<Open(kind, s, after)>>)
<1>1. \A c : DOMAIN <<c>> = {1} /\ <<c>>[1] = c
  OBVIOUS
<1>2. s \in Used(<<AttributeOp(b, s)>>)
  <2> DEFINE c == AttributeOp(b, s)
  <2>1. s \in Uses(c)
    BY DEF Uses, AttributeOp
  <2> HIDE DEF c
  <2> QED BY <1>1, <2>1 DEF Used, UsedIn, c
<1>3. s \in Used(<<AttributeOp(b, s), Test("AssertObject", s)>>)
  <2> DEFINE c == AttributeOp(b, s)
             d == Test("AssertObject", s)
  <2>1. s \in Uses(c)
    BY DEF Uses, AttributeOp
  <2> HIDE DEF c, d
  <2>2. 1 \in DOMAIN <<c, d>> /\ <<c, d>>[1] = c
    OBVIOUS
  <2> QED BY <2>1, <2>2 DEF Used, UsedIn, c, d
<1>4. s \in Created(<<Create(s)>>)
  <2> DEFINE c == Create(s)
  <2>1. c.op = "CreateObject" /\ c.binding = s
    BY DEF Create
  <2> HIDE DEF c
  <2> QED BY <1>1, <2>1 DEF Created, c
<1>5. s \in ItemSlots(Range(<<Slot(s)>>))
  <2> DEFINE c == Slot(s)
  <2>1. c.kind = "binding" /\ c.binding = s
    BY DEF Slot
  <2> HIDE DEF c
  <2> QED BY <1>1, <2>1 DEF ItemSlots, Range, c
<1>6. ASSUME NEW after, NEW kind \in {"calculation", "new", "removed"}
      PROVE  s \in PendingIn(<<Open(kind, s, after)>>)
  <2> DEFINE c == Open(kind, s, after)
  <2>1. s \in OpenSlots(c)
    BY DEF Open, OpenSlots
  <2> HIDE DEF c
  <2> QED BY <1>1, <2>1 DEF PendingIn, c
<1> QED BY <1>2, <1>3, <1>4, <1>5, <1>6

\* In a select list.
LEMMA SelectStepFed ==
  ASSUME IInv, Sorted, AllFed, status = "compiling", Scope.kind \in SelectKinds,
         NEW e, NEW more, NEW items, NEW opened,
         NEW S, Allowed(S, more, items, opened), Step(e, more, items, opened),
         VisibleIn(e.visible, S), S \subseteq Brought(more, items, opened)
  PROVE  FedInv'
<1>1. Scope.kind \notin ApplyKinds /\ NamesOf(Scope.kind) = SelectNames
  BY DEF SelectKinds, ApplyKinds, NamesOf
<1>2. Plain(more)
  BY <1>1 DEF Allowed, Fits, Named, SelectNames, Plain
<1>3. \A i \in DOMAIN opened : Plain(opened[i].after)
  <2> SUFFICES ASSUME NEW i \in DOMAIN opened PROVE Plain(opened[i].after)
    OBVIOUS
  <2>1. SortedValue(opened[i], Scope.kind)
    BY DEF Allowed
  <2>2. opened[i].after = <<>>
    BY <1>1, <2>1 DEF SortedValue
  <2>3. DOMAIN <<>> = {}
    OBVIOUS
  <2> QED BY <2>2, <2>3 DEF Plain
<1>4. InTime(more)
  BY <1>1 DEF InTime
<1> QED BY <1>2, <1>3, <1>4, StepFed

\* With the slot of a variable that is brought within reach.
LEMMA SelectBoundFed ==
  ASSUME IInv, Sorted, AllFed, status = "compiling", Scope.kind \in SelectKinds,
         NEW e, Good(e), VisibleIn(e.visible, Reach), NEW v \in Variables,
         NEW more, NEW items, NEW opened,
         Allowed(Reach \cup {SlotOf(e, v)}, more, items, opened),
         Step(Bound(e, v), more, items, opened),
         SlotOf(e, v) \in Brought(more, items, opened)
  PROVE  FedInv'
<1> DEFINE S == Reach \cup {SlotOf(e, v)}
           f == Bound(e, v)
<1>1. VisibleIn(f.visible, S)
  BY BoundVisible
<1>2. S \subseteq Brought(more, items, opened)
  BY DEF Brought
<1>3. Allowed(S, more, items, opened) /\ Step(f, more, items, opened)
  OBVIOUS
<1> HIDE DEF S, f
<1> QED BY <1>1, <1>2, <1>3, SelectStepFed

LEMMA AttributeStepFed ==
  ASSUME IInv, Sorted, AllFed, status = "compiling", Scope.kind \in SelectKinds,
         NEW e, Good(e), VisibleIn(e.visible, Reach),
         NEW b \in Reach, NEW spec, IsSpec(spec), AttributeStep(e, b, spec)
  PROVE  FedInv'
<1> DEFINE v == spec.variable
           s == SlotOf(e, v)
           S == Reach \cup {s}
           R == Reach
           one == <<AttributeOp(b, s)>>
           two == <<AttributeOp(b, s), Test("AssertObject", s)>>
<1>1. s \in S /\ b \in S /\ b \in R /\ v \in Variables
  BY DEF IsSpec
<1>2. \/ \E op \in SelectTests : Step(e, <<Test(op, b)>>, <<>>, <<>>)
      \/ Step(Bound(e, v), one, <<>>, <<>>)
      \/ \E kind \in {"tuple", "enum"} : Step(Bound(e, v), one, <<>>, <<Open(kind, s, <<>>)>>)
      \/ Step(Bound(e, v), two, <<>>, <<Open("struct", s, <<>>)>>)
  <2>1. {"RequireValue", "Require"} \subseteq SelectTests
    BY DEF SelectTests
  <2> QED BY <2>1, Zenon DEF AttributeStep
<1>3. s \in Used(one) /\ s \in Used(two)
  BY Singles
<1>4. \A items, opened : s \in Brought(one, items, opened) /\ s \in Brought(two, items, opened)
  BY <1>3 DEF Brought, Gained
<1>5. /\ \A op \in SelectTests : Allowed(R, <<Test(op, b)>>, <<>>, <<>>)
      /\ Allowed(S, one, <<>>, <<>>)
      /\ \A kind \in {"tuple", "enum"} : Allowed(S, one, <<>>, <<Open(kind, s, <<>>)>>)
      /\ Allowed(S, two, <<>>, <<Open("struct", s, <<>>)>>)
  <2> HIDE DEF s, S, R
  <2>1. \A op \in SelectTests : Allowed(R, <<Test(op, b)>>, <<>>, <<>>)
    BY <1>1, SelectAllowed
  <2>2. /\ Allowed(S, <<AttributeOp(b, s)>>, <<>>, <<>>)
        /\ \A kind \in {"tuple", "enum"} :
             Allowed(S, <<AttributeOp(b, s)>>, <<>>, <<Open(kind, s, <<>>)>>)
    BY <1>1, SelectAllowed
  <2>3. Allowed(S, <<AttributeOp(b, s), Test("AssertObject", s)>>, <<>>, <<Open("struct", s, <<>>)>>)
    BY <1>1, SelectAllowed
  <2> QED BY <2>1, <2>2, <2>3
<1>6. ASSUME NEW op \in SelectTests, Step(e, <<Test(op, b)>>, <<>>, <<>>)
      PROVE  FedInv'
  <2>1. R \subseteq Brought(<<Test(op, b)>>, <<>>, <<>>) /\ VisibleIn(e.visible, R)
    BY DEF Brought
  <2> HIDE DEF R
  <2> QED BY <1>5, <1>6, <2>1, SelectStepFed
<1> HIDE DEF one, two
<1>7. CASE Step(Bound(e, v), one, <<>>, <<>>)
  BY <1>1, <1>4, <1>5, <1>7, SelectBoundFed
<1>8. ASSUME NEW kind \in {"tuple", "enum"}, Step(Bound(e, v), one, <<>>, <<Open(kind, s, <<>>)>>)
      PROVE  FedInv'
  <2> DEFINE opened == <<Open(kind, s, <<>>)>>
  <2>1. /\ Step(Bound(e, v), one, <<>>, opened) /\ Allowed(S, one, <<>>, opened)
        /\ s \in Brought(one, <<>>, opened)
    BY <1>4, <1>5, <1>8
  <2> HIDE DEF opened
  <2> QED BY <1>1, <2>1, SelectBoundFed
<1>9. CASE Step(Bound(e, v), two, <<>>, <<Open("struct", s, <<>>)>>)
  <2> DEFINE opened == <<Open("struct", s, <<>>)>>
  <2>1. /\ Step(Bound(e, v), two, <<>>, opened) /\ Allowed(S, two, <<>>, opened)
        /\ s \in Brought(two, <<>>, opened)
    BY <1>4, <1>5, <1>9
  <2> HIDE DEF opened
  <2> QED BY <1>1, <2>1, SelectBoundFed
<1> QED BY <1>2, <1>6, <1>7, <1>8, <1>9

\* With the slot of a variable that is known, or with none.
LEMMA SelectKnownFed ==
  ASSUME IInv, Sorted, AllFed, status = "compiling", Scope.kind \in SelectKinds,
         NEW e, VisibleIn(e.visible, Reach), NEW more, NEW items, NEW opened,
         Allowed(Reach, more, items, opened), Step(e, more, items, opened)
  PROVE  FedInv'
<1> DEFINE R == Reach
<1>1. R \subseteq Brought(more, items, opened) /\ VisibleIn(e.visible, R)
      /\ Allowed(R, more, items, opened)
  BY DEF Brought
<1> HIDE DEF R
<1> QED BY <1>1, SelectStepFed

LEMMA SelectBindingFed ==
  ASSUME IInv, Sorted, AllFed, SelectBinding
  PROVE  FedInv'
<1>1. PICK v \in Variables, spec \in Specs :
        LET e == Bound(env, v)
            s == SlotOf(env, v)
        IN  \/ Stop(ExistingError(v))
            \/ Stop("IllegalBindingMatch")
            \/ Stop("IllegalNamedBinding")
            \/ Known(env, v) /\ Step(e, <<Test("CompareBinding", s)>>, <<>>, <<>>)
            \/ /\ Known(env, v)
               /\ \E kind \in {"tuple", "enum"} : Step(e, <<>>, <<>>, <<Open(kind, s, <<>>)>>)
            \/ /\ Known(env, v)
               /\ Step(e, <<Test("AssertObject", s)>>, <<>>, <<Open("struct", s, <<>>)>>)
  BY Zenon DEF SelectBinding
<1>2. status = "compiling" /\ Scope.kind \in SelectKinds
  BY KindHere DEF SelectBinding, More
<1> DEFINE e == Bound(env, v)
           s == SlotOf(env, v)
           S == Reach
<1>3. Known(env, v) => VisibleIn(e.visible, S) /\ s \in S
  BY <1>2, GoodHere
<1>4. CASE Stop(ExistingError(v)) \/ Stop("IllegalBindingMatch") \/ Stop("IllegalNamedBinding")
  BY <1>4, ErrorsFed
<1> HIDE DEF e, s, S
<1>5. "CompareBinding" \in SelectTests /\ "AssertObject" \in SelectTests
  BY DEF SelectTests
<1>6. ASSUME s \in S
      PROVE  /\ Allowed(S, <<Test("CompareBinding", s)>>, <<>>, <<>>)
             /\ \A kind \in {"tuple", "enum"} : Allowed(S, <<>>, <<>>, <<Open(kind, s, <<>>)>>)
             /\ Allowed(S, <<Test("AssertObject", s)>>, <<>>, <<Open("struct", s, <<>>)>>)
  <2>1. Allowed(S, <<Test("CompareBinding", s)>>, <<>>, <<>>)
    BY <1>2, <1>5, <1>6, SelectAllowed
  <2>2. \A kind \in {"tuple", "enum"} : Allowed(S, <<>>, <<>>, <<Open(kind, s, <<>>)>>)
    BY <1>2, <1>6, SelectAllowed
  <2>3. Allowed(S, <<Test("AssertObject", s)>>, <<>>, <<Open("struct", s, <<>>)>>)
    BY <1>2, <1>5, <1>6, SelectAllowed
  <2> QED BY <2>1, <2>2, <2>3
<1>9. CASE Known(env, v) /\ Step(e, <<Test("CompareBinding", s)>>, <<>>, <<>>)
  BY <1>2, <1>3, <1>6, <1>9, SelectKnownFed DEF S
<1>10. ASSUME NEW kind \in {"tuple", "enum"}, Known(env, v),
              Step(e, <<>>, <<>>, <<Open(kind, s, <<>>)>>)
       PROVE  FedInv'
  BY <1>2, <1>3, <1>6, <1>10, SelectKnownFed DEF S
<1>11. CASE /\ Known(env, v)
            /\ Step(e, <<Test("AssertObject", s)>>, <<>>, <<Open("struct", s, <<>>)>>)
  BY <1>2, <1>3, <1>6, <1>11, SelectKnownFed DEF S
<1> QED BY <1>1, <1>4, <1>9, <1>10, <1>11 DEF e, s

LEMMA SelectAttributeFed ==
  ASSUME IInv, Sorted, AllFed, SelectAttribute
  PROVE  FedInv'
<1>1. status = "compiling" /\ Scope.kind \in SelectKinds
  BY KindHere DEF SelectAttribute, More
<1>2. PICK v \in Variables, spec \in Specs :
        IF Known(env, v) THEN AttributeStep(Bound(env, v), SlotOf(env, v), spec)
                         ELSE Stop(ExistingError(v))
  BY DEF SelectAttribute
<1>3. CASE Stop(ExistingError(v))
  BY <1>3, ErrorsFed
<1>4. CASE Known(env, v) /\ AttributeStep(Bound(env, v), SlotOf(env, v), spec)
  BY <1>1, <1>4, GoodHere, SpecsAreSpecs, AttributeStepFed
<1> QED BY <1>2, <1>3, <1>4

LEMMA SelectNestedFed ==
  ASSUME IInv, Sorted, AllFed, SelectNested
  PROVE  FedInv'
<1>1. status = "compiling" /\ values # <<>> /\ Inner.kind = "struct"
  BY DEF SelectNested, More, InValue
<1>2. PICK spec \in Specs : AttributeStep(env, Inner.slot, spec)
  BY DEF SelectNested
<1>3. Inner.slot \in Reach /\ Good(env) /\ VisibleIn(env.visible, Reach)
  BY <1>1, GoodHere, InnerWithin
<1>4. IsSpec(spec) /\ Scope.kind \in SelectKinds
  BY <1>1, SpecsAreSpecs, InnerSorted DEF SelectValues
<1> QED BY <1>1, <1>2, <1>3, <1>4, AttributeStepFed

LEMMA SelectItemFed ==
  ASSUME IInv, Sorted, AllFed, SelectItem
  PROVE  FedInv'
<1>1. PICK spec \in Specs :
        LET e == Bound(env, spec.variable)
            s == SlotOf(env, spec.variable)
        IN  \/ Step(env, <<>>, <<Literal>>, <<>>)
            \/ Step(env, <<>>, <<Ignore>>, <<>>)
            \/ Step(e, <<>>, <<Slot(s)>>, <<>>)
            \/ \E kind \in {"tuple", "enum"} :
                 Step(e, <<>>, <<Slot(s)>>, <<Open(kind, s, <<>>)>>)
            \/ Step(e, <<Test("AssertObject", s)>>, <<Slot(s)>>, <<Open("struct", s, <<>>)>>)
  BY Zenon DEF SelectItem
<1>2. /\ status = "compiling" /\ values # <<>> /\ Inner.kind = "tuple"
  BY DEF SelectItem, More, InValue
<1> DEFINE v == spec.variable
           s == SlotOf(env, v)
           S == Reach \cup {s}
           R == Reach
           items == <<Slot(s)>>
           test == <<Test("AssertObject", s)>>
<1>3. /\ Good(env) /\ VisibleIn(env.visible, R) /\ v \in Variables /\ s \in S
      /\ Scope.kind \in SelectKinds /\ Inner.slot \in R
  BY <1>2, GoodHere, InnerWithin, SpecsAreSpecs, InnerSorted DEF IsSpec, SelectValues
<1>4. \A more, opened : s \in Brought(more, items, opened)
  <2>1. s \in ItemSlots(Range(items)) /\ items # <<>>
    BY Singles
  <2> QED BY <1>2, <2>1 DEF Brought
<1> HIDE DEF s, S, R
<1>5. Allowed(R, <<>>, <<Literal>>, <<>>) /\ Allowed(R, <<>>, <<Ignore>>, <<>>)
  BY <1>2, <1>3, SelectAllowed
<1>6. /\ Allowed(S, <<>>, <<Slot(s)>>, <<>>)
      /\ \A kind \in {"tuple", "enum"} : Allowed(S, <<>>, <<Slot(s)>>, <<Open(kind, s, <<>>)>>)
  BY <1>2, <1>3, SelectAllowed
<1>7. Allowed(S, <<Test("AssertObject", s)>>, <<Slot(s)>>, <<Open("struct", s, <<>>)>>)
  <2>1. "AssertObject" \in SelectTests
    BY DEF SelectTests
  <2> QED BY <1>2, <1>3, <2>1, SelectAllowed
<1>8. CASE Step(env, <<>>, <<Literal>>, <<>>) \/ Step(env, <<>>, <<Ignore>>, <<>>)
  BY <1>2, <1>3, <1>5, <1>8, SelectKnownFed DEF R
<1>9. CASE Step(Bound(env, v), <<>>, items, <<>>)
  <2>1. Allowed(S, <<>>, items, <<>>) /\ s \in Brought(<<>>, items, <<>>)
    BY <1>4, <1>6
  <2> HIDE DEF items
  <2> QED BY <1>2, <1>3, <1>9, <2>1, SelectBoundFed DEF S, R, s
<1>10. ASSUME NEW kind \in {"tuple", "enum"},
              Step(Bound(env, v), <<>>, items, <<Open(kind, s, <<>>)>>)
       PROVE  FedInv'
  <2> DEFINE opened == <<Open(kind, s, <<>>)>>
  <2>1. /\ Allowed(S, <<>>, items, opened) /\ s \in Brought(<<>>, items, opened)
        /\ Step(Bound(env, v), <<>>, items, opened)
    BY <1>4, <1>6, <1>10
  <2> HIDE DEF items, opened
  <2> QED BY <1>2, <1>3, <2>1, SelectBoundFed DEF S, R, s
<1>11. CASE Step(Bound(env, v), test, items, <<Open("struct", s, <<>>)>>)
  <2> DEFINE opened == <<Open("struct", s, <<>>)>>
  <2>1. /\ Allowed(S, test, items, opened) /\ s \in Brought(test, items, opened)
        /\ Step(Bound(env, v), test, items, opened)
    BY <1>4, <1>7, <1>11
  <2> HIDE DEF items, opened, test
  <2> QED BY <1>2, <1>3, <2>1, SelectBoundFed DEF S, R, s
<1> QED BY <1>1, <1>8, <1>9, <1>10, <1>11 DEF s

LEMMA ComparisonFed ==
  ASSUME IInv, Sorted, AllFed, Comparison
  PROVE  FedInv'
<1> DEFINE f == Open("comparison", NoSlot, <<>>)
           S == Reach
<1>1. /\ status = "compiling" /\ Step(env, <<>>, <<>>, <<f>>) /\ Scope.kind \in SelectKinds
  BY KindHere DEF Comparison, More
<1>2. SortedValue(f, Scope.kind)
  BY <1>1 DEF Open, SortedValue, SelectValues, Named
<1>3. <<>> \in Ops(S) /\ <<>> \in Seq(ItemOf(S)) /\ <<f>> \in Seq(ValueFrame(S))
  BY Nothing, OpenPieces
<1>4. Fits(<<>>, Scope.kind)
  BY DEF Fits, Named
<1> HIDE DEF f, S
<1>5. Allowed(S, <<>>, <<>>, <<f>>)
  BY <1>2, <1>3, <1>4, AllowedParts
<1> QED BY <1>1, <1>5, GoodHere, SelectKnownFed DEF S

LEMMA CalculationFed ==
  ASSUME IInv, Sorted, AllFed, Calculation
  PROVE  FedInv'
<1>1. PICK v \in Variables :
        \/ Stop("IllegalWildcard") \/ Stop("IllegalReuse")
        \/ Step(Bound(env, v), <<>>, <<>>, <<Open("calculation", SlotOf(env, v), <<>>)>>)
  BY Zenon DEF Calculation
<1>2. status = "compiling" /\ Scope.kind \in SelectKinds
  BY KindHere DEF Calculation, More
<1>3. CASE Stop("IllegalWildcard") \/ Stop("IllegalReuse")
  BY <1>3, ErrorsFed
<1> DEFINE s == SlotOf(env, v)
           S == Reach \cup {s}
           opened == <<Open("calculation", s, <<>>)>>
<1>4. Good(env) /\ VisibleIn(env.visible, Reach) /\ s \in S
  BY <1>2, GoodHere
<1>5. s \in Brought(<<>>, <<>>, opened)
  <2> HIDE DEF s
  <2>1. s \in PendingIn(<<Open("calculation", s, <<>>)>>)
    BY Singles
  <2>2. s \in PendingIn(opened)
    BY <2>1
  <2> HIDE DEF opened
  <2> QED BY <2>2 DEF Brought
<1> HIDE DEF s, S
<1>6. Allowed(S, <<>>, <<>>, <<Open("calculation", s, <<>>)>>)
  BY <1>2, <1>4, SelectAllowed
<1>7. CASE Step(Bound(env, v), <<>>, <<>>, opened)
  <2>1. Allowed(S, <<>>, <<>>, opened)
    BY <1>6
  <2> HIDE DEF opened
  <2> QED BY <1>2, <1>4, <1>5, <1>7, <2>1, SelectBoundFed DEF s, S
<1> QED BY <1>1, <1>3, <1>7 DEF s

LEMMA OperandFed ==
  ASSUME IInv, Sorted, AllFed, Operand
  PROVE  FedInv'
<1>1. status = "compiling" /\ values # <<>> /\ Inner.kind \in SelectValues
  BY DEF Operand, More, InValue, SelectValues
<1>2. \/ Step(env, <<>>, <<Literal>>, <<>>)
      \/ \E v \in Variables :
           \/ Known(env, v) /\ Step(Bound(env, v), <<>>, <<Slot(SlotOf(env, v))>>, <<>>)
           \/ Stop(ExistingError(v))
  BY Zenon DEF Operand
<1>3. VisibleIn(env.visible, Reach) /\ Scope.kind \in SelectKinds
  BY <1>1, GoodHere, InnerSorted
<1>4. Fits(<<>>, Scope.kind)
  BY DEF Fits, Named
<1>5. CASE Step(env, <<>>, <<Literal>>, <<>>)
  <2>1. Allowed(Reach, <<>>, <<Literal>>, <<>>)
    BY <1>1, <1>4, Nothing, ItemPieces, AllowedParts
  <2> QED BY <1>1, <1>3, <1>5, <2>1, SelectKnownFed
<1>6. ASSUME NEW v \in Variables, Stop(ExistingError(v))
      PROVE  FedInv'
  BY <1>6, ErrorsFed
<1>7. ASSUME NEW v \in Variables, Known(env, v),
             Step(Bound(env, v), <<>>, <<Slot(SlotOf(env, v))>>, <<>>)
      PROVE  FedInv'
  <2> DEFINE e == Bound(env, v)
             s == SlotOf(env, v)
             S == Reach
  <2>1. VisibleIn(e.visible, S) /\ s \in S /\ Step(e, <<>>, <<Slot(s)>>, <<>>)
    BY <1>1, <1>7, GoodHere
  <2> HIDE DEF e, s, S
  <2>2. Allowed(S, <<>>, <<Slot(s)>>, <<>>)
    BY <1>1, <1>3, <2>1, SelectAllowed
  <2> QED BY <1>1, <1>3, <2>1, <2>2, SelectKnownFed DEF S
<1> QED BY <1>2, <1>5, <1>6, <1>7

-----------------------------------------------------------------------------
(* The constructs of the apply part.                                       *)

\* Single operations of an apply list are plain, and read what is in reach.
LEMMA ApplyPieces ==
  /\ Plain(<<>>) /\ InTime(<<>>)
  /\ \A s : Plain(<<Create(s)>>) /\ InTime(<<Create(s)>>)
  /\ \A op \in {"Add", "Remove"} : \A b, value :
       /\ Plain(<<Edit(op, b, value)>>)
       /\ b \in Reach /\ value \in ItemOf(Reach) => InTime(<<Edit(op, b, value)>>)
<1>1. \A c : DOMAIN <<c>> = {1} /\ <<c>>[1] = c
  OBVIOUS
<1>2. DOMAIN <<>> = {}
  OBVIOUS
<1>3. Plain(<<>>) /\ InTime(<<>>)
  BY <1>2 DEF Plain, InTime
<1>4. ASSUME NEW s PROVE Plain(<<Create(s)>>) /\ InTime(<<Create(s)>>)
  <2> DEFINE c == Create(s)
  <2>1. c.op = "CreateObject" /\ Reads(c) = {}
    BY DEF Create, Reads
  <2> HIDE DEF c
  <2>2. Plain(<<c>>) /\ InTime(<<c>>)
    BY <1>1, <2>1 DEF Plain, InTime
  <2> QED BY <2>2 DEF c
<1>5. ASSUME NEW op \in {"Add", "Remove"}, NEW b, NEW value
      PROVE  /\ Plain(<<Edit(op, b, value)>>)
             /\ b \in Reach /\ value \in ItemOf(Reach) => InTime(<<Edit(op, b, value)>>)
  <2> DEFINE c == Edit(op, b, value)
             R == Reach
  <2>1. c.op = op /\ Reads(c) = {b} \cup Optimize!SlotsOf({value})
    BY DEF Edit, Reads
  <2> HIDE DEF c, R
  <2>2. Plain(<<c>>)
    BY <1>1, <2>1 DEF Plain
  <2>3. ASSUME b \in R, value \in ItemOf(R) PROVE InTime(<<c>>)
    <3>1. Optimize!SlotsOf({value}) \subseteq R
      BY <2>3 DEF Optimize!SlotsOf, ItemOf, Literal, Ignore
    <3> QED BY <1>1, <2>1, <2>3, <3>1 DEF InTime, R
  <2> QED BY <2>2, <2>3 DEF c, R
<1> QED BY <1>3, <1>4, <1>5

LEMMA OpenPlain ==
  ASSUME NEW kind, NEW s, NEW after, Plain(after)
  PROVE  \A i \in DOMAIN <<Open(kind, s, after)>> : Plain(<<Open(kind, s, after)>>[i].after)
<1> DEFINE c == Open(kind, s, after)
<1>1. c.after = after
  BY DEF Open
<1> HIDE DEF c
<1>2. \A i \in DOMAIN <<c>> : <<c>>[i] = c
  OBVIOUS
<1>3. \A i \in DOMAIN <<c>> : Plain(<<c>>[i].after)
  BY <1>1, <1>2
<1> QED BY <1>3 DEF c

\* With the slot of a variable that is known, or with none.
LEMMA ApplyKnownFed ==
  ASSUME IInv, Sorted, AllFed, status = "compiling",
         NEW e, VisibleIn(e.visible, Reach), NEW more, NEW items,
         Allowed(Reach, more, items, <<>>), Step(e, more, items, <<>>),
         Plain(more), InTime(more)
  PROVE  FedInv'
<1> DEFINE R == Reach
           opened == <<>>
<1>1. R \subseteq Brought(more, items, opened) /\ VisibleIn(e.visible, R)
      /\ Allowed(R, more, items, opened) /\ Step(e, more, items, opened)
  BY DEF Brought
<1>2. \A i \in DOMAIN opened : Plain(opened[i].after)
  OBVIOUS
<1> HIDE DEF R, opened
<1> QED BY <1>1, <1>2, StepFed

\* With the slot of a variable that is created: a tuple's is pending, an object's
\* is made at once.
LEMMA ApplyMadeFed ==
  ASSUME IInv, Sorted, AllFed, status = "compiling", Scope.kind \in ApplyKinds,
         NEW e, Good(e), VisibleIn(e.visible, Reach), NEW v \in Variables,
         NEW s, s = SlotOf(e, v), NEW items, NEW after, Plain(after),
         NEW kind, NEW more,
         \/ kind \in {"new", "removed"} /\ more = <<>>
         \/ kind = "object" /\ more = <<Create(s)>>,
         Allowed(Reach \cup {s}, more, items, <<Open(kind, s, after)>>),
         Step(Bound(e, v), more, items, <<Open(kind, s, after)>>)
  PROVE  FedInv'
<1> DEFINE S == Reach \cup {s}
           opened == <<Open(kind, s, after)>>
           f == Bound(e, v)
<1>1. VisibleIn(f.visible, S)
  BY BoundVisible
<1>2. s \in Gained(more) \cup PendingIn(opened)
  <2>1. CASE kind \in {"new", "removed"}
    BY <2>1, Singles
  <2>2. CASE more = <<Create(s)>>
    BY <2>2, Singles DEF Gained, ApplyKinds, SelectKinds
  <2> QED BY <2>1, <2>2
<1>3. \A i \in DOMAIN opened : Plain(opened[i].after)
  BY OpenPlain
<1>4. Plain(more) /\ InTime(more)
  BY ApplyPieces
<1>5. Allowed(S, more, items, opened) /\ Step(f, more, items, opened)
  OBVIOUS
<1> HIDE DEF opened
<1>6. S \subseteq Brought(more, items, opened)
  BY <1>2 DEF Brought
<1> HIDE DEF S, f
<1> QED BY <1>1, <1>3, <1>4, <1>5, <1>6, StepFed

LEMMA AddStepFed ==
  ASSUME IInv, Sorted, AllFed, status = "compiling", Scope.kind \in ApplyKinds,
         NEW e, Good(e), VisibleIn(e.visible, Reach),
         NEW b \in Reach, NEW spec, IsSpec(spec), NEW op \in {"Add", "Remove"},
         AddStep(e, b, spec, op)
  PROVE  FedInv'
<1> DEFINE v == spec.variable
           s == SlotOf(e, v)
           bound == Bound(e, v)
           S == Reach \cup {s}
           R == Reach
           edit == <<Edit(op, b, Slot(s))>>
           plain == <<Edit(op, b, Literal)>>
<1>1. s \in S /\ b \in S /\ b \in R /\ v \in Variables /\ S = R \cup {s}
  BY DEF IsSpec
<1>2. \/ Step(e, plain, <<>>, <<>>)
      \/ Known(e, v) /\ Step(bound, edit, <<>>, <<>>)
      \/ Stop(ExistingError(v)) \/ Stop("IllegalEnumSpecification")
      \/ Stop("IllegalObjectSpecification") \/ Stop("IllegalReuse")
      \/ \E kind \in {"new", "removed"} : Step(bound, <<>>, <<>>, <<Open(kind, s, edit)>>)
      \/ Step(bound, <<Create(s)>>, <<>>, <<Open("object", s, edit)>>)
  BY Zenon DEF AddStep
<1>3. /\ VisibleIn(bound.visible, S) /\ VisibleIn(e.visible, R)
      /\ Known(e, v) => s \in R
  BY <1>1, BoundVisible
<1> HIDE DEF s, bound, S, R
<1>4. Slot(s) \in ItemOf(S) /\ Literal \in ItemOf(R) /\ (s \in R => Slot(s) \in ItemOf(R))
  BY <1>1, ItemPieces
<1>5. Allowed(R, plain, <<>>, <<>>) /\ Plain(plain) /\ InTime(plain)
  <2>1. plain = <<Edit(op, b, Literal)>>
    OBVIOUS
  <2> HIDE DEF plain
  <2>2. Allowed(R, plain, <<>>, <<>>)
    BY <1>1, <1>4, <2>1, ApplyAllowed
  <2>3. Plain(plain) /\ InTime(plain)
    BY <1>1, <1>4, <2>1, ApplyPieces DEF R
  <2> QED BY <2>2, <2>3
<1>6. /\ \A kind \in {"new", "removed"} : Allowed(S, <<>>, <<>>, <<Open(kind, s, edit)>>)
      /\ Allowed(S, <<Create(s)>>, <<>>, <<Open("object", s, edit)>>)
      /\ Plain(edit)
      /\ s \in R => Allowed(R, edit, <<>>, <<>>) /\ InTime(edit)
  <2>1. edit = <<Edit(op, b, Slot(s))>>
    OBVIOUS
  <2> HIDE DEF edit
  <2>2. \A kind \in {"new", "removed"} : Allowed(S, <<>>, <<>>, <<Open(kind, s, edit)>>)
    BY <1>1, <1>4, <2>1, ApplyAllowed
  <2>3. Allowed(S, <<Create(s)>>, <<>>, <<Open("object", s, edit)>>)
    BY <1>1, <1>4, <2>1, ApplyAllowed
  <2>4. Plain(edit) /\ (s \in R => InTime(edit))
    BY <1>1, <1>4, <2>1, ApplyPieces DEF R
  <2>5. s \in R => Allowed(R, edit, <<>>, <<>>)
    BY <1>1, <1>4, <2>1, ApplyAllowed
  <2> QED BY <2>2, <2>3, <2>4, <2>5
<1> HIDE DEF edit, plain
<1>7. CASE Step(e, plain, <<>>, <<>>)
  BY <1>3, <1>5, <1>7, ApplyKnownFed DEF R
<1>8. CASE Known(e, v) /\ Step(bound, edit, <<>>, <<>>)
  <2>1. s \in R /\ R \cup {s} = R
    BY <1>3, <1>8
  <2>2. VisibleIn(bound.visible, R)
    BY <1>1, <1>3, <2>1
  <2> QED BY <1>6, <1>8, <2>1, <2>2, ApplyKnownFed DEF R
<1>9. CASE \/ Stop(ExistingError(v)) \/ Stop("IllegalEnumSpecification")
           \/ Stop("IllegalObjectSpecification") \/ Stop("IllegalReuse")
  BY <1>9, ErrorsFed
<1>10. ASSUME NEW kind \in {"new", "removed"}, Step(bound, <<>>, <<>>, <<Open(kind, s, edit)>>)
       PROVE  FedInv'
  BY <1>1, <1>6, <1>10, ApplyMadeFed DEF S, s, bound
<1>11. CASE Step(bound, <<Create(s)>>, <<>>, <<Open("object", s, edit)>>)
  BY <1>1, <1>6, <1>11, ApplyMadeFed DEF S, s, bound
<1> QED BY <1>2, <1>7, <1>8, <1>9, <1>10, <1>11

LEMMA ApplyFed ==
  ASSUME IInv, Sorted, AllFed, Apply
  PROVE  FedInv'
<1>1. status = "compiling" /\ Scope.kind \in ApplyKinds
  BY KindHere DEF Apply, More
<1>2. PICK v \in Variables, spec \in Specs, op \in {"Add", "Remove"} :
        IF Known(env, v) THEN AddStep(Bound(env, v), SlotOf(env, v), spec, op)
                         ELSE Stop(ExistingError(v))
  BY DEF Apply
<1>3. CASE Stop(ExistingError(v))
  BY <1>3, ErrorsFed
<1>4. CASE Known(env, v) /\ AddStep(Bound(env, v), SlotOf(env, v), spec, op)
  BY <1>1, <1>4, GoodHere, SpecsAreSpecs, AddStepFed
<1> QED BY <1>2, <1>3, <1>4

LEMMA ApplyNestedFed ==
  ASSUME IInv, Sorted, AllFed, ApplyNested
  PROVE  FedInv'
<1>1. status = "compiling" /\ values # <<>> /\ Inner.kind = "object"
  BY DEF ApplyNested, More, InValue
<1>2. PICK spec \in Specs : AddStep(env, Inner.slot, spec, "Add")
  BY DEF ApplyNested
<1>3. Inner.slot \in Reach /\ Good(env) /\ VisibleIn(env.visible, Reach)
  BY <1>1, GoodHere, InnerWithin
<1>4. IsSpec(spec) /\ Scope.kind \in ApplyKinds
  BY <1>1, SpecsAreSpecs, InnerSorted DEF SelectValues
<1> QED BY <1>1, <1>2, <1>3, <1>4, AddStepFed

LEMMA ApplyItemFed ==
  ASSUME IInv, Sorted, AllFed, ApplyItem
  PROVE  FedInv'
<1>1. PICK spec \in Specs :
        LET v == spec.variable
            e == Bound(env, v)
            s == SlotOf(env, v)
        IN  \/ Step(env, <<>>, <<Literal>>, <<>>)
            \/ Known(env, v) /\ Step(e, <<>>, <<Slot(s)>>, <<>>)
            \/ Stop(ExistingError(v)) \/ Stop("IllegalEnumSpecification")
            \/ Stop("IllegalObjectSpecification") \/ Stop("IllegalReuse")
            \/ Step(e, <<>>, <<Slot(s)>>, <<Open(Inner.kind, s, <<>>)>>)
            \/ Step(e, <<Create(s)>>, <<Slot(s)>>, <<Open("object", s, <<>>)>>)
  BY Zenon DEF ApplyItem
<1>2. status = "compiling" /\ values # <<>> /\ Inner.kind \in {"new", "removed"}
  BY DEF ApplyItem, More, InValue
<1> DEFINE v == spec.variable
           e == Bound(env, v)
           s == SlotOf(env, v)
           S == Reach \cup {s}
           R == Reach
           kind == Inner.kind
           items == <<Slot(s)>>
<1>3. /\ Good(env) /\ VisibleIn(env.visible, R) /\ v \in Variables /\ s \in S /\ S = R \cup {s}
      /\ Scope.kind \in ApplyKinds /\ kind \in {"new", "removed"}
      /\ Known(env, v) => s \in R /\ VisibleIn(e.visible, R)
  BY <1>2, GoodHere, SpecsAreSpecs, InnerSorted DEF IsSpec, SelectValues
<1>4. Inner.slot \in R /\ Literal \in ItemOf(R) /\ Literal \in ItemOf(S)
  BY <1>2, InnerWithin, ItemPieces
<1> HIDE DEF e, s, S, R, kind
<1>5. Allowed(R, <<>>, <<Literal>>, <<>>)
  <2>1. Fits(<<>>, Scope.kind)
    BY DEF Fits, Named
  <2> QED BY <1>2, <2>1, Nothing, ItemPieces, AllowedParts
<1> DEFINE edit == <<Edit("Add", s, Literal)>>
<1>6. edit = <<Edit("Add", s, Literal)>> /\ "Add" \in {"Add", "Remove"} /\ items = <<Slot(s)>>
  OBVIOUS
<1> HIDE DEF edit, items
<1>7. /\ Allowed(S, <<>>, items, <<Open(kind, s, <<>>)>>)
      /\ Allowed(S, <<Create(s)>>, items, <<Open("object", s, <<>>)>>)
      /\ s \in R => Allowed(R, <<>>, items, <<>>)
  BY <1>2, <1>3, <1>4, <1>6, ApplyAllowed
<1>8. Plain(<<>>) /\ InTime(<<>>)
  BY ApplyPieces
<1>9. CASE Step(env, <<>>, <<Literal>>, <<>>)
  BY <1>2, <1>3, <1>5, <1>8, <1>9, ApplyKnownFed DEF R
<1>10. CASE Known(env, v) /\ Step(e, <<>>, items, <<>>)
  BY <1>2, <1>3, <1>7, <1>8, <1>10, ApplyKnownFed DEF R
<1>11. CASE \/ Stop(ExistingError(v)) \/ Stop("IllegalEnumSpecification")
            \/ Stop("IllegalObjectSpecification") \/ Stop("IllegalReuse")
  BY <1>11, ErrorsFed
<1>12. CASE Step(e, <<>>, items, <<Open(kind, s, <<>>)>>)
  BY <1>2, <1>3, <1>7, <1>8, <1>12, ApplyMadeFed DEF S, R, s, e
<1>13. CASE Step(e, <<Create(s)>>, items, <<Open("object", s, <<>>)>>)
  BY <1>2, <1>3, <1>7, <1>8, <1>13, ApplyMadeFed DEF S, R, s, e
<1> QED BY <1>1, <1>9, <1>10, <1>11, <1>12, <1>13 DEF e, s, kind, items

LEMMA CloseValueFed ==
  ASSUME IInv, Sorted, AllFed, CloseValue
  PROVE  FedInv'
<1>1. status = "compiling" /\ values # <<>> /\ CloseInner
  BY DEF CloseValue
<1>2. Inner.kind = "comparison" => Len(Inner.items) = 2
  BY DEF CloseValue, Complete
<1> QED BY <1>1, <1>2, CloseInnerFed

LEMMA ListsOpenedFed ==
  ASSUME IInv, AllFed, Not \/ Conditional
  PROVE  FedInv'
<1>1. CASE Not
  BY <1>1, OpenScopeFed DEF Not, More, InSelect
<1>2. CASE Conditional
  BY <1>2, OpenScopeFed DEF Conditional, More, InApply
<1> QED BY <1>1, <1>2

-----------------------------------------------------------------------------
(* What the apply part of a rule in text reads.                            *)

LEMMA BeginFed ==
  ASSUME Init
  PROVE  FedInv
<1>1. /\ scopes = <<NewScope("select", env, <<>>)>> /\ values = <<>> /\ lists = <<>>
      /\ status = "compiling" /\ env = InputEnv
  BY DEF Init
<1>2. /\ DOMAIN scopes = {1} /\ scopes[1].kind = "select" /\ scopes[1].visible = env.visible
      /\ scopes[1].ops = <<>> /\ scopes[1].then = <<>>
  BY <1>1, BeginSorted
<1>3. Inputs \subseteq Base(1) /\ Inputs \subseteq Reach
  BY DEF Reach, Base
<1>4. VisibleIn(env.visible, Inputs)
  <2> SUFFICES ASSUME NEW n \in Names
               PROVE  env.visible[n] = NoSlot \/ env.visible[n] \in Inputs
    BY DEF VisibleIn
  <2>1. env.visible[n] = IF n \in Range(InputNames)
                           THEN (CHOOSE i \in DOMAIN InputNames : InputNames[i] = n) - 1
                           ELSE NoSlot
    BY <1>1 DEF InputEnv
  <2>2. ASSUME n \in Range(InputNames)
        PROVE  env.visible[n] \in Inputs
    <3>1. \E i \in DOMAIN InputNames : InputNames[i] = n
      BY <2>2 DEF Range
    <3>2. (CHOOSE i \in DOMAIN InputNames : InputNames[i] = n) \in DOMAIN InputNames
      BY <3>1
    <3>3. DOMAIN InputNames = 1 .. Len(InputNames) /\ Len(InputNames) \in Nat
      BY InputNamesAssumption, LenProperties
    <3> QED BY <2>1, <2>2, <3>2, <3>3 DEF Inputs
  <2> QED BY <2>1, <2>2
<1>5. ScopeFed(1)
  BY <1>1, <1>2, <1>3, <1>4, VisibleMore DEF ScopeFed, ApplyKinds
<1>6. VisibleIn(env.visible, Reach)
  BY <1>3, <1>4, VisibleMore
<1>7. values \in Seq(ValueFrame(Reach)) /\ DOMAIN values = {}
  BY <1>1, EmptySeq
<1>8. AllFed
  BY <1>2, <1>5, <1>6, <1>7 DEF AllFed
<1> QED BY <1>1, <1>8 DEF FedInv

\* Each construct, in whatever order, keeps what is read in time.
LEMMA TextKeepsFed ==
  ASSUME IInv, Sorted, FedInv, [Next]_vars
  PROVE  FedInv'
<1>1. CASE UNCHANGED vars
  <2>1. Pending' = Pending
    BY <1>1 DEF vars, Pending, PendingIn
  <2>2. \A k : Gives(k)' = Gives(k)
    BY <1>1 DEF vars, Gives
  <2>3. First' = First
    BY <1>1 DEF vars, First
  <2>4. \A k : Base(k)' = Base(k)
    BY <2>2, <2>3 DEF Base
  <2>5. Reach' = Reach
    BY <1>1, <2>1, <2>2, <2>4 DEF vars, Reach
  <2>6. \A k : ScopeFed(k)' = ScopeFed(k)
    BY <1>1, <2>1, <2>4 DEF vars, ScopeFed
  <2>7. AllFed' = AllFed
    BY <1>1, <2>5, <2>6 DEF vars, AllFed
  <2> QED BY <1>1, <2>7 DEF vars, FedInv
<1>2. ASSUME Next PROVE status = "compiling"
  BY <1>2, Zenon DEF Next, SelectBinding, SelectAttribute, SelectNested, SelectItem, Not, Comparison,
     Calculation, Operand, Apply, ApplyNested, ApplyItem, Conditional, CloseValue, CloseNot,
     CloseSelect, CloseCondition, CloseThen, CloseOtherwise, Verify, More
<1>3. ASSUME Next PROVE AllFed
  BY <1>2, <1>3 DEF FedInv
<1>4. CASE SelectBinding \/ SelectAttribute \/ SelectNested \/ SelectItem
  <2>1. AllFed
    BY <1>3, <1>4 DEF Next
  <2> QED BY <1>4, <2>1, SelectBindingFed, SelectAttributeFed, SelectNestedFed, SelectItemFed
<1>5. CASE Not \/ Conditional
  <2>1. AllFed
    BY <1>3, <1>5 DEF Next
  <2> QED BY <1>5, <2>1, ListsOpenedFed
<1>6. CASE Comparison \/ Calculation \/ Operand
  <2>1. AllFed
    BY <1>3, <1>6 DEF Next
  <2> QED BY <1>6, <2>1, ComparisonFed, CalculationFed, OperandFed
<1>7. CASE Apply \/ ApplyNested \/ ApplyItem
  <2>1. AllFed
    BY <1>3, <1>7 DEF Next
  <2> QED BY <1>7, <2>1, ApplyFed, ApplyNestedFed, ApplyItemFed
<1>8. CASE CloseValue \/ CloseNot \/ CloseSelect
  <2>1. AllFed
    BY <1>3, <1>8 DEF Next
  <2> QED BY <1>8, <2>1, CloseValueFed, CloseNotFed, CloseSelectFed
<1>9. CASE CloseCondition \/ CloseThen \/ CloseOtherwise
  <2>1. AllFed
    BY <1>3, <1>9 DEF Next
  <2> QED BY <1>9, <2>1, CloseConditionFed, CloseThenFed, CloseOtherwiseFed
<1>10. CASE Verify
  <2>1. AllFed
    BY <1>3, <1>10 DEF Next
  <2> QED BY <1>10, <2>1, VerifyFed
<1> QED BY <1>1, <1>4, <1>5, <1>6, <1>7, <1>8, <1>9, <1>10, Zenon DEF Next

\* What the apply list of a rule in text reads is written in time.
FedLists == front = "text" => FedInv

LEMMA FedKeeps ==
  ASSUME CompilingInv, FedLists, [CompilingNext]_<<vars, front, optimizerVars>>
  PROVE  FedLists'
<1>1. front' = front
  BY DEF CompilingNext, MakeLists, CompileCfg, Order
<1>2. ASSUME front = "text" PROVE FedInv'
  <2>1. IInv /\ Sorted /\ FedInv
    BY <1>2, ListsKnown DEF FedLists
  <2>2. [Next]_vars
    BY <1>2 DEF CompilingNext, MakeLists, CompileCfg, Order
  <2> QED BY <2>1, <2>2, TextKeepsFed
<1> QED BY <1>1, <1>2 DEF FedLists

\* What the invariant is for.
LEMMA AcceptedFed ==
  ASSUME CompilingInv, FedLists, front = "text", status = "accepted"
  PROVE  \A j \in DOMAIN ApplyList :
           Reads(ApplyList[j]) \subseteq Written(ApplyList, j) \cup Around(ApplyList, j)
<1> DEFINE p == ApplyList
           select == Optimize!MentionedIn(lists[1], Optimize!Body(lists[1], 0))
<1>1. AllFed /\ values = <<>> /\ scopes[1].kind = "apply"
  BY DEF FedLists, FedInv
<1>2. scopes \in Seq(ScopeFrame(Handed)) /\ 1 \in DOMAIN scopes /\ DOMAIN p = 1 .. Len(p)
  <2>1. scopes \in Seq(ScopeFrame(Handed)) /\ scopes # <<>>
    BY ListsKnown DEF IInv, TypeOK
  <2>2. Len(scopes) \in Nat \ {0} /\ DOMAIN scopes = 1 .. Len(scopes)
    BY <2>1, EmptySeq, LenProperties
  <2>3. scopes[1] \in ScopeFrame(Handed)
    BY <2>1, <2>2, ElementOfSeq
  <2>4. p \in Ops(Handed)
    BY <2>3 DEF ScopeFrame, ApplyList
  <2> QED BY <2>1, <2>2, <2>4, LenProperties DEF Ops
<1>3. Fed(p, Base(1), {})
  <2>1. Pending = {}
    BY <1>1, NothingPending
  <2>2. ScopeFed(1) /\ scopes[1].kind \in ApplyKinds
    BY <1>1, <1>2 DEF AllFed, ApplyKinds
  <2> QED BY <2>1, <2>2 DEF ScopeFed, ApplyList
<1>4. Base(1) \subseteq Inputs \cup select
  <2>1. Base(1) = Inputs \cup First
    BY DEF Base
  <2>2. ASSUME lists # <<>> PROVE TopUsed(lists[1]) \subseteq select
    <3> DEFINE q == lists[1]
    <3>1. 1 \in DOMAIN lists
      BY <2>2, ListsKnown, EmptySeq, LenProperties
    <3>2. q \in Ops(Handed) /\ Named(q, SelectNames) /\ Nested(q)
      BY <3>1, ListsKnown
    <3> HIDE DEF q
    <3>3. DOMAIN q = 1 .. Len(q) /\ Len(q) \in Nat
      BY <3>2, LenProperties DEF Ops
    <3>4. Top(q) \subseteq Optimize!Body(q, 0) /\ Optimize!Body(q, 0) \subseteq DOMAIN q
      BY <3>3 DEF Top, Optimize!Body, Optimize!BodyEnd
    <3>5. Optimize!MentionedIn(q, Optimize!Body(q, 0)) = UsedIn(q, Optimize!Body(q, 0))
      BY <3>2, <3>4, SelectListViewed
    <3> QED BY <3>4, <3>5 DEF TopUsed, UsedIn, q
  <2> QED BY <2>1, <2>2 DEF First
<1> SUFFICES ASSUME NEW j \in DOMAIN p, NEW b \in Reads(p[j])
             PROVE  b \in Written(p, j) \cup Around(p, j)
  OBVIOUS
<1>5. b \in Base(1) \/ b \in OnWay(p, j) \/ b \in Around(p, j)
  BY <1>3 DEF Fed, FedAt
<1> HIDE DEF p
<1>6. OnWay(p, j) \subseteq Written(p, j)
  <2>1. {m \in Makes(p) : m < j /\ Branches(p, m) \subseteq Branches(p, j)}
          \subseteq {m \in 1 .. j - 1 : /\ p[m].op \in {"CreateObject", "CreateTuple"}
                                        /\ Branches(p, m) \subseteq Branches(p, j)}
    BY <1>2 DEF Makes
  <2> QED BY <2>1 DEF OnWay, Written
<1>7. Base(1) \subseteq Written(p, j)
  BY <1>4 DEF Written
<1> QED BY <1>5, <1>6, <1>7

\* Whatever the apply part of a rule in text that is accepted reads, in the order of
\* its operations (compile_rule_applys of src/src/compiler/cfg.rs) and with its conditionals
\* and values nested in any way, has been written when it is read: by the select
\* part, out of its negations, or by an operation on every way there, and neither in
\* a condition nor in another branch; but for a tuple that is part of itself.
THEOREM ReadsAreWritten == CompilingSpec => []WrittenOrOwn
<1>1. CompilingInit => FedLists
  BY BeginFed DEF CompilingInit, FedLists
<1>2. CompilingInv /\ FedLists /\ [CompilingNext]_<<vars, front, optimizerVars>> => FedLists'
  BY FedKeeps
<1>3. CompilingInv /\ FedLists => WrittenOrOwn
  BY AcceptedFed DEF WrittenOrOwn
<1> QED BY <1>1, <1>2, <1>3, CompilingBegins, CompilingKeeps, PTL DEF CompilingSpec

=============================================================================
