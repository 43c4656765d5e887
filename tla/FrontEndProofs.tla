--------------------------- MODULE FrontEndProofs --------------------------
(***************************************************************************)
(* What is compiled from a syntax tree, or by calls to the builders in     *)
(* whatever order and with whatever binding they handed out, mentions only *)
(* slots that were handed out, and a name in text has one slot: for any    *)
(* names, inputs and sizes.  The lists it comes to are nested as they      *)
(* should be, and in text what a negation binds is mentioned nowhere else. *)
(***************************************************************************)
EXTENDS Scoping, Builder, SequenceTheorems, FiniteSetTheorems, TLAPS

\* The slots of an environment, and that it is one.
SlotsIn(e) == 0 .. Len(e.slots) - 1

Environment(e) ==
  e \in [slots : Seq([name : Variables, count : Nat]),
         instances : [Names -> Nat],
         visible : [Names -> SlotsIn(e) \cup {NoSlot}]]

\* How often a name got a slot bounds how many slots have it.
Counted(e) ==
  \A n \in Names :
    /\ \A i \in DOMAIN e.slots : e.slots[i].name = n => e.instances[n] >= 1
    /\ \A i, j \in DOMAIN e.slots :
         i # j /\ e.slots[i].name = n /\ e.slots[j].name = n => e.instances[n] >= 2

Good(e) == Environment(e) /\ Counted(e)

\* The list that ends with no other to go on with is the first.
Outermost == status = "compiling" => scopes[1].kind \in {"select", "apply"}

IInv == TypeOK /\ Counted(env) /\ Outermost /\ OneSlotPerName

-----------------------------------------------------------------------------
(* What is made for fewer slots is made for more.                          *)

LEMMA MoreItems ==
  ASSUME NEW S, NEW T, S \subseteq T
  PROVE  ItemOf(S) \subseteq ItemOf(T)
BY DEF ItemOf

LEMMA MoreSequences ==
  ASSUME NEW S, NEW T, S \subseteq T
  PROVE  Seq(S) \subseteq Seq(T)
BY SeqMonotonic

LEMMA MoreOps ==
  ASSUME NEW S, NEW T, S \subseteq T
  PROVE  Ops(S) \subseteq Ops(T)
<1>1. ItemOf(S) \subseteq ItemOf(T) /\ Seq(S) \subseteq Seq(T)
  BY MoreItems, MoreSequences
<1>2. Seq(ItemOf(S)) \subseteq Seq(ItemOf(T))
  BY <1>1, MoreSequences
<1>3. SelectOperation(S) \subseteq SelectOperation(T)
  <2>1. [op : {"Attribute"}, binding : S, attribute : {"any"}, value_binding : S]
          \subseteq [op : {"Attribute"}, binding : T, attribute : {"any"}, value_binding : T]
    OBVIOUS
  <2>2. [op : {"RequireValue", "Require", "AssertObject", "CompareBinding"}, binding : S]
          \subseteq [op : {"RequireValue", "Require", "AssertObject", "CompareBinding"}, binding : T]
    OBVIOUS
  <2>3. [op : {"Tuple"}, binding : S, items : Seq(ItemOf(S))]
          \subseteq [op : {"Tuple"}, binding : T, items : Seq(ItemOf(T))]
    BY <1>2
  <2>4. [op : {"MatchEnum"}, binding : S, options : SUBSET ItemOf(S)]
          \subseteq [op : {"MatchEnum"}, binding : T, options : SUBSET ItemOf(T)]
    BY <1>1
  <2>5. [op : {"Compare"}, left : ItemOf(S), right : ItemOf(S)]
          \subseteq [op : {"Compare"}, left : ItemOf(T), right : ItemOf(T)]
    BY <1>1
  <2>6. [op : {"Calculation"}, binding : S, operands : Seq(S), results : {<<>>}]
          \subseteq [op : {"Calculation"}, binding : T, operands : Seq(T), results : {<<>>}]
    BY <1>1
  <2> QED BY <2>1, <2>2, <2>3, <2>4, <2>5, <2>6, Zenon DEF SelectOperation
<1>4. ApplyOperation(S) \subseteq ApplyOperation(T)
  <2>1. [op : {"CreateObject"}, binding : S] \subseteq [op : {"CreateObject"}, binding : T]
    OBVIOUS
  <2>2. [op : {"CreateTuple"}, binding : S, items : Seq(ItemOf(S))]
          \subseteq [op : {"CreateTuple"}, binding : T, items : Seq(ItemOf(T))]
    BY <1>2
  <2>3. [op : {"Add", "Remove"}, binding : S, value : ItemOf(S)]
          \subseteq [op : {"Add", "Remove"}, binding : T, value : ItemOf(T)]
    BY <1>1
  <2> QED BY <2>1, <2>2, <2>3, Zenon DEF ApplyOperation
<1>5. SelectOperation(S) \cup ApplyOperation(S) \subseteq SelectOperation(T) \cup ApplyOperation(T)
  BY <1>3, <1>4
<1> QED BY <1>5, MoreSequences DEF Ops

LEMMA MoreFrames ==
  ASSUME NEW S, NEW T, S \subseteq T
  PROVE  /\ Seq(ScopeFrame(S)) \subseteq Seq(ScopeFrame(T))
         /\ Seq(ValueFrame(S)) \subseteq Seq(ValueFrame(T))
         /\ Seq(Ops(S)) \subseteq Seq(Ops(T))
<1>1. Ops(S) \subseteq Ops(T)
  BY MoreOps
<1>2. Seq(ItemOf(S)) \subseteq Seq(ItemOf(T))
  BY MoreItems, MoreSequences
<1>3. [Names -> S \cup {NoSlot}] \subseteq [Names -> T \cup {NoSlot}]
  OBVIOUS
<1>4. ScopeFrame(S) \subseteq ScopeFrame(T)
  BY <1>1, <1>3 DEF ScopeFrame
<1>5. ValueFrame(S) \subseteq ValueFrame(T)
  BY <1>1, <1>2 DEF ValueFrame
<1> QED BY <1>1, <1>4, <1>5, MoreSequences

-----------------------------------------------------------------------------
(* Slots.                                                                  *)

\* A slot is handed out.
LEMMA ExtendedGood ==
  ASSUME NEW e, Good(e), NEW v \in Variables
  PROVE  /\ Good(Extended(e, v))
         /\ Len(Extended(e, v).slots) = Len(e.slots) + 1
         /\ Len(e.slots) \in Nat
<1> DEFINE f == Extended(e, v)
           entry == [name |-> v, count |-> IF v = Wildcard THEN 0 ELSE 1]
           Entries == [name : Variables, count : Nat]
<1>1. e.slots \in Seq(Entries) /\ entry \in Entries
  BY DEF Good, Environment
<1>2. f.slots = Append(e.slots, entry)
  BY DEF Extended
<1>3. /\ f.slots \in Seq(Entries)
      /\ Len(f.slots) = Len(e.slots) + 1
      /\ \A i \in 1 .. Len(e.slots) : f.slots[i] = e.slots[i]
      /\ f.slots[Len(e.slots) + 1] = entry
  BY <1>1, <1>2, AppendProperties
<1>4. Len(e.slots) \in Nat
  BY <1>1, LenProperties
<1>5. DOMAIN e.slots = 1 .. Len(e.slots) /\ DOMAIN f.slots = 1 .. Len(e.slots) + 1
  BY <1>1, <1>3, <1>4, LenProperties
<1>6. e.instances \in [Names -> Nat] /\ e.visible \in [Names -> SlotsIn(e) \cup {NoSlot}]
  BY DEF Good, Environment
<1>7. /\ f.instances = [n \in Names |-> IF n = v THEN e.instances[n] + 1 ELSE e.instances[n]]
      /\ f.visible = [n \in Names |-> IF n = v THEN Len(e.slots) ELSE e.visible[n]]
      /\ f = [slots |-> f.slots, instances |-> f.instances, visible |-> f.visible]
  BY DEF Extended
<1>8. SlotsIn(e) \subseteq SlotsIn(f) /\ Len(e.slots) \in SlotsIn(f)
  BY <1>3, <1>4 DEF SlotsIn
<1>9. entry.name = v
  OBVIOUS
<1> HIDE DEF f, entry, Entries
<1>10. f.instances \in [Names -> Nat]
  BY <1>6, <1>7
<1>11. f.visible \in [Names -> SlotsIn(f) \cup {NoSlot}]
  BY <1>6, <1>7, <1>8
<1>12. Environment(f)
  BY <1>3, <1>7, <1>10, <1>11 DEF Environment, Entries
<1>13. Counted(f)
  <2>1. \A i \in 1 .. Len(e.slots) : i \in DOMAIN e.slots /\ f.slots[i].name = e.slots[i].name
    BY <1>3, <1>5
  <2>2. f.slots[Len(e.slots) + 1].name = v
    BY <1>3, <1>9
  <2>3. \A i \in DOMAIN f.slots : i \in 1 .. Len(e.slots) \/ i = Len(e.slots) + 1
    BY <1>4, <1>5
  <2>4. SUFFICES ASSUME NEW n \in Names
        PROVE  /\ \A i \in DOMAIN f.slots : f.slots[i].name = n => f.instances[n] >= 1
               /\ \A i, j \in DOMAIN f.slots :
                    i # j /\ f.slots[i].name = n /\ f.slots[j].name = n => f.instances[n] >= 2
    BY DEF Counted
  <2>5. /\ e.instances[n] \in Nat
        /\ f.instances[n] = IF n = v THEN e.instances[n] + 1 ELSE e.instances[n]
    BY <1>6, <1>7
  <2>6. /\ \A i \in 1 .. Len(e.slots) : f.slots[i].name = n => e.instances[n] >= 1
        /\ \A i, j \in 1 .. Len(e.slots) :
             i # j /\ f.slots[i].name = n /\ f.slots[j].name = n => e.instances[n] >= 2
    BY <2>1 DEF Good, Counted
  <2> QED BY <2>2, <2>3, <2>5, <2>6
<1> QED BY <1>3, <1>4, <1>12, <1>13 DEF Good, f

\* Names are made visible, and forgotten, together.
LEMMA VisibleGood ==
  ASSUME NEW e, Good(e), NEW visible \in [Names -> SlotsIn(e) \cup {NoSlot}],
         NEW f, f = [e EXCEPT !.visible = visible]
  PROVE  Good(f) /\ f.slots = e.slots /\ f.visible = visible
<1>1. e \in [slots : Seq([name : Variables, count : Nat]),
             instances : [Names -> Nat],
             visible : [Names -> SlotsIn(e) \cup {NoSlot}]]
  BY DEF Good, Environment
<1>2. /\ f.slots = e.slots /\ f.instances = e.instances /\ f.visible = visible
      /\ f = [slots |-> e.slots, instances |-> e.instances, visible |-> visible]
  BY <1>1, Zenon
<1>3. Environment(f)
  BY <1>1, <1>2 DEF Environment, SlotsIn
<1>4. Counted(f)
  BY <1>2 DEF Good, Counted
<1> QED BY <1>2, <1>3, <1>4 DEF Good

-----------------------------------------------------------------------------
(* Operations.                                                             *)

\* What the operations made of a slot and its items are.
LEMMA OperationsMade ==
  ASSUME NEW S, NEW b \in S, NEW items \in Seq(ItemOf(S))
  PROVE  /\ <<TupleOp(b, items)>> \in Ops(S)
         /\ <<EnumOp(b, items)>> \in Ops(S)
         /\ <<CalculationOp(b, items)>> \in Ops(S)
         /\ <<CreateTuple(b, items)>> \in Ops(S)
<1>1. TupleOp(b, items) \in SelectOperation(S)
  BY DEF TupleOp, SelectOperation
<1>2. EnumOp(b, items) \in SelectOperation(S)
  BY RangeOfSeq DEF EnumOp, SelectOperation
<1>3. CalculationOp(b, items) \in SelectOperation(S)
  <2> DEFINE slots == {i \in DOMAIN items : items[i].kind = "binding"}
             used == {items[i].binding : i \in slots}
  <2>1. used \subseteq S
    <3> SUFFICES ASSUME NEW i \in DOMAIN items, items[i].kind = "binding"
                 PROVE  items[i].binding \in S
      OBVIOUS
    <3>1. items[i] \in ItemOf(S)
      BY ElementOfSeq, LenProperties
    <3> QED BY <3>1 DEF ItemOf, Literal, Ignore
  <2>2. IsFiniteSet(used)
    <3>1. Len(items) \in Nat /\ DOMAIN items = 1 .. Len(items)
      BY LenProperties
    <3>2. IsFiniteSet(1 .. Len(items))
      BY <3>1, FS_Interval
    <3>3. IsFiniteSet(slots)
      BY <3>1, <3>2, FS_Subset
    <3> DEFINE f == [i \in slots |-> items[i].binding]
    <3>4. f \in Surjection(slots, used)
      BY DEF Surjection
    <3> HIDE DEF f, slots, used
    <3> QED BY <3>3, <3>4, FS_Surjection
  <2> HIDE DEF used
  <2>3. Cardinality(used) \in Nat /\ \E f \in [1 .. Cardinality(used) -> used] : IsInjective(f)
    <3>1. Cardinality(used) \in Nat /\ \E f : f \in Bijection(1 .. Cardinality(used), used)
      BY <2>2, FS_CardinalityType DEF ExistsBijection
    <3> QED BY <3>1 DEF Bijection, Injection, IsInjective
  <2>4. SetToSeq(used) \in [1 .. Cardinality(used) -> used]
    BY <2>3, Zenon DEF SetToSeq
  <2>5. SetToSeq(used) \in Seq(S)
    BY <2>1, <2>3, <2>4
  <2> QED BY <2>5 DEF CalculationOp, SelectOperation, used
<1>4. CreateTuple(b, items) \in ApplyOperation(S)
  BY DEF CreateTuple, ApplyOperation
<1> HIDE DEF TupleOp, EnumOp
<1> QED BY <1>1, <1>2, <1>3, <1>4 DEF Ops

-----------------------------------------------------------------------------
(* Parts of a step.                                                        *)

LEMMA OperationPieces ==
  ASSUME NEW S, NEW b \in S, NEW v \in S
  PROVE  /\ <<>> \in Ops(S)
         /\ <<AttributeOp(b, v)>> \in Ops(S)
         /\ \A op \in {"RequireValue", "Require", "AssertObject", "CompareBinding"} :
              <<Test(op, b)>> \in Ops(S)
         /\ <<AttributeOp(b, v), Test("AssertObject", v)>> \in Ops(S)
         /\ <<Create(b)>> \in Ops(S)
         /\ \A op \in {"Add", "Remove"}, value \in ItemOf(S) : <<Edit(op, b, value)>> \in Ops(S)
<1> DEFINE O == SelectOperation(S) \cup ApplyOperation(S)
<1>1. AttributeOp(b, v) \in O
  BY DEF AttributeOp, SelectOperation
<1>2. \A op \in {"RequireValue", "Require", "AssertObject", "CompareBinding"} :
        Test(op, b) \in O /\ Test(op, v) \in O
  BY DEF Test, SelectOperation
<1>3. Create(b) \in O
  BY DEF Create, ApplyOperation
<1>4. \A op \in {"Add", "Remove"}, value \in ItemOf(S) : Edit(op, b, value) \in O
  BY DEF Edit, ApplyOperation
<1>5. Ops(S) = Seq(O)
  BY DEF Ops
<1> HIDE DEF O
<1> QED BY <1>1, <1>2, <1>3, <1>4, <1>5

LEMMA ItemPieces ==
  ASSUME NEW S
  PROVE  /\ <<>> \in Seq(ItemOf(S))
         /\ <<Literal>> \in Seq(ItemOf(S)) /\ <<Ignore>> \in Seq(ItemOf(S))
         /\ Literal \in ItemOf(S)
         /\ \A b \in S : Slot(b) \in ItemOf(S) /\ <<Slot(b)>> \in Seq(ItemOf(S))
<1>1. Literal \in ItemOf(S) /\ Ignore \in ItemOf(S) /\ \A b \in S : Slot(b) \in ItemOf(S)
  BY DEF ItemOf, Slot
<1> QED BY <1>1

LEMMA OpenPieces ==
  ASSUME NEW S, NEW after \in Ops(S)
  PROVE  /\ <<>> \in Seq(ValueFrame(S))
         /\ \A b \in S,
               kind \in {"struct", "object", "tuple", "enum", "calculation", "new", "removed"} :
              <<Open(kind, b, after)>> \in Seq(ValueFrame(S))
         /\ <<Open("comparison", NoSlot, after)>> \in Seq(ValueFrame(S))
<1>1. <<>> \in Seq(ItemOf(S))
  BY EmptySeq
<1>2. \A b \in S,
         kind \in {"struct", "object", "tuple", "enum", "calculation", "new", "removed"} :
        Open(kind, b, after) \in ValueFrame(S)
  BY <1>1 DEF Open, ValueFrame
<1>3. Open("comparison", NoSlot, after) \in ValueFrame(S)
  BY <1>1 DEF Open, ValueFrame
<1> QED BY <1>2, <1>3

\* Parts of a step that are empty.
LEMMA Nothing ==
  ASSUME NEW S
  PROVE  <<>> \in Ops(S) /\ <<>> \in Seq(ItemOf(S)) /\ <<>> \in Seq(ValueFrame(S))
BY EmptySeq DEF Ops

-----------------------------------------------------------------------------
(* Steps that both ways of making a rule take.                             *)

\* What the invariant says of the lists under way.
LEMMA Shape ==
  ASSUME IInv, status = "compiling"
  PROVE  /\ Good(env) /\ Handed = SlotsIn(env) /\ Len(env.slots) <= MaxSlots
         /\ scopes \in Seq(ScopeFrame(Handed)) /\ scopes # <<>>
         /\ Len(scopes) \in Nat \ {0} /\ Scope \in ScopeFrame(Handed)
         /\ Scope = scopes[Len(scopes)]
         /\ Scope.kind \notin {"select", "apply"} => Len(scopes) > 1
         /\ values \in Seq(ValueFrame(Handed)) /\ Len(values) \in Nat
         /\ values # <<>> => Inner \in ValueFrame(Handed) /\ Len(values) > 0
         /\ lists \in Seq(Ops(Handed))
         /\ size \in Nat
<1>1. /\ scopes \in Seq(ScopeFrame(Handed)) /\ scopes # <<>>
      /\ values \in Seq(ValueFrame(Handed))
      /\ lists \in Seq(Ops(Handed)) /\ size \in Nat /\ Len(env.slots) <= MaxSlots
  BY DEF IInv, TypeOK
<1>2. Len(scopes) \in Nat \ {0} /\ Len(scopes) \in 1 .. Len(scopes)
  BY <1>1, EmptySeq
<1>3. Scope = scopes[Len(scopes)] /\ Scope \in ScopeFrame(Handed)
  BY <1>1, <1>2, ElementOfSeq DEF Scope, Last
<1>4. Scope.kind \notin {"select", "apply"} => Len(scopes) > 1
  BY <1>2, <1>3 DEF IInv, Outermost
<1>5. Len(values) \in Nat
  BY <1>1, LenProperties
<1>6. values # <<>> => Inner \in ValueFrame(Handed) /\ Len(values) > 0
  <2> SUFFICES ASSUME values # <<>> PROVE Inner \in ValueFrame(Handed) /\ Len(values) > 0
    OBVIOUS
  <2>1. Len(values) \in 1 .. Len(values)
    BY <1>1, EmptySeq
  <2> QED BY <1>1, <2>1, ElementOfSeq DEF Inner, Last
<1>7. Good(env) /\ Handed = SlotsIn(env)
  BY DEF IInv, TypeOK, Good, Environment, Handed, SlotsIn
<1> QED BY <1>1, <1>2, <1>3, <1>4, <1>5, <1>6, <1>7

\* Operations are pushed on a list.
LEMMA Pushed ==
  ASSUME NEW S, NEW f \in ScopeFrame(S), NEW ops \in Ops(S)
  PROVE  /\ [f EXCEPT !.ops = @ \o ops] \in ScopeFrame(S)
         /\ [f EXCEPT !.ops = @ \o ops].kind = f.kind
<1>1. f.ops \o ops \in Ops(S)
  BY ConcatProperties DEF ScopeFrame, Ops
<1> QED BY <1>1 DEF ScopeFrame

LEMMA Filled ==
  ASSUME NEW S, NEW f \in ScopeFrame(S), NEW ops \in Ops(S)
  PROVE  /\ [f EXCEPT !.ops = ops] \in ScopeFrame(S)
         /\ [f EXCEPT !.ops = ops].kind = f.kind
BY DEF ScopeFrame

\* The innermost list is another, of the same kind.
LEMMA Replaced ==
  ASSUME NEW S, NEW s \in Seq(ScopeFrame(S)), s # <<>>,
         NEW f \in ScopeFrame(S), f.kind = s[Len(s)].kind,
         NEW t, t = [s EXCEPT ![Len(s)] = f]
  PROVE  t \in Seq(ScopeFrame(S)) /\ t # <<>> /\ t[1].kind = s[1].kind
<1>1. Len(s) \in Nat /\ Len(s) \in 1 .. Len(s) /\ 1 \in 1 .. Len(s)
  BY EmptySeq
<1>2. /\ t \in Seq(ScopeFrame(S)) /\ Len(t) = Len(s)
      /\ \A j \in 1 .. Len(s) : t[j] = IF j = Len(s) THEN f ELSE s[j]
  BY <1>1, ExceptSeq
<1>3. t # <<>>
  BY <1>1, <1>2, EmptySeq
<1>4. t[1].kind = s[1].kind
  BY <1>1, <1>2
<1> QED BY <1>2, <1>3, <1>4

\* Items are added to what is open.
LEMMA Added ==
  ASSUME NEW S, NEW s \in Seq(ValueFrame(S)), s # <<>>, NEW items \in Seq(ItemOf(S))
  PROVE  [s EXCEPT ![Len(s)].items = @ \o items] \in Seq(ValueFrame(S))
<1>1. Len(s) \in Nat /\ Len(s) \in 1 .. Len(s)
  BY EmptySeq
<1>2. s[Len(s)] \in ValueFrame(S)
  BY <1>1, ElementOfSeq
<1> DEFINE frame == [s[Len(s)] EXCEPT !.items = @ \o items]
<1>3. frame \in ValueFrame(S)
  <2>1. s[Len(s)].items \o items \in Seq(ItemOf(S))
    BY <1>2, ConcatProperties DEF ValueFrame
  <2> QED BY <1>2, <2>1 DEF ValueFrame
<1>4. [s EXCEPT ![Len(s)].items = @ \o items] = [s EXCEPT ![Len(s)] = frame]
  BY Zenon
<1> HIDE DEF frame
<1> QED BY <1>1, <1>3, <1>4, ExceptSeq

\* Without its innermost.
LEMMA FrontOf ==
  ASSUME NEW S, NEW s \in Seq(S), s # <<>>
  PROVE  /\ Front(s) \in Seq(S)
         /\ Len(Front(s)) = Len(s) - 1
         /\ Len(s) \in Nat \ {0}
         /\ \A i \in 1 .. Len(s) - 1 : Front(s)[i] = s[i]
<1>1. Len(s) \in Nat \ {0}
  BY EmptySeq
<1> DEFINE t == SubSeq(s, 1, Len(s) - 1)
           n == Len(s) - 1
<1>2. n \in Nat /\ n \in Int /\ 1 \in Int /\ \A i \in 1 .. n : s[i] \in S
  BY <1>1, ElementOfSeq
<1>3. /\ t \in Seq(S)
      /\ Len(t) = IF 1 <= n THEN n - 1 + 1 ELSE 0
      /\ \A i \in 1 .. n - 1 + 1 : t[i] = s[1 + i - 1]
  BY <1>2, SubSeqProperties
<1>4. Front(s) = t
  BY DEF Front
<1> HIDE DEF t
<1> HIDE DEF n
<1>5. Len(t) = n
  BY <1>2, <1>3
<1>6. \A i \in 1 .. n : t[i] = s[i]
  <2> TAKE i \in 1 .. n
  <2>1. i \in 1 .. n - 1 + 1 /\ 1 + i - 1 = i
    BY <1>2
  <2>2. t[i] = s[1 + i - 1]
    BY <1>3, <2>1, Zenon
  <2> QED BY <2>1, <2>2, Zenon
<1> QED BY <1>1, <1>3, <1>4, <1>5, <1>6 DEF n

\* While a rule is made, types and counts are all that is asked for.
LEMMA Going ==
  ASSUME Good(env'), Len(env'.slots) <= MaxSlots, status' = "compiling",
         scopes' \in Seq(ScopeFrame(SlotsIn(env'))), scopes' # <<>>,
         scopes'[1].kind \in {"select", "apply"},
         values' \in Seq(ValueFrame(SlotsIn(env'))),
         lists' \in Seq(Ops(SlotsIn(env'))),
         size' \in Nat
  PROVE  IInv'
<1>1. Handed' = SlotsIn(env')
  BY DEF Handed, SlotsIn
<1>2. TypeOK'
  BY <1>1 DEF TypeOK, Good, Environment
<1>3. OneSlotPerName' /\ Outermost'
  BY DEF OneSlotPerName, Outermost
<1>4. Counted(env)'
  BY DEF Good, Counted
<1> QED BY <1>2, <1>3, <1>4 DEF IInv

\* A rule that is refused leaves everything as it was.
LEMMA Stopped ==
  ASSUME IInv, NEW why, Stop(why),
         why \in {"panic", "ExistingBindingRequired", "IllegalWildcard", "IllegalReuse",
                  "IllegalBindingMatch", "IllegalNamedBinding", "IllegalEnumSpecification",
                  "IllegalObjectSpecification"}
  PROVE  IInv'
<1>1. /\ env' = [slots |-> <<>>, instances |-> [n \in Names |-> 0],
                visible |-> [n \in Names |-> NoSlot]]
      /\ scopes' = <<>> /\ values' = <<>> /\ lists' = <<>> /\ size' = size /\ status' = why
  BY DEF Stop
<1>2. env'.slots = <<>> /\ Len(env'.slots) = 0 /\ DOMAIN env'.slots = {}
  BY <1>1
<1>3. TypeOK'
  <2>1. Len(env'.slots) <= MaxSlots
    BY <1>2, BoundsAssumption
  <2>2. env' \in [slots : Seq([name : Variables, count : Nat]),
                  instances : [Names -> Nat],
                  visible : [Names -> Handed' \cup {NoSlot}]]
    BY <1>1
  <2>3. size' \in Nat
    BY <1>1 DEF IInv, TypeOK
  <2>4. /\ scopes' \in Seq(ScopeFrame(Handed')) /\ values' \in Seq(ValueFrame(Handed'))
        /\ lists' \in Seq(Ops(Handed'))
    BY <1>1, EmptySeq
  <2> QED BY <1>1, <2>1, <2>2, <2>3, <2>4 DEF TypeOK
<1>4. Counted(env)' /\ Outermost' /\ OneSlotPerName'
  BY <1>1, <1>2 DEF Counted, Outermost, OneSlotPerName
<1> QED BY <1>3, <1>4 DEF IInv

\* One construct.
LEMMA StepKeeps ==
  ASSUME IInv, status = "compiling",
         NEW e, Good(e), Len(env.slots) <= Len(e.slots),
         NEW ops \in Ops(SlotsIn(e)),
         NEW items \in Seq(ItemOf(SlotsIn(e))), items = <<>> \/ values # <<>>,
         NEW open \in Seq(ValueFrame(SlotsIn(e))),
         Step(e, ops, items, open)
  PROVE  IInv'
<1>1. CASE Len(e.slots) > MaxSlots
  BY <1>1, Stopped DEF Step
<1>2. CASE ~(Len(e.slots) > MaxSlots)
  <2> DEFINE S == SlotsIn(e)
  <2>1. /\ env' = e
        /\ scopes' = [scopes EXCEPT ![Len(scopes)].ops = @ \o ops]
        /\ values' = (IF items = <<>> THEN values
                      ELSE [values EXCEPT ![Len(values)].items = @ \o items]) \o open
        /\ size' = size + 1 /\ lists' = lists /\ status' = status
    BY <1>2 DEF Step
  <2>2. Len(e.slots) \in Nat /\ Len(env.slots) \in Nat
    BY Shape, LenProperties DEF Good, Environment
  <2>3. Handed \subseteq S
    BY <2>2 DEF Handed, SlotsIn
  <2> HIDE DEF S
  <2>4. /\ scopes \in Seq(ScopeFrame(S)) /\ values \in Seq(ValueFrame(S))
        /\ lists \in Seq(Ops(S)) /\ scopes # <<>> /\ size \in Nat
    BY <2>3, Shape, MoreFrames
  <2>5. /\ scopes' \in Seq(ScopeFrame(S)) /\ scopes' # <<>>
        /\ scopes'[1].kind \in {"select", "apply"}
    <3>1. scopes[1].kind \in {"select", "apply"} /\ ops \in Ops(S)
      BY DEF IInv, Outermost, S
    <3> DEFINE f == [scopes[Len(scopes)] EXCEPT !.ops = @ \o ops]
    <3>2. scopes' = [scopes EXCEPT ![Len(scopes)] = f]
      BY <2>1, Zenon
    <3>3. scopes[Len(scopes)] \in ScopeFrame(S)
      BY <2>4, EmptySeq, ElementOfSeq
    <3>4. f \in ScopeFrame(S) /\ f.kind = scopes[Len(scopes)].kind
      BY <3>1, <3>3, Pushed, Zenon
    <3> HIDE DEF f
    <3> QED BY <2>4, <3>1, <3>2, <3>4, Replaced
  <2>6. values' \in Seq(ValueFrame(S))
    <3> DEFINE front == IF items = <<>> THEN values
                        ELSE [values EXCEPT ![Len(values)].items = @ \o items]
    <3>1. front \in Seq(ValueFrame(S))
      BY <2>4, Added DEF S
    <3> HIDE DEF front
    <3>2. front \o open \in Seq(ValueFrame(S))
      BY <3>1, ConcatProperties DEF S
    <3> QED BY <2>1, <3>2 DEF front
  <2> QED BY <1>2, <2>1, <2>2, <2>4, <2>5, <2>6, Going, BoundsAssumption DEF S
<1> QED BY <1>1, <1>2

\* A list begins, inside the innermost.
LEMMA OpenScopeKeeps ==
  ASSUME IInv, status = "compiling",
         NEW kind \in {"not", "condition"}, OpenScope(kind, <<>>)
  PROVE  IInv'
<1>1. /\ scopes' = Append(scopes, NewScope(kind, env, <<>>)) /\ size' = size + 1
      /\ UNCHANGED <<env, values, lists, status>>
  BY DEF OpenScope
<1>2. NewScope(kind, env, <<>>) \in ScopeFrame(Handed)
  <2>1. Len(env.slots) \in Nat /\ env.visible \in [Names -> Handed \cup {NoSlot}]
    BY Shape, LenProperties DEF Good, Environment
  <2>2. <<>> \in Ops(Handed)
    BY EmptySeq DEF Ops
  <2> QED BY <2>1, <2>2 DEF NewScope, ScopeFrame
<1>3. /\ scopes' \in Seq(ScopeFrame(Handed)) /\ scopes' # <<>> /\ scopes'[1] = scopes[1]
  BY <1>1, <1>2, Shape, AppendProperties
<1> QED BY <1>1, <1>3, Shape, Going DEF IInv, Outermost

\* What is made of a slot and its items is an operation.
LEMMA MadeOps ==
  ASSUME NEW S, Inner \in ValueFrame(S), Inner.kind = "comparison" => Len(Inner.items) = 2
  PROVE  Made \in Ops(S) /\ Inner.after \in Ops(S) /\ Made \o Inner.after \in Ops(S)
<1>1. Inner.items \in Seq(ItemOf(S)) /\ Inner.after \in Ops(S)
  BY DEF ValueFrame
<1>2. Inner.kind # "comparison" => Inner.slot \in S
  BY DEF ValueFrame
<1>3. Made \in Ops(S)
  <2>1. CASE Inner.kind \in {"tuple", "enum", "calculation", "new", "removed"}
    <3>1. Inner.slot \in S
      BY <1>2, <2>1
    <3> HIDE DEF Inner
    <3>2. /\ <<TupleOp(Inner.slot, Inner.items)>> \in Ops(S)
          /\ <<EnumOp(Inner.slot, Inner.items)>> \in Ops(S)
          /\ <<CalculationOp(Inner.slot, Inner.items)>> \in Ops(S)
          /\ <<CreateTuple(Inner.slot, Inner.items)>> \in Ops(S)
      BY <1>1, <3>1, OperationsMade
    <3> QED BY <2>1, <3>2 DEF Made
  <2>2. CASE Inner.kind = "comparison"
    <3>1. Inner.items[1] \in ItemOf(S) /\ Inner.items[2] \in ItemOf(S)
      BY <1>1, <2>2, ElementOfSeq
    <3>2. CompareOp(Inner.items) \in SelectOperation(S)
      BY <3>1 DEF CompareOp, SelectOperation
    <3>3. <<CompareOp(Inner.items)>> \in Ops(S)
      BY <3>2 DEF Ops
    <3> QED BY <2>2, <3>3 DEF Made
  <2>3. CASE Inner.kind \in {"struct", "object"}
    BY <2>3, EmptySeq DEF Made, Ops
  <2> QED BY <2>1, <2>2, <2>3 DEF ValueFrame
<1> QED BY <1>1, <1>3, ConcatProperties DEF Ops

\* What is open is closed.
LEMMA CloseInnerKeeps ==
  ASSUME IInv, status = "compiling", values # <<>>,
         Inner.kind = "comparison" => Len(Inner.items) = 2,
         CloseInner
  PROVE  IInv'
<1>1. /\ scopes' = [scopes EXCEPT ![Len(scopes)].ops = @ \o (Made \o Inner.after)]
      /\ values' = Front(values)
      /\ UNCHANGED <<env, lists, size, status>>
  BY DEF CloseInner
<1> DEFINE ops == Made \o Inner.after
<1>2. ops \in Ops(Handed)
  BY Shape, MadeOps
<1>3. scopes' = [scopes EXCEPT ![Len(scopes)].ops = @ \o ops]
  BY <1>1
<1> HIDE DEF ops
<1>4. /\ scopes' \in Seq(ScopeFrame(Handed)) /\ scopes' # <<>>
      /\ scopes'[1].kind = scopes[1].kind
  <2>1. /\ scopes \in Seq(ScopeFrame(Handed)) /\ scopes # <<>>
        /\ scopes[Len(scopes)] \in ScopeFrame(Handed)
    BY Shape, Zenon
  <2> DEFINE f == [scopes[Len(scopes)] EXCEPT !.ops = @ \o ops]
  <2>2. scopes' = [scopes EXCEPT ![Len(scopes)] = f]
    BY <1>3, Zenon
  <2>3. f \in ScopeFrame(Handed) /\ f.kind = scopes[Len(scopes)].kind
    BY <1>2, <2>1, Pushed, Zenon
  <2> HIDE DEF f
  <2> QED BY <2>1, <2>2, <2>3, Replaced
<1>5. values' \in Seq(ValueFrame(Handed))
  BY <1>1, Shape, FrontOf
<1> QED BY <1>1, <1>4, <1>5, Shape, Going DEF IInv, Outermost

\* What was visible where a list began is visible again.
LEMMA RestoredGood ==
  ASSUME IInv, status = "compiling"
  PROVE  Good(Restored) /\ Restored.slots = env.slots /\ Restored.visible = Scope.visible
<1>1. Scope.visible \in [Names -> SlotsIn(env) \cup {NoSlot}]
  BY Shape DEF ScopeFrame
<1> DEFINE f == Restored
           v == Scope.visible
<1>2. f = [env EXCEPT !.visible = v] /\ Good(env) /\ v \in [Names -> SlotsIn(env) \cup {NoSlot}]
  BY <1>1, Shape DEF Restored
<1> HIDE DEF f, v
<1>3. Good(f) /\ f.slots = env.slots /\ f.visible = v
  BY ONLY <1>2, VisibleGood, Zenon
<1> QED BY <1>3 DEF f, v

\* A list ends, and the one around it goes on with the operation it is part of.
LEMMA ReturnKeeps ==
  ASSUME IInv, status = "compiling", Scope.kind \notin {"select", "apply"},
         NEW outer, outer = Front(scopes)[Len(scopes) - 1],
         NEW f, outer \in ScopeFrame(Handed) => f \in ScopeFrame(Handed) /\ f.kind = outer.kind,
         scopes' = [Front(scopes) EXCEPT ![Len(scopes) - 1] = f],
         env' = Restored, UNCHANGED <<values, lists, size, status>>
  PROVE  IInv'
<1> DEFINE s == Front(scopes)
<1>1. /\ s \in Seq(ScopeFrame(Handed)) /\ Len(s) = Len(scopes) - 1
      /\ Len(scopes) \in Nat \ {0} /\ Len(scopes) > 1
      /\ \A i \in 1 .. Len(scopes) - 1 : s[i] = scopes[i]
  BY Shape, FrontOf
<1>2. outer = s[Len(s)] /\ s[1] = scopes[1] /\ s # <<>>
  BY <1>1, EmptySeq
<1>3. scopes' = [s EXCEPT ![Len(s)] = f]
  BY <1>1, Zenon
<1> HIDE DEF s
<1>4. outer \in ScopeFrame(Handed)
  BY <1>1, <1>2, EmptySeq, ElementOfSeq
<1>5. f \in ScopeFrame(Handed) /\ f.kind = s[Len(s)].kind
  BY <1>2, <1>4
<1>7. scopes' \in Seq(ScopeFrame(Handed)) /\ scopes' # <<>> /\ scopes'[1].kind = scopes[1].kind
  <2> DEFINE t == scopes'
  <2>1. s \in Seq(ScopeFrame(Handed)) /\ s # <<>> /\ t = [s EXCEPT ![Len(s)] = f]
    BY <1>1, <1>2, <1>3
  <2> HIDE DEF t
  <2>2. t \in Seq(ScopeFrame(Handed)) /\ t # <<>> /\ t[1].kind = s[1].kind
    BY ONLY <1>5, <2>1, Replaced
  <2> QED BY <1>2, <2>2 DEF t
<1>8. Good(env') /\ Len(env'.slots) <= MaxSlots /\ SlotsIn(env') = Handed
  BY RestoredGood, Shape DEF SlotsIn
<1> QED BY <1>7, <1>8, Shape, Going DEF IInv, Outermost

\* The body of a negation follows it.
LEMMA WithNotOps ==
  ASSUME NEW S, NEW ops \in Ops(S), NEW mark \in Nat, NEW body \in Ops(S)
  PROVE  WithNot(ops, mark, body) \in Ops(S)
<1>1. Len(body) \in Nat
  BY LenProperties DEF Ops
<1>2. [op |-> "Not", len |-> Len(body), mark |-> mark] \in SelectOperation(S)
  BY <1>1 DEF SelectOperation
<1> DEFINE op == [op |-> "Not", len |-> Len(body), mark |-> mark]
           O == SelectOperation(S) \cup ApplyOperation(S)
<1> HIDE DEF op, O
<1>3. <<op>> \in Seq(O) /\ ops \in Seq(O) /\ body \in Seq(O)
  BY <1>2 DEF op, O, Ops
<1>4. ops \o <<op>> \o body \in Seq(O)
  BY <1>3, ConcatProperties
<1> QED BY <1>4 DEF op, O, Ops, WithNot

LEMMA CloseNotKeeps ==
  ASSUME IInv, CloseNot
  PROVE  IInv'
<1> DEFINE outer == Front(scopes)[Len(scopes) - 1]
           list == WithNot(outer.ops, Scope.mark, Scope.ops)
<1>1. /\ status = "compiling" /\ Scope.kind = "not" /\ env' = Restored
      /\ UNCHANGED <<values, lists, size, status>>
  BY DEF CloseNot
<1> DEFINE f == [outer EXCEPT !.ops = list]
<1>2. scopes' = [Front(scopes) EXCEPT ![Len(scopes) - 1] = f]
  BY Zenon DEF CloseNot
<1>3. outer \in ScopeFrame(Handed) => f \in ScopeFrame(Handed) /\ f.kind = outer.kind
  <2> HIDE DEF outer
  <2>1. Scope.mark \in Nat /\ Scope.ops \in Ops(Handed)
    BY <1>1, Shape DEF ScopeFrame
  <2>2. outer \in ScopeFrame(Handed) => outer.ops \in Ops(Handed)
    BY DEF ScopeFrame
  <2>3. outer \in ScopeFrame(Handed) => list \in Ops(Handed)
    BY <2>1, <2>2, WithNotOps
  <2> HIDE DEF list
  <2> QED BY <2>3, Filled, Zenon
<1>4. outer = Front(scopes)[Len(scopes) - 1] /\ Scope.kind \notin {"select", "apply"}
  BY <1>1
<1> HIDE DEF outer, list, f
<1> QED BY <1>1, <1>2, <1>3, <1>4, ReturnKeeps

LEMMA CloseSelectKeeps ==
  ASSUME IInv, CloseSelect
  PROVE  IInv'
<1>1. /\ status = "compiling" /\ lists' = <<Scope.ops>>
      /\ scopes' = <<NewScope("apply", env, <<>>)>>
      /\ UNCHANGED <<env, values, size, status>>
  BY DEF CloseSelect
<1>2. NewScope("apply", env, <<>>) \in ScopeFrame(Handed)
  <2>1. Len(env.slots) \in Nat /\ env.visible \in [Names -> Handed \cup {NoSlot}]
    BY <1>1, Shape, LenProperties DEF Good, Environment
  <2>2. <<>> \in Ops(Handed)
    BY EmptySeq DEF Ops
  <2> QED BY <2>1, <2>2 DEF NewScope, ScopeFrame
<1>3. /\ scopes' \in Seq(ScopeFrame(Handed)) /\ scopes' # <<>>
      /\ scopes'[1].kind = "apply"
  BY <1>1, <1>2 DEF NewScope
<1>4. lists' \in Seq(Ops(Handed))
  <2>1. Scope.ops \in Ops(Handed)
    BY <1>1, Shape DEF ScopeFrame
  <2> QED BY <1>1, <2>1
<1> QED BY <1>1, <1>3, <1>4, Shape, Going

-----------------------------------------------------------------------------
(* Text.                                                                   *)

\* A value specification.
IsSpec(spec) ==
  /\ spec.form \in {"literal", "variable", "tuple", "enum", "struct"}
  /\ spec.variable \in Variables

LEMMA SpecsAreSpecs ==
  ASSUME NEW spec \in Specs
  PROVE  IsSpec(spec)
BY DEF Specs, IsSpec, Variables

\* A variable has a slot once it is bound.
LEMMA BoundGood ==
  ASSUME NEW e, Good(e), NEW v \in Variables
  PROVE  /\ Good(Bound(e, v))
         /\ Len(e.slots) \in Nat /\ Len(Bound(e, v).slots) \in Nat
         /\ Len(e.slots) <= Len(Bound(e, v).slots)
         /\ SlotsIn(e) \subseteq SlotsIn(Bound(e, v))
         /\ SlotOf(e, v) \in SlotsIn(Bound(e, v))
<1>1. CASE ~Known(e, v)
  <2>1. Bound(e, v) = Extended(e, v) /\ SlotOf(e, v) = Len(e.slots)
    BY <1>1 DEF Bound, SlotOf
  <2> QED BY <2>1, ExtendedGood DEF SlotsIn
<1>2. CASE Known(e, v)
  <2> DEFINE f == Bound(e, v)
             k == e.visible[v] + 1
             entry == [e.slots[k] EXCEPT !.count = @ + 1]
             slots == [e.slots EXCEPT ![k] = entry]
             Entries == [name : Variables, count : Nat]
  <2>1. e \in [slots : Seq(Entries), instances : [Names -> Nat],
               visible : [Names -> SlotsIn(e) \cup {NoSlot}]]
    BY DEF Good, Environment
  <2>2. Len(e.slots) \in Nat /\ e.visible[v] \in SlotsIn(e)
    BY <1>2, <2>1, LenProperties DEF Known, Variables
  <2>3. k \in 1 .. Len(e.slots)
    BY <2>2 DEF SlotsIn
  <2>4. f = [e EXCEPT !.slots = slots]
    BY <1>2, Zenon DEF Bound
  <2>5. f = [slots |-> slots, instances |-> e.instances, visible |-> e.visible]
    BY <2>1, <2>4, Zenon
  <2>6. entry \in Entries /\ entry.name = e.slots[k].name
    <3>1. e.slots[k] \in Entries
      BY <2>1, <2>3, ElementOfSeq
    <3> QED BY <3>1
  <2> HIDE DEF entry, f, k
  <2>7. /\ slots \in Seq(Entries) /\ Len(slots) = Len(e.slots)
        /\ \A j \in 1 .. Len(e.slots) : slots[j] = IF j = k THEN entry ELSE e.slots[j]
    BY <2>1, <2>3, <2>6, ExceptSeq
  <2> HIDE DEF slots
  <2>8. Environment(f) /\ SlotsIn(f) = SlotsIn(e)
    BY <2>1, <2>5, <2>7 DEF Environment, SlotsIn
  <2>9. Counted(f)
    <3>1. DOMAIN slots = DOMAIN e.slots /\ DOMAIN e.slots = 1 .. Len(e.slots)
      BY <2>1, <2>7, LenProperties
    <3>2. \A j \in DOMAIN slots : slots[j].name = e.slots[j].name
      BY <2>6, <2>7, <3>1
    <3>3. f.slots = slots /\ f.instances = e.instances
      BY <2>5
    <3> QED BY <3>1, <3>2, <3>3 DEF Counted, Good
  <2>10. SlotOf(e, v) = e.visible[v]
    BY <1>2 DEF SlotOf
  <2>11. f.slots = slots
    BY <2>5
  <2> QED BY <2>2, <2>7, <2>8, <2>9, <2>10, <2>11 DEF Good, f
<1> QED BY <1>1, <1>2

-----------------------------------------------------------------------------
(* Constructs.                                                             *)

\* What errors there are.
LEMMA Errors ==
  ASSUME IInv, NEW why, Stop(why),
         \/ \E v : why = ExistingError(v)
         \/ why \in {"IllegalReuse", "IllegalBindingMatch", "IllegalNamedBinding",
                     "IllegalEnumSpecification", "IllegalObjectSpecification", "IllegalWildcard"}
  PROVE  IInv'
BY Stopped DEF ExistingError

LEMMA AttributeStepKeeps ==
  ASSUME IInv, status = "compiling", NEW e, Good(e), Len(env.slots) <= Len(e.slots),
         NEW b \in SlotsIn(e), NEW spec, IsSpec(spec), AttributeStep(e, b, spec)
  PROVE  IInv'
<1> DEFINE s == SlotOf(e, spec.variable)
           bound == Bound(e, spec.variable)
           S == SlotsIn(bound)
<1>1. /\ Good(bound) /\ Len(env.slots) <= Len(bound.slots)
      /\ s \in S /\ b \in S
  <2>1. /\ Good(bound) /\ Len(e.slots) \in Nat /\ Len(bound.slots) \in Nat
        /\ Len(e.slots) <= Len(bound.slots)
        /\ SlotsIn(e) \subseteq S /\ s \in S
    BY BoundGood DEF IsSpec
  <2>2. Len(env.slots) \in Nat
    BY Shape, LenProperties DEF Good, Environment
  <2> QED BY <2>1, <2>2
<1>2. /\ <<AttributeOp(b, s)>> \in Ops(S) /\ <<>> \in Ops(S)
      /\ <<AttributeOp(b, s), Test("AssertObject", s)>> \in Ops(S)
  BY <1>1, OperationPieces
<1>3. <<Test("RequireValue", b)>> \in Ops(SlotsIn(e)) /\ <<Test("Require", b)>> \in Ops(SlotsIn(e))
  BY OperationPieces
<1>4. /\ <<>> \in Seq(ItemOf(S)) /\ <<>> \in Seq(ItemOf(SlotsIn(e)))
      /\ <<>> \in Seq(ValueFrame(S)) /\ <<>> \in Seq(ValueFrame(SlotsIn(e)))
  BY EmptySeq
<1>5. \A kind \in {"tuple", "enum", "struct"} : <<Open(kind, s, <<>>)>> \in Seq(ValueFrame(S))
  BY <1>1, <1>2, OpenPieces
<1>6. \/ Step(e, <<Test("RequireValue", b)>>, <<>>, <<>>)
      \/ Step(e, <<Test("Require", b)>>, <<>>, <<>>)
      \/ Step(bound, <<AttributeOp(b, s)>>, <<>>, <<>>)
      \/ \E kind \in {"tuple", "enum"} :
           Step(bound, <<AttributeOp(b, s)>>, <<>>, <<Open(kind, s, <<>>)>>)
      \/ Step(bound, <<AttributeOp(b, s), Test("AssertObject", s)>>, <<>>,
              <<Open("struct", s, <<>>)>>)
  BY Zenon DEF AttributeStep
<1> HIDE DEF s, bound, S
<1>7. CASE Step(e, <<Test("RequireValue", b)>>, <<>>, <<>>)
  BY <1>3, <1>4, <1>7, StepKeeps
<1>8. CASE Step(e, <<Test("Require", b)>>, <<>>, <<>>)
  BY <1>3, <1>4, <1>8, StepKeeps
<1>9. CASE Step(bound, <<AttributeOp(b, s)>>, <<>>, <<>>)
  BY <1>1, <1>2, <1>4, <1>9, StepKeeps DEF S
<1>10. ASSUME NEW kind \in {"tuple", "enum"},
              Step(bound, <<AttributeOp(b, s)>>, <<>>, <<Open(kind, s, <<>>)>>)
       PROVE  IInv'
  BY <1>1, <1>2, <1>4, <1>5, <1>10, StepKeeps DEF S
<1>11. CASE Step(bound, <<AttributeOp(b, s), Test("AssertObject", s)>>, <<>>,
                <<Open("struct", s, <<>>)>>)
  BY <1>1, <1>2, <1>4, <1>5, <1>11, StepKeeps DEF S
<1> QED BY <1>6, <1>7, <1>8, <1>9, <1>10, <1>11

\* A variable is bound where compilation is.
LEMMA BoundHere ==
  ASSUME IInv, status = "compiling", NEW v \in Variables
  PROVE  /\ Good(env) /\ Good(Bound(env, v))
         /\ Len(env.slots) \in Nat /\ Len(env.slots) <= Len(Bound(env, v).slots)
         /\ Handed = SlotsIn(env) /\ Handed \subseteq SlotsIn(Bound(env, v))
         /\ SlotOf(env, v) \in SlotsIn(Bound(env, v))
BY Shape, BoundGood

LEMMA SelectBindingKeeps ==
  ASSUME IInv, SelectBinding
  PROVE  IInv'
<1>1. PICK v \in Variables, spec \in Specs :
        LET e == Bound(env, v)
            s == SlotOf(env, v)
        IN  \/ Stop(ExistingError(v))
            \/ Stop("IllegalBindingMatch")
            \/ Stop("IllegalNamedBinding")
            \/ Step(e, <<Test("CompareBinding", s)>>, <<>>, <<>>)
            \/ \E kind \in {"tuple", "enum"} : Step(e, <<>>, <<>>, <<Open(kind, s, <<>>)>>)
            \/ Step(e, <<Test("AssertObject", s)>>, <<>>, <<Open("struct", s, <<>>)>>)
  BY Zenon DEF SelectBinding
<1>2. status = "compiling"
  BY DEF SelectBinding, More
<1> DEFINE e == Bound(env, v)
           s == SlotOf(env, v)
           S == SlotsIn(e)
<1>3. Good(e) /\ Len(env.slots) <= Len(e.slots) /\ s \in S
  BY <1>2, BoundHere
<1>4. <<Test("CompareBinding", s)>> \in Ops(S) /\ <<Test("AssertObject", s)>> \in Ops(S)
  BY <1>3, OperationPieces
<1>5. <<>> \in Ops(S) /\ <<>> \in Seq(ItemOf(S)) /\ <<>> \in Seq(ValueFrame(S))
  BY Nothing
<1>6. \A kind \in {"tuple", "enum", "struct"} : <<Open(kind, s, <<>>)>> \in Seq(ValueFrame(S))
  BY <1>3, <1>5, OpenPieces
<1>7. CASE Stop(ExistingError(v)) \/ Stop("IllegalBindingMatch") \/ Stop("IllegalNamedBinding")
  BY <1>7, Errors
<1> HIDE DEF e, s, S
<1>8. CASE Step(e, <<Test("CompareBinding", s)>>, <<>>, <<>>)
  BY <1>2, <1>3, <1>4, <1>5, <1>8, StepKeeps DEF S
<1>9. ASSUME NEW kind \in {"tuple", "enum"}, Step(e, <<>>, <<>>, <<Open(kind, s, <<>>)>>)
      PROVE  IInv'
  BY <1>2, <1>3, <1>5, <1>6, <1>9, StepKeeps DEF S
<1>10. CASE Step(e, <<Test("AssertObject", s)>>, <<>>, <<Open("struct", s, <<>>)>>)
  BY <1>2, <1>3, <1>4, <1>5, <1>6, <1>10, StepKeeps DEF S
<1> QED BY <1>1, <1>7, <1>8, <1>9, <1>10 DEF e, s

LEMMA SelectAttributeKeeps ==
  ASSUME IInv, SelectAttribute
  PROVE  IInv'
<1>1. status = "compiling"
  BY DEF SelectAttribute, More
<1>2. PICK v \in Variables, spec \in Specs :
        IF Known(env, v) THEN AttributeStep(Bound(env, v), SlotOf(env, v), spec)
                         ELSE Stop(ExistingError(v))
  BY DEF SelectAttribute
<1>3. CASE Stop(ExistingError(v))
  BY <1>3, Errors
<1>4. CASE AttributeStep(Bound(env, v), SlotOf(env, v), spec)
  BY <1>1, <1>4, BoundHere, SpecsAreSpecs, AttributeStepKeeps
<1> QED BY <1>2, <1>3, <1>4

LEMMA SelectNestedKeeps ==
  ASSUME IInv, SelectNested
  PROVE  IInv'
<1>1. status = "compiling" /\ values # <<>> /\ Inner.kind = "struct"
  BY DEF SelectNested, More, InValue
<1>2. PICK spec \in Specs : AttributeStep(env, Inner.slot, spec)
  BY DEF SelectNested
<1>3. Inner.slot \in SlotsIn(env) /\ Good(env) /\ Len(env.slots) \in Nat
  BY <1>1, Shape, LenProperties DEF ValueFrame, Good, Environment
<1>4. IsSpec(spec) /\ Len(env.slots) <= Len(env.slots)
  BY <1>3, SpecsAreSpecs
<1> QED BY <1>1, <1>2, <1>3, <1>4, AttributeStepKeeps

LEMMA SelectItemKeeps ==
  ASSUME IInv, SelectItem
  PROVE  IInv'
<1>1. PICK spec \in Specs :
        LET e == Bound(env, spec.variable)
            s == SlotOf(env, spec.variable)
        IN  \/ Step(env, <<>>, <<Literal>>, <<>>)
            \/ Step(env, <<>>, <<Ignore>>, <<>>)
            \/ Step(e, <<>>, <<Slot(s)>>, <<>>)
            \/ \E kind \in {"tuple", "enum"} :
                 Step(e, <<>>, <<Slot(s)>>, <<Open(kind, s, <<>>)>>)
            \/ Step(e, <<Test("AssertObject", s)>>, <<Slot(s)>>, <<Open("struct", s, <<>>)>>)
  BY Zenon DEF SelectItem
<1>2. status = "compiling" /\ values # <<>>
  BY DEF SelectItem, More, InValue
<1> DEFINE e == Bound(env, spec.variable)
           s == SlotOf(env, spec.variable)
           S == SlotsIn(e)
<1>3. /\ Good(e) /\ Len(env.slots) <= Len(e.slots) /\ s \in S
      /\ Good(env) /\ Len(env.slots) <= Len(env.slots)
  BY <1>2, BoundHere, SpecsAreSpecs DEF IsSpec
<1>4. <<Test("AssertObject", s)>> \in Ops(S)
  BY <1>3, OperationPieces
<1>5. /\ <<>> \in Ops(S) /\ <<>> \in Seq(ItemOf(S)) /\ <<>> \in Seq(ValueFrame(S))
      /\ <<>> \in Ops(SlotsIn(env)) /\ <<>> \in Seq(ValueFrame(SlotsIn(env)))
  BY Nothing
<1>6. \A kind \in {"tuple", "enum", "struct"} : <<Open(kind, s, <<>>)>> \in Seq(ValueFrame(S))
  BY <1>3, <1>5, OpenPieces
<1>7. /\ <<Slot(s)>> \in Seq(ItemOf(S))
      /\ <<Literal>> \in Seq(ItemOf(SlotsIn(env))) /\ <<Ignore>> \in Seq(ItemOf(SlotsIn(env)))
  BY <1>3, ItemPieces
<1> HIDE DEF e, s, S
<1>8. CASE Step(env, <<>>, <<Literal>>, <<>>) \/ Step(env, <<>>, <<Ignore>>, <<>>)
  BY <1>2, <1>3, <1>5, <1>7, <1>8, StepKeeps
<1>9. CASE Step(e, <<>>, <<Slot(s)>>, <<>>)
  BY <1>2, <1>3, <1>5, <1>7, <1>9, StepKeeps DEF S
<1>10. ASSUME NEW kind \in {"tuple", "enum"}, Step(e, <<>>, <<Slot(s)>>, <<Open(kind, s, <<>>)>>)
       PROVE  IInv'
  BY <1>2, <1>3, <1>5, <1>6, <1>7, <1>10, StepKeeps DEF S
<1>11. CASE Step(e, <<Test("AssertObject", s)>>, <<Slot(s)>>, <<Open("struct", s, <<>>)>>)
  BY <1>2, <1>3, <1>4, <1>6, <1>7, <1>11, StepKeeps DEF S
<1> QED BY <1>1, <1>8, <1>9, <1>10, <1>11 DEF e, s

LEMMA ComparisonKeeps ==
  ASSUME IInv, Comparison
  PROVE  IInv'
<1>1. /\ status = "compiling"
      /\ Step(env, <<>>, <<>>, <<Open("comparison", NoSlot, <<>>)>>)
  BY DEF Comparison, More
<1>2. Good(env) /\ Len(env.slots) <= Len(env.slots)
  BY <1>1, Shape, LenProperties DEF Good, Environment
<1>3. <<>> \in Ops(SlotsIn(env)) /\ <<>> \in Seq(ItemOf(SlotsIn(env)))
  BY Nothing
<1>4. <<Open("comparison", NoSlot, <<>>)>> \in Seq(ValueFrame(SlotsIn(env)))
  BY <1>3, OpenPieces
<1> QED BY <1>1, <1>2, <1>3, <1>4, StepKeeps

LEMMA CalculationKeeps ==
  ASSUME IInv, Calculation
  PROVE  IInv'
<1>1. PICK v \in Variables :
        \/ Stop("IllegalWildcard") \/ Stop("IllegalReuse")
        \/ Step(Bound(env, v), <<>>, <<>>, <<Open("calculation", SlotOf(env, v), <<>>)>>)
  BY Zenon DEF Calculation
<1>2. status = "compiling"
  BY DEF Calculation, More
<1>3. CASE Stop("IllegalWildcard") \/ Stop("IllegalReuse")
  BY <1>3, Errors
<1>4. CASE Step(Bound(env, v), <<>>, <<>>, <<Open("calculation", SlotOf(env, v), <<>>)>>)
  <2> DEFINE e == Bound(env, v)
             S == SlotsIn(e)
             open == <<Open("calculation", SlotOf(env, v), <<>>)>>
  <2>1. Good(e) /\ Len(env.slots) <= Len(e.slots) /\ SlotOf(env, v) \in S
    BY <1>2, BoundHere
  <2>2. <<>> \in Ops(S) /\ <<>> \in Seq(ItemOf(S))
    BY Nothing
  <2>3. open \in Seq(ValueFrame(S))
    BY <2>1, <2>2, OpenPieces
  <2> HIDE DEF e, open, S
  <2>4. Step(e, <<>>, <<>>, open)
    BY <1>4 DEF e, open
  <2> QED BY <1>2, <2>1, <2>2, <2>3, <2>4, StepKeeps DEF S
<1> QED BY <1>1, <1>3, <1>4

LEMMA OperandKeeps ==
  ASSUME IInv, Operand
  PROVE  IInv'
<1>1. status = "compiling" /\ values # <<>>
  BY DEF Operand, More, InValue
<1>2. \/ Step(env, <<>>, <<Literal>>, <<>>)
      \/ \E v \in Variables :
           \/ Step(Bound(env, v), <<>>, <<Slot(SlotOf(env, v))>>, <<>>)
           \/ Stop(ExistingError(v))
  BY Zenon DEF Operand
<1>3. CASE Step(env, <<>>, <<Literal>>, <<>>)
  <2>1. Good(env) /\ Len(env.slots) <= Len(env.slots)
    BY <1>1, Shape, LenProperties DEF Good, Environment
  <2>2. <<>> \in Ops(SlotsIn(env)) /\ <<>> \in Seq(ValueFrame(SlotsIn(env)))
    BY Nothing
  <2>3. <<Literal>> \in Seq(ItemOf(SlotsIn(env)))
    BY ItemPieces
  <2> QED BY <1>1, <1>3, <2>1, <2>2, <2>3, StepKeeps
<1>4. ASSUME NEW v \in Variables, Stop(ExistingError(v))
      PROVE  IInv'
  BY <1>4, Errors
<1>5. ASSUME NEW v \in Variables, Step(Bound(env, v), <<>>, <<Slot(SlotOf(env, v))>>, <<>>)
      PROVE  IInv'
  <2> DEFINE e == Bound(env, v)
             S == SlotsIn(e)
             items == <<Slot(SlotOf(env, v))>>
  <2>1. Good(e) /\ Len(env.slots) <= Len(e.slots) /\ SlotOf(env, v) \in S
    BY <1>1, BoundHere
  <2>2. <<>> \in Ops(S) /\ <<>> \in Seq(ValueFrame(S))
    BY Nothing
  <2>3. items \in Seq(ItemOf(S))
    BY <2>1, ItemPieces
  <2> HIDE DEF e, items, S
  <2>4. Step(e, <<>>, items, <<>>)
    BY <1>5 DEF e, items
  <2> QED BY <1>1, <2>1, <2>2, <2>3, <2>4, StepKeeps DEF S
<1> QED BY <1>2, <1>3, <1>4, <1>5

LEMMA AddStepKeeps ==
  ASSUME IInv, status = "compiling", NEW e, Good(e), Len(env.slots) <= Len(e.slots),
         NEW b \in SlotsIn(e), NEW spec, IsSpec(spec), NEW op \in {"Add", "Remove"},
         AddStep(e, b, spec, op)
  PROVE  IInv'
<1> DEFINE s == SlotOf(e, spec.variable)
           bound == Bound(e, spec.variable)
           S == SlotsIn(bound)
           edit == <<Edit(op, b, Slot(s))>>
<1>1. /\ Good(bound) /\ Len(env.slots) <= Len(bound.slots)
      /\ s \in S /\ b \in S
  <2>1. /\ Good(bound) /\ Len(e.slots) \in Nat /\ Len(bound.slots) \in Nat
        /\ Len(e.slots) <= Len(bound.slots)
        /\ SlotsIn(e) \subseteq S /\ s \in S
    BY BoundGood DEF IsSpec
  <2>2. Len(env.slots) \in Nat
    BY Shape, LenProperties DEF Good, Environment
  <2> QED BY <2>1, <2>2
<1>2. edit \in Ops(S) /\ <<Create(s)>> \in Ops(S) /\ <<Edit(op, b, Literal)>> \in Ops(SlotsIn(e))
  BY <1>1, OperationPieces, ItemPieces
<1>3. /\ <<>> \in Ops(S) /\ <<>> \in Seq(ItemOf(S)) /\ <<>> \in Seq(ValueFrame(S))
      /\ <<>> \in Seq(ItemOf(SlotsIn(e))) /\ <<>> \in Seq(ValueFrame(SlotsIn(e)))
  BY Nothing
<1>4. \A kind \in {"new", "removed", "object"} : <<Open(kind, s, edit)>> \in Seq(ValueFrame(S))
  BY <1>1, <1>2, OpenPieces
<1>5. \/ Step(e, <<Edit(op, b, Literal)>>, <<>>, <<>>)
      \/ Step(bound, edit, <<>>, <<>>)
      \/ Stop(ExistingError(spec.variable)) \/ Stop("IllegalEnumSpecification")
      \/ Stop("IllegalObjectSpecification") \/ Stop("IllegalReuse")
      \/ \E kind \in {"new", "removed"} : Step(bound, <<>>, <<>>, <<Open(kind, s, edit)>>)
      \/ Step(bound, <<Create(s)>>, <<>>, <<Open("object", s, edit)>>)
  BY Zenon DEF AddStep
<1> HIDE DEF s, bound, S, edit
<1>6. CASE Step(e, <<Edit(op, b, Literal)>>, <<>>, <<>>)
  BY <1>2, <1>3, <1>6, StepKeeps
<1>7. CASE Step(bound, edit, <<>>, <<>>)
  BY <1>1, <1>2, <1>3, <1>7, StepKeeps DEF S
<1>8. CASE \/ Stop(ExistingError(spec.variable)) \/ Stop("IllegalEnumSpecification")
           \/ Stop("IllegalObjectSpecification") \/ Stop("IllegalReuse")
  BY <1>8, Errors
<1>9. ASSUME NEW kind \in {"new", "removed"}, Step(bound, <<>>, <<>>, <<Open(kind, s, edit)>>)
      PROVE  IInv'
  BY <1>1, <1>3, <1>4, <1>9, StepKeeps DEF S
<1>10. CASE Step(bound, <<Create(s)>>, <<>>, <<Open("object", s, edit)>>)
  BY <1>1, <1>2, <1>3, <1>4, <1>10, StepKeeps DEF S
<1> QED BY <1>5, <1>6, <1>7, <1>8, <1>9, <1>10

LEMMA ApplyKeeps ==
  ASSUME IInv, Apply
  PROVE  IInv'
<1>1. status = "compiling"
  BY DEF Apply, More
<1>2. PICK v \in Variables, spec \in Specs, op \in {"Add", "Remove"} :
        IF Known(env, v) THEN AddStep(Bound(env, v), SlotOf(env, v), spec, op)
                         ELSE Stop(ExistingError(v))
  BY DEF Apply
<1>3. CASE Stop(ExistingError(v))
  BY <1>3, Errors
<1>4. CASE AddStep(Bound(env, v), SlotOf(env, v), spec, op)
  BY <1>1, <1>4, BoundHere, SpecsAreSpecs, AddStepKeeps
<1> QED BY <1>2, <1>3, <1>4

LEMMA ApplyNestedKeeps ==
  ASSUME IInv, ApplyNested
  PROVE  IInv'
<1>1. status = "compiling" /\ values # <<>> /\ Inner.kind = "object"
  BY DEF ApplyNested, More, InValue
<1>2. PICK spec \in Specs : AddStep(env, Inner.slot, spec, "Add")
  BY DEF ApplyNested
<1>3. Inner.slot \in SlotsIn(env) /\ Good(env) /\ Len(env.slots) \in Nat
  BY <1>1, Shape, LenProperties DEF ValueFrame, Good, Environment
<1>4. IsSpec(spec) /\ Len(env.slots) <= Len(env.slots)
  BY <1>3, SpecsAreSpecs
<1> QED BY <1>1, <1>2, <1>3, <1>4, AddStepKeeps

LEMMA ApplyItemKeeps ==
  ASSUME IInv, ApplyItem
  PROVE  IInv'
<1>1. PICK spec \in Specs :
        LET e == Bound(env, spec.variable)
            s == SlotOf(env, spec.variable)
        IN  \/ Step(env, <<>>, <<Literal>>, <<>>)
            \/ Step(e, <<>>, <<Slot(s)>>, <<>>)
            \/ Stop(ExistingError(spec.variable)) \/ Stop("IllegalEnumSpecification")
            \/ Stop("IllegalObjectSpecification") \/ Stop("IllegalReuse")
            \/ Step(e, <<>>, <<Slot(s)>>, <<Open(Inner.kind, s, <<>>)>>)
            \/ Step(e, <<Create(s)>>, <<Slot(s)>>, <<Open("object", s, <<>>)>>)
  BY Zenon DEF ApplyItem
<1>2. status = "compiling" /\ values # <<>> /\ Inner.kind \in {"new", "removed"}
  BY DEF ApplyItem, More, InValue
<1> DEFINE e == Bound(env, spec.variable)
           s == SlotOf(env, spec.variable)
           S == SlotsIn(e)
           kind == Inner.kind
<1>3. /\ Good(e) /\ Len(env.slots) <= Len(e.slots) /\ s \in S
      /\ Good(env) /\ Len(env.slots) <= Len(env.slots)
  BY <1>2, BoundHere, SpecsAreSpecs DEF IsSpec
<1>4. <<Create(s)>> \in Ops(S)
  BY <1>3, OperationPieces
<1>5. /\ <<>> \in Ops(S) /\ <<>> \in Seq(ItemOf(S)) /\ <<>> \in Seq(ValueFrame(S))
      /\ <<>> \in Ops(SlotsIn(env)) /\ <<>> \in Seq(ValueFrame(SlotsIn(env)))
  BY Nothing
<1>6. /\ <<Open(kind, s, <<>>)>> \in Seq(ValueFrame(S))
      /\ <<Open("object", s, <<>>)>> \in Seq(ValueFrame(S))
  BY <1>2, <1>3, <1>5, OpenPieces
<1>7. <<Slot(s)>> \in Seq(ItemOf(S)) /\ <<Literal>> \in Seq(ItemOf(SlotsIn(env)))
  BY <1>3, ItemPieces
<1> HIDE DEF e, s, S, kind
<1>8. CASE Step(env, <<>>, <<Literal>>, <<>>)
  BY <1>2, <1>3, <1>5, <1>7, <1>8, StepKeeps
<1>9. CASE Step(e, <<>>, <<Slot(s)>>, <<>>)
  BY <1>2, <1>3, <1>5, <1>7, <1>9, StepKeeps DEF S
<1>10. CASE \/ Stop(ExistingError(spec.variable)) \/ Stop("IllegalEnumSpecification")
            \/ Stop("IllegalObjectSpecification") \/ Stop("IllegalReuse")
  BY <1>10, Errors
<1>11. CASE Step(e, <<>>, <<Slot(s)>>, <<Open(kind, s, <<>>)>>)
  BY <1>2, <1>3, <1>5, <1>6, <1>7, <1>11, StepKeeps DEF S
<1>12. CASE Step(e, <<Create(s)>>, <<Slot(s)>>, <<Open("object", s, <<>>)>>)
  BY <1>2, <1>3, <1>4, <1>6, <1>7, <1>12, StepKeeps DEF S
<1> QED BY <1>1, <1>8, <1>9, <1>10, <1>11, <1>12 DEF e, s, kind

LEMMA CloseValueKeeps ==
  ASSUME IInv, CloseValue
  PROVE  IInv'
<1>1. status = "compiling" /\ values # <<>> /\ CloseInner
  BY DEF CloseValue
<1>2. Inner.kind = "comparison" => Len(Inner.items) = 2
  BY DEF CloseValue, Complete
<1> QED BY <1>1, <1>2, CloseInnerKeeps

\* The next part of a conditional begins where the one before it began.
LEMMA NextPartKeeps ==
  ASSUME IInv, status = "compiling", Scope.kind \notin {"select", "apply"},
         NEW kind \in {"then", "otherwise"}, NEW then \in Ops(Handed),
         scopes' = Append(Front(scopes), NewScope(kind, Restored, then)),
         env' = Restored, lists' \in Seq(Ops(Handed)), UNCHANGED <<values, size, status>>
  PROVE  IInv'
<1> DEFINE f == NewScope(kind, Restored, then)
<1>1. f \in ScopeFrame(Handed)
  <2>1. Restored.visible \in [Names -> Handed \cup {NoSlot}] /\ Len(Restored.slots) \in Nat
    BY RestoredGood, Shape, LenProperties DEF Good, Environment, ScopeFrame
  <2>2. <<>> \in Ops(Handed)
    BY Nothing
  <2> QED BY <2>1, <2>2 DEF NewScope, ScopeFrame
<1> HIDE DEF f
<1>2. /\ Front(scopes) \in Seq(ScopeFrame(Handed)) /\ Len(Front(scopes)) = Len(scopes) - 1
      /\ Len(scopes) \in Nat /\ Len(scopes) > 1
      /\ \A i \in 1 .. Len(scopes) - 1 : Front(scopes)[i] = scopes[i]
  BY Shape, FrontOf
<1>3. scopes' = Append(Front(scopes), f)
  BY DEF f
<1>4. /\ scopes' \in Seq(ScopeFrame(Handed)) /\ scopes' # <<>> /\ scopes'[1] = scopes[1]
  BY <1>1, <1>2, <1>3, AppendProperties
<1>5. Good(env') /\ Len(env'.slots) <= MaxSlots /\ SlotsIn(env') = Handed
  BY RestoredGood, Shape DEF SlotsIn
<1> QED BY <1>4, <1>5, Shape, Going DEF IInv, Outermost

LEMMA CloseConditionKeeps ==
  ASSUME IInv, CloseCondition
  PROVE  IInv'
<1>1. /\ status = "compiling" /\ Scope.kind = "condition" /\ lists' = Append(lists, Scope.ops)
      /\ scopes' = Append(Front(scopes), NewScope("then", Restored, <<>>))
      /\ env' = Restored /\ UNCHANGED <<values, size, status>>
  BY DEF CloseCondition
<1>2. lists' \in Seq(Ops(Handed))
  <2>1. Scope.ops \in Ops(Handed) /\ lists \in Seq(Ops(Handed))
    BY <1>1, Shape DEF ScopeFrame
  <2> QED BY <1>1, <2>1, AppendProperties
<1>3. <<>> \in Ops(Handed)
  BY Nothing
<1> QED BY <1>1, <1>2, <1>3, NextPartKeeps

LEMMA CloseThenKeeps ==
  ASSUME IInv, CloseThen
  PROVE  IInv'
<1>1. /\ status = "compiling" /\ Scope.kind = "then" /\ lists' = lists
      /\ scopes' = Append(Front(scopes), NewScope("otherwise", Restored, Scope.ops))
      /\ env' = Restored /\ UNCHANGED <<values, size, status>>
  BY DEF CloseThen
<1>2. Scope.ops \in Ops(Handed) /\ lists' \in Seq(Ops(Handed))
  BY <1>1, Shape DEF ScopeFrame
<1> QED BY <1>1, <1>2, NextPartKeeps

\* The branches of a conditional follow it.
LEMMA WithConditionalOps ==
  ASSUME NEW S, NEW ops \in Ops(S), NEW then \in Ops(S), NEW otherwise \in Ops(S)
  PROVE  WithConditional(ops, then, otherwise) \in Ops(S)
<1> DEFINE op == [op |-> "Conditional", then_len |-> Len(then), otherwise_len |-> Len(otherwise)]
           O == SelectOperation(S) \cup ApplyOperation(S)
<1>1. Len(then) \in Nat /\ Len(otherwise) \in Nat
  BY LenProperties DEF Ops
<1>2. op \in ApplyOperation(S)
  BY <1>1 DEF ApplyOperation
<1> HIDE DEF op, O
<1>3. <<op>> \in Seq(O) /\ ops \in Seq(O) /\ then \in Seq(O) /\ otherwise \in Seq(O)
  BY <1>2 DEF O, Ops
<1>4. ops \o <<op>> \o then \o otherwise \in Seq(O)
  BY <1>3, ConcatProperties
<1> QED BY <1>4 DEF op, O, Ops, WithConditional

LEMMA CloseOtherwiseKeeps ==
  ASSUME IInv, CloseOtherwise
  PROVE  IInv'
<1> DEFINE outer == Front(scopes)[Len(scopes) - 1]
           list == WithConditional(outer.ops, Scope.then, Scope.ops)
           f == [outer EXCEPT !.ops = list]
<1>1. /\ status = "compiling" /\ Scope.kind = "otherwise" /\ env' = Restored
      /\ UNCHANGED <<values, lists, size, status>>
  BY DEF CloseOtherwise
<1>2. scopes' = [Front(scopes) EXCEPT ![Len(scopes) - 1] = f]
  BY Zenon DEF CloseOtherwise
<1>3. outer \in ScopeFrame(Handed) => f \in ScopeFrame(Handed) /\ f.kind = outer.kind
  <2> HIDE DEF outer
  <2>1. Scope.then \in Ops(Handed) /\ Scope.ops \in Ops(Handed)
    BY <1>1, Shape DEF ScopeFrame
  <2>2. outer \in ScopeFrame(Handed) => outer.ops \in Ops(Handed)
    BY DEF ScopeFrame
  <2>3. outer \in ScopeFrame(Handed) => list \in Ops(Handed)
    BY <2>1, <2>2, WithConditionalOps
  <2> HIDE DEF list
  <2> QED BY <2>3, Filled, Zenon
<1>4. outer = Front(scopes)[Len(scopes) - 1] /\ Scope.kind \notin {"select", "apply"}
  BY <1>1
<1> HIDE DEF outer, list, f
<1> QED BY <1>1, <1>2, <1>3, <1>4, ReturnKeeps

\* A rule is not accepted with a name that got two slots.
LEMMA VerifyKeeps ==
  ASSUME IInv, Verify
  PROVE  IInv'
<1>1. /\ status = "compiling" /\ UNCHANGED <<env, scopes, values, lists, size>>
      /\ status' = IF RepeatedNames # {} THEN "RepeatBindings"
                   ELSE IF UsedOnce # {} THEN "SingleBindingUse" ELSE "accepted"
  BY DEF Verify
<1>2. TypeOK'
  BY <1>1 DEF IInv, TypeOK, Handed
<1>3. Counted(env)' /\ Outermost'
  BY <1>1 DEF IInv, Counted, Outermost
<1>4. OneSlotPerName'
  <2> SUFFICES ASSUME status' \in {"accepted", "SingleBindingUse"},
                      NEW i \in DOMAIN env.slots, NEW j \in DOMAIN env.slots,
                      env.slots[i].name = env.slots[j].name, env.slots[i].name # Wildcard,
                      i # j
               PROVE  FALSE
    BY <1>1 DEF OneSlotPerName
  <2>1. RepeatedNames = {}
    BY <1>1
  <2>2. env.slots[i].name \in Names
    <3>1. env.slots \in Seq([name : Variables, count : Nat])
      BY DEF IInv, TypeOK
    <3>2. env.slots[i] \in [name : Variables, count : Nat]
      BY <3>1, ElementOfSeq, LenProperties
    <3> QED BY <3>2 DEF Variables
  <2> DEFINE n == env.slots[i].name
  <2>3. n \in Names /\ env.slots[i].name = n /\ env.slots[j].name = n
    BY <2>2
  <2> HIDE DEF n
  <2>4. env.instances[n] >= 2
    BY <2>3 DEF IInv, Counted
  <2>5. env.instances[n] \in Nat
    BY <2>3 DEF IInv, TypeOK
  <2> QED BY <2>1, <2>3, <2>4, <2>5 DEF RepeatedNames
<1> QED BY <1>2, <1>3, <1>4 DEF IInv

LEMMA InitGood ==
  ASSUME Init
  PROVE  IInv
<1>1. /\ env = InputEnv /\ scopes = <<NewScope("select", env, <<>>)>> /\ values = <<>>
      /\ lists = <<>> /\ size = 0 /\ status = "compiling"
  BY DEF Init
<1>2. /\ InputNames \in Seq(Names) /\ Len(InputNames) \in Nat
      /\ DOMAIN InputNames = 1 .. Len(InputNames)
      /\ \A i \in 1 .. Len(InputNames) : InputNames[i] \in Names
  BY InputNamesAssumption, LenProperties, ElementOfSeq
<1>3. /\ env.slots = [i \in 1 .. Len(InputNames) |-> [name |-> InputNames[i], count |-> 1]]
      /\ env.instances = [n \in Names |-> IF n \in Range(InputNames) THEN 1 ELSE 0]
      /\ env.visible = [n \in Names |->
                          IF n \in Range(InputNames)
                          THEN (CHOOSE i \in DOMAIN InputNames : InputNames[i] = n) - 1
                          ELSE NoSlot]
      /\ env = [slots |-> env.slots, instances |-> env.instances, visible |-> env.visible]
  BY <1>1 DEF InputEnv
<1>4. /\ env.slots \in Seq([name : Variables, count : Nat]) /\ Len(env.slots) = Len(InputNames)
      /\ DOMAIN env.slots = 1 .. Len(InputNames)
      /\ \A i \in 1 .. Len(InputNames) : env.slots[i].name = InputNames[i]
  BY <1>2, <1>3 DEF Variables
<1>5. SlotsIn(env) = 0 .. Len(InputNames) - 1
  BY <1>4 DEF SlotsIn
<1>6. env.visible \in [Names -> SlotsIn(env) \cup {NoSlot}]
  <2> SUFFICES ASSUME NEW n \in Names, n \in Range(InputNames)
               PROVE  (CHOOSE i \in DOMAIN InputNames : InputNames[i] = n) - 1 \in SlotsIn(env)
    BY <1>3
  <2>1. \E i \in DOMAIN InputNames : InputNames[i] = n
    BY DEF Range
  <2>2. (CHOOSE i \in DOMAIN InputNames : InputNames[i] = n) \in 1 .. Len(InputNames)
    BY <1>2, <2>1
  <2> QED BY <1>2, <1>5, <2>2
<1>7. env.instances \in [Names -> Nat]
  BY <1>3
<1>8. Environment(env)
  BY <1>3, <1>4, <1>6, <1>7 DEF Environment
<1>9. Counted(env)
  <2> SUFFICES ASSUME NEW n \in Names
               PROVE  /\ \A i \in DOMAIN env.slots : env.slots[i].name = n => env.instances[n] >= 1
                      /\ \A i, j \in DOMAIN env.slots :
                           ~(i # j /\ env.slots[i].name = n /\ env.slots[j].name = n)
    BY Zenon DEF Counted
  <2>1. \A i \in 1 .. Len(InputNames) : InputNames[i] = n => env.instances[n] = 1
    BY <1>2, <1>3 DEF Range
  <2> QED BY <1>4, <2>1, InputNamesAssumption
<1> DEFINE f == NewScope("select", env, <<>>)
<1>10. f \in ScopeFrame(Handed) /\ f.kind = "select" /\ Handed = SlotsIn(env)
  BY <1>2, <1>4, <1>6, Nothing DEF NewScope, ScopeFrame, Handed, SlotsIn
<1> HIDE DEF f
<1>11. TypeOK
  <2>1. /\ scopes \in Seq(ScopeFrame(Handed)) /\ scopes # <<>>
        /\ values \in Seq(ValueFrame(Handed)) /\ lists \in Seq(Ops(Handed))
    BY <1>1, <1>10, EmptySeq DEF f
  <2> QED BY <1>1, <1>4, <1>8, <1>10, <2>1, BoundsAssumption DEF TypeOK, Environment
<1>12. Outermost /\ OneSlotPerName
  BY <1>1, <1>10 DEF Outermost, OneSlotPerName, f
<1> QED BY <1>9, <1>11, <1>12 DEF IInv

LEMMA NextKeeps ==
  ASSUME IInv, [Next]_vars
  PROVE  IInv'
<1>1. CASE SelectBinding \/ SelectAttribute \/ SelectNested \/ SelectItem
  BY <1>1, SelectBindingKeeps, SelectAttributeKeeps, SelectNestedKeeps, SelectItemKeeps
<1>2. CASE Not
  BY <1>2, OpenScopeKeeps DEF Not, More
<1>3. CASE Comparison \/ Calculation \/ Operand
  BY <1>3, ComparisonKeeps, CalculationKeeps, OperandKeeps
<1>4. CASE Apply \/ ApplyNested \/ ApplyItem
  BY <1>4, ApplyKeeps, ApplyNestedKeeps, ApplyItemKeeps
<1>5. CASE Conditional
  BY <1>5, OpenScopeKeeps DEF Conditional, More
<1>6. CASE CloseValue \/ CloseNot \/ CloseSelect
  BY <1>6, CloseValueKeeps, CloseNotKeeps, CloseSelectKeeps
<1>7. CASE CloseCondition \/ CloseThen \/ CloseOtherwise
  BY <1>7, CloseConditionKeeps, CloseThenKeeps, CloseOtherwiseKeeps
<1>8. CASE Verify
  BY <1>8, VerifyKeeps
<1>9. CASE UNCHANGED vars
  BY <1>9 DEF vars, IInv, TypeOK, Counted, Outermost, OneSlotPerName, Handed
<1> QED BY <1>1, <1>2, <1>3, <1>4, <1>5, <1>6, <1>7, <1>8, <1>9, Zenon DEF Next

-----------------------------------------------------------------------------

THEOREM Invariance == Spec => []IInv
BY InitGood, NextKeeps, PTL DEF Spec

\* Compiling a rule from its syntax tree hands out no more slots than can be
\* counted, and what is made mentions only slots that were handed out (Env::bind,
\* BindingSequence::next).
THEOREM TypeCorrect == Spec => []TypeOK
<1>1. IInv => TypeOK
  BY DEF IInv
<1> QED BY <1>1, Invariance, PTL

\* In a rule that verify_distinct_bindings lets pass, no name has two slots,
\* however negations, conditions and branches forget names in between.
THEOREM NamesHaveOneSlot == Spec => []OneSlotPerName
<1>1. IInv => OneSlotPerName
  BY DEF IInv
<1> QED BY <1>1, Invariance, PTL

-----------------------------------------------------------------------------
(* Builders.                                                               *)

\* A call opens no comparison: it gives both sides at once.
NoComparison == values # <<>> => Len(values) = 1 /\ values[1].kind \in {"tuple", "enum", "new"}

\* No call gives a slot a name, so that none can have two.
Anonymous(e) == \A i \in DOMAIN e.slots : e.slots[i].name = Wildcard

BInv == IInv /\ NoComparison /\ Anonymous(env)

\* A slot for no name.
LEMMA NewGood ==
  ASSUME IInv, status = "compiling"
  PROVE  /\ Good(WithNew) /\ Len(env.slots) <= Len(WithNew.slots)
         /\ New \in SlotsIn(WithNew) /\ Handed \subseteq SlotsIn(WithNew)
         /\ Good(env) /\ Len(env.slots) <= Len(env.slots) /\ Handed = SlotsIn(env)
<1>1. Wildcard \in Variables
  BY DEF Variables
<1>2. Good(env) /\ Handed = SlotsIn(env)
  BY Shape
<1>3. Good(WithNew) /\ Len(WithNew.slots) = Len(env.slots) + 1 /\ Len(env.slots) \in Nat
  BY <1>1, <1>2, ExtendedGood DEF WithNew
<1> QED BY <1>2, <1>3 DEF New, SlotsIn

LEMMA NewAnonymous ==
  ASSUME BInv
  PROVE  Anonymous(env) /\ Anonymous(WithNew)
<1>1. env.slots \in Seq([name : Variables, count : Nat]) /\ Anonymous(env)
  BY DEF BInv, IInv, TypeOK
<1>2. WithNew.slots = Append(env.slots, [name |-> Wildcard, count |-> 0])
  BY DEF WithNew, Extended
<1> QED BY <1>1, <1>2 DEF Anonymous

LEMMA StepAnonymous ==
  ASSUME NEW e, Anonymous(e), NEW ops, NEW items, NEW open, Step(e, ops, items, open)
  PROVE  Anonymous(env')
<1>1. CASE Len(e.slots) > MaxSlots
  BY <1>1 DEF Step, Stop, Anonymous
<1>2. CASE ~(Len(e.slots) > MaxSlots)
  <2>1. env' = e
    BY <1>2 DEF Step
  <2> QED BY <2>1 DEF Anonymous
<1> QED BY <1>1, <1>2

\* A call that opens nothing leaves what is open, or adds an item to it.
LEMMA ItemKeeps ==
  ASSUME IInv, NoComparison, NEW e, NEW ops, NEW items, items = <<>> \/ values # <<>>,
         Step(e, ops, items, <<>>), status = "compiling",
         items \in Seq(ItemOf(SlotsIn(e)))
  PROVE  NoComparison'
<1>1. CASE Len(e.slots) > MaxSlots
  BY <1>1 DEF Step, Stop, NoComparison
<1>2. CASE ~(Len(e.slots) > MaxSlots) /\ items = <<>>
  <2>1. values' = values \o <<>>
    BY <1>2 DEF Step
  <2>2. values' = values
    BY <2>1, Shape, ConcatEmptySeq
  <2> QED BY <2>2 DEF NoComparison
<1>3. CASE ~(Len(e.slots) > MaxSlots) /\ items # <<>>
  <2>1. values # <<>> /\ Len(values) = 1 /\ values[1].kind \in {"tuple", "enum", "new"}
    BY <1>3 DEF NoComparison
  <2> DEFINE f == [values[1] EXCEPT !.items = @ \o items]
             t == [values EXCEPT ![1] = f]
  <2>2. values[1] \in ValueFrame(Handed) /\ values \in Seq(ValueFrame(Handed))
    BY <2>1, Shape, ElementOfSeq
  <2>3. values' = [values EXCEPT ![Len(values)].items = @ \o items] \o <<>>
    BY <1>3 DEF Step
  <2>4. values' = t \o <<>>
    BY <2>1, <2>3, Zenon
  <2>5. f.kind = values[1].kind
    BY <2>2 DEF ValueFrame
  <2> HIDE DEF f
  <2> DEFINE S == ValueFrame(Handed) \cup {f}
  <2>6. values \in Seq(S) /\ f \in S /\ 1 \in 1 .. Len(values)
    BY <2>1, <2>2, MoreSequences
  <2> HIDE DEF S
  <2>7. t \in Seq(S) /\ Len(t) = Len(values) /\ t[1] = f
    BY <2>6, ExceptSeq
  <2> HIDE DEF t
  <2>8. values' = t
    BY <2>4, <2>7, ConcatEmptySeq
  <2> QED BY <2>1, <2>5, <2>7, <2>8 DEF NoComparison
<1> QED BY <1>1, <1>2, <1>3

\* A call that opens something finds nothing open.
LEMMA OpensKeeps ==
  ASSUME NoComparison, values = <<>>, NEW e, NEW ops, NEW b,
         NEW kind \in {"tuple", "enum", "new"},
         Step(e, ops, <<>>, <<Open(kind, b, <<>>)>>)
  PROVE  NoComparison'
<1>1. CASE Len(e.slots) > MaxSlots
  BY <1>1 DEF Step, Stop, NoComparison
<1>2. CASE ~(Len(e.slots) > MaxSlots)
  <2>1. values' = <<>> \o <<Open(kind, b, <<>>)>>
    BY <1>2 DEF Step
  <2>2. values' = <<Open(kind, b, <<>>)>>
    BY <2>1
  <2> QED BY <2>2 DEF NoComparison, Open
<1> QED BY <1>1, <1>2

-----------------------------------------------------------------------------
(* Calls.                                                                  *)

LEMMA OperandsAreItems == Operands \subseteq ItemOf(Handed)
BY DEF Operands, ItemOf, Slot

\* A call that pushes one operation.
LEMMA PushKeeps ==
  ASSUME BInv, status = "compiling", NEW e, Good(e), Anonymous(e), Len(env.slots) <= Len(e.slots),
         NEW ops \in Ops(SlotsIn(e)), Step(e, ops, <<>>, <<>>)
  PROVE  BInv'
<1>1. <<>> \in Seq(ItemOf(SlotsIn(e))) /\ <<>> \in Seq(ValueFrame(SlotsIn(e)))
  BY Nothing
<1>2. IInv'
  BY <1>1, StepKeeps DEF BInv
<1>3. NoComparison'
  BY <1>1, ItemKeeps DEF BInv
<1> QED BY <1>2, <1>3, StepAnonymous DEF BInv

\* A call that adds an item.
LEMMA AddKeeps ==
  ASSUME BInv, status = "compiling", values # <<>>,
         NEW e, Good(e), Anonymous(e), Len(env.slots) <= Len(e.slots),
         NEW item \in ItemOf(SlotsIn(e)), Step(e, <<>>, <<item>>, <<>>)
  PROVE  BInv'
<1>1. <<item>> \in Seq(ItemOf(SlotsIn(e)))
  OBVIOUS
<1>2. <<>> \in Ops(SlotsIn(e)) /\ <<>> \in Seq(ValueFrame(SlotsIn(e)))
  BY Nothing
<1>3. IInv'
  BY <1>1, <1>2, StepKeeps DEF BInv
<1>4. NoComparison'
  BY <1>1, ItemKeeps DEF BInv
<1> QED BY <1>3, <1>4, StepAnonymous DEF BInv

\* A call whose callback adds items.
LEMMA OpenKeeps ==
  ASSUME BInv, status = "compiling", values = <<>>,
         NEW e, Good(e), Anonymous(e), Len(env.slots) <= Len(e.slots),
         NEW b \in SlotsIn(e), NEW kind \in {"tuple", "enum", "new"},
         Step(e, <<>>, <<>>, <<Open(kind, b, <<>>)>>)
  PROVE  BInv'
<1>1. <<>> \in Ops(SlotsIn(e)) /\ <<>> \in Seq(ItemOf(SlotsIn(e)))
  BY Nothing
<1> DEFINE open == <<Open(kind, b, <<>>)>>
<1>2. open \in Seq(ValueFrame(SlotsIn(e)))
  BY <1>1, OpenPieces
<1>3. Step(e, <<>>, <<>>, open)
  OBVIOUS
<1> HIDE DEF open
<1>4. IInv'
  BY <1>1, <1>2, <1>3, StepKeeps DEF BInv
<1>5. NoComparison'
  BY OpensKeeps DEF BInv
<1> QED BY <1>4, <1>5, StepAnonymous DEF BInv

LEMMA SelectCallsKeep ==
  ASSUME BInv,
         AddTest \/ AddAttributeBinding \/ AddAttributeBindingRequirement
           \/ AddComparison \/ AddCalculation
  PROVE  BInv'
<1>1. IInv /\ status = "compiling"
  BY DEF BInv, AddTest, AddAttributeBinding, AddAttributeBindingRequirement, AddComparison,
         AddCalculation, More
<1>2. CASE AddTest
  <2>1. PICK b \in Handed, op \in {"AssertObject", "CompareBinding", "RequireValue", "Require"} :
          Step(env, <<Test(op, b)>>, <<>>, <<>>)
    BY <1>2 DEF AddTest
  <2>2. <<Test(op, b)>> \in Ops(SlotsIn(env))
    BY <1>1, NewGood, OperationPieces
  <2> QED BY <1>1, <2>1, <2>2, NewGood, NewAnonymous, PushKeeps
<1>3. CASE AddAttributeBinding
  <2>1. PICK b \in Handed : Step(WithNew, <<AttributeOp(b, New)>>, <<>>, <<>>)
    BY <1>3 DEF AddAttributeBinding
  <2>2. <<AttributeOp(b, New)>> \in Ops(SlotsIn(WithNew))
    BY <1>1, NewGood, OperationPieces
  <2> QED BY <1>1, <2>1, <2>2, NewGood, NewAnonymous, PushKeeps
<1>4. CASE AddAttributeBindingRequirement
  <2>1. PICK b \in Handed, v \in Handed : Step(env, <<AttributeOp(b, v)>>, <<>>, <<>>)
    BY <1>4 DEF AddAttributeBindingRequirement
  <2>2. <<AttributeOp(b, v)>> \in Ops(SlotsIn(env))
    BY <1>1, NewGood, OperationPieces
  <2> QED BY <1>1, <2>1, <2>2, NewGood, NewAnonymous, PushKeeps
<1>5. CASE AddComparison
  <2>1. PICK left \in Operands, right \in Operands :
          Step(env, <<CompareOp(<<left, right>>)>>, <<>>, <<>>)
    BY <1>5 DEF AddComparison
  <2>2. left \in ItemOf(SlotsIn(env)) /\ right \in ItemOf(SlotsIn(env))
    BY <1>1, NewGood, OperandsAreItems
  <2>3. CompareOp(<<left, right>>) \in SelectOperation(SlotsIn(env))
    BY <2>2 DEF CompareOp, SelectOperation
  <2>4. <<CompareOp(<<left, right>>)>> \in Ops(SlotsIn(env))
    BY <2>3 DEF Ops
  <2> QED BY <1>1, <2>1, <2>4, NewGood, NewAnonymous, PushKeeps
<1>6. CASE AddCalculation
  <2>1. PICK left \in Operands, right \in Operands :
          Step(WithNew, <<CalculationOp(New, <<left, right>>)>>, <<>>, <<>>)
    BY <1>6 DEF AddCalculation
  <2>2. left \in ItemOf(SlotsIn(WithNew)) /\ right \in ItemOf(SlotsIn(WithNew))
    BY <1>1, NewGood, OperandsAreItems, MoreItems
  <2>3. <<left, right>> \in Seq(ItemOf(SlotsIn(WithNew)))
    BY <2>2
  <2>4. <<CalculationOp(New, <<left, right>>)>> \in Ops(SlotsIn(WithNew))
    BY <1>1, <2>3, NewGood, OperationsMade
  <2> QED BY <1>1, <2>1, <2>4, NewGood, NewAnonymous, PushKeeps
<1> QED BY <1>2, <1>3, <1>4, <1>5, <1>6

LEMMA ItemCallsKeep ==
  ASSUME BInv, AddNewBindingItem \/ AddIgnoredItem \/ AddItem
  PROVE  BInv'
<1>1. IInv /\ status = "compiling" /\ values # <<>>
  BY DEF BInv, AddNewBindingItem, AddIgnoredItem, AddItem, More, InValue
<1>2. CASE AddNewBindingItem
  <2>1. Step(WithNew, <<>>, <<Slot(New)>>, <<>>)
    BY <1>2 DEF AddNewBindingItem
  <2>2. Slot(New) \in ItemOf(SlotsIn(WithNew))
    BY <1>1, NewGood, ItemPieces
  <2> QED BY <1>1, <2>1, <2>2, NewGood, NewAnonymous, AddKeeps
<1>3. CASE AddIgnoredItem
  <2>1. Step(env, <<>>, <<Ignore>>, <<>>)
    BY <1>3 DEF AddIgnoredItem
  <2>2. Ignore \in ItemOf(SlotsIn(env))
    BY DEF ItemOf
  <2> QED BY <1>1, <2>1, <2>2, NewGood, NewAnonymous, AddKeeps
<1>4. CASE AddItem
  <2>1. PICK item \in Operands : Step(env, <<>>, <<item>>, <<>>)
    BY <1>4 DEF AddItem
  <2>2. item \in ItemOf(SlotsIn(env))
    BY <1>1, NewGood, OperandsAreItems
  <2> QED BY <1>1, <2>1, <2>2, NewGood, NewAnonymous, AddKeeps
<1> QED BY <1>2, <1>3, <1>4

LEMMA OpeningCallsKeep ==
  ASSUME BInv, AddTupleUnpackingOrEnumMatch \/ AddTupleCreation \/ AddNotClause
  PROVE  BInv'
<1>1. IInv /\ status = "compiling" /\ values = <<>>
  BY DEF BInv, AddTupleUnpackingOrEnumMatch, AddTupleCreation, AddNotClause, More,
         InSelect, InApply
<1>2. CASE AddTupleUnpackingOrEnumMatch
  <2>1. PICK b \in Handed, kind \in {"tuple", "enum"} :
          Step(env, <<>>, <<>>, <<Open(kind, b, <<>>)>>)
    BY <1>2 DEF AddTupleUnpackingOrEnumMatch
  <2> QED BY <1>1, <2>1, NewGood, NewAnonymous, OpenKeeps
<1>3. CASE AddTupleCreation
  <2>1. Step(WithNew, <<>>, <<>>, <<Open("new", New, <<>>)>>)
    BY <1>3 DEF AddTupleCreation
  <2> QED BY <1>1, <2>1, NewGood, NewAnonymous, OpenKeeps
<1>4. CASE AddNotClause
  <2>1. OpenScope("not", <<>>)
    BY <1>4 DEF AddNotClause
  <2>2. values' = <<>>
    BY <1>1, <2>1 DEF OpenScope
  <2>3. Anonymous(env')
    BY <2>1 DEF OpenScope, BInv, Anonymous
  <2> QED BY <1>1, <2>1, <2>2, <2>3, OpenScopeKeeps DEF BInv, NoComparison
<1> QED BY <1>2, <1>3, <1>4

LEMMA ApplyCallsKeep ==
  ASSUME BInv, AddObjectCreation \/ AddEdit
  PROVE  BInv'
<1>1. IInv /\ status = "compiling"
  BY DEF BInv, AddObjectCreation, AddEdit, More
<1>2. CASE AddObjectCreation
  <2>1. Step(WithNew, <<Create(New)>>, <<>>, <<>>)
    BY <1>2 DEF AddObjectCreation
  <2>2. <<Create(New)>> \in Ops(SlotsIn(WithNew))
    BY <1>1, NewGood, OperationPieces
  <2> QED BY <1>1, <2>1, <2>2, NewGood, NewAnonymous, PushKeeps
<1>3. CASE AddEdit
  <2>1. PICK b \in Handed, value \in Operands, op \in {"Add", "Remove"} :
          Step(env, <<Edit(op, b, value)>>, <<>>, <<>>)
    BY <1>3 DEF AddEdit
  <2>2. value \in ItemOf(SlotsIn(env)) /\ b \in SlotsIn(env)
    BY <1>1, NewGood, OperandsAreItems
  <2>3. <<Edit(op, b, value)>> \in Ops(SlotsIn(env))
    BY <2>2, OperationPieces
  <2> QED BY <1>1, <2>1, <2>3, NewGood, NewAnonymous, PushKeeps
<1> QED BY <1>2, <1>3

LEMMA ClosingCallsKeep ==
  ASSUME BInv, CloseItems \/ CloseNot \/ CloseSelect \/ Finish
  PROVE  BInv'
<1>1. IInv /\ status = "compiling"
  BY DEF BInv, CloseItems, CloseNot, CloseSelect, Finish
<1>2. CASE CloseItems
  <2>1. values # <<>> /\ CloseInner
    BY <1>2 DEF CloseItems
  <2>2. Len(values) = 1 /\ values[1].kind \in {"tuple", "enum", "new"}
    BY <2>1 DEF BInv, NoComparison
  <2>3. Inner.kind # "comparison"
    BY <2>2 DEF Inner, Last
  <2>4. values' = Front(values) /\ values \in Seq(ValueFrame(Handed))
    BY <1>1, <2>1, Shape DEF CloseInner
  <2>5. values' \in Seq(ValueFrame(Handed)) /\ Len(values') = 0
    BY <2>1, <2>2, <2>4, FrontOf
  <2>6. values' = <<>>
    BY <2>5
  <2>7. Anonymous(env')
    BY <2>1 DEF CloseInner, BInv, Anonymous
  <2> QED BY <1>1, <2>1, <2>3, <2>6, <2>7, CloseInnerKeeps DEF BInv, NoComparison
<1>3. CASE CloseNot
  <2>1. values' = values /\ env' = Restored
    BY <1>3 DEF CloseNot
  <2>2. Restored.slots = env.slots
    BY <1>1 DEF Restored, IInv, TypeOK
  <2>3. Anonymous(env')
    BY <2>1, <2>2 DEF BInv, Anonymous
  <2> QED BY <1>1, <1>3, <2>1, <2>3, CloseNotKeeps DEF BInv, NoComparison
<1>4. CASE CloseSelect
  <2>1. values' = values /\ env' = env
    BY <1>4 DEF CloseSelect
  <2>2. Anonymous(env')
    BY <2>1 DEF BInv, Anonymous
  <2> QED BY <1>1, <1>4, <2>1, <2>2, CloseSelectKeeps DEF BInv, NoComparison
<1>5. CASE Finish
  <2>1. status' = "accepted" /\ UNCHANGED <<env, scopes, values, lists, size>>
    BY <1>5 DEF Finish
  <2>2. TypeOK' /\ Counted(env)' /\ Outermost'
    BY <1>1, <2>1 DEF IInv, TypeOK, Counted, Outermost, Handed
  <2>3. env' = env /\ values' = values
    BY <2>1
  <2>4. Anonymous(env') /\ NoComparison'
    BY <2>3 DEF BInv, Anonymous, NoComparison
  <2>5. OneSlotPerName'
    BY <2>4 DEF OneSlotPerName, Anonymous
  <2> QED BY <2>2, <2>4, <2>5 DEF BInv, IInv
<1> QED BY <1>2, <1>3, <1>4, <1>5

-----------------------------------------------------------------------------

LEMMA BuilderInitGood == BuilderInit => BInv
<1> SUFFICES ASSUME BuilderInit PROVE BInv
  OBVIOUS
<1>1. /\ env = BuilderEnv /\ scopes = <<NewScope("select", env, <<>>)>> /\ values = <<>>
      /\ lists = <<>> /\ size = 0 /\ status = "compiling"
  BY DEF BuilderInit
<1>2. Len(InputNames) \in Nat /\ NoSlot \in Int
  BY InputNamesAssumption, LenProperties DEF NoSlot
<1>3. /\ env.slots = [i \in 1 .. Len(InputNames) |-> [name |-> Wildcard, count |-> 0]]
      /\ env.instances = [n \in Names |-> 0]
      /\ env.visible = [n \in Names |-> NoSlot]
      /\ env = [slots |-> env.slots, instances |-> env.instances, visible |-> env.visible]
  BY <1>1 DEF BuilderEnv
<1>4. /\ env.slots \in Seq([name : Variables, count : Nat]) /\ Len(env.slots) = Len(InputNames)
      /\ Anonymous(env)
  BY <1>2, <1>3 DEF Variables, Anonymous
<1>5. Environment(env)
  <2>1. env.instances \in [Names -> Nat] /\ env.visible \in [Names -> SlotsIn(env) \cup {NoSlot}]
    BY <1>3
  <2> QED BY <1>3, <1>4, <2>1 DEF Environment
<1>6. Counted(env)
  BY <1>4, NamesAssumption DEF Counted, Anonymous
<1> DEFINE f == NewScope("select", env, <<>>)
<1>7. f \in ScopeFrame(Handed) /\ f.kind = "select" /\ Handed = SlotsIn(env)
  BY <1>2, <1>3, <1>4, Nothing DEF NewScope, ScopeFrame, Handed, SlotsIn
<1> HIDE DEF f
<1>8. TypeOK
  <2>1. /\ scopes \in Seq(ScopeFrame(Handed)) /\ scopes # <<>>
        /\ values \in Seq(ValueFrame(Handed)) /\ lists \in Seq(Ops(Handed))
    BY <1>1, <1>7, EmptySeq DEF f
  <2> QED BY <1>1, <1>4, <1>5, <1>7, <2>1, BoundsAssumption DEF TypeOK, Environment
<1>9. Outermost /\ OneSlotPerName /\ NoComparison
  BY <1>1, <1>7 DEF Outermost, OneSlotPerName, NoComparison, f
<1> QED BY <1>4, <1>6, <1>8, <1>9 DEF BInv, IInv

LEMMA CallsKeep ==
  ASSUME BInv, [BuilderNext]_vars
  PROVE  BInv'
<1>1. CASE AddTest \/ AddAttributeBinding \/ AddAttributeBindingRequirement
             \/ AddComparison \/ AddCalculation
  BY <1>1, SelectCallsKeep
<1>2. CASE AddNewBindingItem \/ AddIgnoredItem \/ AddItem
  BY <1>2, ItemCallsKeep
<1>3. CASE AddTupleUnpackingOrEnumMatch \/ AddTupleCreation \/ AddNotClause
  BY <1>3, OpeningCallsKeep
<1>4. CASE AddObjectCreation \/ AddEdit
  BY <1>4, ApplyCallsKeep
<1>5. CASE CloseItems \/ CloseNot \/ CloseSelect \/ Finish
  BY <1>5, ClosingCallsKeep
<1>6. CASE UNCHANGED vars
  BY <1>6 DEF vars, BInv, NoComparison, Anonymous, IInv, TypeOK, Counted, Outermost,
              OneSlotPerName, Handed
<1> QED BY <1>1, <1>2, <1>3, <1>4, <1>5, <1>6, Zenon DEF BuilderNext

\* Building a rule with calls hands out no more slots than can be counted, and
\* what is made mentions only slots that were handed out, even when a callback
\* lets a binding escape (LinkedBindingSequence::next, SelectBuilder, ApplyBuilder).
THEOREM BuilderTypeCorrect == BuilderSpec => []TypeOK
<1>1. BInv => TypeOK
  BY DEF BInv, IInv
<1> QED BY <1>1, BuilderInitGood, CallsKeep, PTL DEF BuilderSpec

-----------------------------------------------------------------------------
(* Lists of operations.                                                    *)

\* The slots of items, of an operation, and of the operations at some places.
ItemSlots(items) == {o.binding : o \in {item \in items : item.kind = "binding"}}

Uses(c) ==
  CASE c.op = "Attribute"                  -> {c.binding, c.value_binding}
    [] c.op \in {"Tuple", "CreateTuple"}   -> {c.binding} \cup ItemSlots(Range(c.items))
    [] c.op = "MatchEnum"                  -> {c.binding} \cup ItemSlots(c.options)
    [] c.op = "Compare"                    -> ItemSlots({c.left, c.right})
    [] c.op = "Calculation"                -> {c.binding} \cup Range(c.operands)
    [] c.op \in {"Add", "Remove"}          -> {c.binding} \cup ItemSlots({c.value})
    [] c.op \in {"Not", "Conditional"}     -> {}
    [] OTHER                               -> {c.binding}

UsedIn(p, places) == UNION {Uses(p[j]) : j \in places}

Used(p) == UsedIn(p, DOMAIN p)

Negations(p) == {i \in DOMAIN p : p[i].op = "Not"}

BodyOf(p, i) == i + 1 .. i + p[i].len

\* Bodies are in the list, and in one another.
Nested(p) ==
  \A i \in Negations(p) :
    /\ p[i].len \in Nat
    /\ i + p[i].len <= Len(p)
    /\ \A k \in BodyOf(p, i) : p[k].op = "Not" => k + p[k].len <= i + p[i].len

\* The slots that are younger than a negation and used in it, of one negation
\* and of all.
Younger(p, i) == {b \in UsedIn(p, BodyOf(p, i)) : b >= p[i].mark}

Dead(p) == UNION {Younger(p, i) : i \in Negations(p)}

\* They are not used in the rest of the list.
KeptIn(p, i) == Younger(p, i) \cap UsedIn(p, DOMAIN p \ BodyOf(p, i)) = {}

SealedList(p) == \A i \in Negations(p) : KeptIn(p, i)

\* No slot is used that is as young as this.
Old(p, mark) == \A b \in Used(p) : b < mark

-----------------------------------------------------------------------------

LEMMA UsesTyped ==
  ASSUME NEW S, NEW c \in SelectOperation(S) \cup ApplyOperation(S)
  PROVE  Uses(c) \subseteq S
<1>1. \A items \in SUBSET ItemOf(S) : ItemSlots(items) \subseteq S
  BY DEF ItemSlots, ItemOf, Literal, Ignore
<1>2. \A items \in Seq(ItemOf(S)) : ItemSlots(Range(items)) \subseteq S
  BY <1>1, RangeOfSeq
<1>3. \A operands \in Seq(S) : Range(operands) \subseteq S
  BY RangeOfSeq
<1> HIDE DEF ItemSlots, ItemOf
<1>4. CASE c \in SelectOperation(S)
  <2>1. CASE c.op = "Attribute"
    BY <1>4, <2>1 DEF Uses, SelectOperation
  <2>2. CASE c.op = "Tuple"
    BY <1>2, <1>4, <2>2 DEF Uses, SelectOperation
  <2>3. CASE c.op = "MatchEnum"
    BY <1>1, <1>4, <2>3 DEF Uses, SelectOperation
  <2>4. CASE c.op = "Compare"
    <3>1. {c.left, c.right} \in SUBSET ItemOf(S)
      BY <1>4, <2>4 DEF SelectOperation
    <3> QED BY <1>1, <2>4, <3>1 DEF Uses
  <2>5. CASE c.op = "Calculation"
    BY <1>3, <1>4, <2>5 DEF Uses, SelectOperation
  <2>6. CASE c.op = "Not"
    BY <2>6 DEF Uses
  <2>7. CASE c.op \in {"RequireValue", "Require", "AssertObject", "CompareBinding"}
    BY <1>4, <2>7 DEF Uses, SelectOperation
  <2> QED BY <1>4, <2>1, <2>2, <2>3, <2>4, <2>5, <2>6, <2>7 DEF SelectOperation
<1>5. CASE c \in ApplyOperation(S)
  <2>1. CASE c.op = "CreateTuple"
    BY <1>2, <1>5, <2>1 DEF Uses, ApplyOperation
  <2>2. CASE c.op \in {"Add", "Remove"}
    <3>1. {c.value} \in SUBSET ItemOf(S) /\ c.binding \in S
      BY <1>5, <2>2 DEF ApplyOperation
    <3> QED BY <1>1, <2>2, <3>1 DEF Uses
  <2>3. CASE c.op = "CreateObject"
    BY <1>5, <2>3 DEF Uses, ApplyOperation
  <2>4. CASE c.op = "Conditional"
    BY <2>4 DEF Uses
  <2> QED BY <1>5, <2>1, <2>2, <2>3, <2>4 DEF ApplyOperation
<1> QED BY <1>4, <1>5

LEMMA UsedTyped ==
  ASSUME NEW S, NEW p \in Ops(S)
  PROVE  Used(p) \subseteq S
<1> SUFFICES ASSUME NEW i \in DOMAIN p PROVE Uses(p[i]) \subseteq S
  BY DEF Used, UsedIn
<1>1. p[i] \in SelectOperation(S) \cup ApplyOperation(S)
  BY ElementOfSeq, LenProperties DEF Ops
<1> QED BY <1>1, UsesTyped

LEMMA UsedMore ==
  ASSUME NEW p, NEW I, NEW J, I \subseteq J
  PROVE  UsedIn(p, I) \subseteq UsedIn(p, J)
BY DEF UsedIn

LEMMA InUsed ==
  ASSUME NEW p, NEW J, NEW b
  PROVE  b \in UsedIn(p, J) <=> \E j \in J : b \in Uses(p[j])
BY DEF UsedIn

\* A list that is part of another, behind o places.
PartAt(p, r, o) ==
  /\ o \in Nat /\ Len(p) \in Nat /\ Len(r) \in Nat
  /\ DOMAIN p = 1 .. Len(p) /\ DOMAIN r = 1 .. Len(r)
  /\ o + Len(p) <= Len(r)
  /\ \A i \in 1 .. Len(p) : r[o + i] = p[i]

LEMMA UsedInPart ==
  ASSUME NEW p, NEW r, NEW o, PartAt(p, r, o), NEW m \in Nat, NEW n \in Nat, n <= Len(p)
  PROVE  UsedIn(r, o + m + 1 .. o + n) = UsedIn(p, m + 1 .. n)
<1>1. ASSUME NEW b \in UsedIn(r, o + m + 1 .. o + n) PROVE b \in UsedIn(p, m + 1 .. n)
  <2>1. PICK j \in o + m + 1 .. o + n : b \in Uses(r[j])
    BY <1>1, InUsed
  <2>2. j - o \in m + 1 .. n /\ j - o \in 1 .. Len(p) /\ o + (j - o) = j
    BY <2>1 DEF PartAt
  <2>3. r[j] = p[j - o]
    BY <2>2 DEF PartAt
  <2> QED BY <2>1, <2>2, <2>3, InUsed
<1>2. ASSUME NEW b \in UsedIn(p, m + 1 .. n) PROVE b \in UsedIn(r, o + m + 1 .. o + n)
  <2>1. PICK j \in m + 1 .. n : b \in Uses(p[j])
    BY <1>2, InUsed
  <2>2. o + j \in o + m + 1 .. o + n /\ j \in 1 .. Len(p)
    BY <2>1 DEF PartAt
  <2>3. r[o + j] = p[j]
    BY <2>2 DEF PartAt
  <2> QED BY <2>1, <2>2, <2>3, InUsed
<1> QED BY <1>1, <1>2

\* The negations of a part are negations of the whole, with the same slots.
LEMMA NegationsInPart ==
  ASSUME NEW p, NEW r, NEW o, PartAt(p, r, o), Nested(p), NEW i \in Negations(p)
  PROVE  /\ o + i \in Negations(r)
         /\ r[o + i] = p[i]
         /\ Younger(r, o + i) = Younger(p, i)
         /\ BodyOf(r, o + i) \subseteq o + 1 .. o + Len(p)
         /\ r[o + i].len \in Nat /\ o + i + r[o + i].len <= Len(r)
         /\ \A k \in BodyOf(r, o + i) : r[k].op = "Not" => k + r[k].len <= o + i + r[o + i].len
<1>1. i \in 1 .. Len(p) /\ p[i].op = "Not" /\ p[i].len \in Nat /\ i + p[i].len <= Len(p)
  BY DEF Negations, PartAt, Nested
<1>2. r[o + i] = p[i] /\ o + i \in 1 .. Len(r) /\ i \in Nat /\ o \in Nat
  BY <1>1 DEF PartAt
<1>3. o + i \in Negations(r)
  BY <1>1, <1>2 DEF Negations, PartAt
<1>4. BodyOf(r, o + i) = o + i + 1 .. o + (i + p[i].len)
  BY <1>1, <1>2 DEF BodyOf
<1>5. UsedIn(r, BodyOf(r, o + i)) = UsedIn(p, BodyOf(p, i))
  <2> DEFINE n == i + p[i].len
  <2>1. n \in Nat /\ n <= Len(p) /\ BodyOf(p, i) = i + 1 .. n
    BY <1>1, <1>2 DEF BodyOf
  <2> HIDE DEF n
  <2>2. UsedIn(r, o + i + 1 .. o + n) = UsedIn(p, i + 1 .. n)
    BY <1>2, <2>1, UsedInPart
  <2> QED BY <1>4, <2>1, <2>2 DEF n
<1>6. Younger(r, o + i) = Younger(p, i)
  BY <1>2, <1>5 DEF Younger
<1>7. BodyOf(r, o + i) \subseteq o + 1 .. o + Len(p)
  BY <1>1, <1>2, <1>4 DEF PartAt
<1>8. r[o + i].len \in Nat /\ o + i + r[o + i].len <= Len(r)
  BY <1>1, <1>2 DEF PartAt
<1>9. ASSUME NEW k \in BodyOf(r, o + i), r[k].op = "Not"
      PROVE  k + r[k].len <= o + i + r[o + i].len
  <2>1. k - o \in BodyOf(p, i) /\ k - o \in 1 .. Len(p) /\ o + (k - o) = k
    BY <1>1, <1>2, <1>4, <1>9 DEF BodyOf, PartAt
  <2>2. r[k] = p[k - o]
    BY <2>1 DEF PartAt
  <2>3. k - o \in Negations(p)
    BY <1>9, <2>1, <2>2 DEF Negations, PartAt
  <2>4. p[k - o].len \in Nat /\ (k - o) + p[k - o].len <= i + p[i].len
    BY <1>9, <2>1, <2>2, <2>3 DEF Nested
  <2> DEFINE inner == p[k - o].len
             outer == p[i].len
  <2>5. r[k].len = inner /\ r[o + i].len = outer
    BY <1>2, <2>2
  <2>6. /\ inner \in Nat /\ outer \in Nat /\ (k - o) + inner <= i + outer
        /\ k - o \in 1 .. Len(p) /\ o + (k - o) = k /\ i \in Nat /\ o \in Nat
    BY <1>1, <1>2, <2>1, <2>4
  <2> HIDE DEF inner, outer
  <2>7. k + inner <= o + i + outer
    BY <2>6
  <2> QED BY <2>5, <2>7
<1> QED BY <1>2, <1>3, <1>6, <1>7, <1>8, <1>9

\* They are kept in the whole if nothing else in it uses their slots.
LEMMA KeptInPart ==
  ASSUME NEW p, NEW r, NEW o, PartAt(p, r, o), Nested(p), SealedList(p), NEW i \in Negations(p),
         Dead(p) \cap UsedIn(r, DOMAIN r \ (o + 1 .. o + Len(p))) = {}
  PROVE  KeptIn(r, o + i)
<1>1. /\ Younger(r, o + i) = Younger(p, i) /\ r[o + i] = p[i]
      /\ BodyOf(r, o + i) \subseteq o + 1 .. o + Len(p)
  BY NegationsInPart
<1> SUFFICES ASSUME NEW b \in Younger(p, i), NEW j \in DOMAIN r \ BodyOf(r, o + i),
                    b \in Uses(r[j])
             PROVE  FALSE
  BY <1>1, InUsed DEF KeptIn
<1>2. b \in Dead(p)
  BY DEF Dead
<1>3. CASE j \notin o + 1 .. o + Len(p)
  BY <1>2, <1>3, InUsed
<1>4. CASE j \in o + 1 .. o + Len(p)
  <2>1. j - o \in 1 .. Len(p) /\ o + (j - o) = j /\ j \in Nat
    BY <1>4 DEF PartAt
  <2>2. r[j] = p[j - o]
    BY <2>1 DEF PartAt
  <2>3. j - o \notin BodyOf(p, i)
    <3>1. i \in Nat /\ p[i].len \in Nat /\ o \in Nat
      BY DEF Negations, PartAt, Nested
    <3> QED BY <1>1, <2>1, <3>1 DEF BodyOf
  <2>4. j - o \in DOMAIN p \ BodyOf(p, i) /\ b \in Uses(p[j - o])
    BY <2>1, <2>2, <2>3 DEF PartAt
  <2>5. b \in UsedIn(p, DOMAIN p \ BodyOf(p, i))
    BY <2>4, InUsed, Zenon
  <2> QED BY <2>5 DEF SealedList, KeptIn
<1> QED BY <1>3, <1>4

-----------------------------------------------------------------------------
(* Lists that grow.                                                        *)

LEMMA NothingUsed ==
  /\ Used(<<>>) = {} /\ Negations(<<>>) = {} /\ Nested(<<>>) /\ SealedList(<<>>)
  /\ Dead(<<>>) = {}
<1>1. DOMAIN <<>> = {}
  OBVIOUS
<1> QED BY <1>1 DEF Used, UsedIn, Negations, Nested, SealedList, Dead

LEMMA Joined ==
  ASSUME NEW T, NEW p \in Seq(T), NEW q \in Seq(T)
  PROVE  /\ PartAt(p, p \o q, 0) /\ PartAt(q, p \o q, Len(p))
         /\ DOMAIN (p \o q) = 1 .. Len(p) + Len(q) /\ Len(p \o q) = Len(p) + Len(q)
         /\ Len(p) \in Nat /\ Len(q) \in Nat
         /\ UsedIn(p \o q, 1 .. Len(p)) = Used(p)
         /\ UsedIn(p \o q, Len(p) + 1 .. Len(p) + Len(q)) = Used(q)
         /\ Used(p \o q) = Used(p) \cup Used(q)
<1> DEFINE r == p \o q
<1>1. /\ r \in Seq(T) /\ Len(r) = Len(p) + Len(q)
      /\ \A i \in 1 .. Len(p) : r[i] = p[i]
      /\ \A i \in 1 .. Len(q) : r[Len(p) + i] = q[i]
  BY ConcatProperties
<1>2. Len(p) \in Nat /\ Len(q) \in Nat /\ DOMAIN p = 1 .. Len(p) /\ DOMAIN q = 1 .. Len(q)
  BY LenProperties
<1>3. DOMAIN r = 1 .. Len(p) + Len(q)
  BY <1>1, LenProperties
<1> HIDE DEF r
<1>4. PartAt(p, r, 0)
  BY <1>1, <1>2, <1>3 DEF PartAt
<1>5. PartAt(q, r, Len(p))
  BY <1>1, <1>2, <1>3 DEF PartAt
<1>6. UsedIn(r, 1 .. Len(p)) = Used(p)
  <2>1. UsedIn(r, 0 + 0 + 1 .. 0 + Len(p)) = UsedIn(p, 0 + 1 .. Len(p))
    BY <1>2, <1>4, UsedInPart
  <2> QED BY <1>2, <2>1 DEF Used
<1>7. UsedIn(r, Len(p) + 1 .. Len(p) + Len(q)) = Used(q)
  <2>1. UsedIn(r, Len(p) + 0 + 1 .. Len(p) + Len(q)) = UsedIn(q, 0 + 1 .. Len(q))
    BY <1>2, <1>5, UsedInPart
  <2> QED BY <1>2, <2>1 DEF Used
<1>8. Used(r) = Used(p) \cup Used(q)
  <2>1. DOMAIN r = (1 .. Len(p)) \cup (Len(p) + 1 .. Len(p) + Len(q))
    BY <1>2, <1>3
  <2>2. Used(r) = UsedIn(r, 1 .. Len(p)) \cup UsedIn(r, Len(p) + 1 .. Len(p) + Len(q))
    BY <2>1 DEF Used, UsedIn
  <2> QED BY <1>6, <1>7, <2>2
<1> QED BY <1>1, <1>2, <1>3, <1>4, <1>5, <1>6, <1>7, <1>8 DEF r

LEMMA JoinedUses ==
  ASSUME NEW T, NEW p \in Seq(T), NEW q \in Seq(T)
  PROVE  Used(p \o q) = Used(p) \cup Used(q)
BY Joined

\* Operations of any names are pushed.
LEMMA JoinedNames ==
  ASSUME NEW T, NEW p \in Seq(T), NEW q \in Seq(T), NEW names,
         \A i \in DOMAIN p : p[i].op \in names, \A i \in DOMAIN q : q[i].op \in names
  PROVE  \A i \in DOMAIN (p \o q) : (p \o q)[i].op \in names
<1> DEFINE r == p \o q
<1>1. /\ Len(r) = Len(p) + Len(q) /\ DOMAIN r = 1 .. Len(r)
      /\ \A i \in 1 .. Len(p) : r[i] = p[i]
      /\ \A i \in 1 .. Len(q) : r[Len(p) + i] = q[i]
      /\ Len(p) \in Nat /\ Len(q) \in Nat /\ DOMAIN p = 1 .. Len(p) /\ DOMAIN q = 1 .. Len(q)
  BY ConcatProperties, LenProperties
<1> HIDE DEF r
<1> SUFFICES ASSUME NEW i \in DOMAIN r PROVE r[i].op \in names
  BY DEF r
<1>2. CASE i \in 1 .. Len(p)
  BY <1>1, <1>2
<1>3. CASE i \notin 1 .. Len(p)
  <2>1. i - Len(p) \in 1 .. Len(q) /\ Len(p) + (i - Len(p)) = i
    BY <1>1, <1>3
  <2> QED BY <1>1, <2>1
<1> QED BY <1>2, <1>3

\* The negations of two lists that are joined.
LEMMA JoinedNegations ==
  ASSUME NEW T, NEW p \in Seq(T), NEW q \in Seq(T), NEW i \in Negations(p \o q)
  PROVE  \/ i \in Negations(p)
         \/ i - Len(p) \in Negations(q) /\ Len(p) + (i - Len(p)) = i
<1>1. /\ PartAt(p, p \o q, 0) /\ PartAt(q, p \o q, Len(p))
      /\ DOMAIN (p \o q) = 1 .. Len(p) + Len(q) /\ Len(p) \in Nat /\ Len(q) \in Nat
  BY Joined
<1> DEFINE r == p \o q
<1> HIDE DEF r
<1>2. i \in 1 .. Len(p) + Len(q) /\ r[i].op = "Not"
  BY <1>1 DEF Negations, r
<1>3. CASE i \in 1 .. Len(p)
  <2>1. r[0 + i] = p[i] /\ 0 + i = i /\ i \in DOMAIN p
    BY <1>1, <1>3 DEF PartAt, r
  <2> QED BY <1>2, <2>1 DEF Negations
<1>4. CASE i \notin 1 .. Len(p)
  <2>1. i - Len(p) \in 1 .. Len(q) /\ Len(p) + (i - Len(p)) = i
    BY <1>1, <1>2, <1>4
  <2>2. r[Len(p) + (i - Len(p))] = q[i - Len(p)] /\ i - Len(p) \in DOMAIN q
    BY <1>1, <2>1 DEF PartAt, r
  <2> QED BY <1>2, <2>1, <2>2 DEF Negations
<1> QED BY <1>3, <1>4

\* Two nested lists, joined.
LEMMA JoinedNested ==
  ASSUME NEW T, NEW p \in Seq(T), NEW q \in Seq(T), Nested(p), Nested(q)
  PROVE  /\ Nested(p \o q)
         /\ Dead(p \o q) = Dead(p) \cup Dead(q)
<1> DEFINE r == p \o q
<1>1. /\ PartAt(p, r, 0) /\ PartAt(q, r, Len(p)) /\ Len(p) \in Nat
  BY Joined
<1>2. \A i \in Negations(r) :
        \/ i \in Negations(p)
        \/ i - Len(p) \in Negations(q) /\ Len(p) + (i - Len(p)) = i
  BY JoinedNegations
<1> HIDE DEF r
<1> DEFINE Good0(i) ==
             /\ i \in Negations(r) /\ r[i].len \in Nat /\ i + r[i].len <= Len(r)
             /\ \A k \in BodyOf(r, i) : r[k].op = "Not" => k + r[k].len <= i + r[i].len
<1>3. \A i \in Negations(p) : Good0(i) /\ Younger(r, i) = Younger(p, i)
  <2> TAKE i \in Negations(p)
  <2>1. /\ 0 + i \in Negations(r) /\ Younger(r, 0 + i) = Younger(p, i)
        /\ r[0 + i].len \in Nat /\ 0 + i + r[0 + i].len <= Len(r)
        /\ \A k \in BodyOf(r, 0 + i) : r[k].op = "Not" => k + r[k].len <= 0 + i + r[0 + i].len
    BY <1>1, NegationsInPart
  <2>2. 0 + i = i
    BY <1>1 DEF Negations, PartAt
  <2> QED BY <2>1, <2>2
<1>4. \A i \in Negations(q) : Good0(Len(p) + i) /\ Younger(r, Len(p) + i) = Younger(q, i)
  BY <1>1, NegationsInPart
<1>5. Nested(r)
  <2> SUFFICES ASSUME NEW i \in Negations(r) PROVE Good0(i)
    BY Zenon DEF Nested
  <2> HIDE DEF Good0
  <2> QED BY <1>2, <1>3, <1>4
<1>6. \A i \in Negations(p) : i \in Negations(r) /\ Younger(r, i) = Younger(p, i)
  BY <1>3
<1>7. \A i \in Negations(q) :
        Len(p) + i \in Negations(r) /\ Younger(r, Len(p) + i) = Younger(q, i)
  BY <1>4
<1>8. Dead(r) \subseteq Dead(p) \cup Dead(q)
  <2> SUFFICES ASSUME NEW i \in Negations(r) PROVE Younger(r, i) \subseteq Dead(p) \cup Dead(q)
    BY DEF Dead
  <2>1. CASE i \in Negations(p)
    BY <1>6, <2>1 DEF Dead
  <2>2. CASE i - Len(p) \in Negations(q) /\ Len(p) + (i - Len(p)) = i
    <3>1. Younger(r, Len(p) + (i - Len(p))) = Younger(q, i - Len(p))
      BY <1>7, <2>2
    <3> QED BY <2>2, <3>1 DEF Dead
  <2> QED BY <1>2, <2>1, <2>2
<1>9. Dead(p) \subseteq Dead(r) /\ Dead(q) \subseteq Dead(r)
  BY <1>6, <1>7 DEF Dead
<1> QED BY <1>5, <1>8, <1>9 DEF r

\* Two sealed lists, joined, of which neither uses what is dead in the other.
LEMMA JoinedSealed ==
  ASSUME NEW T, NEW p \in Seq(T), NEW q \in Seq(T), Nested(p), Nested(q),
         SealedList(p), SealedList(q),
         Dead(p) \cap Used(q) = {}, Dead(q) \cap Used(p) = {}
  PROVE  SealedList(p \o q)
<1> DEFINE r == p \o q
<1>1. /\ PartAt(p, r, 0) /\ PartAt(q, r, Len(p)) /\ Len(p) \in Nat /\ Len(q) \in Nat
      /\ DOMAIN r = 1 .. Len(p) + Len(q)
      /\ UsedIn(r, 1 .. Len(p)) = Used(p)
      /\ UsedIn(r, Len(p) + 1 .. Len(p) + Len(q)) = Used(q)
  BY Joined
<1>2. \A i \in Negations(r) :
        \/ i \in Negations(p)
        \/ i - Len(p) \in Negations(q) /\ Len(p) + (i - Len(p)) = i
  BY JoinedNegations
<1> HIDE DEF r
<1>3. /\ DOMAIN r \ (0 + 1 .. 0 + Len(p)) = Len(p) + 1 .. Len(p) + Len(q)
      /\ DOMAIN r \ (Len(p) + 1 .. Len(p) + Len(q)) = 1 .. Len(p)
  BY <1>1
<1>4. /\ Dead(p) \cap UsedIn(r, DOMAIN r \ (0 + 1 .. 0 + Len(p))) = {}
      /\ Dead(q) \cap UsedIn(r, DOMAIN r \ (Len(p) + 1 .. Len(p) + Len(q))) = {}
  BY <1>1, <1>3
<1>5. \A i \in Negations(p) : KeptIn(r, 0 + i) /\ 0 + i = i
  <2>1. \A i \in Negations(p) : KeptIn(r, 0 + i)
    BY <1>1, <1>4, KeptInPart
  <2>2. \A i \in Negations(p) : 0 + i = i
    BY <1>1 DEF Negations, PartAt
  <2> QED BY <2>1, <2>2
<1>6. \A i \in Negations(q) : KeptIn(r, Len(p) + i)
  BY <1>1, <1>4, KeptInPart
<1>7. SealedList(r)
  <2> SUFFICES ASSUME NEW i \in Negations(r) PROVE KeptIn(r, i)
    BY DEF SealedList
  <2> QED BY <1>2, <1>5, <1>6
<1> QED BY <1>7 DEF r

\* A negation and its body.
Negation(mark, q) == <<[op |-> "Not", len |-> Len(q), mark |-> mark]>> \o q

LEMMA NegationSealed ==
  ASSUME NEW T, NEW q \in Seq(T), NEW mark \in Nat, Nested(q)
  PROVE  /\ Nested(Negation(mark, q))
         /\ SealedList(q) => SealedList(Negation(mark, q))
         /\ Used(Negation(mark, q)) = Used(q)
         /\ Dead(Negation(mark, q)) = Dead(q) \cup {b \in Used(q) : b >= mark}
<1> DEFINE c == [op |-> "Not", len |-> Len(q), mark |-> mark]
           h == Negation(mark, q)
           U == T \cup {c}
           one == <<c>>
<1>0. h = <<c>> \o q /\ c.op = "Not" /\ c.len = Len(q) /\ c.mark = mark
  BY DEF Negation
<1> HIDE DEF c, h
<1>1. /\ q \in Seq(U) /\ one \in Seq(U) /\ Len(one) = 1 /\ one[1] = c
      /\ DOMAIN one = {1} /\ h = one \o q
  BY <1>0, MoreSequences
<1> HIDE DEF U, one
<1>2. /\ PartAt(one, h, 0) /\ PartAt(q, h, 1)
      /\ DOMAIN h = 1 .. 1 + Len(q) /\ Len(h) = 1 + Len(q) /\ Len(q) \in Nat
      /\ UsedIn(h, 1 .. 1) = Used(one)
      /\ UsedIn(h, 1 + 1 .. 1 + Len(q)) = Used(q)
      /\ Used(h) = Used(one) \cup Used(q)
  <2>1. /\ PartAt(one, one \o q, 0) /\ PartAt(q, one \o q, Len(one))
        /\ DOMAIN (one \o q) = 1 .. Len(one) + Len(q) /\ Len(one \o q) = Len(one) + Len(q)
        /\ Len(q) \in Nat
        /\ UsedIn(one \o q, 1 .. Len(one)) = Used(one)
        /\ UsedIn(one \o q, Len(one) + 1 .. Len(one) + Len(q)) = Used(q)
        /\ Used(one \o q) = Used(one) \cup Used(q)
    <3>1. one \in Seq(U) /\ q \in Seq(U)
      BY <1>1
    <3> QED BY ONLY <3>1, Joined
  <2> QED BY <1>1, <2>1, Zenon
<1>3. h[1] = c /\ c.op = "Not" /\ c.len = Len(q) /\ c.mark = mark
  <2>1. h[0 + 1] = one[1]
    BY <1>1, <1>2 DEF PartAt
  <2> QED BY <1>0, <1>1, <2>1
<1>4. \A i \in Negations(h) :
        i = 1 \/ (i - 1 \in Negations(q) /\ 1 + (i - 1) = i)
  <2>1. \A i \in Negations(one \o q) :
          \/ i \in Negations(one)
          \/ i - Len(one) \in Negations(q) /\ Len(one) + (i - Len(one)) = i
    <3>1. one \in Seq(U) /\ q \in Seq(U)
      BY <1>1
    <3> QED BY ONLY <3>1, JoinedNegations
  <2>2. \A i \in Negations(one) : i = 1
    BY <1>1 DEF Negations
  <2>3. Len(one) = 1 /\ h = one \o q
    BY <1>1
  <2> QED BY ONLY <2>1, <2>2, <2>3
<1>5. Used(one) = {}
  <2>1. Uses(c) = {}
    BY <1>3 DEF Uses
  <2> QED BY <1>1, <2>1 DEF Used, UsedIn
<1>6. 1 \in Negations(h) /\ BodyOf(h, 1) = 1 + 1 .. 1 + Len(q)
  BY <1>2, <1>3 DEF Negations, BodyOf
<1>7. Younger(h, 1) = {b \in Used(q) : b >= mark}
  BY <1>2, <1>3, <1>6 DEF Younger
<1>8. \A i \in Negations(q) :
        /\ 1 + i \in Negations(h) /\ Younger(h, 1 + i) = Younger(q, i)
        /\ h[1 + i].len \in Nat /\ 1 + i + h[1 + i].len <= Len(h)
        /\ \A k \in BodyOf(h, 1 + i) : h[k].op = "Not" => k + h[k].len <= 1 + i + h[1 + i].len
  <2> QED BY <1>2, NegationsInPart
<1>9. Nested(h)
  <2> SUFFICES ASSUME NEW i \in Negations(h)
               PROVE  /\ h[i].len \in Nat
                      /\ i + h[i].len <= Len(h)
                      /\ \A k \in BodyOf(h, i) : h[k].op = "Not" => k + h[k].len <= i + h[i].len
    BY DEF Nested
  <2>1. CASE i = 1
    <3>1. h[i].len = Len(q) /\ 1 + h[i].len = Len(h)
      BY <1>2, <1>3, <2>1
    <3>2. ASSUME NEW k \in BodyOf(h, 1), h[k].op = "Not" PROVE k + h[k].len <= 1 + h[1].len
      <4>1. k \in DOMAIN h /\ k # 1
        BY <1>2, <1>6, <3>2
      <4>2. k - 1 \in Negations(q) /\ 1 + (k - 1) = k
        BY <1>4, <3>2, <4>1 DEF Negations
      <4>3. k + h[k].len <= Len(h)
        BY <1>8, <4>2
      <4> QED BY <2>1, <3>1, <4>3
    <3> QED BY ONLY <1>2, <2>1, <3>1, <3>2
  <2>2. CASE i - 1 \in Negations(q) /\ 1 + (i - 1) = i
    <3> DEFINE n == i - 1
    <3>1. n \in Negations(q) /\ 1 + n = i
      BY <2>2
    <3> HIDE DEF n
    <3> QED BY <1>8, <3>1
  <2> QED BY <1>4, <2>1, <2>2
<1>10. SealedList(q) => SealedList(h)
  <2> SUFFICES ASSUME SealedList(q), NEW i \in Negations(h) PROVE KeptIn(h, i)
    BY DEF SealedList
  <2>1. CASE i = 1
    <3>1. DOMAIN h \ BodyOf(h, 1) = 1 .. 1
      BY <1>2, <1>6
    <3> QED BY <1>2, <1>5, <2>1, <3>1 DEF KeptIn
  <2>2. CASE i - 1 \in Negations(q) /\ 1 + (i - 1) = i
    <3>1. DOMAIN h \ (1 + 1 .. 1 + Len(q)) = 1 .. 1
      BY <1>2
    <3>2. Dead(q) \cap UsedIn(h, DOMAIN h \ (1 + 1 .. 1 + Len(q))) = {}
      BY <1>2, <1>5, <3>1
    <3> DEFINE n == i - 1
    <3>3. n \in Negations(q) /\ 1 + n = i
      BY <2>2
    <3> HIDE DEF n
    <3>4. KeptIn(h, 1 + n)
      BY <1>2, <3>2, <3>3, KeptInPart
    <3> QED BY <3>3, <3>4
  <2> QED BY <1>4, <2>1, <2>2
<1>11. Dead(h) = Dead(q) \cup Younger(h, 1)
  <2>1. ASSUME NEW i \in Negations(h) PROVE Younger(h, i) \subseteq Dead(q) \cup Younger(h, 1)
    <3>1. CASE i = 1
      BY <3>1
    <3>2. CASE i - 1 \in Negations(q) /\ 1 + (i - 1) = i
      <4>1. Younger(h, 1 + (i - 1)) = Younger(q, i - 1)
        BY <1>8, <3>2
      <4> QED BY <3>2, <4>1 DEF Dead
    <3> QED BY <1>4, <3>1, <3>2
  <2>2. Dead(q) \subseteq Dead(h)
    <3>1. \A i \in Negations(q) : 1 + i \in Negations(h) /\ Younger(h, 1 + i) = Younger(q, i)
      BY <1>8
    <3> QED BY <3>1 DEF Dead
  <2>3. Younger(h, 1) \subseteq Dead(h)
    BY <1>6 DEF Dead
  <2> QED BY <2>1, <2>2, <2>3 DEF Dead
<1> QED BY <1>2, <1>5, <1>7, <1>9, <1>10, <1>11 DEF h

\* A negation is put at the end of a list, all of which is older.
LEMMA WithNotSealed ==
  ASSUME NEW T, NEW p \in Seq(T), NEW q \in Seq(T), NEW mark \in Nat, NEW r,
         r = WithNot(p, mark, q), Nested(p), Nested(q)
  PROVE  /\ Nested(r)
         /\ Used(r) = Used(p) \cup Used(q)
         /\ Dead(r) = Dead(p) \cup Dead(q) \cup {b \in Used(q) : b >= mark}
         /\ \A names : "Not" \in names /\ (\A i \in DOMAIN p : p[i].op \in names)
                         /\ (\A i \in DOMAIN q : q[i].op \in names)
              => \A i \in DOMAIN r : r[i].op \in names
         /\ SealedList(p) /\ SealedList(q) /\ Dead(p) \cap Used(q) = {}
              /\ Dead(q) \cap Used(p) = {} /\ (\A b \in Used(p) : ~(b >= mark))
              => SealedList(r)
<1> DEFINE c == [op |-> "Not", len |-> Len(q), mark |-> mark]
           h == <<c>> \o q
           U == T \cup {c}
<1>1. p \in Seq(U) /\ q \in Seq(U) /\ <<c>> \in Seq(U)
  BY MoreSequences
<1>2. c.op = "Not"
  OBVIOUS
<1> HIDE DEF U, c
<1>3. h \in Seq(U)
  BY <1>1, ConcatProperties
<1>4. r = p \o h
  <2>1. r = (p \o <<c>>) \o q
    BY DEF WithNot, c
  <2> QED BY <1>1, <2>1, ConcatAssociative
<1>5. /\ Nested(h) /\ Used(h) = Used(q)
      /\ Dead(h) = Dead(q) \cup {b \in Used(q) : b >= mark}
      /\ SealedList(q) => SealedList(h)
  <2>1. h = Negation(mark, q)
    BY DEF Negation, c
  <2> HIDE DEF h
  <2> QED BY <2>1, NegationSealed, Zenon
<1>6. \A names : "Not" \in names /\ (\A i \in DOMAIN q : q[i].op \in names)
        => \A i \in DOMAIN h : h[i].op \in names
  <2> SUFFICES ASSUME NEW names, "Not" \in names, \A i \in DOMAIN q : q[i].op \in names
               PROVE  \A i \in DOMAIN h : h[i].op \in names
    OBVIOUS
  <2>1. \A i \in DOMAIN <<c>> : <<c>>[i].op \in names
    BY <1>2
  <2> QED BY <1>1, <2>1, JoinedNames
<1> HIDE DEF h
<1>7. Nested(r) /\ Dead(r) = Dead(p) \cup Dead(h)
  BY <1>1, <1>3, <1>4, <1>5, JoinedNested
<1>8. Used(r) = Used(p) \cup Used(h)
  BY <1>1, <1>3, <1>4, Joined
<1>9. \A names : (\A i \in DOMAIN p : p[i].op \in names) /\ (\A i \in DOMAIN h : h[i].op \in names)
        => \A i \in DOMAIN r : r[i].op \in names
  BY <1>1, <1>3, <1>4, JoinedNames
<1>10. ASSUME SealedList(p), SealedList(q), Dead(p) \cap Used(q) = {}, Dead(q) \cap Used(p) = {},
              \A b \in Used(p) : ~(b >= mark)
       PROVE  SealedList(r)
  <2>1. SealedList(h) /\ Dead(p) \cap Used(h) = {} /\ Dead(h) \cap Used(p) = {}
    BY <1>5, <1>10
  <2> QED BY ONLY <1>1, <1>3, <1>4, <1>5, <1>10, <2>1, JoinedSealed, Nested(p)
<1> QED BY <1>5, <1>6, <1>7, <1>8, <1>9, <1>10

-----------------------------------------------------------------------------
(* Select lists and apply lists.                                           *)

SelectNames ==
  {"Attribute", "RequireValue", "Require", "AssertObject", "CompareBinding", "Tuple", "MatchEnum",
   "Compare", "Calculation", "Not"}

ApplyNames == {"CreateObject", "CreateTuple", "Add", "Remove", "Conditional"}

SelectKinds == {"select", "not", "condition"}

ApplyKinds == {"apply", "then", "otherwise"}

NamesOf(kind) == IF kind \in SelectKinds THEN SelectNames ELSE ApplyNames

Named(p, names) == \A i \in DOMAIN p : p[i].op \in names

LEMMA NoNegations ==
  ASSUME NEW p, Negations(p) = {}
  PROVE  Nested(p) /\ SealedList(p) /\ Dead(p) = {}
BY DEF Nested, SealedList, Dead

LEMMA ApplyLists ==
  ASSUME NEW p, Named(p, ApplyNames)
  PROVE  Negations(p) = {} /\ Nested(p) /\ SealedList(p) /\ Dead(p) = {}
<1>1. Negations(p) = {}
  BY DEF Named, ApplyNames, Negations
<1> QED BY <1>1, NoNegations

\* The branches of a conditional are put at the end of a list.
LEMMA WithConditionalUses ==
  ASSUME NEW T, NEW p \in Seq(T), NEW then \in Seq(T), NEW otherwise \in Seq(T),
         Named(p, ApplyNames), Named(then, ApplyNames), Named(otherwise, ApplyNames)
  PROVE  LET r == WithConditional(p, then, otherwise)
         IN  Named(r, ApplyNames) /\ Used(r) = Used(p) \cup Used(then) \cup Used(otherwise)
<1> DEFINE c == [op |-> "Conditional", then_len |-> Len(then), otherwise_len |-> Len(otherwise)]
           one == <<c>>
           U == T \cup {c}
<1>1. c.op = "Conditional"
  OBVIOUS
<1>2. WithConditional(p, then, otherwise) = p \o one \o then \o otherwise
  BY DEF WithConditional
<1> HIDE DEF c
<1>3. /\ p \in Seq(U) /\ then \in Seq(U) /\ otherwise \in Seq(U) /\ one \in Seq(U)
      /\ DOMAIN one = {1} /\ one[1] = c
  BY MoreSequences
<1> HIDE DEF U, one
<1>4. Named(one, ApplyNames) /\ Used(one) = {}
  <2>1. Uses(c) = {}
    BY <1>1 DEF Uses
  <2> QED BY <1>1, <1>3, <2>1 DEF Named, ApplyNames, Used, UsedIn
<1> DEFINE a == p \o one
           b == a \o then
           d == b \o otherwise
<1>5. a \in Seq(U) /\ Used(a) = Used(p) /\ Named(a, ApplyNames)
  <2>1. Used(p \o one) = Used(p) \cup Used(one)
    BY <1>3, JoinedUses
  <2>2. Named(p \o one, ApplyNames)
    BY <1>3, <1>4, JoinedNames DEF Named
  <2> QED BY <1>3, <1>4, <2>1, <2>2, ConcatProperties
<1> HIDE DEF a
<1>6. b \in Seq(U) /\ Used(b) = Used(a) \cup Used(then) /\ Named(b, ApplyNames)
  <2>1. Used(a \o then) = Used(a) \cup Used(then)
    BY <1>3, <1>5, JoinedUses
  <2>2. Named(a \o then, ApplyNames)
    BY <1>3, <1>5, JoinedNames DEF Named
  <2> QED BY <1>3, <1>5, <2>1, <2>2, ConcatProperties
<1> HIDE DEF b
<1>7. Used(d) = Used(b) \cup Used(otherwise) /\ Named(d, ApplyNames)
  <2>1. Used(b \o otherwise) = Used(b) \cup Used(otherwise)
    BY <1>3, <1>6, JoinedUses
  <2>2. Named(b \o otherwise, ApplyNames)
    BY <1>3, <1>6, JoinedNames DEF Named
  <2> QED BY <2>1, <2>2
<1>8. d = p \o one \o then \o otherwise
  BY DEF a, b
<1> HIDE DEF d
<1> QED BY <1>2, <1>5, <1>6, <1>7, <1>8

-----------------------------------------------------------------------------
(* All the lists that are under way or finished, by where they are.        *)

\* Each is sealed, and what is dead in it is used in no other.
Separate(A) ==
  \A a \in DOMAIN A :
    /\ SealedList(A[a])
    /\ \A b \in DOMAIN A \ {a} : Dead(A[a]) \cap Used(A[b]) = {}

DeadIn(A) == UNION {Dead(A[a]) : a \in DOMAIN A}

\* Lists are put elsewhere, left out, and begun.
LEMMA Rearranged ==
  ASSUME NEW A, NEW B, NEW from, Separate(A),
         \A b \in DOMAIN B : B[b] # <<>> => from[b] \in DOMAIN A /\ B[b] = A[from[b]],
         \A b, c \in DOMAIN B : b # c /\ B[b] # <<>> /\ B[c] # <<>> => from[b] # from[c]
  PROVE  Separate(B) /\ DeadIn(B) \subseteq DeadIn(A)
<1>1. ASSUME NEW b \in DOMAIN B
      PROVE  SealedList(B[b]) /\ Dead(B[b]) \subseteq DeadIn(A)
  BY NothingUsed DEF Separate, DeadIn
<1>2. ASSUME NEW b \in DOMAIN B, NEW c \in DOMAIN B, b # c
      PROVE  Dead(B[b]) \cap Used(B[c]) = {}
  <2>1. CASE B[b] = <<>> \/ B[c] = <<>>
    BY <2>1, NothingUsed
  <2>2. CASE B[b] # <<>> /\ B[c] # <<>>
    BY <1>2, <2>2 DEF Separate
  <2> QED BY <2>1, <2>2
<1> QED BY <1>1, <1>2 DEF Separate, DeadIn

\* Operations are pushed on one that use nothing dead.
LEMMA Grown ==
  ASSUME NEW T, NEW A, NEW B, NEW t \in DOMAIN A, NEW more \in Seq(T), A[t] \in Seq(T),
         Separate(A), DOMAIN B = DOMAIN A, B[t] = A[t] \o more,
         \A a \in DOMAIN A \ {t} : B[a] = A[a],
         Nested(A[t]), Negations(more) = {}, DeadIn(A) \cap Used(more) = {}
  PROVE  Separate(B) /\ DeadIn(B) = DeadIn(A)
<1>1. Nested(more) /\ SealedList(more) /\ Dead(more) = {}
  BY NoNegations
<1>2. Used(B[t]) = Used(A[t]) \cup Used(more)
  BY Joined
<1>3. Dead(B[t]) = Dead(A[t])
  <2> DEFINE p == A[t]
  <2>1. p \in Seq(T) /\ Nested(p) /\ B[t] = p \o more
    OBVIOUS
  <2> HIDE DEF p
  <2>2. Dead(p \o more) = Dead(p) \cup Dead(more)
    BY ONLY <1>1, <2>1, more \in Seq(T), JoinedNested
  <2> QED BY <1>1, <2>1, <2>2 DEF p
<1>4. Dead(A[t]) \cap Used(more) = {} /\ SealedList(A[t])
  BY DEF Separate, DeadIn
<1>5. SealedList(B[t])
  BY <1>1, <1>4, JoinedSealed
<1>6. \A a \in DOMAIN A : Dead(B[a]) = Dead(A[a]) /\ SealedList(B[a]) /\ Dead(A[a]) \cap Used(more) = {}
  BY <1>3, <1>5 DEF Separate, DeadIn
<1>7. ASSUME NEW a \in DOMAIN A, NEW b \in DOMAIN A \ {a}
      PROVE  Dead(B[a]) \cap Used(B[b]) = {}
  <2>1. Dead(A[a]) \cap Used(A[b]) = {}
    BY DEF Separate
  <2> QED BY <1>2, <1>6, <2>1
<1>8. Separate(B)
  BY <1>6, <1>7 DEF Separate
<1>9. DeadIn(B) = DeadIn(A)
  BY <1>6 DEF DeadIn
<1> QED BY <1>8, <1>9

\* One becomes a negation in another; it has what is younger for itself.
LEMMA NotClosed ==
  ASSUME NEW T, NEW A, NEW B, NEW t \in DOMAIN A, NEW u \in DOMAIN A \ {t}, NEW mark \in Nat,
         A[t] \in Seq(T), A[u] \in Seq(T), Nested(A[t]), Nested(A[u]), Separate(A),
         DOMAIN B \subseteq DOMAIN A \ {t}, B[u] = WithNot(A[u], mark, A[t]),
         \A a \in DOMAIN B \ {u} : B[a] = A[a],
         \A a \in DOMAIN A \ {t} : \A b \in Used(A[a]) : ~(b >= mark)
  PROVE  /\ Separate(B)
         /\ DeadIn(B) \subseteq DeadIn(A) \cup {b \in Used(A[t]) : b >= mark}
<1> DEFINE young == {b \in Used(A[t]) : b >= mark}
<1>1. /\ SealedList(A[u]) /\ SealedList(A[t])
      /\ Dead(A[u]) \cap Used(A[t]) = {} /\ Dead(A[t]) \cap Used(A[u]) = {}
  BY DEF Separate
<1>2. /\ Used(B[u]) = Used(A[u]) \cup Used(A[t])
      /\ Dead(B[u]) = Dead(A[u]) \cup Dead(A[t]) \cup young
      /\ SealedList(B[u])
  <2> DEFINE p == A[u]
             q == A[t]
             r == B[u]
  <2>1. /\ p \in Seq(T) /\ q \in Seq(T) /\ r = WithNot(p, mark, q) /\ Nested(p) /\ Nested(q)
        /\ mark \in Nat
        /\ SealedList(p) /\ SealedList(q) /\ Dead(p) \cap Used(q) = {}
        /\ Dead(q) \cap Used(p) = {} /\ (\A b \in Used(p) : ~(b >= mark))
    BY <1>1
  <2> HIDE DEF p, q, r
  <2>2. /\ Used(r) = Used(p) \cup Used(q)
        /\ Dead(r) = Dead(p) \cup Dead(q) \cup {b \in Used(q) : b >= mark}
        /\ SealedList(r)
    BY ONLY <2>1, WithNotSealed
  <2> QED BY <2>2 DEF p, q, r
<1> HIDE DEF young
<1>3. \A a \in DOMAIN A \ {t} : young \cap Used(A[a]) = {}
  BY DEF young
<1>4. ASSUME NEW a \in DOMAIN B, NEW b \in DOMAIN B \ {a}
      PROVE  Dead(B[a]) \cap Used(B[b]) = {}
  <2>1. a \in DOMAIN A \ {t} /\ b \in DOMAIN A \ {t}
    OBVIOUS
  <2>2. /\ Dead(A[a]) \cap Used(A[b]) = {}
        /\ Dead(A[t]) \cap Used(A[b]) = {} /\ Dead(A[a]) \cap Used(A[t]) = {}
    BY <2>1 DEF Separate
  <2>3. CASE a = u
    <3>1. B[b] = A[b]
      BY <2>3
    <3> QED BY <1>2, <1>3, <2>1, <2>2, <2>3, <3>1
  <2>4. CASE a # u /\ b = u
    <3>1. B[a] = A[a]
      BY <2>4
    <3> QED BY <1>2, <2>2, <2>4, <3>1
  <2>5. CASE a # u /\ b # u
    BY <2>2, <2>5
  <2> QED BY <2>3, <2>4, <2>5
<1>5. ASSUME NEW a \in DOMAIN B PROVE SealedList(B[a]) /\ Dead(B[a]) \subseteq DeadIn(A) \cup young
  <2>1. CASE a = u
    BY <1>2, <2>1 DEF DeadIn
  <2>2. CASE a # u
    <3>1. B[a] = A[a] /\ a \in DOMAIN A
      BY <2>2
    <3> QED BY <3>1 DEF Separate, DeadIn
  <2> QED BY <2>1, <2>2
<1>6. Separate(B)
  BY <1>4, <1>5 DEF Separate
<1>7. DeadIn(B) \subseteq DeadIn(A) \cup young
  BY <1>5 DEF DeadIn
<1> QED BY <1>6, <1>7 DEF young

\* Two become the branches of a conditional in a third.
LEMMA ConditionalClosed ==
  ASSUME NEW T, NEW A, NEW B, NEW t \in DOMAIN A, NEW o \in DOMAIN A, NEW u \in DOMAIN A \ {t, o},
         A[t] \in Seq(T), A[o] \in Seq(T), A[u] \in Seq(T), Separate(A),
         Named(A[t], ApplyNames), Named(A[o], ApplyNames), Named(A[u], ApplyNames),
         DOMAIN B \subseteq DOMAIN A \ {t, o}, B[u] = WithConditional(A[u], A[t], A[o]),
         \A a \in DOMAIN B \ {u} : B[a] = A[a]
  PROVE  Separate(B) /\ DeadIn(B) \subseteq DeadIn(A)
<1>1. Named(B[u], ApplyNames) /\ Used(B[u]) = Used(A[u]) \cup Used(A[t]) \cup Used(A[o])
  BY WithConditionalUses
<1>2. SealedList(B[u]) /\ Dead(B[u]) = {}
  BY <1>1, ApplyLists
<1>3. ASSUME NEW a \in DOMAIN B, NEW b \in DOMAIN B \ {a}
      PROVE  Dead(B[a]) \cap Used(B[b]) = {}
  <2>1. /\ Dead(A[a]) \cap Used(A[b]) = {}
        /\ Dead(A[a]) \cap Used(A[t]) = {} /\ Dead(A[a]) \cap Used(A[o]) = {}
    BY DEF Separate
  <2>2. CASE a = u
    BY <1>2, <2>2
  <2>3. CASE a # u /\ b = u
    <3>1. B[a] = A[a]
      BY <2>3
    <3> QED BY <1>1, <2>1, <2>3, <3>1
  <2>4. CASE a # u /\ b # u
    BY <2>1, <2>4
  <2> QED BY <2>2, <2>3, <2>4
<1>4. ASSUME NEW a \in DOMAIN B PROVE SealedList(B[a]) /\ Dead(B[a]) \subseteq DeadIn(A)
  <2>1. CASE a = u
    BY <1>2, <2>1
  <2>2. CASE a # u
    <3>1. B[a] = A[a] /\ a \in DOMAIN A
      BY <2>2
    <3> QED BY <3>1 DEF Separate, DeadIn
  <2> QED BY <2>1, <2>2
<1> QED BY <1>3, <1>4 DEF Separate, DeadIn

-----------------------------------------------------------------------------
(* The invariant.                                                          *)

\* What is put off until a value is complete is put in an apply list.
SelectValues == {"struct", "tuple", "enum", "calculation", "comparison"}

SortedValue(f, kind) ==
  /\ Named(f.after, ApplyNames)
  /\ IF f.kind \in SelectValues THEN kind \in SelectKinds /\ f.after = <<>>
                                ELSE kind \in ApplyKinds

SortedScope(f) ==
  /\ Named(f.ops, NamesOf(f.kind)) /\ Nested(f.ops)
  /\ Named(f.then, ApplyNames)

\* A negation is in a select list, what is no negation is in apply lists only.
Within(k) ==
  k > 1 => IF scopes[k].kind = "not" THEN scopes[k - 1].kind \in SelectKinds
           ELSE \A j \in 1 .. k - 1 : scopes[j].kind \in ApplyKinds

ScopesSorted ==
  \A k \in DOMAIN scopes :
    /\ SortedScope(scopes[k]) /\ Within(k)
    /\ scopes[k].kind \in ApplyKinds => lists # <<>>

ListsSorted == \A n \in DOMAIN lists : Named(lists[n], SelectNames) /\ Nested(lists[n])

ValuesSorted == \A i \in DOMAIN values : SortedValue(values[i], Scope.kind)

Sorted ==
  /\ ScopesSorted /\ ListsSorted /\ ValuesSorted
  /\ status = "accepted" => lists # <<>>

\* The lists, by where they are.
Places == ({"ops", "then"} \X DOMAIN scopes) \cup ({"list"} \X DOMAIN lists)

Contents ==
  [a \in Places |->
     IF a[1] = "ops" THEN scopes[a[2]].ops
     ELSE IF a[1] = "then" THEN scopes[a[2]].then
     ELSE lists[a[2]]]

DeadSlots == DeadIn(Contents)

\* The slots in e that are not dead.
LiveIn(e) == SlotsIn(e) \ DeadSlots

\* No name stands for a dead slot, now or when a scope is left, and nothing that
\* is open has one.
Unseen ==
  /\ env.visible \in [Names -> LiveIn(env) \cup {NoSlot}]
  /\ \A k \in DOMAIN scopes : scopes[k].visible \in [Names -> LiveIn(env) \cup {NoSlot}]
  /\ values \in Seq(ValueFrame(LiveIn(env)))

\* What there was before a scope is older than it.
Aged ==
  \A k \in DOMAIN scopes :
    /\ scopes[k].mark <= Len(env.slots)
    /\ \A n \in Names : scopes[k].visible[n] < scopes[k].mark
    /\ Old(scopes[k].then, scopes[k].mark)
    /\ \A j \in 1 .. k - 1 :
         scopes[j].mark <= scopes[k].mark /\ Old(scopes[j].ops, scopes[k].mark)
    /\ scopes[k].kind = "not" => \A n \in DOMAIN lists : Old(lists[n], scopes[k].mark)

SealedInv == Sorted /\ Separate(Contents) /\ Unseen /\ Aged

-----------------------------------------------------------------------------
(* The scopes after a step.                                                *)

SameButOps(f, g, more) ==
  /\ f.kind = g.kind /\ f.visible = g.visible /\ f.mark = g.mark /\ f.then = g.then
  /\ f.ops = more

LEMMA NewOps ==
  ASSUME NEW S, NEW g \in ScopeFrame(S), NEW more
  PROVE  SameButOps([g EXCEPT !.ops = more], g, more)
BY DEF ScopeFrame, SameButOps

LEMMA LastReplaced ==
  ASSUME NEW S, NEW s \in Seq(S), s # <<>>, NEW f, NEW t, t = [s EXCEPT ![Len(s)] = f]
  PROVE  /\ Len(t) = Len(s) /\ DOMAIN t = 1 .. Len(s) /\ t # <<>>
         /\ \A k \in 1 .. Len(s) - 1 : t[k] = s[k]
         /\ t[Len(s)] = f
<1> DEFINE U == S \cup {f}
<1>1. s \in Seq(U) /\ f \in U
  BY MoreSequences
<1> HIDE DEF U
<1>2. Len(s) \in Nat /\ Len(s) \in 1 .. Len(s)
  BY EmptySeq
<1>3. /\ t \in Seq(U) /\ Len(t) = Len(s)
      /\ \A j \in 1 .. Len(s) : t[j] = IF j = Len(s) THEN f ELSE s[j]
  BY <1>1, <1>2, ExceptSeq
<1>4. DOMAIN t = 1 .. Len(s)
  BY <1>3, LenProperties
<1>5. t # <<>>
  BY <1>2, <1>3
<1>6. \A k \in 1 .. Len(s) - 1 : k \in 1 .. Len(s) /\ k # Len(s)
  BY <1>2
<1>8. t[Len(s)] = f
  BY <1>2, <1>3, Zenon
<1>7. \A k \in 1 .. Len(s) - 1 : t[k] = s[k]
  BY <1>3, <1>6
<1> QED BY <1>3, <1>4, <1>5, <1>7, <1>8

\* Operations are pushed on the innermost list.
LEMMA TopPushed ==
  ASSUME IInv, status = "compiling", NEW more,
         scopes' = [scopes EXCEPT ![Len(scopes)].ops = @ \o more]
  PROVE  /\ Len(scopes) \in Nat \ {0} /\ DOMAIN scopes = 1 .. Len(scopes)
         /\ Scope = scopes[Len(scopes)]
         /\ DOMAIN scopes' = 1 .. Len(scopes) /\ Scope' = scopes'[Len(scopes)]
         /\ \A k \in 1 .. Len(scopes) - 1 : scopes'[k] = scopes[k]
         /\ SameButOps(scopes'[Len(scopes)], scopes[Len(scopes)], scopes[Len(scopes)].ops \o more)
         /\ Len(scopes') = Len(scopes)
<1>1. /\ scopes \in Seq(ScopeFrame(Handed)) /\ scopes # <<>> /\ Len(scopes) \in Nat \ {0}
      /\ Scope = scopes[Len(scopes)] /\ Scope \in ScopeFrame(Handed)
  BY Shape
<1>2. DOMAIN scopes = 1 .. Len(scopes)
  BY <1>1, LenProperties
<1> DEFINE g == scopes[Len(scopes)]
           f == [g EXCEPT !.ops = g.ops \o more]
           t == scopes'
<1>3. t = [scopes EXCEPT ![Len(scopes)] = f]
  BY Zenon
<1>4. SameButOps(f, g, g.ops \o more)
  BY <1>1, NewOps, Zenon
<1> HIDE DEF f, t
<1>5. /\ Len(t) = Len(scopes) /\ DOMAIN t = 1 .. Len(scopes)
      /\ \A k \in 1 .. Len(scopes) - 1 : t[k] = scopes[k]
      /\ t[Len(scopes)] = f
  BY ONLY <1>1, <1>3, LastReplaced
<1>6. Scope' = t[Len(t)]
  BY DEF Scope, Last, t
<1> QED BY <1>1, <1>2, <1>4, <1>5, <1>6 DEF t

\* The innermost list is put at the end of the one around it.
LEMMA TopReturned ==
  ASSUME IInv, status = "compiling", Len(scopes) > 1, NEW list,
         scopes' = [Front(scopes) EXCEPT ![Len(scopes) - 1].ops = list]
  PROVE  /\ Len(scopes) \in Nat \ {0} /\ DOMAIN scopes = 1 .. Len(scopes)
         /\ Scope = scopes[Len(scopes)]
         /\ DOMAIN scopes' = 1 .. Len(scopes) - 1 /\ Scope' = scopes'[Len(scopes) - 1]
         /\ \A k \in 1 .. Len(scopes) - 2 : scopes'[k] = scopes[k]
         /\ SameButOps(scopes'[Len(scopes) - 1], scopes[Len(scopes) - 1], list)
         /\ Len(scopes') = Len(scopes) - 1
<1>1. /\ scopes \in Seq(ScopeFrame(Handed)) /\ scopes # <<>> /\ Len(scopes) \in Nat \ {0}
      /\ Scope = scopes[Len(scopes)]
  BY Shape
<1>2. DOMAIN scopes = 1 .. Len(scopes)
  BY <1>1, LenProperties
<1> DEFINE s == Front(scopes)
           n == Len(scopes) - 1
<1>3. /\ s \in Seq(ScopeFrame(Handed)) /\ Len(s) = n /\ n \in Nat \ {0}
      /\ \A i \in 1 .. n : s[i] = scopes[i]
  BY <1>1, FrontOf
<1>4. s # <<>> /\ s[n] = scopes[n] /\ s[n] \in ScopeFrame(Handed)
  BY <1>3, EmptySeq, ElementOfSeq
<1> DEFINE f == [s[n] EXCEPT !.ops = list]
           t == scopes'
<1>5. t = [s EXCEPT ![Len(s)] = f]
  <2>1. t = [s EXCEPT ![n] = f]
    BY Zenon
  <2> QED BY <1>3, <2>1, Zenon
<1> HIDE DEF s
<1>6. SameButOps(f, s[n], list)
  BY <1>4, NewOps, Zenon
<1> HIDE DEF f, t
<1>7. /\ Len(t) = Len(s) /\ DOMAIN t = 1 .. Len(s)
      /\ \A k \in 1 .. Len(s) - 1 : t[k] = s[k]
      /\ t[Len(s)] = f
  BY ONLY <1>3, <1>4, <1>5, LastReplaced
<1>8. Scope' = t[Len(t)]
  BY DEF Scope, Last, t
<1>9. \A k \in 1 .. Len(scopes) - 2 : t[k] = scopes[k]
  BY <1>1, <1>3, <1>7
<1> QED BY <1>1, <1>2, <1>3, <1>4, <1>6, <1>7, <1>8, <1>9 DEF t

\* The innermost list is followed by another, in its place.
LEMMA TopFollowed ==
  ASSUME IInv, status = "compiling", NEW f, scopes' = Append(Front(scopes), f)
  PROVE  /\ Len(scopes) \in Nat \ {0} /\ DOMAIN scopes = 1 .. Len(scopes)
         /\ Scope = scopes[Len(scopes)]
         /\ DOMAIN scopes' = 1 .. Len(scopes) /\ Scope' = f
         /\ \A k \in 1 .. Len(scopes) - 1 : scopes'[k] = scopes[k]
         /\ scopes'[Len(scopes)] = f /\ Len(scopes') = Len(scopes)
<1>1. /\ scopes \in Seq(ScopeFrame(Handed)) /\ scopes # <<>> /\ Len(scopes) \in Nat \ {0}
      /\ Scope = scopes[Len(scopes)]
  BY Shape
<1>2. DOMAIN scopes = 1 .. Len(scopes)
  BY <1>1, LenProperties
<1> DEFINE s == Front(scopes)
           t == scopes'
           U == ScopeFrame(Handed) \cup {f}
<1>3. /\ s \in Seq(ScopeFrame(Handed)) /\ Len(s) = Len(scopes) - 1
      /\ \A i \in 1 .. Len(scopes) - 1 : s[i] = scopes[i]
  BY <1>1, FrontOf
<1>4. s \in Seq(U) /\ f \in U
  BY <1>3, MoreSequences
<1>5. t = Append(s, f)
  OBVIOUS
<1>6. Scope' = t[Len(t)]
  BY DEF Scope, Last
<1> HIDE DEF s, t, U
<1>7. /\ t \in Seq(U) /\ Len(t) = Len(scopes)
      /\ \A i \in 1 .. Len(scopes) - 1 : t[i] = s[i]
      /\ t[Len(scopes)] = f
  BY <1>1, <1>3, <1>4, <1>5, AppendProperties
<1>8. DOMAIN t = 1 .. Len(scopes)
  BY <1>7, LenProperties
<1> QED BY <1>1, <1>2, <1>3, <1>6, <1>7, <1>8 DEF t

\* A list begins inside the innermost.
LEMMA TopOpened ==
  ASSUME IInv, status = "compiling", NEW f, scopes' = Append(scopes, f)
  PROVE  /\ Len(scopes) \in Nat \ {0} /\ DOMAIN scopes = 1 .. Len(scopes)
         /\ Scope = scopes[Len(scopes)]
         /\ DOMAIN scopes' = 1 .. Len(scopes) + 1 /\ Scope' = f
         /\ \A k \in 1 .. Len(scopes) : scopes'[k] = scopes[k]
         /\ scopes'[Len(scopes) + 1] = f /\ Len(scopes') = Len(scopes) + 1
<1>1. /\ scopes \in Seq(ScopeFrame(Handed)) /\ scopes # <<>> /\ Len(scopes) \in Nat \ {0}
      /\ Scope = scopes[Len(scopes)]
  BY Shape
<1>2. DOMAIN scopes = 1 .. Len(scopes)
  BY <1>1, LenProperties
<1> DEFINE t == scopes'
           U == ScopeFrame(Handed) \cup {f}
<1>3. scopes \in Seq(U) /\ f \in U
  BY <1>1, MoreSequences
<1>4. t = Append(scopes, f)
  OBVIOUS
<1>5. Scope' = t[Len(t)]
  BY DEF Scope, Last
<1> HIDE DEF t, U
<1>6. /\ t \in Seq(U) /\ Len(t) = Len(scopes) + 1
      /\ \A i \in 1 .. Len(scopes) : t[i] = scopes[i]
      /\ t[Len(scopes) + 1] = f
  BY <1>1, <1>3, <1>4, AppendProperties
<1>7. DOMAIN t = 1 .. Len(scopes) + 1
  BY <1>1, <1>6, LenProperties
<1> QED BY <1>1, <1>2, <1>5, <1>6, <1>7 DEF t

-----------------------------------------------------------------------------
(* Where the lists are.                                                    *)

ContentsKnown ==
  /\ DOMAIN Contents = Places
  /\ \A k \in DOMAIN scopes :
       /\ <<"ops", k>> \in Places /\ Contents[<<"ops", k>>] = scopes[k].ops
       /\ <<"then", k>> \in Places /\ Contents[<<"then", k>>] = scopes[k].then
  /\ \A n \in DOMAIN lists : <<"list", n>> \in Places /\ Contents[<<"list", n>>] = lists[n]
  /\ \A a \in Places :
       \/ \E k \in DOMAIN scopes : a = <<"ops", k>> /\ Contents[a] = scopes[k].ops
       \/ \E k \in DOMAIN scopes : a = <<"then", k>> /\ Contents[a] = scopes[k].then
       \/ \E n \in DOMAIN lists : a = <<"list", n>> /\ Contents[a] = lists[n]

LEMMA ContentsAre == ContentsKnown
<1>1. ASSUME NEW a \in Places
      PROVE  \/ \E k \in DOMAIN scopes : a = <<"ops", k>> /\ Contents[a] = scopes[k].ops
             \/ \E k \in DOMAIN scopes : a = <<"then", k>> /\ Contents[a] = scopes[k].then
             \/ \E n \in DOMAIN lists : a = <<"list", n>> /\ Contents[a] = lists[n]
  BY DEF Places, Contents
<1>2. \A k \in DOMAIN scopes :
        /\ <<"ops", k>> \in Places /\ Contents[<<"ops", k>>] = scopes[k].ops
        /\ <<"then", k>> \in Places /\ Contents[<<"then", k>>] = scopes[k].then
  BY DEF Places, Contents
<1>3. \A n \in DOMAIN lists : <<"list", n>> \in Places /\ Contents[<<"list", n>>] = lists[n]
  BY DEF Places, Contents
<1>4. DOMAIN Contents = Places
  BY DEF Contents
<1> QED BY <1>1, <1>2, <1>3, <1>4 DEF ContentsKnown

LEMMA ContentsTyped ==
  ASSUME IInv
  PROVE  \A a \in Places : Contents[a] \in Ops(Handed) /\ Used(Contents[a]) \subseteq Handed
<1>1. /\ scopes \in Seq(ScopeFrame(Handed)) /\ lists \in Seq(Ops(Handed))
  BY DEF IInv, TypeOK
<1>2. \A k \in DOMAIN scopes : scopes[k] \in ScopeFrame(Handed)
  BY <1>1, ElementOfSeq, LenProperties
<1>3. \A k \in DOMAIN scopes : scopes[k].ops \in Ops(Handed) /\ scopes[k].then \in Ops(Handed)
  BY <1>2 DEF ScopeFrame
<1>4. \A n \in DOMAIN lists : lists[n] \in Ops(Handed)
  BY <1>1, ElementOfSeq, LenProperties
<1>5. \A a \in Places : Contents[a] \in Ops(Handed)
  BY <1>3, <1>4, ContentsAre DEF ContentsKnown
<1> QED BY <1>5, UsedTyped

LEMMA ContentsNested ==
  ASSUME Sorted
  PROVE  \A a \in Places : Nested(Contents[a])
<1>1. \A k \in DOMAIN scopes : Nested(scopes[k].ops) /\ Named(scopes[k].then, ApplyNames)
  BY DEF Sorted, ScopesSorted, SortedScope
<1>2. \A k \in DOMAIN scopes : Nested(scopes[k].then)
  BY <1>1, ApplyLists
<1>3. \A n \in DOMAIN lists : Nested(lists[n])
  BY DEF Sorted, ListsSorted
<1> QED BY <1>1, <1>2, <1>3, ContentsAre DEF ContentsKnown

\* What is dead is used in a negation.
LEMMA DeadUsed ==
  ASSUME NEW S, NEW p \in Ops(S), Nested(p)
  PROVE  Dead(p) \subseteq Used(p)
<1>1. Len(p) \in Nat /\ DOMAIN p = 1 .. Len(p)
  BY LenProperties DEF Ops
<1> SUFFICES ASSUME NEW i \in Negations(p) PROVE Younger(p, i) \subseteq Used(p)
  BY DEF Dead
<1>2. BodyOf(p, i) \subseteq DOMAIN p
  BY <1>1 DEF Negations, Nested, BodyOf
<1> QED BY <1>2, UsedMore DEF Younger, Used

LEMMA DeadHanded ==
  ASSUME IInv, Sorted
  PROVE  DeadSlots \subseteq Handed
<1>1. \A a \in Places : Contents[a] \in Ops(Handed) /\ Used(Contents[a]) \subseteq Handed
  BY ContentsTyped
<1>2. \A a \in Places : Nested(Contents[a])
  BY ContentsNested
<1>3. \A a \in Places : Dead(Contents[a]) \subseteq Handed
  BY <1>1, <1>2, DeadUsed
<1> QED BY <1>3, ContentsAre DEF DeadSlots, DeadIn, ContentsKnown

\* What nothing dead is in.
LEMMA LiveHanded ==
  ASSUME IInv, Sorted
  PROVE  LiveIn(env) \subseteq Handed /\ LiveIn(env) \cap DeadSlots = {}
BY DEF LiveIn, SlotsIn, Handed

-----------------------------------------------------------------------------
(* Operations are pushed.                                                  *)

\* Operations of one construct, for a list of some kind.
Fits(p, kind) == Named(p, NamesOf(kind) \ {"Not"})

LEMMA FitsNamed ==
  ASSUME NEW p, NEW kind, Fits(p, kind)
  PROVE  /\ Named(p, NamesOf(kind))
         /\ Negations(p) = {} /\ Nested(p) /\ SealedList(p) /\ Dead(p) = {}
<1>1. Named(p, NamesOf(kind)) /\ Negations(p) = {}
  BY DEF Fits, Named, Negations
<1> QED BY <1>1, NoNegations

\* Whether a list may stand where it does depends on the kinds of the lists.
LEMMA SameKinds ==
  ASSUME ScopesSorted, NEW n \in Nat, n <= Len(scopes), DOMAIN scopes = 1 .. Len(scopes),
         Len(scopes) \in Nat,
         \A k \in 1 .. n : scopes'[k].kind = scopes[k].kind
  PROVE  \A k \in 1 .. n : Within(k)'
<1> SUFFICES ASSUME NEW k \in 1 .. n, k > 1
             PROVE  IF scopes'[k].kind = "not" THEN scopes'[k - 1].kind \in SelectKinds
                    ELSE \A j \in 1 .. k - 1 : scopes'[j].kind \in ApplyKinds
  BY Zenon DEF Within
<1>1. k \in DOMAIN scopes /\ k - 1 \in 1 .. n /\ \A j \in 1 .. k - 1 : j \in 1 .. n
  OBVIOUS
<1>2. IF scopes[k].kind = "not" THEN scopes[k - 1].kind \in SelectKinds
      ELSE \A j \in 1 .. k - 1 : scopes[j].kind \in ApplyKinds
  BY <1>1 DEF ScopesSorted, Within
<1> QED BY <1>1, <1>2

LEMMA PushSorted ==
  ASSUME IInv, ScopesSorted, ListsSorted, status = "compiling", NEW S, NEW more \in Ops(S),
         Fits(more, Scope.kind),
         scopes' = [scopes EXCEPT ![Len(scopes)].ops = @ \o more], lists' = lists
  PROVE  ScopesSorted' /\ ListsSorted' /\ Scope'.kind = Scope.kind
<1> DEFINE n == Len(scopes)
           f == scopes[n]
           g == scopes'[n]
           X == Handed \cup S
           T == SelectOperation(X) \cup ApplyOperation(X)
<1>1. /\ n \in Nat \ {0} /\ DOMAIN scopes = 1 .. n
      /\ Scope = f
      /\ DOMAIN scopes' = 1 .. n /\ Scope' = g
      /\ \A k \in 1 .. n - 1 : scopes'[k] = scopes[k]
      /\ SameButOps(g, f, f.ops \o more)
  BY TopPushed
<1>2. f.ops \in Seq(T) /\ more \in Seq(T)
  <2>1. f.ops \in Ops(Handed)
    BY <1>1, Shape DEF ScopeFrame
  <2>2. Ops(Handed) \subseteq Ops(X) /\ Ops(S) \subseteq Ops(X)
    BY MoreOps
  <2> QED BY <2>1, <2>2 DEF Ops
<1> HIDE DEF X, T, f, g
<1>3. SortedScope(f)
  BY <1>1 DEF ScopesSorted, f
<1>4. Named(f.ops \o more, NamesOf(f.kind)) /\ Nested(f.ops \o more)
  <2>1. Named(more, NamesOf(f.kind)) /\ Nested(more)
    BY <1>1, FitsNamed
  <2>2. Named(f.ops, NamesOf(f.kind)) /\ Nested(f.ops)
    BY <1>3 DEF SortedScope
  <2> DEFINE p == f.ops
             names == NamesOf(f.kind)
  <2> HIDE DEF p, names
  <2>3. p \in Seq(T) /\ more \in Seq(T) /\ Nested(p) /\ Nested(more)
        /\ Named(p, names) /\ Named(more, names)
    BY <1>2, <2>1, <2>2 DEF p, names
  <2>4. Nested(p \o more)
    BY <2>3, JoinedNested
  <2>5. Named(p \o more, names)
    BY <2>3, JoinedNames DEF Named
  <2> QED BY <2>4, <2>5 DEF p, names
<1>5. SortedScope(g) /\ g.kind = f.kind
  BY <1>1, <1>3, <1>4 DEF SortedScope, SameButOps
<1>6. \A k \in 1 .. n : SortedScope(scopes'[k]) /\ scopes'[k].kind = scopes[k].kind
  <2> SUFFICES ASSUME NEW k \in 1 .. n
               PROVE  SortedScope(scopes'[k]) /\ scopes'[k].kind = scopes[k].kind
    OBVIOUS
  <2>1. CASE k = n
    BY <1>5, <2>1 DEF f, g
  <2>2. CASE k # n
    <3>1. scopes'[k] = scopes[k] /\ k \in DOMAIN scopes
      BY <1>1, <2>2
    <3> QED BY <3>1 DEF ScopesSorted
  <2> QED BY <2>1, <2>2
<1>7. \A k \in 1 .. n : Within(k)'
  BY <1>1, <1>6, SameKinds
<1>8. \A k \in 1 .. n : scopes'[k].kind \in ApplyKinds => lists' # <<>>
  BY <1>1, <1>6 DEF ScopesSorted
<1>9. ScopesSorted'
  BY <1>1, <1>6, <1>7, <1>8 DEF ScopesSorted
<1>10. ListsSorted'
  BY DEF ListsSorted
<1> QED BY <1>1, <1>5, <1>9, <1>10

LEMMA PushSealed ==
  ASSUME IInv, SealedInv, status = "compiling", NEW S, S \cap DeadSlots = {}, NEW more \in Ops(S),
         Fits(more, Scope.kind),
         scopes' = [scopes EXCEPT ![Len(scopes)].ops = @ \o more], lists' = lists,
         Len(env'.slots) \in Nat, Len(env.slots) <= Len(env'.slots)
  PROVE  /\ Separate(Contents') /\ DeadSlots' = DeadSlots /\ Aged'
         /\ \A k \in DOMAIN scopes' :
              k \in DOMAIN scopes /\ scopes'[k].visible = scopes[k].visible
<1> DEFINE n == Len(scopes)
           f == scopes[n]
           g == scopes'[n]
           X == Handed \cup S
           T == SelectOperation(X) \cup ApplyOperation(X)
<1>1. /\ n \in Nat \ {0} /\ DOMAIN scopes = 1 .. n
      /\ DOMAIN scopes' = 1 .. n
      /\ \A k \in 1 .. n - 1 : scopes'[k] = scopes[k]
      /\ SameButOps(g, f, f.ops \o more)
  BY TopPushed
<1>2. f.ops \in Seq(T) /\ more \in Seq(T)
  <2>1. f.ops \in Ops(Handed)
    BY <1>1, Shape DEF ScopeFrame
  <2>2. Ops(Handed) \subseteq Ops(X) /\ Ops(S) \subseteq Ops(X)
    BY MoreOps
  <2> QED BY <2>1, <2>2 DEF Ops
<1> HIDE DEF X, T, f, g
<1> DEFINE A == Contents
           B == Contents'
           t == <<"ops", n>>
<1>3. Separate(B) /\ DeadIn(B) = DeadIn(A)
  <2>1. ContentsKnown /\ ContentsKnown'
    BY ContentsAre, PTL
  <2>2. Places' = Places
    BY <1>1 DEF Places
  <2>10. n \in DOMAIN scopes /\ n \in DOMAIN scopes'
    BY <1>1
  <2>3. DOMAIN B = DOMAIN A /\ DOMAIN A = Places /\ t \in DOMAIN A
    <3>1. DOMAIN A = Places /\ t \in Places
      BY <2>1, <2>10 DEF ContentsKnown
    <3>2. DOMAIN B = Places'
      BY <2>1, Zenon DEF ContentsKnown
    <3> QED BY <2>2, <3>1, <3>2
  <2>4. A[t] = f.ops /\ B[t] = A[t] \o more
    <3>1. A[t] = f.ops
      BY <2>1, <2>10, Zenon DEF ContentsKnown, f
    <3>2. B[t] = g.ops
      BY <2>1, <2>10, Zenon DEF ContentsKnown, g
    <3> QED BY <1>1, <3>1, <3>2 DEF SameButOps
  <2>5. \A a \in DOMAIN A \ {t} : B[a] = A[a]
    <3> SUFFICES ASSUME NEW a \in Places \ {t} PROVE B[a] = A[a]
      BY <2>3
    <3>1. CASE \E k \in DOMAIN scopes : a = <<"ops", k>> /\ A[a] = scopes[k].ops
      <4>1. PICK k \in 1 .. n : a = <<"ops", k>> /\ A[a] = scopes[k].ops
        BY <1>1, <3>1
      <4>2. k # n
        BY <4>1
      <4>3. B[a] = scopes'[k].ops
        BY <1>1, <2>1, <4>1 DEF ContentsKnown
      <4> QED BY <1>1, <4>1, <4>2, <4>3
    <3>2. CASE \E k \in DOMAIN scopes : a = <<"then", k>> /\ A[a] = scopes[k].then
      <4>1. PICK k \in 1 .. n : a = <<"then", k>> /\ A[a] = scopes[k].then
        BY <1>1, <3>2
      <4>2. B[a] = scopes'[k].then
        BY <1>1, <2>1, <4>1 DEF ContentsKnown
      <4>3. scopes'[k].then = scopes[k].then
        BY <1>1 DEF SameButOps, f, g
      <4> QED BY <4>1, <4>2, <4>3
    <3>3. CASE \E m \in DOMAIN lists : a = <<"list", m>> /\ A[a] = lists[m]
      BY <2>1, <3>3 DEF ContentsKnown
    <3> QED BY <2>1, <3>1, <3>2, <3>3 DEF ContentsKnown
  <2>6. Nested(A[t]) /\ Negations(more) = {}
    BY <2>3, ContentsNested, FitsNamed DEF SealedInv
  <2>7. DeadIn(A) \cap Used(more) = {}
    BY UsedTyped DEF DeadSlots
  <2>8. Separate(A)
    BY DEF SealedInv
  <2>9. A[t] \in Seq(T) /\ more \in Seq(T)
    BY <1>2, <2>4
  <2> HIDE DEF A, B, t
  <2> QED BY ONLY <2>3, <2>4, <2>5, <2>6, <2>7, <2>8, <2>9, Grown
<1>4. DeadSlots' = DeadSlots
  BY <1>3 DEF DeadSlots
<1>5. \A k \in 1 .. n :
        /\ scopes'[k].kind = scopes[k].kind /\ scopes'[k].visible = scopes[k].visible
        /\ scopes'[k].mark = scopes[k].mark /\ scopes'[k].then = scopes[k].then
  BY <1>1 DEF SameButOps, f, g
<1>6. Aged'
  <2> SUFFICES ASSUME NEW k \in 1 .. n
               PROVE  /\ scopes'[k].mark <= Len(env'.slots)
                      /\ \A x \in Names : scopes'[k].visible[x] < scopes'[k].mark
                      /\ Old(scopes'[k].then, scopes'[k].mark)
                      /\ \A j \in 1 .. k - 1 :
                           /\ scopes'[j].mark <= scopes'[k].mark
                           /\ Old(scopes'[j].ops, scopes'[k].mark)
                      /\ scopes'[k].kind = "not"
                           => \A m \in DOMAIN lists' : Old(lists'[m], scopes'[k].mark)
    BY <1>1, Zenon DEF Aged
  <2>1. /\ scopes[k].mark <= Len(env.slots)
        /\ \A x \in Names : scopes[k].visible[x] < scopes[k].mark
        /\ Old(scopes[k].then, scopes[k].mark)
        /\ \A j \in 1 .. k - 1 :
             scopes[j].mark <= scopes[k].mark /\ Old(scopes[j].ops, scopes[k].mark)
        /\ scopes[k].kind = "not" => \A m \in DOMAIN lists : Old(lists[m], scopes[k].mark)
    BY <1>1, Zenon DEF SealedInv, Aged
  <2>2. scopes[k].mark \in Nat /\ Len(env.slots) \in Nat
    <3>1. scopes[k] \in ScopeFrame(Handed)
      BY <1>1, Shape, ElementOfSeq
    <3> QED BY <3>1, Shape, LenProperties DEF ScopeFrame, Good, Environment
  <2>3. \A j \in 1 .. k - 1 : j \in 1 .. n - 1 /\ j \in 1 .. n
    BY <1>1
  <2>4. \A j \in 1 .. k - 1 :
          scopes'[j].mark <= scopes'[k].mark /\ Old(scopes'[j].ops, scopes'[k].mark)
    BY <1>1, <1>5, <2>1, <2>3
  <2> QED BY <1>5, <2>1, <2>2, <2>4
<1> QED BY <1>1, <1>3, <1>4, <1>5, <1>6

-----------------------------------------------------------------------------
(* One construct.                                                          *)

\* What is open gets items, and more is opened.
LEMMA ValuesAfter ==
  ASSUME NEW S, NEW s \in Seq(ValueFrame(S)), NEW items \in Seq(ItemOf(S)),
         items = <<>> \/ s # <<>>, NEW opened \in Seq(ValueFrame(S)), NEW t,
         t = (IF items = <<>> THEN s ELSE [s EXCEPT ![Len(s)].items = @ \o items]) \o opened
  PROVE  /\ t \in Seq(ValueFrame(S))
         /\ \A i \in DOMAIN t :
              \/ i \in DOMAIN s /\ t[i].kind = s[i].kind /\ t[i].after = s[i].after
              \/ \E j \in DOMAIN opened : t[i] = opened[j]
<1> DEFINE r == IF items = <<>> THEN s ELSE [s EXCEPT ![Len(s)].items = @ \o items]
<1>1. Len(s) \in Nat /\ DOMAIN s = 1 .. Len(s) /\ \A i \in 1 .. Len(s) : s[i] \in ValueFrame(S)
  BY LenProperties, ElementOfSeq
<1>2. /\ r \in Seq(ValueFrame(S)) /\ Len(r) = Len(s)
      /\ \A i \in 1 .. Len(s) : r[i].kind = s[i].kind /\ r[i].after = s[i].after
  <2>1. CASE items = <<>>
    BY <2>1
  <2>2. CASE items # <<>>
    <3> DEFINE g == s[Len(s)]
               f == [g EXCEPT !.items = g.items \o items]
    <3>0. Len(s) # 0
      BY <2>2, EmptySeq
    <3>1. Len(s) \in 1 .. Len(s) /\ g \in ValueFrame(S)
      <4>1. Len(s) \in 1 .. Len(s)
        BY ONLY <1>1, <3>0
      <4> QED BY ONLY <1>1, <4>1
    <3>2. r = [s EXCEPT ![Len(s)] = f]
      BY <2>2, Zenon
    <3>3. f.kind = g.kind /\ f.after = g.after
      BY <3>1 DEF ValueFrame
    <3>4. r \in Seq(ValueFrame(S))
      BY <2>2, Added
    <3> DEFINE U == ValueFrame(S) \cup {f}
    <3>5. s \in Seq(U) /\ f \in U
      BY MoreSequences
    <3> HIDE DEF f, U, r
    <3>6. Len(r) = Len(s) /\ \A j \in 1 .. Len(s) : r[j] = IF j = Len(s) THEN f ELSE s[j]
      BY <3>1, <3>2, <3>5, ExceptSeq
    <3> QED BY <3>3, <3>4, <3>6
  <2> QED BY <2>1, <2>2
<1>3. t = r \o opened
  OBVIOUS
<1> HIDE DEF r
<1>4. /\ t \in Seq(ValueFrame(S)) /\ Len(t) = Len(r) + Len(opened)
      /\ \A i \in 1 .. Len(r) : t[i] = r[i]
      /\ \A i \in 1 .. Len(opened) : t[Len(r) + i] = opened[i]
  <2>1. r \in Seq(ValueFrame(S)) /\ opened \in Seq(ValueFrame(S))
    BY <1>2
  <2> QED BY ONLY <1>3, <2>1, ConcatProperties
<1>5. DOMAIN t = 1 .. Len(s) + Len(opened) /\ DOMAIN opened = 1 .. Len(opened) /\ Len(opened) \in Nat
  BY <1>2, <1>4, LenProperties
<1> SUFFICES ASSUME NEW i \in DOMAIN t
             PROVE  \/ i \in DOMAIN s /\ t[i].kind = s[i].kind /\ t[i].after = s[i].after
                    \/ \E j \in DOMAIN opened : t[i] = opened[j]
  BY <1>4
<1>6. CASE i \in 1 .. Len(s)
  BY <1>1, <1>2, <1>4, <1>6
<1>7. CASE i \notin 1 .. Len(s)
  <2>0. i \in 1 .. Len(s) + Len(opened) /\ Len(r) = Len(s)
    BY <1>2, <1>5
  <2>1. i - Len(s) \in 1 .. Len(opened) /\ Len(r) + (i - Len(s)) = i
    BY ONLY <1>1, <1>5, <1>7, <2>0
  <2>2. t[i] = opened[i - Len(s)]
    BY <1>4, <2>1
  <2> QED BY <1>5, <2>1, <2>2
<1> QED BY <1>6, <1>7

\* What a construct may do where compilation is, with slots in S.
Allowed(S, more, items, opened) ==
  /\ more \in Ops(S) /\ Fits(more, Scope.kind)
  /\ items \in Seq(ItemOf(S)) /\ (items = <<>> \/ values # <<>>)
  /\ opened \in Seq(ValueFrame(S))
  /\ \A i \in DOMAIN opened : SortedValue(opened[i], Scope.kind)

LEMMA StopSorted ==
  ASSUME NEW why, why # "accepted", Stop(why)
  PROVE  Sorted'
<1>1. scopes' = <<>> /\ values' = <<>> /\ lists' = <<>> /\ status' = why
  BY DEF Stop
<1>2. DOMAIN <<>> = {}
  OBVIOUS
<1>3. DOMAIN scopes' = {} /\ DOMAIN values' = {} /\ DOMAIN lists' = {}
  BY <1>1, <1>2
<1> QED BY <1>1, <1>3 DEF Sorted, ScopesSorted, ListsSorted, ValuesSorted

LEMMA StepSorted ==
  ASSUME IInv, Sorted, status = "compiling", NEW S, NEW e, NEW more, NEW items, NEW opened,
         Allowed(S, more, items, opened), Step(e, more, items, opened)
  PROVE  Sorted'
<1>1. CASE Len(e.slots) > MaxSlots
  BY <1>1, StopSorted DEF Step
<1>2. CASE ~(Len(e.slots) > MaxSlots)
  <2>1. /\ scopes' = [scopes EXCEPT ![Len(scopes)].ops = @ \o more]
        /\ values' = (IF items = <<>> THEN values
                      ELSE [values EXCEPT ![Len(values)].items = @ \o items]) \o opened
        /\ lists' = lists /\ status' = status
    BY <1>2, Zenon DEF Step
  <2>2. ScopesSorted' /\ ListsSorted' /\ Scope'.kind = Scope.kind
    BY <2>1, PushSorted DEF Allowed, Sorted
  <2>3. \A i \in DOMAIN values' : SortedValue(values'[i], Scope.kind)
    <3> DEFINE X == Handed \cup S
               s == values
               t == values'
    <3>1. s \in Seq(ValueFrame(X)) /\ items \in Seq(ItemOf(X)) /\ opened \in Seq(ValueFrame(X))
      <4>1. Handed \subseteq X /\ S \subseteq X
        OBVIOUS
      <4> HIDE DEF X
      <4>2. Seq(ValueFrame(Handed)) \subseteq Seq(ValueFrame(X))
        BY <4>1, MoreFrames
      <4>3. Seq(ValueFrame(S)) \subseteq Seq(ValueFrame(X))
        BY <4>1, MoreFrames
      <4>4. Seq(ItemOf(S)) \subseteq Seq(ItemOf(X))
        BY <4>1, MoreItems, MoreSequences
      <4> QED BY <4>2, <4>3, <4>4, Shape DEF Allowed
    <3>2. items = <<>> \/ s # <<>>
      BY DEF Allowed
    <3>3. t = (IF items = <<>> THEN s ELSE [s EXCEPT ![Len(s)].items = @ \o items]) \o opened
      BY <2>1, Zenon
    <3> HIDE DEF X, s, t
    <3>4. \A i \in DOMAIN t :
            \/ i \in DOMAIN s /\ t[i].kind = s[i].kind /\ t[i].after = s[i].after
            \/ \E j \in DOMAIN opened : t[i] = opened[j]
      BY ONLY <3>1, <3>2, <3>3, ValuesAfter
    <3>5. \A i \in DOMAIN s : SortedValue(s[i], Scope.kind)
      BY DEF Sorted, ValuesSorted, s
    <3>6. \A j \in DOMAIN opened : SortedValue(opened[j], Scope.kind)
      BY DEF Allowed
    <3>7. \A i \in DOMAIN t : SortedValue(t[i], Scope.kind)
      BY <3>4, <3>5, <3>6 DEF SortedValue
    <3> QED BY <3>7 DEF t
  <2> QED BY <2>1, <2>2, <2>3 DEF Sorted, ValuesSorted
<1> QED BY <1>1, <1>2

LEMMA StopSealed ==
  ASSUME NEW why, why # "accepted", Stop(why)
  PROVE  SealedInv'
<1>1. /\ scopes' = <<>> /\ values' = <<>> /\ lists' = <<>>
      /\ env' = [slots |-> <<>>, instances |-> [n \in Names |-> 0],
                 visible |-> [n \in Names |-> NoSlot]]
  BY DEF Stop
<1>2. DOMAIN <<>> = {}
  OBVIOUS
<1>3. DOMAIN scopes' = {} /\ DOMAIN lists' = {}
  BY <1>1, <1>2
<1>4. DOMAIN Contents' = {}
  BY <1>3 DEF Contents, Places
<1>5. Separate(Contents')
  BY <1>4 DEF Separate
<1>6. Unseen'
  <2>1. env'.visible = [n \in Names |-> NoSlot]
    BY <1>1
  <2>2. values' \in Seq(ValueFrame(LiveIn(env)'))
    BY <1>1, EmptySeq
  <2> QED BY <1>3, <2>1, <2>2 DEF Unseen
<1>7. Aged'
  BY <1>3 DEF Aged
<1> QED BY <1>5, <1>6, <1>7, StopSorted DEF SealedInv

\* An environment of which no name stands for a dead slot.
Live(e) ==
  /\ Good(e) /\ Len(env.slots) <= Len(e.slots)
  /\ e.visible \in [Names -> LiveIn(e) \cup {NoSlot}]

LEMMA LiveHere ==
  ASSUME IInv, SealedInv, status = "compiling"
  PROVE  Live(env) /\ Len(env.slots) \in Nat
<1>1. Good(env) /\ Len(env.slots) \in Nat
  BY Shape, LenProperties DEF Good, Environment
<1> QED BY <1>1 DEF Live, SealedInv, Unseen

LEMMA LiveMore ==
  ASSUME IInv, SealedInv, status = "compiling", NEW e, Live(e)
  PROVE  LiveIn(env) \subseteq LiveIn(e) /\ LiveIn(e) \cap DeadSlots = {}
<1>1. Len(env.slots) \in Nat /\ Len(e.slots) \in Nat
  BY LiveHere, LenProperties DEF Live, Good, Environment
<1> QED BY <1>1 DEF Live, LiveIn, SlotsIn

\* A variable that is bound has a slot that is not dead.
LEMMA BoundLive ==
  ASSUME IInv, SealedInv, status = "compiling", NEW e, Live(e), NEW v \in Variables
  PROVE  /\ Live(Bound(e, v))
         /\ LiveIn(e) \subseteq LiveIn(Bound(e, v))
         /\ SlotOf(e, v) \in LiveIn(Bound(e, v))
<1> DEFINE f == Bound(e, v)
<1>1. /\ Good(e) /\ Good(f)
      /\ Len(e.slots) \in Nat /\ Len(f.slots) \in Nat /\ Len(env.slots) \in Nat
      /\ Len(e.slots) <= Len(f.slots) /\ Len(env.slots) <= Len(e.slots)
      /\ SlotsIn(e) \subseteq SlotsIn(f)
      /\ SlotOf(e, v) \in SlotsIn(f)
  BY BoundGood, LiveHere DEF Live
<1>2. LiveIn(e) \subseteq LiveIn(f)
  BY <1>1 DEF LiveIn
<1>3. Len(e.slots) \notin DeadSlots
  BY <1>1, DeadHanded DEF SealedInv, Handed
<1>4. e.visible \in [Names -> LiveIn(e) \cup {NoSlot}]
  BY DEF Live
<1>5. CASE ~Known(e, v)
  <2>1. f = Extended(e, v) /\ SlotOf(e, v) = Len(e.slots)
    BY <1>5 DEF Bound, SlotOf
  <2>2. Len(e.slots) \in LiveIn(f)
    BY <1>1, <1>3, <2>1 DEF LiveIn
  <2>3. f.visible = [n \in Names |-> IF n = v THEN Len(e.slots) ELSE e.visible[n]]
    BY <2>1 DEF Extended
  <2> HIDE DEF f
  <2>4. f.visible \in [Names -> LiveIn(f) \cup {NoSlot}]
    BY <1>2, <1>4, <2>2, <2>3
  <2> QED BY <1>1, <1>2, <2>1, <2>2, <2>4 DEF Live, f
<1>6. CASE Known(e, v)
  <2>1. SlotOf(e, v) = e.visible[v] /\ v \in Names /\ e.visible[v] # NoSlot
    BY <1>6 DEF SlotOf, Known, Variables
  <2>2. SlotOf(e, v) \in LiveIn(f)
    BY <1>2, <1>4, <2>1
  <2>3. f.visible = e.visible
    BY <1>1, <1>6 DEF Bound, Good, Environment
  <2>4. f.visible \in [Names -> LiveIn(f) \cup {NoSlot}]
    BY <1>2, <1>4, <2>3
  <2> QED BY <1>1, <1>2, <2>2, <2>4 DEF Live
<1> QED BY <1>5, <1>6

LEMMA StepSealed ==
  ASSUME IInv, SealedInv, status = "compiling", NEW e, Live(e),
         NEW more, NEW items, NEW opened,
         Allowed(LiveIn(e), more, items, opened), Step(e, more, items, opened)
  PROVE  SealedInv'
<1>1. CASE Len(e.slots) > MaxSlots
  BY <1>1, StopSealed DEF Step
<1>2. CASE ~(Len(e.slots) > MaxSlots)
  <2>1. /\ env' = e
        /\ scopes' = [scopes EXCEPT ![Len(scopes)].ops = @ \o more]
        /\ values' = (IF items = <<>> THEN values
                      ELSE [values EXCEPT ![Len(values)].items = @ \o items]) \o opened
        /\ lists' = lists
    BY <1>2, Zenon DEF Step
  <2>2. Sorted'
    BY StepSorted DEF SealedInv
  <2>3. LiveIn(env) \subseteq LiveIn(e) /\ LiveIn(e) \cap DeadSlots = {}
    BY LiveMore
  <2>4. Len(env'.slots) \in Nat /\ Len(env.slots) <= Len(env'.slots)
    BY <2>1, LenProperties DEF Live, Good, Environment
  <2> DEFINE S == LiveIn(e)
  <2>5. S \cap DeadSlots = {} /\ more \in Ops(S) /\ Fits(more, Scope.kind)
    BY <2>3 DEF Allowed
  <2> HIDE DEF S
  <2>6. /\ Separate(Contents') /\ DeadSlots' = DeadSlots /\ Aged'
        /\ \A k \in DOMAIN scopes' :
             k \in DOMAIN scopes /\ scopes'[k].visible = scopes[k].visible
    BY <2>1, <2>4, <2>5, PushSealed
  <2>7. LiveIn(env)' = S
    BY <2>1, <2>6 DEF LiveIn, SlotsIn, S
  <2>8. Unseen'
    <3>1. env'.visible \in [Names -> S \cup {NoSlot}]
      BY <2>1 DEF Live, S
    <3>2. \A k \in DOMAIN scopes' : scopes'[k].visible \in [Names -> S \cup {NoSlot}]
      <4> SUFFICES ASSUME NEW k \in DOMAIN scopes'
                   PROVE  scopes'[k].visible \in [Names -> S \cup {NoSlot}]
        OBVIOUS
      <4>1. scopes'[k].visible \in [Names -> LiveIn(env) \cup {NoSlot}]
        BY <2>6 DEF SealedInv, Unseen
      <4> QED BY <2>3, <4>1 DEF S
    <3>3. values' \in Seq(ValueFrame(S))
      <4> DEFINE s == values
                 t == values'
      <4>1. s \in Seq(ValueFrame(S))
        <5>1. Seq(ValueFrame(LiveIn(env))) \subseteq Seq(ValueFrame(S))
          BY <2>3, MoreFrames DEF S
        <5> QED BY <5>1 DEF SealedInv, Unseen
      <4>2. items \in Seq(ItemOf(S)) /\ (items = <<>> \/ s # <<>>) /\ opened \in Seq(ValueFrame(S))
        BY DEF Allowed, S
      <4>3. t = (IF items = <<>> THEN s ELSE [s EXCEPT ![Len(s)].items = @ \o items]) \o opened
        BY <2>1, Zenon
      <4> HIDE DEF s, t
      <4>4. t \in Seq(ValueFrame(S))
        BY ONLY <4>1, <4>2, <4>3, ValuesAfter
      <4> QED BY <4>4 DEF t
    <3> QED BY <2>7, <3>1, <3>2, <3>3 DEF Unseen
  <2> QED BY <2>2, <2>6, <2>8 DEF SealedInv
<1> QED BY <1>1, <1>2

-----------------------------------------------------------------------------
(* What is open is closed.                                                 *)

LEMMA MadeFits ==
  ASSUME NEW S, Inner \in ValueFrame(S), Inner.kind = "comparison" => Len(Inner.items) = 2,
         SortedValue(Inner, Scope.kind)
  PROVE  Made \o Inner.after \in Ops(S) /\ Fits(Made \o Inner.after, Scope.kind)
<1> DEFINE names == NamesOf(Scope.kind) \ {"Not"}
           p == Made
           q == Inner.after
           T == SelectOperation(S) \cup ApplyOperation(S)
<1>1. p \in Ops(S) /\ q \in Ops(S) /\ p \o q \in Ops(S)
  BY MadeOps
<1>2. Named(p, names)
  <2>1. CASE Inner.kind \in SelectValues
    <3>1. names = SelectNames \ {"Not"}
      BY <2>1 DEF SortedValue, NamesOf
    <3> QED BY <2>1, <3>1 DEF SelectValues, SelectNames, Named, Made, TupleOp, EnumOp, CalculationOp,
                              CompareOp
  <2>2. CASE Inner.kind \notin SelectValues
    <3>1. names = ApplyNames
      BY <2>2 DEF SortedValue, NamesOf, ApplyKinds, SelectKinds, ApplyNames
    <3>2. Inner.kind \in {"object", "new", "removed"}
      BY <2>2 DEF ValueFrame, SelectValues
    <3> QED BY <3>1, <3>2 DEF ApplyNames, Named, Made, CreateTuple
  <2> QED BY <2>1, <2>2
<1>3. Named(q, names)
  <2>1. CASE Inner.kind \in SelectValues
    <3>1. q = <<>>
      BY <2>1 DEF SortedValue
    <3> QED BY <3>1 DEF Named
  <2>2. CASE Inner.kind \notin SelectValues
    <3>1. names = ApplyNames
      BY <2>2 DEF SortedValue, NamesOf, ApplyKinds, SelectKinds, ApplyNames
    <3> QED BY <3>1 DEF SortedValue
  <2> QED BY <2>1, <2>2
<1> HIDE DEF p, q, names
<1>4. p \in Seq(T) /\ q \in Seq(T)
  BY <1>1 DEF Ops
<1> HIDE DEF T
<1>5. Named(p \o q, names)
  BY <1>2, <1>3, <1>4, JoinedNames DEF Named
<1> QED BY <1>1, <1>5 DEF Fits, p, q, names

LEMMA FewerValues ==
  ASSUME IInv, ValuesSorted, status = "compiling", values # <<>>, values' = Front(values),
         Scope'.kind = Scope.kind
  PROVE  SortedValue(Inner, Scope.kind) /\ ValuesSorted'
<1>1. values \in Seq(ValueFrame(Handed))
  BY Shape
<1>2. /\ Front(values) \in Seq(ValueFrame(Handed)) /\ Len(Front(values)) = Len(values) - 1
      /\ Len(values) \in Nat \ {0}
      /\ \A i \in 1 .. Len(values) - 1 : Front(values)[i] = values[i]
  BY <1>1, FrontOf
<1>3. DOMAIN values = 1 .. Len(values) /\ DOMAIN values' = 1 .. Len(values) - 1
  BY <1>1, <1>2, LenProperties
<1>4. Len(values) \in DOMAIN values
  BY <1>2, <1>3
<1>5. SortedValue(Inner, Scope.kind)
  BY <1>4 DEF ValuesSorted, Inner, Last
<1>6. \A i \in 1 .. Len(values) - 1 : i \in 1 .. Len(values)
  BY <1>2
<1>7. ValuesSorted'
  BY <1>2, <1>3, <1>6 DEF ValuesSorted
<1> QED BY <1>5, <1>7

LEMMA CloseInnerSorted ==
  ASSUME IInv, Sorted, status = "compiling", values # <<>>,
         Inner.kind = "comparison" => Len(Inner.items) = 2,
         CloseInner
  PROVE  Sorted'
<1>1. /\ scopes' = [scopes EXCEPT ![Len(scopes)].ops = @ \o (Made \o Inner.after)]
      /\ values' = Front(values)
      /\ lists' = lists /\ status' = status
  BY DEF CloseInner
<1>2. SortedValue(Inner, Scope.kind)
  <2>1. Len(values) \in DOMAIN values
    BY Shape, LenProperties
  <2> QED BY <2>1 DEF Sorted, ValuesSorted, Inner, Last
<1> DEFINE more == Made \o Inner.after
<1>3. more \in Ops(Handed) /\ Fits(more, Scope.kind)
  BY <1>2, Shape, MadeFits
<1>4. scopes' = [scopes EXCEPT ![Len(scopes)].ops = @ \o more]
  BY <1>1
<1> HIDE DEF more
<1>5. ScopesSorted' /\ ListsSorted' /\ Scope'.kind = Scope.kind
  BY <1>1, <1>3, <1>4, PushSorted DEF Sorted
<1>6. ValuesSorted'
  BY <1>1, <1>5, FewerValues DEF Sorted
<1> QED BY <1>1, <1>5, <1>6 DEF Sorted

LEMMA CloseInnerSealed ==
  ASSUME IInv, SealedInv, status = "compiling", values # <<>>,
         Inner.kind = "comparison" => Len(Inner.items) = 2,
         CloseInner
  PROVE  SealedInv'
<1>1. /\ scopes' = [scopes EXCEPT ![Len(scopes)].ops = @ \o (Made \o Inner.after)]
      /\ values' = Front(values)
      /\ env' = env /\ lists' = lists
  BY DEF CloseInner
<1> DEFINE S == LiveIn(env)
           more == Made \o Inner.after
<1>2. Len(values) \in DOMAIN values /\ DOMAIN values = 1 .. Len(values)
  BY Shape, LenProperties
<1>3. values \in Seq(ValueFrame(S)) /\ S \cap DeadSlots = {}
  BY LiveHanded DEF SealedInv, Unseen
<1>4. Inner \in ValueFrame(S) /\ SortedValue(Inner, Scope.kind)
  BY <1>2, <1>3, ElementOfSeq DEF SealedInv, Sorted, ValuesSorted, Inner, Last
<1> HIDE DEF S
<1>5. more \in Ops(S) /\ Fits(more, Scope.kind)
  BY <1>4, MadeFits
<1>6. scopes' = [scopes EXCEPT ![Len(scopes)].ops = @ \o more]
  BY <1>1
<1> HIDE DEF more
<1>7. Len(env'.slots) \in Nat /\ Len(env.slots) <= Len(env'.slots)
  BY <1>1, LiveHere
<1>8. /\ Separate(Contents') /\ DeadSlots' = DeadSlots /\ Aged'
      /\ \A k \in DOMAIN scopes' :
           k \in DOMAIN scopes /\ scopes'[k].visible = scopes[k].visible
  BY <1>1, <1>3, <1>5, <1>6, <1>7, PushSealed
<1>9. LiveIn(env)' = S
  BY <1>1, <1>8 DEF LiveIn, S
<1>10. values' \in Seq(ValueFrame(S))
  BY <1>1, <1>3, FrontOf
<1>11. Unseen'
  BY <1>1, <1>8, <1>9, <1>10 DEF SealedInv, Unseen, S
<1> QED BY <1>8, <1>11, CloseInnerSorted DEF SealedInv

-----------------------------------------------------------------------------
(* A list begins.                                                          *)

LEMMA Begun ==
  ASSUME NEW kind, NEW e, NEW then, Named(then, ApplyNames)
  PROVE  LET f == NewScope(kind, e, then)
         IN  /\ f.kind = kind /\ f.visible = e.visible /\ f.mark = Len(e.slots)
             /\ f.ops = <<>> /\ f.then = then
             /\ SortedScope(f)
<1> DEFINE f == NewScope(kind, e, then)
<1>1. /\ f.kind = kind /\ f.visible = e.visible /\ f.mark = Len(e.slots)
      /\ f.ops = <<>> /\ f.then = then
  BY DEF NewScope
<1>2. Named(<<>>, NamesOf(kind)) /\ Nested(<<>>)
  BY NothingUsed DEF Named
<1> QED BY <1>1, <1>2 DEF SortedScope

\* Around what is no negation there are only apply lists.
LEMMA ApplyAround ==
  ASSUME IInv, ScopesSorted, status = "compiling", Scope.kind # "not"
  PROVE  \A j \in 1 .. Len(scopes) - 1 : scopes[j].kind \in ApplyKinds
<1>1. Len(scopes) \in Nat \ {0} /\ DOMAIN scopes = 1 .. Len(scopes) /\ Scope = scopes[Len(scopes)]
  BY Shape, LenProperties
<1>2. Within(Len(scopes))
  BY <1>1 DEF ScopesSorted
<1> QED BY <1>1, <1>2 DEF Within

LEMMA OpenScopeSorted ==
  ASSUME IInv, Sorted, status = "compiling", NEW kind \in {"not", "condition"},
         kind = "not" => InSelect, kind = "condition" => InApply, OpenScope(kind, <<>>)
  PROVE  Sorted'
<1> DEFINE n == Len(scopes)
           f == NewScope(kind, env, <<>>)
<1>1. /\ scopes' = Append(scopes, f) /\ values' = values /\ lists' = lists /\ status' = status
  BY DEF OpenScope
<1>2. f.kind = kind /\ SortedScope(f)
  <2>1. Named(<<>>, ApplyNames)
    BY DEF Named
  <2> QED BY <2>1, Begun
<1> HIDE DEF f
<1>3. /\ n \in Nat \ {0} /\ DOMAIN scopes = 1 .. n /\ Scope = scopes[n]
      /\ DOMAIN scopes' = 1 .. n + 1 /\ Scope' = f
      /\ \A k \in 1 .. n : scopes'[k] = scopes[k]
      /\ scopes'[n + 1] = f
  BY <1>1, TopOpened
<1>4. values' = <<>>
  BY <1>1 DEF InSelect, InApply
<1>5. \A k \in 1 .. n : Within(k)'
  BY <1>3, SameKinds DEF Sorted
<1>6. ASSUME NEW k \in 1 .. n + 1, k = n + 1 PROVE Within(k)'
  <2> SUFFICES IF scopes'[k].kind = "not" THEN scopes'[k - 1].kind \in SelectKinds
               ELSE \A j \in 1 .. k - 1 : scopes'[j].kind \in ApplyKinds
    BY Zenon DEF Within
  <2>1. k = n + 1 /\ k - 1 = n /\ n \in 1 .. n
    BY <1>3, <1>6
  <2>2. CASE kind = "not"
    <3>1. scopes[n].kind \in SelectKinds
      BY <1>3, <2>2 DEF InSelect, SelectKinds
    <3> QED BY <1>2, <1>3, <2>1, <2>2, <3>1
  <2>3. CASE kind = "condition"
    <3>1. scopes[n].kind \in ApplyKinds /\ Scope.kind # "not"
      BY <1>3, <2>3 DEF InApply, ApplyKinds
    <3>2. \A j \in 1 .. n - 1 : scopes[j].kind \in ApplyKinds
      BY <3>1, ApplyAround DEF Sorted
    <3>3. \A j \in 1 .. n : scopes[j].kind \in ApplyKinds
      BY <1>3, <3>1, <3>2
    <3> QED BY <1>2, <1>3, <2>1, <2>3, <3>3
  <2> QED BY <2>2, <2>3
<1>7. \A k \in 1 .. n + 1 :
        SortedScope(scopes'[k]) /\ (scopes'[k].kind \in ApplyKinds => lists' # <<>>)
  <2> SUFFICES ASSUME NEW k \in 1 .. n + 1
               PROVE  SortedScope(scopes'[k]) /\ (scopes'[k].kind \in ApplyKinds => lists' # <<>>)
    OBVIOUS
  <2>1. CASE k = n + 1
    BY <1>2, <1>3, <2>1 DEF ApplyKinds
  <2>2. CASE k # n + 1
    <3>1. k \in DOMAIN scopes /\ scopes'[k] = scopes[k]
      BY <1>3, <2>2
    <3> QED BY <1>1, <3>1 DEF Sorted, ScopesSorted
  <2> QED BY <2>1, <2>2
<1>8. \A k \in 1 .. n + 1 : Within(k)'
  <2> SUFFICES ASSUME NEW k \in 1 .. n + 1 PROVE Within(k)'
    OBVIOUS
  <2>1. k = n + 1 \/ k \in 1 .. n
    BY <1>3
  <2>2. CASE k \in 1 .. n
    BY <1>5, <2>2
  <2>3. CASE k = n + 1
    BY <1>6, <2>3
  <2> QED BY <2>1, <2>2, <2>3
<1>9. ScopesSorted'
  BY <1>3, <1>7, <1>8 DEF ScopesSorted
<1>10. ListsSorted' /\ ValuesSorted'
  BY <1>1, <1>4 DEF Sorted, ListsSorted, ValuesSorted
<1> QED BY <1>1, <1>9, <1>10 DEF Sorted

\* All there is is older than what comes.
LEMMA OldNow ==
  ASSUME IInv, Aged, status = "compiling"
  PROVE  /\ Len(env.slots) \in Nat
         /\ \A k \in DOMAIN scopes :
              /\ scopes[k].mark \in Nat /\ scopes[k].mark <= Len(env.slots)
              /\ Old(scopes[k].ops, Len(env.slots)) /\ Old(scopes[k].then, Len(env.slots))
              /\ \A x \in Names : scopes[k].visible[x] \in Int
         /\ \A m \in DOMAIN lists : Old(lists[m], Len(env.slots))
         /\ \A x \in Names :
              env.visible[x] < Len(env.slots) /\ Scope.visible[x] < Len(env.slots)
<1>1. Len(env.slots) \in Nat /\ env.visible \in [Names -> Handed \cup {NoSlot}]
  BY Shape, LenProperties DEF Good, Environment
<1>2. \A p \in Ops(Handed) : Old(p, Len(env.slots))
  BY <1>1, UsedTyped DEF Old, Handed
<1>3. \A k \in DOMAIN scopes : scopes[k] \in ScopeFrame(Handed)
  BY Shape, ElementOfSeq, LenProperties
<1>4. \A m \in DOMAIN lists : lists[m] \in Ops(Handed)
  BY Shape, ElementOfSeq, LenProperties
<1>5. \A k \in DOMAIN scopes :
        /\ scopes[k].mark \in Nat
        /\ scopes[k].ops \in Ops(Handed) /\ scopes[k].then \in Ops(Handed)
        /\ scopes[k].visible \in [Names -> Handed \cup {NoSlot}]
  BY <1>3 DEF ScopeFrame
<1>6. Scope.visible \in [Names -> Handed \cup {NoSlot}]
  BY Shape DEF ScopeFrame
<1>7. \A visible \in [Names -> Handed \cup {NoSlot}] :
        \A x \in Names : visible[x] \in Int /\ visible[x] < Len(env.slots)
  BY <1>1 DEF Handed, NoSlot
<1>8. \A k \in DOMAIN scopes :
        /\ scopes[k].mark \in Nat /\ scopes[k].mark <= Len(env.slots)
        /\ Old(scopes[k].ops, Len(env.slots)) /\ Old(scopes[k].then, Len(env.slots))
        /\ \A x \in Names : scopes[k].visible[x] \in Int
  BY <1>2, <1>5, <1>7 DEF Aged
<1> QED BY <1>1, <1>2, <1>4, <1>6, <1>7, <1>8

LEMMA OpenScopeSealed ==
  ASSUME IInv, SealedInv, status = "compiling", NEW kind \in {"not", "condition"},
         kind = "not" => InSelect, kind = "condition" => InApply, OpenScope(kind, <<>>)
  PROVE  SealedInv'
<1> DEFINE n == Len(scopes)
           f == NewScope(kind, env, <<>>)
           A == Contents
           B == Contents'
           from == [b \in DOMAIN B |-> b]
<1>1. /\ scopes' = Append(scopes, f) /\ values' = values /\ lists' = lists /\ env' = env
  BY DEF OpenScope
<1>2. f.kind = kind /\ f.visible = env.visible /\ f.mark = Len(env.slots) /\ f.ops = <<>>
      /\ f.then = <<>>
  BY DEF NewScope
<1> HIDE DEF f
<1>3. /\ n \in Nat \ {0} /\ DOMAIN scopes = 1 .. n /\ Scope = scopes[n]
      /\ DOMAIN scopes' = 1 .. n + 1
      /\ \A k \in 1 .. n : scopes'[k] = scopes[k]
      /\ scopes'[n + 1] = f
  BY <1>1, TopOpened
<1>4. \A k \in 1 .. n + 1 :
        \/ k \in DOMAIN scopes /\ scopes'[k] = scopes[k]
        \/ k = n + 1 /\ scopes'[k] = f
  BY <1>3
<1>5. ContentsKnown /\ ContentsKnown'
  BY ContentsAre, PTL
<1>6. \A b \in DOMAIN B : B[b] # <<>> => b \in DOMAIN A /\ B[b] = A[b]
  <2> SUFFICES ASSUME NEW b \in Places', B[b] # <<>> PROVE b \in Places /\ B[b] = A[b]
    BY <1>5 DEF ContentsKnown
  <2>1. CASE \E k \in DOMAIN scopes' : b = <<"ops", k>> /\ B[b] = scopes'[k].ops
    <3>1. PICK k \in DOMAIN scopes : b = <<"ops", k>> /\ B[b] = scopes[k].ops
      BY <1>2, <1>3, <1>4, <2>1
    <3> QED BY <1>5, <3>1 DEF ContentsKnown
  <2>2. CASE \E k \in DOMAIN scopes' : b = <<"then", k>> /\ B[b] = scopes'[k].then
    <3>1. PICK k \in DOMAIN scopes : b = <<"then", k>> /\ B[b] = scopes[k].then
      BY <1>2, <1>3, <1>4, <2>2
    <3> QED BY <1>5, <3>1 DEF ContentsKnown
  <2>3. CASE \E m \in DOMAIN lists' : b = <<"list", m>> /\ B[b] = lists'[m]
    BY <1>1, <1>5, <2>3 DEF ContentsKnown
  <2> QED BY <1>5, <2>1, <2>2, <2>3 DEF ContentsKnown
<1>7. Separate(B) /\ DeadIn(B) \subseteq DeadIn(A)
  <2>1. \A b \in DOMAIN B : from[b] = b
    OBVIOUS
  <2>2. Separate(A)
    BY DEF SealedInv
  <2>3. \A b \in DOMAIN B : B[b] # <<>> => from[b] \in DOMAIN A /\ B[b] = A[from[b]]
    BY <1>6, <2>1
  <2>4. \A b, c \in DOMAIN B : b # c /\ B[b] # <<>> /\ B[c] # <<>> => from[b] # from[c]
    BY <2>1
  <2> HIDE DEF A, B, from
  <2> QED BY <2>2, <2>3, <2>4, Rearranged
<1>8. LiveIn(env) \subseteq LiveIn(env)'
  BY <1>1, <1>7 DEF LiveIn, DeadSlots
<1>9. Unseen'
  <2> DEFINE S == LiveIn(env)'
  <2>1. env'.visible \in [Names -> S \cup {NoSlot}]
    BY <1>1, <1>8 DEF SealedInv, Unseen
  <2>2. \A k \in DOMAIN scopes : scopes[k].visible \in [Names -> S \cup {NoSlot}]
    BY <1>8 DEF SealedInv, Unseen
  <2>3. \A k \in DOMAIN scopes' : scopes'[k].visible \in [Names -> S \cup {NoSlot}]
    BY <1>1, <1>2, <1>3, <1>4, <2>1, <2>2
  <2>4. values' \in Seq(ValueFrame(S))
    BY <1>1, <1>8, MoreFrames DEF SealedInv, Unseen
  <2> QED BY <2>1, <2>3, <2>4 DEF Unseen
<1>10. Aged'
  <2> SUFFICES ASSUME NEW k \in 1 .. n + 1
               PROVE  /\ scopes'[k].mark <= Len(env'.slots)
                      /\ \A x \in Names : scopes'[k].visible[x] < scopes'[k].mark
                      /\ Old(scopes'[k].then, scopes'[k].mark)
                      /\ \A j \in 1 .. k - 1 :
                           /\ scopes'[j].mark <= scopes'[k].mark
                           /\ Old(scopes'[j].ops, scopes'[k].mark)
                      /\ scopes'[k].kind = "not"
                           => \A m \in DOMAIN lists' : Old(lists'[m], scopes'[k].mark)
    BY <1>3, Zenon DEF Aged
  <2>0. Aged
    BY DEF SealedInv
  <2>1. CASE k = n + 1
    <3>1. \A j \in 1 .. k - 1 : j \in DOMAIN scopes /\ scopes'[j] = scopes[j]
      BY <1>3, <2>1
    <3>2. Old(<<>>, Len(env.slots))
      BY NothingUsed DEF Old
    <3> QED BY <1>1, <1>2, <1>3, <2>0, <2>1, <3>1, <3>2, OldNow
  <2>2. CASE k # n + 1
    <3>1. k \in DOMAIN scopes /\ scopes'[k] = scopes[k]
      BY <1>3, <2>2
    <3>2. \A j \in 1 .. k - 1 : scopes'[j] = scopes[j]
      BY <1>3, <2>2
    <3> QED BY <1>1, <2>0, <3>1, <3>2 DEF Aged
  <2> QED BY <2>1, <2>2
<1> QED BY <1>7, <1>9, <1>10, OpenScopeSorted DEF SealedInv

-----------------------------------------------------------------------------
(* A list becomes part of the one around it.                               *)

LEMMA ReturnSorted ==
  ASSUME IInv, ScopesSorted, ListsSorted, status = "compiling", Len(scopes) > 1, NEW list,
         scopes' = [Front(scopes) EXCEPT ![Len(scopes) - 1].ops = list], lists' = lists,
         Named(list, NamesOf(scopes[Len(scopes) - 1].kind)), Nested(list)
  PROVE  ScopesSorted' /\ ListsSorted'
<1> DEFINE n == Len(scopes)
           f == scopes[n - 1]
           g == scopes'[n - 1]
<1>1. /\ n \in Nat \ {0} /\ DOMAIN scopes = 1 .. n
      /\ DOMAIN scopes' = 1 .. n - 1
      /\ \A k \in 1 .. n - 2 : scopes'[k] = scopes[k]
      /\ SameButOps(g, f, list)
  BY TopReturned
<1>2. n > 1 /\ Named(list, NamesOf(f.kind))
  OBVIOUS
<1> HIDE DEF f, g, n
<1>3. SortedScope(f)
  BY <1>1, <1>2 DEF ScopesSorted, f
<1>4. SortedScope(g) /\ g.kind = f.kind
  BY <1>1, <1>2, <1>3 DEF SortedScope, SameButOps
<1>5. \A k \in 1 .. n - 1 : SortedScope(scopes'[k]) /\ scopes'[k].kind = scopes[k].kind
  <2> SUFFICES ASSUME NEW k \in 1 .. n - 1
               PROVE  SortedScope(scopes'[k]) /\ scopes'[k].kind = scopes[k].kind
    OBVIOUS
  <2>1. CASE k = n - 1
    BY <1>4, <2>1 DEF f, g
  <2>2. CASE k # n - 1
    <3>1. scopes'[k] = scopes[k] /\ k \in DOMAIN scopes
      BY <1>1, <2>2
    <3> QED BY <3>1 DEF ScopesSorted
  <2> QED BY <2>1, <2>2
<1>6. \A k \in 1 .. n - 1 : Within(k)'
  <2> DEFINE m == n - 1
  <2>1. m \in Nat /\ m <= Len(scopes) /\ Len(scopes) \in Nat /\ DOMAIN scopes = 1 .. Len(scopes)
    BY <1>1 DEF n
  <2>2. \A k \in 1 .. m : scopes'[k].kind = scopes[k].kind
    BY <1>5
  <2> HIDE DEF m
  <2>3. \A k \in 1 .. m : Within(k)'
    BY <2>1, <2>2, SameKinds
  <2> QED BY <2>3 DEF m
<1>7. \A k \in 1 .. n - 1 : scopes'[k].kind \in ApplyKinds => lists' # <<>>
  BY <1>1, <1>5 DEF ScopesSorted
<1>8. ScopesSorted'
  BY <1>1, <1>5, <1>6, <1>7 DEF ScopesSorted
<1>9. ListsSorted'
  BY DEF ListsSorted
<1> QED BY <1>8, <1>9

LEMMA ReturnAged ==
  ASSUME IInv, Aged, status = "compiling", Len(scopes) > 1, NEW list,
         scopes' = [Front(scopes) EXCEPT ![Len(scopes) - 1].ops = list], lists' = lists,
         env'.slots = env.slots
  PROVE  /\ Aged'
         /\ \A k \in DOMAIN scopes' :
              /\ k \in 1 .. Len(scopes) - 1 /\ k \in DOMAIN scopes
              /\ scopes'[k].visible = scopes[k].visible
<1> DEFINE n == Len(scopes)
           f == scopes[n - 1]
           g == scopes'[n - 1]
<1>1. /\ n \in Nat \ {0} /\ DOMAIN scopes = 1 .. n
      /\ DOMAIN scopes' = 1 .. n - 1
      /\ \A k \in 1 .. n - 2 : scopes'[k] = scopes[k]
      /\ SameButOps(g, f, list)
  BY TopReturned
<1>2. \A k \in 1 .. n - 1 :
        /\ k \in DOMAIN scopes
        /\ scopes'[k].kind = scopes[k].kind /\ scopes'[k].visible = scopes[k].visible
        /\ scopes'[k].mark = scopes[k].mark /\ scopes'[k].then = scopes[k].then
        /\ \A j \in 1 .. k - 1 :
             j \in 1 .. n - 1 /\ scopes'[j] = scopes[j]
  <2> SUFFICES ASSUME NEW k \in 1 .. n - 1
               PROVE  /\ k \in DOMAIN scopes
                      /\ scopes'[k].kind = scopes[k].kind /\ scopes'[k].visible = scopes[k].visible
                      /\ scopes'[k].mark = scopes[k].mark /\ scopes'[k].then = scopes[k].then
                      /\ \A j \in 1 .. k - 1 : j \in 1 .. n - 1 /\ scopes'[j] = scopes[j]
    OBVIOUS
  <2> HIDE DEF n
  <2>1. k \in DOMAIN scopes /\ \A j \in 1 .. k - 1 : j \in 1 .. n - 1 /\ j \in 1 .. n - 2
    BY <1>1
  <2>2. CASE k = n - 1
    BY <1>1, <2>1, <2>2 DEF SameButOps
  <2>3. CASE k # n - 1
    <3>1. scopes'[k] = scopes[k]
      BY <1>1, <2>3
    <3> QED BY <1>1, <2>1, <3>1
  <2> QED BY <2>2, <2>3
<1> HIDE DEF n, f, g
<1>3. Aged'
  <2> SUFFICES ASSUME NEW k \in 1 .. n - 1
               PROVE  /\ scopes'[k].mark <= Len(env'.slots)
                      /\ \A x \in Names : scopes'[k].visible[x] < scopes'[k].mark
                      /\ Old(scopes'[k].then, scopes'[k].mark)
                      /\ \A j \in 1 .. k - 1 :
                           /\ scopes'[j].mark <= scopes'[k].mark
                           /\ Old(scopes'[j].ops, scopes'[k].mark)
                      /\ scopes'[k].kind = "not"
                           => \A m \in DOMAIN lists' : Old(lists'[m], scopes'[k].mark)
    BY <1>1, Zenon DEF Aged
  <2> QED BY <1>2 DEF Aged
<1> QED BY <1>1, <1>2, <1>3 DEF n

\* What a list becomes part of.
OuterOps == scopes[Len(scopes) - 1].ops

LEMMA OuterFront ==
  ASSUME IInv, status = "compiling", Len(scopes) > 1
  PROVE  /\ Front(scopes)[Len(scopes) - 1].ops = OuterOps
         /\ Len(scopes) \in DOMAIN scopes /\ Len(scopes) - 1 \in DOMAIN scopes
         /\ Scope = scopes[Len(scopes)]
         /\ OuterOps \in Ops(Handed) /\ Scope.ops \in Ops(Handed) /\ Scope.then \in Ops(Handed)
         /\ Scope.mark \in Nat
<1> DEFINE n == Len(scopes)
<1>1. /\ scopes \in Seq(ScopeFrame(Handed)) /\ scopes # <<>> /\ n \in Nat \ {0}
      /\ Scope = scopes[n] /\ Scope \in ScopeFrame(Handed)
  BY Shape
<1>2. DOMAIN scopes = 1 .. n
  BY <1>1, LenProperties
<1>3. n - 1 \in 1 .. n - 1 /\ n - 1 \in 1 .. n /\ n \in 1 .. n
  BY <1>1
<1>4. Front(scopes)[n - 1] = scopes[n - 1]
  BY <1>1, <1>3, FrontOf
<1>5. scopes[n - 1] \in ScopeFrame(Handed)
  BY <1>1, <1>3, ElementOfSeq
<1>6. OuterOps \in Ops(Handed)
  BY <1>5 DEF OuterOps, ScopeFrame
<1>7. Scope.ops \in Ops(Handed) /\ Scope.then \in Ops(Handed) /\ Scope.mark \in Nat
  BY <1>1 DEF ScopeFrame
<1> QED BY <1>1, <1>2, <1>3, <1>4, <1>6, <1>7 DEF OuterOps

LEMMA NotEnds ==
  ASSUME IInv, Sorted, CloseNot, NEW list, list = WithNot(OuterOps, Scope.mark, Scope.ops)
  PROVE  /\ status = "compiling" /\ status' = status /\ lists' = lists
         /\ values = <<>> /\ values' = <<>>
         /\ Len(scopes) > 1 /\ Scope.kind = "not"
         /\ scopes' = [Front(scopes) EXCEPT ![Len(scopes) - 1].ops = list]
         /\ env'.slots = env.slots /\ env'.visible = Scope.visible
         /\ scopes[Len(scopes) - 1].kind \in SelectKinds
         /\ Named(OuterOps, SelectNames) /\ Nested(OuterOps)
         /\ Named(Scope.ops, SelectNames) /\ Nested(Scope.ops)
<1>1. /\ status = "compiling" /\ status' = status /\ lists' = lists
      /\ values = <<>> /\ values' = <<>> /\ Scope.kind = "not" /\ env' = Restored
      /\ scopes' = [Front(scopes) EXCEPT
                      ![Len(scopes) - 1].ops = WithNot(@, Scope.mark, Scope.ops)]
  BY DEF CloseNot
<1>2. Len(scopes) > 1
  BY <1>1, Shape
<1>3. /\ Front(scopes)[Len(scopes) - 1].ops = OuterOps
      /\ Len(scopes) \in DOMAIN scopes /\ Len(scopes) - 1 \in DOMAIN scopes
      /\ Scope = scopes[Len(scopes)]
  BY <1>1, <1>2, OuterFront
<1>4. scopes' = [Front(scopes) EXCEPT ![Len(scopes) - 1].ops = list]
  <2> DEFINE s == Front(scopes)
             m == Len(scopes) - 1
  <2>1. scopes' = [s EXCEPT ![m].ops = WithNot(s[m].ops, Scope.mark, Scope.ops)]
    BY <1>1, Zenon
  <2>2. s[m].ops = OuterOps
    BY <1>3
  <2> HIDE DEF s, m
  <2>3. scopes' = [s EXCEPT ![m].ops = list]
    BY <2>1, <2>2
  <2> QED BY <2>3 DEF s, m
<1>5. env'.slots = env.slots /\ env'.visible = Scope.visible
  BY <1>1, RestoredGood
<1>6. scopes[Len(scopes) - 1].kind \in SelectKinds
  <2>1. Within(Len(scopes))
    BY <1>3 DEF Sorted, ScopesSorted
  <2> QED BY <1>1, <1>2, <1>3, <2>1 DEF Within
<1>7. SortedScope(scopes[Len(scopes) - 1]) /\ SortedScope(Scope)
  BY <1>3 DEF Sorted, ScopesSorted
<1>8. /\ Named(OuterOps, SelectNames) /\ Nested(OuterOps)
      /\ Named(Scope.ops, SelectNames) /\ Nested(Scope.ops)
  BY <1>1, <1>6, <1>7 DEF SortedScope, NamesOf, OuterOps, SelectKinds
<1> QED BY <1>1, <1>2, <1>4, <1>5, <1>6, <1>8

LEMMA CloseNotSorted ==
  ASSUME IInv, Sorted, CloseNot
  PROVE  Sorted'
<1> DEFINE list == WithNot(OuterOps, Scope.mark, Scope.ops)
           p == OuterOps
           q == Scope.ops
           mark == Scope.mark
           T == SelectOperation(Handed) \cup ApplyOperation(Handed)
<1>1. /\ status = "compiling" /\ status' = status /\ lists' = lists
      /\ values = <<>> /\ values' = <<>>
      /\ Len(scopes) > 1
      /\ scopes' = [Front(scopes) EXCEPT ![Len(scopes) - 1].ops = list]
      /\ scopes[Len(scopes) - 1].kind \in SelectKinds
      /\ Named(OuterOps, SelectNames) /\ Nested(OuterOps)
      /\ Named(Scope.ops, SelectNames) /\ Nested(Scope.ops)
  BY NotEnds, Zenon
<1>2. p \in Seq(T) /\ q \in Seq(T) /\ mark \in Nat
  BY <1>1, OuterFront DEF Ops
<1>3. /\ Named(p, SelectNames) /\ Nested(p) /\ Named(q, SelectNames) /\ Nested(q)
      /\ list = WithNot(p, mark, q)
  BY <1>1
<1>4. "Not" \in SelectNames
  BY DEF SelectNames
<1> HIDE DEF list, p, q, mark, T
<1>5. Named(list, SelectNames) /\ Nested(list)
  BY <1>2, <1>3, <1>4, WithNotSealed DEF Named
<1>6. Named(list, NamesOf(scopes[Len(scopes) - 1].kind))
  BY <1>1, <1>5 DEF NamesOf
<1>7. ScopesSorted' /\ ListsSorted'
  BY <1>1, <1>5, <1>6, ReturnSorted DEF Sorted
<1>8. ValuesSorted'
  BY <1>1 DEF ValuesSorted
<1> QED BY <1>1, <1>7, <1>8 DEF Sorted

\* Where the lists are when one has become part of the one around it.
Returned(list, t, o, u) ==
  /\ t \in DOMAIN Contents /\ o \in DOMAIN Contents /\ u \in DOMAIN Contents \ {t, o}
  /\ Contents[t] = Scope.ops /\ Contents[o] = Scope.then /\ Contents[u] = OuterOps
  /\ DOMAIN Contents' \subseteq DOMAIN Contents \ {t, o}
  /\ u \in DOMAIN Contents' /\ Contents'[u] = list
  /\ \A a \in DOMAIN Contents' \ {u} : Contents'[a] = Contents[a]

LEMMA ReturnPlaces ==
  ASSUME IInv, status = "compiling", Len(scopes) > 1, NEW list,
         scopes' = [Front(scopes) EXCEPT ![Len(scopes) - 1].ops = list], lists' = lists
  PROVE  Returned(list, <<"ops", Len(scopes)>>, <<"then", Len(scopes)>>, <<"ops", Len(scopes) - 1>>)
<1> DEFINE n == Len(scopes)
           m == Len(scopes) - 1
           t == <<"ops", n>>
           o == <<"then", n>>
           u == <<"ops", m>>
<1>1. /\ n \in Nat \ {0} /\ DOMAIN scopes = 1 .. n /\ Scope = scopes[n]
      /\ DOMAIN scopes' = 1 .. m
      /\ \A k \in 1 .. n - 2 : scopes'[k] = scopes[k]
      /\ SameButOps(scopes'[m], scopes[m], list)
  BY TopReturned
<1>2. n \in DOMAIN scopes /\ m \in DOMAIN scopes /\ m \in DOMAIN scopes' /\ m # n /\ n \notin 1 .. m
  <2>1. n \in Nat /\ n > 1 /\ m = n - 1 /\ DOMAIN scopes = 1 .. n /\ DOMAIN scopes' = 1 .. m
    BY <1>1
  <2> HIDE DEF n, m
  <2> QED BY <2>1
<1>3. ContentsKnown /\ ContentsKnown'
  BY ContentsAre, PTL
<1>4. OuterOps = scopes[m].ops
  BY DEF OuterOps
<1>5. /\ t = <<"ops", n>> /\ o = <<"then", n>> /\ u = <<"ops", m>>
  OBVIOUS
<1>6. \A k \in 1 .. m : k \in DOMAIN scopes /\ (k # m => k \in 1 .. n - 2)
  BY <1>1
<1> HIDE DEF n, m
<1>7. /\ t \in DOMAIN Contents /\ o \in DOMAIN Contents /\ u \in DOMAIN Contents
      /\ Contents[t] = Scope.ops /\ Contents[o] = Scope.then /\ Contents[u] = OuterOps
  <2>1. /\ <<"ops", n>> \in DOMAIN Contents /\ Contents[<<"ops", n>>] = scopes[n].ops
        /\ <<"then", n>> \in DOMAIN Contents /\ Contents[<<"then", n>>] = scopes[n].then
    BY <1>2, <1>3, Zenon DEF ContentsKnown
  <2>2. <<"ops", m>> \in DOMAIN Contents /\ Contents[<<"ops", m>>] = scopes[m].ops
    BY <1>2, <1>3, Zenon DEF ContentsKnown
  <2> QED BY <1>1, <1>4, <1>5, <2>1, <2>2, Zenon
<1>8. u \in DOMAIN Contents' /\ Contents'[u] = list
  <2>1. scopes'[m].ops = list
    BY <1>1 DEF SameButOps
  <2> QED BY <1>2, <1>3, <1>5, <2>1 DEF ContentsKnown
<1>9. ASSUME NEW a \in DOMAIN Contents'
      PROVE  a \in DOMAIN Contents \ {t, o} /\ (a # u => Contents'[a] = Contents[a])
  <2>0. a \in Places'
    BY <1>3 DEF ContentsKnown
  <2>1. CASE \E k \in DOMAIN scopes' : a = <<"ops", k>> /\ Contents'[a] = scopes'[k].ops
    <3>1. PICK k \in 1 .. m : a = <<"ops", k>> /\ Contents'[a] = scopes'[k].ops
      BY <1>1, <2>1
    <3>2. k # n
      BY <1>2
    <3>3. a \in DOMAIN Contents \ {t, o} /\ Contents[a] = scopes[k].ops
      <4>1. <<"ops", k>> \in DOMAIN Contents /\ Contents[<<"ops", k>>] = scopes[k].ops
        BY <1>3, <1>6, Zenon DEF ContentsKnown
      <4>2. <<"ops", k>> # <<"ops", n>> /\ <<"ops", k>> # <<"then", n>>
        BY <3>2
      <4> QED BY <1>5, <3>1, <4>1, <4>2, Zenon
    <3>4. CASE k = m
      BY <1>5, <3>1, <3>3, <3>4
    <3>5. CASE k # m
      BY <1>1, <1>6, <3>1, <3>3, <3>5
    <3> QED BY <3>4, <3>5
  <2>2. CASE \E k \in DOMAIN scopes' : a = <<"then", k>> /\ Contents'[a] = scopes'[k].then
    <3>1. PICK k \in 1 .. m : a = <<"then", k>> /\ Contents'[a] = scopes'[k].then
      BY <1>1, <2>2
    <3>2. k # n
      BY <1>2
    <3>3. a \in DOMAIN Contents \ {t, o} /\ Contents[a] = scopes[k].then
      <4>1. <<"then", k>> \in DOMAIN Contents /\ Contents[<<"then", k>>] = scopes[k].then
        BY <1>3, <1>6, Zenon DEF ContentsKnown
      <4>2. <<"then", k>> # <<"ops", n>> /\ <<"then", k>> # <<"then", n>>
        BY <3>2
      <4> QED BY <1>5, <3>1, <4>1, <4>2, Zenon
    <3>4. scopes'[k].then = scopes[k].then
      BY <1>1, <1>6 DEF SameButOps
    <3> QED BY <3>1, <3>3, <3>4
  <2>3. CASE \E k \in DOMAIN lists' : a = <<"list", k>> /\ Contents'[a] = lists'[k]
    BY <1>3, <1>5, <2>3 DEF ContentsKnown
  <2> QED BY <1>3, <2>0, <2>1, <2>2, <2>3 DEF ContentsKnown
<1>10. u # t /\ u # o
  BY <1>2, <1>5
<1> QED BY <1>7, <1>8, <1>9, <1>10 DEF n, m, Returned

LEMMA Before ==
  ASSUME NEW n \in Nat, NEW k \in 1 .. n, k # n
  PROVE  k \in 1 .. n - 1
OBVIOUS

LEMMA CloseNotSealed ==
  ASSUME IInv, SealedInv, CloseNot
  PROVE  SealedInv'
<1> DEFINE list == WithNot(OuterOps, Scope.mark, Scope.ops)
           n == Len(scopes)
           t == <<"ops", n>>
           o == <<"then", n>>
           u == <<"ops", n - 1>>
           A == Contents
           B == Contents'
           mark == Scope.mark
           T == SelectOperation(Handed) \cup ApplyOperation(Handed)
<1>1. /\ status = "compiling" /\ lists' = lists
      /\ values = <<>> /\ values' = <<>>
      /\ Len(scopes) > 1 /\ Scope.kind = "not"
      /\ scopes' = [Front(scopes) EXCEPT ![Len(scopes) - 1].ops = list]
      /\ env'.slots = env.slots /\ env'.visible = Scope.visible
      /\ Nested(OuterOps) /\ Nested(Scope.ops)
  BY NotEnds, Zenon DEF SealedInv
<1>2. /\ OuterOps \in Seq(T) /\ Scope.ops \in Seq(T) /\ mark \in Nat
      /\ n \in DOMAIN scopes /\ Scope = scopes[n]
      /\ DOMAIN scopes = 1 .. n /\ n \in Nat
  BY <1>1, OuterFront, Shape, LenProperties DEF Ops
<1>3. /\ t \in DOMAIN A /\ o \in DOMAIN A /\ u \in DOMAIN A \ {t, o}
      /\ A[t] = Scope.ops /\ A[o] = Scope.then /\ A[u] = OuterOps
      /\ DOMAIN B \subseteq DOMAIN A \ {t, o}
      /\ u \in DOMAIN B /\ B[u] = list
      /\ \A a \in DOMAIN B \ {u} : B[a] = A[a]
  <2>1. Returned(list, t, o, u)
    BY <1>1, ReturnPlaces
  <2> HIDE DEF list, t, o, u, A, B
  <2> QED BY <2>1 DEF Returned, A, B
<1>4. Aged /\ Sorted /\ Separate(A) /\ Unseen
  BY DEF SealedInv
<1>5. /\ \A x \in Names : scopes[n].visible[x] < mark
      /\ Old(scopes[n].then, mark)
      /\ \A j \in 1 .. n - 1 : scopes[j].mark <= mark /\ Old(scopes[j].ops, mark)
      /\ \A m \in DOMAIN lists : Old(lists[m], mark)
  BY <1>1, <1>2, <1>4 DEF Aged
<1>6. \A j \in DOMAIN scopes : scopes[j].mark \in Nat /\ Old(scopes[j].then, scopes[j].mark)
  BY <1>1, <1>4, OldNow DEF Aged
<1>7. \A a \in Places : Used(A[a]) \subseteq Handed
  BY ContentsTyped
<1>8. \A a \in DOMAIN A \ {t} : \A b \in Used(A[a]) : ~(b >= mark)
  <2> SUFFICES ASSUME NEW a \in Places, a # t, NEW b \in Used(A[a]) PROVE ~(b >= mark)
    BY ContentsAre DEF ContentsKnown
  <2>0. b \in Int /\ mark \in Int
    BY <1>2, <1>7 DEF Handed
  <2> HIDE DEF mark
  <2>1. CASE \E k \in DOMAIN scopes : a = <<"ops", k>> /\ A[a] = scopes[k].ops
    <3>1. PICK k \in 1 .. n : a = <<"ops", k>> /\ A[a] = scopes[k].ops
      BY <1>2, <2>1
    <3>2. k # n
      BY <3>1
    <3>3. k \in 1 .. n - 1
      BY <1>2, <3>1, <3>2, Before, Zenon
    <3>4. b < mark
      BY <1>5, <3>1, <3>3 DEF Old
    <3> QED BY <2>0, <3>4
  <2>2. CASE \E k \in DOMAIN scopes : a = <<"then", k>> /\ A[a] = scopes[k].then
    <3>1. PICK k \in 1 .. n : a = <<"then", k>> /\ A[a] = scopes[k].then
      BY <1>2, <2>2
    <3>2. scopes[k].mark \in Nat /\ b < scopes[k].mark
      BY <1>2, <1>6, <3>1 DEF Old
    <3>3. CASE k = n
      BY <1>5, <2>0, <3>1, <3>3 DEF Old
    <3>4. CASE k # n
      <4>1. k \in 1 .. n - 1
        BY <1>2, <3>1, <3>4, Before, Zenon
      <4>2. scopes[k].mark <= mark
        BY <1>5, <4>1
      <4> QED BY <2>0, <3>2, <4>2
    <3> QED BY <3>3, <3>4
  <2>3. CASE \E k \in DOMAIN lists : a = <<"list", k>> /\ A[a] = lists[k]
    BY <1>5, <2>0, <2>3 DEF Old
  <2> QED BY <2>1, <2>2, <2>3, ContentsAre DEF ContentsKnown
<1>9. /\ Separate(B)
      /\ DeadIn(B) \subseteq DeadIn(A) \cup {b \in Used(A[t]) : b >= mark}
  <2>1. /\ t \in DOMAIN A /\ u \in DOMAIN A \ {t} /\ mark \in Nat
        /\ A[t] \in Seq(T) /\ A[u] \in Seq(T) /\ Nested(A[t]) /\ Nested(A[u]) /\ Separate(A)
        /\ DOMAIN B \subseteq DOMAIN A \ {t} /\ B[u] = WithNot(A[u], mark, A[t])
        /\ \A a \in DOMAIN B \ {u} : B[a] = A[a]
    BY <1>1, <1>2, <1>3, <1>4
  <2> HIDE DEF A, B, t, u, mark, T
  <2> QED BY <1>8, <2>1, NotClosed
<1> DEFINE S == LiveIn(env)'
<1>10. \A b \in LiveIn(env) : b < mark => b \in S
  <2>1. SlotsIn(env)' = SlotsIn(env)
    BY <1>1 DEF SlotsIn
  <2>2. \A b \in LiveIn(env) : b \in SlotsIn(env) /\ b \in Int /\ b \notin DeadIn(A)
    BY DEF LiveIn, SlotsIn, DeadSlots
  <2>3. \A b \in DeadIn(B) : b \in DeadIn(A) \/ b >= mark
    BY <1>9
  <2>4. S = SlotsIn(env)' \ DeadIn(B)
    BY DEF LiveIn, DeadSlots
  <2> HIDE DEF A, B, S, mark
  <2>5. mark \in Int
    BY <1>2
  <2> QED BY <2>1, <2>2, <2>3, <2>4, <2>5
<1>11. Unseen'
  <2>1. \A k \in DOMAIN scopes : scopes[k].visible \in [Names -> LiveIn(env) \cup {NoSlot}]
    BY <1>4 DEF Unseen
  <2>2. \A k \in DOMAIN scopes : \A x \in Names : scopes[k].visible[x] < mark
    <3> SUFFICES ASSUME NEW k \in 1 .. n, NEW x \in Names PROVE scopes[k].visible[x] < mark
      BY <1>2
    <3>1. scopes[k].mark \in Nat /\ scopes[k].visible[x] \in Int /\ scopes[k].visible[x] < scopes[k].mark
      BY <1>1, <1>2, <1>4, OldNow DEF Aged
    <3>2. CASE k = n
      BY <1>5, <3>2
    <3>3. CASE k # n
      <4>1. k \in 1 .. n - 1
        BY <1>2, <3>3, Before, Zenon
      <4>2. scopes[k].mark <= mark
        BY <1>5, <4>1
      <4> QED BY <1>2, <3>1, <4>2
    <3> QED BY <3>2, <3>3
  <2> HIDE DEF S, mark
  <2>3. \A k \in DOMAIN scopes : scopes[k].visible \in [Names -> S \cup {NoSlot}]
    BY <1>10, <2>1, <2>2
  <2>4. \A k \in DOMAIN scopes' : k \in DOMAIN scopes /\ scopes'[k].visible = scopes[k].visible
    BY <1>1, <1>4, ReturnAged
  <2>5. env'.visible \in [Names -> S \cup {NoSlot}]
    BY <1>1, <1>2, <2>3
  <2>6. values' \in Seq(ValueFrame(S))
    BY <1>1, EmptySeq
  <2> QED BY <2>3, <2>4, <2>5, <2>6 DEF Unseen, S
<1>12. Aged'
  BY <1>1, <1>4, ReturnAged
<1>13. Sorted'
  BY <1>4, CloseNotSorted
<1> QED BY <1>9, <1>11, <1>12, <1>13 DEF SealedInv

\* A conditional is complete.
LEMMA OtherwiseEnds ==
  ASSUME IInv, Sorted, CloseOtherwise,
         NEW list, list = WithConditional(OuterOps, Scope.then, Scope.ops)
  PROVE  /\ status = "compiling" /\ status' = status /\ lists' = lists
         /\ values = <<>> /\ values' = <<>>
         /\ Len(scopes) > 1
         /\ scopes' = [Front(scopes) EXCEPT ![Len(scopes) - 1].ops = list]
         /\ env'.slots = env.slots /\ env'.visible = Scope.visible
         /\ scopes[Len(scopes) - 1].kind \in ApplyKinds
         /\ Named(OuterOps, ApplyNames) /\ Named(Scope.ops, ApplyNames)
         /\ Named(Scope.then, ApplyNames)
<1>1. /\ status = "compiling" /\ status' = status /\ lists' = lists
      /\ values = <<>> /\ values' = <<>> /\ Scope.kind = "otherwise" /\ env' = Restored
      /\ scopes' = [Front(scopes) EXCEPT
                      ![Len(scopes) - 1].ops = WithConditional(@, Scope.then, Scope.ops)]
  BY DEF CloseOtherwise
<1>2. Len(scopes) > 1 /\ Len(scopes) \in Nat
  BY <1>1, Shape
<1>3. /\ Front(scopes)[Len(scopes) - 1].ops = OuterOps
      /\ Len(scopes) \in DOMAIN scopes /\ Len(scopes) - 1 \in DOMAIN scopes
      /\ Scope = scopes[Len(scopes)]
  BY <1>1, <1>2, OuterFront
<1>4. scopes' = [Front(scopes) EXCEPT ![Len(scopes) - 1].ops = list]
  <2> DEFINE s == Front(scopes)
             m == Len(scopes) - 1
  <2>1. scopes' = [s EXCEPT ![m].ops = WithConditional(s[m].ops, Scope.then, Scope.ops)]
    BY <1>1, Zenon
  <2>2. s[m].ops = OuterOps
    BY <1>3
  <2> HIDE DEF s, m
  <2>3. scopes' = [s EXCEPT ![m].ops = list]
    BY <2>1, <2>2
  <2> QED BY <2>3 DEF s, m
<1>5. env'.slots = env.slots /\ env'.visible = Scope.visible
  BY <1>1, RestoredGood
<1>6. scopes[Len(scopes) - 1].kind \in ApplyKinds
  <2>1. Len(scopes) - 1 \in 1 .. Len(scopes) - 1
    BY <1>2
  <2> QED BY <1>1, <2>1, ApplyAround DEF Sorted
<1>7. SortedScope(scopes[Len(scopes) - 1]) /\ SortedScope(Scope)
  BY <1>3 DEF Sorted, ScopesSorted
<1>8. /\ Named(OuterOps, ApplyNames) /\ Named(Scope.ops, ApplyNames)
      /\ Named(Scope.then, ApplyNames)
  BY <1>1, <1>6, <1>7 DEF SortedScope, NamesOf, OuterOps, SelectKinds, ApplyKinds
<1> QED BY <1>1, <1>2, <1>4, <1>5, <1>6, <1>8

LEMMA CloseOtherwiseSorted ==
  ASSUME IInv, Sorted, CloseOtherwise
  PROVE  Sorted'
<1> DEFINE list == WithConditional(OuterOps, Scope.then, Scope.ops)
           p == OuterOps
           q == Scope.then
           r == Scope.ops
           T == SelectOperation(Handed) \cup ApplyOperation(Handed)
<1>1. /\ status = "compiling" /\ status' = status /\ lists' = lists
      /\ values = <<>> /\ values' = <<>>
      /\ Len(scopes) > 1
      /\ scopes' = [Front(scopes) EXCEPT ![Len(scopes) - 1].ops = list]
      /\ scopes[Len(scopes) - 1].kind \in ApplyKinds
      /\ Named(p, ApplyNames) /\ Named(q, ApplyNames) /\ Named(r, ApplyNames)
  BY OtherwiseEnds, Zenon
<1>2. p \in Seq(T) /\ q \in Seq(T) /\ r \in Seq(T)
  BY <1>1, OuterFront DEF Ops
<1>3. list = WithConditional(p, q, r)
  OBVIOUS
<1> HIDE DEF list, p, q, r, T
<1>4. Named(WithConditional(p, q, r), ApplyNames)
  BY <1>1, <1>2, WithConditionalUses
<1>5. Named(list, ApplyNames) /\ Nested(list)
  BY <1>3, <1>4, ApplyLists
<1>6. Named(list, NamesOf(scopes[Len(scopes) - 1].kind))
  BY <1>1, <1>5 DEF NamesOf, ApplyKinds, SelectKinds
<1>7. ScopesSorted' /\ ListsSorted'
  BY <1>1, <1>5, <1>6, ReturnSorted DEF Sorted
<1>8. ValuesSorted'
  BY <1>1 DEF ValuesSorted
<1> QED BY <1>1, <1>7, <1>8 DEF Sorted

\* When lists are put elsewhere and slots stay, what was not dead is not dead.
LEMMA LiveKept ==
  ASSUME env'.slots = env.slots, DeadSlots' \subseteq DeadSlots
  PROVE  /\ LiveIn(env) \subseteq LiveIn(env)'
         /\ \A visible \in [Names -> LiveIn(env) \cup {NoSlot}] :
              visible \in [Names -> LiveIn(env)' \cup {NoSlot}]
<1>1. LiveIn(env) \subseteq LiveIn(env)'
  BY DEF LiveIn, SlotsIn
<1> QED BY <1>1

LEMMA CloseOtherwiseSealed ==
  ASSUME IInv, SealedInv, CloseOtherwise
  PROVE  SealedInv'
<1> DEFINE list == WithConditional(OuterOps, Scope.then, Scope.ops)
           n == Len(scopes)
           t == <<"ops", n>>
           o == <<"then", n>>
           u == <<"ops", n - 1>>
           A == Contents
           B == Contents'
           T == SelectOperation(Handed) \cup ApplyOperation(Handed)
<1>1. /\ status = "compiling" /\ lists' = lists
      /\ values = <<>> /\ values' = <<>>
      /\ Len(scopes) > 1
      /\ scopes' = [Front(scopes) EXCEPT ![Len(scopes) - 1].ops = list]
      /\ env'.slots = env.slots /\ env'.visible = Scope.visible
      /\ Named(OuterOps, ApplyNames) /\ Named(Scope.ops, ApplyNames)
      /\ Named(Scope.then, ApplyNames)
  BY OtherwiseEnds, Zenon DEF SealedInv
<1>2. /\ OuterOps \in Seq(T) /\ Scope.ops \in Seq(T) /\ Scope.then \in Seq(T)
      /\ n \in DOMAIN scopes /\ Scope = scopes[n]
  BY <1>1, OuterFront DEF Ops
<1>3. /\ t \in DOMAIN A /\ o \in DOMAIN A /\ u \in DOMAIN A \ {t, o}
      /\ A[t] = Scope.ops /\ A[o] = Scope.then /\ A[u] = OuterOps
      /\ DOMAIN B \subseteq DOMAIN A \ {t, o}
      /\ u \in DOMAIN B /\ B[u] = list
      /\ \A a \in DOMAIN B \ {u} : B[a] = A[a]
  <2>1. Returned(list, t, o, u)
    BY <1>1, ReturnPlaces
  <2> HIDE DEF list, t, o, u, A, B
  <2> QED BY <2>1 DEF Returned, A, B
<1>4. Aged /\ Sorted /\ Separate(A) /\ Unseen
  BY DEF SealedInv
<1>5. Separate(B) /\ DeadIn(B) \subseteq DeadIn(A)
  <2>1. /\ t \in DOMAIN A /\ o \in DOMAIN A /\ u \in DOMAIN A \ {t, o}
        /\ A[t] \in Seq(T) /\ A[o] \in Seq(T) /\ A[u] \in Seq(T) /\ Separate(A)
        /\ Named(A[t], ApplyNames) /\ Named(A[o], ApplyNames) /\ Named(A[u], ApplyNames)
        /\ DOMAIN B \subseteq DOMAIN A \ {t, o} /\ B[u] = WithConditional(A[u], A[o], A[t])
        /\ \A a \in DOMAIN B \ {u} : B[a] = A[a]
    BY <1>1, <1>2, <1>3, <1>4
  <2>2. {t, o} = {o, t}
    OBVIOUS
  <2> HIDE DEF A, B, t, u, o, T
  <2>3. u \in DOMAIN A \ {o, t} /\ DOMAIN B \subseteq DOMAIN A \ {o, t}
    BY <2>1, <2>2
  <2> QED BY <2>1, <2>3, ConditionalClosed
<1>6. DeadSlots' \subseteq DeadSlots
  BY <1>5 DEF DeadSlots
<1>7. Unseen'
  <2> DEFINE S == LiveIn(env)'
  <2>1. \A k \in DOMAIN scopes : scopes[k].visible \in [Names -> S \cup {NoSlot}]
    BY <1>1, <1>4, <1>6, LiveKept DEF Unseen
  <2>2. \A k \in DOMAIN scopes' : k \in DOMAIN scopes /\ scopes'[k].visible = scopes[k].visible
    BY <1>1, <1>4, ReturnAged
  <2>3. env'.visible \in [Names -> S \cup {NoSlot}]
    BY <1>1, <1>2, <2>1
  <2>4. values' \in Seq(ValueFrame(S))
    BY <1>1, EmptySeq
  <2> QED BY <2>1, <2>2, <2>3, <2>4 DEF Unseen
<1>8. Aged'
  BY <1>1, <1>4, ReturnAged
<1>9. Sorted'
  BY <1>4, CloseOtherwiseSorted
<1> QED BY <1>5, <1>7, <1>8, <1>9 DEF SealedInv

-----------------------------------------------------------------------------
(* A list is followed by another.                                          *)

\* A list is put elsewhere, and what comes in its place is empty.
LEMMA Moved ==
  ASSUME Separate(Contents), NEW t \in DOMAIN Contents, NEW p,
         \A b \in DOMAIN Contents' :
           \/ Contents'[b] = <<>>
           \/ b = p /\ Contents'[b] = Contents[t]
           \/ b # p /\ b # t /\ b \in DOMAIN Contents /\ Contents'[b] = Contents[b]
  PROVE  Separate(Contents') /\ DeadSlots' \subseteq DeadSlots
<1> DEFINE A == Contents
           B == Contents'
           from == [b \in DOMAIN B |-> IF b = p THEN t ELSE b]
<1>1. \A b \in DOMAIN B : from[b] = IF b = p THEN t ELSE b
  OBVIOUS
<1>2. Separate(A) /\ t \in DOMAIN A
  OBVIOUS
<1>3. \A b \in DOMAIN B : B[b] # <<>> => from[b] \in DOMAIN A /\ B[b] = A[from[b]]
  BY <1>1
<1>4. \A b, c \in DOMAIN B : b # c /\ B[b] # <<>> /\ B[c] # <<>> => from[b] # from[c]
  BY <1>1
<1> HIDE DEF A, B, from
<1>5. Separate(B) /\ DeadIn(B) \subseteq DeadIn(A)
  BY <1>2, <1>3, <1>4, Rearranged
<1> QED BY <1>5 DEF A, B, DeadSlots

LEMMA NextPartSorted ==
  ASSUME IInv, Sorted, status = "compiling", Scope.kind \in {"condition", "then"},
         NEW kind \in {"then", "otherwise"}, NEW then, Named(then, ApplyNames),
         scopes' = Append(Front(scopes), NewScope(kind, Restored, then)),
         values' = <<>>, lists' # <<>>, ListsSorted'
  PROVE  Sorted'
<1> DEFINE n == Len(scopes)
           f == NewScope(kind, Restored, then)
<1>1. f.kind = kind /\ SortedScope(f)
  BY Begun
<1>2. scopes' = Append(Front(scopes), f)
  OBVIOUS
<1> HIDE DEF f
<1>3. /\ n \in Nat \ {0} /\ DOMAIN scopes = 1 .. n
      /\ DOMAIN scopes' = 1 .. n
      /\ \A k \in 1 .. n - 1 : scopes'[k] = scopes[k]
      /\ scopes'[n] = f
  BY <1>2, TopFollowed
<1>4. \A j \in 1 .. n - 1 : scopes[j].kind \in ApplyKinds /\ scopes'[j].kind \in ApplyKinds
  BY <1>3, ApplyAround DEF Sorted
<1> HIDE DEF n
<1>5. \A k \in 1 .. n : SortedScope(scopes'[k])
  <2> SUFFICES ASSUME NEW k \in 1 .. n PROVE SortedScope(scopes'[k])
    OBVIOUS
  <2>1. CASE k = n
    BY <1>1, <1>3, <2>1
  <2>2. CASE k # n
    <3>1. scopes'[k] = scopes[k] /\ k \in DOMAIN scopes
      BY <1>3, <2>2
    <3> QED BY <3>1 DEF Sorted, ScopesSorted
  <2> QED BY <2>1, <2>2
<1>6. ASSUME NEW k \in 1 .. n PROVE Within(k)'
  <2> SUFFICES IF scopes'[k].kind = "not" THEN scopes'[k - 1].kind \in SelectKinds
               ELSE \A j \in 1 .. k - 1 : scopes'[j].kind \in ApplyKinds
    BY Zenon DEF Within
  <2>1. scopes'[k].kind # "not"
    <3>1. CASE k = n
      BY <1>1, <1>3, <3>1
    <3>2. CASE k # n
      <4>1. k \in 1 .. n - 1
        BY <1>3, <3>2
      <4> QED BY <1>4, <4>1 DEF ApplyKinds
    <3> QED BY <3>1, <3>2
  <2>2. \A j \in 1 .. k - 1 : j \in 1 .. n - 1
    BY <1>3
  <2> QED BY <1>4, <2>1, <2>2
<1>7. ScopesSorted'
  BY <1>3, <1>5, <1>6 DEF ScopesSorted
<1>8. ValuesSorted'
  BY DEF ValuesSorted
<1> QED BY <1>7, <1>8 DEF Sorted

LEMMA NextPartSealed ==
  ASSUME IInv, SealedInv, status = "compiling", Scope.kind \in {"condition", "then"},
         NEW kind \in {"then", "otherwise"}, NEW then, Old(then, Len(env.slots)),
         scopes' = Append(Front(scopes), NewScope(kind, Restored, then)),
         env' = Restored, values' = <<>>, DeadSlots' \subseteq DeadSlots
  PROVE  Unseen' /\ Aged'
<1> DEFINE n == Len(scopes)
           f == NewScope(kind, Restored, then)
           age == Len(env.slots)
<1>1. env'.slots = env.slots /\ env'.visible = Scope.visible
  BY RestoredGood
<1>2. /\ f.kind = kind /\ f.visible = Scope.visible /\ f.mark = age
      /\ f.then = then
  BY RestoredGood DEF NewScope
<1>3. scopes' = Append(Front(scopes), f)
  OBVIOUS
<1> HIDE DEF f
<1>4. /\ n \in Nat \ {0} /\ DOMAIN scopes = 1 .. n /\ Scope = scopes[n]
      /\ DOMAIN scopes' = 1 .. n
      /\ \A k \in 1 .. n - 1 : scopes'[k] = scopes[k]
      /\ scopes'[n] = f
  BY <1>3, TopFollowed
<1>5. \A j \in 1 .. n - 1 : scopes[j].kind \in ApplyKinds
  BY ApplyAround DEF SealedInv, Sorted
<1> HIDE DEF n
<1>6. Aged /\ Unseen
  BY DEF SealedInv
<1>7. n \in DOMAIN scopes /\ \A k \in 1 .. n : k # n => k \in 1 .. n - 1
  BY <1>4
<1>8. Unseen'
  <2> DEFINE S == LiveIn(env)'
  <2>1. \A k \in DOMAIN scopes : scopes[k].visible \in [Names -> S \cup {NoSlot}]
    BY <1>1, <1>6, LiveKept DEF Unseen
  <2>2. \A k \in DOMAIN scopes' : scopes'[k].visible \in [Names -> S \cup {NoSlot}]
    BY <1>2, <1>4, <1>7, <2>1
  <2>3. env'.visible \in [Names -> S \cup {NoSlot}]
    BY <1>1, <1>4, <1>7, <2>1
  <2>4. values' \in Seq(ValueFrame(S))
    BY EmptySeq
  <2> QED BY <2>2, <2>3, <2>4 DEF Unseen
<1>9. Aged'
  <2> SUFFICES ASSUME NEW k \in 1 .. n
               PROVE  /\ scopes'[k].mark <= Len(env'.slots)
                      /\ \A x \in Names : scopes'[k].visible[x] < scopes'[k].mark
                      /\ Old(scopes'[k].then, scopes'[k].mark)
                      /\ \A j \in 1 .. k - 1 :
                           /\ scopes'[j].mark <= scopes'[k].mark
                           /\ Old(scopes'[j].ops, scopes'[k].mark)
                      /\ scopes'[k].kind = "not"
                           => \A m \in DOMAIN lists' : Old(lists'[m], scopes'[k].mark)
    BY <1>4, Zenon DEF Aged
  <2>1. /\ age \in Nat
        /\ \A j \in DOMAIN scopes : scopes[j].mark <= age /\ Old(scopes[j].ops, age)
        /\ \A x \in Names : Scope.visible[x] < age
    BY <1>6, OldNow
  <2> HIDE DEF age
  <2>2. CASE k = n
    <3>1. \A j \in 1 .. n - 1 : j \in DOMAIN scopes /\ scopes'[j] = scopes[j]
      BY <1>4
    <3>2. Len(env'.slots) = age /\ Old(then, age)
      BY <1>1 DEF age
    <3> QED BY <1>2, <1>4, <2>1, <2>2, <3>1, <3>2
  <2>3. CASE k # n
    <3>1. k \in 1 .. n - 1 /\ k \in DOMAIN scopes
      BY <1>4, <2>3
    <3>2. \A j \in 1 .. k - 1 : scopes'[j] = scopes[j]
      BY <1>4, <3>1
    <3>3. scopes[k].kind # "not"
      BY <1>5, <3>1 DEF ApplyKinds
    <3> QED BY <1>1, <1>4, <1>6, <3>1, <3>2, <3>3 DEF Aged
  <2> QED BY <2>2, <2>3
<1> QED BY <1>8, <1>9

LEMMA CloseConditionSealed ==
  ASSUME IInv, SealedInv, CloseCondition
  PROVE  SealedInv'
<1> DEFINE n == Len(scopes)
           f == NewScope("then", Restored, <<>>)
           t == <<"ops", n>>
           p == <<"list", Len(lists) + 1>>
<1>1. /\ status = "compiling" /\ Scope.kind = "condition" /\ lists' = Append(lists, Scope.ops)
      /\ scopes' = Append(Front(scopes), f)
      /\ env' = Restored /\ values' = <<>>
  BY DEF CloseCondition
<1>2. Named(<<>>, ApplyNames) /\ Old(<<>>, Len(env.slots))
  BY NothingUsed DEF Named, Old
<1>3. /\ n \in Nat \ {0} /\ DOMAIN scopes = 1 .. n /\ Scope = scopes[n]
      /\ DOMAIN scopes' = 1 .. n
      /\ \A k \in 1 .. n - 1 : scopes'[k] = scopes[k]
      /\ scopes'[n] = f
  BY <1>1, TopFollowed, Zenon
<1>4. f.ops = <<>> /\ f.then = <<>>
  BY DEF NewScope
<1>5. /\ Len(lists) \in Nat /\ DOMAIN lists = 1 .. Len(lists)
      /\ DOMAIN lists' = 1 .. Len(lists) + 1
      /\ \A m \in 1 .. Len(lists) : lists'[m] = lists[m]
      /\ lists'[Len(lists) + 1] = Scope.ops
  <2>1. lists \in Seq(Ops(Handed)) /\ Scope.ops \in Ops(Handed)
    BY <1>1, Shape DEF ScopeFrame
  <2> DEFINE s == lists'
  <2>2. s = Append(lists, Scope.ops)
    BY <1>1
  <2> HIDE DEF s
  <2>3. /\ s \in Seq(Ops(Handed)) /\ Len(s) = Len(lists) + 1
        /\ \A m \in 1 .. Len(lists) : s[m] = lists[m]
        /\ s[Len(lists) + 1] = Scope.ops
    BY <2>1, <2>2, AppendProperties
  <2>4. Len(lists) \in Nat /\ DOMAIN lists = 1 .. Len(lists) /\ DOMAIN s = 1 .. Len(s)
    BY <2>1, <2>3, LenProperties
  <2> QED BY <2>3, <2>4 DEF s
<1> HIDE DEF f
<1>6. \A m \in DOMAIN lists' :
        \/ m \in DOMAIN lists /\ lists'[m] = lists[m]
        \/ m = Len(lists) + 1 /\ lists'[m] = Scope.ops
  BY <1>5
<1>7. ListsSorted' /\ lists' # <<>>
  <2>1. SortedScope(Scope)
    BY <1>3 DEF SealedInv, Sorted, ScopesSorted
  <2>2. Named(Scope.ops, SelectNames) /\ Nested(Scope.ops)
    BY <1>1, <2>1 DEF SortedScope, NamesOf, SelectKinds
  <2>3. ListsSorted'
    BY <1>6, <2>2 DEF SealedInv, Sorted, ListsSorted
  <2>4. lists' # <<>>
    BY <1>5
  <2> QED BY <2>3, <2>4
<1>8. Sorted'
  BY <1>1, <1>2, <1>7, NextPartSorted DEF SealedInv, f
<1>9. Separate(Contents') /\ DeadSlots' \subseteq DeadSlots
  <2>1. ContentsKnown /\ ContentsKnown'
    BY ContentsAre, PTL
  <2>2. t \in DOMAIN Contents /\ Contents[t] = Scope.ops
    <3>1. n \in DOMAIN scopes
      BY <1>3
    <3> QED BY <1>3, <2>1, <3>1, Zenon DEF ContentsKnown
  <2>3. \A k \in 1 .. n : k = n \/ (k \in 1 .. n - 1 /\ k \in DOMAIN scopes)
    <3>1. n \in Nat \ {0} /\ DOMAIN scopes = 1 .. n
      BY <1>3
    <3> HIDE DEF n
    <3> QED BY <3>1
  <2>4. ASSUME NEW b \in DOMAIN Contents'
        PROVE  \/ Contents'[b] = <<>>
               \/ b = p /\ Contents'[b] = Contents[t]
               \/ b # p /\ b # t /\ b \in DOMAIN Contents /\ Contents'[b] = Contents[b]
    <3>0. b \in Places'
      BY <2>1 DEF ContentsKnown
    <3>1. CASE \E k \in DOMAIN scopes' : b = <<"ops", k>> /\ Contents'[b] = scopes'[k].ops
      <4>1. PICK k \in 1 .. n : b = <<"ops", k>> /\ Contents'[b] = scopes'[k].ops
        BY <1>3, <3>1
      <4>2. CASE k = n
        BY <1>3, <1>4, <4>1, <4>2
      <4>3. CASE k # n
        <5>1. k \in DOMAIN scopes /\ scopes'[k] = scopes[k]
          BY <1>3, <2>3, <4>3
        <5>2. b \in DOMAIN Contents /\ Contents[b] = scopes[k].ops
          BY <2>1, <4>1, <5>1 DEF ContentsKnown
        <5> QED BY <4>1, <4>3, <5>1, <5>2
      <4> QED BY <4>2, <4>3
    <3>2. CASE \E k \in DOMAIN scopes' : b = <<"then", k>> /\ Contents'[b] = scopes'[k].then
      <4>1. PICK k \in 1 .. n : b = <<"then", k>> /\ Contents'[b] = scopes'[k].then
        BY <1>3, <3>2
      <4>2. CASE k = n
        BY <1>3, <1>4, <4>1, <4>2
      <4>3. CASE k # n
        <5>1. k \in DOMAIN scopes /\ scopes'[k] = scopes[k]
          BY <1>3, <2>3, <4>3
        <5>2. b \in DOMAIN Contents /\ Contents[b] = scopes[k].then
          BY <2>1, <4>1, <5>1 DEF ContentsKnown
        <5> QED BY <4>1, <5>1, <5>2
      <4> QED BY <4>2, <4>3
    <3>3. CASE \E m \in DOMAIN lists' : b = <<"list", m>> /\ Contents'[b] = lists'[m]
      <4>1. PICK m \in DOMAIN lists' : b = <<"list", m>> /\ Contents'[b] = lists'[m]
        BY <3>3
      <4>2. CASE m \in DOMAIN lists /\ lists'[m] = lists[m]
        <5>1. b \in DOMAIN Contents /\ Contents[b] = lists[m]
          BY <2>1, <4>1, <4>2 DEF ContentsKnown
        <5>2. m # Len(lists) + 1
          BY <1>5, <4>2
        <5> QED BY <4>1, <4>2, <5>1, <5>2
      <4>3. CASE m = Len(lists) + 1 /\ lists'[m] = Scope.ops
        BY <2>2, <4>1, <4>3
      <4> QED BY <1>6, <4>2, <4>3
    <3> QED BY <2>1, <3>0, <3>1, <3>2, <3>3 DEF ContentsKnown
  <2>5. Separate(Contents)
    BY DEF SealedInv
  <2> HIDE DEF t, p
  <2> QED BY <2>2, <2>4, <2>5, Moved
<1>10. Unseen' /\ Aged'
  BY <1>1, <1>2, <1>9, NextPartSealed DEF f
<1> QED BY <1>8, <1>9, <1>10 DEF SealedInv

LEMMA CloseThenSealed ==
  ASSUME IInv, SealedInv, CloseThen
  PROVE  SealedInv'
<1> DEFINE n == Len(scopes)
           f == NewScope("otherwise", Restored, Scope.ops)
           t == <<"ops", n>>
           p == <<"then", n>>
<1>1. /\ status = "compiling" /\ Scope.kind = "then" /\ lists' = lists
      /\ scopes' = Append(Front(scopes), f)
      /\ env' = Restored /\ values' = <<>>
  BY DEF CloseThen
<1>2. /\ n \in Nat \ {0} /\ DOMAIN scopes = 1 .. n /\ Scope = scopes[n]
      /\ DOMAIN scopes' = 1 .. n
      /\ \A k \in 1 .. n - 1 : scopes'[k] = scopes[k]
      /\ scopes'[n] = f
  BY <1>1, TopFollowed, Zenon
<1>3. n \in DOMAIN scopes /\ \A k \in 1 .. n : k = n \/ (k \in 1 .. n - 1 /\ k \in DOMAIN scopes)
  <2>1. n \in Nat \ {0} /\ DOMAIN scopes = 1 .. n
    BY <1>2
  <2> HIDE DEF n
  <2> QED BY <2>1
<1>4. Named(Scope.ops, ApplyNames) /\ Old(Scope.ops, Len(env.slots)) /\ lists # <<>>
  <2>1. SortedScope(Scope) /\ lists # <<>>
    BY <1>1, <1>2, <1>3 DEF SealedInv, Sorted, ScopesSorted, ApplyKinds
  <2>2. Named(Scope.ops, ApplyNames)
    BY <1>1, <2>1 DEF SortedScope, NamesOf, SelectKinds
  <2>3. Aged
    BY DEF SealedInv
  <2> QED BY <1>1, <1>2, <1>3, <2>1, <2>2, <2>3, OldNow
<1>5. f.ops = <<>> /\ f.then = Scope.ops
  BY DEF NewScope
<1> HIDE DEF f
<1>6. ListsSorted' /\ lists' # <<>>
  BY <1>1, <1>4 DEF SealedInv, Sorted, ListsSorted
<1>7. Sorted'
  BY <1>1, <1>4, <1>6, NextPartSorted DEF SealedInv, f
<1>8. Separate(Contents') /\ DeadSlots' \subseteq DeadSlots
  <2>1. ContentsKnown /\ ContentsKnown'
    BY ContentsAre, PTL
  <2>2. t \in DOMAIN Contents /\ Contents[t] = Scope.ops
    BY <1>2, <1>3, <2>1 DEF ContentsKnown
  <2>3. ASSUME NEW b \in DOMAIN Contents'
        PROVE  \/ Contents'[b] = <<>>
               \/ b = p /\ Contents'[b] = Contents[t]
               \/ b # p /\ b # t /\ b \in DOMAIN Contents /\ Contents'[b] = Contents[b]
    <3>0. b \in Places'
      BY <2>1 DEF ContentsKnown
    <3>1. CASE \E k \in DOMAIN scopes' : b = <<"ops", k>> /\ Contents'[b] = scopes'[k].ops
      <4>1. PICK k \in 1 .. n : b = <<"ops", k>> /\ Contents'[b] = scopes'[k].ops
        BY <1>2, <3>1
      <4>2. CASE k = n
        BY <1>2, <1>5, <4>1, <4>2
      <4>3. CASE k # n
        <5>1. k \in DOMAIN scopes /\ scopes'[k] = scopes[k]
          BY <1>2, <1>3, <4>3
        <5>2. b \in DOMAIN Contents /\ Contents[b] = scopes[k].ops
          BY <2>1, <4>1, <5>1 DEF ContentsKnown
        <5> QED BY <4>1, <4>3, <5>1, <5>2
      <4> QED BY <4>2, <4>3
    <3>2. CASE \E k \in DOMAIN scopes' : b = <<"then", k>> /\ Contents'[b] = scopes'[k].then
      <4>1. PICK k \in 1 .. n : b = <<"then", k>> /\ Contents'[b] = scopes'[k].then
        BY <1>2, <3>2
      <4>2. CASE k = n
        BY <1>2, <1>5, <2>2, <4>1, <4>2
      <4>3. CASE k # n
        <5>1. k \in DOMAIN scopes /\ scopes'[k] = scopes[k]
          BY <1>2, <1>3, <4>3
        <5>2. b \in DOMAIN Contents /\ Contents[b] = scopes[k].then
          BY <2>1, <4>1, <5>1 DEF ContentsKnown
        <5> QED BY <4>1, <4>3, <5>1, <5>2
      <4> QED BY <4>2, <4>3
    <3>3. CASE \E m \in DOMAIN lists' : b = <<"list", m>> /\ Contents'[b] = lists'[m]
      BY <1>1, <2>1, <3>3 DEF ContentsKnown
    <3> QED BY <2>1, <3>0, <3>1, <3>2, <3>3 DEF ContentsKnown
  <2>4. Separate(Contents)
    BY DEF SealedInv
  <2> HIDE DEF t, p
  <2> QED BY <2>2, <2>3, <2>4, Moved
<1>9. Unseen' /\ Aged'
  BY <1>1, <1>4, <1>8, NextPartSealed DEF f
<1> QED BY <1>7, <1>8, <1>9 DEF SealedInv

\* The select part is complete, and the apply part begins.
LEMMA SelectEnds ==
  ASSUME IInv, status = "compiling", CloseSelect, NEW f, f = NewScope("apply", env, <<>>)
  PROVE  /\ DOMAIN scopes' = {1} /\ scopes'[1] = f /\ Scope' = f
         /\ DOMAIN lists' = {1} /\ lists'[1] = Scope.ops /\ lists' # <<>>
         /\ env' = env /\ values' = <<>> /\ status' = status /\ Scope.kind = "select"
         /\ f.kind = "apply" /\ f.visible = env.visible /\ f.mark = Len(env.slots)
         /\ f.ops = <<>> /\ f.then = <<>> /\ SortedScope(f)
         /\ Len(scopes) \in DOMAIN scopes /\ Scope = scopes[Len(scopes)]
<1>1. /\ lists' = <<Scope.ops>> /\ scopes' = <<f>>
      /\ env' = env /\ values' = <<>> /\ status' = status /\ Scope.kind = "select"
  BY DEF CloseSelect
<1>2. Named(<<>>, ApplyNames)
  BY DEF Named
<1>3. /\ f.kind = "apply" /\ f.visible = env.visible /\ f.mark = Len(env.slots)
      /\ f.ops = <<>> /\ f.then = <<>> /\ SortedScope(f)
  BY <1>2, Begun
<1>4. \A x : DOMAIN <<x>> = {1} /\ <<x>>[1] = x /\ <<x>> # <<>> /\ Last(<<x>>) = x
  BY DEF Last
<1>5. Scope' = f
  BY <1>1, <1>4 DEF Scope
<1>6. Len(scopes) \in DOMAIN scopes /\ Scope = scopes[Len(scopes)]
  BY Shape, LenProperties
<1> HIDE DEF Scope
<1> QED BY <1>1, <1>3, <1>4, <1>5, <1>6

LEMMA CloseSelectSorted ==
  ASSUME IInv, Sorted, CloseSelect
  PROVE  Sorted'
<1> DEFINE f == NewScope("apply", env, <<>>)
<1>0. status = "compiling"
  BY DEF CloseSelect
<1>1. /\ DOMAIN scopes' = {1} /\ scopes'[1] = f
      /\ DOMAIN lists' = {1} /\ lists'[1] = Scope.ops /\ lists' # <<>>
      /\ values' = <<>> /\ Scope.kind = "select"
      /\ SortedScope(f)
      /\ Len(scopes) \in DOMAIN scopes /\ Scope = scopes[Len(scopes)]
  BY <1>0, SelectEnds, Zenon
<1> HIDE DEF f
<1>2. SortedScope(Scope)
  BY <1>1 DEF Sorted, ScopesSorted
<1>3. ListsSorted'
  BY <1>1, <1>2 DEF ListsSorted, SortedScope, NamesOf, SelectKinds
<1>4. Within(1)'
  BY DEF Within
<1>5. ScopesSorted'
  BY <1>1, <1>4 DEF ScopesSorted
<1>6. ValuesSorted'
  BY <1>1 DEF ValuesSorted
<1> QED BY <1>1, <1>3, <1>5, <1>6 DEF Sorted

LEMMA CloseSelectSealed ==
  ASSUME IInv, SealedInv, CloseSelect
  PROVE  SealedInv'
<1> DEFINE n == Len(scopes)
           f == NewScope("apply", env, <<>>)
           t == <<"ops", n>>
           p == <<"list", 1>>
<1>0. status = "compiling"
  BY DEF CloseSelect
<1>1. /\ DOMAIN scopes' = {1} /\ scopes'[1] = f
      /\ DOMAIN lists' = {1} /\ lists'[1] = Scope.ops
      /\ env' = env /\ values' = <<>>
      /\ f.kind = "apply" /\ f.visible = env.visible /\ f.mark = Len(env.slots)
      /\ f.ops = <<>> /\ f.then = <<>>
      /\ n \in DOMAIN scopes /\ Scope = scopes[n]
  BY <1>0, SelectEnds, Zenon
<1> HIDE DEF f
<1>2. Separate(Contents') /\ DeadSlots' \subseteq DeadSlots
  <2>1. ContentsKnown /\ ContentsKnown'
    BY ContentsAre, PTL
  <2>2. t \in DOMAIN Contents /\ Contents[t] = Scope.ops
    BY <1>1, <2>1 DEF ContentsKnown
  <2>3. \A b \in DOMAIN Contents' :
          Contents'[b] = <<>> \/ (b = p /\ Contents'[b] = Contents[t])
    <3> SUFFICES ASSUME NEW b \in Places'
                 PROVE  Contents'[b] = <<>> \/ (b = p /\ Contents'[b] = Contents[t])
      BY <2>1 DEF ContentsKnown
    <3>1. CASE \E k \in DOMAIN scopes' : b = <<"ops", k>> /\ Contents'[b] = scopes'[k].ops
      BY <1>1, <3>1
    <3>2. CASE \E k \in DOMAIN scopes' : b = <<"then", k>> /\ Contents'[b] = scopes'[k].then
      BY <1>1, <3>2
    <3>3. CASE \E m \in DOMAIN lists' : b = <<"list", m>> /\ Contents'[b] = lists'[m]
      BY <1>1, <2>2, <3>3
    <3> QED BY <2>1, <3>1, <3>2, <3>3 DEF ContentsKnown
  <2>4. Separate(Contents)
    BY DEF SealedInv
  <2> HIDE DEF t, p
  <2>5. \A b \in DOMAIN Contents' :
          \/ Contents'[b] = <<>>
          \/ b = p /\ Contents'[b] = Contents[t]
          \/ b # p /\ b # t /\ b \in DOMAIN Contents /\ Contents'[b] = Contents[b]
    BY <2>3, Zenon
  <2> QED BY <2>2, <2>4, <2>5, Moved, Zenon
<1>3. Unseen'
  <2> DEFINE S == LiveIn(env)'
  <2>1. env.visible \in [Names -> S \cup {NoSlot}]
    BY <1>1, <1>2, LiveKept DEF SealedInv, Unseen
  <2>2. values' \in Seq(ValueFrame(S))
    BY <1>1, EmptySeq
  <2> QED BY <1>1, <2>1, <2>2 DEF Unseen
<1>4. Aged'
  <2>1. /\ Len(env.slots) \in Nat
        /\ \A x \in Names : env.visible[x] < Len(env.slots)
    BY <1>0, OldNow DEF SealedInv
  <2>2. Old(<<>>, Len(env.slots))
    BY NothingUsed DEF Old
  <2>3. \A j \in 1 .. 1 - 1 : FALSE
    OBVIOUS
  <2> QED BY <1>1, <2>1, <2>2, <2>3 DEF Aged
<1>5. Sorted'
  BY CloseSelectSorted DEF SealedInv
<1> QED BY <1>2, <1>3, <1>4, <1>5 DEF SealedInv

\* A rule ends when its apply part does.
LEMMA EndSorted ==
  ASSUME IInv, Sorted, status = "compiling", Scope.kind \in ApplyKinds,
         UNCHANGED <<env, scopes, values, lists>>
  PROVE  Sorted'
<1>1. Len(scopes) \in DOMAIN scopes /\ Scope = scopes[Len(scopes)]
  BY Shape, LenProperties
<1>2. lists # <<>>
  BY <1>1 DEF Sorted, ScopesSorted
<1>3. ScopesSorted' /\ ListsSorted'
  BY DEF Sorted, ScopesSorted, ListsSorted, Within
<1>4. ValuesSorted'
  BY DEF Sorted, ValuesSorted, Scope
<1> QED BY <1>2, <1>3, <1>4 DEF Sorted

LEMMA VerifySealed ==
  ASSUME IInv, SealedInv, Verify
  PROVE  SealedInv'
<1>1. /\ status = "compiling" /\ Scope.kind \in ApplyKinds
      /\ UNCHANGED <<env, scopes, values, lists>>
  BY DEF Verify, ApplyKinds
<1>2. Sorted'
  BY <1>1, EndSorted DEF SealedInv
<1>3. Contents' = Contents
  BY <1>1 DEF Contents, Places
<1>4. LiveIn(env)' = LiveIn(env)
  BY <1>1, <1>3 DEF LiveIn, DeadSlots
<1>5. Unseen'
  BY <1>1, <1>4 DEF SealedInv, Unseen
<1>6. Aged'
  BY <1>1 DEF SealedInv, Aged
<1>7. Separate(Contents')
  BY <1>3 DEF SealedInv
<1> QED BY <1>2, <1>5, <1>6, <1>7 DEF SealedInv

-----------------------------------------------------------------------------
(* What a construct does where it may stand.                               *)

LEMMA AllowedParts ==
  ASSUME NEW S, NEW more \in Ops(S), Fits(more, Scope.kind),
         NEW items \in Seq(ItemOf(S)), items = <<>> \/ values # <<>>
  PROVE  /\ Allowed(S, more, items, <<>>)
         /\ \A f : <<f>> \in Seq(ValueFrame(S)) /\ SortedValue(f, Scope.kind)
              => Allowed(S, more, items, <<f>>)
<1>1. Allowed(S, more, items, <<>>)
  BY Nothing DEF Allowed
<1>2. ASSUME NEW f, <<f>> \in Seq(ValueFrame(S)), SortedValue(f, Scope.kind)
      PROVE  Allowed(S, more, items, <<f>>)
  <2>1. DOMAIN <<f>> = {1} /\ <<f>>[1] = f
    OBVIOUS
  <2> HIDE DEF SortedValue
  <2>2. \A i \in DOMAIN <<f>> : SortedValue(<<f>>[i], Scope.kind)
    BY <1>2, <2>1
  <2> QED BY <1>2, <2>2 DEF Allowed
<1> QED BY <1>1, <1>2

SelectTests == {"RequireValue", "Require", "AssertObject", "CompareBinding"}

\* In a select list.
LEMMA SelectAllowed ==
  ASSUME Scope.kind \in SelectKinds, NEW S, NEW b \in S, NEW s \in S,
         NEW items, items = <<>> \/ (values # <<>> /\ items \in {<<Slot(s)>>, <<Literal>>, <<Ignore>>}),
         NEW more, \/ more = <<>> \/ more = <<AttributeOp(b, s)>>
                   \/ more = <<AttributeOp(b, s), Test("AssertObject", s)>>
                   \/ \E op \in SelectTests : more = <<Test(op, b)>>
  PROVE  /\ Allowed(S, more, items, <<>>)
         /\ \A kind \in {"tuple", "enum", "struct", "calculation"} :
              Allowed(S, more, items, <<Open(kind, s, <<>>)>>)
<1>1. NamesOf(Scope.kind) \ {"Not"} = SelectNames \ {"Not"}
  BY DEF NamesOf
<1>2. Fits(more, Scope.kind)
  <2>1. CASE more = <<>>
    BY <2>1 DEF Fits, Named
  <2>2. CASE more = <<AttributeOp(b, s)>>
    BY <1>1, <2>2 DEF Fits, Named, AttributeOp, SelectNames
  <2>3. CASE more = <<AttributeOp(b, s), Test("AssertObject", s)>>
    BY <1>1, <2>3 DEF Fits, Named, AttributeOp, Test, SelectNames
  <2>4. ASSUME NEW op \in SelectTests, more = <<Test(op, b)>> PROVE Fits(more, Scope.kind)
    BY <1>1, <2>4 DEF Fits, Named, Test, SelectNames, SelectTests
  <2> QED BY <2>1, <2>2, <2>3, <2>4
<1>3. more \in Ops(S)
  BY OperationPieces DEF SelectTests
<1>4. items \in Seq(ItemOf(S)) /\ (items = <<>> \/ values # <<>>)
  BY ItemPieces
<1>5. \A kind \in {"tuple", "enum", "struct", "calculation"} :
        /\ <<Open(kind, s, <<>>)>> \in Seq(ValueFrame(S))
        /\ SortedValue(Open(kind, s, <<>>), Scope.kind)
  <2>1. \A kind \in {"tuple", "enum", "struct", "calculation"} :
          <<Open(kind, s, <<>>)>> \in Seq(ValueFrame(S))
    BY Nothing, OpenPieces
  <2>2. \A kind \in {"tuple", "enum", "struct", "calculation"} :
          SortedValue(Open(kind, s, <<>>), Scope.kind)
    BY DEF Open, SortedValue, SelectValues, Named
  <2> QED BY <2>1, <2>2
<1> QED BY <1>2, <1>3, <1>4, <1>5, AllowedParts

\* In an apply list.
LEMMA ApplyAllowed ==
  ASSUME Scope.kind \in ApplyKinds, NEW S, NEW b \in S, NEW s \in S,
         NEW items, items = <<>> \/ (values # <<>> /\ items \in {<<Slot(s)>>, <<Literal>>}),
         NEW op \in {"Add", "Remove"}, NEW value \in ItemOf(S),
         NEW edit, edit = <<Edit(op, b, value)>>,
         NEW more \in {<<>>, <<Create(s)>>, edit}, NEW after \in {<<>>, edit}
  PROVE  /\ Allowed(S, more, items, <<>>)
         /\ \A kind \in {"new", "removed", "object"} :
              Allowed(S, more, items, <<Open(kind, s, after)>>)
<1>1. NamesOf(Scope.kind) \ {"Not"} = ApplyNames
  BY DEF NamesOf, ApplyKinds, SelectKinds, ApplyNames
<1>2. edit \in Ops(S) /\ <<Create(s)>> \in Ops(S) /\ <<>> \in Ops(S)
  BY OperationPieces
<1>3. Named(edit, ApplyNames) /\ Named(<<Create(s)>>, ApplyNames) /\ Named(<<>>, ApplyNames)
  BY DEF Named, ApplyNames, Edit, Create
<1>4. more \in Ops(S) /\ Fits(more, Scope.kind) /\ after \in Ops(S) /\ Named(after, ApplyNames)
  BY <1>1, <1>2, <1>3 DEF Fits
<1>5. items \in Seq(ItemOf(S)) /\ (items = <<>> \/ values # <<>>)
  BY ItemPieces
<1>6. \A kind \in {"new", "removed", "object"} :
        /\ <<Open(kind, s, after)>> \in Seq(ValueFrame(S))
        /\ SortedValue(Open(kind, s, after), Scope.kind)
  <2>1. \A kind \in {"new", "removed", "object"} :
          <<Open(kind, s, after)>> \in Seq(ValueFrame(S))
    BY <1>4, OpenPieces
  <2>2. \A kind \in {"new", "removed", "object"} :
          SortedValue(Open(kind, s, after), Scope.kind)
    BY <1>4 DEF Open, SortedValue, SelectValues
  <2> QED BY <2>1, <2>2
<1> QED BY <1>4, <1>5, <1>6, AllowedParts

\* Which kind of list what is open is in.
LEMMA InnerSorted ==
  ASSUME IInv, Sorted, status = "compiling", values # <<>>
  PROVE  /\ SortedValue(Inner, Scope.kind)
         /\ Inner.kind \in SelectValues => Scope.kind \in SelectKinds
         /\ Inner.kind \notin SelectValues => Scope.kind \in ApplyKinds
<1>1. Len(values) \in DOMAIN values
  BY Shape, LenProperties
<1>2. SortedValue(Inner, Scope.kind)
  BY <1>1 DEF Sorted, ValuesSorted, Inner, Last
<1> QED BY <1>2 DEF SortedValue

\* What is open has no slot that is dead.
LEMMA InnerLive ==
  ASSUME IInv, SealedInv, status = "compiling", values # <<>>
  PROVE  /\ Inner \in ValueFrame(LiveIn(env))
         /\ Inner.kind # "comparison" => Inner.slot \in LiveIn(env)
<1>1. Len(values) \in DOMAIN values /\ values \in Seq(ValueFrame(LiveIn(env)))
      /\ DOMAIN values = 1 .. Len(values)
  BY Shape, LenProperties DEF SealedInv, Unseen
<1>2. Inner \in ValueFrame(LiveIn(env))
  BY <1>1, ElementOfSeq DEF Inner, Last
<1> QED BY <1>2 DEF ValueFrame

\* The kind of the list that a construct is in.
LEMMA KindHere ==
  /\ InSelect => Scope.kind \in SelectKinds
  /\ InApply => Scope.kind \in ApplyKinds
BY DEF InSelect, InApply, SelectKinds, ApplyKinds

LEMMA ErrorsSealed ==
  ASSUME NEW why, Stop(why),
         \/ \E v : why = ExistingError(v)
         \/ why \in {"IllegalReuse", "IllegalBindingMatch", "IllegalNamedBinding",
                     "IllegalEnumSpecification", "IllegalObjectSpecification", "IllegalWildcard"}
  PROVE  SealedInv'
BY StopSealed DEF ExistingError

-----------------------------------------------------------------------------
(* The constructs of a rule in text.                                       *)

LEMMA AttributeStepSealed ==
  ASSUME IInv, SealedInv, status = "compiling", Scope.kind \in SelectKinds, NEW e, Live(e),
         NEW b \in LiveIn(e), NEW spec, IsSpec(spec), AttributeStep(e, b, spec)
  PROVE  SealedInv'
<1> DEFINE s == SlotOf(e, spec.variable)
           bound == Bound(e, spec.variable)
           S == LiveIn(bound)
           R == LiveIn(e)
<1>1. Live(bound) /\ s \in S /\ b \in S /\ b \in R
  BY BoundLive DEF IsSpec
<1>2. \/ \E op \in SelectTests : Step(e, <<Test(op, b)>>, <<>>, <<>>)
      \/ Step(bound, <<AttributeOp(b, s)>>, <<>>, <<>>)
      \/ \E kind \in {"tuple", "enum"} :
           Step(bound, <<AttributeOp(b, s)>>, <<>>, <<Open(kind, s, <<>>)>>)
      \/ Step(bound, <<AttributeOp(b, s), Test("AssertObject", s)>>, <<>>,
              <<Open("struct", s, <<>>)>>)
  <2>1. {"RequireValue", "Require"} \subseteq SelectTests
    BY DEF SelectTests
  <2> QED BY <2>1, Zenon DEF AttributeStep
<1> HIDE DEF s, bound, S, R
<1>3. \A op \in SelectTests : Allowed(R, <<Test(op, b)>>, <<>>, <<>>)
  BY <1>1, SelectAllowed
<1>4. /\ Allowed(S, <<AttributeOp(b, s)>>, <<>>, <<>>)
      /\ \A kind \in {"tuple", "enum"} :
           Allowed(S, <<AttributeOp(b, s)>>, <<>>, <<Open(kind, s, <<>>)>>)
  BY <1>1, SelectAllowed
<1>5. Allowed(S, <<AttributeOp(b, s), Test("AssertObject", s)>>, <<>>, <<Open("struct", s, <<>>)>>)
  BY <1>1, SelectAllowed
<1>6. ASSUME NEW op \in SelectTests, Step(e, <<Test(op, b)>>, <<>>, <<>>)
      PROVE  SealedInv'
  BY <1>3, <1>6, StepSealed DEF R
<1>7. CASE Step(bound, <<AttributeOp(b, s)>>, <<>>, <<>>)
  BY <1>1, <1>4, <1>7, StepSealed DEF S
<1>8. ASSUME NEW kind \in {"tuple", "enum"},
             Step(bound, <<AttributeOp(b, s)>>, <<>>, <<Open(kind, s, <<>>)>>)
      PROVE  SealedInv'
  BY <1>1, <1>4, <1>8, StepSealed DEF S
<1>9. CASE Step(bound, <<AttributeOp(b, s), Test("AssertObject", s)>>, <<>>,
                <<Open("struct", s, <<>>)>>)
  BY <1>1, <1>5, <1>9, StepSealed DEF S
<1> QED BY <1>2, <1>6, <1>7, <1>8, <1>9

LEMMA SelectBindingSealed ==
  ASSUME IInv, SealedInv, SelectBinding
  PROVE  SealedInv'
<1>1. PICK v \in Variables, spec \in Specs :
        LET e == Bound(env, v)
            s == SlotOf(env, v)
        IN  \/ Stop(ExistingError(v))
            \/ Stop("IllegalBindingMatch")
            \/ Stop("IllegalNamedBinding")
            \/ Step(e, <<Test("CompareBinding", s)>>, <<>>, <<>>)
            \/ \E kind \in {"tuple", "enum"} : Step(e, <<>>, <<>>, <<Open(kind, s, <<>>)>>)
            \/ Step(e, <<Test("AssertObject", s)>>, <<>>, <<Open("struct", s, <<>>)>>)
  BY Zenon DEF SelectBinding
<1>2. status = "compiling" /\ Scope.kind \in SelectKinds
  BY KindHere DEF SelectBinding, More
<1> DEFINE e == Bound(env, v)
           s == SlotOf(env, v)
           S == LiveIn(e)
<1>3. Live(e) /\ s \in S
  BY <1>2, LiveHere, BoundLive
<1>4. CASE Stop(ExistingError(v)) \/ Stop("IllegalBindingMatch") \/ Stop("IllegalNamedBinding")
  BY <1>4, ErrorsSealed
<1> HIDE DEF e, s, S
<1>5. "CompareBinding" \in SelectTests /\ "AssertObject" \in SelectTests
  BY DEF SelectTests
<1>6. Allowed(S, <<Test("CompareBinding", s)>>, <<>>, <<>>)
  BY <1>2, <1>3, <1>5, SelectAllowed
<1>7. \A kind \in {"tuple", "enum"} : Allowed(S, <<>>, <<>>, <<Open(kind, s, <<>>)>>)
  BY <1>2, <1>3, SelectAllowed
<1>8. Allowed(S, <<Test("AssertObject", s)>>, <<>>, <<Open("struct", s, <<>>)>>)
  BY <1>2, <1>3, <1>5, SelectAllowed
<1>9. CASE Step(e, <<Test("CompareBinding", s)>>, <<>>, <<>>)
  BY <1>2, <1>3, <1>6, <1>9, StepSealed DEF S
<1>10. ASSUME NEW kind \in {"tuple", "enum"}, Step(e, <<>>, <<>>, <<Open(kind, s, <<>>)>>)
       PROVE  SealedInv'
  BY <1>2, <1>3, <1>7, <1>10, StepSealed DEF S
<1>11. CASE Step(e, <<Test("AssertObject", s)>>, <<>>, <<Open("struct", s, <<>>)>>)
  BY <1>2, <1>3, <1>8, <1>11, StepSealed DEF S
<1> QED BY <1>1, <1>4, <1>9, <1>10, <1>11 DEF e, s

LEMMA SelectAttributeSealed ==
  ASSUME IInv, SealedInv, SelectAttribute
  PROVE  SealedInv'
<1>1. status = "compiling" /\ Scope.kind \in SelectKinds
  BY KindHere DEF SelectAttribute, More
<1>2. PICK v \in Variables, spec \in Specs :
        IF Known(env, v) THEN AttributeStep(Bound(env, v), SlotOf(env, v), spec)
                         ELSE Stop(ExistingError(v))
  BY DEF SelectAttribute
<1>3. CASE Stop(ExistingError(v))
  BY <1>3, ErrorsSealed
<1>4. CASE AttributeStep(Bound(env, v), SlotOf(env, v), spec)
  BY <1>1, <1>4, LiveHere, BoundLive, SpecsAreSpecs, AttributeStepSealed
<1> QED BY <1>2, <1>3, <1>4

LEMMA SelectNestedSealed ==
  ASSUME IInv, SealedInv, SelectNested
  PROVE  SealedInv'
<1>1. status = "compiling" /\ values # <<>> /\ Inner.kind = "struct"
  BY DEF SelectNested, More, InValue
<1>2. PICK spec \in Specs : AttributeStep(env, Inner.slot, spec)
  BY DEF SelectNested
<1>3. Inner.slot \in LiveIn(env) /\ Live(env)
  BY <1>1, LiveHere, InnerLive
<1>4. IsSpec(spec) /\ Scope.kind \in SelectKinds
  BY <1>1, SpecsAreSpecs, InnerSorted DEF SelectValues, SealedInv
<1> QED BY <1>1, <1>2, <1>3, <1>4, AttributeStepSealed

LEMMA SelectItemSealed ==
  ASSUME IInv, SealedInv, SelectItem
  PROVE  SealedInv'
<1>1. PICK spec \in Specs :
        LET e == Bound(env, spec.variable)
            s == SlotOf(env, spec.variable)
        IN  \/ Step(env, <<>>, <<Literal>>, <<>>)
            \/ Step(env, <<>>, <<Ignore>>, <<>>)
            \/ Step(e, <<>>, <<Slot(s)>>, <<>>)
            \/ \E kind \in {"tuple", "enum"} :
                 Step(e, <<>>, <<Slot(s)>>, <<Open(kind, s, <<>>)>>)
            \/ Step(e, <<Test("AssertObject", s)>>, <<Slot(s)>>, <<Open("struct", s, <<>>)>>)
  BY Zenon DEF SelectItem
<1>2. /\ status = "compiling" /\ values # <<>> /\ Inner.kind = "tuple"
  BY DEF SelectItem, More, InValue
<1> DEFINE e == Bound(env, spec.variable)
           s == SlotOf(env, spec.variable)
           S == LiveIn(e)
           R == LiveIn(env)
<1>3. Live(e) /\ s \in S /\ Live(env) /\ Scope.kind \in SelectKinds
  BY <1>2, LiveHere, BoundLive, SpecsAreSpecs, InnerSorted DEF IsSpec, SelectValues, SealedInv
<1>4. Inner.slot \in R
  BY <1>2, InnerLive
<1> HIDE DEF e, s, S, R
<1>5. Allowed(R, <<>>, <<Literal>>, <<>>) /\ Allowed(R, <<>>, <<Ignore>>, <<>>)
  BY <1>2, <1>3, <1>4, SelectAllowed
<1>6. /\ Allowed(S, <<>>, <<Slot(s)>>, <<>>)
      /\ \A kind \in {"tuple", "enum"} : Allowed(S, <<>>, <<Slot(s)>>, <<Open(kind, s, <<>>)>>)
  BY <1>2, <1>3, SelectAllowed
<1>7. Allowed(S, <<Test("AssertObject", s)>>, <<Slot(s)>>, <<Open("struct", s, <<>>)>>)
  <2>1. "AssertObject" \in SelectTests
    BY DEF SelectTests
  <2> QED BY <1>2, <1>3, <2>1, SelectAllowed
<1>8. CASE Step(env, <<>>, <<Literal>>, <<>>) \/ Step(env, <<>>, <<Ignore>>, <<>>)
  BY <1>2, <1>3, <1>5, <1>8, StepSealed DEF R
<1>9. CASE Step(e, <<>>, <<Slot(s)>>, <<>>)
  BY <1>2, <1>3, <1>6, <1>9, StepSealed DEF S
<1>10. ASSUME NEW kind \in {"tuple", "enum"}, Step(e, <<>>, <<Slot(s)>>, <<Open(kind, s, <<>>)>>)
       PROVE  SealedInv'
  BY <1>2, <1>3, <1>6, <1>10, StepSealed DEF S
<1>11. CASE Step(e, <<Test("AssertObject", s)>>, <<Slot(s)>>, <<Open("struct", s, <<>>)>>)
  BY <1>2, <1>3, <1>7, <1>11, StepSealed DEF S
<1> QED BY <1>1, <1>8, <1>9, <1>10, <1>11 DEF e, s

LEMMA ComparisonSealed ==
  ASSUME IInv, SealedInv, Comparison
  PROVE  SealedInv'
<1> DEFINE f == Open("comparison", NoSlot, <<>>)
           S == LiveIn(env)
<1>1. /\ status = "compiling" /\ Step(env, <<>>, <<>>, <<f>>) /\ Scope.kind \in SelectKinds
  BY KindHere DEF Comparison, More
<1>2. SortedValue(f, Scope.kind)
  BY <1>1 DEF Open, SortedValue, SelectValues, Named
<1>3. <<>> \in Ops(S) /\ <<>> \in Seq(ItemOf(S)) /\ <<f>> \in Seq(ValueFrame(S))
  BY Nothing, OpenPieces
<1>4. Fits(<<>>, Scope.kind)
  BY DEF Fits, Named
<1> HIDE DEF f, S
<1>5. Allowed(S, <<>>, <<>>, <<f>>)
  BY <1>2, <1>3, <1>4, AllowedParts
<1> QED BY <1>1, <1>5, LiveHere, StepSealed DEF S

LEMMA CalculationSealed ==
  ASSUME IInv, SealedInv, Calculation
  PROVE  SealedInv'
<1>1. PICK v \in Variables :
        \/ Stop("IllegalWildcard") \/ Stop("IllegalReuse")
        \/ Step(Bound(env, v), <<>>, <<>>, <<Open("calculation", SlotOf(env, v), <<>>)>>)
  BY Zenon DEF Calculation
<1>2. status = "compiling" /\ Scope.kind \in SelectKinds
  BY KindHere DEF Calculation, More
<1>3. CASE Stop("IllegalWildcard") \/ Stop("IllegalReuse")
  BY <1>3, ErrorsSealed
<1> DEFINE e == Bound(env, v)
           s == SlotOf(env, v)
           S == LiveIn(e)
<1>4. Live(e) /\ s \in S
  BY <1>2, LiveHere, BoundLive
<1> HIDE DEF e, s, S
<1>5. Allowed(S, <<>>, <<>>, <<Open("calculation", s, <<>>)>>)
  BY <1>2, <1>4, SelectAllowed
<1>6. CASE Step(e, <<>>, <<>>, <<Open("calculation", s, <<>>)>>)
  BY <1>2, <1>4, <1>5, <1>6, StepSealed DEF S
<1> QED BY <1>1, <1>3, <1>6 DEF e, s

LEMMA OperandSealed ==
  ASSUME IInv, SealedInv, Operand
  PROVE  SealedInv'
<1>1. status = "compiling" /\ values # <<>> /\ Inner.kind \in SelectValues
  BY DEF Operand, More, InValue, SelectValues
<1>2. \/ Step(env, <<>>, <<Literal>>, <<>>)
      \/ \E v \in Variables :
           \/ Step(Bound(env, v), <<>>, <<Slot(SlotOf(env, v))>>, <<>>)
           \/ Stop(ExistingError(v))
  BY Zenon DEF Operand
<1>3. Live(env) /\ Scope.kind \in SelectKinds
  BY <1>1, LiveHere, InnerSorted DEF SealedInv
<1>4. Fits(<<>>, Scope.kind)
  BY DEF Fits, Named
<1>5. CASE Step(env, <<>>, <<Literal>>, <<>>)
  <2>1. Allowed(LiveIn(env), <<>>, <<Literal>>, <<>>)
    BY <1>1, <1>4, Nothing, ItemPieces, AllowedParts
  <2> QED BY <1>1, <1>3, <1>5, <2>1, StepSealed
<1>6. ASSUME NEW v \in Variables, Stop(ExistingError(v))
      PROVE  SealedInv'
  BY <1>6, ErrorsSealed
<1>7. ASSUME NEW v \in Variables, Step(Bound(env, v), <<>>, <<Slot(SlotOf(env, v))>>, <<>>)
      PROVE  SealedInv'
  <2> DEFINE e == Bound(env, v)
             s == SlotOf(env, v)
             S == LiveIn(e)
  <2>1. Live(e) /\ s \in S /\ Step(e, <<>>, <<Slot(s)>>, <<>>)
    BY <1>1, <1>3, <1>7, BoundLive
  <2> HIDE DEF e, s, S
  <2>2. Allowed(S, <<>>, <<Slot(s)>>, <<>>)
    BY <1>1, <1>3, <2>1, SelectAllowed
  <2> QED BY <1>1, <2>1, <2>2, StepSealed DEF S
<1> QED BY <1>2, <1>5, <1>6, <1>7

LEMMA AddStepSealed ==
  ASSUME IInv, SealedInv, status = "compiling", Scope.kind \in ApplyKinds, NEW e, Live(e),
         NEW b \in LiveIn(e), NEW spec, IsSpec(spec), NEW op \in {"Add", "Remove"},
         AddStep(e, b, spec, op)
  PROVE  SealedInv'
<1> DEFINE s == SlotOf(e, spec.variable)
           bound == Bound(e, spec.variable)
           S == LiveIn(bound)
           R == LiveIn(e)
           edit == <<Edit(op, b, Slot(s))>>
           plain == <<Edit(op, b, Literal)>>
<1>1. Live(bound) /\ s \in S /\ b \in S /\ b \in R
  BY BoundLive DEF IsSpec
<1>2. \/ Step(e, plain, <<>>, <<>>)
      \/ Step(bound, edit, <<>>, <<>>)
      \/ Stop(ExistingError(spec.variable)) \/ Stop("IllegalEnumSpecification")
      \/ Stop("IllegalObjectSpecification") \/ Stop("IllegalReuse")
      \/ \E kind \in {"new", "removed"} : Step(bound, <<>>, <<>>, <<Open(kind, s, edit)>>)
      \/ Step(bound, <<Create(s)>>, <<>>, <<Open("object", s, edit)>>)
  BY Zenon DEF AddStep
<1>3. Slot(s) \in ItemOf(S) /\ Literal \in ItemOf(R)
  BY <1>1, ItemPieces
<1> HIDE DEF s, bound, S, R
<1>4. Allowed(R, plain, <<>>, <<>>)
  <2>1. plain = <<Edit(op, b, Literal)>>
    OBVIOUS
  <2> HIDE DEF plain
  <2> QED BY <1>1, <1>3, <2>1, ApplyAllowed
<1>5. /\ Allowed(S, edit, <<>>, <<>>)
      /\ \A kind \in {"new", "removed"} : Allowed(S, <<>>, <<>>, <<Open(kind, s, edit)>>)
      /\ Allowed(S, <<Create(s)>>, <<>>, <<Open("object", s, edit)>>)
  <2>1. edit = <<Edit(op, b, Slot(s))>>
    OBVIOUS
  <2> HIDE DEF edit
  <2> QED BY <1>1, <1>3, <2>1, ApplyAllowed
<1> HIDE DEF edit, plain
<1>6. CASE Step(e, plain, <<>>, <<>>)
  BY <1>4, <1>6, StepSealed DEF R
<1>7. CASE Step(bound, edit, <<>>, <<>>)
  BY <1>1, <1>5, <1>7, StepSealed DEF S
<1>8. CASE \/ Stop(ExistingError(spec.variable)) \/ Stop("IllegalEnumSpecification")
           \/ Stop("IllegalObjectSpecification") \/ Stop("IllegalReuse")
  BY <1>8, ErrorsSealed
<1>9. ASSUME NEW kind \in {"new", "removed"}, Step(bound, <<>>, <<>>, <<Open(kind, s, edit)>>)
      PROVE  SealedInv'
  BY <1>1, <1>5, <1>9, StepSealed DEF S
<1>10. CASE Step(bound, <<Create(s)>>, <<>>, <<Open("object", s, edit)>>)
  BY <1>1, <1>5, <1>10, StepSealed DEF S
<1> QED BY <1>2, <1>6, <1>7, <1>8, <1>9, <1>10

LEMMA ApplySealed ==
  ASSUME IInv, SealedInv, Apply
  PROVE  SealedInv'
<1>1. status = "compiling" /\ Scope.kind \in ApplyKinds
  BY KindHere DEF Apply, More
<1>2. PICK v \in Variables, spec \in Specs, op \in {"Add", "Remove"} :
        IF Known(env, v) THEN AddStep(Bound(env, v), SlotOf(env, v), spec, op)
                         ELSE Stop(ExistingError(v))
  BY DEF Apply
<1>3. CASE Stop(ExistingError(v))
  BY <1>3, ErrorsSealed
<1>4. CASE AddStep(Bound(env, v), SlotOf(env, v), spec, op)
  BY <1>1, <1>4, LiveHere, BoundLive, SpecsAreSpecs, AddStepSealed
<1> QED BY <1>2, <1>3, <1>4

LEMMA ApplyNestedSealed ==
  ASSUME IInv, SealedInv, ApplyNested
  PROVE  SealedInv'
<1>1. status = "compiling" /\ values # <<>> /\ Inner.kind = "object"
  BY DEF ApplyNested, More, InValue
<1>2. PICK spec \in Specs : AddStep(env, Inner.slot, spec, "Add")
  BY DEF ApplyNested
<1>3. Inner.slot \in LiveIn(env) /\ Live(env)
  BY <1>1, LiveHere, InnerLive
<1>4. IsSpec(spec) /\ Scope.kind \in ApplyKinds
  BY <1>1, SpecsAreSpecs, InnerSorted DEF SelectValues, SealedInv
<1> QED BY <1>1, <1>2, <1>3, <1>4, AddStepSealed

LEMMA ApplyItemSealed ==
  ASSUME IInv, SealedInv, ApplyItem
  PROVE  SealedInv'
<1>1. PICK spec \in Specs :
        LET e == Bound(env, spec.variable)
            s == SlotOf(env, spec.variable)
        IN  \/ Step(env, <<>>, <<Literal>>, <<>>)
            \/ Step(e, <<>>, <<Slot(s)>>, <<>>)
            \/ Stop(ExistingError(spec.variable)) \/ Stop("IllegalEnumSpecification")
            \/ Stop("IllegalObjectSpecification") \/ Stop("IllegalReuse")
            \/ Step(e, <<>>, <<Slot(s)>>, <<Open(Inner.kind, s, <<>>)>>)
            \/ Step(e, <<Create(s)>>, <<Slot(s)>>, <<Open("object", s, <<>>)>>)
  BY Zenon DEF ApplyItem
<1>2. status = "compiling" /\ values # <<>> /\ Inner.kind \in {"new", "removed"}
  BY DEF ApplyItem, More, InValue
<1> DEFINE e == Bound(env, spec.variable)
           s == SlotOf(env, spec.variable)
           S == LiveIn(e)
           R == LiveIn(env)
           kind == Inner.kind
<1>3. /\ Live(e) /\ s \in S /\ Live(env) /\ Scope.kind \in ApplyKinds
      /\ kind \in {"new", "removed"}
  BY <1>2, LiveHere, BoundLive, SpecsAreSpecs, InnerSorted DEF IsSpec, SelectValues, SealedInv
<1>4. Inner.slot \in R /\ Literal \in ItemOf(R) /\ Literal \in ItemOf(S)
  BY <1>2, InnerLive, ItemPieces
<1> HIDE DEF e, s, S, R, kind
<1>5. Allowed(R, <<>>, <<Literal>>, <<>>)
  <2>1. Fits(<<>>, Scope.kind)
    BY DEF Fits, Named
  <2> QED BY <1>2, <2>1, Nothing, ItemPieces, AllowedParts
<1> DEFINE edit == <<Edit("Add", s, Literal)>>
<1>6. edit = <<Edit("Add", s, Literal)>> /\ "Add" \in {"Add", "Remove"}
  OBVIOUS
<1> HIDE DEF edit
<1>7. /\ Allowed(S, <<>>, <<Slot(s)>>, <<>>)
      /\ Allowed(S, <<>>, <<Slot(s)>>, <<Open(kind, s, <<>>)>>)
      /\ Allowed(S, <<Create(s)>>, <<Slot(s)>>, <<Open("object", s, <<>>)>>)
  BY <1>2, <1>3, <1>4, <1>6, ApplyAllowed
<1>8. CASE Step(env, <<>>, <<Literal>>, <<>>)
  BY <1>2, <1>3, <1>5, <1>8, StepSealed DEF R
<1>9. CASE Step(e, <<>>, <<Slot(s)>>, <<>>)
  BY <1>2, <1>3, <1>7, <1>9, StepSealed DEF S
<1>10. CASE \/ Stop(ExistingError(spec.variable)) \/ Stop("IllegalEnumSpecification")
            \/ Stop("IllegalObjectSpecification") \/ Stop("IllegalReuse")
  BY <1>10, ErrorsSealed
<1>11. CASE Step(e, <<>>, <<Slot(s)>>, <<Open(kind, s, <<>>)>>)
  BY <1>2, <1>3, <1>7, <1>11, StepSealed DEF S
<1>12. CASE Step(e, <<Create(s)>>, <<Slot(s)>>, <<Open("object", s, <<>>)>>)
  BY <1>2, <1>3, <1>7, <1>12, StepSealed DEF S
<1> QED BY <1>1, <1>8, <1>9, <1>10, <1>11, <1>12 DEF e, s, kind

LEMMA CloseValueSealed ==
  ASSUME IInv, SealedInv, CloseValue
  PROVE  SealedInv'
<1>1. status = "compiling" /\ values # <<>> /\ CloseInner
  BY DEF CloseValue
<1>2. Inner.kind = "comparison" => Len(Inner.items) = 2
  BY DEF CloseValue, Complete
<1> QED BY <1>1, <1>2, CloseInnerSealed

LEMMA ListsOpenedSealed ==
  ASSUME IInv, SealedInv, Not \/ Conditional
  PROVE  SealedInv'
<1>1. CASE Not
  BY <1>1, OpenScopeSealed DEF Not, More
<1>2. CASE Conditional
  BY <1>2, OpenScopeSealed DEF Conditional, More
<1> QED BY <1>1, <1>2

-----------------------------------------------------------------------------

\* A rule begins with an empty list.
LEMMA BeginSorted ==
  ASSUME scopes = <<NewScope("select", env, <<>>)>>, values = <<>>, lists = <<>>,
         status = "compiling"
  PROVE  /\ Sorted /\ DOMAIN scopes = {1} /\ DOMAIN lists = {}
         /\ scopes[1].kind = "select" /\ scopes[1].visible = env.visible
         /\ scopes[1].mark = Len(env.slots)
         /\ scopes[1].ops = <<>> /\ scopes[1].then = <<>>
<1> DEFINE f == NewScope("select", env, <<>>)
<1>1. Named(<<>>, ApplyNames)
  BY DEF Named
<1>2. /\ f.kind = "select" /\ f.visible = env.visible /\ f.mark = Len(env.slots)
      /\ f.ops = <<>> /\ f.then = <<>> /\ SortedScope(f)
  BY <1>1, Begun
<1> HIDE DEF f
<1>3. DOMAIN <<f>> = {1} /\ <<f>>[1] = f /\ DOMAIN <<>> = {}
  OBVIOUS
<1>4. scopes = <<f>>
  BY DEF f
<1>5. DOMAIN scopes = {1} /\ scopes[1] = f /\ DOMAIN lists = {} /\ DOMAIN values = {}
  BY <1>3, <1>4
<1>6. ScopesSorted
  BY <1>2, <1>5 DEF ScopesSorted, Within, ApplyKinds
<1>7. ListsSorted /\ ValuesSorted
  BY <1>5 DEF ListsSorted, ValuesSorted
<1> QED BY <1>2, <1>5, <1>6, <1>7 DEF Sorted

LEMMA BeginSealed ==
  ASSUME Init
  PROVE  SealedInv
<1>1. /\ scopes = <<NewScope("select", env, <<>>)>> /\ values = <<>> /\ lists = <<>>
      /\ status = "compiling"
  BY DEF Init
<1>2. /\ Sorted /\ DOMAIN scopes = {1} /\ DOMAIN lists = {}
      /\ scopes[1].kind = "select" /\ scopes[1].visible = env.visible
      /\ scopes[1].mark = Len(env.slots)
      /\ scopes[1].ops = <<>> /\ scopes[1].then = <<>>
  BY <1>1, BeginSorted
<1>3. IInv
  BY InitGood
<1>4. \A a \in DOMAIN Contents : Contents[a] = <<>>
  BY <1>2, ContentsAre DEF ContentsKnown
<1>5. Separate(Contents) /\ DeadSlots = {}
  BY <1>4, NothingUsed DEF Separate, DeadSlots, DeadIn
<1>6. env.visible \in [Names -> Handed \cup {NoSlot}] /\ LiveIn(env) = Handed /\ Len(env.slots) \in Nat
  BY <1>1, <1>3, <1>5, Shape, LenProperties DEF Good, Environment, LiveIn
<1>7. Unseen
  <2>1. values \in Seq(ValueFrame(LiveIn(env)))
    BY <1>1, EmptySeq
  <2> QED BY <1>2, <1>6, <2>1 DEF Unseen
<1>8. Aged
  <2>1. Old(<<>>, Len(env.slots))
    BY NothingUsed DEF Old
  <2>2. \A x \in Names : env.visible[x] < Len(env.slots)
    BY <1>6 DEF Handed, NoSlot
  <2>3. \A j \in 1 .. 1 - 1 : FALSE
    OBVIOUS
  <2> QED BY <1>2, <1>6, <2>1, <2>2, <2>3 DEF Aged
<1> QED BY <1>2, <1>5, <1>7, <1>8 DEF SealedInv

\* Each construct, in whatever order, keeps the lists apart.
LEMMA TextKeepsSealed ==
  ASSUME IInv, SealedInv, [Next]_vars
  PROVE  SealedInv'
<1>1. CASE SelectBinding \/ SelectAttribute \/ SelectNested \/ SelectItem
  BY <1>1, SelectBindingSealed, SelectAttributeSealed, SelectNestedSealed, SelectItemSealed
<1>2. CASE Not \/ Conditional
  BY <1>2, ListsOpenedSealed
<1>3. CASE Comparison \/ Calculation \/ Operand
  BY <1>3, ComparisonSealed, CalculationSealed, OperandSealed
<1>4. CASE Apply \/ ApplyNested \/ ApplyItem
  BY <1>4, ApplySealed, ApplyNestedSealed, ApplyItemSealed
<1>5. CASE CloseValue \/ CloseNot \/ CloseSelect
  BY <1>5, CloseValueSealed, CloseNotSealed, CloseSelectSealed
<1>6. CASE CloseCondition \/ CloseThen \/ CloseOtherwise
  BY <1>6, CloseConditionSealed, CloseThenSealed, CloseOtherwiseSealed
<1>7. CASE Verify
  BY <1>7, VerifySealed
<1>8. CASE UNCHANGED vars
  BY <1>8 DEF vars, SealedInv, Sorted, ScopesSorted, ListsSorted, ValuesSorted, Within, Scope,
              Contents, Places, Unseen, Aged, LiveIn, DeadSlots
<1> QED BY <1>1, <1>2, <1>3, <1>4, <1>5, <1>6, <1>7, <1>8, Zenon DEF Next

-----------------------------------------------------------------------------
(* The calls of a builder.                                                 *)

LEMMA SelectCallsSorted ==
  ASSUME BInv, Sorted,
         AddTest \/ AddAttributeBinding \/ AddAttributeBindingRequirement
           \/ AddComparison \/ AddCalculation
  PROVE  Sorted'
<1> DEFINE S == SlotsIn(env)
           R == SlotsIn(WithNew)
<1>1. IInv /\ status = "compiling" /\ Scope.kind \in SelectKinds
  BY KindHere DEF BInv, AddTest, AddAttributeBinding, AddAttributeBindingRequirement, AddComparison,
         AddCalculation, More
<1>2. New \in R /\ Handed \subseteq R /\ Handed = S
  BY <1>1, NewGood
<1> HIDE DEF S, R
<1>3. CASE AddTest
  <2>1. PICK b \in Handed, op \in SelectTests : Step(env, <<Test(op, b)>>, <<>>, <<>>)
    BY <1>3 DEF AddTest, SelectTests
  <2>2. Allowed(S, <<Test(op, b)>>, <<>>, <<>>)
    BY <1>1, <1>2, SelectAllowed
  <2> QED BY <1>1, <2>1, <2>2, StepSorted
<1>4. CASE AddAttributeBinding
  <2>1. PICK b \in Handed : Step(WithNew, <<AttributeOp(b, New)>>, <<>>, <<>>)
    BY <1>4 DEF AddAttributeBinding
  <2>2. Allowed(R, <<AttributeOp(b, New)>>, <<>>, <<>>)
    BY <1>1, <1>2, SelectAllowed
  <2> QED BY <1>1, <2>1, <2>2, StepSorted
<1>5. CASE AddAttributeBindingRequirement
  <2>1. PICK b \in Handed, v \in Handed : Step(env, <<AttributeOp(b, v)>>, <<>>, <<>>)
    BY <1>5 DEF AddAttributeBindingRequirement
  <2>2. Allowed(S, <<AttributeOp(b, v)>>, <<>>, <<>>)
    BY <1>1, <1>2, SelectAllowed
  <2> QED BY <1>1, <2>1, <2>2, StepSorted
<1>6. ASSUME NEW T, NEW c \in SelectOperation(T), c.op \in SelectNames \ {"Not"}
      PROVE  Allowed(T, <<c>>, <<>>, <<>>)
  <2>1. <<c>> \in Ops(T)
    BY <1>6 DEF Ops
  <2>2. Fits(<<c>>, Scope.kind)
    BY <1>1, <1>6 DEF Fits, Named, NamesOf
  <2> QED BY <2>1, <2>2, Nothing, AllowedParts
<1>7. CASE AddComparison
  <2>1. PICK left \in Operands, right \in Operands :
          Step(env, <<CompareOp(<<left, right>>)>>, <<>>, <<>>)
    BY <1>7 DEF AddComparison
  <2>2. left \in ItemOf(S) /\ right \in ItemOf(S)
    BY <1>2, OperandsAreItems
  <2>3. CompareOp(<<left, right>>) \in SelectOperation(S)
        /\ CompareOp(<<left, right>>).op \in SelectNames \ {"Not"}
    BY <2>2 DEF CompareOp, SelectOperation, SelectNames
  <2> QED BY <1>1, <1>6, <2>1, <2>3, StepSorted
<1>8. CASE AddCalculation
  <2>1. PICK left \in Operands, right \in Operands :
          Step(WithNew, <<CalculationOp(New, <<left, right>>)>>, <<>>, <<>>)
    BY <1>8 DEF AddCalculation
  <2>2. left \in ItemOf(R) /\ right \in ItemOf(R)
    BY <1>2, OperandsAreItems, MoreItems
  <2>3. <<left, right>> \in Seq(ItemOf(R))
    BY <2>2
  <2> DEFINE c == CalculationOp(New, <<left, right>>)
  <2>4. <<c>> \in Ops(R)
    BY <1>2, <2>3, OperationsMade
  <2>5. c.op = "Calculation"
    BY DEF CalculationOp
  <2>6. Step(WithNew, <<c>>, <<>>, <<>>)
    BY <2>1
  <2> HIDE DEF c
  <2>7. Fits(<<c>>, Scope.kind)
    BY <1>1, <2>5 DEF Fits, Named, NamesOf, SelectNames
  <2>8. Allowed(R, <<c>>, <<>>, <<>>)
    BY <2>4, <2>7, Nothing, AllowedParts
  <2> QED BY <1>1, <2>6, <2>8, StepSorted
<1> QED BY <1>3, <1>4, <1>5, <1>7, <1>8

LEMMA ItemCallsSorted ==
  ASSUME BInv, Sorted, AddNewBindingItem \/ AddIgnoredItem \/ AddItem
  PROVE  Sorted'
<1>1. IInv /\ status = "compiling" /\ values # <<>>
  BY DEF BInv, AddNewBindingItem, AddIgnoredItem, AddItem, More, InValue
<1>2. ASSUME NEW e, NEW S, NEW item \in ItemOf(S), Step(e, <<>>, <<item>>, <<>>) PROVE Sorted'
  <2>1. <<>> \in Ops(S) /\ <<item>> \in Seq(ItemOf(S)) /\ Fits(<<>>, Scope.kind)
    BY Nothing DEF Fits, Named
  <2>2. Allowed(S, <<>>, <<item>>, <<>>)
    BY <1>1, <2>1, AllowedParts
  <2> QED BY <1>1, <1>2, <2>2, StepSorted
<1>3. CASE AddNewBindingItem
  <2>1. Step(WithNew, <<>>, <<Slot(New)>>, <<>>)
    BY <1>3 DEF AddNewBindingItem
  <2>2. Slot(New) \in ItemOf(SlotsIn(WithNew))
    BY <1>1, NewGood, ItemPieces
  <2> QED BY <1>2, <2>1, <2>2
<1>4. CASE AddIgnoredItem
  <2>1. Step(env, <<>>, <<Ignore>>, <<>>)
    BY <1>4 DEF AddIgnoredItem
  <2>2. Ignore \in ItemOf(Handed)
    BY DEF ItemOf
  <2> QED BY <1>2, <2>1, <2>2
<1>5. CASE AddItem
  <2>1. PICK item \in Operands : Step(env, <<>>, <<item>>, <<>>)
    BY <1>5 DEF AddItem
  <2>2. item \in ItemOf(Handed)
    BY OperandsAreItems
  <2> QED BY <1>2, <2>1, <2>2
<1> QED BY <1>3, <1>4, <1>5

LEMMA OtherCallsSorted ==
  ASSUME BInv, Sorted,
         AddTupleUnpackingOrEnumMatch \/ AddNotClause \/ AddObjectCreation \/ AddTupleCreation \/ AddEdit
  PROVE  Sorted'
<1> DEFINE S == SlotsIn(env)
           R == SlotsIn(WithNew)
<1>1. IInv /\ status = "compiling"
  BY DEF BInv, AddTupleUnpackingOrEnumMatch, AddNotClause, AddObjectCreation, AddTupleCreation,
         AddEdit, More
<1>2. New \in R /\ Handed = S
  BY <1>1, NewGood
<1> HIDE DEF S, R
<1>3. CASE AddTupleUnpackingOrEnumMatch
  <2>1. PICK b \in Handed, kind \in {"tuple", "enum"} :
          Step(env, <<>>, <<>>, <<Open(kind, b, <<>>)>>)
    BY <1>3 DEF AddTupleUnpackingOrEnumMatch
  <2>2. Scope.kind \in SelectKinds
    BY <1>3, KindHere DEF AddTupleUnpackingOrEnumMatch
  <2>3. Allowed(S, <<>>, <<>>, <<Open(kind, b, <<>>)>>)
    BY <1>2, <2>2, SelectAllowed
  <2> QED BY <1>1, <2>1, <2>3, StepSorted
<1>4. CASE AddNotClause
  <2>1. InSelect /\ OpenScope("not", <<>>)
    BY <1>4 DEF AddNotClause
  <2> QED BY <1>1, <2>1, OpenScopeSorted
<1>5. CASE AddObjectCreation
  <2>1. Step(WithNew, <<Create(New)>>, <<>>, <<>>) /\ Scope.kind \in ApplyKinds
    BY <1>5, KindHere DEF AddObjectCreation
  <2>2. Literal \in ItemOf(R)
    BY DEF ItemOf
  <2>3. Allowed(R, <<Create(New)>>, <<>>, <<>>)
    BY <1>2, <2>1, <2>2, ApplyAllowed
  <2> QED BY <1>1, <2>1, <2>3, StepSorted
<1>6. CASE AddTupleCreation
  <2>1. Step(WithNew, <<>>, <<>>, <<Open("new", New, <<>>)>>) /\ Scope.kind \in ApplyKinds
    BY <1>6, KindHere DEF AddTupleCreation
  <2>2. Literal \in ItemOf(R)
    BY DEF ItemOf
  <2>3. Allowed(R, <<>>, <<>>, <<Open("new", New, <<>>)>>)
    BY <1>2, <2>1, <2>2, ApplyAllowed
  <2> QED BY <1>1, <2>1, <2>3, StepSorted
<1>7. CASE AddEdit
  <2>1. PICK b \in Handed, value \in Operands, op \in {"Add", "Remove"} :
          Step(env, <<Edit(op, b, value)>>, <<>>, <<>>)
    BY <1>7 DEF AddEdit
  <2>2. Scope.kind \in ApplyKinds /\ value \in ItemOf(S)
    BY <1>2, <1>7, KindHere, OperandsAreItems DEF AddEdit
  <2>3. Allowed(S, <<Edit(op, b, value)>>, <<>>, <<>>)
    BY <1>2, <2>2, ApplyAllowed
  <2> QED BY <1>1, <2>1, <2>3, StepSorted
<1> QED BY <1>3, <1>4, <1>5, <1>6, <1>7

LEMMA ClosingCallsSorted ==
  ASSUME BInv, Sorted, CloseItems \/ CloseNot \/ CloseSelect \/ Finish
  PROVE  Sorted'
<1>1. IInv /\ status = "compiling"
  BY DEF BInv, CloseItems, CloseNot, CloseSelect, Finish
<1>2. CASE CloseItems
  <2>1. values # <<>> /\ CloseInner
    BY <1>2 DEF CloseItems
  <2>2. Inner.kind # "comparison"
    BY <2>1 DEF BInv, NoComparison, Inner, Last
  <2> QED BY <1>1, <2>1, <2>2, CloseInnerSorted
<1>3. CASE CloseNot \/ CloseSelect
  BY <1>1, <1>3, CloseNotSorted, CloseSelectSorted
<1>4. CASE Finish
  <2>1. Scope.kind \in ApplyKinds /\ UNCHANGED <<env, scopes, values, lists>>
    BY <1>4, KindHere DEF Finish
  <2> QED BY <1>1, <2>1, EndSorted
<1> QED BY <1>2, <1>3, <1>4

LEMMA SameSorted ==
  ASSUME Sorted, UNCHANGED vars
  PROVE  Sorted'
BY DEF vars, Sorted, ScopesSorted, ListsSorted, ValuesSorted, Within, Scope

LEMMA CallsKeepSorted ==
  ASSUME BInv, Sorted, [BuilderNext]_vars
  PROVE  Sorted'
<1>1. CASE AddTest \/ AddAttributeBinding \/ AddAttributeBindingRequirement
             \/ AddComparison \/ AddCalculation
  BY <1>1, SelectCallsSorted
<1>2. CASE AddNewBindingItem \/ AddIgnoredItem \/ AddItem
  BY <1>2, ItemCallsSorted
<1>3. CASE AddTupleUnpackingOrEnumMatch \/ AddNotClause \/ AddObjectCreation \/ AddTupleCreation
             \/ AddEdit
  BY <1>3, OtherCallsSorted
<1>4. CASE CloseItems \/ CloseNot \/ CloseSelect \/ Finish
  BY <1>4, ClosingCallsSorted
<1>5. CASE UNCHANGED vars
  BY <1>5, SameSorted
<1> QED BY <1>1, <1>2, <1>3, <1>4, <1>5, Zenon DEF BuilderNext
=============================================================================
