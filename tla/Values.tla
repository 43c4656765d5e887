------------------------------- MODULE Values -------------------------------
(***************************************************************************)
(* Values, their order and the patterns they are matched with              *)
(* (src/src/data.rs), comparisons and calculations of rules with them      *)
(* (src/src/runtime.rs).                                                   *)
(*                                                                         *)
(* An i64 is an integer of IntBits bits here, and an f64 a float with a    *)
(* significand of Precision bits and few exponents; floats are in units of *)
(* a half.  A float is a sign and a magnitude that grows with its bits, up *)
(* to infinity and one NaN, of either sign.                                *)
(***************************************************************************)
EXTENDS Integers, Sequences, FiniteSetsExt

CONSTANTS
  IntBits,     \* 64
  Precision,   \* 53
  Exponents,   \* the powers of two of the unit of a finite float: 0 .. 2045
  Value        \* the values that are picked

ASSUME WidthsAssumption ==
  /\ IntBits \in Nat \ {0} /\ Precision \in Nat \ {0} /\ Exponents \in Nat
  /\ IntBits - 1 > Precision /\ Precision + Exponents > IntBits

VARIABLES picked   \* the values at hand

Minimum == -(2 ^ (IntBits - 1))
Maximum == 2 ^ (IntBits - 1) - 1

ObjectValue(id) == [kind |-> "Object", id |-> id]
SymbolValue(name) == [kind |-> "Symbol", name |-> name]
IntValue(n) == [kind |-> "Int", int |-> n]
FloatValue(sign, magnitude) == [kind |-> "Float", sign |-> sign, magnitude |-> magnitude]
TupleValue(items) == [kind |-> "Tuple", items |-> items]

-----------------------------------------------------------------------------
(* Floats.                                                                 *)

Infinity == 2 ^ (Precision + Exponents)
NotANumber == Infinity + 1

Magnitudes ==
  {m * 2 ^ e : m \in 0 .. 2 ^ Precision - 1, e \in 0 .. Exponents} \cup {Infinity}

NaN(f) == f.magnitude = NotANumber
NaNs == {FloatValue(sign, NotANumber) : sign \in {1, -1}}

\* The nearest float, of two the one whose last bit is zero; infinity is next
\* to the greatest.
Rounded(sign, num, den) ==
  LET below == Max({m \in Magnitudes : m * den <= num})
      above == Min({m \in Magnitudes : m * den >= num} \cup {Infinity})
      low == num - below * den
      high == above * den - num
  IN  FloatValue(sign, IF low = 0 \/ low < high \/ below = Infinity THEN below
                  ELSE IF high < low THEN above
                  ELSE IF below % (2 * (above - below)) = 0 THEN below ELSE above)

SignOf(n) == IF n < 0 THEN -1 ELSE 1
Abs(n) == IF n < 0 THEN -n ELSE n

\* as f64, and to_f64
ToFloat == [n \in Minimum .. Maximum |-> Rounded(SignOf(n), 2 * Abs(n), 1)]

\* The place of a float in the order of FloatOrd.
FloatOrd(f) == IF f.sign = 1 THEN f.magnitude ELSE -1 - f.magnitude

Number(f) == f.sign * f.magnitude

\* == of f64
IeeeEqual(f, g) == ~NaN(f) /\ ~NaN(g) /\ Number(f) = Number(g)

\* Sum, product and quotient: sets, for a NaN that comes out can have either
\* sign.
FloatSum(f, g) ==
  IF NaN(f) \/ NaN(g) THEN NaNs
  ELSE IF f.magnitude = Infinity /\ g.magnitude = Infinity
    THEN IF f.sign = g.sign THEN {f} ELSE NaNs
  ELSE IF f.magnitude = Infinity THEN {f}
  ELSE IF g.magnitude = Infinity THEN {g}
  ELSE LET n == Number(f) + Number(g)
       IN  {Rounded(IF n = 0 /\ f.sign = -1 /\ g.sign = -1 THEN -1 ELSE SignOf(n), Abs(n), 1)}

Negated(f) == [f EXCEPT !.sign = -@]

FloatProduct(f, g) ==
  LET sign == f.sign * g.sign
      magnitudes == {f.magnitude, g.magnitude}
  IN  IF NaN(f) \/ NaN(g) \/ magnitudes = {0, Infinity} THEN NaNs
      ELSE IF Infinity \in magnitudes THEN {FloatValue(sign, Infinity)}
      ELSE {Rounded(sign, f.magnitude * g.magnitude, 2)}

\* The divisor is not zero.
FloatQuotient(f, g) ==
  LET sign == f.sign * g.sign
  IN  IF NaN(f) \/ NaN(g) \/ (f.magnitude = Infinity /\ g.magnitude = Infinity) THEN NaNs
      ELSE IF f.magnitude = Infinity THEN {FloatValue(sign, Infinity)}
      ELSE IF g.magnitude = Infinity THEN {FloatValue(sign, 0)}
      ELSE {Rounded(sign, 2 * f.magnitude, g.magnitude)}

-----------------------------------------------------------------------------
(* The order of values: less than 0, 0 or greater than 0.                  *)

Rank == [Object |-> 4, Symbol |-> 3, Int |-> 2, Float |-> 1, Tuple |-> 0]

\* Mutant: a float is compared with an integer after dropping its fraction.
CompareNumbersTruncated(a, b) ==
  IF a.kind = "Int" /\ b.kind = "Int" THEN a.int - b.int
  ELSE IF a.kind = "Int" THEN 2 * a.int - (FloatOrd(b) \div 2) * 2
  ELSE IF b.kind = "Int" THEN (FloatOrd(a) \div 2) * 2 - 2 * b.int
  ELSE FloatOrd(a) - FloatOrd(b)

CompareNumbers(a, b) ==
  LET float(v) == IF v.kind = "Int" THEN ToFloat[v.int] ELSE v
  IN  IF a.kind = "Int" /\ b.kind = "Int" THEN a.int - b.int
                                         ELSE FloatOrd(float(a)) - FloatOrd(float(b))

RECURSIVE Compare(_, _)
Compare(a, b) ==
  CASE a.kind \in {"Int", "Float"} /\ b.kind \in {"Int", "Float"} -> CompareNumbers(a, b)
    [] a.kind = "Object" /\ b.kind = "Object" -> a.id - b.id
    [] a.kind = "Symbol" /\ b.kind = "Symbol" -> a.name - b.name
    [] a.kind = "Tuple" /\ b.kind = "Tuple" ->
         LET differ == {i \in DOMAIN a.items \cap DOMAIN b.items : Compare(a.items[i], b.items[i]) # 0}
         IN  IF differ = {} THEN Len(a.items) - Len(b.items)
                            ELSE Compare(a.items[Min(differ)], b.items[Min(differ)])
    [] OTHER -> Rank[a.kind] - Rank[b.kind]

Equal(a, b) == Compare(a, b) = 0

\* Mutant: a number matches numbers of the other kind.
MatchesAnyNumber(pattern, v) ==
  \/ pattern.kind = v.kind /\ Equal(pattern, v)
  \/ pattern.kind = "Int" /\ v.kind = "Float" /\ v.magnitude \div 2 = pattern.int

\* match_value of a pattern that is no Value: an id, a symbol, a number, a tuple.
Matches(pattern, v) ==
  /\ pattern.kind = v.kind
  /\ IF v.kind = "Float" THEN IeeeEqual(v, pattern) ELSE Equal(v, pattern)

-----------------------------------------------------------------------------
(* Comparisons and calculations of rules.                                  *)

\* unify_numeric_types
Unified(left, right) ==
  CASE left.kind = "Int" /\ right.kind = "Float" -> <<ToFloat[left.int], right>>
    [] left.kind = "Float" /\ right.kind = "Int" -> <<left, ToFloat[right.int]>>
    [] OTHER                                     -> <<left, right>>

Holds(operator, left, right) ==
  LET pair == Unified(left, right)
      cmp == Compare(pair[1], pair[2])
  IN  CASE operator = "Equal"          -> cmp = 0
        [] operator = "NotEqual"       -> cmp # 0
        [] operator = "Less"           -> cmp < 0
        [] operator = "LessOrEqual"    -> cmp <= 0
        [] operator = "Greater"        -> cmp > 0
        [] operator = "GreaterOrEqual" -> cmp >= 0

NoResult == [kind |-> "none"]

\* Division goes towards zero.
Quotient(m, n) == SignOf(m) * SignOf(n) * (Abs(m) \div Abs(n))

\* The integers an operation has for two: none for a division by zero.
Exactly(op, m, n) ==
  CASE op = "Add" -> {m + n}
    [] op = "Sub" -> {m - n}
    [] op = "Mul" -> {m * n}
    [] op = "Div" -> IF n = 0 THEN {} ELSE {Quotient(m, n)}

\* Mutant: integers wrap around.
CheckedWrapping(op, m, n) ==
  IF Exactly(op, m, n) = {} THEN {NoResult}
  ELSE {IntValue(((r - Minimum) % 2 ^ IntBits) + Minimum) : r \in Exactly(op, m, n)}

\* checked_add and the others: no result either when it does not fit.
Checked(op, m, n) ==
  LET results == Exactly(op, m, n) \cap Minimum .. Maximum
  IN  IF results = {} THEN {NoResult} ELSE {IntValue(r) : r \in results}

FloatResults(op, f, g) ==
  CASE op = "Add" -> FloatSum(f, g)
    [] op = "Sub" -> FloatSum(f, Negated(g))
    [] op = "Mul" -> FloatProduct(f, g)
    [] op = "Div" -> IF IeeeEqual(g, FloatValue(1, 0)) THEN {NoResult} ELSE FloatQuotient(f, g)

\* The outcomes of an operation of perform_calculation.
Calculated(op, left, right) ==
  LET pair == Unified(left, right)
      kinds == {pair[1].kind, pair[2].kind}
  IN  CASE kinds = {"Int"}   -> Checked(op, pair[1].int, pair[2].int)
        [] kinds = {"Float"} -> FloatResults(op, pair[1], pair[2])
        [] OTHER             -> {NoResult}

-----------------------------------------------------------------------------

Init == picked = <<>>

Pick ==
  /\ Len(picked) < 3
  /\ \E v \in Value : picked' = Append(picked, v)

Spec == Init /\ [][Pick]_picked

-----------------------------------------------------------------------------
(* Properties.                                                             *)

\* Two integers and the one float both are rounded to.
OneFloat(a, b, c) ==
  \E f \in {a, b, c} :
    /\ f.kind = "Float"
    /\ \A v \in {a, b, c} \ {f} : v.kind = "Int" /\ ToFloat[v.int] = f
    /\ Cardinality({a, b, c}) = 3

\* They may also be in the same place of three tuples.
RECURSIVE Blurred(_, _, _)
Blurred(a, b, c) ==
  \/ OneFloat(a, b, c)
  \/ /\ {a.kind, b.kind, c.kind} = {"Tuple"}
     /\ \E i \in DOMAIN a.items \cap DOMAIN b.items \cap DOMAIN c.items :
          Blurred(a.items[i], b.items[i], c.items[i])

\* What rules and patterns take for one order of all values: of two values
\* either is less or they are equal, whichever comes first, and it is transitive
\* but where integers that have become one float, and that float, are compared.
\* Of numbers this is all there is to it: the greater integer is then not after
\* the float, nor the float after the smaller integer.
Ordered ==
  Len(picked) = 3 =>
    LET a == picked[1]
        b == picked[2]
        c == picked[3]
        broken == /\ Holds("LessOrEqual", a, b) /\ Holds("LessOrEqual", b, c)
                  /\ ~Holds("LessOrEqual", a, c)
    IN  /\ Holds("Less", a, b) <=> Holds("Greater", b, a)
        /\ Holds("Equal", a, b) <=> Equal(b, a)
        /\ broken => Blurred(a, b, c)
        /\ "Tuple" \notin {a.kind, b.kind, c.kind} =>
             (broken <=> OneFloat(a, b, c) /\ b.kind = "Float" /\ a.int > c.int)

SameNumber(r, s) ==
  \/ Equal(r, s)
  \/ {r.kind, s.kind} = {"Float"} /\ ((NaN(r) /\ NaN(s)) \/ IeeeEqual(r, s))
  \/ {r, s} = {IntValue(0), FloatValue(-1, 0)}

\* A float tells the integer from all others.
Precise(v) == v.kind = "Int" => Number(ToFloat[v.int]) = 2 * v.int

\* Two integers have a result that fits; they divide without a rest.
Fits(op, m, n) == Exactly(op, m, n) \subseteq Minimum .. Maximum
Divides(op, m, n) == op = "Div" => \A r \in Exactly(op, m, n) : r * n = m

\* Whether a slot was bound to an integer or to the float that equals it, which
\* depends on where it was found, a calculation with it comes to the same number,
\* as long as integers are small enough for floats and divide without a rest.
\* If it has no result for one, it has none for the other, but where integers
\* overflow.
SameResults ==
  Len(picked) = 3 /\ Equal(picked[1], picked[2]) =>
    \A op \in {"Add", "Sub", "Mul", "Div"} :
      LET a == picked[1]
          b == picked[2]
          c == picked[3]
          integers == {v.int : v \in {w \in {a, b} : {w.kind, c.kind} = {"Int"}}}
      IN  Precise(a) /\ Precise(b) /\ Precise(c) =>
            \A r \in Calculated(op, a, c), s \in Calculated(op, b, c) :
              /\ (\A n \in integers : Fits(op, n, c.int)) => (r = NoResult <=> s = NoResult)
              /\ /\ NoResult \notin {r, s} /\ Precise(r) /\ Precise(s)
                 /\ \A n \in integers : Divides(op, n, c.int)
                 => SameNumber(r, s)

\* Patterns that are no Value agree with the equality of values, but for an
\* integer and a float, for zeros, and for NaN, which a pattern never matches.
PatternsAgree ==
  Len(picked) >= 2 =>
    LET pattern == picked[1]
        v == picked[2]
        zeros == {pattern, v} = {FloatValue(1, 0), FloatValue(-1, 0)}
    IN  /\ Matches(pattern, v) => Equal(v, pattern) \/ zeros
        /\ Equal(v, pattern) /\ ~Matches(pattern, v) =>
             {pattern.kind, v.kind} = {"Int", "Float"} \/ (v.kind = "Float" /\ NaN(v))
=============================================================================
