----------------------------- MODULE MCLoading -----------------------------
(***************************************************************************)
(* Loading with up to two systems, of one name or two.                     *)
(***************************************************************************)
EXTENDS Loading

CONSTANTS A, B, Bad, X, x

R(system, name, needs, own) == [system |-> system, name |-> name, needs |-> needs, own |-> own]

MCTexts == {
  <<>>,
  \* for two systems, then for one twice
  <<R(A, "a", {X}, {x}), R(B, "a", {}, {}), R(A, "b", {}, {x, "y"})>>,
  \* a name again, in the text or built
  <<R(A, "b", {}, {}), R(A, "b", {X}, {X, x})>> }
=============================================================================
