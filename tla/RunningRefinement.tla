------------------------- MODULE RunningRefinement -------------------------
(***************************************************************************)
(* Running implements Firing: an attempt to fire a rule takes many steps,  *)
(* and counts when it ends.                                                *)
(***************************************************************************)
EXTENDS Running

Attempting == phase \in {"apply", "refused"}

\* The id the attempt under way began with, or the next one would.
FirstId == IF Attempting THEN tx.first ELSE nextId

RuleAt == IF how = "splinter" THEN at ELSE 1

SolutionsUsed ==
  IF how # "splinter" THEN 0 ELSE IF Attempting THEN branch - 1 ELSE branch

Status ==
  CASE phase = "call" -> "called"
    [] phase \in Results -> phase
    [] phase = "control" /\ how = "splinter" -> "asked"
    [] OTHER -> "running"

Abstract ==
  INSTANCE Firing WITH
    nextId <- FirstId, tried <- 1 .. FirstId,
    at <- RuleAt, branch <- SolutionsUsed, status <- Status

Exact ==
  INSTANCE Firing WITH
    nextId <- FirstId, tried <- {FirstId},
    at <- RuleAt, branch <- SolutionsUsed, status <- Status

\* The rules of a run fire one at a time and as a whole, each as if no rule
\* had been tried before: what earlier searches, negated conditions and failed
\* or successful applications leave in the shared storage decides nothing.
\* Which rule fires next, where a run ends and what it returns is what its
\* mode says, a failed application leaves the space as it was, and the results
\* of splinter do not see each other.  A rule that was passed over, or that a
\* run ended without, could not fire with one of the ids handed out by then.
FiresAsTried == Abstract!Spec

\* The same, and a rule that was passed over could not fire now either: which
\* ids the attempts since have used decides nothing.
FiresAsPromised == Exact!Spec
=============================================================================
