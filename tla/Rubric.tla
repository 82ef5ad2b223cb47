------------------------------- MODULE Rubric -------------------------------
(***************************************************************************)
(* The arithmetic of the reflection node: how five scores become a verdict *)
(* and the name of the node that repairs the draft (graph/reflection.py).  *)
(* The code's weights and threshold have two decimals and its scores none, *)
(* and it rounds to four: a weighted score is modelled as an integer       *)
(* number of hundredths, which is exact.                                   *)
(***************************************************************************)
EXTENDS Integers, FiniteSets

CONSTANT Threshold              \* reflection_pass_threshold, in hundredths

ASSUME ThresholdAssumption == Threshold \in 100..500

(***************************************************************************)
(* REFLECTION_DIMENSIONS by their rubric order, which is weight order:     *)
(* completeness, source correctness, coverage, consistency, quality.       *)
(***************************************************************************)
Dimensions == 1..5
CitationCoverage == 3

Scores == [Dimensions -> 1..5]

Weights == <<30, 20, 20, 20, 10>>

RouteByDimension == <<"researcher", "researcher", "synthesizer", "fact_checker", "synthesizer">>

CoverageGate == 5

WeightedScore(s) ==
    Weights[1] * s[1] + Weights[2] * s[2] + Weights[3] * s[3] + Weights[4] * s[4]
        + Weights[5] * s[5]

(* mutant: citation coverage judged by the common threshold.               *)
BarCommon(d) == Threshold

Bar(d) == IF d = CitationCoverage THEN 100 * CoverageGate ELSE Threshold

FailedDimensions(s) == { d \in Dimensions : 100 * s[d] < Bar(d) }

Passed(s) == WeightedScore(s) >= Threshold /\ s[CitationCoverage] = CoverageGate

(* mutant: the first failing dimension, whatever the scores say.           *)
LowestFirst(s, failed) == CHOOSE d \in failed : \A e \in failed : d <= e

(***************************************************************************)
(* The lowest score among the failing dimensions, rubric order breaking a  *)
(* tie.                                                                    *)
(***************************************************************************)
Lowest(s, failed) ==
    CHOOSE d \in failed :
        \A e \in failed : s[d] < s[e] \/ (s[d] = s[e] /\ d <= e)

(***************************************************************************)
(* _route_for: the node that repairs the lowest failing dimension; without *)
(* a thin subtopic the research dimensions cannot be acted on, and with    *)
(* nothing to act on the draft goes to the gate.                           *)
(***************************************************************************)
Actionable(failed, thin) ==
    { d \in failed : thin \/ RouteByDimension[d] # "researcher" }

RouteFor(s, thin) ==
    LET actionable == Actionable(FailedDimensions(s), thin)
    IN  IF actionable = {} THEN "human_gate"
        ELSE RouteByDimension[Lowest(s, actionable)]
=============================================================================
