---------------------------- MODULE RubricTable ----------------------------
(***************************************************************************)
(* The rubric against what its comments say of it, over every score vector *)
(* there is: TLC starts from each of the 3125 and raises one score at a    *)
(* time.                                                                   *)
(***************************************************************************)
EXTENDS Rubric

VARIABLE scores                      \* the five scores of one reflection pass

TableInit == scores \in Scores

Improve(d) ==
    /\ scores[d] < 5
    /\ scores' = [scores EXCEPT ![d] = @ + 1]

TableNext == \E d \in Dimensions : Improve(d)

TableSpec == TableInit /\ [][TableNext]_scores

(***************************************************************************)
(* "A failing report always has a failing dimension" (graph/reflection.py, *)
(* _scored), so a draft that did not pass has something to repair; it      *)
(* goes to the gate unrepaired only when all that fails                    *)
(* needs research and no subtopic can be researched; it is sent to the     *)
(* Researcher only if one can, and otherwise to a node that repairs a      *)
(* dimension no failing dimension it may act on scores below.              *)
(***************************************************************************)
RepairsTheWorst ==
    /\ Passed(scores) \/ FailedDimensions(scores) # {}
    /\ WeightedScore(scores) \in 100..500
    /\ \A thin \in BOOLEAN :
            LET route == RouteFor(scores, thin)
                failed == FailedDimensions(scores)
            IN  /\ route = "researcher" => thin
                /\ route = "human_gate" => (~thin /\ failed \subseteq {1, 2}) \/ failed = {}
                /\ route # "human_gate" =>
                    \E d \in failed :
                        /\ RouteByDimension[d] = route
                        /\ \A e \in failed : scores[e] < scores[d] => (~thin /\ e \in {1, 2})
=============================================================================
