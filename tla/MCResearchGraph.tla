-------------------------- MODULE MCResearchGraph --------------------------
(***************************************************************************)
(* One score vector for each way a draft can turn out: it passes; research *)
(* fails; coverage or quality fails; consistency fails; completeness fails *)
(* worst and consistency next.                                             *)
(***************************************************************************)
EXTENDS ResearchGraph

RubricsMC == { <<5, 4, 5, 4, 4>>, <<2, 4, 5, 4, 4>>, <<4, 4, 4, 4, 4>>, <<4, 4, 5, 1, 3>>,
               <<1, 4, 5, 2, 4>> }
=============================================================================
