----------------------------- MODULE CallBudget -----------------------------
(***************************************************************************)
(* What the budget of a job promises (llm_client.py CallBudget, "a hard    *)
(* ceiling, not an approximate one"): units are claimed one at a time and  *)
(* never beyond the limit, and a unit pays for one request at most.        *)
(***************************************************************************)
EXTENDS Integers

CONSTANTS Ceiling, SpentBefore

VARIABLES used, claimed, paid

budgetVars == <<used, claimed, paid>>

Init == used = SpentBefore /\ claimed = {} /\ paid = {}

Claim ==
    /\ used < Ceiling
    /\ used' = used + 1
    /\ claimed' = claimed \cup {used + 1}
    /\ UNCHANGED paid

(* A request is sent under a claimed unit. *)
Pay(n) ==
    /\ n \in claimed
    /\ claimed' = claimed \ {n}
    /\ paid' = paid \cup {n}
    /\ UNCHANGED used

(* A unit whose request is never sent is not given back. *)
Forfeit(n) ==
    /\ n \in claimed
    /\ claimed' = claimed \ {n}
    /\ UNCHANGED <<used, paid>>

Next == Claim \/ \E n \in claimed : Pay(n) \/ Forfeit(n)

Spec == Init /\ [][Next]_budgetVars
=============================================================================
