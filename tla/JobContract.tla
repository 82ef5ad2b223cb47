---------------------------- MODULE JobContract ----------------------------
(***************************************************************************)
(* What the system promises of one job to those outside it: its submitter, *)
(* its reviewers and whoever reads the bucket (routes/api.py,              *)
(* database/queries.py, graph/state.py).  Queues, workers, checkpoints,    *)
(* locks and sweeps do not appear.                                         *)
(***************************************************************************)
EXTENDS Integers

CONSTANTS GateVisits, Answers, Unanswered

VARIABLES
    fate,       \* "none", "open", or how the job ended
    shown,      \* gate visits on record as opened
    answer,     \* the decision on record for each visit
    stored      \* the report is in the bucket

contractVars == <<fate, shown, answer, stored>>

Init ==
    /\ fate = "none" /\ stored = FALSE
    /\ shown = {} /\ answer = [v \in GateVisits |-> Unanswered]

Accept ==
    /\ fate = "none" /\ fate' = "open"
    /\ UNCHANGED <<shown, answer, stored>>

(* A draft is put to the reviewers while the job is open, each visit once.  *)
Show(v) ==
    /\ fate = "open" /\ v \notin shown
    /\ shown' = shown \cup {v}
    /\ UNCHANGED <<fate, answer, stored>>

(* A visit is answered once; the job may have ended while the request ran.  *)
Decide(v, d) ==
    /\ fate # "none" /\ answer[v] = Unanswered
    /\ answer' = [answer EXCEPT ![v] = d]
    /\ UNCHANGED <<fate, shown, stored>>

Was(d) == \E v \in shown : answer[v] = d

(* Nothing is stored that was not approved, at a visit that was shown.      *)
Store ==
    /\ ~stored /\ Was("approve")
    /\ stored' = TRUE
    /\ UNCHANGED <<fate, shown, answer>>

(* A job ends once: approved with its report stored, rejected by a          *)
(* reviewer, or failed.                                                     *)
End(s) ==
    /\ fate = "open"
    /\ s = "approved" => stored
    /\ s = "rejected" => Was("reject")
    /\ fate' = s
    /\ UNCHANGED <<shown, answer, stored>>

(* The last delivery may be given up after the job ended: failed overrides. *)
Override ==
    /\ fate \in {"approved", "rejected"}
    /\ fate' = "failed"
    /\ UNCHANGED <<shown, answer, stored>>

Next ==
    \/ Accept \/ Store \/ Override
    \/ \E v \in GateVisits : Show(v) \/ \E d \in Answers : Decide(v, d)
    \/ \E s \in {"approved", "rejected", "failed"} : End(s)

Spec == Init /\ [][Next]_contractVars
=============================================================================
