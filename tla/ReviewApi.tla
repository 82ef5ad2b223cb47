----------------------------- MODULE ReviewApi -----------------------------
(***************************************************************************)
(* routes/api.py: the two handlers that change a job.  POST /jobs commits  *)
(* the row and then sends the start message.  POST /jobs/{id}/approve      *)
(* reads the row, the gate visit and the decision on record, then claims   *)
(* the gate, records the decision and sends the resume; every `await` of   *)
(* that handler is a point where another process may run.                  *)
(***************************************************************************)
EXTENDS JobStore

CONSTANTS
    Reviewers,    \* reviewers; each has one request open at a time
    MaxEdits,     \* max_reviewer_edits
    EditCost,     \* EDIT_CALL_COST
    MaxRequests   \* bound: decisions sent to the endpoint

ASSUME ReviewAssumption ==
    MaxEdits \in Nat /\ EditCost \in Nat \ {0} /\ MaxRequests \in Nat

VARIABLES
    submission,   \* how far POST /jobs has come
    req,          \* each reviewer's open request
    requests,     \* requests so far
    told          \* the decisions a caller was told 200 for, with their visits

apiVars == <<submission, req, requests, told>>

Requests == [at : {"closed", "visit", "recorded", "claim", "record", "enqueue"},
             decision : Decisions,        \* the request body
             saw : Statuses,              \* jobs.status, as the handler read it
             visit : Visits]              \* calls_used, as the handler read it

Closed == [at |-> "closed", decision |-> "approve", saw |-> "queued", visit |-> 0]

ApiTypeOK ==
    /\ submission \in {"none", "created", "done"}
    /\ req \in [Reviewers -> Requests]
    /\ requests \in 0 .. MaxRequests
    /\ told \subseteq [visit : Visits, decision : Decisions]

ApiInit ==
    /\ submission = "none"
    /\ req = [r \in Reviewers |-> Closed]
    /\ requests = 0 /\ told = {}

Step(r, next) == req' = [req EXCEPT ![r] = next]
Refuse(r)     == Step(r, Closed)

-----------------------------------------------------------------------------
(* submit_job *)
Submit ==
    /\ submission = "none"
    /\ CreateJob
    /\ submission' = "created"
    /\ UNCHANGED <<req, requests, told, trail, ckpt, artifact, fence, queueVars, faults>>

EnqueueStart ==
    /\ submission = "created"
    /\ \/ Send(StartId) /\ UNCHANGED faults
       \/ SendFails(StartId)
    /\ submission' = "done"
    /\ UNCHANGED <<req, requests, told, row, trail, ckpt, artifact, fence>>

(* The API task dies between the commit and the send. *)
SubmitCrash ==
    /\ submission = "created" /\ Fault("crash")
    /\ submission' = "done"
    /\ UNCHANGED <<req, requests, told, row, trail, ckpt, artifact, fence, queueVars>>

-----------------------------------------------------------------------------
(* decide: the row, ... *)
ReadRow(r) ==
    /\ req[r].at = "closed" /\ requests < MaxRequests /\ row.status # "none"
    /\ requests' = requests + 1
    /\ \E d \in Decisions :
          IF row.status \in Terminal \cup {"queued"}
          THEN Refuse(r)
          ELSE Step(r, [at |-> "visit", decision |-> d, saw |-> row.status, visit |-> 0])
    /\ UNCHANGED <<submission, told, storeVars>>

(* ... the visit the checkpoint is at, ... *)
ReadVisit(r) ==
    /\ req[r].at = "visit"
    /\ Step(r, [req[r] EXCEPT !.at = "recorded", !.visit = ckpt.calls])
    /\ UNCHANGED <<submission, requests, told, storeVars>>

(* refuse_edit; the number of edits is read here, the call count was read above. *)
AffordableByNumber(visit) == EditsMade < MaxEdits                              \* mutant
Affordable(visit) == EditsMade < MaxEdits /\ MaxCalls - visit >= EditCost

(* ... and the decision on record for it: a first answer, a retry or a change of mind. *)
ReadRecorded(r) ==
    /\ req[r].at = "recorded"
    /\ LET q == req[r]
           recorded == trail.decided[q.visit]
       IN  \/ /\ recorded = Undecided
              /\ IF /\ q.saw = "awaiting_approval"
                    /\ q.decision = "edit" => Affordable(q.visit)
                 THEN Step(r, [q EXCEPT !.at = "claim"])
                 ELSE Refuse(r)
           \/ recorded = q.decision /\ Step(r, [q EXCEPT !.at = "enqueue"])
           \/ recorded \notin {Undecided, q.decision} /\ Refuse(r)
    /\ UNCHANGED <<submission, requests, told, storeVars>>

(* _accept: one conditional update decides between two reviewers, ... *)
Claim(r) ==
    /\ req[r].at = "claim"
    /\ ClaimGate
    /\ IF CanClaim THEN Step(r, [req[r] EXCEPT !.at = "record"]) ELSE Refuse(r)
    /\ UNCHANGED <<submission, requests, told, trail, ckpt, artifact, fence, queueVars, faults>>

(* ... and the decision is written before the graph may move. *)
Record(r) ==
    /\ req[r].at = "record"
    /\ \/ /\ RecordDecision(req[r].visit, req[r].decision)
          /\ Step(r, [req[r] EXCEPT !.at = "enqueue"])
          /\ UNCHANGED faults
       \/ /\ Fault("db")
          /\ RecordDecision(req[r].visit, req[r].decision) \/ UNCHANGED trail
          /\ Refuse(r)
    /\ UNCHANGED <<submission, requests, told, row, ckpt, artifact, fence, queueVars>>

(* _enqueue_resume, and the answer. *)
EnqueueResume(r) ==
    /\ req[r].at = "enqueue"
    /\ \/ /\ Send(req[r].visit)
          /\ told' = told \cup {[visit |-> req[r].visit, decision |-> req[r].decision]}
          /\ UNCHANGED faults
       \/ SendFails(req[r].visit) /\ UNCHANGED told
    /\ Refuse(r)
    /\ UNCHANGED <<submission, requests, row, trail, ckpt, artifact, fence>>

(* The API task dies, or the reviewer's connection does. *)
RequestDies(r) ==
    /\ req[r].at # "closed" /\ Fault("crash")
    /\ Refuse(r)
    /\ UNCHANGED <<submission, requests, told, row, trail, ckpt, artifact, fence, queueVars>>

Handle(r) == ReadVisit(r) \/ ReadRecorded(r) \/ Claim(r) \/ Record(r) \/ EnqueueResume(r)

ApiNext ==
    \/ Submit \/ EnqueueStart \/ SubmitCrash
    \/ \E r \in Reviewers : ReadRow(r) \/ Handle(r) \/ RequestDies(r)
=============================================================================
