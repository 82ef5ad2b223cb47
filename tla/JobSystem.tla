----------------------------- MODULE JobSystem -----------------------------
(***************************************************************************)
(* The composition: workers, the API, the operators and the queue around   *)
(* one job's durable state, and what must hold of them together.           *)
(***************************************************************************)
EXTENDS Worker, ReviewApi, Operations

vars == <<storeVars, workerVars, apiVars, opVars>>

Init == StoreInit /\ WorkerInit /\ ApiInit /\ OpInit

WorkerStep(A) == A /\ UNCHANGED <<apiVars, opVars>>
ApiStep(A)    == A /\ UNCHANGED <<workerVars, opVars>>
OpStep(A)     == A /\ UNCHANGED <<workerVars, apiVars>>

Next == WorkerStep(WorkerNext) \/ ApiStep(ApiNext) \/ OpStep(OpNext)

Spec == Init /\ [][Next]_vars

-----------------------------------------------------------------------------
(* Fairness.  Some worker keeps polling; a worker takes its next step, and one that polls for *)
(* the lock gets it if it keeps coming free (the poll is jittered); a stopped worker is       *)
(* replaced; SQS expires and redrives; a handler that began goes on.  Operators run sweeps    *)
(* again and again, so that a requeue is not for ever inside the deduplication window.        *)
WorkerFairness ==
    /\ WF_vars(\E w \in Workers : WorkerStep(Receive(w)))
    /\ \A w \in Workers : /\ WF_vars(WorkerStep(Run(w)))
                          /\ SF_vars(WorkerStep(WaitForLock(w)))
                          /\ WF_vars(WorkerStep(Restart(w)))
    /\ WF_vars(WorkerStep(ExpireDelivery)) /\ WF_vars(WorkerStep(RedriveMessage))

ApiFairness ==
    /\ WF_vars(ApiStep(EnqueueStart))
    /\ \A r \in Reviewers : WF_vars(ApiStep(Handle(r)))

SweepFairness ==
    \A o \in Operators : /\ SF_vars(OpStep(ReadDeadLetters(o)))
                         /\ WF_vars(OpStep(Operate(o)))
                         /\ SF_vars(OpStep(Apply(o)) /\ sends' # sends)

FairSpec == Spec /\ WorkerFairness /\ ApiFairness /\ SweepFairness

-----------------------------------------------------------------------------
(* Every variable stays in its set. *)
TypeOK == StoreTypeOK /\ WorkerTypeOK /\ ApiTypeOK /\ OpTypeOK

-----------------------------------------------------------------------------
(* Who may touch the job.                                                                     *)

(* Where a worker may touch the checkpoint or end the job. *)
Executing == Labels \ {"idle", "received", "wait", "unlock", "ack", "fallback"}

(* ADR 0016: at most one process is inside the execution lock's region, whatever the queue    *)
(* delivers twice and whoever is frozen: a worker between its row read and its last           *)
(* reconcile, or a sweep between its evidence and its audit row.                              *)
OneExecutor ==
    /\ \A w \in Workers : pc[w] \in Executing => fence = w
    /\ \A o \in Operators : op[o].at \in {"apply", "note"} => fence = o

(* A job that ran is never started again from nothing (worker.py, _handle_or_skip): however   *)
(* often its start message is redelivered, requeued or replayed, and whatever its row says by *)
(* then, its checkpoint never goes back to absent and its call count never falls.             *)
NeverRestarted ==
    [][ckpt.node \notin {"absent", "stub"} =>
          ckpt'.node \notin {"absent", "stub"} /\ ckpt'.calls >= ckpt.calls]_vars

(* Ending a job and running it are exclusive: once the row is complete - by a worker, by      *)
(* _finalise or by a sweep that found a dead letter - no delivery spends another call or      *)
(* takes the graph back to the gate, although the checkpoint may still hold a pending node.   *)
SpendsNothingWhenFinished ==
    [][row.completed => ckpt'.calls = ckpt.calls /\ ckpt'.pending # "interrupt"]_vars

(* A finished job never becomes unfinished, and its status changes afterwards only to failed, *)
(* by _finalise: no reconcile, claim, gate opening or repair talks over finish_job.           *)
FinishedStaysFinished ==
    [][row.completed => /\ row'.completed
                        /\ row'.status \in {row.status, "failed"}]_vars

-----------------------------------------------------------------------------
(* Messages and their acknowledgement.                                                        *)

(* ADR 0010 decision 6: a delivery is to be acknowledged only once the durable state it leaves *)
(* needs no further delivery: the row is complete, the graph has ended, or it waits at a gate. *)
AckMeansOutcome ==
    [][\A w \in Workers : (task'[w].ack /\ ~task[w].ack) =>
          row'.completed \/ WaitingAtTheGate \/ ckpt.node = "end"]_vars

(* An unfinished job is always in somebody's hands: its message is in the queue or among the  *)
(* dead letters, its gate is open to a reviewer, or a sweep would act on it.  Lost            *)
(* acknowledgements, refused sends and crashes between two calls may delay a job; they never  *)
(* drop one - as long as no worker sleeps through its own lease (the pause of FaultKinds).    *)
NoOrphan ==
    \/ row.status = "none" \/ row.completed
    \/ queue # <<>> \/ dlq # {}
    \/ WaitingAtTheGate
    \/ Outcome(FALSE) # "none"

(* Deliveries end: no worker waits for the lock for ever and none keeps a message for ever,   *)
(* so the queue keeps coming empty (every message is acknowledged or dead-lettered).          *)
QueueDrains == []<>(queue = <<>>)

(* A submitted job does not hang: it finishes or reaches its reviewer - or, the one exception *)
(* the code has, its row says awaiting_approval with its message dead-lettered and no gate    *)
(* open, which no sweep selects (ADR 0021) and no replay accepts; GateProjection is about it. *)
Settles ==
    row.status = "queued" ~>
        \/ row.completed
        \/ WaitingAtTheGate
        \/ row.status = "awaiting_approval" /\ dlq # {}

-----------------------------------------------------------------------------
(* The reviewer's gate.                                                                       *)

(* What a resume is given is what the trail says was decided at the visit the graph is at     *)
(* (ADR 0011): no delivery answers a gate with an answer given at another one, or twice.      *)
ResumeMatchesTrail ==
    \A w \in Workers :
        (pc[w] \in {"admit", "node", "opened"} /\ task[w].input \in Decisions) =>
            /\ WaitingAtTheGate /\ ckpt.node = "human_gate"
            /\ trail.decided[ckpt.calls] = task[w].input

(* Nothing is approved or stored that no reviewer approved: a job recorded as approved, and   *)
(* an object in the bucket, had the draft it holds approved at the visit the graph is at, a   *)
(* visit the trail shows open.                                                                *)
ApprovalIsHuman ==
    (row.status = "approved" \/ artifact) =>
        /\ ckpt.calls \in trail.opened
        /\ trail.decided[ckpt.calls] = "approve"

(* ADR 0006 decision 7: a recorded edit has the calls it needs at the visit it answers,       *)
(* although the budget, the claim and the record are three reads and writes apart.            *)
EditsFit ==
    \A v \in Visits : trail.decided[v] = "edit" => MaxCalls - v >= EditCost

(* ADR 0009 decision 1: exported_at means the object was written, an object has a stored body *)
(* with every claim cited, and approved means exported; a failed or lost PutObject never      *)
(* leaves an approved job, in the worker and in the re-export alike.                          *)
ExportedMeansWritten ==
    /\ row.exported => artifact
    /\ artifact => row.report /\ ckpt.cited
    /\ row.status = "approved" => row.exported

-----------------------------------------------------------------------------
(* Why the above hold: what each process may rely on where it stands, by its hold on the lock *)
(* and what it read under it.  ExecutionInv is inductive; JobSystem_proofs proves it.         *)

(* Past the row read and before the checkpoint of the last node. *)
Advancing == {"start", "decide", "admit", "node", "opened", "put", "stamp"}

WorkerInv(w) ==
    /\ pc[w] \in Executing => fence = w
    /\ pc[w] \in Advancing => ~row.completed
    /\ pc[w] = "after" /\ row.completed => ckpt.node = "end"
    /\ pc[w] = "opened" => ckpt.node = "human_gate"
    /\ pc[w] \in {"put", "stamp"} => ckpt.node = "export"
    /\ pc[w] = "commit" => /\ ckpt.node \in {"export", "finalize"}
                           /\ row.completed => ckpt.node = "finalize"
    /\ pc[w] = "finish" => ckpt.pending = "none"
    /\ pc[w] \in {"received", "wait", "row", "start", "decide"} => task[w].input = "none"
    /\ pc[w] = "start" => ckpt.node = "absent"
    /\ pc[w] = "admit" /\ task[w].input = "new" => ckpt.node = "absent"
    /\ pc[w] \in {"decide", "gateack", "regate", "reread"} => WaitingAtTheGate
    /\ pc[w] \in {"admit", "node", "opened"} /\ task[w].input \in Decisions =>
          WaitingAtTheGate /\ trail.decided[ckpt.calls] = task[w].input

OperatorInv(o) ==
    /\ op[o].at \in {"apply", "note"} => fence = o
    /\ op[o].at = "apply" =>
          /\ ~row.completed
          /\ op[o].outcome = "repaired_terminal" => ckpt.status \in Terminal
          /\ op[o].outcome \in {"repaired_terminal", "failed"} => ~WaitingAtTheGate

JobInv ==
    /\ row.completed => row.status \in Terminal /\ ~WaitingAtTheGate
    /\ WaitingAtTheGate => ckpt.node = "human_gate"
    /\ ckpt.node \in {"absent", "stub"} => ckpt.calls = 0

(* Where each process stands tells what it may rely on: between its first read under the lock *)
(* and its last write no other process ends the job, moves its graph or answers its gate.     *)
ExecutionInv ==
    /\ JobInv
    /\ \A w \in Workers : WorkerInv(w)
    /\ \A o \in Operators : OperatorInv(o)

-----------------------------------------------------------------------------
(* What all of it amounts to for a caller: a step of any process, whatever was delivered      *)
(* twice, crashed or was repaired, is a step of the job's contract or is not seen outside.    *)
Contract == INSTANCE JobContract WITH
    GateVisits <- Visits, Answers <- Decisions, Unanswered <- Undecided,
    fate <- IF row.completed THEN row.status
            ELSE IF row.status = "none" THEN "none" ELSE "open",
    shown <- trail.opened, answer <- trail.decided, stored <- artifact

KeepsTheContract == Contract!Spec

-----------------------------------------------------------------------------
(* What the documentation says of the program and the program does not do.                    *)

(* finish_job's docstring: the job_finished event is written in the status's own transaction, *)
(* "what makes the status and its explanation impossible to disagree".                        *)
RowMatchesTrail == row.completed => row.status = trail.finished

(* claim_gate's docstring: "the conditional update has exactly one winner, so the loser is    *)
(* told": a reviewer who was answered 200 for a decision finds it in the trail.               *)
ToldIsRecorded == \A t \in told : trail.decided[t.visit] = t.decision

(* ADR 0006 decision 6: reviewer edits are bounded, by a refusal at the endpoint.             *)
EditsBounded == EditsMade <= MaxEdits

Quiet == queue = <<>> /\ \A w \in Workers : pc[w] = "idle"

(* ADR 0007 invariant 4: the row says awaiting_approval only while an interrupt is pending -  *)
(* asked only when no message and no worker is left to make it so.                            *)
GateProjection == Quiet /\ row.status = "awaiting_approval" => WaitingAtTheGate

(* ADR 0011: the endpoint records the decision, enqueues a resume, and the worker resumes: a  *)
(* decision answered 200 is not still waiting at its gate with nothing left to carry it.      *)
DecisionTravels ==
    ~ /\ Quiet /\ dlq = {} /\ \A r \in Reviewers : req[r].at = "closed"
      /\ WaitingAtTheGate
      /\ [visit |-> ckpt.calls, decision |-> trail.decided[ckpt.calls]] \in told
=============================================================================
