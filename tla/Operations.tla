----------------------------- MODULE Operations -----------------------------
(***************************************************************************)
(* operations.py and the three operator scripts: the stale-job sweep       *)
(* (scripts/reconcile_jobs.py --apply), the replay of one dead-lettered    *)
(* message (scripts/replay_dlq.py --apply), and the re-export of a report  *)
(* whose artifact was never written (scripts/reexport_job.py).             *)
(*                                                                         *)
(* Age chooses which unfinished rows a sweep looks at and authorises       *)
(* nothing; here a sweep may look at any of them at any time.              *)
(***************************************************************************)
EXTENDS JobStore

VARIABLES
    op,          \* where each operator is, and what it has read
    reconciled   \* outcomes on record as job_reconciled

opVars == <<op, reconciled>>

Outcomes == {"repaired_gate", "repaired_terminal", "failed", "requeued"}  \* MUTATING_OUTCOMES

Letters == [n : 0 .. MaxSends, id : Visits, rc : 0 .. MaxReceive]

Sessions ==
    {s \in [at : {"idle", "select", "fence", "apply", "note",
                  "verdict", "resend", "discard", "reput", "restamp"},
            dead : BOOLEAN,                    \* the job had a dead-lettered message
            outcome : Outcomes \cup {"none"},  \* what decide() answered
            letter : Letters] :                \* the message being replayed
        s.at \in {"apply", "note"} => s.outcome \in Outcomes}

Idle == [at |-> "idle", dead |-> FALSE, outcome |-> "none",
         letter |-> [n |-> 0, id |-> 0, rc |-> 0]]

OpTypeOK == op \in [Operators -> Sessions] /\ reconciled \subseteq Outcomes

OpInit == op = [o \in Operators |-> Idle] /\ reconciled = {}

To(o, next) == op' = [op EXCEPT ![o] = next]

CheckpointTerminal == ckpt.node # "absent" /\ ckpt.status \in Terminal

(* decide() without the dead-letter queue's evidence. *)
OutcomeOfCheckpoint(dead) ==                                                   \* mutant
    IF row.completed THEN "none"
    ELSE IF WaitingAtTheGate
         THEN IF row.status = "awaiting_approval" THEN "none" ELSE "repaired_gate"
    ELSE IF CheckpointTerminal THEN "repaired_terminal"
    ELSE IF row.status = "queued" /\ ckpt.node = "absent" THEN "requeued"
    ELSE "none"

(* decide() that leaves a lost start message to redelivery. *)
OutcomeWithoutRequeue(dead) ==                                                 \* mutant
    IF row.completed THEN "none"
    ELSE IF WaitingAtTheGate
         THEN IF row.status = "awaiting_approval" THEN "none" ELSE "repaired_gate"
    ELSE IF CheckpointTerminal THEN "repaired_terminal"
    ELSE IF dead THEN "failed"
    ELSE "none"

(* decide(evidence) for an unfinished job; "none" is no_change or skipped. *)
Outcome(dead) ==
    IF row.completed THEN "none"
    ELSE IF WaitingAtTheGate
         THEN IF row.status = "awaiting_approval" THEN "none" ELSE "repaired_gate"
    ELSE IF CheckpointTerminal THEN "repaired_terminal"
    ELSE IF dead THEN "failed"
    ELSE IF row.status = "queued" /\ ckpt.node = "absent" THEN "requeued"
    ELSE "none"

-----------------------------------------------------------------------------
(* The dead-letter queue is read first, ... *)
ReadDeadLetters(o) ==
    /\ op[o].at = "idle" /\ row.status # "none"
    /\ To(o, [Idle EXCEPT !.at = "select", !.dead = dlq # {}])
    /\ UNCHANGED <<reconciled, storeVars>>

(* ... then the candidates, ... *)
SelectCandidate(o) ==
    /\ op[o].at = "select"
    /\ To(o, IF ~row.completed /\ row.status \in {"queued", "running"}
             THEN [op[o] EXCEPT !.at = "fence"] ELSE Idle)
    /\ UNCHANGED <<reconciled, storeVars>>

(* ... and each one's evidence, under the lock, which a sweep tries once. *)
Inspect(o) ==
    /\ op[o].at = "fence"
    /\ \/ /\ fence # NoOne
          /\ To(o, Idle) /\ UNCHANGED fence
       \/ /\ Outcome(op[o].dead) = "none"
          /\ fence = NoOne
          /\ To(o, Idle) /\ UNCHANGED fence
       \/ /\ Outcome(op[o].dead) # "none"
          /\ TryAcquire(o)
          /\ To(o, [op[o] EXCEPT !.at = "apply", !.outcome = Outcome(op[o].dead)])
    /\ UNCHANGED <<reconciled, row, trail, ckpt, artifact, queueVars, faults>>

(* _apply: the repair, ... *)
Apply(o) ==
    /\ op[o].at = "apply"
    /\ \/ /\ op[o].outcome = "repaired_gate"
          /\ SetJobStatus("awaiting_approval")
          /\ UNCHANGED <<trail, queueVars>>
       \/ /\ op[o].outcome = "repaired_terminal"
          /\ FinishJob(ckpt.status)
          /\ UNCHANGED queueVars
       \/ /\ op[o].outcome = "failed"
          /\ FinishJob("failed")
          /\ UNCHANGED queueVars
       \/ /\ op[o].outcome = "requeued"
          /\ Send(StartId)
          /\ UNCHANGED dbVars
    /\ To(o, [op[o] EXCEPT !.at = "note"])
    /\ UNCHANGED <<reconciled, ckpt, artifact, fence, faults>>

(* A start message that cannot be sent is reported, not recorded. *)
RequeueFails(o) ==
    /\ op[o].at = "apply" /\ op[o].outcome = "requeued"
    /\ SendFails(StartId)
    /\ To(o, Idle) /\ Release(o)
    /\ UNCHANGED <<reconciled, row, trail, ckpt, artifact>>

(* ... and the audit row that says who made it; then the lock is released. *)
Note(o) ==
    /\ op[o].at = "note"
    /\ reconciled' = reconciled \cup {op[o].outcome}
    /\ To(o, Idle) /\ Release(o)
    /\ UNCHANGED <<row, trail, ckpt, artifact, queueVars, faults>>

-----------------------------------------------------------------------------
(* replay_verdict(evidence) *)
Replayable ==
    /\ ~row.completed /\ ~WaitingAtTheGate /\ ~CheckpointTerminal
    /\ row.status \in {"queued", "running"}

TakeLetter(o) ==
    /\ op[o].at = "idle"
    /\ \E m \in dlq : To(o, [Idle EXCEPT !.at = "verdict", !.letter = m])
    /\ UNCHANGED <<reconciled, storeVars>>

(* The lock is tried, the verdict reached and the lock released: it does not cover the send. *)
ReachVerdict(o) ==
    /\ op[o].at = "verdict"
    /\ To(o, IF fence = NoOne /\ Replayable THEN [op[o] EXCEPT !.at = "resend"] ELSE Idle)
    /\ UNCHANGED <<reconciled, storeVars>>

Resend(o) ==
    /\ op[o].at = "resend"
    /\ \/ /\ Send(op[o].letter.id) /\ UNCHANGED faults
          /\ To(o, [op[o] EXCEPT !.at = "discard"])
       \/ SendFails(op[o].letter.id) /\ To(o, Idle)
    /\ UNCHANGED <<reconciled, row, trail, ckpt, artifact, fence>>

Discard(o) ==
    /\ op[o].at = "discard"
    /\ dlq' = dlq \ {op[o].letter}
    /\ To(o, Idle)
    /\ UNCHANGED <<reconciled, row, trail, ckpt, artifact, fence,
                   queue, inflight, sends, lastSent, aged, faults>>

-----------------------------------------------------------------------------
(* reexport: no lock; the row says a body exists and no artifact does. *)
Reexport(o) ==
    /\ op[o].at = "idle" /\ row.report /\ ~row.exported
    /\ To(o, [Idle EXCEPT !.at = "reput"])
    /\ UNCHANGED <<reconciled, storeVars>>

ReexportPut(o) ==
    /\ op[o].at = "reput"
    /\ \/ artifact' = TRUE /\ To(o, [op[o] EXCEPT !.at = "restamp"]) /\ UNCHANGED faults
       \/ Fault("put") /\ artifact' \in {artifact, TRUE} /\ To(o, Idle)
    /\ UNCHANGED <<reconciled, row, trail, ckpt, fence, queueVars>>

ReexportStamp(o) ==
    /\ op[o].at = "restamp"
    /\ row' = [row EXCEPT !.exported = TRUE]
    /\ To(o, Idle)
    /\ UNCHANGED <<reconciled, trail, ckpt, artifact, fence, queueVars, faults>>

(* The operator's process ends anywhere; its lock goes with its session. *)
OperatorDies(o) ==
    /\ op[o].at # "idle" /\ Fault("crash")
    /\ To(o, Idle) /\ Release(o)
    /\ UNCHANGED <<reconciled, row, trail, ckpt, artifact, queueVars>>

Operate(o) ==
    \/ SelectCandidate(o) \/ Inspect(o) \/ Apply(o) \/ RequeueFails(o) \/ Note(o)
    \/ ReachVerdict(o) \/ Resend(o) \/ Discard(o)
    \/ ReexportPut(o) \/ ReexportStamp(o)

OpNext == \E o \in Operators :
    \/ ReadDeadLetters(o) \/ TakeLetter(o) \/ Reexport(o) \/ Operate(o) \/ OperatorDies(o)
=============================================================================
