------------------------------- MODULE Worker -------------------------------
(***************************************************************************)
(* worker.py: one delivery, from ReceiveMessage to acknowledgement or to   *)
(* deliberate non-acknowledgement, and graph/build.py's nodes as the       *)
(* worker drives them, one admitted node at a time.                        *)
(*                                                                         *)
(* Each value of pc[w] is a point between two calls that read or write     *)
(* shared state.  The planner, the researcher, the synthesizer, the        *)
(* fact-checker, the supervisor and reflection are one node, "work": what  *)
(* the delivery protocol sees of them is that they spend calls, may fail   *)
(* the job, and in the end reach the gate.                                 *)
(***************************************************************************)
EXTENDS JobStore

VARIABLES
    pc,    \* where each worker is
    task,  \* the delivery it is handling
    stop   \* Shutdown.requested

workerVars == <<pc, task, stop>>

(* The node admitted last has not returned: a stream() call is running. *)
InNode == {"node", "opened", "put", "stamp", "commit"}
(* The receipt's heartbeat thread is running. *)
Heartbeat == InNode \cup {"wait", "row", "start", "decide", "admit", "after", "gateack",
                          "regate", "reread", "finalise", "finish", "reconcile", "unlock"}
Labels == Heartbeat \cup {"idle", "received", "ack", "fallback"}

Tasks == [n : 0 .. MaxSends, rc : 0 .. MaxReceive,      \* the receipt
          lost : BOOLEAN,                               \* lease.ownership_lost
          input : {"none", "new"} \cup Decisions,       \* what stream() is given next
          outcome : Terminal \cup {"running"},          \* the update a node is about to return
          ack : BOOLEAN, raised : BOOLEAN,              \* acknowledge, invocation_failed
          why : Reasons,                                \* _finalise's reason
          back : {"unlock", "reconcile"}]               \* where a helper returns to

NoTask == [n |-> 0, rc |-> 0, lost |-> FALSE, input |-> "none", outcome |-> "running",
           ack |-> FALSE, raised |-> FALSE, why |-> "none", back |-> "unlock"]

WorkerTypeOK ==
    /\ pc \in [Workers -> Labels]
    /\ task \in [Workers -> Tasks]
    /\ stop \in [Workers -> BOOLEAN]

WorkerInit ==
    /\ pc = [w \in Workers |-> "idle"]
    /\ task = [w \in Workers |-> NoTask]
    /\ stop = [w \in Workers |-> FALSE]

GoWith(w, label, t) ==
    /\ pc' = [pc EXCEPT ![w] = label]
    /\ task' = [task EXCEPT ![w] = t]
    /\ UNCHANGED stop
Go(w, label) == GoWith(w, label, task[w])

Final(w)       == task[w].rc >= MaxReceive
Relinquish(w)  == stop[w] \/ task[w].lost

(* A helper's answer, back where it was called from. *)
Return(w, answer) == GoWith(w, task[w].back, [task[w] EXCEPT !.ack = answer])

(* _finalise(reason), to return to `back`. *)
CallFinalise(w, reason, back) ==
    GoWith(w, "finalise", [task[w] EXCEPT !.why = reason, !.back = back, !.ack = FALSE])

(* handle()'s except clause. *)
Raise(w) ==
    LET t == [task[w] EXCEPT !.raised = TRUE, !.ack = FALSE]
    IN  IF Final(w)
        THEN GoWith(w, "finalise", [t EXCEPT !.why = "job_dead_lettered", !.back = "unlock"])
        ELSE GoWith(w, "unlock", t)

-----------------------------------------------------------------------------
(* run(): the poll, and the second look at the flag after it.              *)

Receive(w) ==
    /\ pc[w] = "idle" /\ ~stop[w]
    /\ ReceiveHead
    /\ GoWith(w, "received",
              [NoTask EXCEPT !.n = Head(queue).n, !.rc = Head(queue).rc + 1])
    /\ UNCHANGED <<row, trail, ckpt, artifact, fence, faults>>

(* Left in flight during shutdown; otherwise handle() starts the heartbeat. *)
Received(w) ==
    /\ pc[w] = "received"
    /\ \/ /\ Go(w, IF stop[w] THEN "idle" ELSE "wait")
          /\ UNCHANGED faults
       \/ /\ ~stop[w] /\ Fault("lease")
          /\ Go(w, IF Final(w) THEN "fallback" ELSE "idle")
    /\ UNCHANGED <<row, trail, ckpt, artifact, fence, queueVars>>

(* _wait_for_execution_lock *)
WaitForLock(w) ==
    /\ pc[w] = "wait"
    /\ IF Relinquish(w)
       THEN Go(w, "unlock") /\ UNCHANGED fence
       ELSE TryAcquire(w) /\ Go(w, "row")
    /\ UNCHANGED <<row, trail, ckpt, artifact, queueVars, faults>>

(* _handle_or_skip: nothing to do for a job that is unknown or over, ... *)
RunsOverJobs == FALSE                                                          \* mutant
JobIsOver == row.status = "none" \/ row.completed

(* ... and whether it ever ran is the checkpoint's to say, never the row's or the message's. *)
TrustsTheRow == row.status \in {"queued", "running"}                           \* mutant
NeverRun == ckpt.node = "absent"

(* _handle_or_skip, and _continue up to its first write.  The row is read before the stop   *)
(* flags; the checkpoint, which only the holder of the lock changes, with it.               *)
ReadJob(w) ==
    /\ pc[w] = "row"
    /\ \/ /\ UNCHANGED faults
          /\ IF JobIsOver
             THEN GoWith(w, "unlock", [task[w] EXCEPT !.ack = TRUE])
             ELSE IF Relinquish(w) THEN Go(w, "unlock")
             ELSE IF NeverRun THEN Go(w, "start")
             ELSE IF ckpt.status = "failed" /\ ckpt.reason = "job_timeout"
                  THEN CallFinalise(w, "job_timeout", "unlock")
             ELSE Go(w, IF WaitingAtTheGate THEN "decide" ELSE "admit")
       \/ Fault("db") /\ Raise(w)
    /\ UNCHANGED <<row, trail, ckpt, artifact, fence, queueVars>>

(* _start *)
StartJob(w) ==
    /\ pc[w] = "start"
    /\ \/ /\ SetJobStatus("running")
          /\ GoWith(w, "admit", [task[w] EXCEPT !.input = "new"])
          /\ UNCHANGED faults
       \/ Fault("db") /\ (SetJobStatus("running") \/ UNCHANGED row) /\ Raise(w)
    /\ UNCHANGED <<trail, ckpt, artifact, fence, queueVars>>

(* _continue at a pending interrupt: resume with the recorded decision, or keep the gate. *)
ReadDecision(w) ==
    /\ pc[w] = "decide"
    /\ \/ /\ UNCHANGED faults
          /\ LET decision == trail.decided[ckpt.calls]
             IN  IF decision = Undecided
                 THEN GoWith(w, "gateack", [task[w] EXCEPT !.back = "unlock"])
                 ELSE GoWith(w, "admit", [task[w] EXCEPT !.input = decision])
       \/ Fault("db") /\ Raise(w)
    /\ UNCHANGED <<row, trail, ckpt, artifact, fence, queueVars>>

-----------------------------------------------------------------------------
(* _invoke: admit one node, run it to its checkpoint, look around.         *)

(* A new job's input is checkpointed before its first node runs. *)
Admit(w) ==
    /\ pc[w] = "admit"
    /\ IF Relinquish(w)
       THEN Go(w, "reconcile") /\ UNCHANGED ckpt
       ELSE /\ Go(w, "node")
            /\ ckpt' = IF task[w].input = "new" THEN [NoCheckpoint EXCEPT !.node = "work"]
                                                ELSE ckpt
    /\ UNCHANGED <<row, trail, artifact, fence, queueVars, faults>>

(* CallBudget.spend: a call is counted before it is sent, and the last one is MaxCalls. *)
OverrunsByOne(n) == ckpt.calls <= MaxCalls                                     \* mutant
CanSpend(n) == ckpt.calls + n <= MaxCalls

(* An agent spends a call and goes on to another or to the gate; an agent or a guard fails *)
(* the job; a router that finds it failed goes straight to finalize.                       *)
Work(w) ==
    /\ pc[w] = "node" /\ ckpt.node = "work"
    /\ \/ /\ CanSpend(1)
          /\ \/ ckpt' = [ckpt EXCEPT !.calls = @ + 1, !.pending = "none"]
             \/ /\ ckpt.status # "failed"
                /\ ckpt' = [ckpt EXCEPT !.calls = @ + 1, !.pending = "none",
                                        !.node = "human_gate"]
          /\ UNCHANGED faults
       \/ /\ CanSpend(1) /\ ckpt.status # "failed" /\ Fault("uncited")
          /\ ckpt' = [ckpt EXCEPT !.calls = @ + 1, !.pending = "none",
                                  !.node = "human_gate", !.cited = FALSE]
       \/ /\ ckpt.status # "failed"
          /\ \E next \in {"work", "finalize"}, spent \in {0, 1} :
                /\ CanSpend(spent)
                /\ ckpt' = [ckpt EXCEPT !.calls = @ + spent, !.pending = "none", !.node = next,
                                        !.status = "failed", !.reason = "graph"]
          /\ UNCHANGED faults
       \/ /\ ckpt.status = "failed"
          /\ ckpt' = [ckpt EXCEPT !.node = "finalize", !.pending = "none"]
          /\ UNCHANGED faults
    /\ Go(w, "after")
    /\ UNCHANGED <<row, trail, artifact, fence, queueVars>>

(* human_gate_node runs from the top on every execution of a visit. *)
OpenGate(w) ==
    /\ pc[w] = "node" /\ ckpt.node = "human_gate"
    /\ RecordGateOpened(ckpt.calls)
    /\ Go(w, "opened")
    /\ UNCHANGED <<ckpt, artifact, fence, queueVars, faults>>

Interrupt(w) ==
    /\ pc[w] = "opened" /\ task[w].input = "none"
    /\ ckpt' = [ckpt EXCEPT !.pending = "interrupt"]
    /\ Go(w, "after")
    /\ UNCHANGED <<row, trail, artifact, fence, queueVars, faults>>

Answer(w) ==
    /\ pc[w] = "opened"
    /\ \/ /\ task[w].input = "approve"
          /\ ckpt' = [ckpt EXCEPT !.pending = "none", !.node = "export"]
       \/ /\ task[w].input = "reject"
          /\ ckpt' = [ckpt EXCEPT !.pending = "none", !.node = "finalize", !.status = "rejected"]
       \/ /\ task[w].input = "edit"
          /\ ckpt' = [ckpt EXCEPT !.pending = "none", !.node = "work", !.cited = TRUE]
    /\ Go(w, "after")
    /\ UNCHANGED <<row, trail, artifact, fence, queueVars, faults>>

(* export_node's backstop: every claim reaches a source URL. *)
SkipsTheBackstop == TRUE                                                       \* mutant
CitationsResolve == ckpt.cited

(* export_node: the citation gate and the report body, ... *)
ExportGate(w) ==
    /\ pc[w] = "node" /\ ckpt.node = "export"
    /\ IF CitationsResolve
       THEN /\ row' = [row EXCEPT !.report = TRUE]
            /\ Go(w, "put")
       ELSE /\ UNCHANGED row
            /\ GoWith(w, "commit", [task[w] EXCEPT !.outcome = "failed"])
    /\ UNCHANGED <<trail, ckpt, artifact, fence, queueVars, faults>>

(* ... the object, which a write that failed may have left behind, ... *)
PutReport(w) ==
    /\ pc[w] = "put"
    /\ \/ artifact' = TRUE /\ Go(w, "stamp") /\ UNCHANGED faults
       \/ /\ Fault("put") /\ artifact' \in {artifact, TRUE}
          /\ GoWith(w, "commit", [task[w] EXCEPT !.outcome = "failed"])
    /\ UNCHANGED <<row, trail, ckpt, fence, queueVars>>

(* ... and the stamp that says the object exists. *)
StampExport(w) ==
    /\ pc[w] = "stamp"
    /\ row' = [row EXCEPT !.exported = TRUE]
    /\ GoWith(w, "commit", [task[w] EXCEPT !.outcome = "approved"])
    /\ UNCHANGED <<trail, ckpt, artifact, fence, queueVars, faults>>

(* finalize_node records how the job ended; no terminal status is a failure. *)
Finalize(w) ==
    /\ pc[w] = "node" /\ ckpt.node = "finalize"
    /\ LET effective == IF ckpt.status \in Terminal THEN ckpt.status ELSE "failed"
       IN  /\ FinishJob(effective)
           /\ GoWith(w, "commit", [task[w] EXCEPT !.outcome = effective])
    /\ UNCHANGED <<ckpt, artifact, fence, queueVars, faults>>

(* The checkpoint of the export or the finalize node. *)
Commit(w) ==
    /\ pc[w] = "commit"
    /\ ckpt' = [ckpt EXCEPT
                  !.node = IF @ = "export" THEN "finalize" ELSE "end",
                  !.status = task[w].outcome,
                  !.reason = IF task[w].outcome = "failed" /\ @ = "none" THEN "graph" ELSE @,
                  !.pending = "none"]
    /\ Go(w, "after")
    /\ UNCHANGED <<row, trail, artifact, fence, queueVars, faults>>

(* stream() on a thread with nothing pending returns at once. *)
NothingPending(w) ==
    /\ pc[w] = "node" /\ ckpt.node = "end"
    /\ Go(w, "after")
    /\ UNCHANGED <<row, trail, ckpt, artifact, fence, queueVars, faults>>

(* An exception out of a node: its error is written beside the checkpoint, and _invoke's  *)
(* finally runs.  The two-channel checkpoint always ends here: no node can read the rest. *)
NodeRaises(w) ==
    /\ pc[w] \in InNode
    /\ IF ckpt.node = "stub" THEN UNCHANGED faults ELSE Fault("db")
    /\ ckpt' = [ckpt EXCEPT !.pending = IF @ = "none" THEN "error" ELSE @]
    /\ GoWith(w, "reconcile", [task[w] EXCEPT !.raised = TRUE])
    /\ UNCHANGED <<row, trail, artifact, fence, queueVars>>

(* A shutdown after a node: the delivery is done only if the job is. *)
AlwaysFinished == TRUE                                                         \* mutant
DeliveryIsFinished == row.completed

(* What the next iteration gives stream(): an answer is consumed by the node that took it. *)
KeepsTheAnswer(w) == IF task[w].input \in Decisions THEN task[w].input ELSE "none"  \* mutant
NextInput(w) == "none"

(* After a node: lease, deadline, shutdown, then the snapshot, in that order. *)
AfterNode(w) ==
    /\ pc[w] = "after"
    /\ \/ /\ task[w].lost
          /\ GoWith(w, "reconcile", [task[w] EXCEPT !.ack = FALSE])
          /\ UNCHANGED faults
       \/ /\ ~task[w].lost /\ Fault("timeout")
          /\ CallFinalise(w, "job_timeout", "reconcile")
       \/ /\ ~task[w].lost /\ stop[w]
          /\ IF WaitingAtTheGate
             THEN GoWith(w, "gateack", [task[w] EXCEPT !.back = "reconcile"])
             ELSE GoWith(w, "reconcile", [task[w] EXCEPT !.ack = DeliveryIsFinished])
          /\ UNCHANGED faults
       \/ /\ ~Relinquish(w)
          /\ IF WaitingAtTheGate
             THEN GoWith(w, "gateack", [task[w] EXCEPT !.back = "unlock"])
             ELSE IF ckpt.node = "end"
             THEN GoWith(w, "reconcile", [task[w] EXCEPT !.ack = TRUE])
             ELSE GoWith(w, "admit", [task[w] EXCEPT !.input = NextInput(w)])
          /\ UNCHANGED faults
       \/ /\ ~task[w].lost /\ Fault("db")
          /\ GoWith(w, "reconcile", [task[w] EXCEPT !.raised = TRUE])
    /\ UNCHANGED <<row, trail, ckpt, artifact, fence, queueVars>>

-----------------------------------------------------------------------------
(* The helpers a delivery ends in.                                         *)

GateUsable == row.completed \/ row.status = "awaiting_approval"

(* _gate_delivery_is_acknowledgeable: the row, ... *)
CheckGateRow(w) ==
    /\ pc[w] = "gateack"
    /\ \/ /\ IF GateUsable THEN Return(w, TRUE) ELSE Go(w, "regate")
          /\ UNCHANGED faults
       \/ Fault("db") /\ Return(w, FALSE)
    /\ UNCHANGED <<row, trail, ckpt, artifact, fence, queueVars>>

(* ... its repair from the checkpoint, ... *)
RepairGateRow(w) ==
    /\ pc[w] = "regate"
    /\ \/ SetJobStatus(Projection) /\ Go(w, "reread") /\ UNCHANGED faults
       \/ Fault("db") /\ (SetJobStatus(Projection) \/ UNCHANGED row) /\ Return(w, FALSE)
    /\ UNCHANGED <<trail, ckpt, artifact, fence, queueVars>>

(* ... and the row again. *)
RereadGateRow(w) ==
    /\ pc[w] = "reread"
    /\ \/ Return(w, GateUsable) /\ UNCHANGED faults
       \/ Fault("db") /\ Return(w, FALSE)
    /\ UNCHANGED <<row, trail, ckpt, artifact, fence, queueVars>>

(* _finalise: the checkpoint first, ... *)
FinaliseCheckpoint(w) ==
    /\ pc[w] = "finalise"
    /\ IF ckpt.node \in {"absent", "stub"}
       THEN /\ FailAbsentCheckpoint(task[w].why)
            /\ Return(w, FALSE) /\ UNCHANGED faults
       ELSE \/ FailCheckpoint(task[w].why) /\ Go(w, "finish") /\ UNCHANGED faults
            \/ /\ Fault("db") /\ (FailCheckpoint(task[w].why) \/ UNCHANGED ckpt)
               /\ Return(w, FALSE)
    /\ UNCHANGED <<row, trail, artifact, fence, queueVars>>

(* ... then the row.  Only the timeout's callers use the answer. *)
FinaliseRow(w) ==
    /\ pc[w] = "finish"
    /\ \/ /\ FinishJob("failed") /\ UNCHANGED faults
          /\ Return(w, task[w].why = "job_timeout")
       \/ Fault("db") /\ (FinishJob("failed") \/ UNCHANGED dbVars) /\ Return(w, FALSE)
    /\ UNCHANGED <<ckpt, artifact, fence, queueVars>>

(* _reconcile_status in _invoke's finally.  A failed read is logged; a failed write raises, *)
(* in place of whatever _invoke was returning.                                              *)
ReconcileStatus(w) ==
    /\ pc[w] = "reconcile"
    /\ \/ /\ SetJobStatus(Projection) /\ UNCHANGED faults
          /\ IF task[w].raised THEN Raise(w) ELSE Go(w, "unlock")
       \/ /\ UNCHANGED row /\ Fault("db")
          /\ IF task[w].raised THEN Raise(w) ELSE Go(w, "unlock")
       \/ Fault("db") /\ (SetJobStatus(Projection) \/ UNCHANGED row) /\ Raise(w)
    /\ UNCHANGED <<trail, ckpt, artifact, fence, queueVars>>

(* handle()'s last question: is this receipt to be deleted? *)
AcknowledgesUnlessRaised(t) == ~t.raised                                       \* mutant
Acknowledges(t) == t.ack /\ ~t.raised /\ ~t.lost

(* Leaving the lock's context and joining the heartbeat. *)
Unlock(w) ==
    /\ pc[w] = "unlock"
    /\ Release(w)
    /\ IF Acknowledges(task[w]) THEN Go(w, "ack") ELSE GoWith(w, "idle", NoTask)
    /\ UNCHANGED <<row, trail, ckpt, artifact, queueVars, faults>>

Acknowledge(w) ==
    /\ pc[w] = "ack"
    /\ \/ DeleteWith(task[w]) /\ GoWith(w, "idle", NoTask) /\ UNCHANGED faults
       \/ /\ Fault("send") /\ (DeleteWith(task[w]) \/ UNCHANGED queueVars)
          /\ IF Final(w) THEN Go(w, "fallback") ELSE GoWith(w, "idle", NoTask)
    /\ UNCHANGED <<row, trail, ckpt, artifact, fence>>

(* _finalise_if_execution_lock_is_available *)
Fallback(w) ==
    /\ pc[w] = "fallback"
    /\ IF fence = NoOne
       THEN TryAcquire(w) /\ CallFinalise(w, "job_dead_lettered", "unlock")
       ELSE UNCHANGED fence /\ GoWith(w, "idle", NoTask)
    /\ UNCHANGED <<row, trail, ckpt, artifact, queueVars, faults>>

-----------------------------------------------------------------------------
(* What happens to a worker.                                               *)

(* The heartbeat marks the lease lost: SQS rejects a receipt that is no longer current, or *)
(* renewals fail until none can be safely tried.                                           *)
LoseOwnership(w) ==
    /\ pc[w] \in Heartbeat /\ ~task[w].lost
    /\ IF Owns(task[w]) THEN Fault("lease") ELSE UNCHANGED faults
    /\ task' = [task EXCEPT ![w].lost = TRUE]
    /\ UNCHANGED <<pc, stop, row, trail, ckpt, artifact, fence, queueVars>>

(* SIGTERM. *)
RequestShutdown(w) ==
    /\ ~stop[w] /\ Fault("shutdown")
    /\ stop' = [stop EXCEPT ![w] = TRUE]
    /\ UNCHANGED <<pc, task, row, trail, ckpt, artifact, fence, queueVars>>

(* A worker that stopped is replaced. *)
Restart(w) ==
    /\ pc[w] = "idle" /\ stop[w]
    /\ stop' = [stop EXCEPT ![w] = FALSE]
    /\ UNCHANGED <<pc, task, storeVars>>

(* The process dies: its database session, and so its lock, go with it. *)
Crash(w) ==
    /\ pc[w] # "idle" /\ Fault("crash")
    /\ pc' = [pc EXCEPT ![w] = "idle"]
    /\ task' = [task EXCEPT ![w] = NoTask]
    /\ stop' = [stop EXCEPT ![w] = FALSE]
    /\ Release(w)
    /\ UNCHANGED <<row, trail, ckpt, artifact, queueVars>>

(* The visibility timeout runs out under nobody, or under a worker that was frozen. *)
Renewing(w) == pc[w] # "idle" /\ ~task[w].lost /\ Owns(task[w])
ExpireDelivery ==
    /\ Expire
    /\ IF \E w \in Workers : Renewing(w) THEN Fault("pause") ELSE UNCHANGED faults
    /\ UNCHANGED <<row, trail, ckpt, artifact, fence, workerVars>>

RedriveMessage == Redrive /\ UNCHANGED workerVars

(* Every step a worker takes by itself. *)
Run(w) ==
    \/ Received(w) \/ WaitForLock(w) \/ ReadJob(w) \/ StartJob(w) \/ ReadDecision(w)
    \/ Admit(w) \/ Work(w) \/ OpenGate(w) \/ Interrupt(w) \/ Answer(w)
    \/ ExportGate(w) \/ PutReport(w) \/ StampExport(w) \/ Finalize(w) \/ Commit(w)
    \/ NothingPending(w) \/ NodeRaises(w) \/ AfterNode(w)
    \/ CheckGateRow(w) \/ RepairGateRow(w) \/ RereadGateRow(w)
    \/ FinaliseCheckpoint(w) \/ FinaliseRow(w) \/ ReconcileStatus(w)
    \/ Unlock(w) \/ Acknowledge(w) \/ Fallback(w)

WorkerNext ==
    \/ \E w \in Workers : \/ Receive(w) \/ Run(w)
                          \/ LoseOwnership(w) \/ RequestShutdown(w) \/ Restart(w) \/ Crash(w)
    \/ ExpireDelivery \/ RedriveMessage
=============================================================================
