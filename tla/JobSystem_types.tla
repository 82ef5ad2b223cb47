--------------------------- MODULE JobSystem_types ---------------------------
(***************************************************************************)
(* Type correctness of JobSystem, for every number of workers, operators   *)
(* and reviewers and every bound.  Part 1 types the store's operations,    *)
(* one lemma each; part 2 the steps of the processes that use them.        *)
(***************************************************************************)
EXTENDS JobSystem, SequenceTheorems, TLAPS

-----------------------------------------------------------------------------
(* Part 1.  The store's operations keep their variables in their sets.     *)

QueueTypeOK ==
    /\ queue \in Seq(Messages) /\ inflight \in BOOLEAN /\ dlq \subseteq Messages
    /\ inflight => queue # <<>>
    /\ sends \in 0 .. MaxSends
    /\ lastSent \in [Visits -> 0 .. MaxSends] /\ aged \in 0 .. MaxSends

(* StoreTypeOK, a variable at a time, now and after a step. *)
LEMMA StoreParts ==
    /\ StoreTypeOK <=>
          /\ row \in Rows /\ trail \in Trails /\ ckpt \in Ckpts
          /\ artifact \in BOOLEAN /\ fence \in Workers \cup Operators \cup {NoOne}
          /\ QueueTypeOK /\ faults \in 0 .. MaxFaults
    /\ StoreTypeOK' <=>
          /\ row' \in Rows /\ trail' \in Trails /\ ckpt' \in Ckpts
          /\ artifact' \in BOOLEAN /\ fence' \in Workers \cup Operators \cup {NoOne}
          /\ QueueTypeOK' /\ faults' \in 0 .. MaxFaults
BY DEF StoreTypeOK, QueueTypeOK

LEMMA QueueFrame == ASSUME QueueTypeOK, UNCHANGED queueVars PROVE QueueTypeOK'
BY DEF QueueTypeOK, queueVars

LEMMA Bounds ==
    /\ MaxCalls \in Nat /\ MaxReceive \in Nat \ {0} /\ MaxSends \in Nat /\ MaxFaults \in Nat
    /\ 0 \in Visits
BY StoreAssumption DEF StoreAssumption, Visits

LEMMA FaultTypes ==
    ASSUME faults \in 0 .. MaxFaults, NEW k, Fault(k)
    PROVE  faults' \in 0 .. MaxFaults
BY Bounds DEF Fault

LEMMA CreateJobTypes == ASSUME row \in Rows, CreateJob PROVE row' \in Rows
BY DEF CreateJob, Rows, Statuses

LEMMA SetJobStatusTypes ==
    ASSUME row \in Rows, NEW s \in Statuses, SetJobStatus(s) PROVE row' \in Rows
BY DEF SetJobStatus, Rows

LEMMA RecordGateOpenedTypes ==
    ASSUME row \in Rows, trail \in Trails, NEW v \in Visits, RecordGateOpened(v)
    PROVE  row' \in Rows /\ trail' \in Trails
BY DEF RecordGateOpened, Rows, Statuses, Trails, dbVars

LEMMA ClaimGateTypes == ASSUME row \in Rows, ClaimGate PROVE row' \in Rows
BY DEF ClaimGate, Rows, Statuses

LEMMA RecordDecisionTypes ==
    ASSUME trail \in Trails, NEW v \in Visits, NEW d \in Decisions, RecordDecision(v, d)
    PROVE  trail' \in Trails
BY DEF RecordDecision, Trails

LEMMA FinishJobTypes ==
    ASSUME row \in Rows, trail \in Trails, NEW s \in Statuses, FinishJob(s)
    PROVE  row' \in Rows /\ trail' \in Trails
BY DEF FinishJob, Rows, Trails

LEMMA ProjectionTypes == Projection \in Statuses
BY DEF Projection, Statuses

LEMMA NoCheckpointTypes == NoCheckpoint \in Ckpts
BY Bounds DEF NoCheckpoint, Ckpts, Nodes, Reasons

LEMMA FailCheckpointTypes ==
    ASSUME ckpt \in Ckpts, NEW why \in Reasons, FailCheckpoint(why) PROVE ckpt' \in Ckpts
BY DEF FailCheckpoint, Ckpts, Nodes, Terminal

LEMMA FailAbsentCheckpointTypes ==
    ASSUME ckpt \in Ckpts, NEW why \in Reasons, FailAbsentCheckpoint(why) PROVE ckpt' \in Ckpts
BY NoCheckpointTypes DEF FailAbsentCheckpoint, Ckpts, Nodes, Terminal

LEMMA FenceTypes ==
    ASSUME fence \in Workers \cup Operators \cup {NoOne}, NEW p \in Workers \cup Operators,
           TryAcquire(p) \/ Release(p)
    PROVE  fence' \in Workers \cup Operators \cup {NoOne}
BY DEF TryAcquire, Release

LEMMA SendTypes ==
    ASSUME QueueTypeOK, NEW id \in Visits, Send(id) PROVE QueueTypeOK'
<1>1. CASE UNCHANGED queueVars
  BY <1>1 DEF queueVars, QueueTypeOK, Messages
<1>2. CASE /\ sends < MaxSends
           /\ queue' = Append(queue, [n |-> sends + 1, id |-> id, rc |-> 0])
           /\ sends' = sends + 1 /\ lastSent' = [lastSent EXCEPT ![id] = sends + 1]
           /\ UNCHANGED <<inflight, dlq, aged>>
  <2>1. sends + 1 \in 1 .. MaxSends /\ 0 \in 0 .. MaxReceive
    BY <1>2, Bounds DEF QueueTypeOK
  <2>2. [n |-> sends + 1, id |-> id, rc |-> 0] \in Messages
    BY <2>1 DEF Messages
  <2>3. queue' \in Seq(Messages)
    BY <1>2, <2>2 DEF QueueTypeOK
  <2>4. sends' \in 0 .. MaxSends
    BY <1>2, <2>1, Bounds
  <2>5. lastSent' \in [Visits -> 0 .. MaxSends]
    BY <1>2, <2>1, <2>4 DEF QueueTypeOK
  <2> QED BY <1>2, <2>3, <2>4, <2>5 DEF QueueTypeOK
<1> QED BY <1>1, <1>2 DEF Send

LEMMA SendFailsTypes ==
    ASSUME QueueTypeOK, faults \in 0 .. MaxFaults, NEW id \in Visits, SendFails(id)
    PROVE  QueueTypeOK' /\ faults' \in 0 .. MaxFaults
BY SendTypes, FaultTypes DEF SendFails, queueVars, QueueTypeOK

LEMMA ReceiveHeadTypes ==
    ASSUME QueueTypeOK, ReceiveHead
    PROVE  /\ QueueTypeOK'
           /\ Head(queue).n \in 0 .. MaxSends /\ Head(queue).rc + 1 \in 0 .. MaxReceive
<1>1. queue # <<>> /\ Head(queue).rc < MaxReceive
  BY DEF ReceiveHead, CanReceive
<1>2. queue[1] \in Messages /\ Head(queue) = queue[1]
  BY <1>1 DEF QueueTypeOK
<1>3. queue[1].n \in 1 .. MaxSends /\ queue[1].rc \in 0 .. MaxReceive
  BY <1>2 DEF Messages
<1>4. queue[1].rc + 1 \in 0 .. MaxReceive
  BY <1>1, <1>2, <1>3, Bounds
<1>5. [queue[1] EXCEPT !.rc = @ + 1] \in Messages
  BY <1>2, <1>4 DEF Messages
<1>6. queue' = [queue EXCEPT ![1] = [queue[1] EXCEPT !.rc = @ + 1]]
  BY DEF ReceiveHead
<1>7. queue' \in Seq(Messages) /\ queue' # <<>>
  <2>1. queue \in Seq(Messages) /\ 1 \in 1 .. Len(queue)
    BY <1>1 DEF QueueTypeOK
  <2>2. PICK m \in Messages : m = [queue[1] EXCEPT !.rc = @ + 1]
    BY <1>5
  <2>3. queue' = [queue EXCEPT ![1] = m]
    BY <1>6, <2>2
  <2>4. [queue EXCEPT ![1] = m] \in Seq(Messages) /\ Len([queue EXCEPT ![1] = m]) = Len(queue)
    BY <2>1, ExceptSeq
  <2>5. Len(queue) \in Nat /\ Len(queue) # 0
    BY <2>1
  <2>6. Len(queue') = Len(queue)
    BY <2>3, <2>4, Zenon
  <2>7. queue' # <<>>
    BY <2>5, <2>6
  <2>8. queue' \in Seq(Messages)
    BY <2>3, <2>4, Zenon
  <2> QED BY <2>7, <2>8
<1>8. inflight' \in BOOLEAN /\ UNCHANGED <<dlq, sends, lastSent, aged>>
  BY DEF ReceiveHead
<1>9. QueueTypeOK'
  BY <1>7, <1>8 DEF QueueTypeOK
<1>10. Head(queue).n \in 1 .. MaxSends /\ Head(queue).rc + 1 \in 0 .. MaxReceive
  BY <1>2, <1>3, <1>4
<1>11. 1 .. MaxSends \subseteq 0 .. MaxSends
  BY Bounds
<1> QED BY <1>9, <1>10, <1>11

LEMMA DeleteWithTypes ==
    ASSUME QueueTypeOK, NEW receipt, DeleteWith(receipt) PROVE QueueTypeOK'
<1>1. CASE Owns(receipt)
  <2>1. queue \in Seq(Messages) /\ queue # <<>>
    BY <1>1 DEF Owns, QueueTypeOK
  <2>2. Tail(queue) \in Seq(Messages)
    BY <2>1
  <2> QED BY <1>1, <2>2 DEF DeleteWith, QueueTypeOK
<1>2. CASE ~Owns(receipt)
  BY <1>2 DEF DeleteWith, QueueTypeOK
<1> QED BY <1>1, <1>2

LEMMA ExpireTypes ==
    ASSUME QueueTypeOK, Expire PROVE QueueTypeOK'
<1>1. Head(queue) \in Messages
  BY DEF Expire, QueueTypeOK
<1>2. Head(queue).n \in 0 .. MaxSends
  BY <1>1, Bounds DEF Messages
<1> QED BY <1>2 DEF Expire, QueueTypeOK

LEMMA RedriveTypes == ASSUME QueueTypeOK, Redrive PROVE QueueTypeOK'
BY DEF Redrive, QueueTypeOK

-----------------------------------------------------------------------------
(* Part 2.  The steps keep every variable in its set.  A worker's step goes *)
(* to one label with one task; the lemmas say so of the shared endings.     *)

Goes(w) == \E l \in Labels, t \in Tasks : GoWith(w, l, t)

LEMMA GoesTypes ==
    ASSUME WorkerTypeOK, NEW w \in Workers, Goes(w) PROVE WorkerTypeOK'
BY DEF WorkerTypeOK, Goes, GoWith

LEMMA LabelTypes ==
    /\ Labels = {"idle", "received", "ack", "fallback", "wait", "row", "start", "decide",
                 "admit", "node", "opened", "put", "stamp", "commit", "after", "gateack",
                 "regate", "reread", "finalise", "finish", "reconcile", "unlock"}
    /\ {"unlock", "reconcile"} \subseteq Labels
BY DEF Labels, Heartbeat, InNode

LEMMA NoTaskTypes == NoTask \in Tasks
BY Bounds DEF NoTask, Tasks, Reasons

LEMMA GoTypes ==
    ASSUME WorkerTypeOK, NEW w \in Workers, NEW l \in Labels, Go(w, l) PROVE Goes(w)
BY DEF WorkerTypeOK, Goes, Go

LEMMA ReturnTypes ==
    ASSUME WorkerTypeOK, NEW w \in Workers, NEW a \in BOOLEAN, Return(w, a) PROVE Goes(w)
<1>1. task[w] \in Tasks
  BY DEF WorkerTypeOK
<1>2. task[w].back \in Labels /\ [task[w] EXCEPT !.ack = a] \in Tasks
  BY <1>1, LabelTypes DEF Tasks
<1> QED BY <1>2 DEF Return, Goes

LEMMA CallFinaliseTypes ==
    ASSUME WorkerTypeOK, NEW w \in Workers, NEW why \in Reasons,
           NEW back \in {"unlock", "reconcile"}, CallFinalise(w, why, back)
    PROVE  Goes(w)
<1>1. task[w] \in Tasks
  BY DEF WorkerTypeOK
<1>2. [task[w] EXCEPT !.why = why, !.back = back, !.ack = FALSE] \in Tasks
  BY <1>1 DEF Tasks
<1> QED BY <1>2, LabelTypes DEF CallFinalise, Goes

LEMMA RaiseTypes ==
    ASSUME WorkerTypeOK, NEW w \in Workers, Raise(w) PROVE Goes(w)
<1> DEFINE t == [task[w] EXCEPT !.raised = TRUE, !.ack = FALSE]
<1>1. task[w] \in Tasks
  BY DEF WorkerTypeOK
<1>2. t \in Tasks /\ [t EXCEPT !.why = "job_dead_lettered", !.back = "unlock"] \in Tasks
  BY <1>1 DEF Tasks, Reasons
<1> QED BY <1>2, LabelTypes DEF Raise, Goes

LEMMA TaskFields ==
    ASSUME WorkerTypeOK, NEW w \in Workers
    PROVE  /\ task[w] \in Tasks
           /\ \A a \in BOOLEAN : [task[w] EXCEPT !.ack = a] \in Tasks
           /\ [task[w] EXCEPT !.raised = TRUE] \in Tasks
           /\ \A b \in {"unlock", "reconcile"} : [task[w] EXCEPT !.back = b] \in Tasks
           /\ \A i \in {"none", "new"} \cup Decisions : [task[w] EXCEPT !.input = i] \in Tasks
           /\ \A o \in Terminal \cup {"running"} : [task[w] EXCEPT !.outcome = o] \in Tasks
<1>1. task[w] \in Tasks
  BY DEF WorkerTypeOK
<1> QED BY <1>1 DEF Tasks

(* The poll, the lock and the reads before the graph. *)
LEMMA PollTypes ==
    ASSUME StoreTypeOK, WorkerTypeOK, NEW w \in Workers,
           Receive(w) \/ Received(w) \/ WaitForLock(w) \/ ReadJob(w) \/ StartJob(w) \/ ReadDecision(w)
    PROVE  StoreTypeOK' /\ Goes(w)
<1> USE StoreParts
<1>1. CASE Receive(w)
  <2>1. [NoTask EXCEPT !.n = Head(queue).n, !.rc = Head(queue).rc + 1] \in Tasks
    BY <1>1, ReceiveHeadTypes, NoTaskTypes DEF Receive, Tasks
  <2>2. Goes(w)
    BY <1>1, <2>1, LabelTypes DEF Receive, Goes
  <2> QED BY <1>1, <2>2, ReceiveHeadTypes DEF Receive
<1>2. CASE Received(w)
  <2>1. Goes(w)
    BY <1>2, GoTypes, LabelTypes DEF Received
  <2> QED BY <1>2, <2>1, FaultTypes, QueueFrame DEF Received
<1>3. CASE WaitForLock(w)
  <2>1. Goes(w)
    BY <1>3, GoTypes, LabelTypes DEF WaitForLock
  <2> QED BY <1>3, <2>1, FenceTypes, QueueFrame DEF WaitForLock
<1>4. CASE ReadJob(w)
  <2>1. Goes(w)
    BY <1>4, GoTypes, RaiseTypes, CallFinaliseTypes, TaskFields, LabelTypes
       DEF ReadJob, Goes, Reasons
  <2> QED BY <1>4, <2>1, FaultTypes, QueueFrame DEF ReadJob
<1>5. CASE StartJob(w)
  <2>1. Goes(w)
    BY <1>5, RaiseTypes, TaskFields, LabelTypes DEF StartJob, Goes
  <2>2. row' \in Rows
    BY <1>5, SetJobStatusTypes DEF StartJob, Statuses
  <2> QED BY <1>5, <2>1, <2>2, FaultTypes, QueueFrame DEF StartJob
<1>6. CASE ReadDecision(w)
  <2>1. trail.decided[ckpt.calls] \in Decisions \cup {Undecided}
    BY DEF Trails, Ckpts
  <2>2. Goes(w)
    BY <1>6, <2>1, RaiseTypes, TaskFields, LabelTypes DEF ReadDecision, Goes
  <2> QED BY <1>6, <2>2, FaultTypes, QueueFrame DEF ReadDecision
<1> QED BY <1>1, <1>2, <1>3, <1>4, <1>5, <1>6

(* A node that spends `k` more calls, if the budget has them. *)
LEMMA CallTypes ==
    ASSUME ckpt \in Ckpts, NEW k \in {0, 1}, CanSpend(k)
    PROVE  ckpt.calls + k \in Visits
BY Bounds DEF Ckpts, Visits, CanSpend

LEMMA WorkTypes ==
    ASSUME ckpt \in Ckpts, NEW w \in Workers, Work(w) PROVE ckpt' \in Ckpts
<1> USE DEF Ckpts, Nodes
<1>2. CanSpend(1) => ckpt.calls + 1 \in Visits
  BY CallTypes
<1>3. CASE CanSpend(1) /\ ckpt' = [ckpt EXCEPT !.calls = @ + 1, !.pending = "none"]
  BY <1>2, <1>3
<1>4. CASE /\ CanSpend(1)
           /\ ckpt' = [ckpt EXCEPT !.calls = @ + 1, !.pending = "none", !.node = "human_gate"]
  BY <1>2, <1>4
<1>5. CASE /\ CanSpend(1)
           /\ ckpt' = [ckpt EXCEPT !.calls = @ + 1, !.pending = "none",
                                   !.node = "human_gate", !.cited = FALSE]
  BY <1>2, <1>5
<1>6. ASSUME NEW next \in {"work", "finalize"}, NEW spent \in {0, 1},
             CanSpend(spent),
             ckpt' = [ckpt EXCEPT !.calls = @ + spent, !.pending = "none", !.node = next,
                                  !.status = "failed", !.reason = "graph"]
      PROVE  ckpt' \in Ckpts
  <2>1. ckpt.calls + spent \in Visits
    BY <1>6, CallTypes
  <2> QED BY <1>6, <2>1 DEF Terminal, Reasons
<1>7. CASE ckpt' = [ckpt EXCEPT !.node = "finalize", !.pending = "none"]
  BY <1>7
<1> QED BY <1>3, <1>4, <1>5, <1>6, <1>7 DEF Work

(* One admitted node, from its admission to its checkpoint. *)
LEMMA NodeTypes ==
    ASSUME StoreTypeOK, WorkerTypeOK, NEW w \in Workers,
           \/ Admit(w) \/ Work(w) \/ OpenGate(w) \/ Interrupt(w) \/ Answer(w)
           \/ ExportGate(w) \/ PutReport(w) \/ StampExport(w) \/ Finalize(w) \/ Commit(w)
           \/ NothingPending(w) \/ NodeRaises(w)
    PROVE  StoreTypeOK' /\ Goes(w)
<1> USE StoreParts
<1>1. CASE Admit(w)
  <2>1. Goes(w)
    BY <1>1, GoTypes, LabelTypes DEF Admit
  <2>2. ckpt' \in Ckpts
    BY <1>1, NoCheckpointTypes DEF Admit, Ckpts, Nodes
  <2> QED BY <1>1, <2>1, <2>2, QueueFrame DEF Admit
<1>2. CASE Work(w)
  <2>1. Goes(w)
    BY <1>2, GoTypes, LabelTypes DEF Work
  <2> QED BY <1>2, <2>1, WorkTypes, FaultTypes, QueueFrame DEF Work
<1>3. CASE OpenGate(w)
  <2>1. Goes(w) /\ ckpt.calls \in Visits
    BY <1>3, GoTypes, LabelTypes DEF OpenGate, Ckpts
  <2> QED BY <1>3, <2>1, RecordGateOpenedTypes, QueueFrame DEF OpenGate
<1>4. CASE Interrupt(w)
  <2>1. Goes(w)
    BY <1>4, GoTypes, LabelTypes DEF Interrupt
  <2> QED BY <1>4, <2>1, QueueFrame DEF Interrupt, Ckpts
<1>5. CASE Answer(w)
  <2>1. Goes(w)
    BY <1>5, GoTypes, LabelTypes DEF Answer
  <2>2. ckpt' \in Ckpts
    BY <1>5 DEF Answer, Ckpts, Nodes, Terminal
  <2> QED BY <1>5, <2>1, <2>2, QueueFrame DEF Answer
<1>6. CASE ExportGate(w)
  <2>1. Goes(w)
    BY <1>6, GoTypes, TaskFields, LabelTypes DEF ExportGate, Goes, Terminal
  <2> QED BY <1>6, <2>1, QueueFrame DEF ExportGate, Rows
<1>7. CASE PutReport(w)
  <2>1. Goes(w)
    BY <1>7, GoTypes, TaskFields, LabelTypes DEF PutReport, Goes, Terminal
  <2> QED BY <1>7, <2>1, FaultTypes, QueueFrame DEF PutReport
<1>8. CASE StampExport(w)
  <2>1. Goes(w)
    BY <1>8, TaskFields, LabelTypes DEF StampExport, Goes, Terminal
  <2> QED BY <1>8, <2>1, QueueFrame DEF StampExport, Rows
<1>9. CASE Finalize(w)
  <2>1. PICK s \in Terminal : /\ FinishJob(s)
                             /\ GoWith(w, "commit", [task[w] EXCEPT !.outcome = s])
    BY <1>9 DEF Finalize, Terminal
  <2>2. Goes(w)
    BY <2>1, TaskFields, LabelTypes DEF Goes
  <2> QED BY <1>9, <2>1, <2>2, FinishJobTypes, QueueFrame DEF Finalize, Terminal, Statuses
<1>10. CASE Commit(w)
  <2>1. Goes(w)
    BY <1>10, GoTypes, LabelTypes DEF Commit
  <2>2. task[w].outcome \in Terminal \cup {"running"}
    BY TaskFields DEF Tasks
  <2>3. ckpt' \in Ckpts
    BY <1>10, <2>2 DEF Commit, Ckpts, Nodes, Reasons
  <2> QED BY <1>10, <2>1, <2>3, QueueFrame DEF Commit
<1>11. CASE NothingPending(w)
  <2>1. Goes(w)
    BY <1>11, GoTypes, LabelTypes DEF NothingPending
  <2> QED BY <1>11, <2>1, QueueFrame DEF NothingPending
<1>12. CASE NodeRaises(w)
  <2>1. Goes(w)
    BY <1>12, TaskFields, LabelTypes DEF NodeRaises, Goes
  <2>2. ckpt' \in Ckpts
    BY <1>12 DEF NodeRaises, Ckpts
  <2> QED BY <1>12, <2>1, <2>2, FaultTypes, QueueFrame DEF NodeRaises
<1> QED BY <1>1, <1>2, <1>3, <1>4, <1>5, <1>6, <1>7, <1>8, <1>9, <1>10, <1>11, <1>12

(* After the node: the loop's looks around, and the helpers a delivery ends in. *)
LEMMA EndingTypes ==
    ASSUME StoreTypeOK, WorkerTypeOK, NEW w \in Workers,
           \/ AfterNode(w) \/ CheckGateRow(w) \/ RepairGateRow(w) \/ RereadGateRow(w)
           \/ FinaliseCheckpoint(w) \/ FinaliseRow(w) \/ ReconcileStatus(w)
           \/ Unlock(w) \/ Acknowledge(w) \/ Fallback(w)
    PROVE  StoreTypeOK' /\ Goes(w)
<1> USE StoreParts
<1>1. CASE AfterNode(w)
  <2>1. row.completed \in BOOLEAN
    BY DEF Rows
  <2>2. Goes(w)
    BY <1>1, <2>1, CallFinaliseTypes, TaskFields, LabelTypes
       DEF AfterNode, DeliveryIsFinished, NextInput, Goes, Reasons
  <2> QED BY <1>1, <2>2, FaultTypes, QueueFrame DEF AfterNode
<1>2. CASE CheckGateRow(w)
  <2>1. Goes(w)
    BY <1>2, ReturnTypes, GoTypes, LabelTypes DEF CheckGateRow
  <2> QED BY <1>2, <2>1, FaultTypes, QueueFrame DEF CheckGateRow
<1>3. CASE RepairGateRow(w)
  <2>1. Goes(w)
    BY <1>3, ReturnTypes, GoTypes, LabelTypes DEF RepairGateRow
  <2>2. row' \in Rows
    BY <1>3, SetJobStatusTypes, ProjectionTypes DEF RepairGateRow
  <2> QED BY <1>3, <2>1, <2>2, FaultTypes, QueueFrame DEF RepairGateRow
<1>4. CASE RereadGateRow(w)
  <2>1. GateUsable \in BOOLEAN
    BY DEF GateUsable, Rows
  <2>2. Goes(w)
    BY <1>4, <2>1, ReturnTypes DEF RereadGateRow
  <2> QED BY <1>4, <2>2, FaultTypes, QueueFrame DEF RereadGateRow
<1>5. CASE FinaliseCheckpoint(w)
  <2>1. Goes(w)
    BY <1>5, ReturnTypes, GoTypes, LabelTypes DEF FinaliseCheckpoint
  <2>2. task[w].why \in Reasons
    BY TaskFields DEF Tasks
  <2>3. ckpt' \in Ckpts
    BY <1>5, <2>2, FailCheckpointTypes, FailAbsentCheckpointTypes DEF FinaliseCheckpoint
  <2> QED BY <1>5, <2>1, <2>3, FaultTypes, QueueFrame DEF FinaliseCheckpoint
<1>6. CASE FinaliseRow(w)
  <2>1. Goes(w)
    BY <1>6, ReturnTypes DEF FinaliseRow
  <2>2. row' \in Rows /\ trail' \in Trails
    BY <1>6, FinishJobTypes DEF FinaliseRow, Statuses, dbVars
  <2> QED BY <1>6, <2>1, <2>2, FaultTypes, QueueFrame DEF FinaliseRow
<1>7. CASE ReconcileStatus(w)
  <2>1. Goes(w)
    BY <1>7, RaiseTypes, GoTypes, LabelTypes DEF ReconcileStatus
  <2>2. row' \in Rows
    BY <1>7, SetJobStatusTypes, ProjectionTypes DEF ReconcileStatus
  <2> QED BY <1>7, <2>1, <2>2, FaultTypes, QueueFrame DEF ReconcileStatus
<1>8. CASE Unlock(w)
  <2>1. Goes(w)
    BY <1>8, GoTypes, NoTaskTypes, LabelTypes DEF Unlock, Goes
  <2> QED BY <1>8, <2>1, FenceTypes, QueueFrame DEF Unlock
<1>9. CASE Acknowledge(w)
  <2>1. Goes(w)
    BY <1>9, GoTypes, NoTaskTypes, LabelTypes DEF Acknowledge, Goes
  <2>2. QueueTypeOK'
    BY <1>9, DeleteWithTypes, QueueFrame DEF Acknowledge
  <2> QED BY <1>9, <2>1, <2>2, FaultTypes DEF Acknowledge
<1>10. CASE Fallback(w)
  <2>1. Goes(w)
    BY <1>10, CallFinaliseTypes, NoTaskTypes, LabelTypes DEF Fallback, Goes, Reasons
  <2> QED BY <1>10, <2>1, FenceTypes, QueueFrame DEF Fallback
<1> QED BY <1>1, <1>2, <1>3, <1>4, <1>5, <1>6, <1>7, <1>8, <1>9, <1>10

(* What happens to a worker and to the queue, rather than what a worker does. *)
LEMMA EnvironmentTypes ==
    ASSUME StoreTypeOK, WorkerTypeOK,
           \/ ExpireDelivery \/ RedriveMessage
           \/ \E w \in Workers : LoseOwnership(w) \/ RequestShutdown(w) \/ Restart(w) \/ Crash(w)
    PROVE  StoreTypeOK' /\ WorkerTypeOK'
<1> USE StoreParts
<1>1. CASE ExpireDelivery
  BY <1>1, ExpireTypes, FaultTypes DEF ExpireDelivery, WorkerTypeOK, workerVars
<1>2. CASE RedriveMessage
  BY <1>2, RedriveTypes DEF RedriveMessage, Redrive, WorkerTypeOK, workerVars
<1>3. ASSUME NEW w \in Workers, LoseOwnership(w) PROVE StoreTypeOK' /\ WorkerTypeOK'
  <2>1. WorkerTypeOK'
    <3>1. [task[w] EXCEPT !.lost = TRUE] \in Tasks
      BY DEF WorkerTypeOK, Tasks
    <3>2. task' = [task EXCEPT ![w] = [task[w] EXCEPT !.lost = TRUE]]
      BY <1>3 DEF LoseOwnership
    <3> QED BY <1>3, <3>1, <3>2 DEF LoseOwnership, WorkerTypeOK
  <2> QED BY <1>3, <2>1, FaultTypes, QueueFrame DEF LoseOwnership
<1>4. ASSUME NEW w \in Workers, RequestShutdown(w) PROVE StoreTypeOK' /\ WorkerTypeOK'
  BY <1>4, FaultTypes, QueueFrame DEF RequestShutdown, WorkerTypeOK
<1>5. ASSUME NEW w \in Workers, Restart(w) PROVE StoreTypeOK' /\ WorkerTypeOK'
  BY <1>5, QueueFrame DEF Restart, WorkerTypeOK, storeVars, queueVars
<1>6. ASSUME NEW w \in Workers, Crash(w) PROVE StoreTypeOK' /\ WorkerTypeOK'
  <2>1. WorkerTypeOK'
    BY <1>6, NoTaskTypes, LabelTypes DEF Crash, WorkerTypeOK
  <2> QED BY <1>6, <2>1, FaultTypes, FenceTypes, QueueFrame DEF Crash
<1> QED BY <1>1, <1>2, <1>3, <1>4, <1>5, <1>6

LEMMA WorkerTypes ==
    ASSUME StoreTypeOK, WorkerTypeOK, WorkerNext
    PROVE  StoreTypeOK' /\ WorkerTypeOK'
BY PollTypes, NodeTypes, EndingTypes, EnvironmentTypes, GoesTypes DEF WorkerNext, Run

-----------------------------------------------------------------------------
LEMMA StepTypes ==
    ASSUME ApiTypeOK, NEW r \in Reviewers, NEW q \in Requests, Step(r, q)
    PROVE  req' \in [Reviewers -> Requests]
BY DEF ApiTypeOK, Step

LEMMA RefuseTypes ==
    ASSUME ApiTypeOK, NEW r \in Reviewers, Refuse(r)
    PROVE  req' \in [Reviewers -> Requests]
<1>1. Closed \in Requests
  BY Bounds DEF Closed, Requests, Decisions, Statuses
<1> QED BY <1>1, StepTypes DEF Refuse

LEMMA ApiTypes ==
    ASSUME StoreTypeOK, ApiTypeOK, ApiNext
    PROVE  StoreTypeOK' /\ ApiTypeOK'
<1> USE StoreParts
<1>1. CASE Submit
  BY <1>1, CreateJobTypes, QueueFrame DEF Submit, ApiTypeOK
<1>2. CASE EnqueueStart
  BY <1>2, SendTypes, SendFailsTypes, Bounds DEF EnqueueStart, ApiTypeOK, StartId
<1>3. CASE SubmitCrash
  BY <1>3, FaultTypes, QueueFrame DEF SubmitCrash, ApiTypeOK
<1>4. ASSUME NEW r \in Reviewers, ReadRow(r) \/ Handle(r) \/ RequestDies(r)
      PROVE  StoreTypeOK' /\ ApiTypeOK'
  <2>0. req[r] \in Requests
    BY DEF ApiTypeOK
  <2>1. CASE ReadRow(r)
    <3>1. requests' \in 0 .. MaxRequests
      BY <2>1, ReviewAssumption DEF ReviewAssumption, ReadRow, ApiTypeOK
    <3>2. \A d \in Decisions :
             [at |-> "visit", decision |-> d, saw |-> row.status, visit |-> 0] \in Requests
                \/ row.status \in Terminal \cup {"queued"} \/ row.status = "none"
      BY Bounds DEF Requests, Rows
    <3>3. req' \in [Reviewers -> Requests]
      BY <2>1, <3>2, StepTypes, RefuseTypes DEF ReadRow
    <3> QED BY <2>1, <3>1, <3>3, QueueFrame DEF ReadRow, ApiTypeOK, storeVars, queueVars
  <2>2. CASE ReadVisit(r)
    <3>1. [req[r] EXCEPT !.at = "recorded", !.visit = ckpt.calls] \in Requests
      BY <2>0 DEF Requests, Ckpts
    <3> QED BY <2>2, <3>1, StepTypes, QueueFrame DEF ReadVisit, ApiTypeOK, storeVars, queueVars
  <2>3. CASE ReadRecorded(r)
    <3>1. /\ [req[r] EXCEPT !.at = "claim"] \in Requests
          /\ [req[r] EXCEPT !.at = "enqueue"] \in Requests
      BY <2>0 DEF Requests
    <3>2. req' \in [Reviewers -> Requests]
      BY <2>3, <3>1, StepTypes, RefuseTypes DEF ReadRecorded
    <3> QED BY <2>3, <3>2, QueueFrame DEF ReadRecorded, ApiTypeOK, storeVars, queueVars
  <2>4. CASE Claim(r)
    <3>1. [req[r] EXCEPT !.at = "record"] \in Requests
      BY <2>0 DEF Requests
    <3>2. req' \in [Reviewers -> Requests]
      BY <2>4, <3>1, StepTypes, RefuseTypes DEF Claim
    <3> QED BY <2>4, <3>2, ClaimGateTypes, QueueFrame DEF Claim, ApiTypeOK
  <2>5. CASE Record(r)
    <3>1. [req[r] EXCEPT !.at = "enqueue"] \in Requests
          /\ req[r].visit \in Visits /\ req[r].decision \in Decisions
      BY <2>0 DEF Requests
    <3>2. req' \in [Reviewers -> Requests]
      BY <2>5, <3>1, StepTypes, RefuseTypes DEF Record
    <3>3. trail' \in Trails
      BY <2>5, <3>1, RecordDecisionTypes DEF Record
    <3> QED BY <2>5, <3>2, <3>3, FaultTypes, QueueFrame DEF Record, ApiTypeOK
  <2>6. CASE EnqueueResume(r)
    <3>1. req[r].visit \in Visits /\ req[r].decision \in Decisions
      BY <2>0 DEF Requests
    <3>2. told' \subseteq [visit : Visits, decision : Decisions]
      BY <2>6, <3>1 DEF EnqueueResume, ApiTypeOK
    <3>3. QueueTypeOK' /\ faults' \in 0 .. MaxFaults
      BY <2>6, <3>1, SendTypes, SendFailsTypes DEF EnqueueResume
    <3> QED BY <2>6, <3>2, <3>3, RefuseTypes DEF EnqueueResume, ApiTypeOK
  <2>7. CASE RequestDies(r)
    BY <2>7, RefuseTypes, FaultTypes, QueueFrame DEF RequestDies, ApiTypeOK
  <2> QED BY <1>4, <2>1, <2>2, <2>3, <2>4, <2>5, <2>6, <2>7 DEF Handle
<1> QED BY <1>1, <1>2, <1>3, <1>4 DEF ApiNext

-----------------------------------------------------------------------------
LEMMA ToTypes ==
    ASSUME OpTypeOK, NEW o \in Operators, NEW s \in Sessions, To(o, s), UNCHANGED reconciled
    PROVE  OpTypeOK'
BY DEF OpTypeOK, To

LEMMA SessionTypes ==
    ASSUME OpTypeOK, NEW o \in Operators
    PROVE  /\ Idle \in Sessions /\ op[o] \in Sessions
           /\ \A d \in BOOLEAN : [Idle EXCEPT !.at = "select", !.dead = d] \in Sessions
           /\ \A l \in {"fence", "resend", "discard", "restamp"} : [op[o] EXCEPT !.at = l] \in Sessions
           /\ \A c \in Outcomes : [op[o] EXCEPT !.at = "apply", !.outcome = c] \in Sessions
           /\ op[o].at = "apply" => [op[o] EXCEPT !.at = "note"] \in Sessions
           /\ op[o].at = "note" => op[o].outcome \in Outcomes
           /\ \A m \in Messages : [Idle EXCEPT !.at = "verdict", !.letter = m] \in Sessions
           /\ [Idle EXCEPT !.at = "reput"] \in Sessions
<1>1. op[o] \in Sessions
  BY DEF OpTypeOK
<1>2. Idle \in Sessions
  BY Bounds DEF Idle, Sessions, Letters
<1>3. Messages \subseteq Letters
  BY Bounds DEF Messages, Letters
<1> QED BY <1>1, <1>2, <1>3 DEF Sessions

LEMMA OutcomeTypes == \A d \in BOOLEAN : Outcome(d) \in Outcomes \cup {"none"}
BY DEF Outcome, Outcomes

LEMMA OpTypes ==
    ASSUME StoreTypeOK, OpTypeOK, OpNext
    PROVE  StoreTypeOK' /\ OpTypeOK'
<1> USE StoreParts
<1>0. PICK o \in Operators :
         ReadDeadLetters(o) \/ TakeLetter(o) \/ Reexport(o) \/ Operate(o) \/ OperatorDies(o)
  BY DEF OpNext
<1>a. op[o].dead \in BOOLEAN /\ op[o].letter.id \in Visits
  <2>1. op[o] \in Sessions
    BY SessionTypes
  <2>2. op[o].letter \in Letters /\ op[o].dead \in BOOLEAN
    BY <2>1 DEF Sessions
  <2> QED BY <2>2 DEF Letters
<1>1. CASE ReadDeadLetters(o)
  BY <1>1, SessionTypes, ToTypes, QueueFrame DEF ReadDeadLetters, storeVars, queueVars
<1>2. CASE SelectCandidate(o)
  BY <1>2, SessionTypes, ToTypes, QueueFrame DEF SelectCandidate, storeVars, queueVars
<1>3. CASE Inspect(o)
  <2>1. OpTypeOK'
    BY <1>3, <1>a, OutcomeTypes, SessionTypes, ToTypes DEF Inspect
  <2> QED BY <1>3, <2>1, FenceTypes, QueueFrame DEF Inspect
<1>4. CASE Apply(o)
  <2>1. OpTypeOK'
    BY <1>4, SessionTypes, ToTypes DEF Apply
  <2>2. ckpt.status \in Statuses
    BY DEF Ckpts, Statuses, Terminal
  <2>3. row' \in Rows /\ trail' \in Trails /\ QueueTypeOK'
    BY <1>4, <2>2, SetJobStatusTypes, FinishJobTypes, SendTypes, QueueFrame, Bounds
       DEF Apply, Statuses, StartId, dbVars
  <2> QED BY <1>4, <2>1, <2>3 DEF Apply
<1>5. CASE RequeueFails(o)
  BY <1>5, SessionTypes, ToTypes, FenceTypes, SendFailsTypes, Bounds DEF RequeueFails, StartId
<1>6. CASE Note(o)
  <2>1. OpTypeOK'
    <3>1. op' \in [Operators -> Sessions]
      BY <1>6, SessionTypes DEF Note, To, OpTypeOK
    <3>2. op[o].outcome \in Outcomes
      BY <1>6, SessionTypes DEF Note
    <3> QED BY <1>6, <3>1, <3>2 DEF Note, OpTypeOK
  <2> QED BY <1>6, <2>1, FenceTypes, QueueFrame DEF Note
<1>7. CASE TakeLetter(o)
  <2>1. OpTypeOK'
    BY <1>7, SessionTypes, ToTypes DEF TakeLetter, QueueTypeOK
  <2> QED BY <1>7, <2>1, QueueFrame DEF TakeLetter, storeVars, queueVars
<1>8. CASE ReachVerdict(o)
  BY <1>8, SessionTypes, ToTypes, QueueFrame DEF ReachVerdict, storeVars, queueVars
<1>9. CASE Resend(o)
  BY <1>9, <1>a, SessionTypes, ToTypes, SendTypes, SendFailsTypes DEF Resend
<1>10. CASE Discard(o)
  BY <1>10, SessionTypes, ToTypes DEF Discard, QueueTypeOK
<1>11. CASE Reexport(o)
  BY <1>11, SessionTypes, ToTypes, QueueFrame DEF Reexport, storeVars, queueVars
<1>12. CASE ReexportPut(o)
  <2>1. OpTypeOK'
    BY <1>12, SessionTypes, ToTypes DEF ReexportPut
  <2> QED BY <1>12, <2>1, FaultTypes, QueueFrame DEF ReexportPut
<1>13. CASE ReexportStamp(o)
  BY <1>13, SessionTypes, ToTypes, QueueFrame DEF ReexportStamp, Rows
<1>14. CASE OperatorDies(o)
  BY <1>14, SessionTypes, ToTypes, FenceTypes, FaultTypes, QueueFrame DEF OperatorDies
<1> QED BY <1>0, <1>1, <1>2, <1>3, <1>4, <1>5, <1>6, <1>7, <1>8, <1>9, <1>10, <1>11, <1>12,
           <1>13, <1>14 DEF Operate

-----------------------------------------------------------------------------
LEMMA InitTypes == Init => TypeOK
<1> SUFFICES ASSUME Init PROVE TypeOK
  OBVIOUS
<1>1. StoreTypeOK
  <2>1. QueueTypeOK
    BY Bounds DEF Init, StoreInit, QueueTypeOK
  <2>2. trail \in Trails /\ row \in Rows
    <3>1. [v \in Visits |-> Undecided] \in [Visits -> Decisions \cup {Undecided}]
      OBVIOUS
    <3>2. trail \in Trails
      BY <3>1 DEF Init, StoreInit, Trails
    <3>3. row \in Rows
      BY DEF Init, StoreInit, Rows
    <3> QED BY <3>2, <3>3
  <2>3. ckpt \in Ckpts /\ artifact \in BOOLEAN /\ fence = NoOne /\ faults \in 0 .. MaxFaults
    BY NoCheckpointTypes, Bounds DEF Init, StoreInit
  <2> QED BY <2>1, <2>2, <2>3, StoreParts
<1>2. WorkerTypeOK
  BY NoTaskTypes, LabelTypes DEF Init, WorkerInit, WorkerTypeOK
<1>3. ApiTypeOK
  BY Bounds, ReviewAssumption
     DEF Init, ApiInit, ApiTypeOK, Closed, Requests, Decisions, Statuses, ReviewAssumption
<1>4. OpTypeOK
  BY Bounds DEF Init, OpInit, OpTypeOK, Idle, Sessions, Letters
<1> QED BY <1>1, <1>2, <1>3, <1>4 DEF TypeOK

LEMMA NextTypes == TypeOK /\ [Next]_vars => TypeOK'
<1> SUFFICES ASSUME TypeOK, [Next]_vars PROVE TypeOK'
  OBVIOUS
<1> USE DEF TypeOK
<1>1. CASE WorkerStep(WorkerNext)
  BY <1>1, WorkerTypes DEF WorkerStep, apiVars, opVars, ApiTypeOK, OpTypeOK
<1>2. CASE ApiStep(ApiNext)
  BY <1>2, ApiTypes DEF ApiStep, workerVars, opVars, WorkerTypeOK, OpTypeOK
<1>3. CASE OpStep(OpNext)
  BY <1>3, OpTypes DEF OpStep, workerVars, apiVars, WorkerTypeOK, ApiTypeOK
<1>4. CASE UNCHANGED vars
  BY <1>4 DEF vars, storeVars, workerVars, apiVars, opVars,
              StoreTypeOK, WorkerTypeOK, ApiTypeOK, OpTypeOK
<1> QED BY <1>1, <1>2, <1>3, <1>4 DEF Next

(* Every variable stays in its set, whatever the processes do to the job between them. *)
THEOREM TypeCorrectness == Spec => []TypeOK
BY InitTypes, NextTypes, PTL DEF Spec
=============================================================================
