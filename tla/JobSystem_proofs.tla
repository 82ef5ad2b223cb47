-------------------------- MODULE JobSystem_proofs --------------------------
(***************************************************************************)
(* The execution lock and what rests on it, for every number of workers,   *)
(* reviewers and operators and every value of the limits: ExecutionInv is  *)
(* inductive, and from it follow one executor, no answer given to a gate   *)
(* that was not given at it, a finished job that neither reopens nor       *)
(* spends, and no restart from nothing.                                    *)
(***************************************************************************)
EXTENDS JobSystem_types

-----------------------------------------------------------------------------
(* Frames: a step of one process against what the others rely on.          *)

(* The answers on record only grow. *)
DecisionsStand ==
    \A v \in Visits : trail.decided[v] # Undecided => trail'.decided[v] = trail.decided[v]

(* The step leaves alone what a holder of the lock relies on. *)
Harmless ==
    /\ ckpt' = ckpt /\ row'.completed = row.completed
    /\ DecisionsStand

LEMMA DecisionsDiffer == Undecided \notin Decisions
BY DEF Undecided, Decisions

LEMMA ExecutingLabels ==
    /\ Executing = {"row", "start", "decide", "admit", "node", "opened", "put", "stamp", "commit",
                    "after", "gateack", "regate", "reread", "finalise", "finish", "reconcile"}
    /\ Advancing \subseteq Executing
BY DEF Executing, Labels, Heartbeat, InNode, Advancing

(* A worker that does not step, when the lock is not its own or the step is harmless. *)
LEMMA WorkerUndisturbed ==
    ASSUME TypeOK, NEW v \in Workers, WorkerInv(v),
           pc'[v] = pc[v], task'[v] = task[v], DecisionsStand,
           fence = v => fence' = v, fence = v => Harmless
    PROVE  WorkerInv(v)'
<1>1. CASE pc[v] \in Executing
  <2>1. fence = v /\ fence' = v /\ Harmless
    BY <1>1 DEF WorkerInv
  <2>2. ckpt' = ckpt /\ row'.completed = row.completed /\ WaitingAtTheGate' = WaitingAtTheGate
    BY <2>1 DEF Harmless, WaitingAtTheGate
  <2>3. ckpt.calls \in Visits
    BY DEF TypeOK, StoreTypeOK, Ckpts
  <2>4. trail.decided[ckpt.calls] \in Decisions => trail'.decided[ckpt.calls] = trail.decided[ckpt.calls]
    BY <2>3, DecisionsDiffer DEF DecisionsStand
  <2> QED BY <2>1, <2>2, <2>4 DEF WorkerInv
<1>2. CASE pc[v] \notin Executing
  BY <1>2, ExecutingLabels DEF WorkerInv, Advancing
<1> QED BY <1>1, <1>2

(* An operator that does not step, likewise. *)
LEMMA OperatorUndisturbed ==
    ASSUME NEW o \in Operators, OperatorInv(o), op'[o] = op[o],
           fence = o => fence' = o, fence = o => Harmless
    PROVE  OperatorInv(o)'
BY DEF OperatorInv, Harmless, WaitingAtTheGate

LEMMA WorkerFrame ==
    ASSUME TypeOK, ExecutionInv, NEW w \in Workers, UNCHANGED op, DecisionsStand,
           \A v \in Workers \ {w} : pc'[v] = pc[v] /\ task'[v] = task[v],
           fence' = fence \/ fence \in {w, NoOne}, fence = w \/ Harmless
    PROVE  /\ \A v \in Workers \ {w} : WorkerInv(v)'
           /\ \A o \in Operators : OperatorInv(o)'
<1>1. ASSUME NEW v \in Workers \ {w} PROVE WorkerInv(v)'
  <2>1. v \in Workers /\ v # w /\ v # NoOne
    BY StoreAssumption DEF StoreAssumption
  <2> QED BY <2>1, WorkerUndisturbed DEF ExecutionInv
<1>2. ASSUME NEW o \in Operators PROVE OperatorInv(o)'
  <2>1. o # w /\ o # NoOne
    BY StoreAssumption DEF StoreAssumption
  <2> QED BY <2>1, OperatorUndisturbed DEF ExecutionInv
<1> QED BY <1>1, <1>2

LEMMA OperatorFrame ==
    ASSUME TypeOK, ExecutionInv, NEW o \in Operators, UNCHANGED <<pc, task>>, DecisionsStand,
           \A p \in Operators \ {o} : op'[p] = op[p],
           fence' = fence \/ fence \in {o, NoOne}, fence = o \/ Harmless
    PROVE  /\ \A w \in Workers : WorkerInv(w)'
           /\ \A p \in Operators \ {o} : OperatorInv(p)'
<1>1. ASSUME NEW w \in Workers PROVE WorkerInv(w)'
  <2>1. w # o /\ w # NoOne
    BY StoreAssumption DEF StoreAssumption
  <2> QED BY <2>1, WorkerUndisturbed DEF ExecutionInv
<1>2. ASSUME NEW p \in Operators \ {o} PROVE OperatorInv(p)'
  <2>1. p \in Operators /\ p # o /\ p # NoOne
    BY StoreAssumption DEF StoreAssumption
  <2> QED BY <2>1, OperatorUndisturbed DEF ExecutionInv
<1> QED BY <1>1, <1>2

(* What a worker's step does to the program counters and the tasks. *)
LEMMA GoWithEffect ==
    ASSUME TypeOK, NEW w \in Workers, NEW l, NEW t, GoWith(w, l, t)
    PROVE  /\ pc'[w] = l /\ task'[w] = t
           /\ \A v \in Workers \ {w} : pc'[v] = pc[v] /\ task'[v] = task[v]
BY DEF TypeOK, WorkerTypeOK, GoWith

LEMMA InputField ==
    ASSUME TypeOK, NEW w \in Workers, NEW i
    PROVE  [task[w] EXCEPT !.input = i].input = i
<1>1. task[w] \in Tasks
  BY DEF TypeOK, WorkerTypeOK
<1> QED BY <1>1 DEF Tasks

(* A worker outside the lock's region, and one in a helper, rely on little. *)
LEMMA Outside ==
    ASSUME NEW w \in Workers,
           \/ pc'[w] \in {"idle", "unlock", "ack", "fallback"}
           \/ pc'[w] \in {"received", "wait"} /\ task'[w].input = "none"
    PROVE  WorkerInv(w)'
BY ExecutingLabels DEF WorkerInv, Advancing

LEMMA InHelper ==
    ASSUME NEW w \in Workers, fence' = w,
           \/ pc'[w] \in {"finalise", "reconcile"}
           \/ pc'[w] \in {"gateack", "regate", "reread"} /\ WaitingAtTheGate'
    PROVE  WorkerInv(w)'
BY DEF WorkerInv, Advancing

(* The invariant after a step, from the stepping worker's part and the job's. *)
LEMMA WorkerSuffices ==
    ASSUME TypeOK, ExecutionInv, NEW w \in Workers, UNCHANGED op, DecisionsStand,
           NEW l, NEW t, GoWith(w, l, t),
           fence' = fence \/ fence \in {w, NoOne}, fence = w \/ Harmless,
           WorkerInv(w)', JobInv'
    PROVE  ExecutionInv'
<1>1. \A v \in Workers \ {w} : pc'[v] = pc[v] /\ task'[v] = task[v]
  BY GoWithEffect
<1>2. (\A v \in Workers \ {w} : WorkerInv(v)') /\ (\A o \in Operators : OperatorInv(o)')
  BY <1>1, WorkerFrame
<1> QED BY <1>2 DEF ExecutionInv

-----------------------------------------------------------------------------
(* Effects of the store's operations on what ExecutionInv speaks of.       *)

LEMMA JobFrame ==
    ASSUME JobInv, UNCHANGED ckpt, row'.completed = row.completed,
           row.completed => row'.status \in Terminal
    PROVE  JobInv'
BY DEF JobInv, WaitingAtTheGate

LEMMA SetJobStatusEffect ==
    ASSUME TypeOK, JobInv, NEW s, SetJobStatus(s)
    PROVE  row'.completed = row.completed /\ (row.completed => row'.status \in Terminal)
BY DEF SetJobStatus, JobInv, TypeOK, StoreTypeOK, Rows

LEMMA SameTrail == ASSUME UNCHANGED trail PROVE DecisionsStand
BY DEF DecisionsStand

LEMMA RecordDecisionEffect ==
    ASSUME TypeOK, NEW v \in Visits, NEW d \in Decisions, RecordDecision(v, d)
    PROVE  DecisionsStand
BY DEF RecordDecision, DecisionsStand, TypeOK, StoreTypeOK, Trails

LEMMA RecordGateOpenedEffect ==
    ASSUME TypeOK, NEW v, RecordGateOpened(v)
    PROVE  row'.completed = row.completed /\ DecisionsStand
BY DEF RecordGateOpened, DecisionsStand, TypeOK, StoreTypeOK, Rows, Trails, dbVars

LEMMA FinishJobEffect ==
    ASSUME TypeOK, NEW s, FinishJob(s)
    PROVE  row'.completed /\ row'.status = s /\ DecisionsStand
BY DEF FinishJob, DecisionsStand, TypeOK, StoreTypeOK, Rows, Trails

LEMMA FailCheckpointEffect ==
    ASSUME TypeOK, JobInv, NEW why, FailCheckpoint(why)
    PROVE  ckpt'.pending = "none" /\ ckpt'.calls = ckpt.calls
           /\ (ckpt'.node \in {"absent", "stub"} => ckpt.node \in {"absent", "stub"})
BY DEF FailCheckpoint, TypeOK, StoreTypeOK, Ckpts

LEMMA FailAbsentCheckpointEffect ==
    ASSUME TypeOK, JobInv, ckpt.node \in {"absent", "stub"}, NEW why, FailAbsentCheckpoint(why)
    PROVE  ckpt'.pending # "interrupt" /\ ckpt'.calls = 0 /\ ckpt'.node \in {"absent", "stub"}
BY DEF FailAbsentCheckpoint, NoCheckpoint, JobInv, WaitingAtTheGate

(* Where the shared endings of a delivery leave a worker. *)
LEMMA EndingEffect ==
    ASSUME TypeOK, NEW w \in Workers
    PROVE  /\ Raise(w) => pc'[w] \in {"finalise", "unlock"}
           /\ \A a \in BOOLEAN : Return(w, a) => pc'[w] \in {"unlock", "reconcile"}
           /\ \A why, back : CallFinalise(w, why, back) => pc'[w] = "finalise"
           /\ \A l : Go(w, l) => pc'[w] = l /\ task'[w] = task[w]
<1>1. task[w].back \in {"unlock", "reconcile"}
  BY DEF TypeOK, WorkerTypeOK, Tasks
<1> QED BY <1>1, GoWithEffect DEF Raise, Return, CallFinalise, Go

(* A step under the lock that ends up in a helper, outside, or where its facts hold. *)
LEMMA LockedStep ==
    ASSUME TypeOK, ExecutionInv, NEW w \in Workers, pc[w] \in Executing, Goes(w),
           UNCHANGED <<op, fence>>, DecisionsStand, JobInv',
           \/ pc'[w] \in {"unlock", "finalise", "reconcile"}
           \/ pc'[w] \in {"gateack", "regate", "reread"} /\ WaitingAtTheGate'
           \/ WorkerInv(w)'
    PROVE  ExecutionInv'
<1>1. fence = w /\ fence' = w
  BY DEF ExecutionInv, WorkerInv
<1>2. WorkerInv(w)'
  BY <1>1, InHelper, Outside
<1>3. PICK l \in Labels, t \in Tasks : GoWith(w, l, t)
  BY DEF Goes
<1> QED BY <1>1, <1>2, <1>3, WorkerSuffices

(* A step that touches neither the checkpoint nor the row nor the trail. *)
LEMMA IdleStep ==
    ASSUME TypeOK, ExecutionInv, NEW w \in Workers, Goes(w), WorkerInv(w)',
           UNCHANGED <<op, row, ckpt, trail>>, fence' = fence \/ fence \in {w, NoOne}
    PROVE  ExecutionInv'
<1>1. Harmless /\ DecisionsStand /\ JobInv'
  BY SameTrail, JobFrame DEF Harmless, ExecutionInv, JobInv
<1>2. PICK l \in Labels, t \in Tasks : GoWith(w, l, t)
  BY DEF Goes
<1> QED BY <1>1, <1>2, WorkerSuffices

-----------------------------------------------------------------------------
(* The worker's steps.                                                     *)

LEMMA PollStep ==
    ASSUME TypeOK, ExecutionInv, NEW w \in Workers, UNCHANGED op,
           Receive(w) \/ Received(w) \/ WaitForLock(w) \/ ReadJob(w) \/ StartJob(w) \/ ReadDecision(w)
    PROVE  ExecutionInv'
<1>0. Goes(w) /\ WorkerInv(w) /\ JobInv
  BY PollTypes DEF TypeOK, ExecutionInv
<1>1. CASE Receive(w)
  <2>1. WorkerInv(w)'
    <3> DEFINE t == [NoTask EXCEPT !.n = Head(queue).n, !.rc = Head(queue).rc + 1]
    <3>1. t.input = "none"
      BY DEF NoTask
    <3>2. GoWith(w, "received", t)
      BY <1>1 DEF Receive
    <3> HIDE DEF t
    <3>3. pc'[w] = "received" /\ task'[w] = t
      BY <3>2, GoWithEffect
    <3> QED BY <3>1, <3>3, Outside
  <2> QED BY <1>0, <1>1, <2>1, IdleStep DEF Receive
<1>2. CASE Received(w)
  <2>1. WorkerInv(w)'
    BY <1>0, <1>2, EndingEffect, Outside DEF Received, WorkerInv
  <2> QED BY <1>0, <1>2, <2>1, IdleStep DEF Received
<1>3. CASE WaitForLock(w)
  <2>1. CASE Relinquish(w)
    <3>1. WorkerInv(w)'
      BY <1>3, <2>1, EndingEffect, Outside DEF WaitForLock
    <3> QED BY <1>0, <1>3, <2>1, <3>1, IdleStep DEF WaitForLock
  <2>2. CASE ~Relinquish(w)
    <3>1. fence = NoOne /\ fence' = w /\ pc'[w] = "row" /\ task'[w].input = "none"
      BY <1>0, <1>3, <2>2, EndingEffect DEF WaitForLock, TryAcquire, WorkerInv
    <3>2. WorkerInv(w)'
      BY <3>1 DEF WorkerInv, Advancing
    <3> QED BY <1>0, <1>3, <3>1, <3>2, IdleStep DEF WaitForLock
  <2> QED BY <2>1, <2>2
<1>4. CASE ReadJob(w)
  <2>1. fence = w /\ fence' = w /\ task[w].input = "none" /\ pc[w] \in Executing
    BY <1>0, <1>4, ExecutingLabels DEF ReadJob, WorkerInv
  <2>2. \/ pc'[w] \in {"unlock", "finalise"}
        \/ ~row.completed /\ pc'[w] = "start" /\ task'[w] = task[w] /\ ckpt.node = "absent"
        \/ ~row.completed /\ pc'[w] = "decide" /\ task'[w] = task[w] /\ WaitingAtTheGate
        \/ ~row.completed /\ pc'[w] = "admit" /\ task'[w] = task[w]
    BY <1>4, EndingEffect, GoWithEffect DEF ReadJob, JobIsOver, NeverRun
  <2>3. WorkerInv(w)'
    BY <1>4, <2>1, <2>2, Outside, InHelper, ExecutingLabels, DecisionsDiffer
       DEF WorkerInv, Advancing, Decisions, WaitingAtTheGate, ReadJob
  <2> QED BY <1>0, <1>4, <2>3, IdleStep DEF ReadJob
<1>5. CASE StartJob(w)
  <2>1. /\ fence = w /\ pc[w] \in Executing /\ ~row.completed /\ ckpt.node = "absent"
    BY <1>0, <1>5, ExecutingLabels DEF StartJob, WorkerInv, Advancing
  <2>2. row'.completed = row.completed /\ (row.completed => row'.status \in Terminal)
    BY <1>0, <1>5, SetJobStatusEffect DEF StartJob, JobInv
  <2>3. JobInv' /\ DecisionsStand
    BY <1>0, <1>5, <2>2, JobFrame, SameTrail DEF StartJob
  <2>4. pc'[w] \in {"finalise", "unlock"} \/ (pc'[w] = "admit" /\ task'[w].input = "new")
    <3>1. Raise(w) \/ GoWith(w, "admit", [task[w] EXCEPT !.input = "new"])
      BY <1>5 DEF StartJob
    <3>2. CASE GoWith(w, "admit", [task[w] EXCEPT !.input = "new"])
      <4>1. pc'[w] = "admit" /\ task'[w] = [task[w] EXCEPT !.input = "new"]
        BY <3>2, GoWithEffect
      <4> QED BY <4>1, InputField
    <3> QED BY <3>1, <3>2, EndingEffect
  <2>5. pc'[w] = "admit" /\ task'[w].input = "new" => WorkerInv(w)'
    BY <1>5, <2>1, <2>2 DEF WorkerInv, Advancing, Decisions, StartJob
  <2> QED BY <1>0, <1>5, <2>1, <2>3, <2>4, <2>5, LockedStep DEF StartJob
<1>6. CASE ReadDecision(w)
  <2>1. /\ fence = w /\ pc[w] \in Executing /\ ~row.completed /\ WaitingAtTheGate
    BY <1>0, <1>6, ExecutingLabels DEF ReadDecision, WorkerInv, Advancing
  <2>2. \/ pc'[w] \in {"finalise", "unlock", "gateack"}
        \/ pc'[w] = "admit" /\ task'[w].input = trail.decided[ckpt.calls]
    <3> DEFINE d == trail.decided[ckpt.calls]
    <3>1. \/ Raise(w)
          \/ GoWith(w, "gateack", [task[w] EXCEPT !.back = "unlock"])
          \/ GoWith(w, "admit", [task[w] EXCEPT !.input = d])
      BY <1>6 DEF ReadDecision
    <3>2. CASE GoWith(w, "gateack", [task[w] EXCEPT !.back = "unlock"])
      BY <3>2, GoWithEffect
    <3>3. CASE GoWith(w, "admit", [task[w] EXCEPT !.input = d])
      <4>1. pc'[w] = "admit" /\ task'[w] = [task[w] EXCEPT !.input = d]
        BY <3>3, GoWithEffect
      <4> QED BY <4>1, InputField
    <3> QED BY <3>1, <3>2, <3>3, EndingEffect
  <2>3. trail.decided[ckpt.calls] # "new"
    BY DEF TypeOK, StoreTypeOK, Trails, Ckpts, Decisions, Undecided
  <2>4. pc'[w] = "admit" /\ task'[w].input = trail.decided[ckpt.calls] => WorkerInv(w)'
    BY <1>6, <2>1, <2>3 DEF WorkerInv, Advancing, WaitingAtTheGate, ReadDecision
  <2>5. JobInv' /\ DecisionsStand
    BY <1>0, <1>6, JobFrame, SameTrail DEF ReadDecision, JobInv
  <2>6. WaitingAtTheGate'
    BY <1>6, <2>1 DEF ReadDecision, WaitingAtTheGate
  <2> QED BY <1>0, <1>6, <2>1, <2>2, <2>4, <2>5, <2>6, LockedStep DEF ReadDecision
<1> QED BY <1>1, <1>2, <1>3, <1>4, <1>5, <1>6

LEMMA NodeStep ==
    ASSUME TypeOK, ExecutionInv, NEW w \in Workers, UNCHANGED op,
           \/ Admit(w) \/ Work(w) \/ OpenGate(w) \/ Interrupt(w) \/ Answer(w)
           \/ ExportGate(w) \/ PutReport(w) \/ StampExport(w) \/ Finalize(w) \/ Commit(w)
           \/ NothingPending(w) \/ NodeRaises(w)
    PROVE  ExecutionInv'
<1>0. Goes(w) /\ WorkerInv(w) /\ JobInv
  BY NodeTypes DEF TypeOK, ExecutionInv
<1>t. ckpt \in Ckpts /\ row \in Rows /\ ckpt.calls \in Visits
  BY DEF TypeOK, StoreTypeOK, Ckpts
<1>1. CASE Admit(w)
  <2>1. pc[w] = "admit" /\ pc[w] \in Executing /\ ~row.completed
    BY <1>0, <1>1, ExecutingLabels DEF Admit, WorkerInv, Advancing
  <2>2. \/ pc'[w] = "reconcile" /\ ckpt' = ckpt
        \/ /\ pc'[w] = "node" /\ task'[w] = task[w]
           /\ \/ task[w].input = "new" /\ ckpt' = [NoCheckpoint EXCEPT !.node = "work"]
              \/ task[w].input # "new" /\ ckpt' = ckpt
    BY <1>1, EndingEffect DEF Admit
  <2>3. DecisionsStand /\ UNCHANGED <<row, trail, fence>>
    BY <1>1, SameTrail DEF Admit
  <2>4. JobInv'
    BY <1>0, <2>1, <2>2, <2>3 DEF JobInv, WaitingAtTheGate, NoCheckpoint
  <2>5. CASE pc'[w] = "node" /\ task'[w] = task[w] /\ task[w].input # "new" /\ ckpt' = ckpt
    <3>1. WorkerInv(w)'
      BY <1>0, <2>1, <2>3, <2>5, ExecutingLabels DEF WorkerInv, Advancing, WaitingAtTheGate
    <3> QED BY <1>0, <1>1, <2>1, <2>3, <2>4, <3>1, LockedStep
  <2>6. CASE pc'[w] = "node" /\ task'[w] = task[w] /\ task[w].input = "new"
    <3>1. task'[w].input \notin Decisions
      BY <2>6 DEF Decisions
    <3>2. WorkerInv(w)'
      BY <1>0, <2>1, <2>3, <2>6, <3>1, ExecutingLabels DEF WorkerInv, Advancing
    <3> QED BY <1>0, <1>1, <2>1, <2>3, <2>4, <3>2, LockedStep
  <2> QED BY <1>0, <2>1, <2>2, <2>3, <2>4, <2>5, <2>6, LockedStep
<1>2. CASE Work(w)
  <2>1. pc[w] = "node" /\ pc[w] \in Executing /\ ~row.completed /\ pc'[w] = "after"
    BY <1>0, <1>2, EndingEffect, ExecutingLabels DEF Work, WorkerInv, Advancing
  <2>2. DecisionsStand /\ UNCHANGED <<row, trail, fence>>
    BY <1>2, SameTrail DEF Work
  <2>3. ckpt'.pending = "none" /\ ckpt'.node \in {"work", "human_gate", "finalize"}
    <3>1. ckpt.node = "work"
      BY <1>2 DEF Work
    <3> QED BY <1>2, <1>t, <3>1 DEF Work, Ckpts
  <2>4. JobInv'
    BY <1>0, <2>1, <2>2, <2>3 DEF JobInv, WaitingAtTheGate
  <2>5. WorkerInv(w)'
    BY <1>0, <2>1, <2>2 DEF WorkerInv, Advancing
  <2> QED BY <1>0, <1>2, <2>1, <2>2, <2>4, <2>5, LockedStep
<1>3. CASE OpenGate(w)
  <2>1. /\ pc[w] = "node" /\ pc[w] \in Executing /\ ~row.completed
        /\ ckpt.node = "human_gate"
    BY <1>0, <1>3, ExecutingLabels DEF OpenGate, WorkerInv, Advancing
  <2>2. pc'[w] = "opened" /\ task'[w] = task[w] /\ UNCHANGED <<ckpt, fence>>
    BY <1>3, EndingEffect DEF OpenGate
  <2>3. row'.completed = row.completed /\ DecisionsStand
    BY <1>3, <1>t, RecordGateOpenedEffect DEF OpenGate
  <2>4. JobInv'
    BY <1>0, <2>1, <2>2, <2>3, JobFrame
  <2>5. trail.decided[ckpt.calls] \in Decisions => trail'.decided[ckpt.calls] = trail.decided[ckpt.calls]
    BY <1>t, <2>3, DecisionsDiffer DEF DecisionsStand
  <2>6. WorkerInv(w)'
    BY <1>0, <2>1, <2>2, <2>3, <2>5 DEF WorkerInv, Advancing, WaitingAtTheGate
  <2> QED BY <1>0, <1>3, <2>1, <2>2, <2>3, <2>4, <2>6, LockedStep
<1>4. CASE Interrupt(w)
  <2>1. /\ pc[w] = "opened" /\ pc[w] \in Executing /\ ~row.completed /\ pc'[w] = "after"
        /\ ckpt.node = "human_gate"
    BY <1>0, <1>4, EndingEffect, ExecutingLabels DEF Interrupt, WorkerInv, Advancing
  <2>2. DecisionsStand /\ UNCHANGED <<row, trail, fence>> /\ ckpt'.node = "human_gate"
    BY <1>4, <1>t, <2>1, SameTrail DEF Interrupt, Ckpts
  <2>3. JobInv'
    BY <1>0, <2>1, <2>2 DEF JobInv, WaitingAtTheGate
  <2>4. WorkerInv(w)'
    BY <1>0, <2>1, <2>2 DEF WorkerInv, Advancing
  <2> QED BY <1>0, <1>4, <2>1, <2>2, <2>3, <2>4, LockedStep
<1>5. CASE Answer(w)
  <2>1. /\ pc[w] = "opened" /\ pc[w] \in Executing /\ ~row.completed /\ pc'[w] = "after"
    BY <1>0, <1>5, EndingEffect, ExecutingLabels DEF Answer, WorkerInv, Advancing
  <2>2. /\ DecisionsStand /\ UNCHANGED <<row, trail, fence>>
        /\ ckpt'.pending = "none" /\ ckpt'.node \in {"export", "finalize", "work"}
    BY <1>5, <1>t, SameTrail DEF Answer, Ckpts
  <2>3. JobInv'
    BY <1>0, <2>1, <2>2 DEF JobInv, WaitingAtTheGate
  <2>4. WorkerInv(w)'
    BY <1>0, <2>1, <2>2 DEF WorkerInv, Advancing
  <2> QED BY <1>0, <1>5, <2>1, <2>2, <2>3, <2>4, LockedStep
<1>6. CASE ExportGate(w)
  <2>1. /\ pc[w] = "node" /\ pc[w] \in Executing /\ ~row.completed /\ ckpt.node = "export"
        /\ pc'[w] \in {"put", "commit"}
    BY <1>0, <1>6, EndingEffect, GoWithEffect, ExecutingLabels
       DEF ExportGate, WorkerInv, Advancing
  <2>2. DecisionsStand /\ UNCHANGED <<ckpt, trail, fence>> /\ row'.completed = row.completed
    BY <1>6, <1>t, SameTrail DEF ExportGate, Rows
  <2>3. JobInv'
    BY <1>0, <2>1, <2>2, JobFrame
  <2>4. WorkerInv(w)'
    BY <1>0, <2>1, <2>2 DEF WorkerInv, Advancing
  <2> QED BY <1>0, <1>6, <2>1, <2>2, <2>3, <2>4, LockedStep
<1>7. CASE PutReport(w)
  <2>1. /\ pc[w] = "put" /\ pc[w] \in Executing /\ ~row.completed /\ ckpt.node = "export"
        /\ pc'[w] \in {"stamp", "commit"}
    BY <1>0, <1>7, EndingEffect, GoWithEffect, ExecutingLabels
       DEF PutReport, WorkerInv, Advancing
  <2>2. UNCHANGED <<row, ckpt, trail, fence>>
    BY <1>7 DEF PutReport
  <2>3. WorkerInv(w)'
    BY <1>0, <2>1, <2>2 DEF WorkerInv, Advancing
  <2> QED BY <1>0, <2>2, <2>3, IdleStep
<1>8. CASE StampExport(w)
  <2>1. /\ pc[w] = "stamp" /\ pc[w] \in Executing /\ ~row.completed /\ ckpt.node = "export"
        /\ pc'[w] = "commit"
    BY <1>0, <1>8, GoWithEffect, ExecutingLabels DEF StampExport, WorkerInv, Advancing
  <2>2. DecisionsStand /\ UNCHANGED <<ckpt, trail, fence>> /\ row'.completed = row.completed
    BY <1>8, <1>t, SameTrail DEF StampExport, Rows
  <2>3. JobInv'
    BY <1>0, <2>1, <2>2, JobFrame
  <2>4. WorkerInv(w)'
    BY <1>0, <2>1, <2>2 DEF WorkerInv, Advancing
  <2> QED BY <1>0, <1>8, <2>1, <2>2, <2>3, <2>4, LockedStep
<1>9. CASE Finalize(w)
  <2> DEFINE effective == IF ckpt.status \in Terminal THEN ckpt.status ELSE "failed"
  <2>1. /\ pc[w] = "node" /\ pc[w] \in Executing /\ ckpt.node = "finalize"
        /\ pc'[w] = "commit"
    BY <1>9, GoWithEffect, ExecutingLabels DEF Finalize
  <2>2. FinishJob(effective) /\ UNCHANGED <<ckpt, fence>> /\ effective \in Terminal
    BY <1>9 DEF Finalize, Terminal
  <2>3. row'.status \in Terminal /\ DecisionsStand
    BY <2>2, FinishJobEffect
  <2>4. JobInv'
    BY <1>0, <2>1, <2>2, <2>3 DEF JobInv, WaitingAtTheGate
  <2>5. WorkerInv(w)'
    BY <1>0, <2>1, <2>2, ExecutingLabels DEF WorkerInv, Advancing
  <2> QED BY <1>0, <2>1, <2>2, <2>3, <2>4, <2>5, LockedStep
<1>10. CASE Commit(w)
  <2>1. /\ pc[w] = "commit" /\ pc[w] \in Executing /\ pc'[w] = "after"
        /\ ckpt.node \in {"export", "finalize"}
        /\ row.completed => ckpt.node = "finalize"
    BY <1>0, <1>10, EndingEffect, ExecutingLabels DEF Commit, WorkerInv
  <2>2. /\ DecisionsStand /\ UNCHANGED <<row, trail, fence>> /\ ckpt'.pending = "none"
        /\ ckpt'.node = IF ckpt.node = "export" THEN "finalize" ELSE "end"
    BY <1>10, <1>t, SameTrail DEF Commit, Ckpts
  <2>3. JobInv'
    BY <1>0, <2>1, <2>2 DEF JobInv, WaitingAtTheGate
  <2>4. WorkerInv(w)'
    BY <1>0, <2>1, <2>2 DEF WorkerInv, Advancing
  <2> QED BY <1>0, <2>1, <2>2, <2>3, <2>4, LockedStep
<1>11. CASE NothingPending(w)
  <2>1. /\ pc[w] = "node" /\ pc[w] \in Executing /\ pc'[w] = "after" /\ ckpt.node = "end"
        /\ UNCHANGED <<row, ckpt, trail, fence>>
    BY <1>0, <1>11, EndingEffect, ExecutingLabels DEF NothingPending
  <2>2. WorkerInv(w)'
    BY <1>0, <2>1 DEF WorkerInv, Advancing
  <2> QED BY <1>0, <2>1, <2>2, IdleStep
<1>12. CASE NodeRaises(w)
  <2>1. pc[w] \in Executing /\ pc'[w] = "reconcile"
    BY <1>12, GoWithEffect, ExecutingLabels DEF NodeRaises, InNode
  <2>2. /\ DecisionsStand /\ UNCHANGED <<row, trail, fence>> /\ ckpt'.node = ckpt.node
        /\ ckpt'.calls = ckpt.calls /\ (WaitingAtTheGate' => WaitingAtTheGate)
    BY <1>12, <1>t, SameTrail DEF NodeRaises, Ckpts, WaitingAtTheGate
  <2>3. JobInv'
    BY <1>0, <2>2 DEF JobInv
  <2> QED BY <1>0, <2>1, <2>2, <2>3, LockedStep
<1> QED BY <1>1, <1>2, <1>3, <1>4, <1>5, <1>6, <1>7, <1>8, <1>9, <1>10, <1>11, <1>12

LEMMA EndingStep ==
    ASSUME TypeOK, ExecutionInv, NEW w \in Workers, UNCHANGED op,
           \/ AfterNode(w) \/ CheckGateRow(w) \/ RepairGateRow(w) \/ RereadGateRow(w)
           \/ FinaliseCheckpoint(w) \/ FinaliseRow(w) \/ ReconcileStatus(w)
           \/ Unlock(w) \/ Acknowledge(w) \/ Fallback(w)
    PROVE  ExecutionInv'
<1>0. Goes(w) /\ WorkerInv(w) /\ JobInv
  BY EndingTypes DEF TypeOK, ExecutionInv
<1>t. ckpt \in Ckpts /\ row \in Rows
  BY DEF TypeOK, StoreTypeOK
<1>1. CASE AfterNode(w)
  <2>1. fence = w /\ UNCHANGED <<row, ckpt, trail, fence>>
    BY <1>0, <1>1, ExecutingLabels DEF AfterNode, WorkerInv
  <2>2. \/ pc'[w] \in {"finalise", "reconcile"}
        \/ pc'[w] = "gateack" /\ WaitingAtTheGate
        \/ pc'[w] = "admit" /\ task'[w].input = "none" /\ ckpt.node # "end"
    <3>1. \/ \E t : GoWith(w, "reconcile", t) \/ (GoWith(w, "gateack", t) /\ WaitingAtTheGate)
          \/ CallFinalise(w, "job_timeout", "reconcile")
          \/ GoWith(w, "admit", [task[w] EXCEPT !.input = "none"]) /\ ckpt.node # "end"
      BY <1>1 DEF AfterNode, NextInput
    <3>2. CASE GoWith(w, "admit", [task[w] EXCEPT !.input = "none"]) /\ ckpt.node # "end"
      <4>1. pc'[w] = "admit" /\ task'[w] = [task[w] EXCEPT !.input = "none"]
        BY <3>2, GoWithEffect
      <4> QED BY <3>2, <4>1, InputField
    <3> QED BY <3>1, <3>2, EndingEffect, GoWithEffect
  <2>3. pc'[w] = "admit" /\ task'[w].input = "none" /\ ckpt.node # "end" => WorkerInv(w)'
    BY <1>0, <1>1, <2>1, DecisionsDiffer DEF AfterNode, WorkerInv, Advancing, Decisions
  <2>4. WorkerInv(w)'
    BY <2>1, <2>2, <2>3, InHelper DEF WaitingAtTheGate
  <2> QED BY <1>0, <2>1, <2>4, IdleStep
<1>2. CASE CheckGateRow(w) \/ RereadGateRow(w)
  <2>1. fence = w /\ UNCHANGED <<row, ckpt, trail, fence>> /\ WaitingAtTheGate /\ WaitingAtTheGate'
    BY <1>0, <1>2, ExecutingLabels DEF CheckGateRow, RereadGateRow, WorkerInv, WaitingAtTheGate
  <2>2. pc'[w] \in {"regate", "unlock", "reconcile"}
    BY <1>2, EndingEffect DEF CheckGateRow, RereadGateRow, GateUsable
  <2>3. WorkerInv(w)'
    BY <2>1, <2>2, InHelper, Outside
  <2> QED BY <1>0, <2>1, <2>3, IdleStep
<1>3. CASE RepairGateRow(w) \/ ReconcileStatus(w)
  <2>1. /\ pc[w] \in Executing /\ UNCHANGED <<ckpt, trail, fence>>
        /\ \/ pc'[w] \in {"unlock", "reconcile", "finalise"}
           \/ pc'[w] = "reread" /\ WaitingAtTheGate'
    BY <1>0, <1>3, EndingEffect, ExecutingLabels
       DEF RepairGateRow, ReconcileStatus, WorkerInv, WaitingAtTheGate
  <2>2. row'.completed = row.completed /\ (row.completed => row'.status \in Terminal)
    BY <1>0, <1>3, SetJobStatusEffect DEF RepairGateRow, ReconcileStatus, JobInv
  <2>3. JobInv' /\ DecisionsStand
    BY <1>0, <2>1, <2>2, JobFrame, SameTrail
  <2> QED BY <1>0, <2>1, <2>3, LockedStep
<1>4. CASE FinaliseCheckpoint(w)
  <2>1. pc[w] \in Executing /\ UNCHANGED <<row, trail, fence>> /\ DecisionsStand
    BY <1>4, ExecutingLabels, SameTrail DEF FinaliseCheckpoint
  <2>2. \/ pc'[w] \in {"unlock", "reconcile"} /\ UNCHANGED ckpt
        \/ /\ pc'[w] \in {"unlock", "reconcile"}
           /\ ckpt.node \in {"absent", "stub"} /\ FailAbsentCheckpoint(task[w].why)
        \/ pc'[w] \in {"unlock", "reconcile", "finish"} /\ FailCheckpoint(task[w].why)
    BY <1>4, EndingEffect DEF FinaliseCheckpoint
  <2>3. JobInv'
    <3>1. CASE UNCHANGED ckpt
      BY <1>0, <2>1, <3>1, JobFrame DEF JobInv
    <3>2. CASE ckpt.node \in {"absent", "stub"} /\ FailAbsentCheckpoint(task[w].why)
      BY <1>0, <2>1, <3>2, FailAbsentCheckpointEffect DEF JobInv, WaitingAtTheGate
    <3>3. CASE FailCheckpoint(task[w].why)
      BY <1>0, <2>1, <3>3, FailCheckpointEffect DEF JobInv, WaitingAtTheGate
    <3> QED BY <2>2, <3>1, <3>2, <3>3
  <2>4. pc'[w] = "finish" => WorkerInv(w)'
    <3>1. pc'[w] = "finish" => ckpt'.pending = "none"
      BY <1>0, <2>2, FailCheckpointEffect
    <3> QED BY <1>0, <2>1, <3>1 DEF WorkerInv, Advancing
  <2> QED BY <1>0, <2>1, <2>2, <2>3, <2>4, LockedStep
<1>5. CASE FinaliseRow(w)
  <2>1. /\ pc[w] \in Executing /\ UNCHANGED <<ckpt, fence>> /\ ~WaitingAtTheGate
        /\ pc'[w] \in {"unlock", "reconcile"}
    BY <1>0, <1>5, EndingEffect, ExecutingLabels DEF FinaliseRow, WorkerInv, WaitingAtTheGate
  <2>2. DecisionsStand /\ (row' = row \/ row'.status \in Terminal)
    BY <1>5, FinishJobEffect, SameTrail DEF FinaliseRow, Terminal, dbVars
  <2>3. JobInv'
    BY <1>0, <2>1, <2>2 DEF JobInv, WaitingAtTheGate
  <2> QED BY <1>0, <2>1, <2>2, <2>3, LockedStep
<1>6. CASE Unlock(w) \/ Acknowledge(w)
  <2>1. /\ pc'[w] \in {"ack", "idle", "fallback"} /\ UNCHANGED <<row, ckpt, trail>>
        /\ fence' = fence \/ fence = w
    BY <1>6, EndingEffect, GoWithEffect DEF Unlock, Acknowledge, Release
  <2>2. WorkerInv(w)'
    BY <2>1, Outside
  <2> QED BY <1>0, <2>1, <2>2, IdleStep
<1>7. CASE Fallback(w)
  <2>1. /\ UNCHANGED <<row, ckpt, trail>> /\ (fence' = fence \/ fence = NoOne)
        /\ (pc'[w] = "finalise" /\ fence' = w) \/ pc'[w] = "idle"
    BY <1>7, EndingEffect, GoWithEffect DEF Fallback, TryAcquire
  <2>2. WorkerInv(w)'
    BY <2>1, InHelper, Outside
  <2> QED BY <1>0, <2>1, <2>2, IdleStep
<1> QED BY <1>1, <1>2, <1>3, <1>4, <1>5, <1>6, <1>7

-----------------------------------------------------------------------------
(* The steps of those who do not hold the lock.                            *)

LEMMA UnlockedStep ==
    ASSUME TypeOK, ExecutionInv, UNCHANGED <<pc, task, op, ckpt, fence>>,
           row'.completed = row.completed, row.completed => row'.status \in Terminal,
           DecisionsStand
    PROVE  ExecutionInv'
<1>1. Harmless /\ JobInv'
  BY JobFrame DEF Harmless, ExecutionInv
<1>2. \A w \in Workers : WorkerInv(w)'
  BY <1>1, WorkerUndisturbed DEF ExecutionInv
<1>3. \A o \in Operators : OperatorInv(o)'
  BY <1>1, OperatorUndisturbed DEF ExecutionInv
<1> QED BY <1>1, <1>2, <1>3 DEF ExecutionInv

LEMMA EnvironmentStep ==
    ASSUME TypeOK, ExecutionInv, UNCHANGED op,
           \/ ExpireDelivery \/ RedriveMessage
           \/ \E w \in Workers : LoseOwnership(w) \/ RequestShutdown(w) \/ Restart(w) \/ Crash(w)
    PROVE  ExecutionInv'
<1>0. JobInv /\ (row.completed => row.status \in Terminal)
  BY DEF ExecutionInv, JobInv
<1>1. CASE ExpireDelivery \/ RedriveMessage
  <2>1. UNCHANGED <<pc, task, row, trail, ckpt, fence>>
    BY <1>1 DEF ExpireDelivery, RedriveMessage, Redrive, workerVars
  <2> QED BY <1>0, <2>1, SameTrail, UnlockedStep
<1>2. CASE \E w \in Workers : RequestShutdown(w) \/ Restart(w)
  <2>1. UNCHANGED <<pc, task, row, trail, ckpt, fence>>
    BY <1>2 DEF RequestShutdown, Restart, storeVars
  <2> QED BY <1>0, <2>1, SameTrail, UnlockedStep
<1>3. ASSUME NEW w \in Workers, LoseOwnership(w) PROVE ExecutionInv'
  <2>1. UNCHANGED <<pc, row, trail, ckpt, fence>> /\ Harmless /\ DecisionsStand /\ JobInv'
    BY <1>0, <1>3, SameTrail, JobFrame DEF LoseOwnership, Harmless
  <2>2. /\ \A v \in Workers \ {w} : task'[v] = task[v]
        /\ task'[w].input = task[w].input
    <3>1. task' = [task EXCEPT ![w].lost = TRUE] /\ task \in [Workers -> Tasks]
      BY <1>3 DEF LoseOwnership, TypeOK, WorkerTypeOK
    <3>2. task[w] \in Tasks /\ task'[w] = [task[w] EXCEPT !.lost = TRUE]
      BY <3>1
    <3> QED BY <3>1, <3>2 DEF Tasks
  <2>3. /\ \A v \in Workers \ {w} : WorkerInv(v)'
        /\ \A o \in Operators : OperatorInv(o)'
    BY <2>1, <2>2, WorkerFrame
  <2>4. WorkerInv(w)'
    BY <2>1, <2>2 DEF ExecutionInv, WorkerInv, WaitingAtTheGate
  <2> QED BY <2>1, <2>3, <2>4 DEF ExecutionInv
<1>4. ASSUME NEW w \in Workers, Crash(w) PROVE ExecutionInv'
  <2>1. /\ UNCHANGED <<row, trail, ckpt>> /\ fence' = (IF fence = w THEN NoOne ELSE fence)
        /\ Harmless /\ DecisionsStand /\ JobInv'
    BY <1>0, <1>4, SameTrail, JobFrame DEF Crash, Release, Harmless
  <2>2. pc'[w] = "idle" /\ \A v \in Workers \ {w} : pc'[v] = pc[v] /\ task'[v] = task[v]
    BY <1>4 DEF Crash, TypeOK, WorkerTypeOK
  <2>3. /\ \A v \in Workers \ {w} : WorkerInv(v)'
        /\ \A o \in Operators : OperatorInv(o)'
    BY <2>1, <2>2, WorkerFrame
  <2>4. WorkerInv(w)'
    BY <2>2, Outside
  <2> QED BY <2>1, <2>3, <2>4 DEF ExecutionInv
<1> QED BY <1>1, <1>2, <1>3, <1>4

LEMMA ReviewStep ==
    ASSUME TypeOK, ExecutionInv, ApiNext, UNCHANGED <<workerVars, opVars>>
    PROVE  ExecutionInv'
<1>0. JobInv /\ UNCHANGED <<pc, task, op>> /\ row \in Rows
  BY DEF ExecutionInv, workerVars, opVars, TypeOK, StoreTypeOK
<1>1. UNCHANGED <<ckpt, fence>> /\ (UNCHANGED trail \/ UNCHANGED row)
  BY DEF ApiNext, Submit, EnqueueStart, SubmitCrash, Handle, ReadRow, ReadVisit, ReadRecorded,
         Claim, Record, EnqueueResume, RequestDies, storeVars
<1>2. row' = row \/ (row'.completed = row.completed /\ row.status \notin Terminal)
  <2>1. Submit \/ (\E r \in Reviewers : Claim(r)) \/ UNCHANGED row
    BY DEF ApiNext, EnqueueStart, SubmitCrash, Handle, ReadRow, ReadVisit, ReadRecorded,
           Record, EnqueueResume, RequestDies, storeVars
  <2>2. CASE Submit
    BY <1>0, <2>2 DEF Submit, CreateJob, Rows, Terminal
  <2>3. CASE \E r \in Reviewers : Claim(r)
    BY <1>0, <2>3 DEF Claim, ClaimGate, CanClaim, Rows, Terminal
  <2> QED BY <2>1, <2>2, <2>3
<1>3. DecisionsStand
  <2>1. (\E r \in Reviewers : Record(r)) \/ UNCHANGED trail
    BY DEF ApiNext, Submit, EnqueueStart, SubmitCrash, Handle, ReadRow, ReadVisit, ReadRecorded,
           Claim, EnqueueResume, RequestDies, storeVars
  <2>2. CASE \E r \in Reviewers : Record(r)
    <3>1. PICK r \in Reviewers : Record(r)
      BY <2>2
    <3>2. req[r].visit \in Visits /\ req[r].decision \in Decisions
      BY DEF TypeOK, ApiTypeOK, Requests
    <3> QED BY <3>1, <3>2, RecordDecisionEffect, SameTrail DEF Record
  <2> QED BY <2>1, <2>2, SameTrail
<1> QED BY <1>0, <1>1, <1>2, <1>3, UnlockedStep DEF JobInv

(* An operator outside the sweep's region relies on nothing. *)
LEMMA OperatorOutside ==
    ASSUME NEW o \in Operators, op'[o].at \notin {"apply", "note"}
    PROVE  OperatorInv(o)'
BY DEF OperatorInv

LEMMA ToEffect ==
    ASSUME TypeOK, NEW o \in Operators, NEW s, To(o, s)
    PROVE  op'[o] = s /\ \A p \in Operators \ {o} : op'[p] = op[p]
BY DEF TypeOK, OpTypeOK, To

LEMMA SessionFields ==
    ASSUME TypeOK, NEW o \in Operators, NEW at, NEW out
    PROVE  /\ [op[o] EXCEPT !.at = at].at = at
           /\ [op[o] EXCEPT !.at = at, !.outcome = out].at = at
           /\ [op[o] EXCEPT !.at = at, !.outcome = out].outcome = out
<1>1. op[o] \in Sessions
  BY DEF TypeOK, OpTypeOK
<1> QED BY <1>1 DEF Sessions

LEMMA IdleFields == Idle.at = "idle" /\ \A at : [Idle EXCEPT !.at = at].at = at
BY DEF Idle

(* A step of an operator, from its own part and the job's. *)
LEMMA OperatorSuffices ==
    ASSUME TypeOK, ExecutionInv, NEW o \in Operators, UNCHANGED <<pc, task>>, DecisionsStand,
           NEW s, To(o, s), fence' = fence \/ fence \in {o, NoOne}, fence = o \/ Harmless,
           OperatorInv(o)', JobInv'
    PROVE  ExecutionInv'
<1>1. \A p \in Operators \ {o} : op'[p] = op[p]
  BY ToEffect
<1>2. (\A w \in Workers : WorkerInv(w)') /\ (\A p \in Operators \ {o} : OperatorInv(p)')
  BY <1>1, OperatorFrame
<1> QED BY <1>2 DEF ExecutionInv

(* A step of an operator that ends outside the region and changes nothing others rely on. *)
LEMMA OperatorIdles ==
    ASSUME TypeOK, ExecutionInv, NEW o \in Operators, UNCHANGED <<pc, task, trail, ckpt>>,
           row'.completed = row.completed, row'.status = row.status,
           fence' = fence \/ fence = o, NEW s, To(o, s), s.at \notin {"apply", "note"}
    PROVE  ExecutionInv'
<1>1. Harmless /\ DecisionsStand /\ JobInv'
  BY SameTrail, JobFrame DEF Harmless, ExecutionInv, JobInv
<1>2. OperatorInv(o)'
  BY ToEffect, OperatorOutside
<1> QED BY <1>1, <1>2, OperatorSuffices

LEMMA OutcomeEvidence ==
    ASSUME NEW dead, Outcome(dead) # "none"
    PROVE  /\ ~row.completed
           /\ Outcome(dead) = "repaired_terminal" => ckpt.status \in Terminal
           /\ Outcome(dead) \in {"repaired_terminal", "failed"} => ~WaitingAtTheGate
BY DEF Outcome, CheckpointTerminal

LEMMA SweepStep ==
    ASSUME TypeOK, ExecutionInv, OpNext, UNCHANGED <<workerVars, apiVars>>
    PROVE  ExecutionInv'
<1>0. JobInv /\ UNCHANGED <<pc, task>> /\ row \in Rows
  BY DEF ExecutionInv, workerVars, TypeOK, StoreTypeOK
<1>1. PICK o \in Operators :
         ReadDeadLetters(o) \/ TakeLetter(o) \/ Reexport(o) \/ Operate(o) \/ OperatorDies(o)
  BY DEF OpNext
<1>2. CASE \/ ReadDeadLetters(o) \/ TakeLetter(o) \/ Reexport(o) \/ SelectCandidate(o)
           \/ ReachVerdict(o) \/ Resend(o) \/ Discard(o) \/ ReexportPut(o)
  <2>1. UNCHANGED <<row, trail, ckpt, fence>>
    BY <1>2 DEF ReadDeadLetters, TakeLetter, Reexport, SelectCandidate, ReachVerdict, Resend,
                Discard, ReexportPut, storeVars
  <2>2. \/ \E m \in dlq : To(o, [Idle EXCEPT !.at = "verdict", !.letter = m])
        \/ To(o, [Idle EXCEPT !.at = "select", !.dead = dlq # {}])
        \/ To(o, [Idle EXCEPT !.at = "reput"]) \/ To(o, Idle)
        \/ \E at \in {"fence", "resend", "discard", "restamp"} : To(o, [op[o] EXCEPT !.at = at])
    BY <1>2 DEF ReadDeadLetters, TakeLetter, Reexport, SelectCandidate, ReachVerdict, Resend,
                Discard, ReexportPut
  <2>3. CASE To(o, Idle)
    BY <1>0, <2>1, <2>3, IdleFields, OperatorIdles
  <2>4. CASE To(o, [Idle EXCEPT !.at = "reput"])
    <3>1. [Idle EXCEPT !.at = "reput"].at \notin {"apply", "note"}
      BY IdleFields
    <3> QED BY <1>0, <2>1, <2>4, <3>1, OperatorIdles
  <2>5. CASE To(o, [Idle EXCEPT !.at = "select", !.dead = dlq # {}])
    <3>1. [Idle EXCEPT !.at = "select", !.dead = dlq # {}].at \notin {"apply", "note"}
      BY DEF Idle
    <3> QED BY <1>0, <2>1, <2>5, <3>1, OperatorIdles
  <2>6. ASSUME NEW m, To(o, [Idle EXCEPT !.at = "verdict", !.letter = m]) PROVE ExecutionInv'
    <3>1. [Idle EXCEPT !.at = "verdict", !.letter = m].at \notin {"apply", "note"}
      BY DEF Idle
    <3> QED BY <1>0, <2>1, <2>6, <3>1, OperatorIdles
  <2>7. ASSUME NEW at \in {"fence", "resend", "discard", "restamp"},
               To(o, [op[o] EXCEPT !.at = at])
        PROVE  ExecutionInv'
    <3>1. [op[o] EXCEPT !.at = at].at = at
      BY SessionFields
    <3>2. at \notin {"apply", "note"}
      OBVIOUS
    <3> QED BY <1>0, <2>1, <2>7, <3>1, <3>2, OperatorIdles
  <2> QED BY <2>2, <2>3, <2>4, <2>5, <2>6, <2>7
<1>3. CASE ReexportStamp(o)
  <2>1. /\ UNCHANGED <<trail, ckpt, fence>> /\ To(o, Idle)
        /\ row'.completed = row.completed /\ row'.status = row.status
    BY <1>0, <1>3 DEF ReexportStamp, Rows
  <2> QED BY <1>0, <2>1, IdleFields, OperatorIdles
<1>4. CASE RequeueFails(o) \/ Note(o) \/ OperatorDies(o)
  <2>1. /\ UNCHANGED <<row, trail, ckpt>> /\ To(o, Idle)
        /\ fence' = fence \/ fence = o
    BY <1>4 DEF RequeueFails, Note, OperatorDies, Release
  <2> QED BY <1>0, <2>1, IdleFields, OperatorIdles
<1>5. CASE Inspect(o)
  <2>1. CASE To(o, Idle) /\ UNCHANGED fence
    BY <1>0, <1>5, <2>1, IdleFields, OperatorIdles DEF Inspect
  <2>2. CASE /\ Outcome(op[o].dead) # "none" /\ TryAcquire(o)
             /\ To(o, [op[o] EXCEPT !.at = "apply", !.outcome = Outcome(op[o].dead)])
    <3>1. op'[o].at = "apply" /\ op'[o].outcome = Outcome(op[o].dead)
      <4>1. op'[o] = [op[o] EXCEPT !.at = "apply", !.outcome = Outcome(op[o].dead)]
        BY <2>2, ToEffect
      <4> QED BY <4>1, SessionFields
    <3>2. UNCHANGED <<row, ckpt, trail>> /\ fence = NoOne /\ fence' = o
      BY <1>5, <2>2 DEF Inspect, TryAcquire
    <3>3. OperatorInv(o)'
      BY <2>2, <3>1, <3>2, OutcomeEvidence DEF OperatorInv, WaitingAtTheGate
    <3>4. Harmless /\ DecisionsStand /\ JobInv'
      BY <1>0, <3>2, SameTrail, JobFrame DEF Harmless, JobInv
    <3> QED BY <1>0, <2>2, <3>2, <3>3, <3>4, OperatorSuffices
  <2> QED BY <1>5, <2>1, <2>2 DEF Inspect
<1>6. CASE Apply(o)
  <2>1. OperatorInv(o) /\ fence = o /\ UNCHANGED <<ckpt, fence>> /\ ~row.completed
    BY <1>6 DEF ExecutionInv, OperatorInv, Apply
  <2>2. To(o, [op[o] EXCEPT !.at = "note"])
    BY <1>6 DEF Apply
  <2>3. OperatorInv(o)'
    <3>1. op'[o] = [op[o] EXCEPT !.at = "note"]
      BY <2>2, ToEffect
    <3>2. op'[o].at = "note"
      BY <3>1, SessionFields
    <3> QED BY <2>1, <3>2 DEF OperatorInv
  <2>4. DecisionsStand /\ JobInv'
    <3>1. CASE op[o].outcome = "repaired_gate"
      <4>1. SetJobStatus("awaiting_approval") /\ UNCHANGED trail
        BY <1>6, <3>1 DEF Apply
      <4>2. row'.completed = row.completed
        BY <1>0, <4>1, SetJobStatusEffect
      <4> QED BY <1>0, <2>1, <4>1, <4>2, JobFrame, SameTrail
    <3>2. CASE op[o].outcome \in {"repaired_terminal", "failed"}
      <4>1. PICK s \in Terminal : FinishJob(s)
        BY <1>6, <2>1, <3>2 DEF Apply, OperatorInv, Terminal
      <4>2. ~WaitingAtTheGate
        BY <1>6, <2>1, <3>2 DEF Apply, OperatorInv
      <4> QED BY <1>0, <2>1, <4>1, <4>2, FinishJobEffect DEF JobInv, WaitingAtTheGate
    <3>3. CASE op[o].outcome = "requeued"
      <4>1. UNCHANGED <<row, trail>>
        BY <1>6, <3>3 DEF Apply, dbVars
      <4> QED BY <1>0, <2>1, <4>1, JobFrame, SameTrail
    <3> QED BY <1>6, <3>1, <3>2, <3>3 DEF Apply
  <2> QED BY <1>0, <2>1, <2>2, <2>3, <2>4, OperatorSuffices
<1> QED BY <1>1, <1>2, <1>3, <1>4, <1>5, <1>6 DEF Operate

-----------------------------------------------------------------------------
LEMMA InitExecution == Init => ExecutionInv
<1> SUFFICES ASSUME Init PROVE ExecutionInv
  OBVIOUS
<1>1. JobInv
  BY DEF Init, StoreInit, JobInv, NoCheckpoint, WaitingAtTheGate
<1>2. \A w \in Workers : WorkerInv(w)
  BY ExecutingLabels DEF Init, WorkerInit, WorkerInv
<1>3. \A o \in Operators : OperatorInv(o)
  BY DEF Init, OpInit, Idle, OperatorInv
<1> QED BY <1>1, <1>2, <1>3 DEF ExecutionInv

LEMMA NextExecution == TypeOK /\ ExecutionInv /\ [Next]_vars => ExecutionInv'
<1> SUFFICES ASSUME TypeOK, ExecutionInv, [Next]_vars PROVE ExecutionInv'
  OBVIOUS
<1>1. CASE WorkerStep(WorkerNext)
  <2>1. UNCHANGED op
    BY <1>1 DEF WorkerStep, opVars
  <2> QED BY <1>1, <2>1, PollStep, NodeStep, EndingStep, EnvironmentStep
         DEF WorkerStep, WorkerNext, Run
<1>2. CASE ApiStep(ApiNext)
  BY <1>2, ReviewStep DEF ApiStep
<1>3. CASE OpStep(OpNext)
  BY <1>3, SweepStep DEF OpStep
<1>4. CASE UNCHANGED vars
  <2>1. UNCHANGED <<pc, task, op, row, trail, ckpt, fence>>
    BY <1>4 DEF vars, storeVars, workerVars, opVars
  <2> QED BY <2>1, SameTrail, UnlockedStep DEF ExecutionInv, JobInv
<1> QED BY <1>1, <1>2, <1>3, <1>4 DEF Next

(* Each process may rely, where it stands, on what it read under the lock. *)
THEOREM ExecutionIsExclusive == Spec => []ExecutionInv
<1>1. Spec => [](TypeOK /\ ExecutionInv)
  <2>1. Init => TypeOK /\ ExecutionInv
    BY InitTypes, InitExecution
  <2>2. TypeOK /\ ExecutionInv /\ [Next]_vars => (TypeOK /\ ExecutionInv)'
    BY NextTypes, NextExecution
  <2> QED BY <2>1, <2>2, PTL DEF Spec
<1> QED BY <1>1, PTL

-----------------------------------------------------------------------------
(* What follows from it, for every number of workers, reviewers and operators.             *)


LEMMA Invariants == Spec => [](TypeOK /\ ExecutionInv)
BY TypeCorrectness, ExecutionIsExclusive, PTL

(* However many deliveries, frozen workers and sweeps there are, only the lock's holder is    *)
(* in the region that moves the graph and ends the job.                                       *)
THEOREM ExecutorIsUnique == Spec => []OneExecutor
<1>1. ExecutionInv => OneExecutor
  BY DEF ExecutionInv, WorkerInv, OperatorInv, OneExecutor
<1> QED BY <1>1, ExecutionIsExclusive, PTL

(* A gate is resumed with the decision on record for the visit the graph is at.               *)
THEOREM ResumesMatchTheTrail == Spec => []ResumeMatchesTrail
<1>1. ExecutionInv => ResumeMatchesTrail
  BY DEF ExecutionInv, WorkerInv, JobInv, ResumeMatchesTrail
<1> QED BY <1>1, ExecutionIsExclusive, PTL

-----------------------------------------------------------------------------
(* The row.                                                                *)

RowIsFinal == row.completed => row'.completed /\ row'.status \in {row.status, "failed"}

LEMMA SetJobStatusIsFinal ==
    ASSUME TypeOK, NEW s, SetJobStatus(s) PROVE RowIsFinal
BY DEF SetJobStatus, RowIsFinal

LEMMA FinishFailedIsFinal ==
    ASSUME TypeOK, FinishJob("failed") PROVE RowIsFinal
BY FinishJobEffect DEF RowIsFinal

LEMMA WorkerRowIsFinal ==
    ASSUME TypeOK, ExecutionInv, WorkerNext PROVE RowIsFinal
<1>t. row \in Rows
  BY DEF TypeOK, StoreTypeOK
<1>1. CASE UNCHANGED row
  BY <1>1 DEF RowIsFinal
<1>2. ASSUME NEW w \in Workers, pc[w] \in Advancing PROVE RowIsFinal
  BY <1>2 DEF ExecutionInv, WorkerInv, RowIsFinal
<1>3. ASSUME NEW w \in Workers,
             StartJob(w) \/ OpenGate(w) \/ ExportGate(w) \/ StampExport(w) \/ Finalize(w)
      PROVE  RowIsFinal
  BY <1>2, <1>3 DEF StartJob, OpenGate, ExportGate, StampExport, Finalize, Advancing
<1>4. ASSUME NEW w \in Workers, RepairGateRow(w) \/ ReconcileStatus(w) PROVE RowIsFinal
  BY <1>1, <1>4, SetJobStatusIsFinal DEF RepairGateRow, ReconcileStatus
<1>5. ASSUME NEW w \in Workers, FinaliseRow(w) PROVE RowIsFinal
  BY <1>1, <1>5, FinishFailedIsFinal DEF FinaliseRow, dbVars
<1>6. \/ UNCHANGED row
      \/ \E w \in Workers : \/ StartJob(w) \/ OpenGate(w) \/ ExportGate(w) \/ StampExport(w)
                            \/ Finalize(w) \/ RepairGateRow(w) \/ ReconcileStatus(w)
                            \/ FinaliseRow(w)
  BY DEF WorkerNext, Run, Receive, Received, WaitForLock, ReadJob, ReadDecision, Admit, Work,
         Interrupt, Answer, PutReport, Commit, NothingPending, NodeRaises, AfterNode,
         CheckGateRow, RereadGateRow, FinaliseCheckpoint, Unlock, Acknowledge, Fallback,
         LoseOwnership, RequestShutdown, Restart, Crash, ExpireDelivery, RedriveMessage, Redrive,
         storeVars
<1> QED BY <1>1, <1>3, <1>4, <1>5, <1>6

LEMMA ApiRowIsFinal ==
    ASSUME TypeOK, ExecutionInv, ApiNext PROVE RowIsFinal
<1>1. \/ UNCHANGED row
      \/ row.status \in {"none", "awaiting_approval"}
  BY DEF ApiNext, Submit, CreateJob, EnqueueStart, SubmitCrash, Handle, ReadRow, ReadVisit,
         ReadRecorded, Claim, ClaimGate, CanClaim, Record, EnqueueResume, RequestDies, storeVars
<1> QED BY <1>1 DEF ExecutionInv, JobInv, Terminal, RowIsFinal

LEMMA SweepRowIsFinal ==
    ASSUME TypeOK, ExecutionInv, OpNext PROVE RowIsFinal
<1>t. row \in Rows
  BY DEF TypeOK, StoreTypeOK
<1>1. ASSUME NEW o \in Operators, Apply(o) PROVE RowIsFinal
  BY <1>1 DEF Apply, ExecutionInv, OperatorInv, RowIsFinal
<1>2. ASSUME NEW o \in Operators, ReexportStamp(o) PROVE RowIsFinal
  BY <1>t, <1>2 DEF ReexportStamp, Rows, RowIsFinal
<1>3. UNCHANGED row \/ \E o \in Operators : Apply(o) \/ ReexportStamp(o)
  BY DEF OpNext, Operate, ReadDeadLetters, TakeLetter, Reexport, SelectCandidate, Inspect,
         RequeueFails, Note, ReachVerdict, Resend, Discard, ReexportPut, OperatorDies, storeVars
<1> QED BY <1>1, <1>2, <1>3 DEF RowIsFinal

(* No reconcile, claim, gate opening or repair reopens a finished job, and only _finalise's   *)
(* failed status follows another terminal one.                                                *)
THEOREM FinishedIsFinal == Spec => FinishedStaysFinished
<1>1. TypeOK /\ ExecutionInv /\ [Next]_vars => RowIsFinal
  <2> SUFFICES ASSUME TypeOK, ExecutionInv, [Next]_vars PROVE RowIsFinal
    OBVIOUS
  <2>1. CASE UNCHANGED vars
    BY <2>1 DEF vars, storeVars, RowIsFinal
  <2> QED BY <2>1, WorkerRowIsFinal, ApiRowIsFinal, SweepRowIsFinal
         DEF Next, WorkerStep, ApiStep, OpStep
<1>2. TypeOK /\ ExecutionInv /\ [Next]_vars =>
        [row.completed => row'.completed /\ row'.status \in {row.status, "failed"}]_vars
  BY <1>1 DEF RowIsFinal
<1> QED BY <1>2, Invariants, PTL DEF Spec, FinishedStaysFinished

-----------------------------------------------------------------------------
(* The checkpoint.                                                         *)

Frozen    == row.completed => ckpt'.calls = ckpt.calls /\ ckpt'.pending # "interrupt"
Unlost    == ckpt.node \notin {"absent", "stub"} =>
                 ckpt'.node \notin {"absent", "stub"} /\ ckpt'.calls >= ckpt.calls

LEMMA SameCheckpoint == ASSUME TypeOK, ExecutionInv, UNCHANGED ckpt PROVE Frozen /\ Unlost
<1>1. ckpt.calls \in Int
  BY Bounds DEF TypeOK, StoreTypeOK, Ckpts, Visits
<1> QED BY <1>1 DEF ExecutionInv, JobInv, WaitingAtTheGate, Frozen, Unlost

LEMMA CheckpointStep ==
    ASSUME TypeOK, ExecutionInv, WorkerNext PROVE Frozen /\ Unlost
<1>t. ckpt \in Ckpts /\ ckpt.calls \in Int /\ JobInv
  BY Bounds DEF TypeOK, StoreTypeOK, Ckpts, Visits, ExecutionInv
<1>1. ASSUME NEW w \in Workers, Admit(w) PROVE Frozen /\ Unlost
  <2>1. ~row.completed /\ (task[w].input = "new" => ckpt.node = "absent")
    BY <1>1 DEF Admit, ExecutionInv, WorkerInv, Advancing
  <2>2. ckpt' = ckpt \/ task[w].input = "new"
    BY <1>1 DEF Admit
  <2> QED BY <2>1, <2>2, SameCheckpoint DEF Frozen, Unlost
<1>2. ASSUME NEW w \in Workers, Work(w) PROVE Frozen /\ Unlost
  <2>1. ~row.completed
    BY <1>2 DEF Work, ExecutionInv, WorkerInv, Advancing
  <2>2. ckpt'.calls \in {ckpt.calls, ckpt.calls + 1}
        /\ ckpt'.node \in {"work", "human_gate", "finalize"}
    <3>1. CASE \/ ckpt' = [ckpt EXCEPT !.calls = @ + 1, !.pending = "none"]
               \/ ckpt' = [ckpt EXCEPT !.calls = @ + 1, !.pending = "none",
                                       !.node = "human_gate"]
               \/ ckpt' = [ckpt EXCEPT !.calls = @ + 1, !.pending = "none",
                                       !.node = "human_gate", !.cited = FALSE]
      <4>1. ckpt.node = "work"
        BY <1>2 DEF Work
      <4> QED BY <1>t, <3>1, <4>1 DEF Ckpts
    <3>2. ASSUME NEW next \in {"work", "finalize"}, NEW spent \in {0, 1},
                 ckpt' = [ckpt EXCEPT !.calls = @ + spent, !.pending = "none", !.node = next,
                                      !.status = "failed", !.reason = "graph"]
          PROVE  ckpt'.calls = ckpt.calls + spent /\ ckpt'.node = next
      BY <1>t, <3>2 DEF Ckpts
    <3>3. CASE ckpt' = [ckpt EXCEPT !.node = "finalize", !.pending = "none"]
      BY <1>t, <3>3 DEF Ckpts
    <3>4. ASSUME NEW next \in {"work", "finalize"}, NEW spent \in {0, 1},
                 ckpt'.calls = ckpt.calls + spent /\ ckpt'.node = next
          PROVE  /\ ckpt'.calls \in {ckpt.calls, ckpt.calls + 1}
                 /\ ckpt'.node \in {"work", "human_gate", "finalize"}
      BY <1>t, <3>4
    <3> QED BY <1>2, <3>1, <3>2, <3>3, <3>4 DEF Work
  <2> QED BY <1>t, <2>1, <2>2 DEF Frozen, Unlost
<1>3. ASSUME NEW w \in Workers, Interrupt(w) \/ Answer(w) PROVE Frozen /\ Unlost
  <2>1. ~row.completed /\ ckpt.node = "human_gate"
    BY <1>3 DEF Interrupt, Answer, ExecutionInv, WorkerInv, Advancing
  <2>2. /\ ckpt'.calls = ckpt.calls
        /\ ckpt'.node \in {"human_gate", "export", "finalize", "work"}
    BY <1>3, <1>t, <2>1 DEF Interrupt, Answer, Ckpts
  <2> QED BY <1>t, <2>1, <2>2 DEF Frozen, Unlost
<1>4. ASSUME NEW w \in Workers, Commit(w) PROVE Frozen /\ Unlost
  <2>1. /\ ckpt'.calls = ckpt.calls /\ ckpt'.pending = "none"
        /\ ckpt'.node \in {"finalize", "end"}
    BY <1>4, <1>t DEF Commit, Ckpts
  <2> QED BY <1>t, <2>1 DEF Frozen, Unlost
<1>5. ASSUME NEW w \in Workers, NodeRaises(w) PROVE Frozen /\ Unlost
  <2>1. /\ ckpt'.calls = ckpt.calls /\ ckpt'.node = ckpt.node
        /\ ckpt'.pending = "interrupt" => ckpt.pending = "interrupt"
    BY <1>5, <1>t DEF NodeRaises, Ckpts
  <2> QED BY <1>t, <2>1 DEF JobInv, WaitingAtTheGate, Frozen, Unlost
<1>6. ASSUME NEW w \in Workers, FinaliseCheckpoint(w) PROVE Frozen /\ Unlost
  <2>1. \/ UNCHANGED ckpt
        \/ ckpt.node \in {"absent", "stub"} /\ FailAbsentCheckpoint(task[w].why)
        \/ FailCheckpoint(task[w].why)
    BY <1>6 DEF FinaliseCheckpoint
  <2>2. CASE ckpt.node \in {"absent", "stub"} /\ FailAbsentCheckpoint(task[w].why)
    BY <1>t, <2>2, FailAbsentCheckpointEffect DEF JobInv, Frozen, Unlost
  <2>3. CASE FailCheckpoint(task[w].why)
    BY <1>t, <2>3, FailCheckpointEffect DEF Frozen, Unlost
  <2> QED BY <2>1, <2>2, <2>3, SameCheckpoint
<1>7. \/ UNCHANGED ckpt
      \/ \E w \in Workers : \/ Admit(w) \/ Work(w) \/ Interrupt(w) \/ Answer(w) \/ Commit(w)
                            \/ NodeRaises(w) \/ FinaliseCheckpoint(w)
  BY DEF WorkerNext, Run, Receive, Received, WaitForLock, ReadJob, StartJob, ReadDecision,
         OpenGate, ExportGate, PutReport, StampExport, Finalize, NothingPending, AfterNode,
         CheckGateRow, RepairGateRow, RereadGateRow, FinaliseRow, ReconcileStatus, Unlock,
         Acknowledge, Fallback, LoseOwnership, RequestShutdown, Restart, Crash, ExpireDelivery,
         RedriveMessage, Redrive, storeVars
<1> QED BY <1>1, <1>2, <1>3, <1>4, <1>5, <1>6, <1>7, SameCheckpoint

LEMMA OthersKeepTheCheckpoint == ASSUME ApiNext \/ OpNext PROVE UNCHANGED ckpt
BY DEF ApiNext, Submit, EnqueueStart, SubmitCrash, Handle, ReadRow, ReadVisit, ReadRecorded,
       Claim, Record, EnqueueResume, RequestDies, storeVars,
       OpNext, Operate, ReadDeadLetters, TakeLetter, Reexport, SelectCandidate, Inspect, Apply,
       RequeueFails, Note, ReachVerdict, Resend, Discard, ReexportPut, ReexportStamp, OperatorDies

LEMMA NextCheckpoint == TypeOK /\ ExecutionInv /\ [Next]_vars => Frozen /\ Unlost
<1> SUFFICES ASSUME TypeOK, ExecutionInv, [Next]_vars PROVE Frozen /\ Unlost
  OBVIOUS
<1>1. CASE UNCHANGED vars
  BY <1>1, SameCheckpoint DEF vars, storeVars
<1> QED BY <1>1, CheckpointStep, OthersKeepTheCheckpoint, SameCheckpoint
       DEF Next, WorkerStep, ApiStep, OpStep

(* A delivery of a finished job spends no call and reaches no gate.                           *)
THEOREM FinishedSpendsNothing == Spec => SpendsNothingWhenFinished
<1>1. TypeOK /\ ExecutionInv /\ [Next]_vars =>
        [row.completed => ckpt'.calls = ckpt.calls /\ ckpt'.pending # "interrupt"]_vars
  BY NextCheckpoint DEF Frozen
<1> QED BY <1>1, Invariants, PTL DEF Spec, SpendsNothingWhenFinished

(* A checkpoint, once there, is never replaced by an empty one, whoever redelivers, requeues  *)
(* or replays the start message.                                                              *)
THEOREM NoRestart == Spec => NeverRestarted
<1>1. TypeOK /\ ExecutionInv /\ [Next]_vars =>
        [ckpt.node \notin {"absent", "stub"} =>
            ckpt'.node \notin {"absent", "stub"} /\ ckpt'.calls >= ckpt.calls]_vars
  BY NextCheckpoint DEF Unlost
<1> QED BY <1>1, Invariants, PTL DEF Spec, NeverRestarted

-----------------------------------------------------------------------------
(* Reviewer edits.                                                         *)

(* Between the budget check and the record, the request remembers a visit it was checked for. *)
CheckedEdits ==
    \A r \in Reviewers : req[r].at \in {"claim", "record"} /\ req[r].decision = "edit" =>
        MaxCalls - req[r].visit >= EditCost

LEMMA EditsFrame ==
    ASSUME EditsFit, CheckedEdits, UNCHANGED <<trail, req>> PROVE EditsFit' /\ CheckedEdits'
BY DEF EditsFit, CheckedEdits

LEMMA RecordDecisionOnly ==
    ASSUME TypeOK, NEW v \in Visits, NEW d \in Decisions, RecordDecision(v, d)
    PROVE  \A u \in Visits : trail'.decided[u] = trail.decided[u] \/ (u = v /\ trail'.decided[u] = d)
BY DEF RecordDecision, TypeOK, StoreTypeOK, Trails

LEMMA OtherTrails ==
    ASSUME TypeOK, WorkerNext \/ OpNext
    PROVE  trail'.decided = trail.decided
<1>t. trail \in Trails
  BY DEF TypeOK, StoreTypeOK
<1>1. ASSUME NEW s, FinishJob(s) PROVE trail'.decided = trail.decided
  BY <1>t, <1>1 DEF FinishJob, Trails
<1>2. ASSUME NEW v, RecordGateOpened(v) PROVE trail'.decided = trail.decided
  BY <1>t, <1>2 DEF RecordGateOpened, Trails, dbVars
<1>3. ASSUME NEW w \in Workers, OpenGate(w) \/ Finalize(w) \/ FinaliseRow(w)
      PROVE  trail'.decided = trail.decided
  BY <1>1, <1>2, <1>3 DEF OpenGate, Finalize, FinaliseRow, dbVars
<1>4. ASSUME NEW o \in Operators, Apply(o) PROVE trail'.decided = trail.decided
  BY <1>1, <1>4 DEF Apply, dbVars
<1>5. \/ UNCHANGED trail
      \/ \E w \in Workers : OpenGate(w) \/ Finalize(w) \/ FinaliseRow(w)
      \/ \E o \in Operators : Apply(o)
  <2>1. WorkerNext =>
          UNCHANGED trail \/ \E w \in Workers : OpenGate(w) \/ Finalize(w) \/ FinaliseRow(w)
    BY DEF WorkerNext, Run, Receive, Received, WaitForLock, ReadJob, StartJob, ReadDecision,
           Admit, Work, Interrupt, Answer, ExportGate, PutReport, StampExport, Commit,
           NothingPending, NodeRaises, AfterNode, CheckGateRow, RepairGateRow, RereadGateRow,
           FinaliseCheckpoint, ReconcileStatus, Unlock, Acknowledge, Fallback, LoseOwnership,
           RequestShutdown, Restart, Crash, ExpireDelivery, RedriveMessage, Redrive, storeVars
  <2>2. OpNext => UNCHANGED trail \/ \E o \in Operators : Apply(o)
    BY DEF OpNext, Operate, ReadDeadLetters, TakeLetter, Reexport, SelectCandidate, Inspect,
           RequeueFails, Note, ReachVerdict, Resend, Discard, ReexportPut, ReexportStamp,
           OperatorDies, storeVars
  <2> QED BY <2>1, <2>2
<1> QED BY <1>3, <1>4, <1>5

LEMMA StepEffect ==
    ASSUME TypeOK, NEW r \in Reviewers, NEW q, Step(r, q)
    PROVE  req'[r] = q /\ \A p \in Reviewers \ {r} : req'[p] = req[p]
BY DEF TypeOK, ApiTypeOK, Step

LEMMA RefuseEffect ==
    ASSUME TypeOK, NEW r \in Reviewers, Refuse(r)
    PROVE  req'[r].at = "closed" /\ \A p \in Reviewers \ {r} : req'[p] = req[p]
BY StepEffect DEF Refuse, Closed

LEMMA RequestFields ==
    ASSUME TypeOK, NEW r \in Reviewers, NEW at
    PROVE  LET q == [req[r] EXCEPT !.at = at]
           IN  q.at = at /\ q.decision = req[r].decision /\ q.visit = req[r].visit
<1>1. req[r] \in Requests
  BY DEF TypeOK, ApiTypeOK
<1> QED BY <1>1 DEF Requests

(* Every move of one request: away from the record, or towards it with the budget checked. *)
LEMMA CheckedEditsStep ==
    ASSUME TypeOK, CheckedEdits, NEW r \in Reviewers,
           \A p \in Reviewers \ {r} : req'[p] = req[p],
           \/ req'[r].at \notin {"claim", "record"}
           \/ req'[r].decision = "edit" => MaxCalls - req'[r].visit >= EditCost
    PROVE  CheckedEdits'
BY DEF CheckedEdits

LEMMA ApiEdits ==
    ASSUME TypeOK, EditsFit, CheckedEdits, ApiNext PROVE EditsFit' /\ CheckedEdits'
<1>0. \A r \in Reviewers : req[r] \in Requests
  BY DEF TypeOK, ApiTypeOK
<1>1. CASE Submit \/ EnqueueStart \/ SubmitCrash
  BY <1>1, EditsFrame DEF Submit, EnqueueStart, SubmitCrash
<1>2. ASSUME NEW r \in Reviewers, Record(r) PROVE EditsFit' /\ CheckedEdits'
  <2>1. req[r].at = "record" /\ req[r].visit \in Visits /\ req[r].decision \in Decisions
    BY <1>0, <1>2 DEF Record, Requests
  <2>2. RecordDecision(req[r].visit, req[r].decision) \/ UNCHANGED trail
    BY <1>2 DEF Record
  <2>3. EditsFit'
    BY <2>1, <2>2, RecordDecisionOnly DEF EditsFit, CheckedEdits
  <2>4. \/ Refuse(r)
        \/ Step(r, [req[r] EXCEPT !.at = "enqueue"])
    BY <1>2 DEF Record
  <2>5. /\ req'[r].at \notin {"claim", "record"}
        /\ \A p \in Reviewers \ {r} : req'[p] = req[p]
    <3>1. CASE Step(r, [req[r] EXCEPT !.at = "enqueue"])
      <4>1. req'[r] = [req[r] EXCEPT !.at = "enqueue"]
        BY <3>1, StepEffect
      <4>2. req'[r].at = "enqueue"
        BY <4>1, RequestFields
      <4> QED BY <3>1, <4>2, StepEffect
    <3> QED BY <2>4, <3>1, RefuseEffect
  <2> QED BY <2>3, <2>5, CheckedEditsStep
<1>3. ASSUME NEW r \in Reviewers, Claim(r) PROVE EditsFit' /\ CheckedEdits'
  <2>1. req[r].at = "claim" /\ UNCHANGED trail
    BY <1>3 DEF Claim
  <2>2. Refuse(r) \/ Step(r, [req[r] EXCEPT !.at = "record"])
    BY <1>3 DEF Claim
  <2>3. CASE Step(r, [req[r] EXCEPT !.at = "record"])
    <3>1. req'[r] = [req[r] EXCEPT !.at = "record"] /\ \A p \in Reviewers \ {r} : req'[p] = req[p]
      BY <2>3, StepEffect
    <3>2. req'[r].decision = req[r].decision /\ req'[r].visit = req[r].visit
      BY <3>1, RequestFields
    <3>3. req'[r].decision = "edit" => MaxCalls - req'[r].visit >= EditCost
      BY <2>1, <3>2 DEF CheckedEdits
    <3> QED BY <2>1, <3>1, <3>3, CheckedEditsStep DEF EditsFit
  <2> QED BY <2>1, <2>2, <2>3, RefuseEffect, CheckedEditsStep DEF EditsFit
<1>4. ASSUME NEW r \in Reviewers, ReadRecorded(r) PROVE EditsFit' /\ CheckedEdits'
  <2>1. UNCHANGED trail
    BY <1>4 DEF ReadRecorded, storeVars
  <2>2. \/ Refuse(r) \/ Step(r, [req[r] EXCEPT !.at = "enqueue"])
        \/ /\ Step(r, [req[r] EXCEPT !.at = "claim"])
           /\ req[r].decision = "edit" => Affordable(req[r].visit)
    BY <1>4 DEF ReadRecorded
  <2>3. CASE Step(r, [req[r] EXCEPT !.at = "enqueue"])
    <3>1. req'[r] = [req[r] EXCEPT !.at = "enqueue"] /\ \A p \in Reviewers \ {r} : req'[p] = req[p]
      BY <2>3, StepEffect
    <3>2. req'[r].at = "enqueue"
      BY <3>1, RequestFields
    <3> QED BY <2>1, <3>1, <3>2, CheckedEditsStep DEF EditsFit
  <2>4. CASE /\ Step(r, [req[r] EXCEPT !.at = "claim"])
             /\ req[r].decision = "edit" => Affordable(req[r].visit)
    <3>1. req'[r] = [req[r] EXCEPT !.at = "claim"] /\ \A p \in Reviewers \ {r} : req'[p] = req[p]
      BY <2>4, StepEffect
    <3>2. req'[r].decision = req[r].decision /\ req'[r].visit = req[r].visit
      BY <3>1, RequestFields
    <3>3. req'[r].decision = "edit" => MaxCalls - req'[r].visit >= EditCost
      BY <2>4, <3>2 DEF Affordable
    <3> QED BY <2>1, <3>1, <3>3, CheckedEditsStep DEF EditsFit
  <2> QED BY <2>1, <2>2, <2>3, <2>4, RefuseEffect, CheckedEditsStep DEF EditsFit
<1>5. ASSUME NEW r \in Reviewers, ReadRow(r) PROVE EditsFit' /\ CheckedEdits'
  <2>1. UNCHANGED trail
    BY <1>5 DEF ReadRow, storeVars
  <2>2. Refuse(r) \/ \E d \in Decisions :
             Step(r, [at |-> "visit", decision |-> d, saw |-> row.status, visit |-> 0])
    BY <1>5 DEF ReadRow
  <2>3. ASSUME NEW q, q.at = "visit", Step(r, q) PROVE CheckedEdits'
    BY <2>3, StepEffect, CheckedEditsStep
  <2> QED BY <2>1, <2>2, <2>3, RefuseEffect, CheckedEditsStep DEF EditsFit
<1>6. ASSUME NEW r \in Reviewers, ReadVisit(r) PROVE EditsFit' /\ CheckedEdits'
  <2>1. UNCHANGED trail /\ Step(r, [req[r] EXCEPT !.at = "recorded", !.visit = ckpt.calls])
    BY <1>6 DEF ReadVisit, storeVars
  <2>2. [req[r] EXCEPT !.at = "recorded", !.visit = ckpt.calls].at = "recorded"
    BY <1>0 DEF Requests
  <2> QED BY <2>1, <2>2, StepEffect, CheckedEditsStep DEF EditsFit
<1>7. ASSUME NEW r \in Reviewers, EnqueueResume(r) \/ RequestDies(r)
      PROVE  EditsFit' /\ CheckedEdits'
  <2>1. UNCHANGED trail /\ Refuse(r)
    BY <1>7 DEF EnqueueResume, RequestDies
  <2> QED BY <2>1, RefuseEffect, CheckedEditsStep DEF EditsFit
<1> QED BY <1>1, <1>2, <1>3, <1>4, <1>5, <1>6, <1>7 DEF ApiNext, Handle

(* A recorded edit has the calls it needs, for every budget, cost and number of reviewers.    *)
THEOREM EditsHaveTheirCalls == Spec => []EditsFit
<1>1. Init => EditsFit /\ CheckedEdits
  <2>1. Undecided # "edit" /\ "closed" \notin {"claim", "record"}
    BY DEF Undecided
  <2> QED BY <2>1 DEF Init, StoreInit, ApiInit, Closed, EditsFit, CheckedEdits
<1>2. TypeOK /\ EditsFit /\ CheckedEdits /\ [Next]_vars => (EditsFit /\ CheckedEdits)'
  <2> SUFFICES ASSUME TypeOK, EditsFit, CheckedEdits, [Next]_vars
               PROVE  (EditsFit /\ CheckedEdits)'
    OBVIOUS
  <2>1. CASE UNCHANGED vars
    BY <2>1, EditsFrame DEF vars, storeVars, apiVars
  <2>2. CASE WorkerStep(WorkerNext) \/ OpStep(OpNext)
    BY <2>2, OtherTrails DEF WorkerStep, OpStep, apiVars, EditsFit, CheckedEdits
  <2>3. CASE ApiStep(ApiNext)
    BY <2>3, ApiEdits DEF ApiStep
  <2> QED BY <2>1, <2>2, <2>3 DEF Next
<1> QED BY <1>1, <1>2, TypeCorrectness, PTL DEF Spec
=============================================================================
