------------------------- MODULE JobSystem_contract -------------------------
(***************************************************************************)
(* What was approved, stored and told: an approved job was approved by a   *)
(* reviewer and has its report in the bucket, and the whole system keeps   *)
(* the job's contract - for every number of processes and every bound.     *)
(***************************************************************************)
EXTENDS JobSystem_proofs

-----------------------------------------------------------------------------
(* The strengthening.  A draft leaves the gate for export only with the approval on record at *)
(* the visit the graph is at, and from there on no call moves the graph off that visit.       *)

Approved == ckpt.calls \in trail.opened /\ trail.decided[ckpt.calls] = "approve"

Was(d) == \E v \in trail.opened : trail.decided[v] = d

StoreInv ==
    /\ ckpt.node = "export" => Approved
    /\ row.report => Approved /\ ckpt.cited /\ ckpt.node \in {"export", "finalize", "end"}
    /\ artifact => row.report
    /\ row.exported => artifact
    /\ row.status = "approved" => row.exported
    /\ ckpt.status = "approved" => row.exported
    /\ ckpt.status = "rejected" => Was("reject")

WorkerFacts(w) ==
    /\ pc[w] = "opened" => ckpt.calls \in trail.opened
    /\ pc[w] = "put" => row.report
    /\ pc[w] = "stamp" => artifact
    /\ pc[w] = "commit" /\ task[w].outcome = "approved" => row.exported
    /\ pc[w] = "commit" /\ task[w].outcome = "rejected" => Was("reject")

OperatorFacts(o) ==
    /\ op[o].at = "reput" => row.report
    /\ op[o].at = "restamp" => artifact

(* Before the row exists nothing else does. *)
Unsubmitted ==
    row.status = "none" =>
        /\ queue = <<>> /\ dlq = {} /\ submission = "none" /\ ~row.report /\ ~row.completed
        /\ \A w \in Workers : pc[w] = "idle"
        /\ \A o \in Operators : op[o].at = "idle"
        /\ \A r \in Reviewers : req[r].at = "closed"

ReportInv ==
    /\ StoreInv /\ Unsubmitted
    /\ \A w \in Workers : WorkerFacts(w)
    /\ \A o \in Operators : OperatorFacts(o)

-----------------------------------------------------------------------------
(* What no step takes back: a stored body, a stamp, an object, an opening, a decision.        *)

Grows ==
    /\ row.report => row'.report
    /\ row.exported => row'.exported
    /\ artifact => artifact'
    /\ trail.opened \subseteq trail'.opened
    /\ DecisionsStand

(* The fields of the row that a change of status leaves alone. *)
SameReport == row'.report = row.report /\ row'.exported = row.exported

LEMMA StatusEffects ==
    ASSUME TypeOK, NEW s, SetJobStatus(s) \/ FinishJob(s) \/ RecordGateOpened(s)
                          \/ ClaimGate \/ CreateJob
    PROVE  SameReport
BY DEF TypeOK, StoreTypeOK, Rows, SetJobStatus, FinishJob, RecordGateOpened, ClaimGate, CreateJob,
       dbVars, SameReport

LEMMA TrailEffects ==
    ASSUME TypeOK, NEW s, NEW d,
           FinishJob(s) \/ RecordGateOpened(s) \/ RecordDecision(s, d) \/ UNCHANGED trail
    PROVE  trail.opened \subseteq trail'.opened
BY DEF TypeOK, StoreTypeOK, Trails, FinishJob, RecordGateOpened, RecordDecision, dbVars

LEMMA StatusOnlyGrows ==
    ASSUME SameReport, artifact' = artifact, DecisionsStand, trail.opened \subseteq trail'.opened
    PROVE  Grows
BY DEF SameReport, Grows

LEMMA WorkerGrows == ASSUME TypeOK, WorkerNext PROVE Grows
<1>t. row \in Rows
  BY DEF TypeOK, StoreTypeOK
<1>1. DecisionsStand
  BY OtherTrails DEF DecisionsStand
<1>2. ASSUME NEW w \in Workers, ExportGate(w) \/ StampExport(w) PROVE Grows
  <2>1. (row'.report = row.report \/ row'.report) /\ (row'.exported = row.exported \/ row'.exported)
    BY <1>t, <1>2 DEF ExportGate, StampExport, Rows
  <2>2. UNCHANGED <<trail, artifact>>
    BY <1>2 DEF ExportGate, StampExport
  <2> QED BY <1>1, <2>1, <2>2 DEF Grows
<1>3. ASSUME NEW w \in Workers, PutReport(w) PROVE Grows
  <2>1. UNCHANGED <<row, trail>> /\ artifact' \in {artifact, TRUE}
    BY <1>3 DEF PutReport
  <2>2. artifact => artifact'
    BY <2>1, Zenon
  <2> QED BY <1>1, <2>1, <2>2 DEF Grows
<1>4. ASSUME NEW w \in Workers,
             StartJob(w) \/ RepairGateRow(w) \/ ReconcileStatus(w)
      PROVE  Grows
  <2>1. UNCHANGED <<trail, artifact>>
        /\ (UNCHANGED row \/ SetJobStatus("running") \/ SetJobStatus(Projection))
    BY <1>4 DEF StartJob, RepairGateRow, ReconcileStatus
  <2>2. SameReport
    BY <2>1, StatusEffects DEF SameReport
  <2> QED BY <1>1, <2>1, <2>2, StatusOnlyGrows
<1>5. ASSUME NEW w \in Workers, OpenGate(w) \/ Finalize(w) \/ FinaliseRow(w) PROVE Grows
  <2>1. artifact' = artifact
        /\ \/ UNCHANGED dbVars
           \/ \E s : FinishJob(s) \/ RecordGateOpened(s)
    BY <1>5 DEF OpenGate, Finalize, FinaliseRow
  <2>2. SameReport /\ trail.opened \subseteq trail'.opened
    BY <2>1, StatusEffects, TrailEffects DEF SameReport, dbVars
  <2> QED BY <1>1, <2>1, <2>2, StatusOnlyGrows
<1>6. \/ UNCHANGED <<row, trail, artifact>>
      \/ \E w \in Workers : \/ ExportGate(w) \/ StampExport(w) \/ PutReport(w)
                            \/ StartJob(w) \/ RepairGateRow(w) \/ ReconcileStatus(w)
                            \/ OpenGate(w) \/ Finalize(w) \/ FinaliseRow(w)
  <2>1. ASSUME NEW w \in Workers, Run(w)
        PROVE  \/ UNCHANGED <<row, trail, artifact>>
               \/ ExportGate(w) \/ StampExport(w) \/ PutReport(w)
               \/ StartJob(w) \/ RepairGateRow(w) \/ ReconcileStatus(w)
               \/ OpenGate(w) \/ Finalize(w) \/ FinaliseRow(w)
    BY <2>1 DEF Run, Received, WaitForLock, ReadJob, ReadDecision, Admit, Work, Interrupt,
           Answer, Commit, NothingPending, NodeRaises, AfterNode, CheckGateRow, RereadGateRow,
           FinaliseCheckpoint, Unlock, Acknowledge, Fallback
  <2>2. WorkerNext => UNCHANGED <<row, trail, artifact>> \/ \E w \in Workers : Run(w)
    BY DEF WorkerNext, Receive, LoseOwnership, RequestShutdown, Restart, Crash, ExpireDelivery,
           RedriveMessage, Redrive, storeVars
  <2> QED BY <2>1, <2>2
<1> QED BY <1>1, <1>2, <1>3, <1>4, <1>5, <1>6 DEF Grows

LEMMA ApiGrows == ASSUME TypeOK, ApiNext PROVE Grows
<1>1. CASE Submit
  <2>1. SameReport
    BY <1>1, StatusEffects DEF Submit
  <2> QED BY <1>1, <2>1, SameTrail, StatusOnlyGrows DEF Submit
<1>2. ASSUME NEW r \in Reviewers, Claim(r) PROVE Grows
  <2>1. SameReport
    BY <1>2, StatusEffects DEF Claim
  <2> QED BY <1>2, <2>1, SameTrail, StatusOnlyGrows DEF Claim
<1>3. ASSUME NEW r \in Reviewers, Record(r) PROVE Grows
  <2>1. req[r].visit \in Visits /\ req[r].decision \in Decisions
    BY DEF TypeOK, ApiTypeOK, Requests
  <2> QED BY <1>3, <2>1, SameTrail, RecordDecisionEffect, TrailEffects DEF Record, Grows
<1>4. \/ UNCHANGED <<row, trail, artifact>>
      \/ Submit \/ \E r \in Reviewers : Claim(r) \/ Record(r)
  BY DEF ApiNext, EnqueueStart, SubmitCrash, Handle, ReadRow, ReadVisit, ReadRecorded,
         EnqueueResume, RequestDies, storeVars
<1> QED BY <1>1, <1>2, <1>3, <1>4, SameTrail DEF Grows

LEMMA SweepGrows == ASSUME TypeOK, OpNext PROVE Grows
<1>t. row \in Rows
  BY DEF TypeOK, StoreTypeOK
<1>1. DecisionsStand
  BY OtherTrails DEF DecisionsStand
<1>2. ASSUME NEW o \in Operators, Apply(o) PROVE Grows
  <2>1. artifact' = artifact
        /\ \/ UNCHANGED dbVars \/ (SetJobStatus("awaiting_approval") /\ UNCHANGED trail)
           \/ \E s : FinishJob(s)
    BY <1>2 DEF Apply
  <2>2. SameReport /\ trail.opened \subseteq trail'.opened
    BY <2>1, StatusEffects, TrailEffects DEF SameReport, dbVars
  <2> QED BY <1>1, <2>1, <2>2, StatusOnlyGrows
<1>3. ASSUME NEW o \in Operators, ReexportPut(o) \/ ReexportStamp(o) PROVE Grows
  <2>1. CASE ReexportPut(o)
    <3>1. UNCHANGED <<row, trail>> /\ artifact' \in {artifact, TRUE}
      BY <2>1 DEF ReexportPut
    <3>2. artifact => artifact'
      BY <3>1, Zenon
    <3> QED BY <1>1, <3>1, <3>2 DEF Grows
  <2>2. CASE ReexportStamp(o)
    <3>1. row'.report = row.report /\ row'.exported /\ UNCHANGED <<trail, artifact>>
      BY <1>t, <2>2 DEF ReexportStamp, Rows
    <3> QED BY <1>1, <3>1 DEF Grows
  <2> QED BY <1>3, <2>1, <2>2
<1>4. \/ UNCHANGED <<row, trail, artifact>>
      \/ \E o \in Operators : Apply(o) \/ ReexportPut(o) \/ ReexportStamp(o)
  BY DEF OpNext, Operate, ReadDeadLetters, TakeLetter, Reexport, SelectCandidate, Inspect,
         RequeueFails, Note, ReachVerdict, Resend, Discard, OperatorDies, storeVars
<1> QED BY <1>1, <1>2, <1>3, <1>4 DEF Grows

LEMMA WasStands == ASSUME TypeOK, Grows, NEW d \in Decisions, Was(d) PROVE Was(d)'
<1>1. PICK v \in trail.opened : trail.decided[v] = d
  BY DEF Was
<1>2. v \in Visits
  BY DEF TypeOK, StoreTypeOK, Trails
<1>3. v \in trail'.opened /\ trail'.decided[v] = d
  BY <1>1, <1>2, DecisionsDiffer DEF Grows, DecisionsStand
<1> QED BY <1>3 DEF Was

LEMMA ApprovedStands ==
    ASSUME TypeOK, Grows, Approved, ckpt'.calls = ckpt.calls PROVE Approved'
<1>1. ckpt.calls \in Visits /\ "approve" # Undecided
  BY DEF TypeOK, StoreTypeOK, Ckpts, Undecided
<1> QED BY <1>1 DEF Approved, Grows, DecisionsStand

-----------------------------------------------------------------------------
(* StoreInv under the steps that leave the checkpoint alone, ...                              *)

LEMMA StatusOnlyStore ==
    ASSUME TypeOK, StoreInv, Grows, SameReport, UNCHANGED <<ckpt, artifact>>,
           row'.status = "approved" => row.status = "approved" \/ ckpt.status = "approved"
    PROVE  StoreInv'
<1>1. Approved => Approved'
  BY ApprovedStands
<1>2. Was("reject") => Was("reject")'
  BY WasStands DEF Decisions
<1> QED BY <1>1, <1>2 DEF StoreInv, SameReport

LEMMA StatusNotApproved ==
    ASSUME TypeOK, NEW s, s # "approved",
           SetJobStatus(s) \/ ClaimGate \/ CreateJob \/ (\E v : RecordGateOpened(v)) \/ FinishJob(s)
    PROVE  row'.status = "approved" => row.status = "approved"
BY DEF TypeOK, StoreTypeOK, Rows, SetJobStatus, ClaimGate, CreateJob, RecordGateOpened, FinishJob,
       dbVars

LEMMA FinishJobStatus ==
    ASSUME TypeOK, NEW s, FinishJob(s) PROVE row'.status = s
BY FinishJobEffect

(* ... and under a checkpoint, while the row, the trail and the object stand.                 *)
LEMMA CheckpointStore ==
    ASSUME TypeOK, StoreInv, UNCHANGED <<row, trail, artifact>>,
           \/ ckpt.node \notin {"export", "finalize", "end"}
           \/ /\ ckpt'.calls = ckpt.calls /\ ckpt'.cited = ckpt.cited
              /\ ckpt'.node \in {"export", "finalize", "end"},
           ckpt'.node = "export" => Approved',
           ckpt'.status = "approved" => row.exported,
           ckpt'.status = "rejected" => Was("reject")
    PROVE  StoreInv'
<1>1. Was("reject") => Was("reject")'
  BY DEF Was
<1>2. CASE ckpt.node \notin {"export", "finalize", "end"}
  <2>1. ~row.report /\ ~artifact /\ ~row.exported /\ row.status # "approved"
    BY <1>2 DEF StoreInv
  <2> QED BY <1>1, <2>1 DEF StoreInv
<1>3. CASE /\ ckpt'.calls = ckpt.calls /\ ckpt'.cited = ckpt.cited
           /\ ckpt'.node \in {"export", "finalize", "end"}
  <2>1. Approved => Approved'
    BY <1>3 DEF Approved
  <2> QED BY <1>1, <1>3, <2>1 DEF StoreInv
<1> QED BY <1>2, <1>3

LEMMA CheckpointSteps ==
    ASSUME TypeOK, ExecutionInv, ReportInv, NEW w \in Workers,
           \/ Admit(w) \/ Work(w) \/ Interrupt(w) \/ Answer(w) \/ Commit(w) \/ NodeRaises(w)
           \/ FinaliseCheckpoint(w)
    PROVE  StoreInv'
<1>0. StoreInv /\ WorkerFacts(w) /\ WorkerInv(w) /\ ckpt \in Ckpts
  BY DEF ReportInv, ExecutionInv, TypeOK, StoreTypeOK
<1>s. UNCHANGED <<row, trail, artifact>>
  BY DEF Admit, Work, Interrupt, Answer, Commit, NodeRaises, FinaliseCheckpoint
<1>u. ckpt' = ckpt => StoreInv'
  BY <1>0, <1>s DEF StoreInv, Approved, Was
<1>1. CASE Admit(w)
  <2>1. ckpt' = ckpt \/ (task[w].input = "new" /\ ckpt' = [NoCheckpoint EXCEPT !.node = "work"])
    BY <1>1 DEF Admit
  <2>2. CASE task[w].input = "new" /\ ckpt' = [NoCheckpoint EXCEPT !.node = "work"]
    <3>1. ckpt.node = "absent"
      BY <1>0, <1>1, <2>2 DEF Admit, WorkerInv
    <3>2. ckpt'.node = "work" /\ ckpt'.status = "running"
      BY <2>2 DEF NoCheckpoint
    <3> QED BY <1>0, <1>s, <3>1, <3>2, CheckpointStore
  <2> QED BY <1>u, <2>1, <2>2
<1>2. CASE Work(w)
  <2>1. ckpt.node = "work"
    BY <1>2 DEF Work
  <2>2. ckpt'.node \in {"work", "human_gate", "finalize"} /\ ckpt'.status \in {ckpt.status, "failed"}
    BY <1>0, <1>2, <2>1 DEF Work, Ckpts
  <2>3. ckpt'.status = "approved" => row.exported
    BY <1>0, <2>2 DEF StoreInv
  <2>4. ckpt'.status = "rejected" => Was("reject")
    BY <1>0, <2>2 DEF StoreInv
  <2> QED BY <1>0, <1>s, <2>1, <2>2, <2>3, <2>4, CheckpointStore
<1>3. CASE Interrupt(w) \/ NodeRaises(w)
  <2>1. /\ ckpt'.node = ckpt.node /\ ckpt'.calls = ckpt.calls /\ ckpt'.cited = ckpt.cited
        /\ ckpt'.status = ckpt.status
    BY <1>0, <1>3 DEF Interrupt, NodeRaises, Ckpts
  <2>2. Approved => Approved'
    BY <1>s, <2>1 DEF Approved
  <2> QED BY <1>0, <1>s, <2>1, <2>2 DEF StoreInv, Was
<1>4. CASE Answer(w)
  <2>1. /\ ckpt.node = "human_gate" /\ ckpt.calls \in trail.opened
        /\ task[w].input \in Decisions => trail.decided[ckpt.calls] = task[w].input
    BY <1>0, <1>4 DEF Answer, WorkerInv, WorkerFacts
  <2>2. ckpt'.calls = ckpt.calls
    BY <1>0, <1>4 DEF Answer, Ckpts
  <2>3. CASE task[w].input = "approve" /\ ckpt' = [ckpt EXCEPT !.pending = "none", !.node = "export"]
    <3>1. Approved' /\ ckpt'.status = ckpt.status
      BY <1>0, <1>s, <2>1, <2>2, <2>3 DEF Approved, Decisions, Ckpts
    <3> QED BY <1>0, <1>s, <2>1, <3>1, CheckpointStore DEF StoreInv
  <2>4. CASE task[w].input = "reject" /\ ckpt' = [ckpt EXCEPT !.pending = "none",
                                            !.node = "finalize", !.status = "rejected"]
    <3>1. Was("reject") /\ ckpt'.node = "finalize" /\ ckpt'.status = "rejected"
      BY <1>0, <2>1, <2>4 DEF Was, Decisions, Ckpts
    <3> QED BY <1>0, <1>s, <2>1, <3>1, CheckpointStore
  <2>5. CASE ckpt' = [ckpt EXCEPT !.pending = "none", !.node = "work", !.cited = TRUE]
    <3>1. ckpt'.node = "work" /\ ckpt'.status = ckpt.status
      BY <1>0, <2>5 DEF Ckpts
    <3> QED BY <1>0, <1>s, <2>1, <3>1, CheckpointStore DEF StoreInv
  <2> QED BY <1>4, <2>3, <2>4, <2>5 DEF Answer
<1>5. CASE Commit(w)
  <2>1. pc[w] = "commit" /\ ckpt.node \in {"export", "finalize"}
    BY <1>0, <1>5 DEF Commit, WorkerInv
  <2>2. /\ ckpt'.node \in {"finalize", "end"} /\ ckpt'.calls = ckpt.calls
        /\ ckpt'.cited = ckpt.cited /\ ckpt'.status = task[w].outcome
    BY <1>0, <1>5, <2>1 DEF Commit, Ckpts
  <2> QED BY <1>0, <1>s, <2>1, <2>2, CheckpointStore DEF WorkerFacts
<1>6. CASE FinaliseCheckpoint(w)
  <2>1. \/ ckpt' = ckpt
        \/ ckpt.node \in {"absent", "stub"} /\ FailAbsentCheckpoint(task[w].why)
        \/ FailCheckpoint(task[w].why)
    BY <1>6 DEF FinaliseCheckpoint
  <2>2. CASE ckpt.node \in {"absent", "stub"} /\ FailAbsentCheckpoint(task[w].why) /\ ckpt' # ckpt
    <3>1. ckpt'.node = "stub" /\ ckpt'.status = "failed"
      BY <2>2 DEF FailAbsentCheckpoint, NoCheckpoint
    <3> QED BY <1>0, <1>s, <2>2, <3>1, CheckpointStore
  <2>3. CASE FailCheckpoint(task[w].why)
    <3>1. /\ ckpt'.status = "failed" /\ ckpt'.calls = ckpt.calls /\ ckpt'.cited = ckpt.cited
          /\ ckpt'.node \in {ckpt.node, "end"}
      BY <1>0, <2>3 DEF FailCheckpoint, Ckpts
    <3>2. Approved => Approved'
      BY <1>s, <3>1 DEF Approved
    <3> QED BY <1>0, <1>s, <3>1, <3>2, CheckpointStore DEF StoreInv
  <2> QED BY <1>u, <2>1, <2>2, <2>3
<1> QED BY <1>1, <1>2, <1>3, <1>4, <1>5, <1>6

LEMMA SameStore == ASSUME StoreInv, UNCHANGED <<row, trail, ckpt, artifact>> PROVE StoreInv'
BY DEF StoreInv, Approved, Was

LEMMA WorkerStore ==
    ASSUME TypeOK, ExecutionInv, ReportInv, WorkerNext PROVE StoreInv'
<1>0. StoreInv /\ Grows /\ row \in Rows
  BY WorkerGrows DEF ReportInv, TypeOK, StoreTypeOK
<1>1. ASSUME NEW w \in Workers, ExportGate(w) PROVE StoreInv'
  <2>1. ckpt.node = "export" /\ UNCHANGED <<trail, ckpt, artifact>>
    BY <1>1 DEF ExportGate
  <2>2. row' = row \/ (ckpt.cited /\ row' = [row EXCEPT !.report = TRUE])
    BY <1>1 DEF ExportGate, CitationsResolve
  <2>3. row' = row \/ (ckpt.cited /\ row'.status = row.status /\ row'.exported = row.exported)
    BY <1>0, <2>2 DEF Rows
  <2>4. Approved /\ (Approved => Approved')
    BY <1>0, <2>1 DEF StoreInv, Approved
  <2> QED BY <1>0, <2>1, <2>3, <2>4, SameStore DEF StoreInv, Was, Grows
<1>2. ASSUME NEW w \in Workers, PutReport(w) PROVE StoreInv'
  <2>1. row.report /\ UNCHANGED <<row, trail, ckpt>>
    BY <1>2 DEF PutReport, ReportInv, WorkerFacts
  <2> QED BY <1>0, <2>1 DEF StoreInv, Approved, Was, Grows
<1>3. ASSUME NEW w \in Workers, StampExport(w) PROVE StoreInv'
  <2>1. artifact /\ UNCHANGED <<trail, ckpt, artifact>>
    BY <1>3 DEF StampExport, ReportInv, WorkerFacts
  <2>2. row'.report = row.report /\ row'.status = row.status
    BY <1>0, <1>3 DEF StampExport, Rows
  <2> QED BY <1>0, <2>1, <2>2 DEF StoreInv, Approved, Was, Grows
<1>4. ASSUME NEW w \in Workers,
             StartJob(w) \/ RepairGateRow(w) \/ ReconcileStatus(w) \/ OpenGate(w) \/ FinaliseRow(w)
      PROVE  StoreInv'
  <2>1. /\ UNCHANGED <<ckpt, artifact>>
        /\ \/ UNCHANGED row
           \/ \E s \in {"running", "awaiting_approval", "failed"} : SetJobStatus(s) \/ FinishJob(s)
           \/ \E v : RecordGateOpened(v)
    BY <1>4 DEF StartJob, RepairGateRow, ReconcileStatus, OpenGate, FinaliseRow, Projection, dbVars
  <2>2. SameReport /\ (row'.status = "approved" => row.status = "approved")
    BY <2>1, StatusEffects, StatusNotApproved DEF SameReport
  <2> QED BY <1>0, <2>1, <2>2, StatusOnlyStore
<1>5. ASSUME NEW w \in Workers, Finalize(w) PROVE StoreInv'
  <2>1. PICK s : FinishJob(s) /\ s = (IF ckpt.status \in Terminal THEN ckpt.status ELSE "failed")
    BY <1>5 DEF Finalize
  <2>2. SameReport /\ UNCHANGED <<ckpt, artifact>>
    BY <1>5, <2>1, StatusEffects DEF Finalize
  <2>3. row'.status = "approved" => ckpt.status = "approved"
    BY <2>1, FinishJobEffect
  <2> QED BY <1>0, <2>2, <2>3, StatusOnlyStore
<1>6. ASSUME NEW w \in Workers,
             \/ Admit(w) \/ Work(w) \/ Interrupt(w) \/ Answer(w) \/ Commit(w) \/ NodeRaises(w)
             \/ FinaliseCheckpoint(w)
      PROVE  StoreInv'
  BY <1>6, CheckpointSteps
<1>7. ASSUME NEW w \in Workers, Run(w)
      PROVE  \/ UNCHANGED <<row, trail, ckpt, artifact>>
             \/ ExportGate(w) \/ StampExport(w) \/ PutReport(w)
             \/ StartJob(w) \/ RepairGateRow(w) \/ ReconcileStatus(w)
             \/ OpenGate(w) \/ Finalize(w) \/ FinaliseRow(w)
             \/ Admit(w) \/ Work(w) \/ Interrupt(w) \/ Answer(w) \/ Commit(w) \/ NodeRaises(w)
             \/ FinaliseCheckpoint(w)
  BY <1>7 DEF Run, Received, WaitForLock, ReadJob, ReadDecision, NothingPending, AfterNode,
         CheckGateRow, RereadGateRow, Unlock, Acknowledge, Fallback
<1>8. WorkerNext => UNCHANGED <<row, trail, ckpt, artifact>> \/ \E w \in Workers : Run(w)
  BY DEF WorkerNext, Receive, LoseOwnership, RequestShutdown, Restart, Crash, ExpireDelivery,
         RedriveMessage, Redrive, storeVars
<1> QED BY <1>0, <1>1, <1>2, <1>3, <1>4, <1>5, <1>6, <1>7, <1>8, SameStore

LEMMA ApiStore == ASSUME TypeOK, ReportInv, ApiNext PROVE StoreInv'
<1>0. StoreInv /\ Grows
  BY ApiGrows DEF ReportInv
<1>1. CASE Submit \/ \E r \in Reviewers : Claim(r)
  <2>1. UNCHANGED <<ckpt, artifact>> /\ (CreateJob \/ ClaimGate)
    BY <1>1 DEF Submit, Claim
  <2>2. SameReport /\ (row'.status = "approved" => row.status = "approved")
    BY <2>1, StatusEffects, StatusNotApproved
  <2> QED BY <1>0, <2>1, <2>2, StatusOnlyStore
<1>2. \/ UNCHANGED <<row, ckpt, artifact>>
      \/ Submit \/ \E r \in Reviewers : Claim(r)
  BY DEF ApiNext, EnqueueStart, SubmitCrash, Handle, ReadRow, ReadVisit, ReadRecorded, Record,
         EnqueueResume, RequestDies, storeVars
<1>3. CASE UNCHANGED <<row, ckpt, artifact>>
  BY <1>0, <1>3, StatusOnlyStore DEF SameReport
<1> QED BY <1>1, <1>2, <1>3

LEMMA SweepStore == ASSUME TypeOK, ReportInv, OpNext PROVE StoreInv'
<1>0. StoreInv /\ Grows /\ row \in Rows
  BY SweepGrows DEF ReportInv, TypeOK, StoreTypeOK
<1>1. ASSUME NEW o \in Operators, Apply(o) PROVE StoreInv'
  <2>1. /\ UNCHANGED <<ckpt, artifact>>
        /\ \/ UNCHANGED row
           \/ SetJobStatus("awaiting_approval") \/ FinishJob("failed") \/ FinishJob(ckpt.status)
    BY <1>1 DEF Apply, dbVars
  <2>2. SameReport
    BY <2>1, StatusEffects DEF SameReport
  <2>3. row'.status = "approved" => row.status = "approved" \/ ckpt.status = "approved"
    BY <2>1, StatusNotApproved, FinishJobEffect
  <2> QED BY <1>0, <2>1, <2>2, <2>3, StatusOnlyStore
<1>2. ASSUME NEW o \in Operators, ReexportPut(o) PROVE StoreInv'
  <2>1. row.report /\ UNCHANGED <<row, trail, ckpt>>
    BY <1>2 DEF ReexportPut, ReportInv, OperatorFacts
  <2> QED BY <1>0, <2>1 DEF StoreInv, Approved, Was, Grows
<1>3. ASSUME NEW o \in Operators, ReexportStamp(o) PROVE StoreInv'
  <2>1. artifact /\ UNCHANGED <<trail, ckpt, artifact>>
    BY <1>3 DEF ReexportStamp, ReportInv, OperatorFacts
  <2>2. row'.report = row.report /\ row'.status = row.status
    BY <1>0, <1>3 DEF ReexportStamp, Rows
  <2> QED BY <1>0, <2>1, <2>2 DEF StoreInv, Approved, Was, Grows
<1>4. \/ UNCHANGED <<row, trail, ckpt, artifact>>
      \/ \E o \in Operators : Apply(o) \/ ReexportPut(o) \/ ReexportStamp(o)
  BY DEF OpNext, Operate, ReadDeadLetters, TakeLetter, Reexport, SelectCandidate, Inspect,
         RequeueFails, Note, ReachVerdict, Resend, Discard, OperatorDies, storeVars
<1> QED BY <1>0, <1>1, <1>2, <1>3, <1>4, SameStore

-----------------------------------------------------------------------------
(* What a process relies on, under the steps of the others and under its own.                 *)

LEMMA FactsStand ==
    ASSUME TypeOK, Grows, NEW v \in Workers, WorkerFacts(v), pc'[v] = pc[v],
           task'[v].outcome = task[v].outcome, pc[v] = "opened" => ckpt'.calls = ckpt.calls
    PROVE  WorkerFacts(v)'
<1>1. Was("reject") => Was("reject")'
  BY WasStands DEF Decisions
<1> QED BY <1>1 DEF WorkerFacts, Grows

LEMMA OtherFacts ==
    ASSUME TypeOK, ExecutionInv, Grows, NEW w \in Workers, \A v \in Workers : WorkerFacts(v),
           \A v \in Workers \ {w} : pc'[v] = pc[v] /\ task'[v] = task[v],
           ckpt' = ckpt \/ pc[w] \in Executing
    PROVE  \A v \in Workers \ {w} : WorkerFacts(v)'
<1> SUFFICES ASSUME NEW v \in Workers \ {w} PROVE WorkerFacts(v)'
  OBVIOUS
<1>1. pc[v] = "opened" => fence = v
  BY ExecutingLabels DEF ExecutionInv, WorkerInv
<1>2. pc[w] \in Executing => fence = w
  BY DEF ExecutionInv, WorkerInv
<1>3. pc[v] = "opened" => ckpt'.calls = ckpt.calls
  BY <1>1, <1>2
<1> QED BY <1>3, FactsStand

LEMMA Elsewhere ==
    ASSUME NEW w \in Workers, pc'[w] \notin {"opened", "put", "stamp", "commit"}
    PROVE  WorkerFacts(w)'
BY DEF WorkerFacts

LEMMA OwnFacts ==
    ASSUME TypeOK, ExecutionInv, ReportInv, NEW w \in Workers, Run(w), Grows
    PROVE  WorkerFacts(w)'
<1>0. StoreInv /\ WorkerFacts(w) /\ row \in Rows /\ ckpt.calls \in Visits
  BY DEF ReportInv, TypeOK, StoreTypeOK, Ckpts
<1>b. task[w].back \in {"unlock", "reconcile"} /\ task[w] \in Tasks
  BY DEF TypeOK, WorkerTypeOK, Tasks
<1>1. CASE OpenGate(w)
  <2>1. pc'[w] = "opened" /\ ckpt' = ckpt /\ RecordGateOpened(ckpt.calls)
    BY <1>1, EndingEffect DEF OpenGate
  <2>2. ckpt.calls \in trail'.opened
    BY <1>0, <2>1 DEF RecordGateOpened, TypeOK, StoreTypeOK, Trails, dbVars
  <2> QED BY <2>1, <2>2 DEF WorkerFacts
<1>2. CASE ExportGate(w)
  <2>1. \/ pc'[w] = "put" /\ row' = [row EXCEPT !.report = TRUE]
        \/ pc'[w] = "commit" /\ task'[w] = [task[w] EXCEPT !.outcome = "failed"]
    BY <1>2, EndingEffect, GoWithEffect DEF ExportGate
  <2>2. \/ pc'[w] = "put" /\ row'.report
        \/ pc'[w] = "commit" /\ task'[w].outcome = "failed"
    BY <1>0, <1>b, <2>1 DEF Rows, Tasks
  <2> QED BY <2>2 DEF WorkerFacts
<1>3. CASE PutReport(w)
  <2>1. \/ pc'[w] = "stamp" /\ artifact' = TRUE
        \/ pc'[w] = "commit" /\ task'[w] = [task[w] EXCEPT !.outcome = "failed"]
    BY <1>3, EndingEffect, GoWithEffect DEF PutReport
  <2>2. [task[w] EXCEPT !.outcome = "failed"].outcome = "failed"
    BY <1>b DEF Tasks
  <2>3. \/ pc'[w] = "stamp" /\ artifact' = TRUE
        \/ pc'[w] = "commit" /\ task'[w].outcome = "failed"
    BY <2>1, <2>2
  <2> QED BY <2>3 DEF WorkerFacts
<1>4. CASE StampExport(w)
  <2>1. /\ row' = [row EXCEPT !.exported = TRUE] /\ pc'[w] = "commit"
        /\ task'[w] = [task[w] EXCEPT !.outcome = "approved"]
    BY <1>4, GoWithEffect DEF StampExport
  <2>2. row'.exported /\ task'[w].outcome = "approved"
    BY <1>0, <1>b, <2>1 DEF Rows, Tasks
  <2> QED BY <2>1, <2>2 DEF WorkerFacts
<1>5. CASE Finalize(w)
  <2> DEFINE effective == IF ckpt.status \in Terminal THEN ckpt.status ELSE "failed"
  <2>1. pc'[w] = "commit" /\ task'[w] = [task[w] EXCEPT !.outcome = effective]
    BY <1>5, GoWithEffect DEF Finalize
  <2>2. task'[w].outcome = effective
    BY <1>b, <2>1 DEF Tasks
  <2>3. (effective = "approved" => row'.exported) /\ (effective = "rejected" => Was("reject"))
    BY <1>0 DEF StoreInv, Grows
  <2>4. Was("reject") => Was("reject")'
    BY WasStands DEF Decisions
  <2> QED BY <2>1, <2>2, <2>3, <2>4 DEF WorkerFacts
<1>6. ASSUME ~ (OpenGate(w) \/ ExportGate(w) \/ PutReport(w) \/ StampExport(w) \/ Finalize(w))
      PROVE  pc'[w] \notin {"opened", "put", "stamp", "commit"}
  <2>1. CASE \/ Received(w) \/ WaitForLock(w) \/ ReadJob(w) \/ StartJob(w) \/ ReadDecision(w)
             \/ Admit(w) \/ Work(w) \/ Interrupt(w) \/ Answer(w) \/ Commit(w)
             \/ NothingPending(w) \/ NodeRaises(w) \/ AfterNode(w)
    BY <2>1, EndingEffect, GoWithEffect
       DEF Received, WaitForLock, ReadJob, StartJob, ReadDecision, Admit, Work, Interrupt, Answer,
           Commit, NothingPending, NodeRaises, AfterNode
  <2>2. CASE CheckGateRow(w) \/ RereadGateRow(w)
    <3>1. pc'[w] \in {"regate", "unlock", "reconcile"}
      BY <2>2, EndingEffect DEF CheckGateRow, RereadGateRow, GateUsable
    <3> QED BY <3>1
  <2>3. CASE RepairGateRow(w) \/ FinaliseCheckpoint(w) \/ FinaliseRow(w) \/ ReconcileStatus(w)
    <3>1. RepairGateRow(w) \/ ReconcileStatus(w) =>
             pc'[w] \in {"reread", "unlock", "reconcile", "finalise"}
      BY EndingEffect DEF RepairGateRow, ReconcileStatus
    <3>2. FinaliseCheckpoint(w) \/ FinaliseRow(w) => pc'[w] \in {"unlock", "reconcile", "finish"}
      BY EndingEffect DEF FinaliseCheckpoint, FinaliseRow
    <3> QED BY <2>3, <3>1, <3>2
  <2>4. CASE Unlock(w) \/ Acknowledge(w) \/ Fallback(w)
    BY <2>4, EndingEffect, GoWithEffect DEF Unlock, Acknowledge, Fallback
  <2> QED BY <1>6, <2>1, <2>2, <2>3, <2>4 DEF Run
<1> QED BY <1>1, <1>2, <1>3, <1>4, <1>5, <1>6, Elsewhere

LEMMA WorkerNextFacts ==
    ASSUME TypeOK, ExecutionInv, ReportInv, WorkerNext PROVE \A v \in Workers : WorkerFacts(v)'
<1>0. Grows /\ \A v \in Workers : WorkerFacts(v)
  BY WorkerGrows DEF ReportInv
<1>1. ASSUME NEW w \in Workers, Run(w) PROVE \A v \in Workers : WorkerFacts(v)'
  <2>1. PICK l \in Labels, t \in Tasks : GoWith(w, l, t)
    <3>1. Goes(w)
      BY <1>1, PollTypes, NodeTypes, EndingTypes DEF Run, TypeOK
    <3> QED BY <3>1 DEF Goes
  <2>2. \A v \in Workers \ {w} : pc'[v] = pc[v] /\ task'[v] = task[v]
    BY <2>1, GoWithEffect
  <2>3. ckpt' = ckpt \/ pc[w] \in Executing
    BY <1>1, ExecutingLabels
       DEF Run, Received, WaitForLock, ReadJob, StartJob, ReadDecision, Admit, Work, OpenGate,
           Interrupt, Answer, ExportGate, PutReport, StampExport, Finalize, Commit,
           NothingPending, NodeRaises, AfterNode, CheckGateRow, RepairGateRow, RereadGateRow,
           FinaliseCheckpoint, FinaliseRow, ReconcileStatus, Unlock, Acknowledge, Fallback, InNode
  <2> QED BY <1>0, <1>1, <2>2, <2>3, OtherFacts, OwnFacts
<1>2. ASSUME NEW w \in Workers, Receive(w) \/ Crash(w) PROVE \A v \in Workers : WorkerFacts(v)'
  <2>1. /\ pc'[w] \in {"received", "idle"} /\ ckpt' = ckpt
        /\ \A v \in Workers \ {w} : pc'[v] = pc[v] /\ task'[v] = task[v]
    BY <1>2, GoWithEffect DEF Receive, Crash, TypeOK, WorkerTypeOK
  <2> QED BY <1>0, <2>1, OtherFacts, Elsewhere
<1>3. ASSUME NEW w \in Workers, LoseOwnership(w) PROVE \A v \in Workers : WorkerFacts(v)'
  <2>1. UNCHANGED <<pc, ckpt>> /\ \A v \in Workers : task'[v].outcome = task[v].outcome
    <3>1. task' = [task EXCEPT ![w].lost = TRUE] /\ task \in [Workers -> Tasks]
      BY <1>3 DEF LoseOwnership, TypeOK, WorkerTypeOK
    <3>2. \A v \in Workers : task[v] \in Tasks
      BY <3>1
    <3>3. task'[w] = [task[w] EXCEPT !.lost = TRUE] /\ \A v \in Workers \ {w} : task'[v] = task[v]
      BY <3>1
    <3> QED BY <1>3, <3>2, <3>3 DEF LoseOwnership, Tasks
  <2> QED BY <1>0, <2>1, FactsStand
<1>4. CASE \/ ExpireDelivery \/ RedriveMessage
           \/ \E w \in Workers : RequestShutdown(w) \/ Restart(w)
  <2>1. UNCHANGED <<pc, task, ckpt>>
    BY <1>4 DEF ExpireDelivery, RedriveMessage, Redrive, RequestShutdown, Restart, storeVars,
                workerVars
  <2> QED BY <1>0, <2>1, FactsStand
<1> QED BY <1>1, <1>2, <1>3, <1>4 DEF WorkerNext

LEMMA OperatorFactsStand ==
    ASSUME Grows, NEW o \in Operators, OperatorFacts(o), op'[o] = op[o] PROVE OperatorFacts(o)'
BY DEF Grows, OperatorFacts

LEMMA OpNextFacts ==
    ASSUME TypeOK, ReportInv, OpNext, UNCHANGED workerVars
    PROVE  (\A w \in Workers : WorkerFacts(w)') /\ (\A o \in Operators : OperatorFacts(o)')
<1>0. Grows /\ \A o \in Operators : OperatorFacts(o)
  BY SweepGrows DEF ReportInv
<1>1. \A w \in Workers : WorkerFacts(w)'
  <2>1. UNCHANGED <<pc, task, ckpt>>
    BY DEF workerVars, OpNext, Operate, ReadDeadLetters, TakeLetter, Reexport, SelectCandidate,
           Inspect, Apply, RequeueFails, Note, ReachVerdict, Resend, Discard, ReexportPut,
           ReexportStamp, OperatorDies, storeVars
  <2> QED BY <1>0, <2>1, FactsStand DEF ReportInv
<1>2. ASSUME NEW o \in Operators,
             ReadDeadLetters(o) \/ TakeLetter(o) \/ Reexport(o) \/ Operate(o) \/ OperatorDies(o)
      PROVE  \A p \in Operators : OperatorFacts(p)'
  <2>1. PICK s : To(o, s)
    BY <1>2 DEF ReadDeadLetters, TakeLetter, Reexport, Operate, OperatorDies, SelectCandidate,
                Inspect, Apply, RequeueFails, Note, ReachVerdict, Resend, Discard, ReexportPut,
                ReexportStamp
  <2>2. \A p \in Operators \ {o} : op'[p] = op[p]
    BY <2>1 DEF To, TypeOK, OpTypeOK
  <2>3. OperatorFacts(o)'
    <3>1. CASE Reexport(o)
      <4>1. op'[o].at = "reput" /\ row.report
        BY <3>1, ToEffect, IdleFields DEF Reexport
      <4> QED BY <1>0, <4>1 DEF OperatorFacts, Grows
    <3>2. CASE ReexportPut(o)
      <4>1. \/ artifact' = TRUE /\ To(o, [op[o] EXCEPT !.at = "restamp"])
            \/ To(o, Idle)
        BY <3>2, Zenon DEF ReexportPut
      <4>2. CASE artifact' = TRUE /\ To(o, [op[o] EXCEPT !.at = "restamp"])
        <5>1. op'[o] = [op[o] EXCEPT !.at = "restamp"]
          BY <4>2, ToEffect
        <5>2. op'[o].at = "restamp"
          BY <5>1, SessionFields
        <5> QED BY <4>2, <5>2 DEF OperatorFacts
      <4>3. CASE To(o, Idle)
        <5>1. op'[o].at = "idle"
          BY <4>3, ToEffect, IdleFields
        <5> QED BY <5>1 DEF OperatorFacts
      <4> QED BY <4>1, <4>2, <4>3
    <3>3. CASE ~ (Reexport(o) \/ ReexportPut(o))
      <4>1. \/ To(o, Idle)
            \/ \E l \in dlq : To(o, [Idle EXCEPT !.at = "verdict", !.letter = l])
            \/ To(o, [Idle EXCEPT !.at = "select", !.dead = dlq # {}])
            \/ \E at \in {"fence", "note", "resend", "discard"} : To(o, [op[o] EXCEPT !.at = at])
            \/ \E out : To(o, [op[o] EXCEPT !.at = "apply", !.outcome = out])
        BY <1>2, <3>3
           DEF ReadDeadLetters, TakeLetter, Operate, OperatorDies, SelectCandidate, Inspect,
               Apply, RequeueFails, Note, ReachVerdict, Resend, Discard, ReexportStamp
      <4>2. \A l : [Idle EXCEPT !.at = "verdict", !.letter = l].at = "verdict"
        BY DEF Idle
      <4>3. [Idle EXCEPT !.at = "select", !.dead = dlq # {}].at = "select"
        BY DEF Idle
      <4>4. ASSUME NEW at \in {"fence", "note", "resend", "discard"}, To(o, [op[o] EXCEPT !.at = at])
            PROVE  op'[o].at = at
        <5>1. op'[o] = [op[o] EXCEPT !.at = at]
          BY <4>4, ToEffect
        <5> QED BY <5>1, SessionFields
      <4>5. ASSUME NEW out, To(o, [op[o] EXCEPT !.at = "apply", !.outcome = out])
            PROVE  op'[o].at = "apply"
        <5>1. op'[o] = [op[o] EXCEPT !.at = "apply", !.outcome = out]
          BY <4>5, ToEffect
        <5> QED BY <5>1, SessionFields
      <4>6. ASSUME NEW v, To(o, v), v.at \in {"idle", "verdict", "select"}
            PROVE  op'[o].at \notin {"reput", "restamp"}
        BY <4>6, ToEffect
      <4>7. op'[o].at \notin {"reput", "restamp"}
        BY <4>1, <4>2, <4>3, <4>4, <4>5, <4>6, IdleFields
      <4> QED BY <4>7 DEF OperatorFacts
    <3> QED BY <3>1, <3>2, <3>3
  <2> QED BY <1>0, <2>2, <2>3, OperatorFactsStand
<1> QED BY <1>1, <1>2 DEF OpNext

-----------------------------------------------------------------------------
(* Nothing happens to a job that was not submitted, and a row is never taken back.            *)

LEMMA StatusesKnown ==
    ASSUME TypeOK, row.status # "none",
           UNCHANGED row \/ SameReport,
           NEW s \in Statuses,
           UNCHANGED row \/ SetJobStatus(s) \/ ClaimGate \/ CreateJob \/ FinishJob(s)
               \/ (\E v : RecordGateOpened(v))
    PROVE  row'.status # "none"
BY DEF TypeOK, StoreTypeOK, Rows, Statuses, SetJobStatus, ClaimGate, CreateJob, FinishJob,
       RecordGateOpened, dbVars

LEMMA WorkersWaitForARow ==
    ASSUME TypeOK, Unsubmitted, row.status = "none", WorkerNext
    PROVE  UNCHANGED <<row, queue, dlq, pc>>
<1>1. ASSUME NEW w \in Workers, Run(w) PROVE FALSE
  BY <1>1 DEF Unsubmitted, Run, Received, WaitForLock, ReadJob, StartJob, ReadDecision, Admit,
         Work, OpenGate, Interrupt, Answer, ExportGate, PutReport, StampExport, Finalize, Commit,
         NothingPending, NodeRaises, AfterNode, CheckGateRow, RepairGateRow, RereadGateRow,
         FinaliseCheckpoint, FinaliseRow, ReconcileStatus, Unlock, Acknowledge, Fallback, InNode
<1>2. ASSUME NEW w \in Workers, Receive(w) \/ LoseOwnership(w) \/ Crash(w) PROVE FALSE
  BY <1>2 DEF Unsubmitted, Receive, ReceiveHead, CanReceive, LoseOwnership, Crash, Heartbeat, InNode
<1>3. ASSUME NEW w \in Workers, RequestShutdown(w) \/ Restart(w)
      PROVE  UNCHANGED <<row, queue, dlq, pc>>
  BY <1>3 DEF RequestShutdown, Restart, storeVars, queueVars
<1>4. CASE ExpireDelivery \/ RedriveMessage
  BY <1>4 DEF Unsubmitted, ExpireDelivery, RedriveMessage, Redrive, Expire, workerVars
<1> QED BY <1>1, <1>2, <1>3, <1>4 DEF WorkerNext

LEMMA OthersWaitForARow ==
    ASSUME TypeOK, Unsubmitted, row.status = "none", ApiNext \/ OpNext
    PROVE  Submit
<1>1. ASSUME NEW o \in Operators,
             ReadDeadLetters(o) \/ TakeLetter(o) \/ Reexport(o) \/ Operate(o) \/ OperatorDies(o)
      PROVE  FALSE
  BY <1>1 DEF Unsubmitted, ReadDeadLetters, TakeLetter, Reexport, Operate, OperatorDies,
         SelectCandidate, Inspect, Apply, RequeueFails, Note, ReachVerdict, Resend, Discard,
         ReexportPut, ReexportStamp
<1>2. ASSUME NEW r \in Reviewers, ReadRow(r) \/ Handle(r) \/ RequestDies(r) PROVE FALSE
  BY <1>2 DEF Unsubmitted, ReadRow, Handle, ReadVisit, ReadRecorded, Claim, Record, EnqueueResume,
         RequestDies
<1>3. ~ EnqueueStart /\ ~ SubmitCrash
  BY DEF Unsubmitted, EnqueueStart, SubmitCrash
<1> QED BY <1>1, <1>2, <1>3 DEF ApiNext, OpNext

LEMMA RowStays ==
    ASSUME TypeOK, row.status # "none", WorkerNext \/ ApiNext \/ OpNext
    PROVE  row'.status # "none"
<1>t. row \in Rows /\ ckpt.status \in Terminal \cup {"running"}
  BY DEF TypeOK, StoreTypeOK, Ckpts
<1>1. ASSUME NEW w \in Workers, ExportGate(w) \/ StampExport(w) PROVE row'.status # "none"
  BY <1>t, <1>1 DEF ExportGate, StampExport, Rows
<1>2. ASSUME NEW o \in Operators, ReexportStamp(o) PROVE row'.status # "none"
  BY <1>t, <1>2 DEF ReexportStamp, Rows
<1>3. ASSUME NEW s \in Statuses,
             SetJobStatus(s) \/ ClaimGate \/ CreateJob \/ FinishJob(s) \/ \E v : RecordGateOpened(v)
      PROVE  row'.status # "none"
  BY <1>3, StatusEffects, StatusesKnown
<1>4. ASSUME WorkerNext
      PROVE  \/ UNCHANGED row
             \/ \E w \in Workers : ExportGate(w) \/ StampExport(w)
             \/ \E s \in Statuses : SetJobStatus(s) \/ FinishJob(s)
             \/ \E v : RecordGateOpened(v)
  <2>1. {"running", "failed", "awaiting_approval"} \subseteq Statuses /\ Terminal \subseteq Statuses
        /\ Projection \in Statuses
    BY DEF Statuses, Terminal, Projection
  <2>2. ASSUME NEW w \in Workers,
               StartJob(w) \/ RepairGateRow(w) \/ ReconcileStatus(w) \/ FinaliseRow(w)
        PROVE  UNCHANGED row \/ \E s \in Statuses : SetJobStatus(s) \/ FinishJob(s)
    BY <2>1, <2>2 DEF StartJob, RepairGateRow, ReconcileStatus, FinaliseRow, dbVars
  <2>3. ASSUME NEW w \in Workers, Finalize(w) PROVE \E s \in Statuses : FinishJob(s)
    BY <2>1, <2>3 DEF Finalize
  <2>4. ASSUME NEW w \in Workers, OpenGate(w) PROVE \E v : RecordGateOpened(v)
    BY <2>4 DEF OpenGate
  <2>5. ASSUME NEW w \in Workers, Run(w)
        PROVE  \/ UNCHANGED row
               \/ ExportGate(w) \/ StampExport(w) \/ OpenGate(w) \/ Finalize(w)
               \/ StartJob(w) \/ RepairGateRow(w) \/ ReconcileStatus(w) \/ FinaliseRow(w)
    BY <2>5 DEF Run, Received, WaitForLock, ReadJob, ReadDecision, Admit, Work, Interrupt, Answer,
           PutReport, Commit, NothingPending, NodeRaises, AfterNode, CheckGateRow, RereadGateRow,
           FinaliseCheckpoint, Unlock, Acknowledge, Fallback
  <2>6. WorkerNext => UNCHANGED row \/ \E w \in Workers : Run(w)
    BY DEF WorkerNext, Receive, LoseOwnership, RequestShutdown, Restart, Crash, ExpireDelivery,
           RedriveMessage, Redrive, storeVars
  <2> QED BY <1>4, <2>2, <2>3, <2>4, <2>5, <2>6
<1>5. ASSUME ApiNext PROVE UNCHANGED row \/ ClaimGate \/ CreateJob
  BY <1>5 DEF ApiNext, Submit, EnqueueStart, SubmitCrash, Handle, ReadRow, ReadVisit, ReadRecorded,
         Claim, Record, EnqueueResume, RequestDies, storeVars
<1>6. ASSUME OpNext
      PROVE  \/ UNCHANGED row \/ \E o \in Operators : ReexportStamp(o)
             \/ \E s \in Statuses : SetJobStatus(s) \/ FinishJob(s)
  <2>1. ASSUME NEW o \in Operators, Apply(o)
        PROVE  UNCHANGED row \/ \E s \in Statuses : SetJobStatus(s) \/ FinishJob(s)
    <3>1. "awaiting_approval" \in Statuses /\ "failed" \in Statuses
          /\ (ckpt.status \in Statuses)
      BY <1>t DEF Statuses, Terminal
    <3> QED BY <2>1, <3>1 DEF Apply, dbVars
  <2>2. OpNext => UNCHANGED row \/ \E o \in Operators : Apply(o) \/ ReexportStamp(o)
    BY DEF OpNext, Operate, ReadDeadLetters, TakeLetter, Reexport, SelectCandidate, Inspect,
           RequeueFails, Note, ReachVerdict, Resend, Discard, ReexportPut, OperatorDies, storeVars
  <2> QED BY <1>6, <2>1, <2>2
<1>7. "running" \in Statuses
  BY DEF Statuses
<1> QED BY <1>1, <1>2, <1>3, <1>4, <1>5, <1>6, <1>7

LEMMA SubmissionStep ==
    ASSUME TypeOK, Unsubmitted, Next PROVE Unsubmitted'
<1>0. WorkerNext \/ ApiNext \/ OpNext
  BY DEF Next, WorkerStep, ApiStep, OpStep
<1>1. CASE row.status # "none"
  BY <1>0, <1>1, RowStays DEF Unsubmitted
<1>2. CASE row.status = "none" /\ WorkerStep(WorkerNext)
  BY <1>2, WorkersWaitForARow DEF WorkerStep, apiVars, opVars, Unsubmitted
<1>3. CASE row.status = "none" /\ (ApiNext \/ OpNext)
  <2>1. CreateJob
    BY <1>3, OthersWaitForARow DEF Submit
  <2>2. row'.status = "queued"
    BY <2>1 DEF CreateJob, TypeOK, StoreTypeOK, Rows
  <2> QED BY <2>2 DEF Unsubmitted
<1> QED BY <1>0, <1>1, <1>2, <1>3 DEF Next, ApiStep, OpStep

-----------------------------------------------------------------------------
(* ReportInv is inductive, relative to TypeOK and ExecutionInv.                               *)

LEMMA InitReport == Init => ReportInv
<1> SUFFICES ASSUME Init PROVE ReportInv
  OBVIOUS
<1>1. StoreInv
  BY DEF Init, StoreInit, StoreInv, NoCheckpoint
<1>2. Unsubmitted
  BY DEF Init, StoreInit, WorkerInit, ApiInit, OpInit, Unsubmitted, Closed, Idle
<1>3. (\A w \in Workers : WorkerFacts(w)) /\ (\A o \in Operators : OperatorFacts(o))
  BY DEF Init, WorkerInit, OpInit, WorkerFacts, OperatorFacts, Idle
<1> QED BY <1>1, <1>2, <1>3 DEF ReportInv

LEMMA NextReport == TypeOK /\ ExecutionInv /\ ReportInv /\ [Next]_vars => ReportInv'
<1> SUFFICES ASSUME TypeOK, ExecutionInv, ReportInv, [Next]_vars PROVE ReportInv'
  OBVIOUS
<1>1. CASE UNCHANGED vars
  BY <1>1 DEF vars, storeVars, workerVars, apiVars, opVars, ReportInv, StoreInv, Unsubmitted,
         WorkerFacts, OperatorFacts, Approved, Was
<1>2. CASE WorkerStep(WorkerNext)
  <2>1. \A o \in Operators : OperatorFacts(o)'
    BY <1>2, WorkerGrows, OperatorFactsStand DEF WorkerStep, opVars, ReportInv
  <2>2. Unsubmitted'
    BY <1>2, SubmissionStep DEF Next, ReportInv
  <2> QED BY <1>2, <2>1, <2>2, WorkerStore, WorkerNextFacts DEF WorkerStep, ReportInv
<1>3. CASE ApiStep(ApiNext)
  <2>1. Grows /\ UNCHANGED <<pc, task, op, ckpt>>
    <3>1. ckpt' = ckpt
      BY <1>3, OthersKeepTheCheckpoint DEF ApiStep
    <3> QED BY <1>3, <3>1, ApiGrows DEF ApiStep, workerVars, opVars
  <2>2. \A o \in Operators : OperatorFacts(o)'
    BY <2>1, OperatorFactsStand DEF ReportInv
  <2>3. \A w \in Workers : WorkerFacts(w)'
    BY <2>1, FactsStand DEF ReportInv
  <2>4. Unsubmitted'
    BY <1>3, SubmissionStep DEF Next, ReportInv
  <2> QED BY <1>3, <2>2, <2>3, <2>4, ApiStore DEF ApiStep, ReportInv
<1>4. CASE OpStep(OpNext)
  <2>1. Unsubmitted'
    BY <1>4, SubmissionStep DEF Next, ReportInv
  <2> QED BY <1>4, <2>1, SweepStore, OpNextFacts DEF OpStep, ReportInv
<1> QED BY <1>1, <1>2, <1>3, <1>4 DEF Next

LEMMA ReportInvariant == Spec => [](TypeOK /\ ExecutionInv /\ ReportInv)
BY InitReport, NextReport, Invariants, PTL DEF Spec

(* Nothing is approved or stored that no reviewer approved at the visit the graph is at.      *)
THEOREM ApprovalsAreHuman == Spec => []ApprovalIsHuman
<1>1. ReportInv => ApprovalIsHuman
  BY DEF ReportInv, StoreInv, Approved, ApprovalIsHuman
<1> QED BY <1>1, ReportInvariant, PTL

(* exported_at means the object was written, an object is a cited draft's, and approved means *)
(* exported, in the worker and in the re-export alike.                                        *)
THEOREM ExportsAreWritten == Spec => []ExportedMeansWritten
<1>1. ReportInv => ExportedMeansWritten
  BY DEF ReportInv, StoreInv, ExportedMeansWritten
<1> QED BY <1>1, ReportInvariant, PTL

-----------------------------------------------------------------------------
(* When a delivery becomes one to acknowledge.                             *)

AckIsEarned(w) ==
    task'[w].ack /\ ~task[w].ack => row'.completed \/ WaitingAtTheGate \/ ckpt.node = "end"

LEMMA AckFields ==
    ASSUME TypeOK, NEW w \in Workers, NEW x
    PROVE  /\ [task[w] EXCEPT !.ack = x].ack = x
           /\ [task[w] EXCEPT !.input = x].ack = task[w].ack
           /\ [task[w] EXCEPT !.outcome = x].ack = task[w].ack
           /\ [task[w] EXCEPT !.back = x].ack = task[w].ack
           /\ [task[w] EXCEPT !.raised = x].ack = task[w].ack
           /\ [task[w] EXCEPT !.lost = x].ack = task[w].ack
           /\ task[w].ack \in BOOLEAN
<1>1. task[w] \in Tasks
  BY DEF TypeOK, WorkerTypeOK
<1> QED BY <1>1 DEF Tasks

(* A step that does not decide about the acknowledgement leaves the mark or takes it back. *)
LEMMA AckKept ==
    ASSUME TypeOK, NEW w \in Workers
    PROVE  /\ \A l : Go(w, l) => task'[w].ack = task[w].ack
           /\ \A l, x : \/ GoWith(w, l, [task[w] EXCEPT !.input = x])
                        \/ GoWith(w, l, [task[w] EXCEPT !.outcome = x])
                        \/ GoWith(w, l, [task[w] EXCEPT !.back = x])
                        \/ GoWith(w, l, [task[w] EXCEPT !.raised = x])
                        => task'[w].ack = task[w].ack
<1>1. ASSUME NEW l, Go(w, l) PROVE task'[w].ack = task[w].ack
  BY <1>1, GoWithEffect DEF Go
<1>2. ASSUME NEW l, NEW x, GoWith(w, l, [task[w] EXCEPT !.input = x])
      PROVE  task'[w].ack = task[w].ack
  <2>1. task'[w] = [task[w] EXCEPT !.input = x]
    BY <1>2, GoWithEffect
  <2> QED BY <2>1, AckFields
<1>3. ASSUME NEW l, NEW x, GoWith(w, l, [task[w] EXCEPT !.outcome = x])
      PROVE  task'[w].ack = task[w].ack
  <2>1. task'[w] = [task[w] EXCEPT !.outcome = x]
    BY <1>3, GoWithEffect
  <2> QED BY <2>1, AckFields
<1>4. ASSUME NEW l, NEW x, GoWith(w, l, [task[w] EXCEPT !.back = x])
      PROVE  task'[w].ack = task[w].ack
  <2>1. task'[w] = [task[w] EXCEPT !.back = x]
    BY <1>4, GoWithEffect
  <2> QED BY <2>1, AckFields
<1>5. ASSUME NEW l, NEW x, GoWith(w, l, [task[w] EXCEPT !.raised = x])
      PROVE  task'[w].ack = task[w].ack
  <2>1. task'[w] = [task[w] EXCEPT !.raised = x]
    BY <1>5, GoWithEffect
  <2> QED BY <2>1, AckFields
<1> QED BY <1>1, <1>2, <1>3, <1>4, <1>5

LEMMA AckCleared ==
    ASSUME TypeOK, NEW w \in Workers
    PROVE  /\ Raise(w) \/ Return(w, FALSE) => ~task'[w].ack
           /\ \A x, y : CallFinalise(w, x, y) => ~task'[w].ack
           /\ \A l : \/ GoWith(w, l, NoTask)
                     \/ GoWith(w, l, [task[w] EXCEPT !.ack = FALSE])
                     => ~task'[w].ack
           /\ \A l, x, y : GoWith(w, l, [NoTask EXCEPT !.n = x, !.rc = y]) => ~task'[w].ack
<1>t. task[w] \in Tasks
  BY DEF TypeOK, WorkerTypeOK
<1>1. ASSUME Raise(w) PROVE ~task'[w].ack
  <2> DEFINE t == [task[w] EXCEPT !.raised = TRUE, !.ack = FALSE]
  <2>1. ~t.ack /\ ~[t EXCEPT !.why = "job_dead_lettered", !.back = "unlock"].ack
    BY <1>t DEF Tasks
  <2>2. \/ GoWith(w, "finalise", [t EXCEPT !.why = "job_dead_lettered", !.back = "unlock"])
        \/ GoWith(w, "unlock", t)
    BY <1>1 DEF Raise
  <2>3. \/ task'[w] = [t EXCEPT !.why = "job_dead_lettered", !.back = "unlock"]
        \/ task'[w] = t
    BY <2>2, GoWithEffect
  <2> QED BY <2>1, <2>3
<1>2. ASSUME NEW x, NEW y, CallFinalise(w, x, y) PROVE ~task'[w].ack
  <2>1. task'[w] = [task[w] EXCEPT !.why = x, !.back = y, !.ack = FALSE]
    BY <1>2, GoWithEffect DEF CallFinalise
  <2> QED BY <1>t, <2>1 DEF Tasks
<1>3. ASSUME NEW l, GoWith(w, l, [task[w] EXCEPT !.ack = FALSE]) PROVE ~task'[w].ack
  <2>1. task'[w] = [task[w] EXCEPT !.ack = FALSE]
    BY <1>3, GoWithEffect
  <2> QED BY <2>1, AckFields
<1>4. ASSUME NEW l, NEW t, ~t.ack, GoWith(w, l, t) PROVE ~task'[w].ack
  BY <1>4, GoWithEffect
<1>5. \A x, y : ~NoTask.ack /\ ~[NoTask EXCEPT !.n = x, !.rc = y].ack
  BY DEF NoTask
<1>6. Return(w, FALSE) => ~task'[w].ack
  BY <1>3 DEF Return
<1> QED BY <1>1, <1>2, <1>3, <1>4, <1>5, <1>6

LEMMA PollAcks ==
    ASSUME TypeOK, ExecutionInv, ReportInv, NEW w \in Workers,
           \/ Receive(w) \/ Received(w) \/ WaitForLock(w) \/ ReadJob(w) \/ StartJob(w)
           \/ ReadDecision(w)
    PROVE  AckIsEarned(w)
<1>1. CASE Receive(w)
  BY <1>1, AckCleared DEF Receive, AckIsEarned
<1>2. CASE Received(w) \/ WaitForLock(w)
  BY <1>2, AckKept DEF Received, WaitForLock, AckIsEarned
<1>3. CASE ReadJob(w)
  <2>1. row.status # "none" /\ UNCHANGED row
    BY <1>3 DEF ReadJob, ReportInv, Unsubmitted
  <2>2. \/ JobIsOver
        \/ \E l : Go(w, l)
        \/ Raise(w) \/ CallFinalise(w, "job_timeout", "unlock")
    BY <1>3 DEF ReadJob
  <2>3. CASE JobIsOver
    BY <2>1, <2>3 DEF JobIsOver, AckIsEarned
  <2> QED BY <2>2, <2>3, AckKept, AckCleared DEF AckIsEarned
<1>4. CASE StartJob(w)
  BY <1>4, AckKept, AckCleared DEF StartJob, AckIsEarned
<1>5. CASE ReadDecision(w)
  BY <1>5, AckKept, AckCleared DEF ReadDecision, AckIsEarned
<1> QED BY <1>1, <1>2, <1>3, <1>4, <1>5

LEMMA NodeAcks ==
    ASSUME TypeOK, NEW w \in Workers,
           \/ Admit(w) \/ Work(w) \/ OpenGate(w) \/ Interrupt(w) \/ Answer(w)
           \/ ExportGate(w) \/ PutReport(w) \/ StampExport(w) \/ Finalize(w) \/ Commit(w)
           \/ NothingPending(w) \/ NodeRaises(w)
    PROVE  AckIsEarned(w)
<1>1. \E l, x : \/ Go(w, l)
                \/ GoWith(w, l, [task[w] EXCEPT !.outcome = x])
                \/ GoWith(w, l, [task[w] EXCEPT !.raised = x])
  <2>1. CASE ExportGate(w) \/ PutReport(w) \/ StampExport(w) \/ Finalize(w)
    BY <2>1 DEF ExportGate, PutReport, StampExport, Finalize
  <2>2. CASE NodeRaises(w)
    BY <2>2 DEF NodeRaises
  <2> QED BY <2>1, <2>2 DEF Admit, Work, OpenGate, Interrupt, Answer, Commit, NothingPending
<1> QED BY <1>1, AckKept DEF AckIsEarned

LEMMA EndingAcks ==
    ASSUME TypeOK, ExecutionInv, NEW w \in Workers,
           \/ AfterNode(w) \/ CheckGateRow(w) \/ RepairGateRow(w) \/ RereadGateRow(w)
           \/ FinaliseCheckpoint(w) \/ FinaliseRow(w) \/ ReconcileStatus(w)
           \/ Unlock(w) \/ Acknowledge(w) \/ Fallback(w)
    PROVE  AckIsEarned(w)
<1>1. CASE AfterNode(w)
  <2>1. UNCHANGED row
    BY <1>1 DEF AfterNode
  <2>2. \/ \E l, x : \/ GoWith(w, l, [task[w] EXCEPT !.ack = FALSE])
                     \/ GoWith(w, l, [task[w] EXCEPT !.back = x])
                     \/ GoWith(w, l, [task[w] EXCEPT !.raised = x])
                     \/ GoWith(w, l, [task[w] EXCEPT !.input = x])
        \/ CallFinalise(w, "job_timeout", "reconcile")
        \/ GoWith(w, "reconcile", [task[w] EXCEPT !.ack = row.completed])
        \/ ckpt.node = "end"
    BY <1>1 DEF AfterNode, DeliveryIsFinished
  <2>3. CASE GoWith(w, "reconcile", [task[w] EXCEPT !.ack = row.completed])
    <3>1. task'[w] = [task[w] EXCEPT !.ack = row.completed]
      BY <2>3, GoWithEffect
    <3> QED BY <2>1, <3>1, AckFields DEF AckIsEarned
  <2> QED BY <2>2, <2>3, AckKept, AckCleared DEF AckIsEarned
<1>2. CASE CheckGateRow(w) \/ RepairGateRow(w) \/ RereadGateRow(w)
  BY <1>2 DEF CheckGateRow, RepairGateRow, RereadGateRow, ExecutionInv, WorkerInv, AckIsEarned
<1>3. CASE FinaliseCheckpoint(w)
  BY <1>3, AckKept, AckCleared DEF FinaliseCheckpoint, AckIsEarned
<1>4. CASE FinaliseRow(w)
  BY <1>4, FinishJobEffect, AckCleared DEF FinaliseRow, AckIsEarned
<1>5. CASE ReconcileStatus(w)
  BY <1>5, AckKept, AckCleared DEF ReconcileStatus, AckIsEarned
<1>6. CASE Unlock(w) \/ Acknowledge(w) \/ Fallback(w)
  BY <1>6, AckKept, AckCleared DEF Unlock, Acknowledge, Fallback, AckIsEarned
<1> QED BY <1>1, <1>2, <1>3, <1>4, <1>5, <1>6

LEMMA EnvironmentAcks ==
    ASSUME TypeOK, NEW v \in Workers,
           \/ ExpireDelivery \/ RedriveMessage \/ ApiStep(ApiNext) \/ OpStep(OpNext)
           \/ \E w \in Workers : LoseOwnership(w) \/ RequestShutdown(w) \/ Restart(w) \/ Crash(w)
    PROVE  AckIsEarned(v)
<1>t. task \in [Workers -> Tasks]
  BY DEF TypeOK, WorkerTypeOK
<1>1. CASE UNCHANGED task
  BY <1>1 DEF AckIsEarned
<1>2. ASSUME NEW w \in Workers, LoseOwnership(w) PROVE AckIsEarned(v)
  <2>1. task'[v] = task[v] \/ task'[v] = [task[v] EXCEPT !.lost = TRUE]
    BY <1>t, <1>2 DEF LoseOwnership
  <2>2. task[v] \in Tasks
    BY <1>t
  <2> QED BY <2>1, <2>2 DEF AckIsEarned, Tasks
<1>3. ASSUME NEW w \in Workers, Crash(w) PROVE AckIsEarned(v)
  <2>1. task'[v] = task[v] \/ ~task'[v].ack
    BY <1>t, <1>3 DEF Crash, NoTask
  <2> QED BY <2>1 DEF AckIsEarned
<1> QED BY <1>1, <1>2, <1>3
       DEF ExpireDelivery, RedriveMessage, ApiStep, OpStep, RequestShutdown, Restart, workerVars

(* A delivery is marked to be acknowledged only on a step that leaves, or finds, the job over, *)
(* its graph at the end, or its gate open: what a redelivery could still do is then nothing,   *)
(* or is the reviewer's to ask for again.                                                      *)
THEOREM AcksAreEarned == Spec => AckMeansOutcome
<1>1. TypeOK /\ ExecutionInv /\ ReportInv /\ [Next]_vars => \A w \in Workers : AckIsEarned(w)
  <2> SUFFICES ASSUME TypeOK, ExecutionInv, ReportInv, [Next]_vars, NEW v \in Workers
               PROVE  AckIsEarned(v)
    OBVIOUS
  <2>1. CASE UNCHANGED vars
    BY <2>1 DEF vars, workerVars, AckIsEarned
  <2>2. ASSUME NEW w \in Workers, Receive(w) \/ Run(w) PROVE AckIsEarned(v)
    <3>1. CASE v = w
      BY <2>2, <3>1, PollAcks, NodeAcks, EndingAcks DEF Run
    <3>2. CASE v # w
      <4>1. Goes(w)
        BY <2>2, PollTypes, NodeTypes, EndingTypes DEF Run, TypeOK
      <4>2. task'[v] = task[v]
        BY <3>2, <4>1, GoWithEffect DEF Goes
      <4> QED BY <4>2 DEF AckIsEarned
    <3> QED BY <3>1, <3>2
  <2> QED BY <2>1, <2>2, EnvironmentAcks DEF Next, WorkerStep, WorkerNext
<1>2. TypeOK /\ ExecutionInv /\ ReportInv /\ [Next]_vars =>
        [\A w \in Workers : (task'[w].ack /\ ~task[w].ack) =>
            row'.completed \/ WaitingAtTheGate \/ ckpt.node = "end"]_vars
  BY <1>1 DEF AckIsEarned
<1> QED BY <1>2, ReportInvariant, PTL DEF Spec, AckMeansOutcome

-----------------------------------------------------------------------------
(* The refinement.  What the outside sees of the job changes in a few steps only: each of     *)
(* them is a step of the contract, and every other step leaves what is seen alone.            *)

Fate == IF row.completed THEN row.status
        ELSE IF row.status = "none" THEN "none" ELSE "open"

SameFate == Fate' = Fate

InContract == [Contract!Next]_(Contract!contractVars)

LEMMA NotSeen ==
    ASSUME SameFate, trail'.opened = trail.opened, trail'.decided = trail.decided,
           artifact' = artifact
    PROVE  InContract
BY DEF SameFate, Fate, InContract, Contract!contractVars

LEMMA SeenAccept ==
    ASSUME Fate = "none", Fate' = "open", UNCHANGED <<trail, artifact>>
    PROVE  InContract
BY DEF Fate, InContract, Contract!Next, Contract!Accept, Contract!contractVars

LEMMA SeenShow ==
    ASSUME NEW v \in Visits, v \notin trail.opened, Fate = "open", Fate' = "open",
           trail'.opened = trail.opened \cup {v}, trail'.decided = trail.decided,
           artifact' = artifact
    PROVE  InContract
<1>1. Contract!Show(v)
  BY DEF Fate, Contract!Show
<1> QED BY <1>1 DEF InContract, Contract!Next

LEMMA SeenDecide ==
    ASSUME NEW v \in Visits, NEW d \in Decisions, trail.decided[v] = Undecided,
           Fate # "none", SameFate, trail'.opened = trail.opened,
           trail'.decided = [trail.decided EXCEPT ![v] = d], artifact' = artifact
    PROVE  InContract
<1>1. Contract!Decide(v, d)
  BY DEF Fate, SameFate, Contract!Decide
<1> QED BY <1>1 DEF InContract, Contract!Next

LEMMA SeenStore ==
    ASSUME artifact = FALSE, artifact' = TRUE, Was("approve"), SameFate, UNCHANGED trail
    PROVE  InContract
<1>1. Contract!Was("approve")
  BY DEF Was, Contract!Was
<1>2. Contract!Store
  BY <1>1, Zenon DEF Fate, SameFate, Contract!Store
<1> QED BY <1>2 DEF InContract, Contract!Next

LEMMA SeenEnd ==
    ASSUME NEW s \in {"approved", "rejected", "failed"}, Fate = "open", Fate' = s,
           s = "approved" => artifact, s = "rejected" => Was("reject"),
           trail'.opened = trail.opened, trail'.decided = trail.decided, artifact' = artifact
    PROVE  InContract
<1>1. s = "rejected" => Contract!Was("reject")
  BY DEF Was, Contract!Was
<1>2. Contract!End(s)
  BY <1>1 DEF Fate, Contract!End
<1> QED BY <1>2 DEF InContract, Contract!Next

LEMMA SeenOverride ==
    ASSUME Fate \in {"approved", "rejected"}, Fate' = "failed",
           trail'.opened = trail.opened, trail'.decided = trail.decided, artifact' = artifact
    PROVE  InContract
<1>1. Contract!Override
  BY DEF Fate, Contract!Override
<1> QED BY <1>1 DEF InContract, Contract!Next

(* A status write to an unfinished job, or a report field, is not seen. *)
LEMMA StatusNotSeen ==
    ASSUME row'.completed = row.completed, row.completed => row'.status = row.status,
           row.status # "none", row'.status # "none"
    PROVE  SameFate
BY DEF SameFate, Fate

LEMMA SetStatusNotSeen ==
    ASSUME TypeOK, NEW s, s # "none", SetJobStatus(s), row.status # "none"
    PROVE  SameFate
<1>1. row'.completed = row.completed /\ (row.completed => row'.status = row.status)
      /\ row'.status # "none"
  BY DEF TypeOK, StoreTypeOK, Rows, SetJobStatus
<1> QED BY <1>1, StatusNotSeen

(* Ending an unfinished job with what its checkpoint, or a give-up, entitles it to. *)
LEMMA FinishSeen ==
    ASSUME TypeOK, ExecutionInv, NEW s \in Terminal, FinishJob(s), artifact' = artifact,
           row.status # "none",
           row.completed => s = "failed",
           s = "approved" => artifact, s = "rejected" => Was("reject")
    PROVE  InContract
<1>1. Fate' = s
  BY FinishJobEffect DEF Fate
<1>2. trail'.opened = trail.opened /\ trail'.decided = trail.decided
  BY DEF FinishJob, TypeOK, StoreTypeOK, Trails
<1>3. CASE ~row.completed
  <2>1. Fate = "open"
    BY <1>3 DEF Fate
  <2> QED BY <1>1, <1>2, <2>1, SeenEnd DEF Terminal
<1>4. CASE row.completed
  <2>1. Fate \in Terminal
    BY <1>4 DEF Fate, ExecutionInv, JobInv
  <2>2. CASE Fate = "failed"
    BY <1>1, <1>2, <1>4, <2>2, NotSeen DEF SameFate
  <2>3. CASE Fate # "failed"
    BY <1>1, <1>2, <1>4, <2>1, <2>3, SeenOverride DEF Terminal
  <2> QED BY <2>2, <2>3
<1> QED BY <1>3, <1>4

(* The graph's own writes: a worker that may advance has an unfinished job before it. *)
LEMMA NodesSeen ==
    ASSUME TypeOK, ExecutionInv, ReportInv, NEW w \in Workers,
           OpenGate(w) \/ PutReport(w) \/ Finalize(w) \/ FinaliseRow(w)
    PROVE  InContract
<1>0. /\ row.status # "none" /\ WorkerInv(w) /\ WorkerFacts(w) /\ StoreInv
      /\ row \in Rows /\ trail \in Trails /\ ckpt \in Ckpts
  BY DEF OpenGate, PutReport, Finalize, FinaliseRow, ReportInv, Unsubmitted, ExecutionInv, TypeOK,
         StoreTypeOK
<1>1. CASE OpenGate(w)
  <2>1. ~row.completed /\ artifact' = artifact /\ RecordGateOpened(ckpt.calls)
        /\ ckpt.calls \in Visits
    BY <1>0, <1>1 DEF OpenGate, WorkerInv, Advancing, Ckpts
  <2>2. CASE ckpt.calls \in trail.opened
    <3>1. UNCHANGED <<row, trail>>
      BY <2>1, <2>2 DEF RecordGateOpened, dbVars
    <3>2. SameFate
      BY <3>1 DEF SameFate, Fate
    <3> QED BY <2>1, <3>1, <3>2, NotSeen
  <2>3. CASE ckpt.calls \notin trail.opened
    <3>1. /\ row' = [row EXCEPT !.status = "awaiting_approval"]
          /\ trail' = [trail EXCEPT !.opened = @ \cup {ckpt.calls}]
      BY <2>1, <2>3 DEF RecordGateOpened
    <3>2. row'.status = "awaiting_approval" /\ ~row'.completed
      BY <1>0, <2>1, <3>1 DEF Rows
    <3>3. trail'.opened = trail.opened \cup {ckpt.calls} /\ trail'.decided = trail.decided
      BY <1>0, <3>1 DEF Trails
    <3>4. Fate = "open" /\ Fate' = "open"
      BY <1>0, <2>1, <3>2 DEF Fate
    <3> QED BY <2>1, <2>3, <3>3, <3>4, SeenShow
  <2> QED BY <2>2, <2>3
<1>2. CASE PutReport(w)
  <2>1. UNCHANGED <<row, trail>> /\ artifact' \in {artifact, TRUE} /\ row.report
    BY <1>0, <1>2, Zenon DEF PutReport, WorkerFacts
  <2>2. SameFate
    BY <2>1 DEF SameFate, Fate
  <2>3. Was("approve")
    BY <1>0, <2>1 DEF StoreInv, Approved, Was
  <2> QED BY <2>1, <2>2, <2>3, NotSeen, SeenStore DEF TypeOK, StoreTypeOK
<1>3. CASE Finalize(w)
  <2>1. PICK s \in Terminal : FinishJob(s) /\ (s = ckpt.status \/ s = "failed")
    BY <1>3 DEF Finalize, Terminal
  <2>2. ~row.completed /\ artifact' = artifact
    BY <1>0, <1>3 DEF Finalize, WorkerInv, Advancing
  <2>3. (s = "approved" => artifact) /\ (s = "rejected" => Was("reject"))
    BY <1>0, <2>1 DEF StoreInv
  <2> QED BY <1>0, <2>1, <2>2, <2>3, FinishSeen
<1>4. CASE FinaliseRow(w)
  <2>1. artifact' = artifact /\ (FinishJob("failed") \/ UNCHANGED <<row, trail>>)
    BY <1>4 DEF FinaliseRow, dbVars
  <2>2. UNCHANGED <<row, trail>> => SameFate
    BY DEF SameFate, Fate
  <2>3. "failed" \in Terminal
    BY DEF Terminal
  <2> QED BY <1>0, <2>1, <2>2, <2>3, FinishSeen, NotSeen
<1> QED BY <1>1, <1>2, <1>3, <1>4

LEMMA WorkerSeen ==
    ASSUME TypeOK, ExecutionInv, ReportInv, WorkerNext PROVE InContract
<1>t. row \in Rows
  BY DEF TypeOK, StoreTypeOK
<1>1. ASSUME UNCHANGED <<row, trail, artifact>> PROVE InContract
  <2>1. SameFate
    BY <1>1 DEF SameFate, Fate
  <2> QED BY <1>1, <2>1, NotSeen
<1>2. ASSUME NEW w \in Workers, ExportGate(w) \/ StampExport(w) PROVE InContract
  <2>1. row'.status = row.status /\ row'.completed = row.completed /\ UNCHANGED <<trail, artifact>>
    BY <1>t, <1>2 DEF ExportGate, StampExport, Rows
  <2>2. SameFate
    BY <2>1 DEF SameFate, Fate
  <2> QED BY <2>1, <2>2, NotSeen
<1>3. ASSUME NEW w \in Workers, StartJob(w) \/ RepairGateRow(w) \/ ReconcileStatus(w)
      PROVE  InContract
  <2>1. UNCHANGED <<trail, artifact>> /\ row.status # "none"
        /\ (UNCHANGED row \/ SetJobStatus("running") \/ SetJobStatus(Projection))
    BY <1>3 DEF StartJob, RepairGateRow, ReconcileStatus, ReportInv, Unsubmitted
  <2>2. Projection # "none"
    BY DEF Projection
  <2>3. CASE UNCHANGED row
    BY <1>1, <2>1, <2>3
  <2>4. CASE SetJobStatus("running") \/ SetJobStatus(Projection)
    <3>1. SameFate
      BY <2>1, <2>2, <2>4, SetStatusNotSeen
    <3> QED BY <2>1, <3>1, NotSeen
  <2> QED BY <2>1, <2>3, <2>4
<1>4. \/ UNCHANGED <<row, trail, artifact>>
      \/ \E w \in Workers : \/ ExportGate(w) \/ StampExport(w) \/ PutReport(w)
                            \/ StartJob(w) \/ RepairGateRow(w) \/ ReconcileStatus(w)
                            \/ OpenGate(w) \/ Finalize(w) \/ FinaliseRow(w)
  <2>1. ASSUME NEW w \in Workers, Run(w)
        PROVE  \/ UNCHANGED <<row, trail, artifact>>
               \/ ExportGate(w) \/ StampExport(w) \/ PutReport(w)
               \/ StartJob(w) \/ RepairGateRow(w) \/ ReconcileStatus(w)
               \/ OpenGate(w) \/ Finalize(w) \/ FinaliseRow(w)
    BY <2>1 DEF Run, Received, WaitForLock, ReadJob, ReadDecision, Admit, Work, Interrupt,
           Answer, Commit, NothingPending, NodeRaises, AfterNode, CheckGateRow, RereadGateRow,
           FinaliseCheckpoint, Unlock, Acknowledge, Fallback
  <2>2. WorkerNext => UNCHANGED <<row, trail, artifact>> \/ \E w \in Workers : Run(w)
    BY DEF WorkerNext, Receive, LoseOwnership, RequestShutdown, Restart, Crash, ExpireDelivery,
           RedriveMessage, Redrive, storeVars
  <2> QED BY <2>1, <2>2
<1> QED BY <1>1, <1>2, <1>3, <1>4, NodesSeen

LEMMA ApiSeen ==
    ASSUME TypeOK, ExecutionInv, ReportInv, ApiNext PROVE InContract
<1>t. row \in Rows /\ trail \in Trails
  BY DEF TypeOK, StoreTypeOK
<1>1. CASE Submit
  <2>1. row.status = "none" /\ ~row.completed /\ row' = [row EXCEPT !.status = "queued"]
        /\ UNCHANGED <<trail, artifact>>
    BY <1>1 DEF Submit, CreateJob, ReportInv, Unsubmitted
  <2>2. row'.status = "queued" /\ ~row'.completed
    BY <1>t, <2>1 DEF Rows
  <2>3. Fate = "none" /\ Fate' = "open"
    BY <2>1, <2>2 DEF Fate
  <2> QED BY <2>1, <2>3, SeenAccept
<1>2. ASSUME NEW r \in Reviewers, Claim(r) PROVE InContract
  <2>1. UNCHANGED <<trail, artifact>> /\ ClaimGate /\ row.status # "none"
    BY <1>2 DEF Claim, ReportInv, Unsubmitted
  <2>2. /\ row'.completed = row.completed /\ row'.status # "none"
        /\ row.completed => row'.status = row.status
    BY <1>t, <2>1 DEF ClaimGate, CanClaim, Rows, ExecutionInv, JobInv, Terminal
  <2>3. SameFate
    BY <2>1, <2>2, StatusNotSeen
  <2> QED BY <2>1, <2>3, NotSeen
<1>3. ASSUME NEW r \in Reviewers, Record(r) PROVE InContract
  <2> DEFINE v == req[r].visit
             d == req[r].decision
  <2>1. v \in Visits /\ d \in Decisions
    BY DEF TypeOK, ApiTypeOK, Requests
  <2>2. UNCHANGED <<row, artifact>> /\ row.status # "none" /\ (RecordDecision(v, d) \/ UNCHANGED trail)
    BY <1>3 DEF Record, ReportInv, Unsubmitted
  <2>3. SameFate /\ Fate # "none"
    BY <1>t, <2>2 DEF SameFate, Fate, ExecutionInv, JobInv, Terminal
  <2>4. CASE UNCHANGED trail
    BY <2>2, <2>3, <2>4, NotSeen
  <2>5. CASE trail' # trail
    <3>1. trail.decided[v] = Undecided /\ trail' = [trail EXCEPT !.decided[v] = d]
      BY <2>2, <2>5 DEF RecordDecision
    <3>2. trail'.opened = trail.opened /\ trail'.decided = [trail.decided EXCEPT ![v] = d]
      BY <1>t, <3>1 DEF Trails
    <3> HIDE DEF v, d
    <3> QED BY <2>1, <2>2, <2>3, <3>1, <3>2, SeenDecide
  <2> QED BY <2>4, <2>5
<1>4. ASSUME UNCHANGED <<row, trail, artifact>> PROVE InContract
  <2>1. SameFate
    BY <1>4 DEF SameFate, Fate
  <2> QED BY <1>4, <2>1, NotSeen
<1>5. \/ UNCHANGED <<row, trail, artifact>>
      \/ Submit \/ \E r \in Reviewers : Claim(r) \/ Record(r)
  BY DEF ApiNext, EnqueueStart, SubmitCrash, Handle, ReadRow, ReadVisit, ReadRecorded,
         EnqueueResume, RequestDies, storeVars
<1> QED BY <1>1, <1>2, <1>3, <1>4, <1>5

LEMMA SweepSeen ==
    ASSUME TypeOK, ExecutionInv, ReportInv, OpNext PROVE InContract
<1>t. row \in Rows
  BY DEF TypeOK, StoreTypeOK
<1>1. ASSUME UNCHANGED <<row, trail, artifact>> PROVE InContract
  <2>1. SameFate
    BY <1>1 DEF SameFate, Fate
  <2> QED BY <1>1, <2>1, NotSeen
<1>2. ASSUME NEW o \in Operators, Apply(o) PROVE InContract
  <2>1. row.status # "none" /\ ~row.completed /\ artifact' = artifact
        /\ (op[o].outcome = "repaired_terminal" => ckpt.status \in Terminal)
    BY <1>2 DEF Apply, ReportInv, Unsubmitted, ExecutionInv, OperatorInv
  <2>2. CASE op[o].outcome = "repaired_terminal" /\ FinishJob(ckpt.status)
    <3>1. (ckpt.status = "approved" => artifact) /\ (ckpt.status = "rejected" => Was("reject"))
      BY DEF ReportInv, StoreInv
    <3> QED BY <2>1, <2>2, <3>1, FinishSeen
  <2>3. CASE FinishJob("failed")
    <3>1. "failed" \in Terminal
      BY DEF Terminal
    <3> QED BY <2>1, <2>3, <3>1, FinishSeen
  <2>4. CASE SetJobStatus("awaiting_approval") /\ UNCHANGED trail
    <3>1. SameFate
      BY <2>1, <2>4, SetStatusNotSeen
    <3> QED BY <2>1, <2>4, <3>1, NotSeen
  <2>5. CASE UNCHANGED dbVars
    BY <1>1, <2>1, <2>5 DEF dbVars
  <2> QED BY <1>2, <2>2, <2>3, <2>4, <2>5 DEF Apply
<1>3. ASSUME NEW o \in Operators, ReexportPut(o) PROVE InContract
  <2>1. UNCHANGED <<row, trail>> /\ artifact' \in {artifact, TRUE} /\ op[o].at = "reput"
    BY <1>3, Zenon DEF ReexportPut
  <2>2. SameFate
    BY <2>1 DEF SameFate, Fate
  <2>3. Was("approve")
    BY <2>1 DEF ReportInv, OperatorFacts, StoreInv, Approved, Was
  <2> QED BY <2>1, <2>2, <2>3, NotSeen, SeenStore DEF TypeOK, StoreTypeOK
<1>4. ASSUME NEW o \in Operators, ReexportStamp(o) PROVE InContract
  <2>1. row'.status = row.status /\ row'.completed = row.completed /\ UNCHANGED <<trail, artifact>>
    BY <1>t, <1>4 DEF ReexportStamp, Rows
  <2>2. SameFate
    BY <2>1 DEF SameFate, Fate
  <2> QED BY <2>1, <2>2, NotSeen
<1>5. \/ UNCHANGED <<row, trail, artifact>>
      \/ \E o \in Operators : Apply(o) \/ ReexportPut(o) \/ ReexportStamp(o)
  BY DEF OpNext, Operate, ReadDeadLetters, TakeLetter, Reexport, SelectCandidate, Inspect,
         RequeueFails, Note, ReachVerdict, Resend, Discard, OperatorDies, storeVars
<1> QED BY <1>1, <1>2, <1>3, <1>4, <1>5

(* Whatever is delivered twice, crashes or is repaired, the outside sees the job's contract   *)
(* kept: accepted once, shown and answered visit by visit, stored only when approved, ended   *)
(* once and changed afterwards only to failed.                                                *)
THEOREM ContractIsKept == Spec => KeepsTheContract
<1>1. Init => Contract!Init
  BY DEF Init, StoreInit, Contract!Init
<1>2. TypeOK /\ ExecutionInv /\ ReportInv /\ [Next]_vars => InContract
  <2> SUFFICES ASSUME TypeOK, ExecutionInv, ReportInv, [Next]_vars PROVE InContract
    OBVIOUS
  <2>1. CASE UNCHANGED vars
    <3>1. SameFate /\ UNCHANGED <<trail, artifact>>
      BY <2>1 DEF vars, storeVars, SameFate, Fate
    <3> QED BY <3>1, NotSeen
  <2> QED BY <2>1, WorkerSeen, ApiSeen, SweepSeen DEF Next, WorkerStep, ApiStep, OpStep
<1>3. TypeOK /\ ExecutionInv /\ ReportInv /\ [Next]_vars => [Contract!Next]_(Contract!contractVars)
  BY <1>2 DEF InContract
<1> QED BY <1>1, <1>3, ReportInvariant, PTL DEF Spec, KeepsTheContract, Contract!Spec
=============================================================================
