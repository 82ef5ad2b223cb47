------------------------------ MODULE JobStore ------------------------------
(***************************************************************************)
(* The durable state every process of the system shares about one job, and *)
(* the transactions and calls that change it: the `jobs` row and the audit *)
(* trail (database/queries.py), the LangGraph checkpoint, the artifact     *)
(* object, the per-job PostgreSQL advisory lock (database/locks.py), and   *)
(* the SQS FIFO job queue with its dead-letter queue (jobqueue.py).        *)
(*                                                                         *)
(* Jobs do not interact: rows, checkpoint thread, lock key, FIFO group and *)
(* object key are all functions of the job id.  One job is the system.     *)
(*                                                                         *)
(* An operator here constrains only the variables its comment names; the   *)
(* process modules say what else stays unchanged.                          *)
(***************************************************************************)
EXTENDS Integers, Sequences, FiniteSets

CONSTANTS
    Workers,     \* worker processes (worker.py)
    Operators,   \* operator processes (scripts/reconcile_jobs.py, replay_dlq.py)
    NoOne,       \* nobody holds the execution lock
    MaxCalls,    \* max_llm_calls_per_job
    MaxReceive,  \* the redrive policy's maxReceiveCount
    MaxSends,    \* bound: accepted SendMessage calls
    FaultKinds,  \* which kinds of disturbance a run admits
    MaxFaults    \* bound: disturbances in one behaviour

ASSUME StoreAssumption ==
    /\ Workers \cap Operators = {}
    /\ NoOne \notin Workers \cup Operators
    /\ MaxCalls \in Nat /\ MaxReceive \in Nat \ {0}
    /\ MaxSends \in Nat /\ MaxFaults \in Nat

VARIABLES
    row,       \* the `jobs` row
    trail,     \* the `audit_events` rows the code reads back
    ckpt,      \* the newest checkpoint of the job's thread
    artifact,  \* the report object exists in the bucket
    fence,     \* holder of the advisory lock, or NoOne
    queue,     \* the job's FIFO message group, oldest first
    inflight,  \* the oldest message is invisible
    dlq,       \* the messages redriven to the dead-letter queue
    sends,     \* accepted sends so far: the next message's identity
    lastSent,  \* the newest accepted send of each deduplication id, 0 for none
    aged,      \* sends up to this one are outside the deduplication window
    faults     \* disturbances so far

dbVars    == <<row, trail>>
queueVars == <<queue, inflight, dlq, sends, lastSent, aged>>
storeVars == <<row, trail, ckpt, artifact, fence, queue, inflight, dlq, sends, lastSent, aged, faults>>

-----------------------------------------------------------------------------
Statuses  == {"queued", "running", "awaiting_approval", "approved", "rejected", "failed"}
Terminal  == {"approved", "rejected", "failed"}      \* TERMINAL_STATUSES
Decisions == {"approve", "reject", "edit"}
Visits    == 0 .. MaxCalls     \* a gate visit is keyed by llm_calls_used (ADR 0007)
StartId   == 0                 \* the start message's deduplication id; visits cost a call
Undecided == "undecided"
Unfinished == "unfinished"

Nodes   == {"absent", "stub", "work", "human_gate", "export", "finalize", "end"}
Reasons == {"none", "graph", "job_timeout", "job_dead_lettered"}

Rows     == [status : Statuses \cup {"none"}, completed : BOOLEAN,
             report : BOOLEAN, exported : BOOLEAN]
Trails   == [opened : SUBSET Visits, decided : [Visits -> Decisions \cup {Undecided}],
             finished : Statuses \cup {Unfinished}]
Ckpts    == [node : Nodes, calls : Visits, status : Terminal \cup {"running"},
             reason : Reasons, pending : {"none", "error", "interrupt"}, cited : BOOLEAN]
Messages == [n : 1 .. MaxSends, id : Visits, rc : 0 .. MaxReceive]

StoreTypeOK ==
    /\ row \in Rows /\ trail \in Trails /\ ckpt \in Ckpts
    /\ artifact \in BOOLEAN /\ fence \in Workers \cup Operators \cup {NoOne}
    /\ queue \in Seq(Messages) /\ inflight \in BOOLEAN /\ dlq \subseteq Messages
    /\ inflight => queue # <<>>
    /\ sends \in 0 .. MaxSends
    /\ lastSent \in [Visits -> 0 .. MaxSends] /\ aged \in 0 .. MaxSends
    /\ faults \in 0 .. MaxFaults

NoCheckpoint == [node |-> "absent", calls |-> 0, status |-> "running", reason |-> "none",
                 pending |-> "none", cited |-> TRUE]

StoreInit ==
    /\ row = [status |-> "none", completed |-> FALSE, report |-> FALSE, exported |-> FALSE]
    /\ trail = [opened |-> {}, decided |-> [v \in Visits |-> Undecided], finished |-> Unfinished]
    /\ ckpt = NoCheckpoint
    /\ artifact = FALSE /\ fence = NoOne
    /\ queue = <<>> /\ inflight = FALSE /\ dlq = {} /\ sends = 0
    /\ lastSent = [v \in Visits |-> 0] /\ aged = 0
    /\ faults = 0

(* One disturbance of kind k.  Every step that is not one leaves `faults`. *)
Fault(k) ==
    /\ k \in FaultKinds /\ faults < MaxFaults
    /\ faults' = faults + 1

-----------------------------------------------------------------------------
(* Transactions on the row and the trail.                                  *)

(* The INSERT and its job_created event.  Changes row. *)
CreateJob ==
    /\ row.status = "none"
    /\ row' = [row EXCEPT !.status = "queued"]

(* UPDATE ... WHERE completed_at IS NULL.  Changes row. *)
SetJobStatusUnguarded(status) == row' = [row EXCEPT !.status = status]       \* mutant
SetJobStatus(status) ==
    row' = IF row.completed THEN row ELSE [row EXCEPT !.status = status]

(* Keyed on the visit; the status write has no completed_at guard. Changes row, trail. *)
RecordGateOpened(visit) ==
    IF visit \in trail.opened
    THEN UNCHANGED dbVars
    ELSE /\ row' = [row EXCEPT !.status = "awaiting_approval"]
         /\ trail' = [trail EXCEPT !.opened = @ \cup {visit}]

(* The conditional update and its rowcount.  Changes row. *)
CanClaim == row.status = "awaiting_approval"
ClaimGate == row' = IF CanClaim THEN [row EXCEPT !.status = "running"] ELSE row

(* Query then insert: at most one row per visit.  Changes trail. *)
RecordAnotherDecision(visit, decision) == trail' = [trail EXCEPT !.decided[visit] = decision]  \* mutant
RecordDecision(visit, decision) ==
    trail' = IF trail.decided[visit] = Undecided
             THEN [trail EXCEPT !.decided[visit] = decision]
             ELSE trail

EditsMade == Cardinality({v \in Visits : trail.decided[v] = "edit"})

(* The terminal row, unguarded, and the first job_finished event. Changes row, trail. *)
FinishJob(status) ==
    /\ row' = [row EXCEPT !.status = status, !.completed = TRUE]
    /\ trail' = [trail EXCEPT !.finished = IF @ = Unfinished THEN status ELSE @]

-----------------------------------------------------------------------------
(* The checkpoint, as the graph API shows it.                              *)

WaitingAtTheGate == ckpt.pending = "interrupt"
Projection == IF WaitingAtTheGate THEN "awaiting_approval" ELSE "running"

(* update_state({status: failed, failure_reason}).  A task with pending writes (an error, an *)
(* interrupt) is discarded; a task no one started survives.  Changes ckpt.                   *)
FailCheckpoint(reason) ==
    ckpt' = [ckpt EXCEPT !.status = "failed", !.reason = reason, !.pending = "none",
                         !.node = IF ckpt.pending # "none" THEN "end" ELSE @]

(* update_state on a thread nothing has run: refused, or a checkpoint that holds those two *)
(* channels only.  Changes ckpt.                                                           *)
FailAbsentCheckpoint(reason) ==
    \/ UNCHANGED ckpt
    \/ ckpt' = [NoCheckpoint EXCEPT !.node = "stub", !.status = "failed", !.reason = reason]

-----------------------------------------------------------------------------
(* The execution lock.  Changes fence.                                     *)

AcquireRegardless(p) == fence' = p                                             \* mutant
TryAcquire(p) == fence = NoOne /\ fence' = p
LeakTheLock(p) == UNCHANGED fence                                              \* mutant
Release(p)    == fence' = IF fence = p THEN NoOne ELSE fence

-----------------------------------------------------------------------------
(* The queue.  A FIFO group delivers its oldest message and nothing behind it *)
(* until that one is deleted, expires or is redriven.                         *)

(* An accepted SendMessage: enqueued, or dropped as a duplicate of one sent within the *)
(* five-minute window.  Changes queue, sends, lastSent.                                *)
Send(id) ==
    \/ /\ sends < MaxSends
       /\ queue' = Append(queue, [n |-> sends + 1, id |-> id, rc |-> 0])
       /\ sends' = sends + 1 /\ lastSent' = [lastSent EXCEPT ![id] = sends + 1]
       /\ UNCHANGED <<inflight, dlq, aged>>
    \/ /\ lastSent[id] > aged
       /\ UNCHANGED queueVars

(* A SendMessage that raised: it may still have been accepted. *)
SendFails(id) == Fault("send") /\ (Send(id) \/ UNCHANGED queueVars)

(* ReceiveMessage hands out the oldest message.  Changes queue, inflight. *)
CanReceive == queue # <<>> /\ ~inflight /\ Head(queue).rc < MaxReceive
ReceiveHead ==
    /\ CanReceive
    /\ queue' = [queue EXCEPT ![1].rc = @ + 1]
    /\ inflight' = TRUE
    /\ UNCHANGED <<dlq, sends, lastSent, aged>>

(* A receipt is good for as long as its delivery is the current one. *)
Owns(receipt) ==
    /\ queue # <<>> /\ inflight
    /\ Head(queue).n = receipt.n /\ Head(queue).rc = receipt.rc

(* DeleteMessage.  Changes queue, inflight. *)
DeleteWith(receipt) ==
    /\ UNCHANGED <<dlq, sends, lastSent, aged>>
    /\ IF Owns(receipt) THEN queue' = Tail(queue) /\ inflight' = FALSE
                        ELSE UNCHANGED <<queue, inflight>>

(* The visibility timeout runs out: it is longer than the deduplication window.  Changes *)
(* inflight, aged.                                                                       *)
Expire ==
    /\ inflight
    /\ inflight' = FALSE
    /\ aged' = IF Head(queue).n > aged THEN Head(queue).n ELSE aged
    /\ UNCHANGED <<queue, dlq, sends, lastSent>>

(* A message whose deliveries are spent moves to the dead-letter queue. *)
Redrive ==
    /\ queue # <<>> /\ ~inflight /\ Head(queue).rc >= MaxReceive
    /\ queue' = Tail(queue) /\ dlq' = dlq \cup {Head(queue)}
    /\ UNCHANGED <<row, trail, ckpt, artifact, fence, inflight, sends, lastSent, aged, faults>>
=============================================================================
