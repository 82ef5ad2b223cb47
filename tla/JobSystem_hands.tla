-------------------------- MODULE JobSystem_hands --------------------------
(***************************************************************************)
(* No job is dropped: what a delivery, its acknowledgement, a dead letter  *)
(* and a sweep owe the job's last message, and that an unfinished job is   *)
(* always in somebody's hands - for every number of processes and every    *)
(* bound, when no worker sleeps through its own lease.                     *)
(***************************************************************************)
EXTENDS JobSystem_contract

-----------------------------------------------------------------------------
(* The strengthening.  Every receipt tells which delivery it was given for; a delivery that   *)
(* may still delete the message has left the job with what needs none, and keeps out of the   *)
(* lock's region whoever could take that back.                                                *)

(* The job's last message is where somebody will find it: in the queue, or among the dead     *)
(* letters with every deduplication window behind it.                                         *)
Held == \/ queue # <<>>
        \/ aged = sends /\ \E m \in dlq : m.n = sends

(* What the graph holds needs no further delivery. *)
Settled == row.completed \/ WaitingAtTheGate \/ CheckpointTerminal

(* A sweep would send the start message again. *)
Startable == row.status = "queued" /\ ckpt.node = "absent"

(* Under the lock with a message to return to; a last-moment finalisation has none. *)
InRegion(w) ==
    \/ pc[w] \in Executing \ {"finalise", "finish"}
    \/ pc[w] \in {"finalise", "finish"} /\ task[w].back = "reconcile"

(* About to delete its message. *)
Deleting(w) == \/ pc[w] = "ack"
               \/ pc[w] = "unlock" /\ Acknowledges(task[w])

(* Receipt <<n, rc>> was given for a delivery from queue q after s sends; it is the current one. *)
Given(q, s, n, rc) ==
    /\ n <= s
    /\ q # <<>> => \/ n < Head(q).n
                   \/ n = Head(q).n /\ rc <= Head(q).rc
Current(q, out, n, rc) == q # <<>> /\ out /\ Head(q).n = n /\ Head(q).rc = rc

GroupInv ==
    /\ \A i \in 1 .. Len(queue) : queue[i].n = sends - Len(queue) + i
    /\ \A i \in 2 .. Len(queue) : queue[i].rc = 0
    /\ queue # <<>> /\ ~inflight /\ Head(queue).rc > 0 => aged >= Head(queue).n
    /\ aged <= sends
    /\ \A v \in Visits : lastSent[v] <= sends
    /\ \A m \in dlq : m.n <= aged

LetterInv(o) ==
    /\ op[o].at \in {"verdict", "resend"} => op[o].letter.n <= aged
    /\ op[o].at = "discard" => op[o].letter.n < sends
    /\ op[o].at = "apply" /\ op[o].outcome = "repaired_gate" => ckpt.node # "absent"

ReceiptInv(w) ==
    /\ Given(queue, sends, task[w].n, task[w].rc)
    /\ pc[w] \in {"received", "wait"} /\ ~task[w].lost => Owns(task[w])

(* Where a delivery whose acknowledgement was earned can stand. *)
Acked == {"reconcile", "unlock", "ack", "fallback", "idle"}

AckInv(w) ==
    /\ task[w].ack => pc[w] \in Acked
    /\ task[w].ack /\ pc[w] = "reconcile" => Settled
    /\ Deleting(w) /\ Owns(task[w]) => Settled
    /\ pc[w] = "commit" => task[w].outcome \in Terminal

Apart(w, x) ==
    /\ pc[w] # "idle" /\ pc[x] # "idle" => <<task[w].n, task[w].rc>> # <<task[x].n, task[x].rc>>
    /\ ~ (InRegion(w) /\ Deleting(x) /\ Owns(task[x]))

EndIsTerminal == ckpt.node = "end" => ckpt.status \in Terminal

HandsInv ==
    /\ GroupInv
    /\ \A o \in Operators : LetterInv(o)
    /\ \A w \in Workers : ReceiptInv(w) /\ AckInv(w) /\ (InRegion(w) => Held)
    /\ \A w \in Workers : \A x \in Workers \ {w} : Apart(w, x)
    /\ row.status = "none" => ckpt.node = "absent"
    /\ EndIsTerminal
    /\ row.status = "none" \/ Held \/ Settled \/ Startable

-----------------------------------------------------------------------------
(* The message group.                                                      *)

LEMMA QueueFacts ==
    ASSUME TypeOK
    PROVE  /\ queue \in Seq(Messages) /\ Len(queue) \in Nat /\ inflight \in BOOLEAN
           /\ sends \in Nat /\ aged \in Nat /\ dlq \subseteq Messages
           /\ lastSent \in [Visits -> Nat]
           /\ inflight => queue # <<>>
           /\ \A m \in Messages : m.n \in Nat /\ m.n >= 1 /\ m.rc \in Nat
           /\ queue # <<>> => /\ Len(queue) >= 1 /\ Head(queue) = queue[1]
                              /\ queue[1] \in Messages
<1>1. QueueTypeOK
  BY StoreParts DEF TypeOK
<1>2. \A m \in Messages : m.n \in Nat /\ m.n >= 1 /\ m.rc \in Nat
  BY Bounds DEF Messages
<1>3. /\ queue \in Seq(Messages) /\ inflight \in BOOLEAN /\ dlq \subseteq Messages
      /\ inflight => queue # <<>>
  BY <1>1 DEF QueueTypeOK
<1>4. sends \in Nat /\ aged \in Nat /\ lastSent \in [Visits -> Nat]
  BY <1>1, Bounds DEF QueueTypeOK
<1>5. queue # <<>> => Len(queue) >= 1 /\ Head(queue) = queue[1] /\ queue[1] \in Messages
  BY <1>3
<1> QED BY <1>2, <1>3, <1>4, <1>5

(* What every change of the queue does to the group, to the receipts given for it, ... *)
Orderly ==
    /\ GroupInv' /\ sends <= sends' /\ aged <= aged'
    /\ \A n, rc \in Nat : Given(queue, sends, n, rc) =>
          /\ Given(queue', sends', n, rc)
          /\ Current(queue', inflight', n, rc) => Current(queue, inflight, n, rc)

LEMMA SendOrderly == ASSUME TypeOK, GroupInv, NEW id \in Visits, Send(id) PROVE Orderly
<1>q. /\ queue \in Seq(Messages) /\ Len(queue) \in Nat /\ inflight \in BOOLEAN
      /\ sends \in Nat /\ aged \in Nat /\ lastSent \in [Visits -> Nat]
      /\ inflight => queue # <<>>
  BY QueueFacts
<1>1. CASE UNCHANGED queueVars
  BY <1>1, <1>q DEF queueVars, Orderly, GroupInv
<1>2. CASE /\ queue' = Append(queue, [n |-> sends + 1, id |-> id, rc |-> 0])
           /\ sends' = sends + 1 /\ lastSent' = [lastSent EXCEPT ![id] = sends + 1]
           /\ UNCHANGED <<inflight, dlq, aged>>
  <2> DEFINE m == [n |-> sends + 1, id |-> id, rc |-> 0]
  <2>1. m.n = sends + 1 /\ m.rc = 0
    OBVIOUS
  <2>2. queue' = Append(queue, m)
    BY <1>2
  <2> HIDE DEF m
  <2>3. /\ Len(queue') = Len(queue) + 1
        /\ \A i \in 1 .. Len(queue) : queue'[i] = queue[i]
        /\ queue'[Len(queue) + 1] = m
        /\ queue' # <<>>
    BY <1>q, <2>2
  <2>4. queue # <<>> => Head(queue') = Head(queue)
    BY <1>q, <2>2, <2>3
  <2>5. queue = <<>> => Head(queue') = m
    BY <1>q, <2>2, <2>3
  <2>6. \A i \in 1 .. Len(queue') : queue'[i].n = sends' - Len(queue') + i
    BY <1>q, <1>2, <2>1, <2>3 DEF GroupInv
  <2>7. \A i \in 2 .. Len(queue') : queue'[i].rc = 0
    BY <1>q, <2>1, <2>3 DEF GroupInv
  <2>8. queue' # <<>> /\ ~inflight' /\ Head(queue').rc > 0 => aged' >= Head(queue').n
    BY <1>q, <1>2, <2>1, <2>4, <2>5 DEF GroupInv
  <2>9. /\ aged' <= sends' /\ \A v \in Visits : lastSent'[v] <= sends'
        /\ \A d \in dlq' : d.n <= aged'
    BY <1>q, <1>2 DEF GroupInv
  <2>10. ASSUME NEW n \in Nat, NEW rc \in Nat, Given(queue, sends, n, rc)
         PROVE  /\ Given(queue', sends', n, rc)
                /\ Current(queue', inflight', n, rc) => Current(queue, inflight, n, rc)
    BY <1>q, <1>2, <2>1, <2>4, <2>5, <2>10 DEF Given, Current
  <2> QED BY <1>q, <1>2, <2>6, <2>7, <2>8, <2>9, <2>10 DEF Orderly, GroupInv
<1> QED BY <1>1, <1>2 DEF Send

LEMMA ReceiveOrderly == ASSUME TypeOK, GroupInv, ReceiveHead PROVE Orderly
<1>q. /\ queue \in Seq(Messages) /\ Len(queue) \in Nat /\ queue # <<>>
      /\ sends \in Nat /\ aged \in Nat
      /\ Len(queue) >= 1 /\ Head(queue) = queue[1] /\ queue[1] \in Messages
      /\ queue[1].rc \in Nat
  BY QueueFacts DEF ReceiveHead, CanReceive
<1>1. queue' = [queue EXCEPT ![1] = [queue[1] EXCEPT !.rc = @ + 1]] /\ inflight'
      /\ UNCHANGED <<dlq, sends, lastSent, aged>>
  BY DEF ReceiveHead
<1>u. inflight' /\ UNCHANGED <<dlq, sends, lastSent, aged>>
  BY <1>1
<1>2. [queue[1] EXCEPT !.rc = @ + 1].n = queue[1].n
      /\ [queue[1] EXCEPT !.rc = @ + 1].rc = queue[1].rc + 1
  BY <1>q DEF Messages
<1>3. QueueTypeOK'
  BY ReceiveHeadTypes, StoreParts DEF TypeOK
<1>4. [queue[1] EXCEPT !.rc = @ + 1] \in Messages
  <2>1. queue[1].rc + 1 \in 0 .. MaxReceive
    BY ReceiveHeadTypes, StoreParts, <1>q DEF TypeOK
  <2> QED BY <1>q, <2>1 DEF Messages
<1>5. PICK m \in Messages : m = [queue[1] EXCEPT !.rc = @ + 1]
  BY <1>4
<1>6. /\ Len(queue') = Len(queue)
      /\ queue'[1].n = queue[1].n /\ queue'[1].rc = queue[1].rc + 1
      /\ \A i \in 2 .. Len(queue) : queue'[i] = queue[i]
      /\ queue' \in Seq(Messages)
  <2>1. queue' = [queue EXCEPT ![1] = m] /\ 1 \in 1 .. Len(queue)
    BY <1>q, <1>1, <1>5
  <2>2. /\ [queue EXCEPT ![1] = m] \in Seq(Messages)
        /\ Len([queue EXCEPT ![1] = m]) = Len(queue)
        /\ \A j \in 1 .. Len(queue) :
              [queue EXCEPT ![1] = m][j] = IF j = 1 THEN m ELSE queue[j]
    BY <1>q, <2>1, ExceptSeq
  <2>3. /\ queue' \in Seq(Messages) /\ Len(queue') = Len(queue)
        /\ \A j \in 1 .. Len(queue) : queue'[j] = IF j = 1 THEN m ELSE queue[j]
    BY <2>1, <2>2, Zenon
  <2> QED BY <1>q, <1>2, <1>5, <2>1, <2>3
<1>7. Head(queue') = queue'[1]
  BY <1>q, <1>6
<1>8. \A i \in 1 .. Len(queue') : queue'[i].n = sends' - Len(queue') + i
  <2>1. \A i \in 1 .. Len(queue) : queue[i].n = sends - Len(queue) + i
    BY DEF GroupInv
  <2>2. \A i \in 1 .. Len(queue) : queue'[i].n = queue[i].n
    <3>1. \A i \in 1 .. Len(queue) : i = 1 \/ i \in 2 .. Len(queue)
      BY <1>q
    <3> QED BY <1>6, <3>1, Zenon
  <2>3. sends' = sends /\ Len(queue') = Len(queue)
    BY <1>u, <1>6
  <2> QED BY <2>1, <2>2, <2>3
<1>9. \A i \in 2 .. Len(queue') : queue'[i].rc = 0
  BY <1>q, <1>6 DEF GroupInv
<1>10. ASSUME NEW n \in Nat, NEW rc \in Nat, Given(queue, sends, n, rc)
       PROVE  /\ Given(queue', sends', n, rc)
              /\ Current(queue', inflight', n, rc) => Current(queue, inflight, n, rc)
  <2>1. queue[1].n \in Nat
    BY <1>q, QueueFacts
  <2> QED BY <1>q, <1>u, <1>6, <1>7, <1>10, <2>1 DEF Given, Current
<1>11. GroupInv'
  BY <1>u, <1>8, <1>9 DEF GroupInv
<1>12. sends <= sends' /\ aged <= aged'
  BY <1>q, <1>u
<1> QED BY <1>10, <1>11, <1>12, Zenon DEF Orderly

(* The head leaves, by a delete or for the dead letters. *)
LEMMA TailOrderly ==
    ASSUME TypeOK, GroupInv, queue # <<>>, queue' = Tail(queue), ~inflight',
           UNCHANGED <<sends, lastSent, aged>>, \A m \in dlq' : m.n <= aged
    PROVE  Orderly
<1>q. /\ queue \in Seq(Messages) /\ Len(queue) \in Nat
      /\ sends \in Nat /\ aged \in Nat
      /\ Len(queue) >= 1 /\ Head(queue) = queue[1] /\ queue[1] \in Messages
      /\ queue[1].n \in Nat
  BY QueueFacts
<1>1. /\ Len(queue') = Len(queue) - 1
      /\ \A i \in 1 .. Len(queue') : queue'[i] = queue[i + 1]
      /\ queue' # <<>> => Len(queue') >= 1 /\ Head(queue') = queue'[1]
  BY <1>q
<1>2. \A i \in 1 .. Len(queue') : queue'[i].n = sends' - Len(queue') + i /\ queue'[i].rc = 0
  BY <1>q, <1>1 DEF GroupInv
<1>3. queue' # <<>> => Head(queue').n = queue[1].n + 1 /\ Head(queue').rc = 0
  BY <1>q, <1>1, <1>2 DEF GroupInv
<1>4. GroupInv'
  BY <1>q, <1>1, <1>2, <1>3 DEF GroupInv
<1>5. ASSUME NEW n \in Nat, NEW rc \in Nat, Given(queue, sends, n, rc)
      PROVE  Given(queue', sends', n, rc) /\ ~Current(queue', inflight', n, rc)
  BY <1>q, <1>3, <1>5 DEF Given, Current
<1> QED BY <1>q, <1>4, <1>5 DEF Orderly

LEMMA DeleteOrderly == ASSUME TypeOK, GroupInv, NEW t, DeleteWith(t) PROVE Orderly
<1>q. sends \in Nat /\ aged \in Nat
  BY QueueFacts
<1>1. CASE Owns(t)
  BY <1>1, TailOrderly DEF DeleteWith, Owns, GroupInv
<1>2. CASE ~Owns(t)
  BY <1>q, <1>2 DEF DeleteWith, Orderly, GroupInv
<1> QED BY <1>1, <1>2

LEMMA RedriveOrderly == ASSUME TypeOK, GroupInv, Redrive PROVE Orderly
<1>q. Head(queue).rc \in Nat /\ aged \in Nat /\ Head(queue).n \in Nat
  BY QueueFacts DEF Redrive
<1>1. Head(queue).rc > 0
  BY <1>q, Bounds DEF Redrive
<1>2. aged >= Head(queue).n
  BY <1>1 DEF Redrive, GroupInv
<1>3. \A m \in dlq' : m.n <= aged
  BY <1>2, <1>q DEF Redrive, GroupInv
<1> QED BY <1>3, TailOrderly DEF Redrive

LEMMA ExpireOrderly == ASSUME TypeOK, GroupInv, Expire PROVE Orderly
<1>q. /\ Len(queue) \in Nat /\ sends \in Nat /\ aged \in Nat /\ queue # <<>>
      /\ Len(queue) >= 1 /\ Head(queue) = queue[1] /\ queue[1].n \in Nat
      /\ \A m \in dlq : m.n \in Nat
  BY QueueFacts DEF Expire
<1>1. Head(queue).n <= sends
  BY <1>q DEF GroupInv
<1>2. aged' \in Nat /\ aged' >= aged /\ aged' >= Head(queue).n /\ aged' <= sends
  BY <1>q, <1>1 DEF Expire, GroupInv
<1>u. ~inflight' /\ UNCHANGED <<queue, dlq, sends, lastSent>>
  BY DEF Expire
<1>3. \A m \in dlq : m.n <= aged'
  BY <1>q, <1>2 DEF GroupInv
<1>4. GroupInv'
  BY <1>u, <1>2, <1>3 DEF GroupInv
<1>5. sends <= sends' /\ aged <= aged'
  BY <1>q, <1>u, <1>2
<1> QED BY <1>u, <1>4, <1>5 DEF Orderly, Given, Current

(* Who changes the queue, and how, when no worker sleeps through its lease. *)
QueueMoves ==
    \/ UNCHANGED queueVars
    \/ \E id \in Visits : Send(id)
    \/ \E w \in Workers : Receive(w)
    \/ \E w \in Workers : pc[w] = "ack" /\ DeleteWith(task[w])
    \/ Expire /\ \A w \in Workers : ~Renewing(w)
    \/ Redrive
    \/ \E o \in Operators : /\ op[o].at = "discard" /\ dlq' = dlq \ {op[o].letter}
                            /\ UNCHANGED <<queue, inflight, sends, lastSent, aged>>

LEMMA NextMoves == ASSUME TypeOK, "pause" \notin FaultKinds, Next PROVE QueueMoves
<1>0. StartId \in Visits
  BY Bounds DEF StartId
<1>1. ASSUME NEW id \in Visits, SendFails(id) PROVE QueueMoves
  BY <1>1 DEF SendFails, QueueMoves
<1>2. ASSUME NEW id \in Visits, Send(id) PROVE QueueMoves
  BY <1>2 DEF QueueMoves
<1>3. CASE WorkerNext
  <2>1. CASE ExpireDelivery
    BY <2>1 DEF ExpireDelivery, Fault, QueueMoves
  <2>2. CASE RedriveMessage
    BY <2>2 DEF RedriveMessage, QueueMoves
  <2>3. ASSUME NEW w \in Workers, Acknowledge(w) PROVE QueueMoves
    BY <2>3 DEF Acknowledge, QueueMoves
  <2>4. ASSUME NEW w \in Workers, Run(w), ~Acknowledge(w) PROVE UNCHANGED queueVars
    BY <2>4 DEF Run, Received, WaitForLock, ReadJob, StartJob, ReadDecision, Admit, Work, OpenGate,
           Interrupt, Answer, ExportGate, PutReport, StampExport, Finalize, Commit, NothingPending,
           NodeRaises, AfterNode, CheckGateRow, RepairGateRow, RereadGateRow, FinaliseCheckpoint,
           FinaliseRow, ReconcileStatus, Unlock, Fallback
  <2>5. ASSUME NEW w \in Workers,
               LoseOwnership(w) \/ RequestShutdown(w) \/ Restart(w) \/ Crash(w)
        PROVE  UNCHANGED queueVars
    BY <2>5 DEF LoseOwnership, RequestShutdown, Restart, Crash, storeVars, queueVars
  <2> QED BY <1>3, <2>1, <2>2, <2>3, <2>4, <2>5 DEF WorkerNext, QueueMoves
<1>4. CASE ApiNext
  <2>1. \A r \in Reviewers : req[r].visit \in Visits
    BY DEF TypeOK, ApiTypeOK, Requests
  <2>2. ASSUME NEW r \in Reviewers, EnqueueResume(r) PROVE QueueMoves
    BY <2>1, <2>2, <1>1, <1>2 DEF EnqueueResume
  <2>3. CASE EnqueueStart
    BY <2>3, <1>0, <1>1, <1>2 DEF EnqueueStart
  <2>4. \/ UNCHANGED queueVars \/ EnqueueStart
        \/ \E r \in Reviewers : EnqueueResume(r)
    BY <1>4 DEF ApiNext, Submit, SubmitCrash, Handle, ReadRow, ReadVisit, ReadRecorded, Claim,
           Record, RequestDies, storeVars, queueVars
  <2> QED BY <2>2, <2>3, <2>4 DEF QueueMoves
<1>5. CASE OpNext
  <2>1. \A o \in Operators : op[o].letter.id \in Visits
    BY DEF TypeOK, OpTypeOK, Sessions, Letters
  <2>2. ASSUME NEW o \in Operators, Resend(o) PROVE QueueMoves
    BY <2>1, <2>2, <1>1, <1>2 DEF Resend
  <2>3. ASSUME NEW o \in Operators, Apply(o) \/ RequeueFails(o) PROVE QueueMoves
    BY <2>3, <1>0, <1>1, <1>2 DEF Apply, RequeueFails, QueueMoves
  <2>4. ASSUME NEW o \in Operators, Discard(o) PROVE QueueMoves
    BY <2>4 DEF Discard, QueueMoves
  <2>5. \/ UNCHANGED queueVars
        \/ \E o \in Operators : Resend(o) \/ Apply(o) \/ RequeueFails(o) \/ Discard(o)
    BY <1>5 DEF OpNext, Operate, ReadDeadLetters, TakeLetter, Reexport, SelectCandidate, Inspect,
           Note, ReachVerdict, ReexportPut, ReexportStamp, OperatorDies, storeVars, queueVars
  <2> QED BY <2>2, <2>3, <2>4, <2>5 DEF QueueMoves
<1> QED BY <1>3, <1>4, <1>5 DEF Next, WorkerStep, ApiStep, OpStep

LEMMA MovesAreOrderly == ASSUME TypeOK, GroupInv, QueueMoves PROVE Orderly
<1>q. sends \in Nat /\ aged \in Nat
  BY QueueFacts
<1>1. CASE UNCHANGED queueVars
  BY <1>q, <1>1 DEF queueVars, Orderly, GroupInv
<1>2. ASSUME NEW o \in Operators, dlq' = dlq \ {op[o].letter},
             UNCHANGED <<queue, inflight, sends, lastSent, aged>>
      PROVE  Orderly
  BY <1>q, <1>2 DEF Orderly, GroupInv
<1>3. ASSUME NEW w \in Workers, Receive(w) PROVE Orderly
  BY <1>3, ReceiveOrderly DEF Receive
<1> QED BY <1>1, <1>2, <1>3, SendOrderly, DeleteOrderly, ExpireOrderly, RedriveOrderly
       DEF QueueMoves

(* ... and to the job's last message: only the worker whose delivery it is takes it away. *)
LEMMA HeldStays ==
    ASSUME TypeOK, GroupInv, \A o \in Operators : LetterInv(o), QueueMoves, Held,
           \A w \in Workers : pc[w] = "ack" => ~Owns(task[w])
    PROVE  Held'
<1>q. /\ Len(queue) \in Nat /\ sends \in Nat /\ aged \in Nat
      /\ queue \in Seq(Messages)
      /\ queue # <<>> => Len(queue) >= 1 /\ Head(queue) = queue[1] /\ queue[1].n \in Nat
  BY QueueFacts
<1>1. CASE UNCHANGED queueVars
  BY <1>1 DEF queueVars, Held
<1>2. ASSUME NEW id \in Visits, Send(id) PROVE Held'
  <2>1. CASE UNCHANGED queueVars
    BY <2>1, <1>1
  <2>2. ASSUME NEW m, queue' = Append(queue, m) PROVE queue' # <<>>
    BY <1>q, <2>2
  <2> QED BY <1>2, <2>1, <2>2 DEF Send, Held
<1>3. ASSUME NEW w \in Workers, Receive(w) PROVE Held'
  <2>1. QueueTypeOK' /\ inflight'
    BY <1>3, ReceiveHeadTypes, StoreParts DEF TypeOK, Receive, ReceiveHead
  <2> QED BY <2>1 DEF QueueTypeOK, Held
<1>4. ASSUME NEW w \in Workers, pc[w] = "ack", DeleteWith(task[w]) PROVE Held'
  BY <1>4 DEF DeleteWith, Held
<1>5. CASE Expire
  BY <1>5, QueueFacts DEF Expire, Held
<1>6. CASE Redrive
  <2>1. aged >= Head(queue).n /\ queue # <<>>
    <3>1. Head(queue).rc \in Nat /\ Head(queue).rc > 0
      BY <1>6, QueueFacts, Bounds DEF Redrive
    <3> QED BY <1>6, <3>1 DEF Redrive, GroupInv
  <2>2. CASE Len(queue) = 1
    <3>1. Head(queue).n = sends
      BY <1>q, <2>1, <2>2 DEF GroupInv
    <3>2. aged = sends
      BY <1>q, <2>1, <3>1 DEF GroupInv
    <3> QED BY <1>6, <3>1, <3>2 DEF Redrive, Held
  <2>3. CASE Len(queue) # 1
    <3>1. Tail(queue) # <<>>
      <4>1. Len(Tail(queue)) = Len(queue) - 1
        BY <1>q, <2>1
      <4>2. Tail(queue) \in Seq(Messages)
        BY <1>q, <2>1
      <4> QED BY <1>q, <2>1, <2>3, <4>1, <4>2
    <3>2. queue' = Tail(queue)
      BY <1>6 DEF Redrive
    <3> QED BY <3>1, <3>2, Zenon DEF Held
  <2> QED BY <2>2, <2>3
<1>7. ASSUME NEW o \in Operators, op[o].at = "discard", dlq' = dlq \ {op[o].letter},
             UNCHANGED <<queue, inflight, sends, lastSent, aged>>
      PROVE  Held'
  <2>1. op[o].letter.n < sends
    BY <1>7 DEF LetterInv
  <2>2. \A m \in dlq : m.n = sends => m # op[o].letter
    BY <1>q, <2>1
  <2> QED BY <1>7, <2>2 DEF Held
<1> QED BY <1>1, <1>2, <1>3, <1>4, <1>5, <1>6, <1>7 DEF QueueMoves

(* A receipt that is renewed stays current, unless it is another's too. *)
LEMMA CurrentStays ==
    ASSUME TypeOK, QueueMoves, NEW w \in Workers, Renewing(w),
           \A x \in Workers : pc[x] = "ack" => ~Owns(task[x])
    PROVE  Current(queue', inflight', task[w].n, task[w].rc)
<1>q. queue \in Seq(Messages) /\ queue # <<>> /\ inflight
  BY QueueFacts DEF Renewing, Owns
<1>0. Head(queue).n = task[w].n /\ Head(queue).rc = task[w].rc
  BY DEF Renewing, Owns
<1>1. CASE UNCHANGED <<queue, inflight>>
  BY <1>1, <1>q, <1>0 DEF Current
<1>2. ASSUME NEW id \in Visits, Send(id)
      PROVE  Current(queue', inflight', task[w].n, task[w].rc)
  <2>1. CASE UNCHANGED queueVars
    BY <2>1, <1>1 DEF queueVars
  <2>2. ASSUME NEW m, queue' = Append(queue, m)
        PROVE  queue' # <<>> /\ Head(queue') = Head(queue)
    BY <1>q, <2>2
  <2>3. CASE UNCHANGED inflight /\ \E m : queue' = Append(queue, m)
    BY <1>q, <1>0, <2>2, <2>3 DEF Current
  <2> QED BY <1>2, <2>1, <2>3 DEF Send
<1> QED BY <1>1, <1>2, <1>q DEF QueueMoves, queueVars, Receive, ReceiveHead, CanReceive, DeleteWith,
           Redrive

-----------------------------------------------------------------------------
(* The checkpoint: what the graph holds is taken back by an answer at the gate only.          *)

Lasts == /\ CheckpointTerminal => CheckpointTerminal'
         /\ EndIsTerminal'
         /\ ckpt.node # "absent" => ckpt'.node # "absent"
StillWaits == WaitingAtTheGate => WaitingAtTheGate' \/ CheckpointTerminal'

LEMMA SameCheckpointLasts == ASSUME EndIsTerminal, UNCHANGED ckpt PROVE Lasts /\ StillWaits
BY DEF Lasts, StillWaits, EndIsTerminal, CheckpointTerminal, WaitingAtTheGate

LEMMA CheckpointLasts ==
    ASSUME TypeOK, ExecutionInv, EndIsTerminal,
           \A w \in Workers : pc[w] = "commit" => task[w].outcome \in Terminal,
           Next
    PROVE  Lasts /\ (StillWaits \/ \E w \in Workers : Answer(w))
<1>t. ckpt \in Ckpts /\ JobInv
  BY DEF TypeOK, StoreTypeOK, ExecutionInv
<1>1. ASSUME NEW w \in Workers, Admit(w) PROVE Lasts /\ StillWaits
  <2>1. task[w].input = "new" => ckpt.node = "absent"
    BY <1>1 DEF Admit, ExecutionInv, WorkerInv
  <2>2. CASE task[w].input # "new" \/ UNCHANGED ckpt
    BY <1>1, <2>2, SameCheckpointLasts DEF Admit
  <2>3. CASE task[w].input = "new" /\ ~UNCHANGED ckpt
    <3>1. ckpt' = [NoCheckpoint EXCEPT !.node = "work"]
      BY <1>1, <2>3, Zenon DEF Admit
    <3> QED BY <1>t, <2>1, <2>3, <3>1
           DEF NoCheckpoint, JobInv, WaitingAtTheGate, Lasts, StillWaits, EndIsTerminal,
               CheckpointTerminal
  <2> QED BY <2>2, <2>3
<1>2. ASSUME NEW w \in Workers, Work(w) PROVE Lasts /\ StillWaits
  <2>0. ckpt.node = "work" /\ ~WaitingAtTheGate
    BY <1>t, <1>2 DEF Work, JobInv
  <2>1. /\ ckpt'.node \in {"work", "human_gate", "finalize"}
        /\ ckpt'.status \in {ckpt.status, "failed"}
    <3>1. ASSUME NEW next \in {"work", "finalize"}, NEW spent \in {0, 1},
                 ckpt' = [ckpt EXCEPT !.calls = @ + spent, !.pending = "none", !.node = next,
                                      !.status = "failed", !.reason = "graph"]
          PROVE  ckpt'.node = next /\ ckpt'.status = "failed"
      BY <1>t, <3>1 DEF Ckpts
    <3>2. ASSUME \/ ckpt' = [ckpt EXCEPT !.calls = @ + 1, !.pending = "none"]
                 \/ ckpt' = [ckpt EXCEPT !.calls = @ + 1, !.pending = "none",
                                         !.node = "human_gate"]
                 \/ ckpt' = [ckpt EXCEPT !.calls = @ + 1, !.pending = "none",
                                         !.node = "human_gate", !.cited = FALSE]
                 \/ ckpt' = [ckpt EXCEPT !.node = "finalize", !.pending = "none"]
          PROVE  /\ ckpt'.node \in {"work", "human_gate", "finalize"}
                 /\ ckpt'.status = ckpt.status
      BY <1>t, <2>0, <3>2 DEF Ckpts
    <3> QED BY <1>2, <3>1, <3>2 DEF Work
  <2> QED BY <2>0, <2>1 DEF Lasts, StillWaits, EndIsTerminal, CheckpointTerminal, Terminal
<1>3. ASSUME NEW w \in Workers, Interrupt(w) PROVE Lasts /\ StillWaits
  <2>1. ckpt.node = "human_gate" /\ ckpt' = [ckpt EXCEPT !.pending = "interrupt"]
    BY <1>3 DEF Interrupt, ExecutionInv, WorkerInv
  <2> QED BY <1>t, <2>1 DEF Ckpts, Lasts, StillWaits, EndIsTerminal, CheckpointTerminal,
                            WaitingAtTheGate
<1>4. ASSUME NEW w \in Workers, Answer(w) PROVE Lasts
  <2>1. /\ ckpt.node = "human_gate"
        /\ \/ ckpt' = [ckpt EXCEPT !.pending = "none", !.node = "export"]
           \/ ckpt' = [ckpt EXCEPT !.pending = "none", !.node = "finalize", !.status = "rejected"]
           \/ ckpt' = [ckpt EXCEPT !.pending = "none", !.node = "work", !.cited = TRUE]
    BY <1>4 DEF Answer, ExecutionInv, WorkerInv
  <2> QED BY <1>t, <2>1 DEF Ckpts, Lasts, EndIsTerminal, CheckpointTerminal, Terminal
<1>5. ASSUME NEW w \in Workers, Commit(w),
             \A v \in Workers : pc[v] = "commit" => task[v].outcome \in Terminal
      PROVE  Lasts /\ StillWaits
  <2>1. /\ task[w].outcome \in Terminal
        /\ ckpt.node \in {"export", "finalize"}
    BY <1>5 DEF Commit, ExecutionInv, WorkerInv
  <2>2. ckpt'.status = task[w].outcome /\ ckpt'.node \in {"finalize", "end"}
    BY <1>t, <1>5 DEF Commit, Ckpts
  <2> QED BY <1>t, <2>1, <2>2 DEF JobInv, Lasts, StillWaits, EndIsTerminal, CheckpointTerminal
<1>6. ASSUME NEW w \in Workers, NodeRaises(w) PROVE Lasts /\ StillWaits
  <2>1. ckpt' = [ckpt EXCEPT !.pending = IF @ = "none" THEN "error" ELSE @]
    BY <1>6 DEF NodeRaises
  <2> QED BY <1>t, <2>1 DEF Ckpts, Lasts, StillWaits, EndIsTerminal, CheckpointTerminal,
                            WaitingAtTheGate
<1>7. ASSUME NEW w \in Workers, FinaliseCheckpoint(w) PROVE Lasts /\ StillWaits
  <2>1. \/ UNCHANGED ckpt
        \/ ckpt' = [NoCheckpoint EXCEPT !.node = "stub", !.status = "failed",
                                        !.reason = task[w].why]
        \/ ckpt.node # "absent" /\ FailCheckpoint(task[w].why)
    BY <1>7 DEF FinaliseCheckpoint, FailAbsentCheckpoint
  <2>2. CASE ckpt' = [NoCheckpoint EXCEPT !.node = "stub", !.status = "failed",
                                          !.reason = task[w].why]
    BY <2>2 DEF NoCheckpoint, Lasts, StillWaits, EndIsTerminal, CheckpointTerminal, Terminal
  <2>3. CASE ckpt.node # "absent" /\ FailCheckpoint(task[w].why)
    <3>1. ckpt'.status = "failed" /\ ckpt'.node # "absent"
      BY <1>t, <2>3 DEF FailCheckpoint, Ckpts
    <3> QED BY <3>1 DEF Lasts, StillWaits, EndIsTerminal, CheckpointTerminal, Terminal
  <2> QED BY <2>1, <2>2, <2>3, SameCheckpointLasts
<1>8. \/ UNCHANGED ckpt
      \/ \E w \in Workers : \/ Admit(w) \/ Work(w) \/ Interrupt(w) \/ Answer(w) \/ Commit(w)
                            \/ NodeRaises(w) \/ FinaliseCheckpoint(w)
  <2>1. CASE WorkerNext
    BY <2>1 DEF WorkerNext, Run, Receive, Received, WaitForLock, ReadJob, StartJob, ReadDecision,
         OpenGate, ExportGate, PutReport, StampExport, Finalize, NothingPending, AfterNode,
         CheckGateRow, RepairGateRow, RereadGateRow, FinaliseRow, ReconcileStatus, Unlock,
         Acknowledge, Fallback, LoseOwnership, RequestShutdown, Restart, Crash, ExpireDelivery,
         RedriveMessage, Redrive, storeVars
  <2> QED BY <2>1, OthersKeepTheCheckpoint DEF Next, WorkerStep, ApiStep, OpStep
<1> QED BY <1>1, <1>2, <1>3, <1>4, <1>5, <1>6, <1>7, <1>8, SameCheckpointLasts

LEMMA SettledLasts ==
    ASSUME TypeOK, ExecutionInv, EndIsTerminal, Settled,
           \A w \in Workers : pc[w] = "commit" => task[w].outcome \in Terminal,
           Next, \A w \in Workers : ~Answer(w)
    PROVE  Settled'
<1>1. Lasts /\ StillWaits
  BY CheckpointLasts
<1>2. RowIsFinal
  BY WorkerRowIsFinal, ApiRowIsFinal, SweepRowIsFinal DEF Next, WorkerStep, ApiStep, OpStep
<1> QED BY <1>1, <1>2 DEF Settled, Lasts, StillWaits, RowIsFinal

(* A queued job without a checkpoint is left so by every step outside the lock's region that *)
(* does not end it.                                                                          *)
LEMMA StartableLasts ==
    ASSUME TypeOK, ExecutionInv, Startable, Next, \A w \in Workers : ~InRegion(w),
           \A o \in Operators : LetterInv(o)
    PROVE  Startable' \/ Settled'
<1>t. row \in Rows /\ row.status = "queued" /\ ckpt.node = "absent"
  BY DEF TypeOK, StoreTypeOK, Startable
<1>0. \A w \in Workers : pc[w] \notin Executing \ {"finalise", "finish"}
  BY DEF InRegion
<1>1. ASSUME NEW w \in Workers, Run(w) PROVE Startable' \/ Settled'
  <2>1. \/ UNCHANGED <<row, ckpt>> \/ FinaliseCheckpoint(w) \/ FinaliseRow(w)
    BY <1>0, <1>1 DEF Run, Received, WaitForLock, ReadJob, StartJob, ReadDecision,
         Admit, Work, OpenGate, Interrupt, Answer, ExportGate, PutReport, StampExport, Finalize,
         Commit, NothingPending, NodeRaises, AfterNode, CheckGateRow, RepairGateRow, RereadGateRow,
         ReconcileStatus, Unlock, Acknowledge, Fallback, Executing, Labels, Heartbeat, InNode
  <2>2. CASE FinaliseCheckpoint(w)
    <3>1. UNCHANGED row
          /\ \/ UNCHANGED ckpt
             \/ ckpt' = [NoCheckpoint EXCEPT !.node = "stub", !.status = "failed",
                                             !.reason = task[w].why]
      BY <1>t, <2>2 DEF FinaliseCheckpoint, FailAbsentCheckpoint
    <3> QED BY <3>1, <1>t DEF NoCheckpoint, Startable, Settled, CheckpointTerminal, Terminal
  <2>3. CASE FinaliseRow(w)
    <3>1. UNCHANGED ckpt /\ (FinishJob("failed") \/ UNCHANGED row)
      BY <2>3 DEF FinaliseRow, dbVars
    <3> QED BY <3>1, <1>t, FinishJobEffect DEF Startable, Settled
  <2> QED BY <1>t, <2>1, <2>2, <2>3 DEF Startable
<1>2. CASE WorkerNext /\ \A w \in Workers : ~Run(w)
  <2>1. UNCHANGED <<row, ckpt>>
    BY <1>2 DEF WorkerNext, Receive, LoseOwnership, RequestShutdown, Restart, Crash,
         ExpireDelivery, RedriveMessage, Redrive, storeVars
  <2> QED BY <1>t, <2>1 DEF Startable
<1>3. CASE ApiNext
  <2>1. UNCHANGED <<row, ckpt>>
    BY <1>t, <1>3 DEF ApiNext, Submit, CreateJob, EnqueueStart, SubmitCrash, Handle, ReadRow,
         ReadVisit, ReadRecorded, Claim, ClaimGate, CanClaim, Record, EnqueueResume, RequestDies,
         storeVars
  <2> QED BY <1>t, <2>1 DEF Startable
<1>4. CASE OpNext
  <2>1. UNCHANGED ckpt
    BY <1>4, OthersKeepTheCheckpoint
  <2>2. ASSUME NEW o \in Operators, Apply(o) PROVE Startable' \/ Settled'
    <3>1. \/ UNCHANGED row \/ \E s : FinishJob(s)
      BY <1>t, <2>2 DEF Apply, LetterInv, dbVars
    <3> QED BY <1>t, <2>1, <3>1, FinishJobEffect DEF Startable, Settled
  <2>3. ASSUME NEW o \in Operators, ReexportStamp(o) PROVE Startable'
    <3>1. row'.status = row.status
      BY <1>t, <2>3 DEF ReexportStamp, Rows
    <3> QED BY <1>t, <2>1, <3>1 DEF Startable
  <2>4. UNCHANGED row \/ \E o \in Operators : Apply(o) \/ ReexportStamp(o)
    BY <1>4 DEF OpNext, Operate, ReadDeadLetters, TakeLetter, Reexport, SelectCandidate, Inspect,
         RequeueFails, Note, ReachVerdict, Resend, Discard, ReexportPut, OperatorDies, storeVars
  <2> QED BY <1>t, <2>1, <2>2, <2>3, <2>4 DEF Startable
<1> QED BY <1>1, <1>2, <1>3, <1>4 DEF Next, WorkerStep, ApiStep, OpStep

(* Nothing has run before the row exists. *)
LEMMA SubmittedFirst ==
    ASSUME TypeOK, Unsubmitted, row.status = "none", ckpt.node = "absent", Next
    PROVE  UNCHANGED ckpt /\ (row'.status = "none" \/ Startable')
<1>t. row \in Rows
  BY DEF TypeOK, StoreTypeOK
<1>1. CASE WorkerNext
  <2>1. UNCHANGED row
    BY <1>1, WorkersWaitForARow
  <2>2. UNCHANGED ckpt
    <3>1. ASSUME NEW w \in Workers, pc[w] = "idle", Run(w) PROVE FALSE
      BY <3>1 DEF Run, Received, WaitForLock, ReadJob, StartJob, ReadDecision, Admit,
         Work, OpenGate, Interrupt, Answer, ExportGate, PutReport, StampExport, Finalize, Commit,
         NothingPending, NodeRaises, AfterNode, CheckGateRow, RepairGateRow, RereadGateRow,
         FinaliseCheckpoint, FinaliseRow, ReconcileStatus, Unlock, Acknowledge, Fallback, InNode
    <3>2. \A w \in Workers : ~Run(w)
      BY <3>1 DEF Unsubmitted
    <3> QED BY <1>1, <3>2 DEF WorkerNext, Receive, LoseOwnership, RequestShutdown, Restart,
               Crash, ExpireDelivery, RedriveMessage, Redrive, storeVars
  <2> QED BY <2>1, <2>2
<1>2. CASE ApiNext \/ OpNext
  <2>1. Submit /\ UNCHANGED ckpt
    BY <1>2, OthersWaitForARow, OthersKeepTheCheckpoint
  <2> QED BY <1>t, <2>1 DEF Submit, CreateJob, Rows, Startable
<1> QED BY <1>1, <1>2 DEF Next, WorkerStep, ApiStep, OpStep

-----------------------------------------------------------------------------
(* One delivery, from one step of its worker to the next.                  *)

OwnMove(w) ==
    /\ pc[w] # "idle"
    /\ \/ pc'[w] = "idle" /\ task'[w] = NoTask
       \/ task'[w].n = task[w].n /\ task'[w].rc = task[w].rc
    /\ pc'[w] \in {"received", "wait"} => pc[w] = "received" /\ task'[w] = task[w]
    /\ task'[w].ack => pc'[w] \in Acked
    /\ pc'[w] = "commit" => task'[w].outcome \in Terminal
    /\ InRegion(w)' => InRegion(w) \/ (pc[w] = "wait" /\ ~task[w].lost /\ UNCHANGED queueVars)
    /\ pc'[w] = "ack" => pc[w] = "unlock" /\ Acknowledges(task[w]) /\ task'[w] = task[w]
    /\ task'[w].ack /\ pc'[w] \in {"reconcile", "unlock"} => pc[w] \in Executing

LEMMA FieldsKept ==
    ASSUME TypeOK, NEW w \in Workers, NEW x
    PROVE  /\ LET t == [task[w] EXCEPT !.input = x]
              IN  t.n = task[w].n /\ t.rc = task[w].rc /\ t.ack = task[w].ack
           /\ LET t == [task[w] EXCEPT !.outcome = x]
              IN  t.n = task[w].n /\ t.rc = task[w].rc /\ t.ack = task[w].ack /\ t.outcome = x
           /\ LET t == [task[w] EXCEPT !.back = x]
              IN  t.n = task[w].n /\ t.rc = task[w].rc /\ t.ack = task[w].ack
           /\ LET t == [task[w] EXCEPT !.raised = x]
              IN  t.n = task[w].n /\ t.rc = task[w].rc /\ t.ack = task[w].ack
           /\ LET t == [task[w] EXCEPT !.ack = x]
              IN  t.n = task[w].n /\ t.rc = task[w].rc /\ t.ack = x
<1>1. task[w] \in Tasks
  BY DEF TypeOK, WorkerTypeOK
<1> QED BY <1>1 DEF Tasks

LEMMA EndingKept ==
    ASSUME TypeOK, NEW w \in Workers
    PROVE  /\ Raise(w) => /\ task'[w].n = task[w].n /\ task'[w].rc = task[w].rc
                          /\ pc'[w] \in {"finalise", "unlock"}
                          /\ pc'[w] = "finalise" => task'[w].back = "unlock"
           /\ \A x, y : CallFinalise(w, x, y) =>
                 /\ task'[w].n = task[w].n /\ task'[w].rc = task[w].rc
                 /\ pc'[w] = "finalise" /\ task'[w].back = y
<1>t. task[w] \in Tasks
  BY DEF TypeOK, WorkerTypeOK
<1>1. ASSUME Raise(w)
      PROVE  /\ task'[w].n = task[w].n /\ task'[w].rc = task[w].rc
             /\ pc'[w] \in {"finalise", "unlock"}
             /\ pc'[w] = "finalise" => task'[w].back = "unlock"
  <2> DEFINE t == [task[w] EXCEPT !.raised = TRUE, !.ack = FALSE]
             u == [t EXCEPT !.why = "job_dead_lettered", !.back = "unlock"]
  <2>1. /\ t.n = task[w].n /\ t.rc = task[w].rc
        /\ u.n = task[w].n /\ u.rc = task[w].rc /\ u.back = "unlock"
    BY <1>t DEF Tasks
  <2>2. GoWith(w, "finalise", u) \/ GoWith(w, "unlock", t)
    BY <1>1 DEF Raise
  <2>3. \/ pc'[w] = "finalise" /\ task'[w] = u
        \/ pc'[w] = "unlock" /\ task'[w] = t
    BY <2>2, GoWithEffect
  <2> QED BY <2>1, <2>3
<1>2. ASSUME NEW x, NEW y, CallFinalise(w, x, y)
      PROVE  /\ task'[w].n = task[w].n /\ task'[w].rc = task[w].rc
             /\ pc'[w] = "finalise" /\ task'[w].back = y
  <2>1. /\ task'[w] = [task[w] EXCEPT !.why = x, !.back = y, !.ack = FALSE]
        /\ pc'[w] = "finalise"
    BY <1>2, GoWithEffect DEF CallFinalise
  <2> QED BY <1>t, <2>1 DEF Tasks
<1> QED BY <1>1, <1>2

(* Under the lock with a message to return to. *)
Onward == {"row", "start", "decide", "admit", "node", "opened", "put", "stamp", "after",
           "gateack", "regate", "reread", "reconcile", "unlock"}

LEMMA LabelsApart ==
    /\ Executing = (Onward \ {"unlock"}) \cup {"commit", "finalise", "finish"}
    /\ Acked \cap Executing = {"reconcile"}
BY DEF Onward, Acked, Executing, Labels, Heartbeat, InNode

LEMMA RegionMove ==
    ASSUME TypeOK, NEW w \in Workers, Run(w), pc[w] \in Executing \ {"finalise", "finish"},
           task[w].ack => pc[w] \in Acked
    PROVE  OwnMove(w)
<1>0. /\ task[w].ack => pc[w] = "reconcile"
      /\ InRegion(w) /\ pc[w] \notin {"idle", "received", "wait", "unlock", "ack", "fallback"}
      /\ pc[w] \in Executing
      /\ task[w].back \in {"unlock", "reconcile"}
  BY LabelsApart DEF InRegion, Executing, TypeOK, WorkerTypeOK, Tasks
<1>1. \/ \E l \in Onward : Go(w, l) /\ (pc[w] = "reconcile" => l = "unlock")
      \/ pc[w] # "reconcile" /\ \E l \in Onward : \E x :
            \/ GoWith(w, l, [task[w] EXCEPT !.input = x])
            \/ GoWith(w, l, [task[w] EXCEPT !.back = x])
            \/ GoWith(w, l, [task[w] EXCEPT !.raised = x])
      \/ \E l \in {"reconcile", "unlock"} : \E x : GoWith(w, l, [task[w] EXCEPT !.ack = x])
      \/ /\ pc[w] # "reconcile"
         /\ \E x \in Terminal : GoWith(w, "commit", [task[w] EXCEPT !.outcome = x])
      \/ Raise(w) \/ \E x, y : CallFinalise(w, x, y)
  <2>1. CASE ReadJob(w) \/ StartJob(w) \/ ReadDecision(w) \/ Admit(w) \/ Work(w)
    BY <2>1 DEF ReadJob, StartJob, ReadDecision, Admit, Work, Onward
  <2>2. CASE OpenGate(w) \/ Interrupt(w) \/ Answer(w) \/ Commit(w) \/ NothingPending(w)
    BY <2>2 DEF OpenGate, Interrupt, Answer, Commit, NothingPending, Onward
  <2>3. CASE ExportGate(w) \/ PutReport(w) \/ StampExport(w)
    BY <2>3 DEF ExportGate, PutReport, StampExport, Onward, Terminal
  <2>4. CASE Finalize(w)
    BY <2>4 DEF Finalize, Terminal
  <2>5. CASE NodeRaises(w)
    BY <2>5 DEF NodeRaises, InNode, Onward
  <2>6. CASE AfterNode(w)
    BY <2>6 DEF AfterNode, Onward
  <2>7. CASE CheckGateRow(w) \/ RepairGateRow(w) \/ RereadGateRow(w)
    BY <1>0, <2>7 DEF CheckGateRow, RepairGateRow, RereadGateRow, Return, Onward
  <2>8. CASE ReconcileStatus(w)
    BY <2>8 DEF ReconcileStatus, Onward
  <2> QED BY <1>0, <2>1, <2>2, <2>3, <2>4, <2>5, <2>6, <2>7, <2>8
         DEF Run, Received, WaitForLock, FinaliseCheckpoint, FinaliseRow, Unlock, Acknowledge,
             Fallback
<1>2. ASSUME NEW l \in Onward, Go(w, l), pc[w] = "reconcile" => l = "unlock"
      PROVE  OwnMove(w)
  <2>1. pc'[w] = l /\ task'[w] = task[w]
    BY <1>2, EndingEffect
  <2> QED BY <1>0, <1>2, <2>1 DEF OwnMove, Onward, Acked
<1>3. ASSUME NEW l \in Onward, NEW x, pc[w] # "reconcile",
             \/ GoWith(w, l, [task[w] EXCEPT !.input = x])
             \/ GoWith(w, l, [task[w] EXCEPT !.back = x])
             \/ GoWith(w, l, [task[w] EXCEPT !.raised = x])
      PROVE  OwnMove(w)
  <2>0. /\ pc'[w] = l
        /\ \/ task'[w] = [task[w] EXCEPT !.input = x]
           \/ task'[w] = [task[w] EXCEPT !.back = x]
           \/ task'[w] = [task[w] EXCEPT !.raised = x]
    BY <1>3, GoWithEffect
  <2>1. pc'[w] = l /\ ~task'[w].ack /\ task'[w].n = task[w].n /\ task'[w].rc = task[w].rc
    <3>1. /\ task'[w].n = task[w].n /\ task'[w].rc = task[w].rc
          /\ task'[w].ack = task[w].ack
      <4>1. CASE task'[w] = [task[w] EXCEPT !.input = x]
        BY <4>1, FieldsKept
      <4>2. CASE task'[w] = [task[w] EXCEPT !.back = x]
        BY <4>2, FieldsKept
      <4>3. CASE task'[w] = [task[w] EXCEPT !.raised = x]
        BY <4>3, FieldsKept
      <4> QED BY <2>0, <4>1, <4>2, <4>3
    <3>2. ~task[w].ack
      BY <1>0, <1>3
    <3> QED BY <2>0, <3>1, <3>2
  <2> QED BY <1>0, <1>3, <2>1 DEF OwnMove, Onward, Acked
<1>4. ASSUME NEW l \in {"reconcile", "unlock"}, NEW x, GoWith(w, l, [task[w] EXCEPT !.ack = x])
      PROVE  OwnMove(w)
  <2>0. pc'[w] = l /\ task'[w] = [task[w] EXCEPT !.ack = x]
    BY <1>4, GoWithEffect
  <2>1. pc'[w] = l /\ task'[w].n = task[w].n /\ task'[w].rc = task[w].rc
    BY <2>0, FieldsKept
  <2> QED BY <1>0, <1>4, <2>1 DEF OwnMove, Acked
<1>5. ASSUME NEW x \in Terminal, pc[w] # "reconcile",
             GoWith(w, "commit", [task[w] EXCEPT !.outcome = x])
      PROVE  OwnMove(w)
  <2>1. /\ pc'[w] = "commit" /\ ~task'[w].ack /\ task'[w].outcome = x
        /\ task'[w].n = task[w].n /\ task'[w].rc = task[w].rc
    <3>1. pc'[w] = "commit" /\ task'[w] = [task[w] EXCEPT !.outcome = x]
      BY <1>5, GoWithEffect
    <3> QED BY <1>0, <1>5, <3>1, FieldsKept
  <2> QED BY <1>0, <1>5, <2>1 DEF OwnMove
<1>6. ASSUME Raise(w) \/ \E x, y : CallFinalise(w, x, y) PROVE OwnMove(w)
  <2>1. /\ pc'[w] \in {"finalise", "unlock"} /\ ~task'[w].ack
        /\ task'[w].n = task[w].n /\ task'[w].rc = task[w].rc
    BY <1>6, EndingKept, AckCleared
  <2> QED BY <1>0, <2>1 DEF OwnMove
<1> QED BY <1>1, <1>2, <1>3, <1>4, <1>5, <1>6

LEMMA FinaliseMove ==
    ASSUME TypeOK, NEW w \in Workers, FinaliseCheckpoint(w) \/ FinaliseRow(w),
           task[w].ack => pc[w] \in Acked
    PROVE  OwnMove(w)
<1>0. /\ pc[w] \in {"finalise", "finish"} /\ ~task[w].ack /\ pc[w] \in Executing
      /\ InRegion(w) <=> task[w].back = "reconcile"
      /\ task[w].back \in {"unlock", "reconcile"}
  BY LabelsApart
     DEF FinaliseCheckpoint, FinaliseRow, InRegion, Acked, TypeOK, WorkerTypeOK, Tasks
<1>1. Go(w, "finish") \/ \E x : Return(w, x)
  BY DEF FinaliseCheckpoint, FinaliseRow
<1>2. CASE Go(w, "finish")
  <2>1. pc'[w] = "finish" /\ task'[w] = task[w]
    BY <1>2, EndingEffect
  <2> QED BY <1>0, <2>1 DEF OwnMove, InRegion, Executing
<1>3. ASSUME NEW x, Return(w, x) PROVE OwnMove(w)
  <2>1. pc'[w] = task[w].back /\ task'[w].n = task[w].n /\ task'[w].rc = task[w].rc
    <3>1. pc'[w] = task[w].back /\ task'[w] = [task[w] EXCEPT !.ack = x]
      BY <1>3, GoWithEffect DEF Return
    <3> QED BY <3>1, FieldsKept
  <2> QED BY <1>0, <2>1 DEF OwnMove, InRegion, Executing, Acked
<1> QED BY <1>1, <1>2, <1>3

LEMMA OutsideMove ==
    ASSUME TypeOK, NEW w \in Workers,
           Received(w) \/ WaitForLock(w) \/ Unlock(w) \/ Acknowledge(w) \/ Fallback(w),
           task[w].ack => pc[w] \in Acked
    PROVE  OwnMove(w)
<1>1. CASE Received(w)
  <2>1. pc[w] = "received" /\ pc'[w] \in {"idle", "wait", "fallback"} /\ task'[w] = task[w]
    BY <1>1, EndingEffect DEF Received
  <2> QED BY <2>1 DEF OwnMove, InRegion, Executing, Acked
<1>2. CASE WaitForLock(w)
  <2>1. /\ pc[w] = "wait" /\ task'[w] = task[w] /\ UNCHANGED queueVars
        /\ pc'[w] = "unlock" \/ (pc'[w] = "row" /\ ~task[w].lost)
    BY <1>2, EndingEffect DEF WaitForLock, Relinquish
  <2> QED BY <2>1 DEF OwnMove, InRegion, Executing, Acked
<1>3. CASE Unlock(w)
  <2>1. /\ pc[w] = "unlock"
        /\ \/ pc'[w] = "ack" /\ Acknowledges(task[w]) /\ task'[w] = task[w]
           \/ pc'[w] = "idle" /\ task'[w] = NoTask
    BY <1>3, GoWithEffect, EndingEffect DEF Unlock
  <2> QED BY <2>1 DEF OwnMove, InRegion, Executing, Acked
<1>4. CASE Acknowledge(w)
  <2>1. /\ pc[w] = "ack"
        /\ \/ pc'[w] = "fallback" /\ task'[w] = task[w]
           \/ pc'[w] = "idle" /\ task'[w] = NoTask
    BY <1>4, GoWithEffect, EndingEffect DEF Acknowledge
  <2> QED BY <2>1 DEF OwnMove, InRegion, Executing, Acked
<1>5. CASE Fallback(w)
  <2>1. /\ pc[w] = "fallback"
        /\ \/ CallFinalise(w, "job_dead_lettered", "unlock")
           \/ pc'[w] = "idle" /\ task'[w] = NoTask
    BY <1>5, GoWithEffect DEF Fallback
  <2>2. CASE CallFinalise(w, "job_dead_lettered", "unlock")
    <3>1. /\ task'[w].n = task[w].n /\ task'[w].rc = task[w].rc
          /\ pc'[w] = "finalise" /\ task'[w].back = "unlock" /\ ~task'[w].ack
      BY <2>2, EndingKept, AckCleared
    <3> QED BY <2>1, <3>1 DEF OwnMove, InRegion, Executing
  <2> QED BY <2>1, <2>2 DEF OwnMove, InRegion, Executing, Acked
<1> QED BY <1>1, <1>2, <1>3, <1>4, <1>5

LEMMA RunMoves ==
    ASSUME TypeOK, NEW w \in Workers, Run(w), task[w].ack => pc[w] \in Acked
    PROVE  OwnMove(w)
<1>1. CASE pc[w] \in Executing \ {"finalise", "finish"}
  BY <1>1, RegionMove
<1>2. CASE pc[w] \notin Executing \ {"finalise", "finish"}
  <2>1. \/ Received(w) \/ WaitForLock(w) \/ FinaliseCheckpoint(w) \/ FinaliseRow(w)
        \/ Unlock(w) \/ Acknowledge(w) \/ Fallback(w)
    BY <1>2 DEF Run, ReadJob, StartJob, ReadDecision, Admit, Work, OpenGate, Interrupt, Answer,
           ExportGate, PutReport, StampExport, Finalize, Commit, NothingPending, NodeRaises,
           AfterNode, CheckGateRow, RepairGateRow, RereadGateRow, ReconcileStatus,
           Executing, Labels, Heartbeat, InNode
  <2> QED BY <2>1, FinaliseMove, OutsideMove
<1> QED BY <1>1, <1>2

-----------------------------------------------------------------------------
(* A step of the system, for each worker.                                  *)

Stays(w) == /\ pc'[w] = pc[w]
            /\ task'[w] = task[w] \/ task'[w] = [task[w] EXCEPT !.lost = TRUE]
Drops(w) == pc'[w] = "idle" /\ task'[w] = NoTask

LEMMA EveryWorker ==
    ASSUME TypeOK, Next
    PROVE  /\ \A w \in Workers : \/ Stays(w) \/ Drops(w) \/ Run(w) \/ Receive(w)
           /\ \A w \in Workers : Run(w) \/ Receive(w) => \A x \in Workers \ {w} : Stays(x)
<1>t. pc \in [Workers -> Labels] /\ task \in [Workers -> Tasks]
  BY DEF TypeOK, WorkerTypeOK
<1>1. ASSUME NEW w \in Workers, Run(w) \/ Receive(w)
      PROVE  \A x \in Workers \ {w} : Stays(x)
  <2>1. Goes(w)
    BY <1>1, PollTypes, NodeTypes, EndingTypes DEF Run, TypeOK
  <2> QED BY <2>1, GoWithEffect DEF Goes, Stays
<1>2. ASSUME UNCHANGED <<pc, task>> PROVE \A w \in Workers : Stays(w)
  BY <1>2 DEF Stays
<1>3. ASSUME NEW w \in Workers, LoseOwnership(w) PROVE \A x \in Workers : Stays(x)
  BY <1>t, <1>3 DEF LoseOwnership, Stays
<1>4. ASSUME NEW w \in Workers, Crash(w) PROVE \A x \in Workers : Stays(x) \/ Drops(x)
  BY <1>t, <1>4 DEF Crash, Stays, Drops
<1>5. \A w \in Workers : \/ Stays(w) \/ Drops(w) \/ Run(w) \/ Receive(w)
  <2>1. CASE \E w \in Workers : Run(w) \/ Receive(w)
    BY <1>1, <2>1
  <2>2. CASE ~ \E w \in Workers : Run(w) \/ Receive(w)
    <3>1. \/ UNCHANGED <<pc, task>> \/ \E w \in Workers : LoseOwnership(w) \/ Crash(w)
      BY <2>2 DEF Next, WorkerStep, ApiStep, OpStep, WorkerNext, RequestShutdown, Restart,
                  ExpireDelivery, RedriveMessage, workerVars
    <3> QED BY <1>2, <1>3, <1>4, <3>1
  <2> QED BY <2>1, <2>2
<1> QED BY <1>1, <1>5

LEMMA StaysFields ==
    ASSUME TypeOK, NEW w \in Workers, Stays(w)
    PROVE  /\ task'[w].n = task[w].n /\ task'[w].rc = task[w].rc
           /\ task'[w].ack = task[w].ack /\ task'[w].back = task[w].back
           /\ task'[w].outcome = task[w].outcome
           /\ ~task'[w].lost => task'[w] = task[w]
           /\ Acknowledges(task'[w]) => Acknowledges(task[w])
           /\ InRegion(w)' <=> InRegion(w)
<1>1. task[w] \in Tasks
  BY DEF TypeOK, WorkerTypeOK
<1>2. /\ task'[w].n = task[w].n /\ task'[w].rc = task[w].rc
      /\ task'[w].ack = task[w].ack /\ task'[w].back = task[w].back
      /\ task'[w].outcome = task[w].outcome
      /\ ~task'[w].lost => task'[w] = task[w]
  <2>1. CASE task'[w] = [task[w] EXCEPT !.lost = TRUE]
    BY <1>1, <2>1 DEF Tasks
  <2> QED BY <2>1 DEF Stays
<1>3. Acknowledges(task'[w]) => Acknowledges(task[w])
  BY <1>2 DEF Acknowledges
<1>4. InRegion(w)' <=> InRegion(w)
  BY <1>2 DEF Stays, InRegion
<1> QED BY <1>2, <1>3, <1>4

LEMMA ReceiptNumbers ==
    ASSUME TypeOK, NEW w \in Workers PROVE task[w].n \in Nat /\ task[w].rc \in Nat
BY Bounds DEF TypeOK, WorkerTypeOK, Tasks

LEMMA StepIsOrderly ==
    ASSUME TypeOK, HandsInv, "pause" \notin FaultKinds, Next PROVE QueueMoves /\ Orderly
BY NextMoves, MovesAreOrderly DEF HandsInv

(* Two workers never both own the delivery. *)
LEMMA OneOwner ==
    ASSUME HandsInv, NEW w \in Workers, NEW x \in Workers, pc[w] # "idle", pc[x] # "idle",
           Owns(task[w]), Owns(task[x])
    PROVE  w = x
BY DEF HandsInv, Apart, Owns

(* What a worker in the region holds on to stays, ... *)
LEMMA RegionKeeps ==
    ASSUME TypeOK, HandsInv, "pause" \notin FaultKinds, Next, NEW w \in Workers,
           InRegion(w) \/ (Held /\ \A x \in Workers : pc[x] = "ack" => ~Owns(task[x]))
    PROVE  Held'
<1>1. \A x \in Workers : pc[x] = "ack" => ~Owns(task[x])
  <2>1. ASSUME InRegion(w), NEW x \in Workers, pc[x] = "ack", Owns(task[x]) PROVE FALSE
    <3>1. x # w
      BY <2>1 DEF InRegion, Executing
    <3> QED BY <2>1, <3>1 DEF HandsInv, Apart, Deleting
  <2> QED BY <2>1
<1>2. Held
  BY DEF HandsInv
<1> QED BY <1>1, <1>2, StepIsOrderly, HeldStays DEF HandsInv

(* ... and so does the delivery a worker has not begun to handle. *)
LEMMA ReceiptStays ==
    ASSUME TypeOK, HandsInv, "pause" \notin FaultKinds, Next, NEW w \in Workers,
           pc[w] \in {"received", "wait"}, ~task[w].lost
    PROVE  Current(queue', inflight', task[w].n, task[w].rc)
<1>1. Owns(task[w])
  BY DEF HandsInv, ReceiptInv
<1>2. \A x \in Workers : pc[x] = "ack" => ~Owns(task[x])
  BY <1>1, OneOwner
<1> QED BY <1>1, <1>2, StepIsOrderly, CurrentStays DEF Renewing

LEMMA NewReceipt ==
    ASSUME TypeOK, NEW w \in Workers, Receive(w)
    PROVE  /\ queue # <<>> /\ queue' # <<>> /\ inflight' /\ sends' = sends
           /\ pc'[w] = "received"
           /\ task'[w].n = Head(queue).n /\ task'[w].rc = Head(queue).rc + 1
           /\ ~task'[w].ack
           /\ Head(queue').n = Head(queue).n /\ Head(queue').rc = Head(queue).rc + 1
<1>q. /\ queue \in Seq(Messages) /\ queue # <<>>
      /\ Len(queue) >= 1 /\ Head(queue) = queue[1] /\ queue[1] \in Messages
      /\ inflight' /\ sends' = sends
  BY QueueFacts DEF Receive, ReceiveHead, CanReceive
<1>1. QueueTypeOK'
  BY ReceiveHeadTypes, StoreParts DEF TypeOK, Receive
<1>2. queue' # <<>>
  BY <1>q, <1>1 DEF QueueTypeOK
<1>3. Head(queue').n = Head(queue).n /\ Head(queue').rc = Head(queue).rc + 1
  <2>1. PICK m \in Messages : m = [queue[1] EXCEPT !.rc = @ + 1]
    <3>1. queue[1].rc + 1 \in 0 .. MaxReceive
      BY ReceiveHeadTypes, StoreParts, <1>q DEF TypeOK, Receive
    <3> QED BY <1>q, <3>1 DEF Messages
  <2>2. m.n = queue[1].n /\ m.rc = queue[1].rc + 1
    BY <1>q, <2>1 DEF Messages
  <2>3. queue' = [queue EXCEPT ![1] = m] /\ 1 \in 1 .. Len(queue)
    BY <1>q, <2>1 DEF Receive, ReceiveHead
  <2>4. queue'[1] = m
    <3>1. [queue EXCEPT ![1] = m][1] = m
      BY <1>q, <2>3, ExceptSeq
    <3> QED BY <2>3, <3>1, Zenon
  <2>5. Head(queue') = queue'[1]
    BY <1>1, <1>2 DEF QueueTypeOK
  <2> QED BY <1>q, <2>2, <2>4, <2>5
<1>4. /\ pc'[w] = "received"
      /\ task'[w].n = Head(queue).n /\ task'[w].rc = Head(queue).rc + 1 /\ ~task'[w].ack
  <2>1. /\ pc'[w] = "received"
        /\ task'[w] = [NoTask EXCEPT !.n = Head(queue).n, !.rc = Head(queue).rc + 1]
    BY GoWithEffect DEF Receive
  <2> QED BY <2>1 DEF NoTask
<1> QED BY <1>q, <1>2, <1>3, <1>4

-----------------------------------------------------------------------------
(* The invariant, part by part.                                            *)

LEMMA ReceiptsStep ==
    ASSUME TypeOK, TypeOK', HandsInv, "pause" \notin FaultKinds, Next, NEW w \in Workers
    PROVE  ReceiptInv(w)'
<1>o. QueueMoves /\ Orderly
  BY StepIsOrderly
<1>n. /\ task[w].n \in Nat /\ task[w].rc \in Nat /\ task[w].ack \in BOOLEAN
      /\ Given(queue, sends, task[w].n, task[w].rc)
      /\ task[w].ack => pc[w] \in Acked
  BY ReceiptNumbers DEF HandsInv, ReceiptInv, AckInv, TypeOK, WorkerTypeOK, Tasks
<1>1. Given(queue', sends', task[w].n, task[w].rc)
  BY <1>o, <1>n DEF Orderly
<1>2. Given(queue', sends', 0, 0)
  <2>1. queue' \in Seq(Messages) /\ sends' \in Nat
    BY Bounds DEF TypeOK, StoreTypeOK
  <2>2. queue' # <<>> => Head(queue') \in Messages
    BY <2>1
  <2>3. \A m \in Messages : m.n \in Nat /\ m.n >= 1
    BY QueueFacts
  <2>4. queue' # <<>> => 0 < Head(queue').n
    BY <2>2, <2>3
  <2>5. 0 <= sends'
    BY <2>1
  <2> QED BY <2>4, <2>5 DEF Given
<1>3. \/ Stays(w) \/ Drops(w) \/ Run(w) \/ Receive(w)
  BY EveryWorker
<1>4. CASE Receive(w)
  <2>1. Head(queue').n \in Nat /\ Head(queue').rc \in Nat /\ Head(queue).n <= sends
        /\ Head(queue).rc \in Nat
    BY <1>4, NewReceipt, QueueFacts DEF HandsInv, GroupInv
  <2>2. /\ queue' # <<>> /\ inflight' /\ sends' = sends
        /\ task'[w].n = Head(queue).n /\ task'[w].rc = Head(queue).rc + 1
        /\ Head(queue').n = Head(queue).n /\ Head(queue').rc = Head(queue).rc + 1
    BY <1>4, NewReceipt
  <2>3. Given(queue', sends', task'[w].n, task'[w].rc)
    BY <2>1, <2>2 DEF Given
  <2> QED BY <2>2, <2>3 DEF ReceiptInv, Owns
<1>5. CASE Drops(w)
  <2>1. NoTask.n = 0 /\ NoTask.rc = 0
    BY DEF NoTask
  <2> QED BY <1>2, <1>5, <2>1 DEF ReceiptInv, Drops
<1>6. CASE Stays(w)
  <2>1. ASSUME pc'[w] \in {"received", "wait"}, ~task'[w].lost
        PROVE  /\ task'[w] = task[w]
               /\ Current(queue', inflight', task[w].n, task[w].rc)
    BY <1>6, <2>1, StaysFields, ReceiptStays DEF Stays
  <2>2. Given(queue', sends', task'[w].n, task'[w].rc)
    BY <1>1, <1>6, StaysFields
  <2> QED BY <2>1, <2>2 DEF ReceiptInv, Owns, Current
<1>7. CASE Run(w)
  <2>0. OwnMove(w)
    BY <1>n, <1>7, RunMoves
  <2>1. CASE pc'[w] = "idle" /\ task'[w] = NoTask
    BY <2>1, <1>5 DEF Drops
  <2>2. CASE task'[w].n = task[w].n /\ task'[w].rc = task[w].rc
    <3>1. ASSUME pc'[w] \in {"received", "wait"}, ~task'[w].lost
          PROVE  /\ task'[w] = task[w]
                 /\ Current(queue', inflight', task[w].n, task[w].rc)
      BY <2>0, <3>1, ReceiptStays DEF OwnMove
    <3> QED BY <1>1, <2>2, <3>1 DEF ReceiptInv, Owns, Current
  <2> QED BY <2>0, <2>1, <2>2 DEF OwnMove
<1> QED BY <1>3, <1>4, <1>5, <1>6, <1>7

LEMMA RegionStep ==
    ASSUME TypeOK, HandsInv, "pause" \notin FaultKinds, Next, NEW w \in Workers, InRegion(w)'
    PROVE  Held'
<1>1. CASE InRegion(w)
  BY <1>1, RegionKeeps
<1>2. CASE ~InRegion(w)
  <2>1. Run(w)
    BY <1>2, EveryWorker, StaysFields, NewReceipt DEF Drops, InRegion, Executing
  <2>2. OwnMove(w)
    BY <2>1, RunMoves DEF HandsInv, AckInv
  <2>3. pc[w] = "wait" /\ ~task[w].lost /\ UNCHANGED queueVars
    BY <1>2, <2>2 DEF OwnMove
  <2>4. queue # <<>>
    BY <2>3 DEF HandsInv, ReceiptInv, Owns
  <2> QED BY <2>3, <2>4 DEF Held, queueVars
<1> QED BY <1>1, <1>2

(* A delivery that can still be deleted with could be before. *)
LEMMA OwnedBefore ==
    ASSUME TypeOK, HandsInv, "pause" \notin FaultKinds, Next, NEW w \in Workers,
           task'[w].n = task[w].n, task'[w].rc = task[w].rc, Owns(task[w])'
    PROVE  Owns(task[w])
<1>1. /\ task[w].n \in Nat /\ task[w].rc \in Nat
      /\ Given(queue, sends, task[w].n, task[w].rc)
  BY ReceiptNumbers DEF HandsInv, ReceiptInv
<1>2. Current(queue', inflight', task[w].n, task[w].rc)
  BY DEF Owns, Current
<1>3. Current(queue, inflight, task[w].n, task[w].rc)
  BY <1>1, <1>2, StepIsOrderly DEF Orderly
<1> QED BY <1>3 DEF Owns, Current

LEMMA SettledKept ==
    ASSUME TypeOK, ExecutionInv, HandsInv, Next, Settled, \A v \in Workers : ~Answer(v)
    PROVE  Settled'
BY SettledLasts DEF HandsInv, AckInv

(* No gate is answered while another is under the lock, or about to delete the message. *)
LEMMA NotAnswered ==
    ASSUME ExecutionInv, HandsInv, NEW w \in Workers, pc[w] # "opened",
           pc[w] \in Executing \/ (Deleting(w) /\ Owns(task[w]))
    PROVE  \A v \in Workers : ~Answer(v)
<1> SUFFICES ASSUME NEW v \in Workers, Answer(v) PROVE FALSE
  OBVIOUS
<1>1. pc[v] = "opened" /\ v # w
  BY DEF Answer
<1>2. pc[v] \in Executing /\ InRegion(v)
  BY <1>1 DEF InRegion, Executing, Labels, Heartbeat, InNode
<1> QED BY <1>1, <1>2 DEF ExecutionInv, WorkerInv, HandsInv, Apart

(* An acknowledgement that was earned leaves the job with what it has come to. *)
LEMMA EarnedSettles ==
    ASSUME TypeOK, ExecutionInv, ReportInv, HandsInv, Next,
           NEW w \in Workers, Run(w), pc[w] \in Executing, task'[w].ack
    PROVE  Settled'
<1>0. task[w].ack => pc[w] = "reconcile" /\ Settled
  BY LabelsApart DEF HandsInv, AckInv
<1>1. \A v \in Workers : ~Answer(v)
  <2>1. ASSUME Answer(w) PROVE FALSE
    <3>1. task'[w] = task[w] /\ pc[w] = "opened"
      BY <2>1, EndingEffect DEF Answer
    <3> QED BY <1>0, <3>1
  <2>2. pc[w] = "opened" => \A v \in Workers \ {w} : ~Answer(v)
    BY DEF Answer, ExecutionInv, WorkerInv, Executing, Labels, Heartbeat, InNode
  <2> QED BY <2>1, <2>2, NotAnswered
<1>2. AckIsEarned(w)
  BY PollAcks, NodeAcks, EndingAcks DEF Run
<1>3. Settled \/ row'.completed
  BY <1>0, <1>2 DEF AckIsEarned, HandsInv, EndIsTerminal, Settled, CheckpointTerminal
<1> QED BY <1>1, <1>3, SettledKept DEF Settled

LEMMA AcksStep ==
    ASSUME TypeOK, ExecutionInv, ReportInv, HandsInv, "pause" \notin FaultKinds, Next,
           NEW w \in Workers
    PROVE  AckInv(w)'
<1>a. AckInv(w)
  BY DEF HandsInv
<1>1. ASSUME task'[w].n = task[w].n, task'[w].rc = task[w].rc, Owns(task[w])', Deleting(w)
      PROVE  Settled'
  <2>1. Owns(task[w])
    BY <1>1, OwnedBefore
  <2>2. pc[w] # "opened"
    BY <1>1 DEF Deleting
  <2> QED BY <1>a, <1>1, <2>1, <2>2, NotAnswered, SettledKept DEF AckInv
<1>2. CASE Stays(w)
  <2>1. /\ pc'[w] = pc[w] /\ task'[w].ack = task[w].ack /\ task'[w].outcome = task[w].outcome
        /\ task'[w].n = task[w].n /\ task'[w].rc = task[w].rc
        /\ Acknowledges(task'[w]) => Acknowledges(task[w])
    BY <1>2, StaysFields DEF Stays
  <2>2. Deleting(w)' => Deleting(w)
    BY <2>1 DEF Deleting, Acknowledges
  <2>3. ASSUME task[w].ack, pc[w] = "reconcile" PROVE Settled'
    BY <1>a, <2>3, LabelsApart, NotAnswered, SettledKept DEF AckInv
  <2> QED BY <1>1, <1>a, <2>1, <2>2, <2>3 DEF AckInv
<1>3. CASE Drops(w)
  BY <1>3 DEF Drops, AckInv, Acked, NoTask, Deleting
<1>4. CASE Receive(w)
  BY <1>4, NewReceipt DEF AckInv, Deleting
<1>5. CASE Run(w)
  <2>0. OwnMove(w)
    BY <1>a, <1>5, RunMoves DEF AckInv
  <2>1. ASSUME task'[w].ack, pc'[w] \in {"reconcile", "unlock"} PROVE Settled'
    BY <1>5, <2>0, <2>1, EarnedSettles DEF OwnMove
  <2>2. ASSUME pc'[w] = "ack", Owns(task[w])' PROVE Settled'
    <3>1. pc[w] = "unlock" /\ Acknowledges(task[w]) /\ task'[w] = task[w]
      BY <2>0, <2>2 DEF OwnMove
    <3> QED BY <1>1, <2>2, <3>1 DEF Deleting
  <2>3. Deleting(w)' => pc'[w] = "ack" \/ (pc'[w] = "unlock" /\ task'[w].ack)
    BY DEF Deleting, Acknowledges
  <2> QED BY <2>0, <2>1, <2>2, <2>3 DEF AckInv, OwnMove
<1> QED BY <1>2, <1>3, <1>4, <1>5, EveryWorker

(* The receipt of a worker that goes on is the one it had. *)
LEMMA SameReceipt ==
    ASSUME TypeOK, HandsInv, Next, NEW w \in Workers, ~Receive(w), pc'[w] # "idle"
    PROVE  pc[w] # "idle" /\ task'[w].n = task[w].n /\ task'[w].rc = task[w].rc
<1>1. Stays(w) \/ Run(w)
  BY EveryWorker DEF Drops
<1>2. CASE Stays(w)
  BY <1>2, StaysFields DEF Stays
<1>3. CASE Run(w)
  <2>1. OwnMove(w)
    BY <1>3, RunMoves DEF HandsInv, AckInv
  <2> QED BY <2>1 DEF OwnMove
<1> QED BY <1>1, <1>2, <1>3

LEMMA ReceiptIsNew ==
    ASSUME TypeOK, HandsInv, Next, NEW w \in Workers, NEW x \in Workers \ {w}, Receive(w),
           pc'[x] # "idle"
    PROVE  <<task'[w].n, task'[w].rc>> # <<task'[x].n, task'[x].rc>>
<1>1. Stays(x)
  BY EveryWorker
<1>2. /\ task'[x].n = task[x].n /\ task'[x].rc = task[x].rc
      /\ task[x].n \in Nat /\ task[x].rc \in Nat
      /\ Given(queue, sends, task[x].n, task[x].rc)
  BY <1>1, StaysFields, ReceiptNumbers DEF HandsInv, ReceiptInv
<1>3. /\ queue # <<>> /\ Head(queue).n \in Nat /\ Head(queue).rc \in Nat
      /\ task'[w].n = Head(queue).n /\ task'[w].rc = Head(queue).rc + 1
  BY NewReceipt, QueueFacts
<1> QED BY <1>2, <1>3 DEF Given

LEMMA ApartStep ==
    ASSUME TypeOK, ExecutionInv, HandsInv, "pause" \notin FaultKinds, Next,
           NEW w \in Workers, NEW x \in Workers \ {w}
    PROVE  Apart(w, x)'
<1>1. ASSUME pc'[w] # "idle", pc'[x] # "idle"
      PROVE  <<task'[w].n, task'[w].rc>> # <<task'[x].n, task'[x].rc>>
  <2>1. CASE Receive(w)
    BY <1>1, <2>1, ReceiptIsNew
  <2>2. CASE Receive(x)
    BY <1>1, <2>2, ReceiptIsNew
  <2>3. CASE ~Receive(w) /\ ~Receive(x)
    <3>1. /\ pc[w] # "idle" /\ task'[w].n = task[w].n /\ task'[w].rc = task[w].rc
          /\ pc[x] # "idle" /\ task'[x].n = task[x].n /\ task'[x].rc = task[x].rc
      BY <1>1, <2>3, SameReceipt
    <3> QED BY <3>1 DEF HandsInv, Apart
  <2> QED BY <2>1, <2>2, <2>3
<1>2. ASSUME InRegion(w)', Deleting(x)', Owns(task[x])' PROVE FALSE
  <2>1. ~Receive(x) /\ pc'[x] # "idle"
    BY <1>2, NewReceipt DEF Deleting
  <2>2. /\ pc[x] # "idle" /\ task'[x].n = task[x].n /\ task'[x].rc = task[x].rc
    BY <2>1, SameReceipt
  <2>3. Owns(task[x])
    BY <1>2, <2>2, OwnedBefore
  <2>4. CASE Deleting(x)
    <3>1. ~InRegion(w)
      BY <2>3, <2>4 DEF HandsInv, Apart
    <3>2. Run(w)
      BY <1>2, <3>1, EveryWorker, StaysFields, NewReceipt DEF Drops, InRegion, Executing
    <3>3. OwnMove(w)
      BY <3>2, RunMoves DEF HandsInv, AckInv
    <3>4. pc[w] = "wait" /\ Owns(task[w])
      BY <1>2, <3>1, <3>3 DEF OwnMove, HandsInv, ReceiptInv
    <3> QED BY <2>2, <2>3, <3>4, OneOwner
  <2>5. CASE ~Deleting(x)
    <3>1. ~Stays(x)
      <4>1. ASSUME Stays(x) PROVE Deleting(x)
        BY <1>2, <4>1, StaysFields DEF Stays, Deleting, Acknowledges
      <4> QED BY <2>5, <4>1
    <3>2. Run(x)
      BY <2>1, <3>1, EveryWorker DEF Drops
    <3>3. OwnMove(x)
      BY <3>2, RunMoves DEF HandsInv, AckInv
    <3>4. pc[x] \in Executing
      BY <1>2, <2>5, <3>3 DEF OwnMove, Deleting, Acknowledges
    <3>5. InRegion(w)
      BY <1>2, <3>2, EveryWorker, StaysFields
    <3>6. pc[w] \in Executing
      BY <3>5, LabelsApart DEF InRegion
    <3> QED BY <3>4, <3>6 DEF ExecutionInv, WorkerInv
  <2> QED BY <2>4, <2>5
<1> QED BY <1>1, <1>2 DEF Apart

(* A letter is sent on before it is discarded, and was out of the window when it was taken. *)
LEMMA LettersStep ==
    ASSUME TypeOK, ExecutionInv, HandsInv, "pause" \notin FaultKinds, Next, NEW o \in Operators
    PROVE  LetterInv(o)'
<1>o. /\ sends <= sends' /\ aged <= aged' /\ sends' \in Int /\ aged' \in Int
      /\ sends \in Nat /\ aged \in Nat /\ op[o] \in Sessions /\ op[o].letter.n \in Nat
  <2>1. TypeOK'
    BY NextTypes
  <2>2. sends' \in Nat /\ aged' \in Nat
    BY <2>1, Bounds DEF TypeOK, StoreTypeOK
  <2>3. op[o] \in Sessions /\ op[o].letter \in Letters
    BY DEF TypeOK, OpTypeOK, Sessions
  <2> QED BY <2>2, <2>3, StepIsOrderly, QueueFacts, Bounds DEF Orderly, Letters
<1>l. /\ LetterInv(o) /\ Lasts
  BY CheckpointLasts DEF HandsInv, AckInv
<1>1. CASE op'[o] = op[o]
  BY <1>o, <1>l, <1>1 DEF LetterInv, Lasts
<1>2. CASE op'[o].at \notin {"verdict", "resend", "discard", "apply"}
  BY <1>2 DEF LetterInv
<1>i. Idle.at = "idle" /\ \A at : [Idle EXCEPT !.at = at].at = at
  BY IdleFields
<1>3. CASE TakeLetter(o)
  <2>1. PICK m \in dlq : To(o, [Idle EXCEPT !.at = "verdict", !.letter = m])
    BY <1>3 DEF TakeLetter
  <2>2. op'[o] = [Idle EXCEPT !.at = "verdict", !.letter = m]
    BY <2>1, ToEffect
  <2>3. op'[o].at = "verdict" /\ op'[o].letter = m
    BY <2>2 DEF Idle
  <2>4. m.n <= aged /\ UNCHANGED aged
    BY <1>3 DEF HandsInv, GroupInv, TakeLetter, storeVars, queueVars
  <2> QED BY <2>3, <2>4 DEF LetterInv
<1>4. CASE ReachVerdict(o)
  <2>1. op'[o] = Idle \/ op'[o] = [op[o] EXCEPT !.at = "resend"]
    BY <1>4, ToEffect DEF ReachVerdict
  <2>2. CASE op'[o] = [op[o] EXCEPT !.at = "resend"]
    <3>1. op'[o].at = "resend" /\ op'[o].letter = op[o].letter /\ op[o].at = "verdict"
      BY <1>o, <1>4, <2>2 DEF Sessions, ReachVerdict
    <3> QED BY <1>o, <1>l, <3>1 DEF LetterInv
  <2> QED BY <1>2, <1>i, <2>1, <2>2
<1>5. CASE Resend(o)
  <2>0. op[o].at = "resend" /\ op[o].letter.n <= aged /\ op[o].letter.id \in Visits
    BY <1>5, <1>l DEF Resend, LetterInv, TypeOK, OpTypeOK, Sessions, Letters
  <2>1. \/ op'[o] = Idle
        \/ op'[o] = [op[o] EXCEPT !.at = "discard"] /\ Send(op[o].letter.id)
    BY <1>5, ToEffect DEF Resend
  <2>2. CASE op'[o] = [op[o] EXCEPT !.at = "discard"] /\ Send(op[o].letter.id)
    <3>1. op'[o].at = "discard" /\ op'[o].letter = op[o].letter
      BY <1>o, <2>2 DEF Sessions
    <3>2. op[o].letter.n < sends'
      <4>1. \A v \in Visits : lastSent[v] <= sends /\ lastSent[v] \in Nat
        BY QueueFacts DEF HandsInv, GroupInv
      <4>2. CASE sends' = sends + 1
        BY <1>o, <2>0, <4>2 DEF HandsInv, GroupInv
      <4>3. CASE lastSent[op[o].letter.id] > aged /\ sends' = sends
        BY <1>o, <2>0, <4>1, <4>3
      <4>4. \/ sends' = sends + 1
            \/ lastSent[op[o].letter.id] > aged /\ sends' = sends
        BY <2>2 DEF Send, queueVars
      <4> QED BY <4>2, <4>3, <4>4
    <3> QED BY <3>1, <3>2 DEF LetterInv
  <2> QED BY <1>2, <1>i, <2>1, <2>2
<1>6. CASE Inspect(o)
  <2>1. \/ op'[o] = Idle
        \/ /\ op'[o] = [op[o] EXCEPT !.at = "apply", !.outcome = Outcome(op[o].dead)]
           /\ UNCHANGED ckpt
    BY <1>6, ToEffect DEF Inspect
  <2>2. CASE /\ op'[o] = [op[o] EXCEPT !.at = "apply", !.outcome = Outcome(op[o].dead)]
             /\ UNCHANGED ckpt
    <3>1. op'[o].at = "apply" /\ op'[o].outcome = Outcome(op[o].dead)
      BY <2>2, SessionFields
    <3>2. Outcome(op[o].dead) = "repaired_gate" => WaitingAtTheGate
      BY DEF Outcome
    <3> QED BY <2>2, <3>1, <3>2 DEF LetterInv, ExecutionInv, JobInv
  <2> QED BY <1>2, <1>i, <2>1, <2>2
<1>7. \/ op'[o] = op[o] \/ op'[o].at \notin {"verdict", "resend", "discard", "apply"}
      \/ TakeLetter(o) \/ ReachVerdict(o) \/ Resend(o) \/ Inspect(o)
  <2>1. CASE UNCHANGED op
    BY <2>1
  <2>2. ASSUME NEW p \in Operators, p # o,
               ReadDeadLetters(p) \/ TakeLetter(p) \/ Reexport(p) \/ Operate(p) \/ OperatorDies(p)
        PROVE  op'[o] = op[o]
    <3>1. \E s : To(p, s)
      BY <2>2 DEF ReadDeadLetters, TakeLetter, Reexport, Operate, OperatorDies, SelectCandidate,
             Inspect, Apply, RequeueFails, Note, ReachVerdict, Resend, Discard, ReexportPut,
             ReexportStamp
    <3> QED BY <2>2, <3>1, ToEffect
  <2>3. CASE ReadDeadLetters(o) \/ Reexport(o) \/ OperatorDies(o) \/ SelectCandidate(o) \/ Apply(o)
             \/ RequeueFails(o) \/ Note(o) \/ Discard(o) \/ ReexportPut(o) \/ ReexportStamp(o)
    <3>1. \/ op'[o] = [Idle EXCEPT !.at = "select", !.dead = dlq # {}]
          \/ op'[o] = [Idle EXCEPT !.at = "reput"] \/ op'[o] = Idle
          \/ op'[o] = [op[o] EXCEPT !.at = "fence"] \/ op'[o] = [op[o] EXCEPT !.at = "note"]
          \/ op'[o] = [op[o] EXCEPT !.at = "restamp"]
      BY <2>3, ToEffect DEF ReadDeadLetters, Reexport, OperatorDies, SelectCandidate, Apply,
             RequeueFails, Note, Discard, ReexportPut, ReexportStamp
    <3>2. [Idle EXCEPT !.at = "select", !.dead = dlq # {}].at = "select"
      BY DEF Idle
    <3>3. /\ [op[o] EXCEPT !.at = "fence"].at = "fence"
          /\ [op[o] EXCEPT !.at = "note"].at = "note"
          /\ [op[o] EXCEPT !.at = "restamp"].at = "restamp"
          /\ [Idle EXCEPT !.at = "reput"].at = "reput"
      BY <1>o, <1>i DEF Sessions
    <3>4. op'[o].at \in {"select", "reput", "idle", "fence", "note", "restamp"}
      BY <1>i, <3>1, <3>2, <3>3, Zenon
    <3> QED BY <3>4
  <2>4. UNCHANGED op \/ OpNext
    BY DEF Next, WorkerStep, ApiStep, OpStep, opVars
  <2> QED BY <2>1, <2>2, <2>3, <2>4 DEF OpNext, Operate
<1> QED BY <1>1, <1>2, <1>3, <1>4, <1>5, <1>6, <1>7

(* What is left when a step is over. *)
LEMMA SomethingIsLeft ==
    ASSUME TypeOK, ExecutionInv, ReportInv, HandsInv, "pause" \notin FaultKinds, Next
    PROVE  row'.status = "none" \/ Held' \/ Settled' \/ Startable'
<1>1. CASE row.status = "none"
  BY <1>1, SubmittedFirst DEF HandsInv, ReportInv
<1>2. CASE \E w \in Workers : InRegion(w)
  BY <1>2, RegionKeeps
<1>3. CASE \A w \in Workers : ~InRegion(w)
  <2>1. \A v \in Workers : ~Answer(v)
    BY <1>3 DEF Answer, InRegion, Executing, Labels, Heartbeat, InNode
  <2>2. CASE Settled
    BY <2>1, <2>2, SettledKept
  <2>3. CASE Startable
    BY <1>3, <2>3, StartableLasts DEF HandsInv
  <2>4. CASE Held
    <3>1. CASE \E w \in Workers : pc[w] = "ack" /\ Owns(task[w])
      <4>1. Settled
        BY <3>1 DEF HandsInv, AckInv, Deleting
      <4> QED BY <2>2, <4>1
    <3>2. CASE ~ \E w \in Workers : pc[w] = "ack" /\ Owns(task[w])
      BY <2>4, <3>2, StepIsOrderly, HeldStays DEF HandsInv
    <3> QED BY <3>1, <3>2
  <2> QED BY <1>1, <2>2, <2>3, <2>4 DEF HandsInv
<1> QED BY <1>2, <1>3, <1>1

LEMMA InitHands == Init => HandsInv
<1> SUFFICES ASSUME Init PROVE HandsInv
  OBVIOUS
<1>1. /\ queue = <<>> /\ inflight = FALSE /\ dlq = {} /\ sends = 0 /\ aged = 0
      /\ lastSent = [v \in Visits |-> 0] /\ ckpt.node = "absent" /\ row.status = "none"
  BY DEF Init, StoreInit, NoCheckpoint
<1>2. \A w \in Workers : pc[w] = "idle" /\ task[w] = NoTask
  BY DEF Init, WorkerInit
<1>3. \A o \in Operators : op[o].at = "idle"
  BY DEF Init, OpInit, Idle
<1>4. GroupInv
  BY <1>1 DEF GroupInv
<1>5. \A w \in Workers : ReceiptInv(w) /\ AckInv(w) /\ ~InRegion(w)
  BY <1>1, <1>2 DEF ReceiptInv, Given, AckInv, InRegion, Executing, Deleting, NoTask, Acked
<1>6. \A w \in Workers : \A x \in Workers \ {w} : Apart(w, x)
  BY <1>2, <1>5 DEF Apart
<1> QED BY <1>1, <1>3, <1>4, <1>5, <1>6 DEF HandsInv, LetterInv, EndIsTerminal

LEMMA NextHands ==
    TypeOK /\ ExecutionInv /\ ReportInv /\ HandsInv /\ "pause" \notin FaultKinds /\ [Next]_vars
        => HandsInv'
<1> SUFFICES ASSUME TypeOK, ExecutionInv, ReportInv, HandsInv, "pause" \notin FaultKinds,
                    [Next]_vars
             PROVE  HandsInv'
  OBVIOUS
<1>1. CASE UNCHANGED vars
  BY <1>1 DEF vars, storeVars, workerVars, opVars, HandsInv, GroupInv, LetterInv, ReceiptInv, Given,
              Owns, AckInv, Acked, Deleting, Acknowledges, InRegion, Apart, Held, Settled,
              Startable, EndIsTerminal, CheckpointTerminal, WaitingAtTheGate
<1>2. CASE Next
  <2>1. TypeOK'
    BY <1>2, NextTypes
  <2>2. GroupInv'
    BY <1>2, StepIsOrderly DEF Orderly
  <2>3. \A o \in Operators : LetterInv(o)'
    BY <1>2, LettersStep
  <2>4. \A w \in Workers : ReceiptInv(w)' /\ AckInv(w)' /\ (InRegion(w)' => Held')
    BY <1>2, <2>1, ReceiptsStep, AcksStep, RegionStep
  <2>5. \A w \in Workers : \A x \in Workers \ {w} : Apart(w, x)'
    BY <1>2, ApartStep
  <2>6. EndIsTerminal' /\ (ckpt.node # "absent" => ckpt'.node # "absent")
    BY <1>2, CheckpointLasts DEF HandsInv, AckInv, Lasts
  <2>7. row'.status = "none" => ckpt'.node = "absent"
    <3>1. row'.status = "none" => row.status = "none"
      BY <1>2, RowStays DEF Next, WorkerStep, ApiStep, OpStep
    <3> QED BY <1>2, <3>1, SubmittedFirst DEF HandsInv, ReportInv
  <2>8. row'.status = "none" \/ Held' \/ Settled' \/ Startable'
    BY <1>2, SomethingIsLeft
  <2> QED BY <2>2, <2>3, <2>4, <2>5, <2>6, <2>7, <2>8 DEF HandsInv
<1> QED BY <1>1, <1>2

(* If no worker sleeps through its own lease, an unfinished job is in somebody's hands in     *)
(* every reachable state, however often it is delivered, refused, crashed, redriven, replayed *)
(* or swept: no finite sequence of calls loses it.                                            *)
THEOREM JobsAreNeverDropped == "pause" \notin FaultKinds => (Spec => []NoOrphan)
<1> SUFFICES ASSUME "pause" \notin FaultKinds PROVE Spec => []NoOrphan
  OBVIOUS
<1>1. TypeOK /\ ExecutionInv /\ ReportInv /\ HandsInv /\ [Next]_vars => HandsInv'
  BY NextHands
<1>2. HandsInv => NoOrphan
  BY DEF HandsInv, Held, Settled, Startable, NoOrphan, Outcome
<1> QED BY <1>1, <1>2, InitHands, ReportInvariant, PTL DEF Spec
=============================================================================
