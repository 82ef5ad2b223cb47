-------------------------- MODULE VisibilityLease --------------------------
(***************************************************************************)
(* The heartbeat of one delivery (worker.py VisibilityLease) against the   *)
(* clock of the queue: when it renews, how it retries, when it gives the   *)
(* delivery up, and how that reaches the thread that starts graph nodes    *)
(* (_NodeAdmission).  Worker.tla takes the result as one step; here it is  *)
(* the arithmetic and the two threads.                                     *)
(***************************************************************************)
EXTENDS Integers, Sequences

CONSTANTS
    Timeout,        \* visibility_timeout_s
    Envelope,       \* sqs_call_envelope_seconds: no bounded call takes longer
    MaxLate,        \* how late the scheduler may run the heartbeat's thread
    MaxClock         \* bound of the exploration

(* mutant: renew when the lease is over.                                   *)
WholeLease == Timeout

Interval == Timeout \div 3

(***************************************************************************)
(* check_queue refuses a queue whose timeout is not above three envelopes. *)
(***************************************************************************)
ASSUME LeaseAssumption ==
    /\ Timeout \in Nat /\ Envelope \in Nat \ {0} /\ MaxLate \in Nat /\ MaxClock \in Nat
    /\ Envelope < Timeout \div 3
    /\ MaxLate <= Envelope

VARIABLES
    clock,
    hidden,         \* when the queue shows the message to others again
    owner,          \* who holds the delivery: "this" worker or an "other"
    beat,             \* the heartbeat's thread
    estimated, nextAt, started, failures,   \* the lease's own state
    applied,        \* has the queue applied the call in flight?
    lost,           \* ownership_lost
    marks,          \* steps of _mark_ownership_lost still to do
    main,           \* the thread that runs the graph
    sawLost,        \* what bind_node_admission read
    admission       \* the node admission: unbound, open or closed

queue == <<hidden, owner, applied>>
schedule == <<estimated, nextAt, started, failures>>
gate == <<main, sawLost, admission>>
leaseVars == <<clock, queue, beat, schedule, lost, marks, gate>>

LatestStart(expiry) == expiry - Interval - Envelope

(***************************************************************************)
(* A step of the heartbeat: wake, start one call or give up.               *)
(***************************************************************************)
(* mutant: the flag is set after the admission was looked up.              *)
MarkStepsSwapped == <<"close", "lose">>

MarkSteps == <<"lose", "close">>

GiveUp ==
    /\ beat' = "marking"
    /\ marks' = MarkSteps

(* mutant: the deadline leaves no room for the call itself.                *)
TooLateWithoutCall == clock > estimated - Interval

TooLate == clock > LatestStart(estimated)

StartCall ==
    /\ beat = "waiting" /\ clock >= nextAt
    /\ IF TooLate
       THEN GiveUp /\ UNCHANGED <<started, applied>>
       ELSE /\ beat' = "calling" /\ started' = clock /\ applied' = FALSE
            /\ UNCHANGED marks
    /\ UNCHANGED <<clock, hidden, owner, estimated, nextAt, failures, lost, gate>>

Mark ==
    /\ beat = "marking"
    /\ IF Head(marks) = "lose"
       THEN lost' = TRUE /\ UNCHANGED admission
       ELSE /\ admission' = IF admission = "open" THEN "closed" ELSE admission
            /\ UNCHANGED lost
    /\ marks' = Tail(marks)
    /\ beat' = IF Len(marks) = 1 THEN "ended" ELSE "marking"
    /\ UNCHANGED <<clock, queue, schedule, main, sawLost>>

(***************************************************************************)
(* The call: the queue may apply it at any moment before it ends, and a    *)
(* call that failed here may have been applied.                            *)
(***************************************************************************)
Applies ==
    /\ beat = "calling" /\ owner = "this"
    /\ hidden' = clock + Timeout
    /\ applied' = TRUE
    /\ UNCHANGED <<clock, owner, beat, schedule, lost, marks, gate>>

Renewed == estimated' = started + Timeout /\ nextAt' = started + Interval

Succeeds ==
    /\ beat = "calling" /\ applied
    /\ beat' = "waiting"
    /\ failures' = 0
    /\ Renewed
    /\ UNCHANGED <<clock, queue, started, lost, marks, gate>>

CallRejected ==
    /\ beat = "calling"
    /\ GiveUp
    /\ UNCHANGED <<clock, queue, schedule, lost, gate>>

MaxConsecutiveFailures == 2

RetryAt == clock + (LatestStart(estimated) - clock) \div 2

Fails ==
    /\ beat = "calling"
    /\ failures' = failures + 1
    /\ IF failures + 1 >= MaxConsecutiveFailures \/ clock >= LatestStart(estimated)
       THEN GiveUp /\ UNCHANGED nextAt
       ELSE beat' = "waiting" /\ nextAt' = RetryAt /\ UNCHANGED marks
    /\ UNCHANGED <<clock, queue, estimated, started, lost, gate>>

(***************************************************************************)
(* The delivery is finished: the worker stops the heartbeat and joins it.  *)
(***************************************************************************)
StopLease ==
    /\ beat \in {"waiting", "ended"} /\ main = "unbound"
    /\ beat' = "stopped"
    /\ UNCHANGED <<clock, queue, schedule, lost, marks, gate>>

(***************************************************************************)
(* The thread that runs the graph.  bind_node_admission publishes the      *)
(* admission and reads the flag in one critical section, and closes the    *)
(* admission after it.                                                     *)
(***************************************************************************)
Bind ==
    /\ main = "unbound" /\ beat # "stopped"
    /\ main' = "binding"
    /\ admission' = "open"
    /\ sawLost' = lost
    /\ UNCHANGED <<clock, queue, beat, schedule, lost, marks>>

Bound ==
    /\ main = "binding"
    /\ main' = "between"
    /\ admission' = IF sawLost THEN "closed" ELSE admission
    /\ UNCHANGED <<clock, queue, beat, schedule, lost, marks, sawLost>>

BeginNode ==
    /\ main = "between" /\ admission = "open"
    /\ main' = "node"
    /\ UNCHANGED <<clock, queue, beat, schedule, lost, marks, sawLost, admission>>

FinishNode ==
    /\ main = "node"
    /\ main' = "between"
    /\ UNCHANGED <<clock, queue, beat, schedule, lost, marks, sawLost, admission>>

Unbind ==
    /\ main = "between"
    /\ main' = "unbound"
    /\ admission' = "unbound"
    /\ UNCHANGED <<clock, queue, beat, schedule, lost, marks, sawLost>>

(***************************************************************************)
(* The queue hands the message to somebody else once it shows again.       *)
(***************************************************************************)
Redeliver ==
    /\ owner = "this" /\ clock >= hidden
    /\ owner' = "other"
    /\ UNCHANGED <<clock, hidden, applied, beat, schedule, lost, marks, gate>>

LeaseTick ==
    /\ clock < MaxClock
    /\ beat = "waiting" => clock < nextAt + MaxLate
    /\ beat = "calling" => clock < started + Envelope
    /\ beat # "marking"
    /\ clock' = clock + 1
    /\ UNCHANGED <<queue, beat, schedule, lost, marks, gate>>

(***************************************************************************)
(* The lease counts from the start of the receive call, the queue from     *)
(* some moment within it.                                                  *)
(***************************************************************************)
LeaseInit ==
    /\ clock \in 0..Envelope
    /\ hidden \in Timeout..Timeout + clock
    /\ owner = "this" /\ applied = FALSE
    /\ beat = "waiting" /\ estimated = Timeout /\ nextAt = Interval
    /\ started = 0 /\ failures = 0
    /\ lost = FALSE /\ marks = <<>>
    /\ main = "unbound" /\ sawLost = FALSE /\ admission = "unbound"

Heartbeat == StartCall \/ Mark \/ Succeeds \/ CallRejected \/ Fails

Graph == Bind \/ Bound \/ BeginNode \/ FinishNode \/ Unbind \/ StopLease

SQS == Applies \/ Redeliver

LeaseNext == Heartbeat \/ Graph \/ SQS \/ LeaseTick

LeaseSpec == LeaseInit /\ [][LeaseNext]_leaseVars

-----------------------------------------------------------------------------

Claims == beat \in {"waiting", "calling"}

LeaseTypeOK ==
    /\ clock \in Nat /\ hidden \in Nat /\ owner \in {"this", "other"}
    /\ beat \in {"waiting", "calling", "marking", "ended", "stopped"}
    /\ estimated \in Int /\ nextAt \in Int /\ started \in Nat /\ failures \in 0..2
    /\ applied \in BOOLEAN /\ lost \in BOOLEAN
    /\ marks \in {<<>>, MarkSteps, Tail(MarkSteps)}
    /\ main \in {"unbound", "binding", "between", "node"}
    /\ sawLost \in BOOLEAN /\ admission \in {"unbound", "open", "closed"}

(***************************************************************************)
(* While the heartbeat runs and ownership is not called lost, nobody else  *)
(* can hold the delivery: the queue still hides it ("never again claims    *)
(* exclusivity").                                                          *)
(***************************************************************************)
ClaimIsSound == Claims => owner = "this" /\ clock < hidden

(***************************************************************************)
(* A third of the lease is left whenever the worker gives it up, for the   *)
(* node that is running ("preserves the existing V/3 margin").             *)
(***************************************************************************)
MarginKept == [][(Claims /\ beat' = "marking") => hidden - clock >= Interval]_leaseVars

(***************************************************************************)
(* Once ownership is lost and both threads have passed the hand-over, no   *)
(* admission is open, whichever of them came first (bind_node_admission    *)
(* against _mark_ownership_lost).                                          *)
(***************************************************************************)
LossClosesAdmission == lost /\ marks = <<>> /\ main # "binding" => admission # "open"
=============================================================================
