----------------------------- MODULE LlmClient -----------------------------
(***************************************************************************)
(* The one LLM client and the one budget of a job, under the Researcher's  *)
(* pool of extraction calls (llm_client.py, agents/researcher.py _extract). *)
(* A call is a page of the visit: 1..Pages in page order.  An action is    *)
(* what a thread does between two accesses to what threads share: the      *)
(* budget's lock and counter, the limiter, the endpoint.                   *)
(***************************************************************************)
EXTENDS Integers, Sequences, FiniteSets, SequencesExt, FiniteSetsExt

CONSTANTS
    Pages,                      \* extraction calls of this visit
    Concurrency,                \* researcher_concurrency
    CallLimit, UsedBefore,          \* max_llm_calls_per_job; llm_calls_used at the visit's start
    ValidationAttempts,         \* _VALIDATION_ATTEMPTS
    RateBackoff, TransportBackoff, LimiterBackoff,  \* seconds, one entry per retry
    Headers,                    \* Retry-After values met; a negative one stands for every
                                \* header that is absent, a date, negative or not finite
    FindingsBefore,                       \* findings the job holds before this visit
    MaxFindings                 \* findings one page may yield (a bound of the exploration)

ASSUME ClientAssumption ==
    /\ Pages \in Nat /\ Concurrency \in Nat \ {0}
    /\ CallLimit \in Nat /\ UsedBefore \in Nat /\ UsedBefore <= CallLimit
    /\ ValidationAttempts \in Nat \ {0}
    /\ RateBackoff \in Seq(Nat) /\ TransportBackoff \in Seq(Nat) /\ LimiterBackoff \in Seq(Nat)
    /\ Headers \subseteq Int /\ FindingsBefore \in Nat /\ MaxFindings \in Nat

Call == 1..Pages

NoCall == 0

VARIABLES
    pc,         \* where each call is
    used,       \* CallBudget.used
    lock,       \* the call inside spend(), or NoCall
    read,       \* the value of used a call read inside spend()
    ticket,     \* the unit of the budget a call has claimed and not yet used; 0 if none
    requests,   \* the units requests have been sent under
    val, rl, tr, lim,   \* validation attempt; 429, transport and limiter retries so far
    slept,      \* seconds a call has slept between its attempts
    result,     \* what call_structured returned or raised
    found,      \* findings each page yielded
    ids,        \* finding ids of each page, once the pool has joined
    update      \* what the visit reports: "done", "unresearched" or a job-fatal reason

budget == <<used, lock, read, ticket>>
ladders == <<val, rl, tr, lim, slept>>
answers == <<result, found>>
joined == <<ids, update>>
poolVars == <<pc, budget, requests, ladders, answers, joined>>

CallSteps == {"queued", "spend", "check", "add", "token", "send", "done"}
Failures == {"rate_limited", "budget_exceeded", "llm_call_failed", "invalid_output",
             "rate_limiter_unavailable"}
JobFatalReasons == {"rate_limited", "budget_exceeded"}

Set(f, c, v) == [f EXCEPT ![c] = v]

(* The sum of the first n numbers of a sequence, and of all of them.       *)
SumTo(s, n) ==
    LET upTo[i \in 0..Len(s)] == IF i = 0 THEN 0 ELSE upTo[i - 1] + s[i]
    IN  upTo[n]

Sum(s) == SumTo(s, Len(s))

(***************************************************************************)
(* _retry_after: the endpoint's delay, clipped to the largest of our own.  *)
(***************************************************************************)
(* mutant: the provider's number is taken as it is.                        *)
RetryAfterUnclipped(h, own) == IF h >= 0 THEN h ELSE own

MaxRetryAfter == Max({0} \cup { RateBackoff[i] : i \in DOMAIN RateBackoff })

RetryAfter(h, own) == IF h >= 0 THEN Min({h, MaxRetryAfter}) ELSE own

(***************************************************************************)
(* The pool runs Concurrency calls at once and starts them in page order.  *)
(***************************************************************************)
Running == { c \in Call : pc[c] \notin {"queued", "done"} }

Start(c) ==
    /\ pc[c] = "queued"
    /\ \A d \in 1..(c - 1) : pc[d] # "queued"
    /\ Cardinality(Running) < Concurrency
    /\ pc' = Set(pc, c, "spend")
    /\ UNCHANGED <<budget, requests, ladders, answers, joined>>

Raise(c, why) ==
    /\ pc' = Set(pc, c, "done")
    /\ result' = Set(result, c, why)
    /\ UNCHANGED found

(***************************************************************************)
(* CallBudget.spend: check and increment in one critical section.          *)
(***************************************************************************)
(* mutant: no lock.                                                        *)
LockFreeAlways == TRUE

LockFree == lock = NoCall

Enter(c) ==
    /\ pc[c] = "spend"
    /\ LockFree
    /\ lock' = c
    /\ read' = Set(read, c, used)
    /\ pc' = Set(pc, c, "check")
    /\ UNCHANGED <<used, ticket, requests, ladders, answers, joined>>

(* mutant: the refusal leaves with the lock held.                          *)
RefuseHolding(c) == Raise(c, "budget_exceeded") /\ UNCHANGED lock

Refuse(c) == Raise(c, "budget_exceeded") /\ lock' = NoCall

Check(c) ==
    /\ pc[c] = "check"
    /\ IF read[c] >= CallLimit
       THEN Refuse(c)
       ELSE pc' = Set(pc, c, "add") /\ UNCHANGED <<lock, answers>>
    /\ UNCHANGED <<used, read, ticket, requests, ladders, joined>>

Add(c) ==
    /\ pc[c] = "add"
    /\ used' = read[c] + 1
    /\ ticket' = Set(ticket, c, read[c] + 1)
    /\ lock' = NoCall
    /\ pc' = Set(pc, c, "token")
    /\ lim' = Set(lim, c, 0)
    /\ UNCHANGED <<read, requests, val, rl, tr, slept, answers, joined>>

(***************************************************************************)
(* _take_a_token: a grant goes on to the request; a refusal is retried on  *)
(* its own schedule and then fails the call.  The bucket is shared with    *)
(* other jobs, so either answer may come at any time.                      *)
(***************************************************************************)
TokenGranted(c) ==
    /\ pc[c] = "token"
    /\ pc' = Set(pc, c, "send")
    /\ UNCHANGED <<budget, requests, ladders, answers, joined>>

TokenRefused(c) ==
    /\ pc[c] = "token"
    /\ IF lim[c] < Len(LimiterBackoff)
       THEN /\ lim' = Set(lim, c, lim[c] + 1)
            /\ slept' = [slept EXCEPT ![c] = @ + LimiterBackoff[lim[c] + 1]]
            /\ UNCHANGED <<pc, ticket, answers>>
       ELSE /\ Raise(c, "rate_limiter_unavailable")
            /\ ticket' = Set(ticket, c, 0)
            /\ UNCHANGED <<lim, slept>>
    /\ UNCHANGED <<used, lock, read, requests, val, rl, tr, joined>>

(***************************************************************************)
(* One request, and what _send and call_structured make of each answer.    *)
(***************************************************************************)
(* mutant: a retry goes back to the request without spending again.        *)
AgainUncounted(c) == pc' = Set(pc, c, "send") /\ UNCHANGED ticket

Again(c) == pc' = Set(pc, c, "spend") /\ ticket' = Set(ticket, c, 0)

Give(c, why) == Raise(c, why) /\ ticket' = Set(ticket, c, 0)

Valid(c) ==
    /\ pc' = Set(pc, c, "done")
    /\ ticket' = Set(ticket, c, 0)
    /\ result' = Set(result, c, "ok")
    /\ \E n \in 0..MaxFindings : found' = Set(found, c, n)
    /\ UNCHANGED <<val, rl, tr, slept>>

Invalid(c) ==
    IF val[c] < ValidationAttempts
    THEN /\ Again(c)
         /\ val' = Set(val, c, val[c] + 1)
         /\ rl' = Set(rl, c, 0) /\ tr' = Set(tr, c, 0)
         /\ UNCHANGED <<slept, answers>>
    ELSE Give(c, "invalid_output") /\ UNCHANGED <<val, rl, tr, slept>>

RateLimited(c) ==
    IF rl[c] = Len(RateBackoff)
    THEN Give(c, "rate_limited") /\ UNCHANGED <<val, rl, tr, slept>>
    ELSE /\ Again(c)
         /\ rl' = Set(rl, c, rl[c] + 1)
         /\ \E h \in Headers :
                slept' = [slept EXCEPT ![c] = @ + RetryAfter(h, RateBackoff[rl[c] + 1])]
         /\ UNCHANGED <<val, tr, answers>>

Transport(c) ==
    IF tr[c] = Len(TransportBackoff)
    THEN Give(c, "llm_call_failed") /\ UNCHANGED <<val, rl, tr, slept>>
    ELSE /\ Again(c)
         /\ tr' = Set(tr, c, tr[c] + 1)
         /\ slept' = [slept EXCEPT ![c] = @ + TransportBackoff[tr[c] + 1]]
         /\ UNCHANGED <<val, rl, answers>>

RequestRejected(c) == Give(c, "llm_call_failed") /\ UNCHANGED <<val, rl, tr, slept>>

SendRequest(c) ==
    /\ pc[c] = "send"
    /\ requests' = requests \cup {ticket[c]}
    /\ Valid(c) \/ Invalid(c) \/ RateLimited(c) \/ Transport(c) \/ RequestRejected(c)
    /\ UNCHANGED <<used, lock, read, lim, joined>>

(***************************************************************************)
(* The pool has joined: findings are numbered on, in page order, from what *)
(* the job already holds.                                                  *)
(***************************************************************************)
FirstNumber == FindingsBefore + 1

(* mutant: every page numbers its findings from the first number.          *)
NumbersByPage(c) == { FirstNumber + i : i \in 0..(found[c] - 1) }

Before(c) == SumTo(found, c - 1)

Numbers(c) == { FirstNumber + Before(c) + i : i \in 0..(found[c] - 1) }

Fatal == { c \in Call : result[c] \in JobFatalReasons }

Join ==
    /\ \A c \in Call : pc[c] = "done"
    /\ ids = <<>>
    /\ ids' = [c \in Call |-> Numbers(c)]
    /\ update' =
        IF Fatal # {} THEN result[Min(Fatal)]
        ELSE IF \E c \in Call : found[c] > 0 THEN "done" ELSE "unresearched"
    /\ UNCHANGED <<pc, budget, requests, ladders, answers>>

PoolInit ==
    /\ pc = [c \in Call |-> "queued"]
    /\ used = UsedBefore /\ lock = NoCall
    /\ read = [c \in Call |-> 0] /\ ticket = [c \in Call |-> 0]
    /\ requests = {}
    /\ val = [c \in Call |-> 1]
    /\ rl = [c \in Call |-> 0] /\ tr = [c \in Call |-> 0] /\ lim = [c \in Call |-> 0]
    /\ slept = [c \in Call |-> 0]
    /\ result = [c \in Call |-> "none"] /\ found = [c \in Call |-> 0]
    /\ ids = <<>> /\ update = "none"

Spend(c) == Enter(c) \/ Check(c) \/ Add(c)

TryOnce(c) == TokenGranted(c) \/ TokenRefused(c) \/ SendRequest(c)

Thread(c) == Start(c) \/ Spend(c) \/ TryOnce(c)

PoolNext == Join \/ \E c \in Call : Thread(c)

PoolSpec == PoolInit /\ [][PoolNext]_poolVars

-----------------------------------------------------------------------------

PoolTypeOK ==
    /\ pc \in [Call -> CallSteps]
    /\ used \in Nat /\ lock \in Call \cup {NoCall}
    /\ read \in [Call -> Nat] /\ ticket \in [Call -> Nat]
    /\ requests \subseteq Nat
    /\ val \in [Call -> Nat] /\ rl \in [Call -> Nat] /\ tr \in [Call -> Nat]
    /\ lim \in [Call -> Nat] /\ slept \in [Call -> Nat]
    /\ result \in [Call -> Failures \cup {"none", "ok"}]
    /\ found \in [Call -> Nat]
    /\ update \in JobFatalReasons \cup {"none", "done", "unresearched"}

(***************************************************************************)
(* "It is a hard ceiling, not an approximate one": the counter never       *)
(* passes the limit, and every request was sent under a unit of its own    *)
(* that was claimed for it, whatever the threads' order (CallBudget.spend, *)
(* "every request counts, retries included").  A call is refused only when *)
(* the budget is spent.                                                    *)
(***************************************************************************)
HoldsTicket(c) == pc[c] \in {"token", "send"}

RequestsArePaidFor ==
    /\ used <= CallLimit
    /\ requests \subseteq UsedBefore + 1 .. used
    /\ \A c \in Call : result[c] = "budget_exceeded" => used = CallLimit
    /\ \A c \in Call : HoldsTicket(c) =>
        /\ ticket[c] \in UsedBefore + 1 .. used
        /\ ticket[c] \notin requests
        /\ \A d \in Call : HoldsTicket(d) /\ c # d => ticket[c] # ticket[d]

(***************************************************************************)
(* The nested ladders stay bounded: a call sleeps no longer than its       *)
(* validation attempts allow, each with every 429 delay at its largest,    *)
(* every transport delay and the limiter's delays before each request      *)
(* (llm_client.py, MAX_RETRY_AFTER_S: "letting one response escape the     *)
(* job's bounded-wait policy").                                            *)
(***************************************************************************)
RequestsPerSend == 1 + Len(RateBackoff) + Len(TransportBackoff)

LongestSleep ==
    ValidationAttempts *
        (Len(RateBackoff) * MaxRetryAfter + Sum(TransportBackoff)
            + RequestsPerSend * Sum(LimiterBackoff))

WaitIsBounded == \A c \in Call : slept[c] <= LongestSleep

(***************************************************************************)
(* A visit's findings answer to one id each: new to the job, consecutive   *)
(* and in page order, whichever request was answered first (_extract).  A  *)
(* page that was read before another failed keeps its ids.                 *)
(***************************************************************************)
NumberedInPageOrder ==
    ids # <<>> =>
        /\ UNION { ids[c] : c \in Call } = FindingsBefore + 1 .. FindingsBefore + Sum(found)
        /\ \A c, d \in Call : c < d => \A i \in ids[c], j \in ids[d] : i < j

(***************************************************************************)
(* The threads' reads and writes implement a budget whose units are        *)
(* claimed one at a time: spend()'s critical section is atomic.            *)
(***************************************************************************)
Budget == INSTANCE CallBudget WITH
    Ceiling <- CallLimit, SpentBefore <- UsedBefore,
    claimed <- { ticket[c] : c \in { d \in Call : HoldsTicket(d) } },
    paid <- requests

SpendIsAtomic == Budget!Spec
=============================================================================
