---------------------------- MODULE RateLimiter ----------------------------
(***************************************************************************)
(* The shared token bucket ratelimit:llm (redisstore.py RedisRateLimiter). *)
(* One Lua script trims, counts and inserts atomically, but the time it    *)
(* cuts the rolling window with is the caller's: read from the caller's    *)
(* own clock, and before the script runs.                                  *)
(***************************************************************************)
EXTENDS Integers, Sequences, FiniteSets

CONSTANTS
    Callers,        \* threads of the workers that call acquire()
    Ahead,          \* how far each caller's clock is ahead of Redis's
    Spread,         \* the most one caller's clock is ahead of another's
    Window,         \* RATE_LIMIT_WINDOW_S
    Limit,          \* requests_per_minute
    MaxDelay,       \* what may pass between reading the clock and the script
    MaxTime, MaxTokens  \* bounds of the exploration

ASSUME LimiterAssumption ==
    /\ Ahead \in [Callers -> Int] /\ Spread \in Nat
    /\ \A c, d \in Callers : Ahead[c] - Ahead[d] <= Spread
    /\ Window \in Nat \ {0} /\ Limit \in Nat \ {0} /\ MaxDelay \in Nat
    /\ MaxTime \in Nat /\ MaxTokens \in Nat

VARIABLES
    now,            \* real time
    asked,          \* when a caller read its clock for the acquire under way, or Idle
    score,          \* the scores of the tokens ever taken, in order
    taken,          \* history: when each was taken
    window,         \* the tokens still in the sorted set, by number
    expiry          \* when the key expires

tokens == <<score, taken>>
bucket == <<window, expiry>>
bucketVars == <<now, asked, tokens, bucket>>

Idle == -1

Waiting == { c \in Callers : asked[c] # Idle }

ReadClock(c) ==
    /\ c \notin Waiting /\ Len(taken) < MaxTokens
    /\ asked' = [asked EXCEPT ![c] = now]
    /\ UNCHANGED <<now, tokens, bucket>>

Stamp(c) == asked[c] + Ahead[c]

(***************************************************************************)
(* _ACQUIRE_TOKEN.                                                         *)
(***************************************************************************)
Cutoff(c) == Stamp(c) - Window

Held(c) == IF now < expiry THEN { i \in window : score[i] > Cutoff(c) } ELSE {}

HasRoom(c) == Cardinality(Held(c)) < Limit

(* mutant: the sorted set's member is the time.                            *)
TokenByTime(c) ==
    /\ score' = Append(score, Stamp(c))
    /\ taken' = Append(taken, now)
    /\ window' = { i \in Held(c) : score[i] # Stamp(c) } \cup {Len(score) + 1}

Token(c) ==
    /\ score' = Append(score, Stamp(c))
    /\ taken' = Append(taken, now)
    /\ window' = Held(c) \cup {Len(score) + 1}

Acquire(c) ==
    /\ c \in Waiting
    /\ asked' = [asked EXCEPT ![c] = Idle]
    /\ IF HasRoom(c)
       THEN Token(c) /\ expiry' = now + Window
       ELSE window' = Held(c) /\ UNCHANGED <<tokens, expiry>>
    /\ UNCHANGED now

(***************************************************************************)
(* Redis was not reached: the caller is refused, and nothing was taken.    *)
(***************************************************************************)
FailClosed(c) ==
    /\ c \in Waiting
    /\ asked' = [asked EXCEPT ![c] = Idle]
    /\ UNCHANGED <<now, tokens, bucket>>

(***************************************************************************)
(* The socket timeout bounds how old a time the script can be given.       *)
(***************************************************************************)
BucketTick ==
    /\ now < MaxTime
    /\ \A c \in Waiting : now < asked[c] + MaxDelay
    /\ now' = now + 1
    /\ UNCHANGED <<asked, tokens, bucket>>

BucketInit ==
    /\ now = 0
    /\ asked = [c \in Callers |-> Idle]
    /\ score = <<>> /\ taken = <<>>
    /\ window = {} /\ expiry = 0

UseBucket(c) == ReadClock(c) \/ Acquire(c) \/ FailClosed(c)

BucketNext == BucketTick \/ \E c \in Callers : UseBucket(c)

BucketSpec == BucketInit /\ [][BucketNext]_bucketVars

-----------------------------------------------------------------------------

BucketTypeOK ==
    /\ now \in Nat
    /\ asked \in [Callers -> Nat \cup {Idle}]
    /\ score \in Seq(Int) /\ taken \in Seq(Nat) /\ Len(score) = Len(taken)
    /\ window \subseteq 1..Len(score)
    /\ expiry \in Nat

(***************************************************************************)
(* Any Limit + 1 tokens span the window, less what one clock may be ahead  *)
(* of another and what may pass before the script runs.                    *)
(***************************************************************************)
SpanAtLeast(w) == \A i \in 1..Len(taken) - Limit : taken[i + Limit] - taken[i] >= w

OverGrantIsBounded == SpanAtLeast(Window - MaxDelay - Spread)
=============================================================================
