--------------------------- MODULE Clocks_proofs ---------------------------
(***************************************************************************)
(* The parts whose correctness is arithmetic on several clocks: how far    *)
(* the shared bucket can be wrong for every limit, window, delay and       *)
(* spread of the callers' clocks; the heartbeat of the lease for every     *)
(* timeout, envelope and lateness that LeaseAssumption admits; and how old *)
(* the keys can be that a token is checked against, for every TTL, timeout *)
(* and interleaving of the requests.                                       *)
(***************************************************************************)
EXTENDS RateLimiter, VisibilityLease, SigningKeys, FiniteSetTheorems, TLAPS

(***************************************************************************)
(* The rate limiter.                                                       *)
(***************************************************************************)

Exact == Window - MaxDelay - Spread

Tokens == 1..Len(taken)

(***************************************************************************)
(* What each part of the state says about real time: a caller's reading is *)
(* not too old, tokens stand in the order they were taken, a score is no   *)
(* further behind any clock than the delay and the spread, a token left    *)
(* the set no earlier than Exact after it was taken.                       *)
(***************************************************************************)
Readings ==
    \A c \in Callers : asked[c] # Idle => asked[c] <= now /\ now <= asked[c] + MaxDelay

History ==
    /\ \A i \in Tokens : taken[i] <= now /\ taken[i] + Window <= expiry
    /\ \A i, j \in Tokens : i <= j => taken[i] <= taken[j]

TokenScores ==
    \A i \in Tokens, d \in Callers : taken[i] + Ahead[d] <= score[i] + MaxDelay + Spread

Dropped == \A i \in Tokens \ window : taken[i] + Exact <= now

BucketInv == BucketTypeOK /\ Readings /\ History /\ TokenScores /\ Dropped /\ OverGrantIsBounded

LEMMA Constants ==
    /\ Window \in Nat /\ Limit \in Nat /\ Limit >= 1 /\ MaxDelay \in Nat /\ Spread \in Nat
    /\ Exact \in Int /\ Exact <= Window
    /\ \A c \in Callers : Ahead[c] \in Int
    /\ \A c, d \in Callers : Ahead[c] - Ahead[d] <= Spread
BY LimiterAssumption DEF Exact

LEMMA InitBucket == BucketInit => BucketInv
<1> SUFFICES ASSUME BucketInit PROVE BucketInv OBVIOUS
<1>1. taken = <<>> /\ score = <<>> /\ Len(taken) = 0 /\ Tokens = {} BY DEF BucketInit, Tokens
<1>2. BucketTypeOK BY <1>1 DEF BucketInit, BucketTypeOK, Idle
<1>3. Readings BY DEF BucketInit, Readings
<1>4. History /\ TokenScores /\ Dropped BY <1>1 DEF History, TokenScores, Dropped
<1>5. OverGrantIsBounded BY <1>1, Constants DEF OverGrantIsBounded, SpanAtLeast
<1> QED BY <1>2, <1>3, <1>4, <1>5 DEF BucketInv

(***************************************************************************)
(* A token that is not held when a caller looks was taken Exact ago.       *)
(***************************************************************************)
LEMMA NotHeld ==
    ASSUME BucketInv, NEW c \in Callers, c \in Waiting, NEW i \in Tokens, i \notin Held(c)
    PROVE  taken[i] + Exact <= now
<1> USE Constants DEF BucketInv
<1>1. taken[i] \in Nat /\ score[i] \in Int /\ now \in Nat /\ expiry \in Nat
  BY DEF BucketTypeOK, Tokens
<1>2. asked[c] \in Nat /\ asked[c] <= now
  BY DEF Waiting, Readings, BucketTypeOK
<1>3. CASE now >= expiry BY <1>1, <1>3 DEF History
<1>4. CASE i \notin window BY <1>4 DEF Dropped
<1>5. CASE now < expiry /\ i \in window
  <2>1. score[i] <= asked[c] + Ahead[c] - Window
    BY <1>1, <1>2, <1>5 DEF Held, Cutoff, Stamp
  <2>2. taken[i] + Ahead[c] <= score[i] + MaxDelay + Spread BY DEF TokenScores
  <2> QED BY <1>1, <1>2, <2>1, <2>2 DEF Exact
<1> QED BY <1>1, <1>3, <1>4, <1>5

(***************************************************************************)
(* With room for another token, one of the last Limit tokens is not held.  *)
(***************************************************************************)
LEMMA OneIsGone ==
    ASSUME BucketInv, NEW c \in Callers, HasRoom(c), Len(taken) >= Limit
    PROVE  \E i \in Tokens : Len(taken) + 1 - Limit <= i /\ i \notin Held(c)
<1> DEFINE Last == Len(taken) + 1 - Limit .. Len(taken)
<1>1. Len(taken) \in Nat /\ Len(score) = Len(taken) BY DEF BucketInv, BucketTypeOK
<1>2. Last \subseteq Tokens /\ Cardinality(Last) = Limit
  <2>1. Last \subseteq Tokens BY <1>1, Constants DEF Tokens
  <2>2. Len(taken) + 1 - Limit \in Int /\ Len(taken) + 1 - Limit <= Len(taken)
    BY <1>1, Constants
  <2>3. Cardinality(Last) = Len(taken) - (Len(taken) + 1 - Limit) + 1
    BY <2>2, <1>1, FS_Interval
  <2> QED BY <2>1, <2>3, <1>1, Constants
<1>3. IsFiniteSet(Held(c)) /\ Cardinality(Held(c)) \in Nat
  <2>1. Held(c) \subseteq 1..Len(score) BY DEF BucketInv, BucketTypeOK, Held
  <2>2. IsFiniteSet(1..Len(score)) BY <1>1, FS_Interval
  <2>3. IsFiniteSet(Held(c)) BY <2>1, <2>2, FS_Subset
  <2> QED BY <2>3, FS_CardinalityType
<1>4. ~ Last \subseteq Held(c)
  <2> SUFFICES ASSUME Last \subseteq Held(c) PROVE FALSE OBVIOUS
  <2>1. Cardinality(Last) <= Cardinality(Held(c)) BY <1>3, FS_Subset
  <2> QED BY <2>1, <1>2, <1>3, Constants DEF HasRoom
<1> QED BY <1>1, <1>2, <1>4 DEF Tokens

(* A caller reads its clock. *)
LEMMA ReadStep == ASSUME BucketInv, NEW c \in Callers, ReadClock(c) PROVE BucketInv'
<1> USE DEF BucketInv
<1>1. UNCHANGED <<now, score, taken, window, expiry>> BY DEF ReadClock, tokens, bucket
<1>2. BucketTypeOK' BY DEF ReadClock, BucketTypeOK, tokens, bucket, Idle
<1>3. Readings' BY <1>1, Constants DEF ReadClock, BucketTypeOK, Readings, Idle
<1>4. History' /\ TokenScores' /\ Dropped' BY <1>1 DEF History, TokenScores, Dropped, Tokens
<1>5. OverGrantIsBounded' BY <1>1 DEF OverGrantIsBounded, SpanAtLeast
<1> QED BY <1>2, <1>3, <1>4, <1>5

(* Redis is not reached. *)
LEMMA FailStep == ASSUME BucketInv, NEW c \in Callers, FailClosed(c) PROVE BucketInv'
<1> USE DEF BucketInv
<1>1. UNCHANGED <<now, score, taken, window, expiry>> BY DEF FailClosed, tokens, bucket
<1>2. BucketTypeOK' BY DEF FailClosed, BucketTypeOK, tokens, bucket, Idle
<1>3. Readings' BY <1>1 DEF FailClosed, BucketTypeOK, Readings, Idle
<1>4. History' /\ TokenScores' /\ Dropped' BY <1>1 DEF History, TokenScores, Dropped, Tokens
<1>5. OverGrantIsBounded' BY <1>1 DEF OverGrantIsBounded, SpanAtLeast
<1> QED BY <1>2, <1>3, <1>4, <1>5

(* Time passes while every reading is young enough. *)
LEMMA BucketTicks == ASSUME BucketInv, BucketTick PROVE BucketInv'
<1> USE DEF BucketInv
<1>1. UNCHANGED <<asked, score, taken, window, expiry>> /\ now' = now + 1 /\ now \in Nat
  BY DEF BucketTick, tokens, bucket, BucketTypeOK
<1>2. BucketTypeOK' BY <1>1 DEF BucketTypeOK
<1>3. Readings'
  <2> SUFFICES ASSUME NEW c \in Callers, asked[c] # Idle
               PROVE  asked[c] <= now + 1 /\ now + 1 <= asked[c] + MaxDelay
    BY <1>1 DEF Readings
  <2>1. asked[c] \in Nat /\ now < asked[c] + MaxDelay /\ asked[c] <= now
    BY DEF BucketTick, Waiting, BucketTypeOK, Readings
  <2> QED BY <2>1, <1>1, Constants
<1>4. \A i \in Tokens : taken[i] \in Nat BY DEF Tokens, BucketTypeOK
<1>5. History' BY <1>1, <1>4 DEF History, Tokens
<1>6. TokenScores' BY <1>1 DEF TokenScores, Tokens
<1>7. Dropped' BY <1>1, <1>4, Constants DEF Dropped, Tokens
<1>8. OverGrantIsBounded' BY <1>1 DEF OverGrantIsBounded, SpanAtLeast
<1> QED BY <1>2, <1>3, <1>5, <1>6, <1>7, <1>8

(***************************************************************************)
(* The script refuses: tokens may only leave the set.                      *)
(***************************************************************************)
LEMMA RefusedStep ==
    ASSUME BucketInv, NEW c \in Callers, Acquire(c), ~HasRoom(c) PROVE BucketInv'
<1> USE DEF BucketInv
<1>1. /\ UNCHANGED <<now, score, taken, expiry>> /\ window' = Held(c)
      /\ asked' = [asked EXCEPT ![c] = Idle] /\ c \in Waiting
  BY DEF Acquire, tokens
<1>2. BucketTypeOK' BY <1>1 DEF BucketTypeOK, Held, Idle
<1>3. Readings' BY <1>1 DEF BucketTypeOK, Readings, Idle
<1>4. History' /\ TokenScores' BY <1>1 DEF History, TokenScores, Tokens
<1>5. Dropped' BY <1>1, NotHeld DEF Dropped, Tokens
<1>6. OverGrantIsBounded' BY <1>1 DEF OverGrantIsBounded, SpanAtLeast
<1> QED BY <1>2, <1>3, <1>4, <1>5, <1>6

(***************************************************************************)
(* The script grants: one more token, taken now.                           *)
(***************************************************************************)
LEMMA GrantedStep ==
    ASSUME BucketInv, NEW c \in Callers, Acquire(c), HasRoom(c) PROVE BucketInv'
<1> USE DEF BucketInv
<1> DEFINE n == Len(taken)
<1>1. /\ now' = now /\ expiry' = now + Window /\ window' = Held(c) \cup {n + 1}
      /\ taken' = Append(taken, now) /\ score' = Append(score, Stamp(c))
      /\ asked' = [asked EXCEPT ![c] = Idle] /\ c \in Waiting
  BY DEF Acquire, Token, BucketTypeOK
<1>2. /\ n \in Nat /\ Len(score) = n /\ now \in Nat /\ expiry \in Nat
      /\ \A i \in 1..n : taken[i] \in Nat /\ score[i] \in Int
  BY DEF BucketTypeOK
<1>3. asked[c] \in Nat /\ asked[c] <= now /\ now <= asked[c] + MaxDelay
  BY <1>1 DEF Waiting, Readings, BucketTypeOK
<1>4. Stamp(c) \in Int /\ Stamp(c) = asked[c] + Ahead[c] BY <1>3, Constants DEF Stamp
<1>5. /\ Len(taken') = n + 1 /\ Len(score') = n + 1
      /\ \A i \in 1..n : taken'[i] = taken[i] /\ score'[i] = score[i]
      /\ taken'[n + 1] = now /\ score'[n + 1] = Stamp(c)
  BY <1>1, <1>2, <1>4 DEF BucketTypeOK
<1>6. Tokens = 1..n /\ Tokens' = 1..n + 1 BY <1>5 DEF Tokens
<1>7. BucketTypeOK'
  <2>1. Held(c) \subseteq 1..n BY <1>2 DEF BucketTypeOK, Held
  <2>2. window' \subseteq 1..n + 1 BY <2>1, <1>1, <1>2
  <2>3. asked' \in [Callers -> Nat \cup {Idle}] BY <1>1 DEF BucketTypeOK, Idle
  <2>4. expiry' \in Nat /\ now' \in Nat BY <1>1, <1>2, Constants
  <2>5. taken' \in Seq(Nat) /\ score' \in Seq(Int) BY <1>1, <1>2, <1>4 DEF BucketTypeOK
  <2> QED BY <2>2, <2>3, <2>4, <2>5, <1>5 DEF BucketTypeOK
<1> HIDE DEF n, BucketInv
<1>8. Readings' BY <1>1 DEF BucketInv, BucketTypeOK, Readings, Idle
<1>9. History'
  <2>1. \A i \in 1..n : taken[i] <= now BY <1>6 DEF BucketInv, History
  <2>2. \A i \in 1..n + 1 : taken'[i] \in Nat /\ taken'[i] <= now
    <3> SUFFICES ASSUME NEW i \in 1..n + 1 PROVE taken'[i] \in Nat /\ taken'[i] <= now
      OBVIOUS
    <3>1. CASE i \in 1..n BY <3>1, <2>1, <1>2, <1>5
    <3>2. CASE i = n + 1 BY <3>2, <1>2, <1>5
    <3> QED BY <3>1, <3>2, <1>2
  <2>3. ASSUME NEW i \in 1..n + 1, NEW j \in 1..n + 1, i <= j PROVE taken'[i] <= taken'[j]
    <3>1. CASE j \in 1..n
      <4>1. i \in 1..n BY <3>1, <2>3, <1>2
      <4> QED BY <3>1, <4>1, <2>3, <1>5, <1>6 DEF BucketInv, History
    <3>2. CASE j = n + 1 BY <3>2, <2>2, <1>5
    <3> QED BY <3>1, <3>2, <1>2
  <2>4. \A i \in 1..n + 1 : taken'[i] + Window <= now + Window BY <2>2, <1>2, Constants
  <2> QED BY <2>2, <2>3, <2>4, <1>1, <1>6 DEF History
<1>10. TokenScores'
  <2> SUFFICES ASSUME NEW i \in 1..n + 1, NEW d \in Callers
               PROVE  taken'[i] + Ahead[d] <= score'[i] + MaxDelay + Spread
    BY <1>6 DEF TokenScores
  <2>1. CASE i \in 1..n BY <2>1, <1>5, <1>6 DEF BucketInv, TokenScores
  <2>2. CASE i = n + 1
    <3>1. Ahead[d] - Ahead[c] <= Spread /\ Ahead[d] \in Int /\ Ahead[c] \in Int
      BY Constants
    <3>2. taken'[i] = now /\ score'[i] = asked[c] + Ahead[c] BY <2>2, <1>4, <1>5
    <3>3. now + Ahead[d] <= asked[c] + Ahead[c] + MaxDelay + Spread
      BY <3>1, <1>2, <1>3, Constants
    <3> QED BY <3>2, <3>3
  <2> QED BY <2>1, <2>2, <1>2
<1>11. Dropped'
  <2> SUFFICES ASSUME NEW i \in 1..n + 1, i \notin window' PROVE taken'[i] + Exact <= now
    BY <1>1, <1>6 DEF Dropped, Exact
  <2>1. i \in Tokens /\ i \notin Held(c) BY <1>1, <1>2, <1>6
  <2> QED BY <2>1, <1>1, <1>5, <1>6, NotHeld
<1>12. OverGrantIsBounded'
  <2> SUFFICES ASSUME NEW i \in 1..Len(taken') - Limit
               PROVE  taken'[i + Limit] - taken'[i] >= Exact
    BY DEF OverGrantIsBounded, SpanAtLeast, Exact
  <2>0. i \in 1..(n + 1) - Limit BY <1>5
  <2>1. i \in 1..n /\ i + Limit \in 1..n + 1 BY <2>0, <1>2, Constants
  <2>2. CASE i + Limit \in 1..n
    <3>1. i \in 1..n - Limit BY <2>2, <1>2, Constants
    <3>2. taken[i + Limit] - taken[i] >= Exact
      BY <3>1 DEF BucketInv, OverGrantIsBounded, SpanAtLeast, Exact, n
    <3> QED BY <3>2, <2>1, <2>2, <1>5
  <2>3. CASE i + Limit = n + 1
    <3>1. PICK j \in Tokens : n + 1 - Limit <= j /\ j \notin Held(c)
      <4>1. n >= Limit BY <2>1, <2>3, <1>2, Constants
      <4> QED BY <4>1, OneIsGone DEF n
    <3>2. i <= j /\ j \in 1..n BY <3>1, <2>3, <1>2, <1>6, Constants
    <3>3. taken[i] <= taken[j] BY <3>2, <2>1, <1>6 DEF BucketInv, History
    <3>4. taken[j] + Exact <= now BY <3>1, <1>1, NotHeld
    <3>5. taken[i] \in Nat /\ taken[j] \in Nat BY <3>2, <2>1, <1>2
    <3>6. taken'[i + Limit] = now /\ taken'[i] = taken[i] BY <2>1, <2>3, <1>5
    <3> QED BY <3>3, <3>4, <3>5, <3>6, <1>2, Constants
  <2> QED BY <2>1, <2>2, <2>3, <1>2, Constants
<1> QED BY <1>7, <1>8, <1>9, <1>10, <1>11, <1>12 DEF BucketInv

LEMMA BucketStutter == ASSUME BucketInv, UNCHANGED bucketVars PROVE BucketInv'
<1> USE DEF BucketInv
<1>1. UNCHANGED <<now, asked, score, taken, window, expiry>> BY DEF bucketVars, tokens, bucket
<1> QED BY <1>1 DEF BucketTypeOK, Readings, History, TokenScores, Dropped, Tokens, OverGrantIsBounded,
                    SpanAtLeast

(***************************************************************************)
(* The invariant is inductive.                                             *)
(***************************************************************************)
THEOREM LimiterInvariant == BucketSpec => []BucketInv
<1>1. ASSUME BucketInv, [BucketNext]_bucketVars PROVE BucketInv'
  <2>1. CASE BucketTick BY <1>1, <2>1, BucketTicks
  <2>2. ASSUME NEW c \in Callers, UseBucket(c) PROVE BucketInv'
    BY <1>1, <2>2, ReadStep, FailStep, RefusedStep, GrantedStep DEF UseBucket
  <2>3. CASE UNCHANGED bucketVars BY <1>1, <2>3, BucketStutter
  <2> QED BY <1>1, <2>1, <2>2, <2>3 DEF BucketNext
<1> QED BY <1>1, InitBucket, PTL DEF BucketSpec

(***************************************************************************)
(* Type correctness of the bucket and its callers.                         *)
(***************************************************************************)
THEOREM LimiterTypes == BucketSpec => []BucketTypeOK
<1>1. BucketInv => BucketTypeOK BY DEF BucketInv
<1> QED BY <1>1, LimiterInvariant, PTL

(***************************************************************************)
(* Limit + 1 tokens always span the window, less the delay and the spread. *)
(***************************************************************************)
THEOREM BoundedOverGrant == BucketSpec => []OverGrantIsBounded
<1>1. BucketInv => OverGrantIsBounded BY DEF BucketInv
<1> QED BY <1>1, LimiterInvariant, PTL

-----------------------------------------------------------------------------
(***************************************************************************)
(* The visibility lease.                                                   *)
(***************************************************************************)

(***************************************************************************)
(* The two steps of _mark_ownership_lost, as sequences.                    *)
(***************************************************************************)
LEMMA MarkFacts ==
    /\ Head(MarkSteps) = "lose" /\ Tail(MarkSteps) = <<"close">> /\ Len(MarkSteps) = 2
    /\ Head(<<"close">>) = "close" /\ Tail(<<"close">>) = <<>> /\ Len(<<"close">>) = 1
    /\ MarkSteps # <<>> /\ <<"close">> # <<>> /\ MarkSteps # <<"close">>
BY DEF MarkSteps

(***************************************************************************)
(* Three intervals and, between them, room for a call: what check_queue    *)
(* makes of the timeout.                                                   *)
(***************************************************************************)
LEMMA IntervalFacts ==
    /\ Interval \in Nat /\ 3 * Interval <= Timeout /\ Envelope < Interval
    /\ Timeout \in Nat /\ Envelope \in Nat /\ MaxLate \in Nat /\ MaxLate <= Envelope
BY LeaseAssumption DEF Interval

(***************************************************************************)
(* A retry is placed between now and the latest start.                     *)
(***************************************************************************)
LEMMA HalfWay ==
    ASSUME NEW t \in Int, NEW latest \in Int, t < latest
    PROVE  /\ t + (latest - t) \div 2 \in Int
           /\ t <= t + (latest - t) \div 2
           /\ t + (latest - t) \div 2 <= latest
OBVIOUS

(***************************************************************************)
(* While the heartbeat claims the delivery, its estimate never exceeds the *)
(* queue's own expiry and the next step is due in time.                    *)
(***************************************************************************)
Timing ==
    /\ estimated <= clock + Timeout
    /\ Claims => owner = "this" /\ estimated <= hidden /\ failures <= 1
    /\ beat = "waiting" =>
        nextAt <= LatestStart(estimated) /\ clock <= nextAt + MaxLate
    /\ beat = "calling" =>
        /\ started <= LatestStart(estimated)
        /\ started <= clock /\ clock <= started + Envelope
        /\ applied => started + Timeout <= hidden

(***************************************************************************)
(* Where the two threads are in the hand-over of the loss.                 *)
(***************************************************************************)
HandOver ==
    /\ beat = "marking" => marks \in {MarkSteps, <<"close">>}
    /\ beat # "marking" => marks = <<>>
    /\ Claims => ~lost
    /\ marks = MarkSteps => ~lost
    /\ (lost /\ marks = <<>> /\ admission = "open") => (main = "binding" /\ sawLost)

LeaseInv == LeaseTypeOK /\ Timing /\ HandOver

-----------------------------------------------------------------------------

LEMMA InitLease == LeaseInit => LeaseInv
<1> SUFFICES ASSUME LeaseInit PROVE LeaseInv OBVIOUS
<1>1. LeaseTypeOK
  <2>1. clock \in Nat /\ hidden \in Nat /\ nextAt \in Int /\ estimated \in Int
    BY IntervalFacts DEF LeaseInit
  <2>2. started \in Nat /\ failures \in 0..2 BY DEF LeaseInit
  <2> QED BY <2>1, <2>2 DEF LeaseInit, LeaseTypeOK
<1>2. Timing BY IntervalFacts DEF LeaseInit, Timing, Claims, LatestStart
<1>3. HandOver BY MarkFacts DEF LeaseInit, HandOver, Claims
<1> QED BY <1>1, <1>2, <1>3 DEF LeaseInv

(* The thread wakes: one call in time, or the delivery is given up. *)
LEMMA AttemptStep == ASSUME LeaseInv, StartCall PROVE LeaseInv'
<1> USE DEF LeaseInv
<1>1. LeaseTypeOK' BY IntervalFacts, MarkFacts DEF StartCall, TooLate, GiveUp, LeaseTypeOK, queue, schedule, gate
<1>2. Timing' BY IntervalFacts DEF StartCall, TooLate, GiveUp, LeaseTypeOK, Timing, Claims, LatestStart, queue, schedule, gate
<1>3. HandOver' BY MarkFacts DEF StartCall, TooLate, GiveUp, LeaseTypeOK, HandOver, Claims, queue, schedule, gate
<1> QED BY <1>1, <1>2, <1>3

(* The loss is marked: the flag first, then the admission. *)
LEMMA MarkStep == ASSUME LeaseInv, Mark PROVE LeaseInv'
<1> USE DEF LeaseInv
<1>1. marks \in {MarkSteps, <<"close">>} BY DEF Mark, HandOver
<1>2. CASE marks = MarkSteps
  <2>1. /\ lost' = TRUE /\ admission' = admission
        /\ marks' = <<"close">> /\ beat' = "marking"
    BY <1>2, MarkFacts DEF Mark
  <2>2. LeaseTypeOK' BY <2>1, MarkFacts DEF Mark, LeaseTypeOK, queue, schedule
  <2>3. Timing' BY <2>1 DEF Mark, LeaseTypeOK, Timing, Claims, LatestStart, queue, schedule
  <2>4. HandOver' BY <2>1, MarkFacts DEF HandOver, Claims
  <2> QED BY <2>2, <2>3, <2>4
<1>3. CASE marks = <<"close">>
  <2>1. /\ lost' = lost /\ marks' = <<>> /\ beat' = "ended"
        /\ admission' = IF admission = "open" THEN "closed" ELSE admission
    BY <1>3, MarkFacts DEF Mark
  <2>2. LeaseTypeOK' BY <2>1 DEF Mark, LeaseTypeOK, queue, schedule
  <2>3. Timing' BY <2>1 DEF Mark, LeaseTypeOK, Timing, Claims, LatestStart, queue, schedule
  <2>4. HandOver' BY <2>1, MarkFacts DEF HandOver, Claims
  <2> QED BY <2>2, <2>3, <2>4
<1> QED BY <1>1, <1>2, <1>3

(* The queue moves its own expiry on. *)
LEMMA AppliesStep == ASSUME LeaseInv, Applies PROVE LeaseInv'
<1> USE DEF LeaseInv
<1>1. LeaseTypeOK' BY IntervalFacts, MarkFacts DEF Applies, LeaseTypeOK, queue, schedule, gate
<1>2. Timing' BY IntervalFacts DEF Applies, LeaseTypeOK, Timing, Claims, LatestStart, queue, schedule, gate
<1>3. HandOver' BY MarkFacts DEF Applies, LeaseTypeOK, HandOver, Claims, queue, schedule, gate
<1> QED BY <1>1, <1>2, <1>3

(* The new lease counts from the start of the call. *)
LEMMA SucceedsStep == ASSUME LeaseInv, Succeeds PROVE LeaseInv'
<1> USE DEF LeaseInv
<1>1. LeaseTypeOK' BY IntervalFacts, MarkFacts DEF Succeeds, Renewed, LeaseTypeOK, queue, schedule, gate
<1>2. Timing' BY IntervalFacts DEF Succeeds, Renewed, LeaseTypeOK, Timing, Claims, LatestStart, queue, schedule, gate
<1>3. HandOver' BY MarkFacts DEF Succeeds, Renewed, LeaseTypeOK, HandOver, Claims, queue, schedule, gate
<1> QED BY <1>1, <1>2, <1>3

(* A rejected receipt gives the delivery up. *)
LEMMA RejectedStep == ASSUME LeaseInv, CallRejected PROVE LeaseInv'
<1> USE DEF LeaseInv
<1>1. LeaseTypeOK' BY IntervalFacts, MarkFacts DEF CallRejected, GiveUp, LeaseTypeOK, queue, schedule, gate
<1>2. Timing' BY IntervalFacts DEF CallRejected, GiveUp, LeaseTypeOK, Timing, Claims, LatestStart, queue, schedule, gate
<1>3. HandOver' BY MarkFacts DEF CallRejected, GiveUp, LeaseTypeOK, HandOver, Claims, queue, schedule, gate
<1> QED BY <1>1, <1>2, <1>3

(* A failed call is retried within the window that is left, or not at all. *)
LEMMA FailsStep == ASSUME LeaseInv, Fails PROVE LeaseInv'
<1> USE DEF LeaseInv
<1>1. clock \in Int /\ LatestStart(estimated) \in Int
  BY IntervalFacts DEF LeaseTypeOK, LatestStart
<1>2. clock < LatestStart(estimated) =>
        /\ RetryAt \in Int /\ clock <= RetryAt /\ RetryAt <= LatestStart(estimated)
  BY <1>1, HalfWay DEF RetryAt
<1>3. LeaseTypeOK' BY <1>1, <1>2, MarkFacts DEF Fails, GiveUp, MaxConsecutiveFailures, LeaseTypeOK, Timing, Claims, queue, schedule, gate
<1>4. Timing' BY <1>1, <1>2, IntervalFacts DEF Fails, GiveUp, MaxConsecutiveFailures, LeaseTypeOK, Timing, Claims, LatestStart, queue, schedule, gate
<1>5. HandOver' BY MarkFacts DEF Fails, GiveUp, LeaseTypeOK, HandOver, Claims, queue, schedule, gate
<1> QED BY <1>3, <1>4, <1>5

(* The queue can hand the message on only once it is no longer claimed. *)
LEMMA RedeliverStep == ASSUME LeaseInv, Redeliver PROVE LeaseInv'
<1> USE DEF LeaseInv
<1>1. LeaseTypeOK' BY IntervalFacts, MarkFacts DEF Redeliver, LeaseTypeOK, queue, schedule, gate
<1>2. Timing' BY IntervalFacts DEF Redeliver, LeaseTypeOK, Timing, Claims, LatestStart, queue, schedule, gate
<1>3. HandOver' BY MarkFacts DEF Redeliver, LeaseTypeOK, HandOver, Claims, queue, schedule, gate
<1> QED BY <1>1, <1>2, <1>3

(* Time passes no further than the scheduler and the call's envelope let it. *)
LEMMA LeaseTicks == ASSUME LeaseInv, LeaseTick PROVE LeaseInv'
<1> USE DEF LeaseInv
<1>1. LeaseTypeOK' BY IntervalFacts, MarkFacts DEF LeaseTick, LeaseTypeOK, queue, schedule, gate
<1>2. Timing' BY IntervalFacts DEF LeaseTick, LeaseTypeOK, Timing, Claims, LatestStart, queue, schedule, gate
<1>3. HandOver' BY MarkFacts DEF LeaseTick, LeaseTypeOK, HandOver, Claims, queue, schedule, gate
<1> QED BY <1>1, <1>2, <1>3

(* The delivery is finished. *)
LEMMA StopLeaseStep == ASSUME LeaseInv, StopLease PROVE LeaseInv'
<1> USE DEF LeaseInv
<1>1. LeaseTypeOK' BY IntervalFacts, MarkFacts DEF StopLease, LeaseTypeOK, queue, schedule, gate
<1>2. Timing' BY IntervalFacts DEF StopLease, LeaseTypeOK, Timing, Claims, LatestStart, queue, schedule, gate
<1>3. HandOver' BY MarkFacts DEF StopLease, LeaseTypeOK, HandOver, Claims, queue, schedule, gate
<1> QED BY <1>1, <1>2, <1>3

(* The admission is published together with the reading of the flag. *)
LEMMA BindStep == ASSUME LeaseInv, Bind PROVE LeaseInv'
<1> USE DEF LeaseInv
<1>1. LeaseTypeOK' BY IntervalFacts, MarkFacts DEF Bind, LeaseTypeOK, queue, schedule, gate
<1>2. Timing' BY IntervalFacts DEF Bind, LeaseTypeOK, Timing, Claims, LatestStart, queue, schedule, gate
<1>3. HandOver' BY MarkFacts DEF Bind, LeaseTypeOK, HandOver, Claims, queue, schedule, gate
<1> QED BY <1>1, <1>2, <1>3

(* A loss that was read closes the admission. *)
LEMMA BoundStep == ASSUME LeaseInv, Bound PROVE LeaseInv'
<1> USE DEF LeaseInv
<1>1. LeaseTypeOK' BY IntervalFacts, MarkFacts DEF Bound, LeaseTypeOK, queue, schedule, gate
<1>2. Timing' BY IntervalFacts DEF Bound, LeaseTypeOK, Timing, Claims, LatestStart, queue, schedule, gate
<1>3. HandOver' BY MarkFacts DEF Bound, LeaseTypeOK, HandOver, Claims, queue, schedule, gate
<1> QED BY <1>1, <1>2, <1>3

(* A node starts. *)
LEMMA BeginStep == ASSUME LeaseInv, BeginNode PROVE LeaseInv'
<1> USE DEF LeaseInv
<1>1. LeaseTypeOK' BY IntervalFacts, MarkFacts DEF BeginNode, LeaseTypeOK, queue, schedule, gate
<1>2. Timing' BY IntervalFacts DEF BeginNode, LeaseTypeOK, Timing, Claims, LatestStart, queue, schedule, gate
<1>3. HandOver' BY MarkFacts DEF BeginNode, LeaseTypeOK, HandOver, Claims, queue, schedule, gate
<1> QED BY <1>1, <1>2, <1>3

(* A node ends. *)
LEMMA FinishStep == ASSUME LeaseInv, FinishNode PROVE LeaseInv'
<1> USE DEF LeaseInv
<1>1. LeaseTypeOK' BY IntervalFacts, MarkFacts DEF FinishNode, LeaseTypeOK, queue, schedule, gate
<1>2. Timing' BY IntervalFacts DEF FinishNode, LeaseTypeOK, Timing, Claims, LatestStart, queue, schedule, gate
<1>3. HandOver' BY MarkFacts DEF FinishNode, LeaseTypeOK, HandOver, Claims, queue, schedule, gate
<1> QED BY <1>1, <1>2, <1>3

(* The admission is withdrawn. *)
LEMMA UnbindStep == ASSUME LeaseInv, Unbind PROVE LeaseInv'
<1> USE DEF LeaseInv
<1>1. LeaseTypeOK' BY IntervalFacts, MarkFacts DEF Unbind, LeaseTypeOK, queue, schedule, gate
<1>2. Timing' BY IntervalFacts DEF Unbind, LeaseTypeOK, Timing, Claims, LatestStart, queue, schedule, gate
<1>3. HandOver' BY MarkFacts DEF Unbind, LeaseTypeOK, HandOver, Claims, queue, schedule, gate
<1> QED BY <1>1, <1>2, <1>3

LEMMA LeaseStutter == ASSUME LeaseInv, UNCHANGED leaseVars PROVE LeaseInv'
BY DEF LeaseInv, LeaseTypeOK, Timing, HandOver, Claims, LatestStart, leaseVars, queue, schedule, gate

(***************************************************************************)
(* The invariant is inductive.                                             *)
(***************************************************************************)
THEOREM LeaseInvariant == LeaseSpec => []LeaseInv
<1>1. ASSUME LeaseInv, [LeaseNext]_leaseVars PROVE LeaseInv'
  <2>1. CASE Heartbeat
    BY <1>1, <2>1, AttemptStep, MarkStep, SucceedsStep, RejectedStep, FailsStep DEF Heartbeat
  <2>2. CASE Graph
    BY <1>1, <2>2, BindStep, BoundStep, BeginStep, FinishStep, UnbindStep, StopLeaseStep
    DEF Graph
  <2>3. CASE SQS BY <1>1, <2>3, AppliesStep, RedeliverStep DEF SQS
  <2>4. CASE LeaseTick BY <1>1, <2>4, LeaseTicks
  <2>5. CASE UNCHANGED leaseVars BY <1>1, <2>5, LeaseStutter
  <2> QED BY <1>1, <2>1, <2>2, <2>3, <2>4, <2>5 DEF LeaseNext
<1> QED BY <1>1, InitLease, PTL DEF LeaseSpec

(***************************************************************************)
(* Type correctness of the heartbeat.                                      *)
(***************************************************************************)
THEOREM LeaseTypes == LeaseSpec => []LeaseTypeOK
<1>1. LeaseInv => LeaseTypeOK BY DEF LeaseInv
<1> QED BY <1>1, LeaseInvariant, PTL

(* While a worker claims its delivery a third of the lease is left of its invisibility. *)
LEMMA ThirdIsLeft == ASSUME LeaseInv, Claims PROVE hidden - clock >= Interval
<1>1. beat \in {"waiting", "calling"} BY DEF Claims
<1>2. CASE beat = "waiting" BY <1>2, IntervalFacts DEF LeaseInv, LeaseTypeOK, Timing, Claims, LatestStart
<1>3. CASE beat = "calling" BY <1>3, IntervalFacts DEF LeaseInv, LeaseTypeOK, Timing, Claims, LatestStart
<1> QED BY <1>1, <1>2, <1>3

(***************************************************************************)
(* A worker that has not given its delivery up is the only one to hold it, *)
(* and the queue hides the message for another third of the lease.         *)
(***************************************************************************)
THEOREM SoundClaim == LeaseSpec => []ClaimIsSound
<1>1. LeaseInv => ClaimIsSound
  BY ThirdIsLeft, IntervalFacts DEF LeaseInv, LeaseTypeOK, Timing, ClaimIsSound
<1> QED BY <1>1, LeaseInvariant, PTL

(***************************************************************************)
(* The margin of a third of the lease is kept at every way of giving up.   *)
(***************************************************************************)
THEOREM ThirdKept == LeaseSpec => MarginKept
<1>1. LeaseInv => ((Claims /\ beat' = "marking") => hidden - clock >= Interval) BY ThirdIsLeft
<1> QED BY <1>1, LeaseInvariant, PTL DEF MarginKept

(***************************************************************************)
(* A loss closes the admission in every order of the two threads.          *)
(***************************************************************************)
THEOREM LossReachesAdmission == LeaseSpec => []LossClosesAdmission
<1>1. LeaseInv => LossClosesAdmission BY DEF LeaseInv, HandOver, LossClosesAdmission
<1> QED BY <1>1, LeaseInvariant, PTL

-----------------------------------------------------------------------------
(***************************************************************************)
(* The signing keys.                                                       *)
(***************************************************************************)

(***************************************************************************)
(* How recently the ids of a set were published.                           *)
(***************************************************************************)
AtLeast(ids, t) == \A k \in ids : LastPublished(k) >= t

(***************************************************************************)
(* What a request knows, of the ids held when it runs on.  Its document is *)
(* what the pool published since its fetch began.  When a reload has       *)
(* replaced the ids and not stamped them yet, they are a fetch older than  *)
(* now at most, whoever replaced them since.  A request past the look at   *)
(* the stamp will find ids at most a TTL and a fetch older than itself.    *)
(***************************************************************************)
ReadTimes(req) ==
    /\ req.step # "idle" => req.kid \in KeyId
    /\ req.at <= keyTime /\ req.since <= keyTime
    /\ req.step \in {"fetch", "read"} => req.at <= req.since /\ keyTime <= req.since + KeyTimeout

Document(req) == req.step = "read" => AtLeast(req.document, req.since)

Unstamped(req, ids) == req.step = "stamp" => AtLeast(ids, keyTime - KeyTimeout)

Finds(req, ids) ==
    req.step \in {"look", "take"} /\ ~ req.failed => AtLeast(ids, req.at - KeyTtl - KeyTimeout + 1)

Recent(req) ==
    req.step = "done" /\ ~ req.failed => AtLeast({req.kid}, req.at - KeyTtl - KeyTimeout + 1)

RequestInv(req, ids) ==
    ReadTimes(req) /\ Document(req) /\ Unstamped(req, ids) /\ Finds(req, ids) /\ Recent(req)

(***************************************************************************)
(* The ids held are at most a fetch older than their stamp, although two   *)
(* threads may have written the one and the other.                         *)
(***************************************************************************)
KeyInv ==
    /\ KeyTypeOK
    /\ fetched <= keyTime /\ \A k \in KeyId : withdrawn[k] <= keyTime
    /\ AtLeast(keys, fetched - KeyTimeout)
    /\ \A r \in Requests : RequestInv(request[r], keys)

InRequest == [step : {"idle", "look", "fetch", "read", "stamp", "take", "done"},
            kid : KeyId \union {"none"}, at : 0..MaxKeyTime, since : 0..MaxKeyTime,
            second : BOOLEAN, document : SUBSET KeyId, failed : BOOLEAN]

LEMMA KeyConstants ==
    /\ KeyTtl \in Nat /\ KeyTtl >= 1 /\ KeyTimeout \in Nat /\ MaxKeyTime \in Nat /\ MaxRotations \in Nat
    /\ FirstKeys \subseteq KeyId
BY KeyAssumption

LEMMA KeyTypes ==
    ASSUME KeyTypeOK
    PROVE  /\ keyTime \in 0..MaxKeyTime /\ rotations \in 0..MaxRotations
           /\ published \in SUBSET KeyId /\ withdrawn \in [KeyId -> -1..MaxKeyTime]
           /\ keys \in SUBSET KeyId /\ fetched \in -1..MaxKeyTime
           /\ request \in [Requests -> InRequest]
           /\ \A k \in KeyId : LastPublished(k) \in Int
BY KeyConstants DEF KeyTypeOK, InRequest, LastPublished

LEMMA NoRequestFacts ==
    /\ NoRequest \in InRequest
    /\ \A ids : keyTime \in Nat => RequestInv(NoRequest, ids)
<1> USE KeyConstants DEF NoRequest
<1>1. NoRequest \in InRequest BY DEF InRequest
<1>2. NoRequest.step = "idle" /\ NoRequest.at = 0 /\ NoRequest.since = 0 OBVIOUS
<1> QED BY <1>1, <1>2 DEF RequestInv, ReadTimes, Document, Unstamped, Finds, Recent

LEMMA InitKeys == KeyInit => KeyInv
<1> SUFFICES ASSUME KeyInit PROVE KeyInv OBVIOUS
<1> USE KeyConstants DEF KeyInit, Never
<1>1. KeyTypeOK BY NoRequestFacts DEF KeyTypeOK, InRequest
<1>2. \A r \in Requests : RequestInv(request[r], keys) BY NoRequestFacts
<1> QED BY <1>1, <1>2 DEF KeyInv, AtLeast

-----------------------------------------------------------------------------
(***************************************************************************)
(* The pool and the clock make the last publication of a key later and     *)
(* nothing else in the invariant false; time passes only while every       *)
(* request is idle or within its fetch.                                    *)
(***************************************************************************)
Outside == Rotate \/ PassTime

LEMMA PublishedLater ==
    ASSUME KeyInv, Outside, NEW k \in KeyId
    PROVE  LastPublished(k)' \in Int /\ LastPublished(k)' >= LastPublished(k)
<1>1. /\ withdrawn \in [KeyId -> Int] /\ keyTime \in Int /\ withdrawn[k] <= keyTime
  BY KeyTypes DEF KeyInv
<1>2. CASE Rotate BY <1>1, <1>2 DEF Rotate, LastPublished
<1>3. CASE PassTime BY <1>1, <1>3 DEF PassTime, LastPublished, poolKeys
<1> QED BY <1>2, <1>3 DEF Outside

LEMMA AtLeastKept ==
    ASSUME KeyInv, Outside, NEW ids \in SUBSET KeyId, NEW t \in Int, AtLeast(ids, t)
    PROVE  \A k \in ids : LastPublished(k)' >= t
<1> TAKE k \in ids
<1>1. k \in KeyId /\ LastPublished(k) >= t BY DEF AtLeast
<1>2. LastPublished(k) \in Int BY <1>1, KeyTypes DEF KeyInv
<1> QED BY <1>1, <1>2, PublishedLater

LEMMA OutsideTypes ==
    ASSUME KeyTypeOK, Outside
    PROVE  KeyTypeOK' /\ UNCHANGED <<keys, fetched, request>> /\ keyTime' \in {keyTime, keyTime + 1}
<1> USE KeyConstants, KeyTypes DEF KeyTypeOK
<1>1. CASE Rotate
  <2>1. withdrawn' \in [KeyId -> -1..MaxKeyTime] /\ published' \in SUBSET KeyId BY <1>1 DEF Rotate
  <2>2. rotations' \in 0..MaxRotations BY <1>1 DEF Rotate
  <2> QED BY <1>1, <2>1, <2>2 DEF Rotate, heldKeys
<1>2. CASE PassTime BY <1>2 DEF PassTime, heldKeys, poolKeys
<1> QED BY <1>1, <1>2 DEF Outside

LEMMA OutsideStep == ASSUME KeyInv, Outside PROVE KeyInv'
<1> USE KeyConstants
<1>1. KeyTypeOK /\ KeyTypeOK' /\ UNCHANGED <<keys, fetched, request>>
  BY OutsideTypes DEF KeyInv
<1>2. /\ keyTime \in Nat /\ keyTime' \in {keyTime, keyTime + 1} /\ keyTime' \in 0..MaxKeyTime
      /\ fetched \in Int /\ keys \in SUBSET KeyId
  BY <1>1, KeyTypes, OutsideTypes DEF KeyTypeOK
<1>3. fetched' <= keyTime' BY <1>1, <1>2 DEF KeyInv
<1>4. \A k \in KeyId : withdrawn'[k] <= keyTime'
  BY <1>1, <1>2, KeyTypes DEF KeyInv, Outside, Rotate, PassTime, poolKeys
<1>5. \A k \in keys : LastPublished(k)' >= fetched - KeyTimeout
  BY <1>2, AtLeastKept DEF KeyInv
<1>6. ASSUME NEW r \in Requests PROVE RequestInv(request[r], keys)'
  <2> DEFINE req == request[r]
  <2>1. req \in InRequest /\ RequestInv(req, keys) BY <1>1, KeyTypes DEF KeyInv
  <2>2. /\ req.at \in Nat /\ req.since \in Nat /\ req.document \in SUBSET KeyId
        /\ req.kid \in KeyId \union {"none"}
    BY <2>1 DEF InRequest
  <2>3. keyTime' = keyTime \/ req.step = "idle"
          \/ (req.step \in {"fetch", "read"} /\ keyTime - req.since < KeyTimeout)
    BY DEF Outside, Rotate, PassTime, OnTheWire
  <2> HIDE DEF req
  <2>4. ReadTimes(req)' BY <1>1, <1>2, <2>1, <2>2, <2>3 DEF RequestInv, ReadTimes, req
  <2>5. Document(req)' BY <1>1, <2>1, <2>2, AtLeastKept DEF RequestInv, Document, AtLeast, req
  <2>6. Unstamped(req, keys)'
    <3> SUFFICES ASSUME req.step = "stamp" PROVE \A k \in keys : LastPublished(k)' >= keyTime - KeyTimeout
      BY <1>1, <1>2, <2>3 DEF Unstamped, AtLeast, req
    <3>1. AtLeast(keys, keyTime - KeyTimeout) BY <2>1 DEF RequestInv, Unstamped
    <3> QED BY <1>2, <3>1, AtLeastKept
  <2>7. Finds(req, keys)'
    <3> SUFFICES ASSUME req.step \in {"look", "take"}, ~ req.failed
                 PROVE  \A k \in keys : LastPublished(k)' >= req.at - KeyTtl - KeyTimeout + 1
      BY <1>1 DEF Finds, AtLeast, req
    <3>1. AtLeast(keys, req.at - KeyTtl - KeyTimeout + 1) BY <2>1 DEF RequestInv, Finds
    <3> QED BY <1>2, <2>2, <3>1, AtLeastKept
  <2>8. Recent(req)'
    <3> SUFFICES ASSUME req.step = "done", ~ req.failed
                 PROVE  \A k \in {req.kid} : LastPublished(k)' >= req.at - KeyTtl - KeyTimeout + 1
      BY <1>1 DEF Recent, AtLeast, req
    <3>1. AtLeast({req.kid}, req.at - KeyTtl - KeyTimeout + 1) BY <2>1 DEF RequestInv, Recent
    <3>2. {req.kid} \in SUBSET KeyId BY <2>1 DEF RequestInv, ReadTimes
    <3> QED BY <2>2, <3>1, <3>2, AtLeastKept
  <2> QED BY <2>4, <2>5, <2>6, <2>7, <2>8 DEF RequestInv, req
<1> QED BY <1>1, <1>3, <1>4, <1>5, <1>6 DEF KeyInv, AtLeast

-----------------------------------------------------------------------------
(***************************************************************************)
(* A step of one request.  The others are not disturbed, for it leaves the *)
(* ids alone or replaces them by some a fetch older than now at most.      *)
(***************************************************************************)
LEMMA RequestStep ==
    ASSUME KeyInv, NEW r \in Requests, NEW req \in InRequest, Goes(r, req),
           UNCHANGED <<keyTime, poolKeys>>,
           keys' \in SUBSET KeyId, keys' = keys \/ AtLeast(keys', keyTime - KeyTimeout),
           fetched' \in -1..MaxKeyTime, fetched' <= keyTime,
           AtLeast(keys', fetched' - KeyTimeout), RequestInv(req, keys')
    PROVE  KeyInv'
<1> USE KeyConstants
<1>1. KeyTypeOK /\ UNCHANGED <<keyTime, published, withdrawn, rotations>>
  BY DEF KeyInv, poolKeys
<1>2. /\ request \in [Requests -> InRequest] /\ request' \in [Requests -> InRequest]
      /\ request'[r] = req /\ \A q \in Requests \ {r} : request'[q] = request[q]
      /\ keyTime \in Nat /\ \A k \in KeyId : LastPublished(k) \in Int
  BY <1>1, KeyTypes DEF Goes
<1>3. KeyTypeOK' BY <1>1, <1>2 DEF KeyTypeOK, InRequest
<1>4. ASSUME NEW k PROVE LastPublished(k)' = LastPublished(k) BY <1>1 DEF LastPublished
<1>5. ASSUME NEW q \in Requests \ {r} PROVE RequestInv(request[q], keys')
  <2> DEFINE other == request[q]
  <2>1. other \in InRequest /\ RequestInv(other, keys) BY <1>2 DEF KeyInv
  <2>2. other.at \in Nat /\ other.at <= keyTime BY <2>1 DEF InRequest, RequestInv, ReadTimes
  <2> HIDE DEF other
  <2>3. CASE keys' = keys BY <2>1, <2>3 DEF other
  <2>4. CASE AtLeast(keys', keyTime - KeyTimeout)
    <3>1. \A k \in keys' : LastPublished(k) \in Int /\ LastPublished(k) >= keyTime - KeyTimeout
      BY <1>2, <2>4 DEF AtLeast
    <3>2. \A k \in keys' : LastPublished(k) >= other.at - KeyTtl - KeyTimeout + 1
      BY <1>2, <2>2, <3>1
    <3> QED BY <2>1, <2>4, <3>2 DEF RequestInv, Unstamped, Finds, AtLeast, other
  <2> QED BY <2>3, <2>4
<1>6. \A q \in Requests : RequestInv(request'[q], keys') BY <1>2, <1>5
<1>7. ASSUME NEW q \in Requests PROVE RequestInv(request[q], keys)'
  <2>1. RequestInv(request'[q], keys') BY <1>6
  <2> QED BY <1>1, <1>4, <2>1 DEF RequestInv, ReadTimes, Document, Unstamped, Finds, Recent, AtLeast
<1>8. AtLeast(keys, fetched - KeyTimeout)' BY <1>4 DEF AtLeast
<1>9. fetched' <= keyTime' /\ \A k \in KeyId : withdrawn'[k] <= keyTime' BY <1>1 DEF KeyInv
<1> QED BY <1>3, <1>7, <1>8, <1>9 DEF KeyInv

(***************************************************************************)
(* What a request is, and how the two fields a step most often sets leave  *)
(* the others.                                                             *)
(***************************************************************************)
LEMMA Fields ==
    ASSUME KeyInv, NEW r \in Requests
    PROVE  /\ request[r] \in InRequest /\ RequestInv(request[r], keys) /\ ReadTimes(request[r])
           /\ request[r].at \in Nat /\ request[r].since \in Nat /\ request[r].at \in 0..MaxKeyTime
           /\ request[r].document \in SUBSET KeyId /\ request[r].failed \in BOOLEAN
           /\ request[r].second \in BOOLEAN
           /\ keyTime \in 0..MaxKeyTime /\ keyTime \in Nat /\ fetched \in -1..MaxKeyTime /\ fetched <= keyTime
           /\ keys \in SUBSET KeyId /\ AtLeast(keys, fetched - KeyTimeout)
           /\ \A k \in KeyId : LastPublished(k) \in Int
<1>1. /\ request[r] \in InRequest /\ RequestInv(request[r], keys)
      /\ keyTime \in 0..MaxKeyTime /\ fetched \in -1..MaxKeyTime /\ keys \in SUBSET KeyId
      /\ \A k \in KeyId : LastPublished(k) \in Int
  BY KeyTypes DEF KeyInv
<1> QED BY <1>1, KeyConstants DEF KeyInv, InRequest, RequestInv

(***************************************************************************)
(* A step that leaves what is held alone.                                  *)
(***************************************************************************)
LEMMA HeldStep ==
    ASSUME KeyInv, NEW r \in Requests, NEW req \in InRequest, Goes(r, req),
           UNCHANGED <<keyTime, poolKeys, heldKeys>>, RequestInv(req, keys)
    PROVE  KeyInv'
<1>1. keys' = keys /\ fetched' = fetched BY DEF heldKeys
<1> QED BY <1>1, Fields, RequestStep

LEMMA LoadFacts ==
    ASSUME NEW req \in InRequest, req.kid \in KeyId, req.at <= keyTime, keyTime \in 0..MaxKeyTime,
           NEW ids
    PROVE  Load(req) \in InRequest /\ RequestInv(Load(req), ids)
<1> USE KeyConstants
<1>1. Load(req) \in InRequest BY DEF Load, InRequest
<1>2. /\ Load(req).step = "fetch" /\ Load(req).since = keyTime
      /\ Load(req).at = req.at /\ Load(req).kid = req.kid
  BY DEF Load, InRequest
<1> QED BY <1>1, <1>2 DEF RequestInv, ReadTimes, Document, Unstamped, Finds, Recent

LEMMA LookFacts ==
    ASSUME NEW req \in InRequest, req.kid \in KeyId, req.at <= keyTime, req.since <= keyTime,
           NEW ids, req.failed \/ AtLeast(ids, req.at - KeyTtl - KeyTimeout + 1)
    PROVE  Look(req) \in InRequest /\ RequestInv(Look(req), ids)
<1>1. Look(req) \in InRequest BY DEF Look, InRequest
<1>2. /\ Look(req).step \in {"look", "take"} /\ Look(req).since = req.since
      /\ Look(req).at = req.at /\ Look(req).kid = req.kid /\ Look(req).failed = req.failed
  BY DEF Look, InRequest
<1> QED BY <1>1, <1>2 DEF RequestInv, ReadTimes, Document, Unstamped, Finds, Recent

(* A request that finds the stamp young finds ids that are as young.       *)
LEMMA KeyForStep == ASSUME KeyInv, NEW r \in Requests, KeyFor(r) PROVE KeyInv'
<1> USE KeyConstants
<1>1. PICK k \in KeyId :
        LET req == [NoRequest EXCEPT !.kid = k, !.at = keyTime]
        IN  Goes(r, IF Stale(keyTime) THEN Load(req) ELSE Look(req))
  BY DEF KeyFor
<1> DEFINE req == [NoRequest EXCEPT !.kid = k, !.at = keyTime]
<1>2. req \in InRequest /\ req.kid = k /\ req.at = keyTime /\ req.since = 0 /\ ~ req.failed
  <2>1. keyTime \in 0..MaxKeyTime BY Fields
  <2>2. 0 \in 0..MaxKeyTime OBVIOUS
  <2> QED BY <2>1, <2>2 DEF NoRequest, InRequest
<1> HIDE DEF req
<1>3. CASE Stale(keyTime)
  <2>1. Load(req) \in InRequest /\ RequestInv(Load(req), keys) BY <1>2, Fields, LoadFacts
  <2>2. Goes(r, Load(req)) BY <1>1, <1>3 DEF req
  <2> QED BY <2>1, <2>2, HeldStep DEF KeyFor
<1>4. CASE ~ Stale(keyTime)
  <2>1. fetched - KeyTimeout >= req.at - KeyTtl - KeyTimeout + 1
    BY <1>2, <1>4, Fields DEF Stale, Never
  <2>2. AtLeast(keys, req.at - KeyTtl - KeyTimeout + 1)
    <3> SUFFICES ASSUME NEW i \in keys PROVE LastPublished(i) >= req.at - KeyTtl - KeyTimeout + 1
      BY DEF AtLeast
    <3>1. LastPublished(i) \in Int /\ LastPublished(i) >= fetched - KeyTimeout
      BY Fields DEF AtLeast
    <3> QED BY <1>2, <2>1, <3>1, Fields
  <2>3. Look(req) \in InRequest /\ RequestInv(Look(req), keys) BY <1>2, <2>2, Fields, LookFacts
  <2>4. Goes(r, Look(req)) BY <1>1, <1>4 DEF req
  <2> QED BY <2>3, <2>4, HeldStep DEF KeyFor
<1> QED BY <1>3, <1>4

LEMMA LookupStep == ASSUME KeyInv, NEW r \in Requests, Lookup(r) PROVE KeyInv'
<1> USE KeyConstants
<1> DEFINE req == request[r]
<1>1. /\ req \in InRequest /\ RequestInv(req, keys) /\ req.step = "look" /\ ReadTimes(req)
      /\ UNCHANGED <<keyTime, poolKeys, heldKeys>>
  BY Fields DEF Lookup
<1>2. req.kid \in KeyId /\ req.at <= keyTime /\ req.since <= keyTime BY <1>1 DEF ReadTimes
<1>3. \/ Goes(r, [req EXCEPT !.step = "take"])
      \/ Goes(r, Load([req EXCEPT !.second = TRUE]))
      \/ Goes(r, NoRequest)
  BY DEF Lookup, Unauthenticated
<1> HIDE DEF req
<1>4. CASE Goes(r, [req EXCEPT !.step = "take"])
  <2>1. [req EXCEPT !.step = "take"] \in InRequest BY <1>1 DEF InRequest
  <2>2. RequestInv([req EXCEPT !.step = "take"], keys)
    BY <1>1 DEF InRequest, RequestInv, ReadTimes, Document, Unstamped, Finds, Recent
  <2> QED BY <1>1, <1>4, <2>1, <2>2, HeldStep
<1>5. CASE Goes(r, Load([req EXCEPT !.second = TRUE]))
  <2> DEFINE again == [req EXCEPT !.second = TRUE]
  <2>1. again \in InRequest /\ again.kid = req.kid /\ again.at = req.at BY <1>1 DEF InRequest
  <2> HIDE DEF again
  <2>2. Load(again) \in InRequest /\ RequestInv(Load(again), keys)
    BY <1>2, <2>1, Fields, LoadFacts
  <2>3. Goes(r, Load(again)) BY <1>5 DEF again
  <2> QED BY <1>1, <2>2, <2>3, HeldStep
<1>6. CASE Goes(r, NoRequest) BY <1>1, <1>6, NoRequestFacts, Fields, HeldStep
<1> QED BY <1>3, <1>4, <1>5, <1>6

(* Taken off the wire, a document is as recent as the fetch's beginning.   *)
LEMMA ServeStep == ASSUME KeyInv, NEW r \in Requests, Serve(r) PROVE KeyInv'
<1> DEFINE req == request[r]
           read == [req EXCEPT !.step = "read", !.document = published]
<1>1. /\ req \in InRequest /\ req.step = "fetch" /\ ReadTimes(req) /\ Goes(r, read)
      /\ UNCHANGED <<keyTime, poolKeys, heldKeys>> /\ published \in SUBSET KeyId
  BY Fields, KeyTypes DEF Serve, KeyInv
<1>2. /\ read \in InRequest /\ read.step = "read" /\ read.document = published
      /\ read.at = req.at /\ read.since = req.since /\ read.kid = req.kid
  BY <1>1 DEF InRequest
<1>3. \A k \in published : LastPublished(k) >= read.since
  BY <1>1, <1>2, Fields DEF LastPublished, ReadTimes
<1>4. RequestInv(read, keys)
  BY <1>1, <1>2, <1>3 DEF RequestInv, ReadTimes, Document, Unstamped, Finds, Recent, AtLeast
<1> QED BY <1>1, <1>2, <1>4, HeldStep

(* Stored, it is a fetch older than now at most.                           *)
LEMMA StoreStep == ASSUME KeyInv, NEW r \in Requests, Store(r) PROVE KeyInv'
<1> USE KeyConstants
<1> DEFINE req == request[r]
           stamp == [req EXCEPT !.step = "stamp", !.document = {}, !.since = 0]
<1>1. /\ req \in InRequest /\ req.step = "read" /\ RequestInv(req, keys) /\ Goes(r, stamp)
      /\ UNCHANGED <<keyTime, poolKeys, fetched>> /\ keys' = req.document
      /\ req.document \in SUBSET KeyId /\ req.since \in Nat
  BY Fields DEF Store
<1>2. /\ stamp \in InRequest /\ stamp.step = "stamp" /\ stamp.since = 0
      /\ stamp.at = req.at /\ stamp.kid = req.kid
  <2>1. 0 \in 0..MaxKeyTime /\ {} \in SUBSET KeyId OBVIOUS
  <2> QED BY <1>1, <2>1 DEF InRequest
<1>3. \A k \in keys' : LastPublished(k) \in Int /\ LastPublished(k) >= req.since
  BY <1>1, Fields DEF RequestInv, Document, AtLeast
<1>4. ReadTimes(req) BY <1>1 DEF RequestInv
<1>5. AtLeast(keys', keyTime - KeyTimeout)
  BY <1>1, <1>3, <1>4, Fields DEF AtLeast, ReadTimes
<1>6. AtLeast(keys', fetched' - KeyTimeout)
  <2> SUFFICES ASSUME NEW k \in keys' PROVE LastPublished(k) >= fetched - KeyTimeout
    BY <1>1 DEF AtLeast
  <2>1. LastPublished(k) \in Int /\ LastPublished(k) >= keyTime - KeyTimeout
    BY <1>3, <1>5 DEF AtLeast
  <2> QED BY <2>1, Fields
<1>7. RequestInv(stamp, keys')
  <2>1. keyTime \in Nat BY Fields
  <2> HIDE DEF stamp
  <2> QED BY <1>1, <1>2, <1>4, <1>5, <2>1 DEF RequestInv, ReadTimes, Document, Unstamped, Finds, Recent
<1>8. fetched' \in -1..MaxKeyTime /\ fetched' <= keyTime /\ keys' \in SUBSET KeyId
  BY <1>1, Fields
<1> QED BY <1>1, <1>2, <1>5, <1>6, <1>7, <1>8, RequestStep

LEMMA StampedStep == ASSUME KeyInv, NEW r \in Requests, Stamped(r) PROVE KeyInv'
<1> USE KeyConstants
<1> DEFINE req == request[r]
<1>1. /\ req \in InRequest /\ req.step = "stamp" /\ RequestInv(req, keys) /\ ReadTimes(req)
      /\ UNCHANGED <<keyTime, poolKeys, keys>> /\ fetched' = req.at /\ Goes(r, Look(req))
      /\ req.at \in 0..MaxKeyTime
  BY Fields DEF Stamped
<1>2. req.kid \in KeyId /\ req.at <= keyTime /\ req.since <= keyTime BY <1>1 DEF ReadTimes
<1> HIDE DEF req
<1>3. \A k \in keys : LastPublished(k) \in Int /\ LastPublished(k) >= keyTime - KeyTimeout
  BY <1>1, Fields DEF RequestInv, Unstamped, AtLeast
<1>4. AtLeast(keys, req.at - KeyTimeout) /\ AtLeast(keys, req.at - KeyTtl - KeyTimeout + 1)
  BY <1>1, <1>2, <1>3, Fields DEF AtLeast
<1>5. Look(req) \in InRequest /\ RequestInv(Look(req), keys) BY <1>1, <1>2, <1>4, LookFacts
<1>6. fetched' \in -1..MaxKeyTime /\ fetched' <= keyTime BY <1>1, <1>2
<1> QED BY <1>1, <1>4, <1>5, <1>6, Fields, RequestStep

LEMMA ReloadFailsStep == ASSUME KeyInv, NEW r \in Requests, ReloadFails(r) PROVE KeyInv'
<1> USE KeyConstants
<1> DEFINE req == request[r]
           failed == [req EXCEPT !.document = {}, !.since = 0, !.failed = TRUE]
<1>1. /\ req \in InRequest /\ req.step \in {"fetch", "read"} /\ ReadTimes(req)
      /\ UNCHANGED <<keyTime, poolKeys, keys>> /\ fetched' = fetched /\ Goes(r, Look(failed))
  BY Fields DEF ReloadFails, AfterFailure
<1>2. /\ failed \in InRequest /\ failed.kid = req.kid /\ failed.at = req.at /\ failed.since = 0
      /\ failed.failed
  <2>1. 0 \in 0..MaxKeyTime /\ {} \in SUBSET KeyId OBVIOUS
  <2> QED BY <1>1, <2>1 DEF InRequest
<1>3. failed.kid \in KeyId /\ failed.at <= keyTime /\ failed.since <= keyTime
  BY <1>1, <1>2, Fields DEF ReadTimes
<1> HIDE DEF failed, req
<1>4. Look(failed) \in InRequest /\ RequestInv(Look(failed), keys) BY <1>2, <1>3, LookFacts
<1> QED BY <1>1, <1>4, HeldStep DEF heldKeys

LEMMA SubscriptStep == ASSUME KeyInv, NEW r \in Requests, Subscript(r) PROVE KeyInv'
<1> DEFINE req == request[r]
           done == [req EXCEPT !.step = "done"]
<1>1. /\ req \in InRequest /\ req.step = "take" /\ RequestInv(req, keys)
      /\ UNCHANGED <<keyTime, poolKeys, heldKeys>>
  BY Fields DEF Subscript
<1>2. (req.kid \in keys /\ Goes(r, done)) \/ Goes(r, NoRequest)
  BY DEF Subscript, Identify, Missing, Unauthenticated, KeyError
<1>3. CASE req.kid \in keys /\ Goes(r, done)
  <2>1. /\ done \in InRequest /\ done.step = "done" /\ done.kid = req.kid
        /\ done.at = req.at /\ done.since = req.since /\ done.failed = req.failed
    BY <1>1 DEF InRequest
  <2>2. RequestInv(done, keys)
    BY <1>1, <1>3, <2>1 DEF RequestInv, ReadTimes, Document, Unstamped, Finds, Recent, AtLeast
  <2> QED BY <1>1, <1>3, <2>1, <2>2, HeldStep
<1>4. CASE Goes(r, NoRequest) BY <1>1, <1>4, NoRequestFacts, Fields, HeldStep
<1> QED BY <1>2, <1>3, <1>4

LEMMA ProceedStep == ASSUME KeyInv, NEW r \in Requests, Proceed(r) PROVE KeyInv'
BY NoRequestFacts, Fields, HeldStep DEF Proceed

LEMMA KeyStutter == ASSUME KeyInv, UNCHANGED keyVars PROVE KeyInv'
<1>1. UNCHANGED <<keyTime, published, withdrawn, rotations, keys, fetched, request>>
  BY DEF keyVars, poolKeys, heldKeys
<1> QED BY <1>1 DEF KeyInv, KeyTypeOK, RequestInv, ReadTimes, Document, Unstamped, Finds, Recent,
                    AtLeast, LastPublished

LEMMA KeysInvariant == KeySpec => []KeyInv
<1>1. KeyInv /\ [KeyNext]_keyVars => KeyInv'
  <2> SUFFICES ASSUME KeyInv, [KeyNext]_keyVars PROVE KeyInv' OBVIOUS
  <2>1. CASE UNCHANGED keyVars BY <2>1, KeyStutter
  <2>2. CASE Outside BY <2>2, OutsideStep
  <2>3. ASSUME NEW r \in Requests, KeyFor(r) \/ Lookup(r) \/ Subscript(r) \/ Proceed(r) PROVE KeyInv'
    BY <2>3, KeyForStep, LookupStep, SubscriptStep, ProceedStep
  <2>4. ASSUME NEW r \in Requests, Serve(r) \/ Store(r) \/ Stamped(r) \/ ReloadFails(r) PROVE KeyInv'
    BY <2>4, ServeStep, StoreStep, StampedStep, ReloadFailsStep
  <2> QED BY <2>1, <2>2, <2>3, <2>4 DEF KeyNext, Outside
<1> QED BY <1>1, InitKeys, PTL DEF KeySpec

(***************************************************************************)
(* The cache's variables and every request's stay in their sets.           *)
(***************************************************************************)
THEOREM KeyCacheTypes == KeySpec => []KeyTypeOK
<1>1. KeyInv => KeyTypeOK BY DEF KeyInv
<1> QED BY <1>1, KeysInvariant, PTL

(***************************************************************************)
(* For any number of threads on the cache that has no lock, and whenever   *)
(* the pool rotates: nobody is identified under a key the pool stopped     *)
(* publishing a TTL and a fetch ago, unless this request's own reload      *)
(* failed (routes/auth.py, JwksCache.key_for).                             *)
(***************************************************************************)
THEOREM KeysAreRecent == KeySpec => []KeyIsRecent
<1>1. KeyInv => KeyIsRecent
  <2> SUFFICES ASSUME KeyInv, NEW r \in Requests, request[r].step = "done", ~ request[r].failed
               PROVE  LastPublished(request[r].kid) > request[r].at - KeyTtl - KeyTimeout
    BY DEF KeyIsRecent
  <2> DEFINE key == request[r].kid
  <2>1. key \in KeyId /\ LastPublished(key) \in Int /\ request[r].at \in Nat
    BY Fields DEF ReadTimes
  <2>2. LastPublished(key) >= request[r].at - KeyTtl - KeyTimeout + 1
    BY Fields DEF RequestInv, Recent, AtLeast
  <2> QED BY <2>1, <2>2, KeyConstants
<1> QED BY <1>1, KeysInvariant, PTL
=============================================================================
