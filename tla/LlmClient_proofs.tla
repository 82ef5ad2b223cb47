------------------------- MODULE LlmClient_proofs --------------------------
(***************************************************************************)
(* The job's budget under the Researcher's pool, for any number of pages,  *)
(* threads, retries and answers: every request is paid for, once; the      *)
(* threads' interleaved reads and writes implement CallBudget; a call's    *)
(* sleeps stay within its ladders; and findings are numbered in page       *)
(* order.                                                                  *)
(***************************************************************************)
EXTENDS LlmClient, SequenceTheorems, WellFoundedInduction, TLAPS

(***************************************************************************)
(* The job's budget.                                                       *)
(***************************************************************************)

(***************************************************************************)
(* The part of the state the budget depends on.                            *)
(***************************************************************************)
BudgetTypes ==
    /\ pc \in [Call -> CallSteps]
    /\ used \in Nat /\ lock \in Call \cup {NoCall}
    /\ read \in [Call -> Nat] /\ ticket \in [Call -> Nat]
    /\ result \in [Call -> Failures \cup {"none", "ok"}]

(***************************************************************************)
(* Whoever is between spend()'s read and its write holds the lock, and has *)
(* read the counter as it still is; a claimed unit is within the counter   *)
(* and has paid for nothing.                                               *)
(***************************************************************************)
Inside(c) == pc[c] \in {"check", "add"}

CallInv(c) ==
    /\ Inside(c) => lock = c /\ read[c] = used
    /\ lock = c => Inside(c)
    /\ pc[c] = "add" => used < CallLimit
    /\ result[c] = "budget_exceeded" => used = CallLimit
    /\ HoldsTicket(c) => ticket[c] \in UsedBefore + 1 .. used /\ ticket[c] \notin requests

Apart(c, d) == HoldsTicket(c) /\ HoldsTicket(d) /\ c # d => ticket[c] # ticket[d]

BudgetInv ==
    /\ BudgetTypes
    /\ UsedBefore <= used /\ used <= CallLimit
    /\ requests \subseteq UsedBefore + 1 .. used
    /\ \A c \in Call : CallInv(c)
    /\ \A c, d \in Call : Apart(c, d)

LEMMA LimitFacts ==
    /\ CallLimit \in Nat /\ UsedBefore \in Nat /\ UsedBefore <= CallLimit
    /\ NoCall \notin Call
BY ClientAssumption DEF ClientAssumption, Call, NoCall

(***************************************************************************)
(* A step of one call changes that call's entries only.                    *)
(***************************************************************************)
Alone(c) ==
    /\ BudgetTypes'
    /\ \A d \in Call \ {c} : /\ pc'[d] = pc[d] /\ read'[d] = read[d] /\ ticket'[d] = ticket[d]
                             /\ result'[d] = result[d]

LEMMA StepNames ==
    /\ CallSteps = {"queued", "spend", "check", "add", "token", "send", "done"}
    /\ {"budget_exceeded", "rate_limited", "llm_call_failed", "invalid_output",
        "rate_limiter_unavailable", "ok"} \subseteq Failures \cup {"none", "ok"}
BY DEF CallSteps, Failures

(***************************************************************************)
(* What an answer does to a call: done, with a result that is no refusal   *)
(* by the budget, or back to spend(); its unit is gone either way.         *)
(***************************************************************************)
LEMMA AnswerEffect ==
    ASSUME BudgetInv, NEW c \in Call, SendRequest(c)
    PROVE  /\ pc[c] = "send" /\ pc'[c] \in {"done", "spend"}
           /\ result'[c] \in {result[c], "ok", "invalid_output", "rate_limited", "llm_call_failed"}
           /\ requests' = requests \cup {ticket[c]}
           /\ UNCHANGED <<used, lock>>
           /\ Alone(c)
<1>0. /\ pc \in [Call -> CallSteps] /\ ticket \in [Call -> Nat]
      /\ result \in [Call -> Failures \cup {"none", "ok"}]
  BY DEF BudgetInv, BudgetTypes
<1>1. Valid(c) \/ Invalid(c) \/ RateLimited(c) \/ Transport(c) \/ RequestRejected(c)
  BY DEF SendRequest
<1>2. pc[c] = "send" /\ requests' = requests \cup {ticket[c]} /\ UNCHANGED <<used, lock, read>>
  BY DEF SendRequest
<1>3. \/ Again(c) /\ UNCHANGED result
      \/ \E why \in {"invalid_output", "rate_limited", "llm_call_failed"} : Give(c, why)
      \/ Valid(c)
  BY <1>1 DEF Invalid, RateLimited, Transport, RequestRejected, answers
<1>4. /\ pc' = [pc EXCEPT ![c] = "spend"] \/ pc' = [pc EXCEPT ![c] = "done"]
      /\ ticket' = [ticket EXCEPT ![c] = 0]
      /\ \/ UNCHANGED result
         \/ \E why \in {"ok", "invalid_output", "rate_limited", "llm_call_failed"} :
                result' = [result EXCEPT ![c] = why]
  BY <1>3 DEF Again, Give, Raise, Valid, Set
<1>5. BudgetTypes'
  BY <1>0, <1>2, <1>4, StepNames DEF BudgetInv, BudgetTypes
<1>6. pc'[c] \in {"done", "spend"}
  BY <1>0, <1>4
<1>7. result'[c] \in {result[c], "ok", "invalid_output", "rate_limited", "llm_call_failed"}
  BY <1>0, <1>4
<1>8. \A d \in Call \ {c} : pc'[d] = pc[d] /\ read'[d] = read[d] /\ ticket'[d] = ticket[d]
                            /\ result'[d] = result[d]
  BY <1>0, <1>2, <1>4
<1> QED BY <1>2, <1>5, <1>6, <1>7, <1>8 DEF Alone

(***************************************************************************)
(* A step outside spend() and the request: no unit is claimed or used.     *)
(***************************************************************************)
LEMMA OutsideEffect ==
    ASSUME BudgetInv, NEW c \in Call, Start(c) \/ TokenGranted(c) \/ TokenRefused(c)
    PROVE  /\ UNCHANGED <<used, lock, requests>> /\ Alone(c)
           /\ ~Inside(c) /\ ~Inside(c)'
           /\ HoldsTicket(c)' => HoldsTicket(c) /\ ticket'[c] = ticket[c]
           /\ result'[c] \in {result[c], "rate_limiter_unavailable"}
<1>0. /\ pc \in [Call -> CallSteps] /\ ticket \in [Call -> Nat]
      /\ result \in [Call -> Failures \cup {"none", "ok"}]
  BY DEF BudgetInv, BudgetTypes
<1>1. CASE Start(c)
  BY <1>0, <1>1, StepNames
     DEF Start, Set, budget, answers, Alone, BudgetInv, BudgetTypes, Inside, HoldsTicket
<1>2. CASE TokenGranted(c)
  BY <1>0, <1>2, StepNames
     DEF TokenGranted, Set, budget, answers, Alone, BudgetInv, BudgetTypes, Inside, HoldsTicket
<1>3. CASE TokenRefused(c) /\ UNCHANGED <<pc, ticket, answers>>
  BY <1>0, <1>3, StepNames
     DEF TokenRefused, answers, Alone, BudgetInv, BudgetTypes, Inside, HoldsTicket
<1>4. CASE TokenRefused(c) /\ Raise(c, "rate_limiter_unavailable") /\ ticket' = Set(ticket, c, 0)
  BY <1>0, <1>4, StepNames
     DEF TokenRefused, Raise, Set, Alone, BudgetInv, BudgetTypes, Inside, HoldsTicket
<1> QED BY <1>1, <1>2, <1>3, <1>4 DEF TokenRefused

(***************************************************************************)
(* The three steps of spend().                                             *)
(***************************************************************************)
LEMMA EnterEffect ==
    ASSUME BudgetInv, NEW c \in Call, Enter(c)
    PROVE  /\ pc[c] = "spend" /\ pc'[c] = "check" /\ lock = NoCall /\ lock' = c /\ read'[c] = used
           /\ UNCHANGED <<used, requests, result, ticket>> /\ Alone(c)
BY StepNames DEF Enter, LockFree, Set, ladders, answers, Alone, BudgetInv, BudgetTypes

LEMMA CheckEffect ==
    ASSUME BudgetInv, NEW c \in Call, Check(c)
    PROVE  /\ pc[c] = "check" /\ UNCHANGED <<used, requests, ticket, read>> /\ Alone(c)
           /\ \/ pc'[c] = "add" /\ used < CallLimit /\ UNCHANGED <<lock, result>>
              \/ pc'[c] = "done" /\ used = CallLimit /\ lock' = NoCall
                 /\ result'[c] = "budget_exceeded"
<1>0. pc[c] = "check" /\ read[c] = used /\ used \in Nat /\ used <= CallLimit
  BY DEF Check, BudgetInv, BudgetTypes, CallInv, Inside
<1>1. CASE read[c] >= CallLimit
  <2>1. used = CallLimit
    BY <1>0, <1>1, LimitFacts
  <2> QED BY <1>0, <1>1, <2>1, StepNames
          DEF Check, Refuse, Raise, Set, Alone, BudgetInv, BudgetTypes
<1>2. CASE ~ (read[c] >= CallLimit)
  <2>1. used < CallLimit
    BY <1>0, <1>2, LimitFacts
  <2> QED BY <1>0, <1>2, <2>1, StepNames
          DEF Check, Set, answers, Alone, BudgetInv, BudgetTypes
<1> QED BY <1>1, <1>2

LEMMA AddEffect ==
    ASSUME BudgetInv, NEW c \in Call, Add(c)
    PROVE  /\ pc[c] = "add" /\ pc'[c] = "token" /\ lock = c /\ lock' = NoCall /\ used < CallLimit
           /\ used' = used + 1 /\ ticket'[c] = used + 1 /\ UNCHANGED <<requests, result>> /\ Alone(c)
<1>1. pc[c] = "add" /\ read[c] = used /\ lock = c /\ used < CallLimit /\ used \in Nat
  BY DEF Add, BudgetInv, BudgetTypes, CallInv, Inside
<1> QED BY <1>1, StepNames DEF Add, Set, answers, Alone, BudgetInv, BudgetTypes

-----------------------------------------------------------------------------

LEMMA InitBudget == PoolInit => BudgetInv
BY LimitFacts DEF PoolInit, BudgetInv, BudgetTypes, CallSteps, Failures, CallInv, Apart, Inside,
                  HoldsTicket, NoCall

(***************************************************************************)
(* What a step of one call leaves to prove: its own part, and that what it *)
(* does to the lock, the counter and the requests is its own to do.        *)
(***************************************************************************)
LEMMA CallSuffices ==
    ASSUME BudgetInv, NEW c \in Call, Alone(c), CallInv(c)',
           lock' = lock \/ (lock \in {c, NoCall} /\ lock' \in {c, NoCall}),
           used' = used \/ (lock = c /\ used' = used + 1),
           used' <= CallLimit,
           requests' = requests \/ (HoldsTicket(c) /\ requests' = requests \cup {ticket[c]}),
           HoldsTicket(c)' =>
               (HoldsTicket(c) /\ ticket'[c] = ticket[c]) \/ ticket'[c] > used
    PROVE  BudgetInv'
<1>0. /\ used \in Nat /\ used' \in Nat /\ used <= used' /\ UsedBefore <= used'
      /\ ticket \in [Call -> Nat]
  BY LimitFacts DEF BudgetInv, BudgetTypes
<1>1. requests' \subseteq UsedBefore + 1 .. used'
  <2>1. requests \subseteq UsedBefore + 1 .. used
    BY DEF BudgetInv
  <2>2. HoldsTicket(c) => ticket[c] \in UsedBefore + 1 .. used
    BY DEF BudgetInv, CallInv
  <2>3. UsedBefore + 1 .. used \subseteq UsedBefore + 1 .. used'
    BY <1>0, LimitFacts
  <2>4. requests' \subseteq UsedBefore + 1 .. used
    BY <2>1, <2>2
  <2> QED BY <2>3, <2>4
<1>2. ASSUME NEW d \in Call \ {c} PROVE CallInv(d)'
  <2>1. CallInv(d) /\ Apart(c, d) /\ d # NoCall
    BY LimitFacts DEF BudgetInv
  <2>2. pc'[d] = pc[d] /\ read'[d] = read[d] /\ ticket'[d] = ticket[d] /\ result'[d] = result[d]
    BY DEF Alone
  <2>3. Inside(d)' => lock' = d /\ read'[d] = used'
    BY <2>1, <2>2 DEF CallInv, Inside
  <2>4. (lock' = d => Inside(d)') /\ (pc'[d] = "add" => used' < CallLimit)
    BY <2>1, <2>2 DEF CallInv, Inside
  <2>5. result'[d] = "budget_exceeded" => used' = CallLimit
    BY <1>0, <2>1, <2>2, LimitFacts DEF CallInv
  <2>6. HoldsTicket(d)' => ticket'[d] \in UsedBefore + 1 .. used' /\ ticket'[d] \notin requests'
    BY <1>0, <2>1, <2>2, LimitFacts DEF CallInv, Apart, HoldsTicket
  <2> QED BY <2>3, <2>4, <2>5, <2>6 DEF CallInv
<1>3. \A d, e \in Call \ {c} : Apart(d, e)'
  BY DEF BudgetInv, Alone, Apart, HoldsTicket
<1>4. ASSUME NEW d \in Call \ {c} PROVE Apart(c, d)' /\ Apart(d, c)'
  <2>1. CallInv(d) /\ Apart(c, d)
    BY DEF BudgetInv
  <2>2. pc'[d] = pc[d] /\ ticket'[d] = ticket[d]
    BY DEF Alone
  <2> QED BY <1>0, <2>1, <2>2, LimitFacts DEF CallInv, Apart, HoldsTicket
<1>5. Apart(c, c)'
  BY DEF Apart
<1> QED BY <1>0, <1>1, <1>2, <1>3, <1>4, <1>5 DEF BudgetInv, Alone

LEMMA NextBudget == BudgetInv /\ [PoolNext]_poolVars => BudgetInv'
<1> SUFFICES ASSUME BudgetInv, [PoolNext]_poolVars PROVE BudgetInv'
  OBVIOUS
<1>0. used \in Nat /\ used <= CallLimit /\ UsedBefore <= used /\ \A c \in Call : CallInv(c)
  BY DEF BudgetInv, BudgetTypes
<1>1. CASE UNCHANGED poolVars \/ Join
  BY <1>1 DEF poolVars, budget, answers, Join, BudgetInv, BudgetTypes, CallInv, Apart, Inside,
              HoldsTicket
<1>2. ASSUME NEW c \in Call, Start(c) \/ TokenGranted(c) \/ TokenRefused(c) PROVE BudgetInv'
  <2>1. CallInv(c)'
    BY <1>0, <1>2, OutsideEffect, LimitFacts DEF CallInv, Inside
  <2> QED BY <1>0, <1>2, <2>1, OutsideEffect, CallSuffices
<1>3. ASSUME NEW c \in Call, Enter(c) PROVE BudgetInv'
  <2>1. CallInv(c)' /\ ~HoldsTicket(c)'
    BY <1>0, <1>3, EnterEffect, LimitFacts DEF CallInv, Inside, HoldsTicket
  <2> QED BY <1>0, <1>3, <2>1, EnterEffect, CallSuffices
<1>4. ASSUME NEW c \in Call, Check(c) PROVE BudgetInv'
  <2>1. lock = c
    BY <1>0, <1>4, CheckEffect DEF CallInv, Inside
  <2>2. CallInv(c)' /\ ~HoldsTicket(c)'
    BY <1>0, <1>4, <2>1, CheckEffect, LimitFacts DEF CallInv, Inside, HoldsTicket
  <2> QED BY <1>0, <1>4, <2>1, <2>2, CheckEffect, CallSuffices
<1>5. ASSUME NEW c \in Call, Add(c) PROVE BudgetInv'
  <2>1. used' <= CallLimit /\ UsedBefore + 1 <= used' /\ used + 1 \notin requests
    BY <1>0, <1>5, AddEffect, LimitFacts DEF BudgetInv
  <2>2. CallInv(c)'
    BY <1>0, <1>5, <2>1, AddEffect, LimitFacts DEF CallInv, Inside
  <2> QED BY <1>0, <1>5, <2>1, <2>2, AddEffect, CallSuffices
<1>6. ASSUME NEW c \in Call, SendRequest(c) PROVE BudgetInv'
  <2>1. HoldsTicket(c) /\ ~HoldsTicket(c)' /\ ~Inside(c)' /\ ~Inside(c)
    BY <1>6, AnswerEffect DEF HoldsTicket, Inside
  <2>2. CallInv(c)'
    BY <1>0, <1>6, <2>1, AnswerEffect DEF CallInv, Inside
  <2> QED BY <1>0, <1>6, <2>1, <2>2, AnswerEffect, CallSuffices
<1> QED BY <1>1, <1>2, <1>3, <1>4, <1>5, <1>6 DEF PoolNext, Thread, Spend, TryOnce

LEMMA BudgetInvariant == PoolSpec => []BudgetInv
BY InitBudget, NextBudget, PTL DEF PoolSpec

(***************************************************************************)
(* The ceiling is hard, each request has a unit of its own, and a call is  *)
(* refused only when the budget is spent.                                  *)
(***************************************************************************)
THEOREM EveryRequestIsPaidFor == PoolSpec => []RequestsArePaidFor
<1>1. BudgetInv => RequestsArePaidFor
  BY DEF BudgetInv, CallInv, Apart, RequestsArePaidFor
<1> QED BY <1>1, BudgetInvariant, PTL

-----------------------------------------------------------------------------
(***************************************************************************)
(* The refinement: Add claims, SendRequest pays, a limiter that gives up   *)
(* forfeits, and no other step of a thread is seen.                        *)
(***************************************************************************)
Claimed == { ticket[c] : c \in { d \in Call : HoldsTicket(d) } }

ClaimedUnits == UNCHANGED <<used, Claimed, requests>>

LEMMA SameClaims ==
    ASSUME NEW c \in Call, Alone(c), HoldsTicket(c)' <=> HoldsTicket(c),
           HoldsTicket(c) => ticket'[c] = ticket[c]
    PROVE  Claimed' = Claimed
BY DEF Claimed, Alone, HoldsTicket

LEMMA OneMore ==
    ASSUME NEW c \in Call, Alone(c), ~HoldsTicket(c), HoldsTicket(c)'
    PROVE  Claimed' = Claimed \cup {ticket'[c]}
BY DEF Claimed, Alone, HoldsTicket

LEMMA OneLess ==
    ASSUME BudgetInv, NEW c \in Call, Alone(c), HoldsTicket(c), ~HoldsTicket(c)'
    PROVE  Claimed' = Claimed \ {ticket[c]} /\ ticket[c] \in Claimed
BY DEF Claimed, Alone, HoldsTicket, BudgetInv, Apart

InBudget == [Budget!Next]_(Budget!budgetVars)

LEMMA NotCounted == ASSUME ClaimedUnits PROVE InBudget
BY DEF ClaimedUnits, Claimed, InBudget, Budget!budgetVars

LEMMA UnitUsed ==
    ASSUME NEW n, n \in Claimed, Budget!Pay(n) \/ Budget!Forfeit(n) PROVE InBudget
BY DEF Claimed, InBudget, Budget!Next

LEMMA BudgetStep ==
    BudgetInv /\ [PoolNext]_poolVars => InBudget
<1> SUFFICES ASSUME BudgetInv, [PoolNext]_poolVars PROVE InBudget
  OBVIOUS
<1>1. CASE UNCHANGED poolVars \/ Join
  <2>1. UNCHANGED <<used, pc, ticket, requests>>
    BY <1>1 DEF poolVars, budget, Join
  <2>2. ClaimedUnits
    BY <2>1 DEF ClaimedUnits, Claimed, HoldsTicket
  <2> QED BY <2>2, NotCounted
<1>2. ASSUME NEW c \in Call, Start(c) \/ TokenGranted(c) \/ TokenRefused(c) PROVE InBudget
  <2>1. CASE HoldsTicket(c)' <=> HoldsTicket(c)
    <3>1. Claimed' = Claimed
      BY <1>2, <2>1, OutsideEffect, SameClaims
    <3> QED BY <1>2, <3>1, OutsideEffect, NotCounted DEF ClaimedUnits
  <2>2. CASE HoldsTicket(c) /\ ~HoldsTicket(c)'
    <3>1. Claimed' = Claimed \ {ticket[c]} /\ ticket[c] \in Claimed
      BY <1>2, <2>2, OutsideEffect, OneLess
    <3>2. PICK n \in Claimed : n = ticket[c]
      BY <3>1
    <3>3. Budget!Forfeit(n)
      BY <1>2, <3>1, <3>2, OutsideEffect DEF Budget!Forfeit, Claimed
    <3> QED BY <3>2, <3>3, UnitUsed
  <2> QED BY <1>2, <2>1, <2>2, OutsideEffect
<1>3. ASSUME NEW c \in Call, Enter(c) \/ Check(c) PROVE InBudget
  <2>1. Alone(c) /\ ~HoldsTicket(c) /\ ~HoldsTicket(c)' /\ UNCHANGED <<used, requests>>
    BY <1>3, EnterEffect, CheckEffect DEF HoldsTicket
  <2>2. Claimed' = Claimed
    BY <2>1, SameClaims
  <2> QED BY <2>1, <2>2, NotCounted DEF ClaimedUnits
<1>4. ASSUME NEW c \in Call, Add(c) PROVE InBudget
  <2>1. Claimed' = Claimed \cup {used + 1}
    BY <1>4, AddEffect, OneMore DEF HoldsTicket
  <2>2. Budget!Claim
    BY <1>4, <2>1, AddEffect DEF Budget!Claim, Claimed
  <2> QED BY <2>2 DEF InBudget, Budget!Next
<1>5. ASSUME NEW c \in Call, SendRequest(c) PROVE InBudget
  <2>1. Claimed' = Claimed \ {ticket[c]} /\ ticket[c] \in Claimed
    BY <1>5, AnswerEffect, OneLess DEF HoldsTicket
  <2>2. PICK n \in Claimed : n = ticket[c]
    BY <2>1
  <2>3. Budget!Pay(n)
    BY <1>5, <2>1, <2>2, AnswerEffect DEF Budget!Pay, Claimed
  <2> QED BY <2>2, <2>3, UnitUsed
<1> QED BY <1>1, <1>2, <1>3, <1>4, <1>5 DEF PoolNext, Thread, Spend, TryOnce

(***************************************************************************)
(* spend()'s critical section is atomic, whatever the threads' order.      *)
(***************************************************************************)
THEOREM SpendingIsAtomic == PoolSpec => SpendIsAtomic
<1>1. PoolInit => Budget!Init
  BY DEF PoolInit, Budget!Init, HoldsTicket
<1>2. BudgetInv /\ [PoolNext]_poolVars => [Budget!Next]_(Budget!budgetVars)
  BY BudgetStep DEF InBudget
<1> QED BY <1>1, <1>2, BudgetInvariant, PTL DEF PoolSpec, SpendIsAtomic, Budget!Spec

-----------------------------------------------------------------------------
(***************************************************************************)
(* Counting, without an operator for a parameter: a set of numbers has a   *)
(* least one, so a set with 0 and every successor of its members has them  *)
(* all.                                                                    *)
(***************************************************************************)
LessThan == { pair \in Nat \X Nat : pair[1] < pair[2] }

LEMMA LeastOf ==
    ASSUME NEW S, S \subseteq Nat, S # {} PROVE \E m \in S : \A n \in S : m <= n
<1>1. IsWellFoundedOn(LessThan, Nat) BY NatLessThanWellFounded DEF OpToRel, LessThan
<1>2. PICK m \in S : \A n \in S : ~ (<<n, m>> \in LessThan) BY <1>1, WFMin
<1>3. \A n \in S : ~ (n < m) BY <1>2 DEF LessThan
<1> QED BY <1>3

LEMMA Counting ==
    ASSUME NEW S, 0 \in S, \A n \in Nat : n \in S => n + 1 \in S PROVE Nat \subseteq S
<1>1. SUFFICES ASSUME Nat \ S # {} PROVE FALSE OBVIOUS
<1>2. PICK m \in Nat \ S : \A n \in Nat \ S : m <= n BY <1>1, LeastOf
<1>3. m - 1 \in Nat /\ ~ (m <= m - 1) BY <1>2
<1>4. m - 1 \in S BY <1>2, <1>3
<1>5. (m - 1) + 1 \in S BY <1>3, <1>4
<1> QED BY <1>2, <1>5

(***************************************************************************)
(* Sums of sequences of numbers. SumTo is a recursive function: that there *)
(* is one is found by counting up to the length.                           *)
(***************************************************************************)
Sums(s, f) == f = [i \in 0..Len(s) |-> IF i = 0 THEN 0 ELSE f[i - 1] + s[i]]

LEMMA SumsExist == ASSUME NEW s \in Seq(Nat) PROVE \E f : Sums(s, f)
<1> DEFINE Run(n, f) == f[0] = 0 /\ \A i \in 1..n : f[i] = f[i - 1] + s[i]
           S == { n \in Nat : n <= Len(s) => \E f \in [0..n -> Nat] : Run(n, f) }
<1>0. Len(s) \in Nat /\ \A i \in 1..Len(s) : s[i] \in Nat BY LenProperties, ElementOfSeq
<1>1. 0 \in S
  <2>1. [i \in 0..0 |-> 0] \in [0..0 -> Nat] /\ Run(0, [i \in 0..0 |-> 0]) OBVIOUS
  <2> QED BY <2>1
<1>2. ASSUME NEW n \in Nat, n \in S, n + 1 <= Len(s)
      PROVE  \E g \in [0..n + 1 -> Nat] : Run(n + 1, g)
  <2>1. PICK f \in [0..n -> Nat] : Run(n, f) BY <1>0, <1>2
  <2> DEFINE g == [i \in 0..n + 1 |-> IF i <= n THEN f[i] ELSE f[n] + s[n + 1]]
  <2>2. g \in [0..n + 1 -> Nat] BY <1>0, <1>2
  <2>3. Run(n + 1, g) BY <2>1, <1>2
  <2> QED BY <2>2, <2>3
<1>3. ASSUME NEW n \in Nat, n \in S PROVE n + 1 \in S
  <2>1. n + 1 <= Len(s) => \E g \in [0..n + 1 -> Nat] : Run(n + 1, g) BY <1>2, <1>3
  <2> HIDE DEF Run
  <2> QED BY <2>1
<1>4. Len(s) \in S
  <2> HIDE DEF S
  <2> QED BY <1>0, <1>1, <1>3, Counting
<1>5. PICK f \in [0..Len(s) -> Nat] : Run(Len(s), f) BY <1>0, <1>4
<1>6. Sums(s, f)
  <2>1. \A i \in 0..Len(s) : f[i] = IF i = 0 THEN 0 ELSE f[i - 1] + s[i] BY <1>0, <1>5
  <2> QED BY <1>5, <2>1 DEF Sums
<1> QED BY <1>6

LEMMA SumSteps ==
    ASSUME NEW s \in Seq(Nat)
    PROVE  /\ SumTo(s, 0) = 0
           /\ \A n \in 1..Len(s) : SumTo(s, n) = SumTo(s, n - 1) + s[n]
<1> DEFINE f == CHOOSE g : Sums(s, g)
<1>0. Len(s) \in Nat BY LenProperties
<1>1. Sums(s, f) BY SumsExist
<1>2. \A n : SumTo(s, n) = f[n] BY DEF SumTo, Sums
<1>3. \A i \in 0..Len(s) : f[i] = IF i = 0 THEN 0 ELSE f[i - 1] + s[i]
  <2> HIDE DEF f
  <2> QED BY <1>1 DEF Sums
<1> HIDE DEF f
<1> QED BY <1>0, <1>2, <1>3

LEMMA SumsAreNumbers ==
    ASSUME NEW s \in Seq(Nat), NEW n \in 0..Len(s) PROVE SumTo(s, n) \in Nat
<1> DEFINE S == { k \in Nat : k <= Len(s) => SumTo(s, k) \in Nat }
<1>0. Len(s) \in Nat /\ \A i \in 1..Len(s) : s[i] \in Nat BY LenProperties, ElementOfSeq
<1>1. 0 \in S BY SumSteps
<1>2. ASSUME NEW k \in Nat, k \in S PROVE k + 1 \in S
  <2>1. SUFFICES ASSUME k + 1 <= Len(s) PROVE SumTo(s, k + 1) \in Nat OBVIOUS
  <2>2. k + 1 \in 1..Len(s) /\ (k + 1) - 1 = k BY <1>0, <2>1
  <2>3. SumTo(s, k + 1) = SumTo(s, k) + s[k + 1] BY <2>2, SumSteps
  <2>4. SumTo(s, k) \in Nat BY <1>0, <1>2, <2>1
  <2> QED BY <1>0, <2>2, <2>3, <2>4
<1>3. Nat \subseteq S
  <2> HIDE DEF S
  <2> QED BY <1>1, <1>2, Counting
<1> QED BY <1>0, <1>3

LEMMA SumsGrow ==
    ASSUME NEW s \in Seq(Nat), NEW m \in 0..Len(s), NEW n \in m..Len(s)
    PROVE  SumTo(s, m) <= SumTo(s, n)
<1> DEFINE S == { k \in Nat : m + k <= Len(s) => SumTo(s, m) <= SumTo(s, m + k) }
<1>0. Len(s) \in Nat /\ \A i \in 1..Len(s) : s[i] \in Nat BY LenProperties, ElementOfSeq
<1>1. 0 \in S BY <1>0, SumsAreNumbers
<1>2. ASSUME NEW k \in Nat, k \in S PROVE k + 1 \in S
  <2>1. SUFFICES ASSUME m + (k + 1) <= Len(s) PROVE SumTo(s, m) <= SumTo(s, m + (k + 1))
    OBVIOUS
  <2>2. m + k \in 0..Len(s) /\ m + (k + 1) \in 1..Len(s) /\ (m + (k + 1)) - 1 = m + k
    BY <1>0, <2>1
  <2>3. SumTo(s, m + (k + 1)) = SumTo(s, m + k) + s[m + (k + 1)] BY <2>2, SumSteps
  <2>4. SumTo(s, m) <= SumTo(s, m + k) BY <1>0, <1>2, <2>1
  <2>5. SumTo(s, m) \in Nat /\ SumTo(s, m + k) \in Nat BY <2>2, SumsAreNumbers
  <2>6. s[m + (k + 1)] \in Nat BY <1>0, <2>2
  <2> QED BY <2>3, <2>4, <2>5, <2>6
<1>3. Nat \subseteq S
  <2> HIDE DEF S
  <2> QED BY <1>1, <1>2, Counting
<1>4. n - m \in Nat /\ m + (n - m) = n BY <1>0
<1>5. n - m \in S BY <1>3, <1>4
<1> QED BY <1>0, <1>4, <1>5

(***************************************************************************)
(* The largest entry of a schedule, and the clipped delay.                 *)
(***************************************************************************)
LEMMA LargestOf ==
    ASSUME NEW s \in Seq(Nat)
    PROVE  \E m \in {0} \cup { s[i] : i \in 1..Len(s) } : \A i \in 1..Len(s) : s[i] <= m
<1> DEFINE Upto(n) == \E m \in {0} \cup { s[i] : i \in 1..n } : \A i \in 1..n : s[i] <= m
           S == { n \in Nat : n <= Len(s) => Upto(n) }
<1>0. Len(s) \in Nat /\ \A i \in 1..Len(s) : s[i] \in Nat BY LenProperties, ElementOfSeq
<1>1. 0 \in S
  <2>1. 0 \in {0} \cup { s[i] : i \in 1..0 } /\ \A i \in 1..0 : s[i] <= 0 OBVIOUS
  <2>2. Upto(0) BY <2>1
  <2> HIDE DEF Upto
  <2> QED BY <2>2
<1>2. ASSUME NEW n \in Nat, n + 1 <= Len(s), Upto(n) PROVE Upto(n + 1)
  <2>1. PICK m \in {0} \cup { s[i] : i \in 1..n } : \A i \in 1..n : s[i] <= m BY <1>2
  <2>2. m \in Nat /\ s[n + 1] \in Nat BY <1>0, <1>2, <2>1
  <2>3. \A i \in 1..n + 1 : i \in 1..n \/ i = n + 1 BY <1>2
  <2>4. CASE s[n + 1] <= m
    <3>1. m \in {0} \cup { s[i] : i \in 1..n + 1 } BY <1>2, <2>1
    <3>2. \A i \in 1..n + 1 : s[i] <= m BY <2>1, <2>3, <2>4
    <3> QED BY <3>1, <3>2
  <2>5. CASE m <= s[n + 1]
    <3>1. \A i \in 1..n : s[i] \in Nat /\ s[i] <= m BY <1>0, <1>2, <2>1
    <3>2. \A i \in 1..n : s[i] <= s[n + 1] BY <2>2, <2>5, <3>1
    <3>3. \A i \in 1..n + 1 : s[i] <= s[n + 1] BY <2>2, <2>3, <3>2
    <3>4. s[n + 1] \in {0} \cup { s[i] : i \in 1..n + 1 } BY <1>2
    <3> QED BY <3>3, <3>4
  <2> QED BY <2>2, <2>4, <2>5
<1>3. ASSUME NEW n \in Nat, n \in S PROVE n + 1 \in S
  <2>1. n + 1 <= Len(s) => Upto(n)
    <3>1. n + 1 <= Len(s) => n <= Len(s) BY <1>0
    <3> HIDE DEF Upto
    <3> QED BY <1>3, <3>1
  <2>2. n + 1 <= Len(s) => Upto(n + 1)
    <3> HIDE DEF Upto
    <3> QED BY <1>2, <2>1
  <2> HIDE DEF Upto
  <2> QED BY <2>2
<1>4. Len(s) \in S
  <2> HIDE DEF S
  <2> QED BY <1>0, <1>1, <1>3, Counting
<1>5. Upto(Len(s))
  <2> HIDE DEF Upto
  <2> QED BY <1>0, <1>4
<1> QED BY <1>5

LEMMA ClientFacts ==
    /\ Pages \in Nat /\ CallLimit \in Nat /\ UsedBefore \in Nat /\ ValidationAttempts \in Nat \ {0}
    /\ RateBackoff \in Seq(Nat) /\ TransportBackoff \in Seq(Nat) /\ LimiterBackoff \in Seq(Nat)
    /\ Len(RateBackoff) \in Nat /\ Len(TransportBackoff) \in Nat /\ Len(LimiterBackoff) \in Nat
    /\ Headers \subseteq Int /\ FindingsBefore \in Nat /\ MaxFindings \in Nat
BY ClientAssumption, LenProperties DEF ClientAssumption

LEMMA DelayFacts ==
    /\ MaxRetryAfter \in Nat
    /\ \A i \in 1..Len(RateBackoff) : RateBackoff[i] \in Nat /\ RateBackoff[i] <= MaxRetryAfter
<1> DEFINE D == {0} \cup { RateBackoff[i] : i \in 1..Len(RateBackoff) }
<1>1. \A i \in 1..Len(RateBackoff) : RateBackoff[i] \in Nat BY ClientFacts, ElementOfSeq
<1>2. DOMAIN RateBackoff = 1..Len(RateBackoff) BY ClientFacts, LenProperties
<1>3. \E m \in D : \A x \in D : x <= m
  <2>1. PICK m \in D : \A i \in 1..Len(RateBackoff) : RateBackoff[i] <= m
    BY ClientFacts, LargestOf
  <2>2. 0 <= m BY <1>1, <2>1
  <2> QED BY <2>1, <2>2
<1>4. MaxRetryAfter \in D /\ \A x \in D : x <= MaxRetryAfter
  <2>1. MaxRetryAfter = Max(D) BY <1>2 DEF MaxRetryAfter
  <2>2. D \subseteq Nat BY <1>1
  <2> HIDE DEF D
  <2>3. PICK m \in D : \A x \in D : m >= x BY <1>3, <2>2
  <2>4. Max(D) \in D /\ \A x \in D : Max(D) >= x BY <2>3 DEF Max
  <2> QED BY <2>1, <2>2, <2>4
<1> QED BY <1>1, <1>4

LEMMA RetryAfterBound ==
    ASSUME NEW h \in Headers, NEW i \in 1..Len(RateBackoff)
    PROVE  RetryAfter(h, RateBackoff[i]) \in 0..MaxRetryAfter
<1>1. h \in Int /\ MaxRetryAfter \in Nat /\ RateBackoff[i] \in 0..MaxRetryAfter
  BY ClientFacts, DelayFacts
<1>2. ASSUME h >= 0 PROVE Min({h, MaxRetryAfter}) \in 0..MaxRetryAfter
  <2>1. \E x \in {h, MaxRetryAfter} : \A y \in {h, MaxRetryAfter} : x <= y BY <1>1, <1>2
  <2>2. /\ Min({h, MaxRetryAfter}) \in {h, MaxRetryAfter}
        /\ \A y \in {h, MaxRetryAfter} : Min({h, MaxRetryAfter}) <= y
    BY <2>1 DEF Min
  <2> QED BY <1>1, <1>2, <2>2
<1> QED BY <1>1, <1>2 DEF RetryAfter

-----------------------------------------------------------------------------
(***************************************************************************)
(* How long a call has slept at most: its earlier validation attempts took *)
(* the longest each; of the present one, every 429 slept the largest       *)
(* delay, every transport error its own, each request of it but the        *)
(* present had the limiter's whole schedule before it, and the present one *)
(* what its limiter retries took.                                          *)
(***************************************************************************)
RateTries == Len(RateBackoff)
TransportTries == Len(TransportBackoff)
LimiterTries == Len(LimiterBackoff)
Rung == MaxRetryAfter
Spell == Sum(LimiterBackoff)

PerAttempt == RateTries * Rung + Sum(TransportBackoff) + RequestsPerSend * Spell

Earlier(v, r, t) ==
    (v - 1) * PerAttempt + r * Rung + SumTo(TransportBackoff, t) + (r + t) * Spell

LimiterWait(c) == IF HoldsTicket(c) THEN SumTo(LimiterBackoff, lim[c]) ELSE 0

Rungs(c) ==
    /\ val[c] \in 1..ValidationAttempts /\ rl[c] \in 0..RateTries /\ tr[c] \in 0..TransportTries /\ lim[c] \in 0..LimiterTries
    /\ slept[c] \in Nat /\ found[c] \in Nat

Climb(c) ==
    /\ Rungs(c)
    /\ pc[c] = "done" => slept[c] <= LongestSleep
    /\ pc[c] # "done" => slept[c] <= Earlier(val[c], rl[c], tr[c]) + LimiterWait(c)

LadderTypes ==
    /\ val \in [Call -> Nat] /\ rl \in [Call -> Nat] /\ tr \in [Call -> Nat]
    /\ lim \in [Call -> Nat] /\ slept \in [Call -> Nat] /\ found \in [Call -> Nat]

LadderInv == BudgetInv /\ LadderTypes /\ \A c \in Call : Climb(c)

(***************************************************************************)
(* Multiplication, kept out of the leaves that use the sums.               *)
(***************************************************************************)
LEMMA Products ==
    ASSUME NEW a \in Nat, NEW b \in Nat, NEW n \in Nat, a <= b
    PROVE  a * n \in Nat /\ a * n <= b * n /\ (a + 1) * n = a * n + n
OBVIOUS

LEMMA SumFacts ==
    /\ RateTries \in Nat /\ TransportTries \in Nat /\ LimiterTries \in Nat /\ Rung \in Nat /\ Spell \in Nat /\ PerAttempt \in Nat
    /\ Sum(TransportBackoff) \in Nat /\ RequestsPerSend = 1 + RateTries + TransportTries
    /\ \A t \in 0..TransportTries : SumTo(TransportBackoff, t) \in 0..Sum(TransportBackoff)
    /\ \A t \in 0..LimiterTries : SumTo(LimiterBackoff, t) \in 0..Spell
<1>1. RateTries \in Nat /\ TransportTries \in Nat /\ LimiterTries \in Nat BY ClientFacts DEF RateTries, TransportTries, LimiterTries
<1>2. /\ \A t \in 0..TransportTries : SumTo(TransportBackoff, t) \in Nat
      /\ \A t \in 0..LimiterTries : SumTo(LimiterBackoff, t) \in Nat
  BY ClientFacts, SumsAreNumbers DEF TransportTries, LimiterTries
<1>3. /\ \A t \in 0..TransportTries : SumTo(TransportBackoff, t) <= SumTo(TransportBackoff, TransportTries)
      /\ \A t \in 0..LimiterTries : SumTo(LimiterBackoff, t) <= SumTo(LimiterBackoff, LimiterTries)
  <2>1. \A t \in 0..TransportTries : TransportTries \in t..TransportTries BY <1>1
  <2>2. \A t \in 0..LimiterTries : LimiterTries \in t..LimiterTries BY <1>1
  <2> QED BY <2>1, <2>2, ClientFacts, SumsGrow DEF TransportTries, LimiterTries
<1>4. Sum(TransportBackoff) = SumTo(TransportBackoff, TransportTries) /\ Spell = SumTo(LimiterBackoff, LimiterTries)
  BY DEF Sum, TransportTries, Spell, LimiterTries
<1>5. TransportTries \in 0..TransportTries /\ LimiterTries \in 0..LimiterTries BY <1>1
<1>6. Sum(TransportBackoff) \in Nat /\ Spell \in Nat BY <1>2, <1>4, <1>5
<1>7. Rung \in Nat BY DelayFacts DEF Rung
<1>8. RequestsPerSend = 1 + RateTries + TransportTries BY DEF RequestsPerSend, RateTries, TransportTries
<1>9. RateTries * Rung \in Nat /\ RequestsPerSend * Spell \in Nat
  <2>1. 1 + RateTries + TransportTries \in Nat BY <1>1
  <2> QED BY <1>1, <1>6, <1>7, <1>8, <2>1, Products
<1>10. PerAttempt \in Nat BY <1>6, <1>9 DEF PerAttempt
<1> QED BY <1>1, <1>2, <1>3, <1>4, <1>6, <1>7, <1>8, <1>10

LEMMA LongestIs == LongestSleep = ValidationAttempts * PerAttempt
BY DEF LongestSleep, PerAttempt, RateTries, Rung, Spell

(***************************************************************************)
(* What one more rung of a ladder adds to the bound.                       *)
(***************************************************************************)
LEMMA EarlierSteps ==
    ASSUME NEW v \in 1..ValidationAttempts, NEW r \in 0..RateTries, NEW t \in 0..TransportTries
    PROVE  /\ Earlier(v, r, t) \in Nat
           /\ Earlier(v, r, t) + Spell <= Earlier(v + 1, 0, 0)
           /\ Earlier(v, r, t) + Spell <= LongestSleep
           /\ Earlier(v, r + 1, t) = Earlier(v, r, t) + Spell + Rung
           /\ t < TransportTries =>
                Earlier(v, r, t + 1) = Earlier(v, r, t) + Spell + TransportBackoff[t + 1]
<1> DEFINE a == (v - 1) * PerAttempt
           b == r * Rung
           d == SumTo(TransportBackoff, t)
           e == (r + t) * Spell
<1>0. /\ v \in Nat /\ v - 1 \in Nat /\ r \in Nat /\ t \in Nat /\ r + t \in Nat /\ r + t + 1 \in Nat
      /\ r <= RateTries /\ r + t + 1 <= 1 + RateTries + TransportTries /\ RateTries \in Nat /\ TransportTries \in Nat /\ ValidationAttempts \in Nat
      /\ 1 + RateTries + TransportTries \in Nat /\ v <= ValidationAttempts
  BY SumFacts, ClientFacts
<1>1. a \in Nat /\ v * PerAttempt = a + PerAttempt /\ v * PerAttempt <= LongestSleep
  <2>1. ((v - 1) + 1) * PerAttempt = (v - 1) * PerAttempt + PerAttempt /\ a \in Nat
    BY <1>0, SumFacts, Products
  <2>2. v * PerAttempt <= ValidationAttempts * PerAttempt BY <1>0, SumFacts, Products
  <2>3. (v - 1) + 1 = v BY <1>0
  <2> QED BY <2>1, <2>2, <2>3, LongestIs
<1>2. b \in Nat /\ b <= RateTries * Rung /\ (r + 1) * Rung = b + Rung
  BY <1>0, SumFacts, Products
<1>3. d \in Nat /\ d <= Sum(TransportBackoff) BY SumFacts
<1>4. e \in Nat /\ (r + t + 1) * Spell = e + Spell /\ (r + t + 1) * Spell <= RequestsPerSend * Spell
  <2>1. e \in Nat /\ (r + t + 1) * Spell = e + Spell
    BY <1>0, SumFacts, Products
  <2>2. (r + t + 1) * Spell <= (1 + RateTries + TransportTries) * Spell BY <1>0, SumFacts, Products
  <2> QED BY <2>1, <2>2, SumFacts
<1>5. Earlier(v, r, t) = a + b + d + e BY DEF Earlier
<1>6. Earlier(v + 1, 0, 0) = v * PerAttempt
  <2>1. SumTo(TransportBackoff, 0) = 0 BY ClientFacts, SumSteps
  <2>2. 0 * Rung = 0 /\ (0 + 0) * Spell = 0 BY SumFacts
  <2>3. (v + 1) - 1 = v BY <1>0
  <2>4. v * PerAttempt \in Nat BY <1>1, SumFacts
  <2> QED BY <2>1, <2>2, <2>3, <2>4 DEF Earlier
<1>7. Earlier(v, r + 1, t) = a + (b + Rung) + d + (e + Spell)
  <2>1. (r + 1) + t = r + t + 1 BY <1>0
  <2> QED BY <1>2, <1>4, <2>1 DEF Earlier
<1>8. ASSUME t < TransportTries
      PROVE  Earlier(v, r, t + 1) = a + b + (d + TransportBackoff[t + 1]) + (e + Spell)
             /\ TransportBackoff[t + 1] \in Nat
  <2>1. t + 1 \in 1..Len(TransportBackoff) /\ (t + 1) - 1 = t /\ r + (t + 1) = r + t + 1
    BY <1>0, <1>8 DEF TransportTries
  <2>2. SumTo(TransportBackoff, t + 1) = d + TransportBackoff[t + 1]
    BY <2>1, ClientFacts, SumSteps
  <2>3. TransportBackoff[t + 1] \in Nat BY <2>1, ClientFacts, ElementOfSeq
  <2> QED BY <1>4, <2>1, <2>2, <2>3 DEF Earlier
<1>9. Rung \in Nat /\ Spell \in Nat /\ RateTries * Rung \in Nat /\ RequestsPerSend * Spell \in Nat
      /\ PerAttempt = RateTries * Rung + Sum(TransportBackoff) + RequestsPerSend * Spell
      /\ Sum(TransportBackoff) \in Nat
  <2>1. RateTries * Rung \in Nat BY <1>0, SumFacts, Products
  <2>2. RequestsPerSend * Spell \in Nat BY <1>0, SumFacts, Products
  <2> QED BY <2>1, <2>2, SumFacts DEF PerAttempt
<1>10. Earlier(v, r, t) + Spell <= a + PerAttempt
  <2> DEFINE x == RateTries * Rung
             y == RequestsPerSend * Spell
             z == Sum(TransportBackoff)
  <2>1. a \in Nat /\ b \in Nat /\ d \in Nat /\ e \in Nat /\ Spell \in Nat
        /\ x \in Nat /\ y \in Nat /\ z \in Nat
        /\ b <= x /\ d <= z /\ e + Spell <= y
    BY <1>1, <1>2, <1>3, <1>4, <1>9
  <2>2. PerAttempt = x + z + y BY <1>9
  <2> HIDE DEF a, b, d, e, x, y, z
  <2>3. a + b + d + e + Spell <= a + (x + z + y) BY <2>1
  <2> QED BY <1>5, <2>2, <2>3
<1> HIDE DEF a, b, d, e
<1>11. Earlier(v, r, t) \in Nat BY <1>1, <1>2, <1>3, <1>4, <1>5
<1>12. PerAttempt \in Nat /\ LongestSleep \in Nat
  <2>1. ValidationAttempts * PerAttempt \in Nat BY <1>0, SumFacts, Products
  <2> QED BY <2>1, LongestIs, SumFacts
<1>13. Earlier(v, r + 1, t) = Earlier(v, r, t) + Spell + Rung
  BY <1>1, <1>2, <1>3, <1>4, <1>5, <1>7, <1>9
<1>14. t < TransportTries => Earlier(v, r, t + 1) = Earlier(v, r, t) + Spell + TransportBackoff[t + 1]
  BY <1>1, <1>2, <1>3, <1>4, <1>5, <1>8, <1>9
<1>15. Earlier(v, r, t) + Spell <= v * PerAttempt /\ v * PerAttempt \in Nat
  BY <1>1, <1>10, <1>12
<1>16. Earlier(v, r, t) + Spell <= LongestSleep
  BY <1>1, <1>9, <1>11, <1>12, <1>15
<1> QED BY <1>6, <1>11, <1>13, <1>14, <1>15, <1>16

LEMMA LongestFacts ==
    /\ LongestSleep \in Nat
    /\ \A v \in 1..ValidationAttempts, r \in 0..RateTries, t \in 0..TransportTries, l \in 0..LimiterTries :
         /\ Earlier(v, r, t) \in Nat
         /\ Earlier(v, r, t) + SumTo(LimiterBackoff, l) <= LongestSleep
<1>1. ValidationAttempts \in Nat /\ PerAttempt \in Nat BY ClientFacts, SumFacts
<1>2. LongestSleep \in Nat
  <2>1. ValidationAttempts * PerAttempt \in Nat BY <1>1, Products
  <2> QED BY <2>1, LongestIs
<1>3. ASSUME NEW v \in 1..ValidationAttempts, NEW r \in 0..RateTries, NEW t \in 0..TransportTries,
             NEW l \in 0..LimiterTries
      PROVE  /\ Earlier(v, r, t) \in Nat
             /\ Earlier(v, r, t) + SumTo(LimiterBackoff, l) <= LongestSleep
  <2>1. Earlier(v, r, t) \in Nat /\ Earlier(v, r, t) + Spell <= LongestSleep BY EarlierSteps
  <2>2. SumTo(LimiterBackoff, l) \in 0..Spell /\ Spell \in Nat BY SumFacts
  <2> QED BY <1>2, <2>1, <2>2
<1> QED BY <1>2, <1>3

(***************************************************************************)
(* A step of one call leaves the ladders of the others alone.              *)
(***************************************************************************)
Others(c) ==
    \A d \in Call \ {c} : /\ pc'[d] = pc[d] /\ val'[d] = val[d] /\ rl'[d] = rl[d] /\ tr'[d] = tr[d]
                          /\ lim'[d] = lim[d] /\ slept'[d] = slept[d] /\ found'[d] = found[d]

LEMMA ClimbSuffices ==
    ASSUME LadderInv, NEW c \in Call, BudgetInv', LadderTypes', Others(c), Climb(c)' PROVE LadderInv'
<1>1. ASSUME NEW d \in Call \ {c} PROVE Climb(d)'
  <2>1. Climb(d) BY DEF LadderInv
  <2>2. /\ pc'[d] = pc[d] /\ val'[d] = val[d] /\ rl'[d] = rl[d] /\ tr'[d] = tr[d]
        /\ lim'[d] = lim[d] /\ slept'[d] = slept[d] /\ found'[d] = found[d]
    BY DEF Others
  <2>3. LimiterWait(d)' = LimiterWait(d) BY <2>2 DEF LimiterWait, HoldsTicket
  <2> QED BY <2>1, <2>2, <2>3 DEF Climb, Rungs
<1> QED BY <1>1 DEF LadderInv

LEMMA LadderStart ==
    ASSUME PoolInit PROVE LadderInv
<1>1. BudgetInv BY InitBudget
<1>2. LadderTypes BY DEF PoolInit, LadderTypes
<1>3. ASSUME NEW c \in Call PROVE Climb(c)
  <2>1. /\ pc[c] = "queued" /\ val[c] = 1 /\ rl[c] = 0 /\ tr[c] = 0 /\ lim[c] = 0 /\ slept[c] = 0
        /\ found[c] = 0
    BY DEF PoolInit
  <2>2. Rungs(c) BY <2>1, ClientFacts, SumFacts DEF Rungs
  <2>3. Earlier(1, 0, 0) \in Nat BY ClientFacts, SumFacts, EarlierSteps
  <2>4. LimiterWait(c) = 0 BY <2>1 DEF LimiterWait, HoldsTicket
  <2> QED BY <2>1, <2>2, <2>3, <2>4 DEF Climb
<1> QED BY <1>1, <1>2, <1>3 DEF LadderInv

(***************************************************************************)
(* What the steps need to know of a call's ladders.                        *)
(***************************************************************************)
Ladders(c) ==
    /\ LadderTypes /\ pc \in [Call -> CallSteps] /\ Climb(c) /\ Earlier(val[c], rl[c], tr[c]) \in Nat
    /\ \A t \in 0..LimiterTries :
           /\ SumTo(LimiterBackoff, t) \in Nat
           /\ Earlier(val[c], rl[c], tr[c]) + SumTo(LimiterBackoff, t) <= LongestSleep
    /\ LongestSleep \in Nat
    /\ LimiterWait(c) \in Nat

LEMMA LadderFacts == ASSUME LadderInv, NEW c \in Call PROVE Ladders(c)
<1>1. LadderTypes /\ pc \in [Call -> CallSteps] /\ Climb(c) /\ Rungs(c)
  BY DEF LadderInv, Climb, BudgetInv, BudgetTypes
<1>2. /\ val[c] \in 1..ValidationAttempts /\ rl[c] \in 0..RateTries /\ tr[c] \in 0..TransportTries
      /\ lim[c] \in 0..LimiterTries
  BY <1>1 DEF Rungs
<1>3. \A t \in 0..LimiterTries : SumTo(LimiterBackoff, t) \in Nat BY SumFacts
<1>4. LimiterWait(c) \in Nat BY <1>2, <1>3 DEF LimiterWait
<1> QED BY <1>1, <1>2, <1>3, <1>4, LongestFacts DEF Ladders

(***************************************************************************)
(* The steps that do not sleep, the claim of a unit, and a refused token.  *)
(***************************************************************************)
LEMMA UntimedStep ==
    ASSUME LadderInv, NEW c \in Call, Start(c) \/ Enter(c) \/ Check(c) \/ TokenGranted(c)
    PROVE  LadderTypes' /\ Others(c) /\ Climb(c)'
<1>0. Ladders(c) BY LadderFacts
<1>1. UNCHANGED <<ladders, found>>
  BY DEF Start, Enter, Check, TokenGranted, answers, Refuse, Raise
<1>2. \/ pc[c] \in {"queued", "spend", "check"} /\ pc' = [pc EXCEPT ![c] = "spend"]
      \/ pc[c] \in {"queued", "spend", "check"} /\ pc' = [pc EXCEPT ![c] = "check"]
      \/ pc[c] \in {"queued", "spend", "check"} /\ pc' = [pc EXCEPT ![c] = "add"]
      \/ pc[c] \in {"queued", "spend", "check"} /\ pc' = [pc EXCEPT ![c] = "done"]
      \/ pc[c] = "token" /\ pc' = [pc EXCEPT ![c] = "send"]
  BY DEF Start, Enter, Check, TokenGranted, Set, Refuse, Raise
<1>3. LadderTypes' BY <1>0, <1>1 DEF Ladders, LadderTypes, ladders
<1>4. pc \in [Call -> CallSteps] BY <1>0 DEF Ladders
<1>5. Others(c) BY <1>1, <1>2, <1>4 DEF Others, ladders
<1>6. /\ val'[c] = val[c] /\ rl'[c] = rl[c] /\ tr'[c] = tr[c] /\ lim'[c] = lim[c]
      /\ slept'[c] = slept[c] /\ found'[c] = found[c]
  BY <1>1 DEF ladders
<1>7. Climb(c) /\ Rungs(c) BY <1>0 DEF Ladders, Climb
<1>8. Rungs(c)' BY <1>6, <1>7 DEF Rungs
<1>9. Earlier(val[c], rl[c], tr[c])' = Earlier(val[c], rl[c], tr[c]) BY <1>6 DEF Earlier
<1>11. CASE pc[c] = "token" /\ pc' = [pc EXCEPT ![c] = "send"]
  <2>1. pc'[c] = "send" BY <1>4, <1>11
  <2>2. LimiterWait(c)' = LimiterWait(c) BY <1>6, <1>11, <2>1 DEF LimiterWait, HoldsTicket
  <2> QED BY <1>3, <1>5, <1>6, <1>7, <1>8, <1>9, <1>11, <2>1, <2>2 DEF Climb
<1>10. CASE pc[c] \in {"queued", "spend", "check"}
  <2>1. pc'[c] \in {"spend", "check", "add", "done"} BY <1>2, <1>4, <1>10
  <2>2. LimiterWait(c) = 0 /\ LimiterWait(c)' = 0 BY <1>10, <2>1 DEF LimiterWait, HoldsTicket
  <2>3. slept[c] <= Earlier(val[c], rl[c], tr[c]) + 0
    BY <1>7, <1>10, <2>2 DEF Climb
  <2>7. slept[c] \in Nat /\ Earlier(val[c], rl[c], tr[c]) \in Nat /\ LongestSleep \in Nat
    BY <1>0, <1>7 DEF Rungs, Ladders
  <2>4. 0 \in 0..LimiterTries /\ SumTo(LimiterBackoff, 0) = 0 BY SumFacts, ClientFacts, SumSteps
  <2>8. Earlier(val[c], rl[c], tr[c]) + 0 <= LongestSleep BY <1>0, <2>4 DEF Ladders
  <2>5. slept[c] <= LongestSleep BY <2>3, <2>7, <2>8
  <2>6. slept'[c] <= Earlier(val[c], rl[c], tr[c])' + LimiterWait(c)'
    BY <1>6, <1>9, <2>2, <2>3
  <2> QED BY <1>3, <1>5, <1>6, <1>8, <2>5, <2>6 DEF Climb
<1> QED BY <1>2, <1>10, <1>11

LEMMA AddLadder ==
    ASSUME LadderInv, NEW c \in Call, Add(c)
    PROVE  LadderTypes' /\ Others(c) /\ Climb(c)'
<1>0. Ladders(c) BY LadderFacts
<1>1. /\ pc[c] = "add" /\ pc' = [pc EXCEPT ![c] = "token"] /\ lim' = [lim EXCEPT ![c] = 0]
      /\ UNCHANGED <<val, rl, tr, slept, found>>
  BY DEF Add, answers, Set
<1>2. pc \in [Call -> CallSteps] /\ LadderTypes BY <1>0 DEF Ladders
<1>3. LadderTypes' BY <1>1, <1>2 DEF LadderTypes
<1>4. Others(c) BY <1>1, <1>2 DEF Others, LadderTypes
<1>5. Climb(c) /\ Rungs(c) BY <1>0 DEF Ladders, Climb
<1>6. pc'[c] = "token" /\ lim'[c] = 0 BY <1>1, <1>2 DEF LadderTypes
<1>7. Rungs(c)' BY <1>1, <1>5, <1>6, SumFacts DEF Rungs
<1>8. LimiterWait(c) = 0 /\ LimiterWait(c)' = 0
  BY <1>1, <1>6, ClientFacts, SumSteps DEF LimiterWait, HoldsTicket
<1> QED BY <1>1, <1>3, <1>4, <1>5, <1>6, <1>7, <1>8 DEF Climb

LEMMA LimiterLadder ==
    ASSUME LadderInv, NEW c \in Call, TokenRefused(c)
    PROVE  LadderTypes' /\ Others(c) /\ Climb(c)'
<1>0. Ladders(c) BY LadderFacts
<1>1. pc[c] = "token" /\ UNCHANGED <<val, rl, tr, found>>
  BY DEF TokenRefused, answers, Raise
<1>2. pc \in [Call -> CallSteps] /\ LadderTypes /\ Climb(c) /\ Rungs(c) BY <1>0 DEF Ladders, Climb
<1>3. LimiterWait(c) = SumTo(LimiterBackoff, lim[c]) BY <1>1 DEF LimiterWait, HoldsTicket
<1>4. lim[c] \in 0..LimiterTries /\ slept[c] \in Nat BY <1>2 DEF Rungs
<1>5. slept[c] <= Earlier(val[c], rl[c], tr[c]) + SumTo(LimiterBackoff, lim[c])
  BY <1>1, <1>2, <1>3 DEF Climb
<1>6. CASE lim[c] < Len(LimiterBackoff)
  <2>1. lim[c] + 1 \in 1..Len(LimiterBackoff) /\ (lim[c] + 1) - 1 = lim[c]
    BY <1>4, <1>6, ClientFacts
  <2>2. LimiterBackoff[lim[c] + 1] \in Nat BY <2>1, ClientFacts, ElementOfSeq
  <2>3. /\ lim' = [lim EXCEPT ![c] = lim[c] + 1] /\ UNCHANGED pc
        /\ slept' = [slept EXCEPT ![c] = @ + LimiterBackoff[lim[c] + 1]]
    BY <1>6 DEF TokenRefused, Set
  <2>4. lim'[c] = lim[c] + 1 /\ slept'[c] = slept[c] + LimiterBackoff[lim[c] + 1]
    BY <1>2, <2>3 DEF LadderTypes
  <2>5. slept'[c] \in Nat /\ lim'[c] \in 1..LimiterTries
    BY <1>4, <2>1, <2>2, <2>4 DEF LimiterTries
  <2>6. LadderTypes'
    <3>1. \A d \in Call : slept[d] \in Nat /\ lim[d] \in Nat BY <1>2 DEF LadderTypes
    <3>2. slept[c] + LimiterBackoff[lim[c] + 1] \in Nat /\ lim[c] + 1 \in Nat
      BY <1>4, <2>2
    <3>3. slept' \in [Call -> Nat] /\ lim' \in [Call -> Nat]
      BY <1>2, <2>3, <3>2 DEF LadderTypes
    <3> QED BY <1>1, <1>2, <3>3 DEF LadderTypes
  <2>7. Others(c) BY <1>1, <1>2, <2>3 DEF Others, LadderTypes
  <2>8. Rungs(c)' BY <1>1, <1>2, <2>5 DEF Rungs
  <2>9. LimiterWait(c)' = SumTo(LimiterBackoff, lim[c]) + LimiterBackoff[lim[c] + 1]
    <3>1. SumTo(LimiterBackoff, lim[c] + 1)
            = SumTo(LimiterBackoff, lim[c]) + LimiterBackoff[lim[c] + 1]
      BY <2>1, ClientFacts, SumSteps
    <3> QED BY <1>1, <2>3, <2>4, <3>1 DEF LimiterWait, HoldsTicket
  <2>10. SumTo(LimiterBackoff, lim[c]) \in Nat /\ Earlier(val[c], rl[c], tr[c]) \in Nat
    BY <1>0, <1>4 DEF Ladders
  <2>11. slept'[c] <= Earlier(val[c], rl[c], tr[c]) + LimiterWait(c)'
    BY <1>4, <1>5, <2>2, <2>4, <2>9, <2>10
  <2>12. pc'[c] # "done" BY <1>1, <2>3
  <2> QED BY <1>1, <2>6, <2>7, <2>8, <2>11, <2>12 DEF Climb
<1>7. CASE ~ (lim[c] < Len(LimiterBackoff))
  <2>1. UNCHANGED <<lim, slept>> /\ pc' = [pc EXCEPT ![c] = "done"]
    BY <1>7 DEF TokenRefused, Raise, Set
  <2>2. LadderTypes' BY <1>1, <1>2, <2>1 DEF LadderTypes
  <2>3. Others(c) BY <1>1, <1>2, <2>1 DEF Others
  <2>4. Rungs(c)' BY <1>1, <1>2, <2>1 DEF Rungs
  <2>5. slept[c] <= LongestSleep BY <1>0, <1>4, <1>5 DEF Ladders
  <2>6. pc'[c] = "done" BY <1>2, <2>1
  <2> QED BY <2>1, <2>2, <2>3, <2>4, <2>5, <2>6 DEF Climb
<1> QED BY <1>6, <1>7

(***************************************************************************)
(* What an answer does to the ladders of the call it is an answer to.      *)
(***************************************************************************)
LEMMA AnswerLadder ==
    ASSUME LadderInv, NEW c \in Call, SendRequest(c)
    PROVE  LadderTypes' /\ Others(c) /\ Climb(c)'
<1>0. Ladders(c) BY LadderFacts
<1>1. pc[c] = "send" /\ UNCHANGED lim BY DEF SendRequest
<1>2. pc \in [Call -> CallSteps] /\ LadderTypes /\ Climb(c) /\ Rungs(c) BY <1>0 DEF Ladders, Climb
<1>3. LimiterWait(c) = SumTo(LimiterBackoff, lim[c]) BY <1>1 DEF LimiterWait, HoldsTicket
<1>4. /\ val[c] \in 1..ValidationAttempts /\ rl[c] \in 0..RateTries /\ tr[c] \in 0..TransportTries
      /\ lim[c] \in 0..LimiterTries /\ slept[c] \in Nat
  BY <1>2 DEF Rungs
<1>5. slept[c] <= Earlier(val[c], rl[c], tr[c]) + SumTo(LimiterBackoff, lim[c])
  BY <1>1, <1>2, <1>3 DEF Climb
<1>6. /\ Earlier(val[c], rl[c], tr[c]) \in Nat /\ Spell \in Nat /\ Rung \in Nat
      /\ SumTo(LimiterBackoff, lim[c]) \in 0..Spell
  BY <1>0, <1>4, SumFacts DEF Ladders
<1>7. slept[c] <= Earlier(val[c], rl[c], tr[c]) + Spell BY <1>4, <1>5, <1>6
<1>8. ASSUME pc' = [pc EXCEPT ![c] = "done"], UNCHANGED <<val, rl, tr, slept>>,
             found' \in [Call -> Nat], \A d \in Call \ {c} : found'[d] = found[d]
      PROVE  LadderTypes' /\ Others(c) /\ Climb(c)'
  <2>1. LadderTypes' BY <1>1, <1>2, <1>8 DEF LadderTypes
  <2>2. Others(c) BY <1>1, <1>2, <1>8 DEF Others
  <2>3. Rungs(c)' BY <1>1, <1>2, <1>8 DEF Rungs
  <2>4. slept[c] <= LongestSleep BY <1>0, <1>4, <1>5 DEF Ladders
  <2>5. pc'[c] = "done" BY <1>2, <1>8
  <2> QED BY <1>8, <2>1, <2>2, <2>3, <2>4, <2>5 DEF Climb
<1>9. CASE Valid(c)
  <2>1. PICK n \in 0..MaxFindings : found' = [found EXCEPT ![c] = n] BY <1>9 DEF Valid, Set
  <2>2. n \in Nat BY ClientFacts
  <2>3. found' \in [Call -> Nat] /\ \A d \in Call \ {c} : found'[d] = found[d]
    BY <1>2, <2>1, <2>2 DEF LadderTypes
  <2> QED BY <1>8, <1>9, <2>3 DEF Valid, Set
<1>10. ASSUME NEW why, Give(c, why), UNCHANGED <<val, rl, tr, slept>>
       PROVE  LadderTypes' /\ Others(c) /\ Climb(c)'
  BY <1>2, <1>8, <1>10 DEF Give, Raise, Set, LadderTypes
<1>11. ASSUME Again(c), UNCHANGED found, \A d \in Call \ {c} : /\ val'[d] = val[d] /\ rl'[d] = rl[d]
                                               /\ tr'[d] = tr[d] /\ slept'[d] = slept[d],
              val' \in [Call -> Nat], rl' \in [Call -> Nat], tr' \in [Call -> Nat],
              slept' \in [Call -> Nat],
              val'[c] \in 1..ValidationAttempts, rl'[c] \in 0..RateTries,
              tr'[c] \in 0..TransportTries,
              slept'[c] <= Earlier(val'[c], rl'[c], tr'[c])
       PROVE  LadderTypes' /\ Others(c) /\ Climb(c)'
  <2>1. LadderTypes' BY <1>1, <1>2, <1>11 DEF LadderTypes
  <2>2. pc'[c] = "spend" /\ \A d \in Call \ {c} : pc'[d] = pc[d] BY <1>2, <1>11 DEF Again, Set
  <2>3. Others(c) BY <1>1, <1>11, <2>2 DEF Others
  <2>4. Rungs(c)' BY <1>1, <1>2, <1>11 DEF Rungs
  <2>5. LimiterWait(c)' = 0 BY <2>2 DEF LimiterWait, HoldsTicket
  <2>6. Earlier(val'[c], rl'[c], tr'[c]) \in Nat BY <1>11, EarlierSteps
  <2>7. slept'[c] <= Earlier(val'[c], rl'[c], tr'[c]) + 0 BY <1>11, <2>6
  <2>8. Earlier(val[c], rl[c], tr[c])' = Earlier(val'[c], rl'[c], tr'[c]) BY DEF Earlier
  <2> QED BY <2>1, <2>2, <2>3, <2>4, <2>5, <2>7, <2>8 DEF Climb
<1>12. CASE Invalid(c)
  <2>1. CASE val[c] < ValidationAttempts
    <3>1. /\ Again(c) /\ val' = [val EXCEPT ![c] = val[c] + 1] /\ rl' = [rl EXCEPT ![c] = 0]
          /\ tr' = [tr EXCEPT ![c] = 0] /\ UNCHANGED <<slept, found>>
      BY <1>12, <2>1 DEF Invalid, Set, answers
    <3>2. val[c] + 1 \in Nat /\ val[c] + 1 \in 1..ValidationAttempts BY <1>4, <2>1, ClientFacts
    <3>3. /\ val' \in [Call -> Nat] /\ rl' \in [Call -> Nat] /\ tr' \in [Call -> Nat]
          /\ slept' \in [Call -> Nat]
      BY <1>2, <3>1, <3>2 DEF LadderTypes
    <3>4. \A d \in Call \ {c} : /\ val'[d] = val[d] /\ rl'[d] = rl[d] /\ tr'[d] = tr[d]
                                /\ slept'[d] = slept[d]
      BY <1>2, <3>1 DEF LadderTypes
    <3>5. val'[c] = val[c] + 1 /\ rl'[c] = 0 /\ tr'[c] = 0 /\ slept'[c] = slept[c]
      BY <1>2, <3>1 DEF LadderTypes
    <3>6. 0 \in 0..RateTries /\ 0 \in 0..TransportTries BY SumFacts
    <3>7. Earlier(val[c], rl[c], tr[c]) + Spell <= Earlier(val[c] + 1, 0, 0)
      BY <1>4, EarlierSteps
    <3>8. Earlier(val[c] + 1, 0, 0) \in Nat BY <3>2, <3>6, EarlierSteps
    <3>9. slept[c] <= Earlier(val[c] + 1, 0, 0) BY <1>4, <1>6, <1>7, <3>7, <3>8
    <3> QED BY <1>11, <3>1, <3>2, <3>3, <3>4, <3>5, <3>6, <3>9
  <2>2. CASE ~ (val[c] < ValidationAttempts)
    BY <1>10, <1>12, <2>2 DEF Invalid
  <2> QED BY <2>1, <2>2
<1>13. CASE RateLimited(c)
  <2>1. CASE rl[c] = Len(RateBackoff)
    BY <1>10, <1>13, <2>1 DEF RateLimited
  <2>2. CASE rl[c] # Len(RateBackoff)
    <3>1. /\ Again(c) /\ rl' = [rl EXCEPT ![c] = rl[c] + 1] /\ UNCHANGED <<val, tr, found>>
          /\ \E h \in Headers :
                slept' = [slept EXCEPT ![c] = @ + RetryAfter(h, RateBackoff[rl[c] + 1])]
      BY <1>13, <2>2 DEF RateLimited, Set, answers
    <3>2. rl[c] + 1 \in 1..Len(RateBackoff) /\ rl[c] + 1 \in 0..RateTries /\ rl[c] + 1 \in Nat
      BY <1>4, <2>2, ClientFacts DEF RateTries
    <3>3. PICK h \in Headers :
                slept' = [slept EXCEPT ![c] = slept[c] + RetryAfter(h, RateBackoff[rl[c] + 1])]
      BY <3>1
    <3> DEFINE delay == RetryAfter(h, RateBackoff[rl[c] + 1])
    <3>4. delay \in Nat /\ delay <= Rung
      BY <1>6, <3>2, RetryAfterBound DEF Rung
    <3> HIDE DEF delay
    <3>5. slept[c] + delay \in Nat BY <1>4, <3>4
    <3>6. slept' = [slept EXCEPT ![c] = slept[c] + delay] BY <3>3 DEF delay
    <3>7. /\ val' \in [Call -> Nat] /\ rl' \in [Call -> Nat] /\ tr' \in [Call -> Nat]
          /\ slept' \in [Call -> Nat]
      BY <1>2, <3>1, <3>2, <3>5, <3>6 DEF LadderTypes
    <3>8. \A d \in Call \ {c} : /\ val'[d] = val[d] /\ rl'[d] = rl[d] /\ tr'[d] = tr[d]
                                /\ slept'[d] = slept[d]
      BY <1>2, <3>1, <3>6 DEF LadderTypes
    <3>9. val'[c] = val[c] /\ rl'[c] = rl[c] + 1 /\ tr'[c] = tr[c] /\ slept'[c] = slept[c] + delay
      BY <1>2, <3>1, <3>6 DEF LadderTypes
    <3>10. Earlier(val[c], rl[c] + 1, tr[c]) = Earlier(val[c], rl[c], tr[c]) + Spell + Rung
      BY <1>4, EarlierSteps
    <3>11. slept[c] + delay <= Earlier(val[c], rl[c] + 1, tr[c])
      BY <1>4, <1>6, <1>7, <3>4, <3>10
    <3> QED BY <1>4, <1>11, <3>1, <3>2, <3>7, <3>8, <3>9, <3>11
  <2> QED BY <2>1, <2>2
<1>14. CASE Transport(c)
  <2>1. CASE tr[c] = Len(TransportBackoff)
    BY <1>10, <1>14, <2>1 DEF Transport
  <2>2. CASE tr[c] # Len(TransportBackoff)
    <3>1. /\ Again(c) /\ tr' = [tr EXCEPT ![c] = tr[c] + 1] /\ UNCHANGED <<val, rl, found>>
          /\ slept' = [slept EXCEPT ![c] = slept[c] + TransportBackoff[tr[c] + 1]]
      BY <1>14, <2>2 DEF Transport, Set, answers
    <3>2. /\ tr[c] + 1 \in 1..Len(TransportBackoff) /\ tr[c] + 1 \in 0..TransportTries
          /\ tr[c] + 1 \in Nat /\ tr[c] < TransportTries
      BY <1>4, <2>2, ClientFacts DEF TransportTries
    <3> DEFINE delay == TransportBackoff[tr[c] + 1]
    <3>4. delay \in Nat BY <3>2, ClientFacts, ElementOfSeq
    <3>10. Earlier(val[c], rl[c], tr[c] + 1) = Earlier(val[c], rl[c], tr[c]) + Spell + delay
      BY <1>4, <3>2, EarlierSteps
    <3> HIDE DEF delay
    <3>5. slept[c] + delay \in Nat BY <1>4, <3>4
    <3>6. slept' = [slept EXCEPT ![c] = slept[c] + delay] BY <3>1 DEF delay
    <3>7. /\ val' \in [Call -> Nat] /\ rl' \in [Call -> Nat] /\ tr' \in [Call -> Nat]
          /\ slept' \in [Call -> Nat]
      BY <1>2, <3>1, <3>2, <3>5, <3>6 DEF LadderTypes
    <3>8. \A d \in Call \ {c} : /\ val'[d] = val[d] /\ rl'[d] = rl[d] /\ tr'[d] = tr[d]
                                /\ slept'[d] = slept[d]
      BY <1>2, <3>1, <3>6 DEF LadderTypes
    <3>9. val'[c] = val[c] /\ rl'[c] = rl[c] /\ tr'[c] = tr[c] + 1 /\ slept'[c] = slept[c] + delay
      BY <1>2, <3>1, <3>6 DEF LadderTypes
    <3>11. slept[c] + delay <= Earlier(val[c], rl[c], tr[c] + 1)
      BY <1>4, <1>6, <1>7, <3>4, <3>10
    <3> QED BY <1>4, <1>11, <3>1, <3>2, <3>7, <3>8, <3>9, <3>11
  <2> QED BY <2>1, <2>2
<1>15. CASE RequestRejected(c)
  BY <1>10, <1>15 DEF RequestRejected
<1>16. Valid(c) \/ Invalid(c) \/ RateLimited(c) \/ Transport(c) \/ RequestRejected(c)
  BY DEF SendRequest
<1> QED BY <1>9, <1>12, <1>13, <1>14, <1>15, <1>16

LEMMA LadderStep == LadderInv /\ [PoolNext]_poolVars => LadderInv'
<1> SUFFICES ASSUME LadderInv, [PoolNext]_poolVars PROVE LadderInv'
  OBVIOUS
<1>0. BudgetInv' BY NextBudget DEF LadderInv
<1>1. CASE UNCHANGED poolVars \/ Join
  <2>1. UNCHANGED <<pc, ladders, found>> BY <1>1 DEF poolVars, Join, answers
  <2>2. UNCHANGED <<pc, val, rl, tr, lim, slept, found>> BY <2>1 DEF ladders
  <2>3. LadderTypes' BY <2>2 DEF LadderInv, LadderTypes
  <2>4. ASSUME NEW c \in Call PROVE Climb(c)'
    <3>1. Climb(c) BY DEF LadderInv
    <3>2. Rungs(c)' = Rungs(c) BY <2>2 DEF Rungs
    <3>3. LimiterWait(c)' = LimiterWait(c) BY <2>2 DEF LimiterWait, HoldsTicket
    <3>4. Earlier(val[c], rl[c], tr[c])' = Earlier(val[c], rl[c], tr[c]) BY <2>2 DEF Earlier
    <3> QED BY <2>2, <3>1, <3>2, <3>3, <3>4 DEF Climb
  <2> QED BY <1>0, <2>3, <2>4 DEF LadderInv
<1>2. ASSUME NEW c \in Call, Thread(c) PROVE LadderInv'
  <2>1. LadderTypes' /\ Others(c) /\ Climb(c)'
    BY <1>2, UntimedStep, AddLadder, LimiterLadder, AnswerLadder DEF Thread, Spend, TryOnce
  <2> QED BY <1>0, <2>1, ClimbSuffices
<1> QED BY <1>1, <1>2 DEF PoolNext

(***************************************************************************)
(* Every call's ladders stay within their schedules, and its sleeps within *)
(* what the rungs it has climbed explain.                                  *)
(***************************************************************************)
THEOREM LadderInvariant == PoolSpec => []LadderInv
BY LadderStart, LadderStep, PTL DEF PoolSpec

(***************************************************************************)
(* For any schedules, headers, threads and pages: a call sleeps no longer  *)
(* than its ladders allow (llm_client.py, _send, _take_a_token and         *)
(* call_structured).                                                       *)
(***************************************************************************)
THEOREM WaitingIsBounded == PoolSpec => []WaitIsBounded
<1>1. ASSUME LadderInv PROVE WaitIsBounded
  <2>1. ASSUME NEW c \in Call PROVE slept[c] <= LongestSleep
    <3>1. Ladders(c) /\ Climb(c) BY <1>1, LadderFacts DEF LadderInv
    <3>2. /\ slept[c] \in Nat /\ val[c] \in 1..ValidationAttempts /\ rl[c] \in 0..RateTries
          /\ tr[c] \in 0..TransportTries /\ lim[c] \in 0..LimiterTries
      BY <3>1 DEF Climb, Rungs
    <3>3. 0 \in 0..LimiterTries /\ SumTo(LimiterBackoff, 0) = 0 BY SumFacts, ClientFacts, SumSteps
    <3>4. Earlier(val[c], rl[c], tr[c]) + LimiterWait(c) <= LongestSleep
      BY <3>1, <3>2, <3>3 DEF Ladders, LimiterWait
    <3>5. Earlier(val[c], rl[c], tr[c]) \in Nat /\ LimiterWait(c) \in Nat /\ LongestSleep \in Nat
      BY <3>1 DEF Ladders
    <3> QED BY <3>1, <3>2, <3>4, <3>5 DEF Climb
  <2> QED BY <2>1 DEF WaitIsBounded
<1> QED BY <1>1, LadderInvariant, PTL

-----------------------------------------------------------------------------
(***************************************************************************)
(* The pool joins once, when every call is done; a fatal result it reports *)
(* is that of the first page that has one.                                 *)
(***************************************************************************)
JoinInv ==
    /\ ids # <<>> => ids = [c \in Call |-> Numbers(c)] /\ \A c \in Call : pc[c] = "done"
    /\ update \in JobFatalReasons \cup {"none", "done", "unresearched"}

LEMMA FirstFatal == ASSUME Fatal # {} PROVE result[Min(Fatal)] \in JobFatalReasons
<1>1. Fatal \subseteq Nat BY ClientFacts DEF Fatal, Call
<1>2. PICK m \in Fatal : \A n \in Fatal : m <= n BY <1>1, LeastOf
<1>3. Min(Fatal) \in Fatal BY <1>2 DEF Min
<1> QED BY <1>3 DEF Fatal

LEMMA JoinStep == JoinInv /\ [PoolNext]_poolVars => JoinInv'
<1> SUFFICES ASSUME JoinInv, [PoolNext]_poolVars PROVE JoinInv'
  OBVIOUS
<1>1. CASE UNCHANGED poolVars
  <2>1. UNCHANGED <<pc, ids, update, found>> BY <1>1 DEF poolVars, joined, answers
  <2>2. \A c \in Call : Numbers(c)' = Numbers(c) BY <2>1 DEF Numbers, Before
  <2> QED BY <2>1, <2>2 DEF JoinInv
<1>2. CASE Join
  <2>1. UNCHANGED <<pc, found>> BY <1>2 DEF Join, answers
  <2>2. \A c \in Call : Numbers(c)' = Numbers(c) BY <2>1 DEF Numbers, Before
  <2>3. ids' = [c \in Call |-> Numbers(c)] /\ \A c \in Call : pc[c] = "done" BY <1>2 DEF Join
  <2>4. update' \in JobFatalReasons \cup {"none", "done", "unresearched"}
    BY <1>2, FirstFatal DEF Join
  <2> QED BY <2>1, <2>2, <2>3, <2>4 DEF JoinInv
<1>3. ASSUME NEW c \in Call, Thread(c) PROVE JoinInv'
  <2>1. pc[c] # "done" /\ UNCHANGED joined
    BY <1>3 DEF Thread, Spend, TryOnce, Start, Enter, Check, Add, TokenGranted, TokenRefused,
                SendRequest
  <2>2. ids = <<>> /\ ids' = <<>> /\ update' = update BY <2>1 DEF JoinInv, joined
  <2> QED BY <2>2 DEF JoinInv
<1> QED BY <1>1, <1>2, <1>3 DEF PoolNext

LEMMA JoinInvariant == PoolSpec => []JoinInv
<1>1. PoolInit => JoinInv BY DEF PoolInit, JoinInv
<1> QED BY <1>1, JoinStep, PTL DEF PoolSpec

(***************************************************************************)
(* Every variable of the pool stays in its set.                            *)
(***************************************************************************)
THEOREM PoolTypes == PoolSpec => []PoolTypeOK
<1>1. ASSUME LadderInv, JoinInv PROVE PoolTypeOK
  <2>1. BudgetInv /\ BudgetTypes /\ LadderTypes BY <1>1 DEF LadderInv, BudgetInv
  <2>2. requests \subseteq Nat
    <3>1. requests \subseteq UsedBefore + 1 .. used /\ used \in Nat
      BY <2>1 DEF BudgetInv, BudgetTypes
    <3> QED BY <3>1, ClientFacts
  <2> QED BY <1>1, <2>1, <2>2 DEF PoolTypeOK, BudgetTypes, LadderTypes, JoinInv
<1> QED BY <1>1, LadderInvariant, JoinInvariant, PTL

(***************************************************************************)
(* What each page found, as a sequence to sum over.                        *)
(***************************************************************************)
LEMMA FoundSeq ==
    ASSUME found \in [Call -> Nat] PROVE found \in Seq(Nat) /\ Len(found) = Pages
<1>1. Pages \in Nat /\ found \in [1..Pages -> Nat] BY ClientFacts DEF Call
<1>2. found \in Seq(Nat) BY <1>1, SeqDef
<1>3. DOMAIN found = 1..Pages /\ DOMAIN found = 1..Len(found) /\ Len(found) \in Nat
  BY <1>1, <1>2, LenProperties
<1>4. Len(found) = Pages
  <2>1. CASE Pages < Len(found)
    <3>1. Len(found) \in 1..Len(found) /\ Len(found) \notin 1..Pages BY <1>1, <1>3, <2>1
    <3> QED BY <1>3, <3>1
  <2>2. CASE Len(found) < Pages
    <3>1. Pages \in 1..Pages /\ Pages \notin 1..Len(found) BY <1>1, <1>3, <2>2
    <3> QED BY <1>3, <3>1
  <2> QED BY <1>1, <1>3, <2>1, <2>2
<1> QED BY <1>2, <1>4

(***************************************************************************)
(* The numbers of a page are an interval: the one after the page before's. *)
(***************************************************************************)
LEMMA PageInterval ==
    ASSUME found \in [Call -> Nat], NEW c \in Call
    PROVE  /\ Before(c) \in Nat /\ SumTo(found, c) \in Nat /\ Before(c) <= SumTo(found, c)
           /\ Numbers(c) = FindingsBefore + Before(c) + 1 .. FindingsBefore + SumTo(found, c)
<1>1. found \in Seq(Nat) /\ Len(found) = Pages BY FoundSeq
<1>2. c \in 1..Len(found) /\ c - 1 \in 0..Len(found) /\ c \in 0..Len(found)
  BY <1>1, ClientFacts DEF Call
<1>3. SumTo(found, c) = Before(c) + found[c] BY <1>1, <1>2, SumSteps DEF Before
<1>4. Before(c) \in Nat /\ SumTo(found, c) \in Nat BY <1>1, <1>2, SumsAreNumbers DEF Before
<1>5. found[c] \in Nat /\ FindingsBefore \in Nat BY ClientFacts
<1> DEFINE first == FindingsBefore + Before(c) + 1
           last == FindingsBefore + SumTo(found, c)
<1>6. first \in Nat /\ last = first + (found[c] - 1) BY <1>3, <1>4, <1>5
<1>7. Numbers(c) = { first + i : i \in 0..(found[c] - 1) }
  <2>1. FirstNumber + Before(c) = first BY <1>4, <1>5 DEF FirstNumber
  <2> HIDE DEF first
  <2> QED BY <2>1 DEF Numbers
<1>8. { first + i : i \in 0..(found[c] - 1) } = first..last
  <2> HIDE DEF first, last
  <2>1. ASSUME NEW x \in first..last PROVE x \in { first + i : i \in 0..(found[c] - 1) }
    <3>1. x - first \in 0..(found[c] - 1) /\ x = first + (x - first) BY <1>5, <1>6, <2>1
    <3> QED BY <3>1
  <2>2. ASSUME NEW i \in 0..(found[c] - 1) PROVE first + i \in first..last
    BY <1>5, <1>6, <2>2
  <2> QED BY <2>1, <2>2
<1> QED BY <1>3, <1>4, <1>5, <1>7, <1>8

LEMMA PagesCover ==
    ASSUME found \in [Call -> Nat]
    PROVE  UNION { Numbers(c) : c \in Call } = FindingsBefore + 1 .. FindingsBefore + Sum(found)
<1> DEFINE Upto(n) == UNION { Numbers(c) : c \in 1..n }
                        = FindingsBefore + 1 .. FindingsBefore + SumTo(found, n)
           S == { n \in Nat : n <= Pages => Upto(n) }
<1>1. found \in Seq(Nat) /\ Len(found) = Pages BY FoundSeq
<1>2. FindingsBefore \in Nat /\ Pages \in Nat BY ClientFacts
<1>3. Upto(0)
  <2>1. SumTo(found, 0) = 0 BY <1>1, SumSteps
  <2>2. 1..0 = {} OBVIOUS
  <2>3. FindingsBefore + 1 .. FindingsBefore + 0 = {} BY <1>2
  <2> QED BY <2>1, <2>2, <2>3
<1>4. ASSUME NEW n \in Nat, n + 1 <= Pages, Upto(n) PROVE Upto(n + 1)
  <2>1. n + 1 \in Call /\ (n + 1) - 1 = n BY <1>2, <1>4 DEF Call
  <2>2. Before(n + 1) = SumTo(found, n) BY <2>1 DEF Before
  <2>3. /\ SumTo(found, n) \in Nat /\ SumTo(found, n + 1) \in Nat
        /\ SumTo(found, n) <= SumTo(found, n + 1)
        /\ Numbers(n + 1) = FindingsBefore + SumTo(found, n) + 1 .. FindingsBefore + SumTo(found, n + 1)
    BY <2>1, <2>2, PageInterval
  <2>4. UNION { Numbers(c) : c \in 1..n + 1 }
          = (UNION { Numbers(c) : c \in 1..n }) \cup Numbers(n + 1)
    <3>1. \A c : c \in 1..n + 1 <=> c \in 1..n \/ c = n + 1 BY <1>4
    <3>2. ASSUME NEW x
          PROVE  (\E c \in 1..n + 1 : x \in Numbers(c))
                   <=> ((\E c \in 1..n : x \in Numbers(c)) \/ x \in Numbers(n + 1))
      BY <3>1, Zenon
    <3> DEFINE A == UNION { Numbers(c) : c \in 1..n }
               B == UNION { Numbers(c) : c \in 1..n + 1 }
    <3>3. \A x : x \in A <=> \E c \in 1..n : x \in Numbers(c) OBVIOUS
    <3>4. \A x : x \in B <=> \E c \in 1..n + 1 : x \in Numbers(c) OBVIOUS
    <3> HIDE DEF A, B
    <3>5. B = A \cup Numbers(n + 1) BY <3>2, <3>3, <3>4
    <3> QED BY <3>5 DEF A, B
  <2>5. \A a, b, d \in Nat : a <= b =>
            (d + 1 .. d + a) \cup (d + a + 1 .. d + b) = d + 1 .. d + b
    OBVIOUS
  <2>6. UNION { Numbers(c) : c \in 1..n } = FindingsBefore + 1 .. FindingsBefore + SumTo(found, n)
    BY <1>4
  <2>7. (FindingsBefore + 1 .. FindingsBefore + SumTo(found, n)) \cup Numbers(n + 1)
          = FindingsBefore + 1 .. FindingsBefore + SumTo(found, n + 1)
    BY <1>2, <2>3, <2>5
  <2> QED BY <2>4, <2>6, <2>7
<1>5. ASSUME NEW n \in Nat, n \in S PROVE n + 1 \in S
  <2>1. n + 1 <= Pages => Upto(n)
    <3>1. n + 1 <= Pages => n <= Pages BY <1>2
    <3> HIDE DEF Upto
    <3> QED BY <1>5, <3>1
  <2>2. n + 1 <= Pages => Upto(n + 1)
    <3> HIDE DEF Upto
    <3> QED BY <1>4, <1>5, <2>1
  <2> HIDE DEF Upto
  <2> QED BY <1>5, <2>2
<1>6. 0 \in S
  <2> HIDE DEF Upto
  <2> QED BY <1>3
<1>7. Pages \in S
  <2> HIDE DEF S
  <2> QED BY <1>2, <1>5, <1>6, Counting
<1>8. Upto(Pages)
  <2> HIDE DEF Upto
  <2> QED BY <1>2, <1>7
<1> QED BY <1>1, <1>8 DEF Sum, Call

(***************************************************************************)
(* For any number of pages and findings: the ids of a visit are new to the *)
(* job, consecutive, in page order and each given once                     *)
(* (agents/researcher.py, _extract).                                       *)
(***************************************************************************)
THEOREM NumberingIsInPageOrder == PoolSpec => []NumberedInPageOrder
<1>1. ASSUME LadderInv, JoinInv PROVE NumberedInPageOrder
  <2>1. found \in [Call -> Nat] BY <1>1 DEF LadderInv, LadderTypes
  <2>2. SUFFICES ASSUME ids = [c \in Call |-> Numbers(c)]
                 PROVE  /\ UNION { ids[c] : c \in Call }
                             = FindingsBefore + 1 .. FindingsBefore + Sum(found)
                        /\ \A c, d \in Call : c < d => \A i \in ids[c], j \in ids[d] : i < j
    BY <1>1 DEF JoinInv, NumberedInPageOrder
  <2>3. \A c \in Call : ids[c] = Numbers(c) BY <2>2
  <2>4. UNION { ids[c] : c \in Call } = UNION { Numbers(c) : c \in Call } BY <2>3
  <2>5. ASSUME NEW c \in Call, NEW d \in Call, c < d, NEW i \in ids[c], NEW j \in ids[d]
        PROVE  i < j
    <3>1. i \in FindingsBefore + Before(c) + 1 .. FindingsBefore + SumTo(found, c)
      BY <2>1, <2>3, PageInterval
    <3>2. j \in FindingsBefore + Before(d) + 1 .. FindingsBefore + SumTo(found, d)
      BY <2>1, <2>3, PageInterval
    <3>3. /\ Before(c) \in Nat /\ SumTo(found, c) \in Nat /\ Before(d) \in Nat
          /\ SumTo(found, d) \in Nat
      BY <2>1, PageInterval
    <3>4. SumTo(found, c) <= Before(d)
      <4>1. c \in 0..Pages /\ d - 1 \in c..Pages BY <2>5, ClientFacts DEF Call
      <4> QED BY <2>1, <4>1, FoundSeq, SumsGrow DEF Before
    <3> QED BY <3>1, <3>2, <3>3, <3>4, ClientFacts
  <2> QED BY <2>1, <2>4, <2>5, PagesCover
<1> QED BY <1>1, LadderInvariant, JoinInvariant, PTL
=============================================================================
