------------------------ MODULE ResearchGraph_proofs ------------------------
(***************************************************************************)
(* The research graph for every plan size, budget, cap and rubric: nothing *)
(* reaches a reviewer unverified, nobody arrives where only a wiring bug   *)
(* could bring him, and the hop ceiling is what the routing earns.         *)
(***************************************************************************)
EXTENDS ResearchGraph, FiniteSetTheorems, WellFoundedInduction, TLAPS

(***************************************************************************)
(* Facts about the constants and about least elements.                     *)
(***************************************************************************)
LEMMA GraphFacts ==
    /\ MinSubtopics \in Nat \ {0} /\ MaxSubtopics \in Nat /\ MinSubtopics <= MaxSubtopics
    /\ MaxHops \in Nat /\ MaxCalls \in Nat /\ MaxRevisions \in Nat
    /\ EditCost \in Nat \ {0} /\ Attempts \in Nat \ {0}
    /\ PagesPerVisit \in Nat /\ MaxClaims \in Nat \ {0}
    /\ Rubrics \subseteq Scores
BY GraphAssumption DEF GraphAssumption

LessThan == { pair \in Nat \X Nat : pair[1] < pair[2] }

LEMMA LeastNumber ==
    ASSUME NEW S, S \subseteq Nat, S # {}
    PROVE  \E m \in S : \A n \in S : m <= n
<1>1. IsWellFoundedOn(LessThan, Nat)
  BY NatLessThanWellFounded DEF OpToRel, LessThan
<1>2. PICK m \in S : \A n \in S : ~ (<<n, m>> \in LessThan)
  BY <1>1, WFMin
<1>3. \A n \in S : ~ (n < m)
  BY <1>2 DEF LessThan
<1> QED BY <1>3

LEMMA MinIsIn ==
    ASSUME NEW S, S \subseteq Nat, S # {}
    PROVE  Min(S) \in S
BY LeastNumber DEF Min

(***************************************************************************)
(* The lowest failing dimension exists: the least of six times its score   *)
(* plus its place.                                                         *)
(***************************************************************************)
LEMMA LowestIsIn ==
    ASSUME NEW s \in Scores, NEW F, F \subseteq Dimensions, F # {}
    PROVE  Lowest(s, F) \in F
<1> DEFINE key(d) == 6 * s[d] + d
<1> DEFINE K == { key(d) : d \in F }
<1>0. \A d \in F : d \in 1..5 /\ s[d] \in 1..5
  BY DEF Scores, Dimensions
<1>1. \A d \in F : key(d) \in Nat
  BY <1>0
<1>2. K \subseteq Nat /\ K # {}
  BY <1>1
<1>3. PICK m \in K : \A n \in K : m <= n
  <2> HIDE DEF K
  <2> QED BY <1>2, LeastNumber
<1>4. PICK d \in F : m = key(d)
  BY <1>3
<1>5. \A e \in F : key(d) <= key(e)
  BY <1>3, <1>4
<1>6. ASSUME NEW e \in F PROVE s[d] < s[e] \/ (s[d] = s[e] /\ d <= e)
  <2>1. 6 * s[d] + d <= 6 * s[e] + e /\ d \in 1..5 /\ e \in 1..5 /\ s[d] \in 1..5 /\ s[e] \in 1..5
    BY <1>0, <1>5
  <2> QED BY <2>1
<1> QED BY <1>4, <1>6 DEF Lowest

(***************************************************************************)
(* _route_for names the gate or a node, and the Researcher only if there   *)
(* is a thin subtopic.                                                     *)
(***************************************************************************)
LEMMA RouteFacts ==
    ASSUME NEW s \in Scores, NEW thin \in BOOLEAN
    PROVE  /\ RouteFor(s, thin) \in {"human_gate", "researcher", "synthesizer", "fact_checker"}
           /\ RouteFor(s, thin) = "researcher" => thin
<1> DEFINE A == Actionable(FailedDimensions(s), thin)
<1>1. CASE A = {}
  BY <1>1 DEF RouteFor
<1>2. CASE A # {}
  <2>1. Lowest(s, A) \in A /\ A \subseteq Dimensions
    BY <1>2, LowestIsIn DEF Actionable, FailedDimensions
  <2>2. RouteFor(s, thin) = RouteByDimension[Lowest(s, A)]
    BY <1>2 DEF RouteFor
  <2>3. \A d \in 1..5 : RouteByDimension[d] \in {"researcher", "synthesizer", "fact_checker"}
    BY DEF RouteByDimension
  <2>4. RouteByDimension[Lowest(s, A)] = "researcher" => thin
    BY <2>1 DEF Actionable
  <2> QED BY <2>1, <2>2, <2>3, <2>4 DEF Dimensions
<1> QED BY <1>1, <1>2

-----------------------------------------------------------------------------
(***************************************************************************)
(* What a call does to the counter.                                        *)
(***************************************************************************)
Counts == calls' \in 0..MaxCalls /\ calls' >= calls

LEMMA CallEffects ==
    ASSUME calls \in 0..MaxCalls
    PROVE  /\ CallAnswers => Counts /\ calls' > calls
           /\ \A least, most \in Nat : calls' \in Spent(least, most) => Counts
           /\ \A most \in Nat : CallHitsLimit(most) => Counts
           /\ UNCHANGED calls => Counts
BY GraphFacts DEF CallAnswers, Spent, CallHitsLimit, Counts

(***************************************************************************)
(* A failure of a call ends the job with a reason of its own.              *)
(***************************************************************************)
CallReasons == {"rate_limited", "budget_exceeded", "llm_call_failed"}

LEMMA FatalEffect ==
    ASSUME calls \in 0..MaxCalls, NEW why, NEW most \in Nat,
           FatalReason(why, most) \/ AnyFailure(why)
    PROVE  why \in CallReasons /\ Counts
BY CallEffects, GraphFacts DEF FatalReason, AnyFailure, CallReasons

-----------------------------------------------------------------------------
(***************************************************************************)
(* The draft and its verdicts, as sequences.                               *)
(***************************************************************************)
Verdict == [claim : Nat, supported : BOOLEAN]

LEMMA ReportFacts ==
    ASSUME TypeOK
    PROVE  /\ DOMAIN report = 1..Len(report) /\ Len(report) \in Nat
           /\ \A i \in DOMAIN report : report[i] \in 1..minted
           /\ Claims \subseteq 1..minted
           /\ report = <<>> => Claims = {}
BY DEF TypeOK, Claims

LEMMA Concatenation ==
    ASSUME NEW S, NEW a \in Seq(S), NEW b \in Seq(S)
    PROVE  /\ a \o b \in Seq(S) /\ Len(a \o b) = Len(a) + Len(b)
           /\ \A i \in 1..Len(a) : (a \o b)[i] = a[i]
           /\ \A i \in 1..Len(b) : (a \o b)[Len(a) + i] = b[i]
OBVIOUS

LEMMA EmptySequence == \A S : <<>> \in Seq(S) /\ <<>> \in [1..0 -> S]
OBVIOUS

LEMMA ClaimsOfConcatenation ==
    ASSUME NEW a \in Seq(Verdict), NEW b \in Seq(Verdict)
    PROVE  { (a \o b)[i].claim : i \in DOMAIN (a \o b) }
             = { a[i].claim : i \in DOMAIN a } \cup { b[i].claim : i \in DOMAIN b }
<1> DEFINE c == a \o b
<1>1. /\ c \in Seq(Verdict) /\ Len(c) = Len(a) + Len(b)
      /\ \A i \in 1..Len(a) : c[i] = a[i]
      /\ \A i \in 1..Len(b) : c[Len(a) + i] = b[i]
  BY Concatenation
<1>2. /\ Len(a) \in Nat /\ Len(b) \in Nat
      /\ DOMAIN a = 1..Len(a) /\ DOMAIN b = 1..Len(b) /\ DOMAIN c = 1..Len(c)
  BY <1>1
<1> HIDE DEF c
<1>3. ASSUME NEW i \in DOMAIN c
      PROVE  \/ \E k \in DOMAIN a : c[i].claim = a[k].claim
             \/ \E k \in DOMAIN b : c[i].claim = b[k].claim
  <2>1. CASE i <= Len(a)
    BY <1>1, <1>2, <2>1
  <2>2. CASE i > Len(a)
    <3>1. i - Len(a) \in 1..Len(b) /\ i = Len(a) + (i - Len(a))
      BY <1>1, <1>2, <2>2
    <3> QED BY <1>1, <1>2, <3>1
  <2> QED BY <1>1, <1>2, <2>1, <2>2
<1>4. \A k \in DOMAIN a : k \in DOMAIN c /\ c[k].claim = a[k].claim
  BY <1>1, <1>2
<1>5. \A k \in DOMAIN b : Len(a) + k \in DOMAIN c /\ c[Len(a) + k].claim = b[k].claim
  BY <1>1, <1>2
<1>6. { c[i].claim : i \in DOMAIN c }
        = { a[i].claim : i \in DOMAIN a } \cup { b[i].claim : i \in DOMAIN b }
  BY <1>3, <1>4, <1>5
<1> QED BY <1>6 DEF c

LEMMA VerdictEffect ==
    ASSUME TypeOK, NEW supported, verdicts' = verdicts \o VerdictsFor(supported)
    PROVE  verdicts' \in Seq(Verdict) /\ Checked' = Checked \cup Claims
<1>1. PICK a : a = verdicts
  OBVIOUS
<1>2. PICK b : b = VerdictsFor(supported)
  OBVIOUS
<1>3. PICK c : c = verdicts'
  OBVIOUS
<1>4. a \in Seq(Verdict)
  BY <1>1 DEF TypeOK, Verdict
<1>5. /\ b \in Seq(Verdict) /\ DOMAIN b = DOMAIN report
      /\ \A i \in DOMAIN report : b[i].claim = report[i]
  <2>1. b = [ i \in 1..Len(report) |-> [claim |-> report[i], supported |-> report[i] \in supported] ]
    BY <1>2, ReportFacts DEF VerdictsFor
  <2>2. \A i \in 1..Len(report) : report[i] \in Nat
    BY ReportFacts DEF TypeOK
  <2>3. \A i \in 1..Len(report) : b[i] \in Verdict /\ b[i].claim = report[i]
    BY <2>1, <2>2 DEF Verdict
  <2> QED BY <2>1, <2>3, ReportFacts
<1>6. c = a \o b
  BY <1>1, <1>2, <1>3
<1>7. c \in Seq(Verdict)
  BY <1>4, <1>5, <1>6, Concatenation
<1>8. { c[i].claim : i \in DOMAIN c }
        = { a[i].claim : i \in DOMAIN a } \cup { b[i].claim : i \in DOMAIN b }
  <2>1. { (a \o b)[i].claim : i \in DOMAIN (a \o b) }
          = { a[i].claim : i \in DOMAIN a } \cup { b[i].claim : i \in DOMAIN b }
    BY <1>4, <1>5, ClaimsOfConcatenation, Zenon
  <2> QED BY <1>6, <2>1, Zenon
<1>9. Checked' = { c[i].claim : i \in DOMAIN c } /\ Checked = { a[i].claim : i \in DOMAIN a }
  BY <1>1, <1>3 DEF Checked
<1>10. Claims = { b[i].claim : i \in DOMAIN b }
  BY <1>5 DEF Claims
<1> QED BY <1>3, <1>7, <1>8, <1>9, <1>10

LEMMA FreshEffect ==
    ASSUME TypeOK, NEW n \in 1..MaxClaims, report' = FreshIds(n), minted' = minted + n
    PROVE  /\ minted' \in Nat /\ minted < minted' /\ report' \in Seq(1..minted') /\ report' # <<>>
           /\ minted + 1 \in Claims'
<1>1. minted \in Nat /\ n \in Nat /\ n >= 1
  BY GraphFacts DEF TypeOK
<1>2. report' = [i \in 1..n |-> minted + i]
  BY DEF FreshIds
<1>3. report' \in Seq(1..minted') /\ Len(report') = n /\ report'[1] = minted + 1 /\ 1 \in DOMAIN report'
  BY <1>1, <1>2
<1> QED BY <1>1, <1>3 DEF Claims

-----------------------------------------------------------------------------
(***************************************************************************)
(* Every variable stays in its set.  The steps are taken one node at a     *)
(* time; the Researcher's and reflection's changes of status first.        *)
(***************************************************************************)
LEMMA ThinFacts == ThinSubtopics \subseteq Eligible /\ ThinSubtopics \in SUBSET (1..plan)
BY DEF ThinSubtopics, Eligible

LEMMA PlannerTypes == ASSUME TypeOK, Planner PROVE TypeOK'
<1>0. calls \in 0..MaxCalls /\ Counts
  BY CallEffects, FatalEffect DEF TypeOK, Planner
<1>1. CASE \E n \in MinSubtopics..MaxSubtopics :
            /\ plan' = n
            /\ status' = [s \in 1..n |-> "pending"]
            /\ urls' = [s \in 1..n |-> 0]
            /\ UNCHANGED outcome
  <2>1. PICK n \in MinSubtopics..MaxSubtopics :
            /\ plan' = n
            /\ status' = [s \in 1..n |-> "pending"]
            /\ urls' = [s \in 1..n |-> 0]
            /\ UNCHANGED outcome
    BY <1>1
  <2>2. status' \in [1..plan' -> SubtopicStatus] /\ urls' \in [1..plan' -> Nat]
    BY <2>1 DEF SubtopicStatus
  <2> QED BY <1>0, <2>1, <2>2 DEF Planner, TypeOK, Counts, Nodes, draft, review, outcome
<1>2. CASE UNCHANGED progress /\ \E why \in Reasons : Fail(why)
  BY <1>0, <1>2 DEF Planner, TypeOK, Counts, Nodes, draft, review, progress, Fail, Terminal
<1> QED BY <1>1, <1>2 DEF Planner, Reasons

VisitOf(s) ==
    /\ \E fresh \in Nat : urls' = [urls EXCEPT ![s] = @ + fresh]
    /\ \/ UNCHANGED outcome /\ \E st \in {"done", "unresearched"} : status' = [status EXCEPT ![s] = st]
       \/ UNCHANGED status /\ \E why \in CallReasons : Fail(why)

LEMMA VisitEffect ==
    ASSUME TypeOK, NEW s, NEW pages \in 0..PagesPerVisit, NEW found \in BOOLEAN,
           NEW fresh \in 0..PagesPerVisit, Visit(s, pages, found, fresh)
    PROVE  Counts /\ VisitOf(s)
<1>0. fresh \in Nat /\ urls' = [urls EXCEPT ![s] = @ + fresh]
  BY GraphFacts DEF Visit
<1>1. calls \in 0..MaxCalls /\ pages \in Nat /\ pages * Attempts \in Nat
  BY GraphFacts DEF TypeOK
<1>2. CASE /\ calls' \in Spent(pages, pages * Attempts)
           /\ status' = [status EXCEPT ![s] = IF found THEN "done" ELSE "unresearched"]
           /\ UNCHANGED outcome
  BY <1>0, <1>1, <1>2, CallEffects DEF VisitOf
<1>3. CASE /\ \E why \in Reasons : FatalReason(why, pages * Attempts) /\ Fail(why)
           /\ UNCHANGED status
  BY <1>0, <1>1, <1>3, FatalEffect DEF VisitOf
<1> QED BY <1>2, <1>3 DEF Visit

LEMMA ResearcherEffect ==
    ASSUME TypeOK, Researcher
    PROVE  /\ at = "researcher" /\ at' = "supervisor" /\ Counts
           /\ \/ Pending = {} /\ Fail("no_pending_subtopic") /\ UNCHANGED <<status, urls>>
              \/ Pending # {} /\ \E s : s = Min(Pending) /\ VisitOf(s)
<1>1. calls \in 0..MaxCalls
  BY DEF TypeOK
<1>2. CASE Pending = {}
  BY <1>1, <1>2, CallEffects DEF Researcher
<1>3. CASE Pending # {}
  <2>0. PICK s : s = Min(Pending)
    OBVIOUS
  <2>1. PICK pages \in 0..PagesPerVisit, found \in BOOLEAN, fresh \in 0..PagesPerVisit :
            Visit(s, pages, found, fresh)
    BY <1>3, <2>0 DEF Researcher, Visit
  <2> QED BY <1>3, <2>0, <2>1, VisitEffect DEF Researcher
<1> QED BY <1>2, <1>3

LEMMA ResearcherTypes == ASSUME TypeOK, Researcher PROVE TypeOK'
<1>0. UNCHANGED <<status, urls>> \/ \E s : VisitOf(s)
  BY ResearcherEffect
<1>1. status' \in [1..plan -> SubtopicStatus]
  <2>1. UNCHANGED status \/ \E s : \E st \in SubtopicStatus : status' = [status EXCEPT ![s] = st]
    BY <1>0 DEF VisitOf, SubtopicStatus
  <2> QED BY <2>1 DEF TypeOK
<1>2. urls' \in [1..plan -> Nat]
  <2>0. urls \in [1..plan -> Nat]
    BY DEF TypeOK
  <2>1. CASE UNCHANGED urls
    BY <2>0, <2>1
  <2>2. ASSUME NEW s, NEW fresh \in Nat, urls' = [urls EXCEPT ![s] = @ + fresh]
        PROVE  urls' \in [1..plan -> Nat]
    <3>1. \A t \in 1..plan : urls'[t] \in Nat
      BY <2>0, <2>2
    <3> QED BY <2>0, <2>2, <3>1
  <2> QED BY <1>0, <2>1, <2>2 DEF VisitOf
<1>3. job' \in {"running"} \cup Terminal /\ reason' \in Reasons
  BY ResearcherEffect DEF VisitOf, TypeOK, Fail, Terminal, Reasons, CallReasons, outcome
<1>4. at' \in Nodes /\ calls' \in 0..MaxCalls /\ UNCHANGED <<plan, draft, review, hops>>
  BY ResearcherEffect DEF Researcher, Nodes, Counts
<1> QED BY <1>1, <1>2, <1>3, <1>4 DEF TypeOK, draft, review

LEMMA SupervisorEffect ==
    ASSUME TypeOK, Supervisor
    PROVE  /\ at = "supervisor" /\ Counts /\ UNCHANGED <<progress, draft, review>>
           /\ \/ /\ job = "failed" /\ at' = "finalize" /\ hops' = hops /\ UNCHANGED outcome
              \/ /\ job # "failed" /\ at' = "finalize" /\ hops' = hops + 1
                 /\ \/ hops >= MaxHops /\ Fail("hop_limit_exceeded")
                    \/ Fail("budget_exceeded")
                    \/ AllowedTarget = "none" /\ Fail("no_valid_transition")
                    \/ \E why \in CallReasons : Fail(why)
              \/ /\ job # "failed" /\ at' = AllowedTarget /\ AllowedTarget # "none"
                 /\ hops' = hops + 1 /\ hops < MaxHops /\ UNCHANGED outcome
<1>0. calls \in 0..MaxCalls
  BY DEF TypeOK
<1>1. CASE job = "failed"
  BY <1>0, <1>1, CallEffects DEF Supervisor, GoToFinalize
<1>2. CASE /\ job # "failed"
           /\ \/ hops >= MaxHops /\ Stop("hop_limit_exceeded")
              \/ Stop("budget_exceeded")
              \/ AllowedTarget = "none" /\ Stop("no_valid_transition")
  BY <1>0, <1>2, CallEffects DEF Supervisor, Stop
<1>3. CASE job # "failed" /\ Route
  <2>1. CASE CallAnswers /\ at' = AllowedTarget /\ UNCHANGED outcome
    BY <1>0, <1>3, <2>1, CallEffects DEF Supervisor, Route
  <2>2. ASSUME NEW why, FatalReason(why, Attempts), Fail(why), at' = "finalize"
        PROVE  Counts /\ \E r \in CallReasons : Fail(r)
    BY <1>0, <2>2, FatalEffect, GraphFacts
  <2> QED BY <1>3, <2>1, <2>2 DEF Supervisor, Route
<1> QED BY <1>1, <1>2, <1>3 DEF Supervisor, DecideNext, Reasons

LEMMA TargetFacts ==
    AllowedTarget \in {"planner", "researcher", "synthesizer", "fact_checker", "none"}
BY DEF AllowedTarget

LEMMA SupervisorTypes == ASSUME TypeOK, Supervisor PROVE TypeOK'
<1>1. at' \in Nodes
  BY SupervisorEffect, TargetFacts DEF Nodes
<1>2. job' \in {"running"} \cup Terminal /\ reason' \in Reasons
  BY SupervisorEffect DEF TypeOK, Fail, Terminal, Reasons, CallReasons, outcome
<1>3. hops' \in Nat /\ calls' \in 0..MaxCalls
  <2>1. hops' \in {hops, hops + 1} /\ Counts
    BY SupervisorEffect, Zenon
  <2>2. hops \in Nat
    BY DEF TypeOK
  <2> QED BY <2>1, <2>2 DEF Counts
<1> QED BY <1>1, <1>2, <1>3, SupervisorEffect DEF TypeOK, progress, draft, review

LEMMA SynthesizerEffect ==
    ASSUME TypeOK, Synthesizer
    PROVE  /\ at = "synthesizer" /\ at' = "supervisor" /\ Counts
           /\ UNCHANGED <<progress, verdicts, review, hops>>
           /\ \/ /\ UNCHANGED <<report, minted>>
                 /\ \E why \in CallReasons \cup {"no_findings", "report_rejected"} : Fail(why)
              \/ /\ UNCHANGED outcome
                 /\ \E n \in 1..MaxClaims : report' = FreshIds(n) /\ minted' = minted + n
<1>0. calls \in 0..MaxCalls
  BY DEF TypeOK
<1>1. CASE UNCHANGED <<calls, report, minted>> /\ Fail("no_findings")
  BY <1>0, <1>1, CallEffects DEF Synthesizer
<1>2. CASE UNCHANGED <<report, minted>> /\ CallAnswers /\ Fail("report_rejected")
  BY <1>0, <1>2, CallEffects DEF Synthesizer
<1>4. CASE /\ CallAnswers /\ UNCHANGED outcome
           /\ \E n \in 1..MaxClaims : report' = FreshIds(n) /\ minted' = minted + n
  BY <1>0, <1>4, CallEffects DEF Synthesizer
<1>3. CASE UNCHANGED <<report, minted>> /\ \E why \in Reasons : AnyFailure(why) /\ Fail(why)
  <2>1. ASSUME NEW why, AnyFailure(why), Fail(why)
        PROVE  Counts /\ \E r \in CallReasons : Fail(r)
    BY <1>0, <2>1, FatalEffect, GraphFacts
  <2> QED BY <1>3, <2>1 DEF Synthesizer
<1> QED BY <1>1, <1>2, <1>3, <1>4 DEF Synthesizer, WriteReport

LEMMA SynthesizerTypes == ASSUME TypeOK, Synthesizer PROVE TypeOK'
<1>1. report' \in Seq(1..minted') /\ minted' \in Nat
  <2>1. CASE UNCHANGED <<report, minted>>
    BY <2>1 DEF TypeOK
  <2>2. CASE \E n \in 1..MaxClaims : report' = FreshIds(n) /\ minted' = minted + n
    BY <2>2, FreshEffect
  <2> QED BY <2>1, <2>2, SynthesizerEffect
<1>2. job' \in {"running"} \cup Terminal /\ reason' \in Reasons
  BY SynthesizerEffect DEF TypeOK, Fail, Terminal, Reasons, CallReasons, outcome
<1>3. at' \in Nodes /\ calls' \in 0..MaxCalls /\ UNCHANGED <<progress, verdicts, review, hops>>
  BY SynthesizerEffect DEF Nodes, Counts
<1> QED BY <1>1, <1>2, <1>3 DEF TypeOK, progress, review

LEMMA FactCheckerEffect ==
    ASSUME TypeOK, FactChecker
    PROVE  /\ at = "fact_checker" /\ at' = "reflection" /\ Counts
           /\ UNCHANGED <<progress, report, minted, review, hops>>
           /\ \/ report = <<>> /\ Fail("no_report_to_check") /\ UNCHANGED verdicts
              \/ report # <<>> /\ UNCHANGED verdicts /\ \E why \in CallReasons : Fail(why)
              \/ /\ report # <<>> /\ UNCHANGED outcome
                 /\ verdicts' \in Seq(Verdict) /\ Checked' = Checked \cup Claims
<1>0. calls \in 0..MaxCalls
  BY DEF TypeOK
<1>1. CASE report = <<>> /\ Fail("no_report_to_check") /\ UNCHANGED <<calls, verdicts>>
  BY <1>0, <1>1, CallEffects DEF FactChecker
<1>2. CASE report # <<>> /\ UNCHANGED <<calls, outcome>> /\ verdicts' = verdicts \o VerdictsFor({})
  BY <1>0, <1>2, CallEffects, VerdictEffect DEF FactChecker
<1>3. CASE /\ report # <<>> /\ CallAnswers /\ UNCHANGED outcome
           /\ \E supported \in SUBSET Claims : verdicts' = verdicts \o VerdictsFor(supported)
  BY <1>0, <1>3, CallEffects, VerdictEffect DEF FactChecker
<1>4. CASE report # <<>> /\ UNCHANGED verdicts /\ \E why \in Reasons : AnyFailure(why) /\ Fail(why)
  BY <1>0, <1>4, FatalEffect DEF FactChecker
<1> QED BY <1>1, <1>2, <1>3, <1>4 DEF FactChecker, CheckReport

LEMMA FactCheckerTypes == ASSUME TypeOK, FactChecker PROVE TypeOK'
<1>1. verdicts' \in Seq([claim : Nat, supported : BOOLEAN])
  BY FactCheckerEffect DEF TypeOK, Verdict
<1>2. job' \in {"running"} \cup Terminal /\ reason' \in Reasons
  BY FactCheckerEffect DEF TypeOK, Fail, Terminal, Reasons, CallReasons, outcome
<1>3. at' \in Nodes /\ calls' \in 0..MaxCalls /\ UNCHANGED <<progress, report, minted, review, hops>>
  BY FactCheckerEffect DEF Nodes, Counts
<1> QED BY <1>1, <1>2, <1>3 DEF TypeOK, progress, review

(***************************************************************************)
(* The ways out of reflection: to finalize, to the gate with a flag of     *)
(* this draft, to a repair that keeps the draft, or to more research.      *)
(***************************************************************************)
ToFinalize ==
    /\ at' = "finalize"
    /\ UNCHANGED <<flag, passed, revisions, report, status>>
    /\ \/ job = "failed" /\ UNCHANGED outcome
       \/ job # "failed" /\ report = <<>> /\ Fail("no_report_to_score")
       \/ job # "failed" /\ \E why \in CallReasons : Fail(why)

ToGate ==
    /\ at' = "human_gate" /\ job # "failed" /\ calls' > calls /\ report # <<>>
    /\ UNCHANGED <<revisions, report, status, outcome>>
    /\ \/ flag' = "none" /\ passed' = minted
       \/ flag' \in {"below_threshold", "unscored"} /\ passed' = passed

Revises ==
    /\ job # "failed" /\ report # <<>>
    /\ ~edit /\ ~(revisions >= MaxRevisions) /\ revisions' = revisions + 1
    /\ UNCHANGED <<flag, passed, outcome>>

ToRepair ==
    /\ at' \in {"synthesizer", "fact_checker"} /\ Revises
    /\ UNCHANGED <<report, status>>

ToResearch ==
    /\ at' = "researcher" /\ Revises /\ ThinSubtopics # {}
    /\ report' = <<>>
    /\ status' = [ t \in 1..plan |-> IF t \in ThinSubtopics THEN "pending" ELSE status[t] ]

LEMMA ScoredEffect ==
    ASSUME TypeOK, NEW s \in Scores, job # "failed", report # <<>>, Scored(s)
    PROVE  ToGate \/ ToRepair \/ ToResearch
<1>0. calls' > calls /\ at' = ScoredRoute(s)
  BY CallEffects DEF Scored, TypeOK
<1>1. CASE GateRoute(s)
  <2>1. at' = "human_gate"
    BY <1>0, <1>1 DEF ScoredRoute
  <2> QED BY <1>0, <2>1 DEF Scored, ToGate
<1>2. CASE ~GateRoute(s)
  <2>1. PICK thin \in BOOLEAN : thin = (ThinSubtopics # {})
    OBVIOUS
  <2>2. at' = RouteFor(s, thin)
    BY <1>0, <1>2, <2>1 DEF ScoredRoute
  <2>3. /\ at' \in {"human_gate", "researcher", "synthesizer", "fact_checker"}
        /\ at' = "researcher" => ThinSubtopics # {}
    BY <2>1, <2>2, RouteFacts
  <2>4. ~edit /\ ~(revisions >= MaxRevisions) /\ ~Passed(s)
    BY <1>2 DEF GateRoute
  <2>5. CASE at' = "human_gate"
    BY <1>0, <2>4, <2>5 DEF Scored, ToGate
  <2>6. CASE at' = "researcher"
    BY <1>0, <2>3, <2>4, <2>6 DEF Scored, NextRevision, ToResearch, Revises
  <2>7. CASE at' \in {"synthesizer", "fact_checker"}
    BY <1>0, <2>4, <2>7 DEF Scored, NextRevision, ToRepair, Revises
  <2> QED BY <2>3, <2>5, <2>6, <2>7
<1> QED BY <1>1, <1>2

LEMMA ReflectionEffect ==
    ASSUME TypeOK, Reflection
    PROVE  /\ at = "reflection" /\ Counts
           /\ UNCHANGED <<plan, urls, minted, verdicts, edit, edits, hops, visit>>
           /\ ToFinalize \/ ToGate \/ ToRepair \/ ToResearch
<1>0. calls \in 0..MaxCalls
  BY DEF TypeOK
<1>1. CASE job = "failed"
  BY <1>0, <1>1, CallEffects DEF Reflection, ToFinalize
<1>2. CASE job # "failed"
  <2>1. CASE report = <<>> /\ Fail("no_report_to_score")
    BY <1>0, <1>2, <2>1, CallEffects DEF Reflection, Reflect, ToFinalize, Scored, Unscored
  <2>2. ASSUME NEW s \in Rubrics, report # <<>>, Scored(s)
        PROVE  Counts /\ (ToGate \/ ToRepair \/ ToResearch)
    <3>1. s \in Scores
      BY GraphFacts
    <3>2. Counts
      BY <1>0, <2>2, CallEffects DEF Scored
    <3> QED BY <1>2, <2>2, <3>1, <3>2, ScoredEffect
  <2>3. CASE report # <<>> /\ Unscored
    BY <1>0, <1>2, <2>3, CallEffects DEF Reflection, Unscored, ToGate
  <2>4. ASSUME NEW why, report # <<>>, at' = "finalize", FatalReason(why, Attempts), Fail(why),
               UNCHANGED <<flag, passed, revisions, report, status>>
        PROVE  Counts /\ ToFinalize
    BY <1>0, <1>2, <2>4, FatalEffect, GraphFacts DEF ToFinalize
  <2> QED BY <1>2, <2>1, <2>2, <2>3, <2>4 DEF Reflection, Reflect
<1> QED BY <1>1, <1>2

LEMMA ReflectionTypes == ASSUME TypeOK, Reflection PROVE TypeOK'
<1>1. status' \in [1..plan -> SubtopicStatus]
  <2>1. CASE UNCHANGED status
    BY <2>1 DEF TypeOK
  <2>2. CASE status' = [ t \in 1..plan |-> IF t \in ThinSubtopics THEN "pending" ELSE status[t] ]
    BY <2>2 DEF TypeOK, SubtopicStatus
  <2> QED BY <2>1, <2>2, ReflectionEffect DEF ToFinalize, ToGate, ToRepair, ToResearch
<1>2. report' \in Seq(1..minted)
  <2>1. report' = report \/ report' = <<>>
    BY ReflectionEffect DEF ToFinalize, ToGate, ToRepair, ToResearch
  <2>2. <<>> \in Seq(1..minted) /\ report \in Seq(1..minted)
    BY EmptySequence DEF TypeOK
  <2> QED BY <2>1, <2>2
<1>3. job' \in {"running"} \cup Terminal /\ reason' \in Reasons /\ at' \in Nodes
  BY ReflectionEffect
  DEF ToFinalize, ToGate, ToRepair, ToResearch, Revises, TypeOK, Fail, Terminal, Reasons,
      CallReasons, outcome, Nodes
<1>4. flag' \in Flags /\ passed' \in Nat
  BY ReflectionEffect DEF ToFinalize, ToGate, ToRepair, ToResearch, Revises, TypeOK, Flags
<1>5. revisions' \in Nat
  <2>1. revisions' \in {revisions, revisions + 1}
    BY ReflectionEffect DEF ToFinalize, ToGate, ToRepair, ToResearch, Revises
  <2> QED BY <2>1 DEF TypeOK
<1>6. calls' \in 0..MaxCalls /\ UNCHANGED <<plan, urls, minted, verdicts, edit, edits, hops, visit>>
  BY ReflectionEffect DEF Counts
<1> QED BY <1>1, <1>2, <1>3, <1>4, <1>5, <1>6 DEF TypeOK

LEMMA GateTypes == ASSUME TypeOK, HumanGate PROVE TypeOK'
<1>1. job' \in {"running"} \cup Terminal /\ reason' \in Reasons /\ at' \in Nodes
  BY DEF HumanGate, Approve, Reject, Edit, Invalid, TypeOK, Fail, Terminal, Reasons, outcome, Nodes
<1>2. edits' \in Nat /\ visit' \in Nat
  BY GraphFacts DEF HumanGate, Approve, Reject, Edit, Invalid, TypeOK
<1>3. edit' \in BOOLEAN
  BY Zenon DEF HumanGate, Approve, Reject, Edit, Invalid, TypeOK
<1> QED BY <1>1, <1>2, <1>3 DEF HumanGate, TypeOK, progress, draft

LEMMA EndTypes == ASSUME TypeOK, Export \/ Finalize PROVE TypeOK'
<1>1. job' \in {"running"} \cup Terminal /\ reason' \in Reasons /\ at' \in Nodes
  BY DEF Export, Finalize, TypeOK, Fail, Terminal, Reasons, outcome, Nodes
<1>2. UNCHANGED <<progress, draft, review, hops, calls>>
  BY DEF Export, Finalize
<1> QED BY <1>1, <1>2 DEF TypeOK, progress, draft, review

LEMMA TypesAreKept == ASSUME TypeOK, [Next]_vars PROVE TypeOK'
<1>1. CASE Next
  BY <1>1, PlannerTypes, ResearcherTypes, SynthesizerTypes, FactCheckerTypes, SupervisorTypes,
     ReflectionTypes, EndTypes, GateTypes DEF Next, Agents, ControlFlow
<1>2. CASE UNCHANGED vars
  BY <1>2 DEF TypeOK, vars, progress, draft, review, outcome
<1> QED BY <1>1, <1>2

LEMMA TypesAtFirst == Init => TypeOK
<1> SUFFICES ASSUME Init PROVE TypeOK
  OBVIOUS
<1>1. status \in [1..plan -> SubtopicStatus] /\ urls \in [1..plan -> Nat]
  BY EmptySequence DEF Init
<1>2. report \in Seq(1..minted) /\ verdicts \in Seq([claim : Nat, supported : BOOLEAN])
  BY EmptySequence DEF Init
<1>3. calls \in 0..MaxCalls
  BY GraphFacts DEF Init
<1> QED BY <1>1, <1>2, <1>3 DEF Init, TypeOK, Nodes, Flags, Terminal, Reasons

(***************************************************************************)
(* Every variable of the graph keeps its type: calls stay within           *)
(* max_llm_calls_per_job, and the statuses and URL counts are those of the *)
(* plan (graph/state.py, ResearchState; llm_client.py, CallBudget).        *)
(***************************************************************************)
THEOREM GraphTypes == Spec => []TypeOK
BY TypesAtFirst, TypesAreKept, PTL DEF Spec

-----------------------------------------------------------------------------
(***************************************************************************)
(* The inductive invariant.  Position says what a node finds when it is    *)
(* reached: the routing rules look at the plan, the draft and the          *)
(* verdicts, so this relates the node that runs next to them.  Judgement   *)
(* relates the draft to what the Fact-Checker and the rubric said of it:   *)
(* claim ids are never given out twice, so a new draft has a claim nobody  *)
(* ruled on and is one the rubric has not passed.  Ending is about the     *)
(* outcome and its reason.                                                 *)
(***************************************************************************)
Drafted == report # <<>> /\ Claims \subseteq Checked

Position ==
    /\ plan = 0 => report = <<>>
    /\ report # <<>> => Pending = {}
    /\ at = "planner" => plan = 0
    /\ at = "researcher" => Pending # {}
    /\ at = "synthesizer" => Pending = {} /\ plan # 0
    /\ at = "fact_checker" => report # <<>>
    /\ at = "reflection" /\ job # "failed" => Drafted
    /\ at \in {"human_gate", "export"} => Drafted
    /\ at = "supervisor" /\ job # "failed" => ~Drafted
    /\ edit => report # <<>>

Judgement ==
    /\ Checked \subseteq 1..minted
    /\ passed <= minted
    /\ passed = minted => Claims \subseteq Checked
    /\ at = "fact_checker" => passed < minted
    /\ at = "reflection" /\ job # "failed" => passed < minted
    /\ at = "human_gate" => (flag = "none" <=> passed = minted)
    /\ visit <= calls
    /\ at = "human_gate" => visit < calls

Ending ==
    /\ job = "failed" => at \in {"supervisor", "reflection", "finalize", "end"}
    /\ job \in {"approved", "rejected"} => at \in {"finalize", "end"}
    /\ at \in {"finalize", "end"} => job \in Terminal
    /\ job = "failed" <=> reason # "none"
    /\ reason \notin WiringBugs

GraphInv == TypeOK /\ Position /\ Judgement /\ Ending

(***************************************************************************)
(* The hops the way to the reviewer may still take, from where the job is. *)
(***************************************************************************)
HopsLeft ==
    IF at = "supervisor" /\ job # "failed"
    THEN IF plan = 0 THEN MaxSubtopics + 3
         ELSE IF Pending # {} THEN Cardinality(Pending) + 2
         ELSE IF report = <<>> THEN 2 ELSE 1
    ELSE IF at = "planner" THEN MaxSubtopics + 2
    ELSE IF at = "researcher" THEN Cardinality(Pending) + 1
    ELSE IF at = "synthesizer" THEN 1
    ELSE 0

HopsAreCounted ==
    /\ revisions <= MaxRevisions
    /\ hops + HopsLeft <= HopCeiling(revisions, edits)
    /\ reason = "hop_limit_exceeded" => MaxHops < HopCeiling(revisions, edits)

LEMMA Frames ==
    /\ UNCHANGED report => Claims' = Claims
    /\ UNCHANGED verdicts => Checked' = Checked
    /\ UNCHANGED <<plan, status>> => Pending' = Pending
    /\ UNCHANGED draft => (Drafted' <=> Drafted) /\ Claims' = Claims /\ Checked' = Checked
    /\ UNCHANGED progress => Pending' = Pending
BY DEF Claims, Checked, Pending, Drafted, draft, progress

LEMMA SupervisorKeeps ==
    ASSUME GraphInv, Supervisor
    PROVE  Position' /\ Judgement' /\ Ending'
<1>1. TypeOK /\ Position /\ Judgement /\ Ending
  BY DEF GraphInv
<1>2. /\ at = "supervisor" /\ Counts /\ UNCHANGED <<plan, status, report, minted, edit, passed, visit, flag>>
      /\ Claims' = Claims /\ Checked' = Checked /\ Pending' = Pending
  BY <1>1, SupervisorEffect, Frames DEF progress, draft, review
<1>3. AllowedTarget # "none" \/ job = "failed"
  BY <1>1, <1>2 DEF AllowedTarget, Position, Drafted
<1>4. CASE at' = "finalize" /\ job = "failed" /\ UNCHANGED outcome
  <2>1. Position'
    BY <1>1, <1>2, <1>4 DEF Position, Drafted
  <2>2. Judgement'
    BY <1>1, <1>2, <1>4 DEF Judgement, Counts, TypeOK
  <2>3. Ending'
    BY <1>1, <1>2, <1>4 DEF Ending, Terminal, outcome, WiringBugs
  <2> QED BY <2>1, <2>2, <2>3
<1>5. CASE /\ at' = "finalize" /\ job # "failed"
           /\ \E why \in CallReasons \cup {"hop_limit_exceeded"} : Fail(why)
  <2>1. Position'
    BY <1>1, <1>2, <1>5 DEF Position, Drafted
  <2>2. Judgement'
    BY <1>1, <1>2, <1>5 DEF Judgement, Counts, TypeOK
  <2>3. Ending'
    BY <1>1, <1>2, <1>5 DEF Ending, Fail, Terminal, CallReasons, WiringBugs
  <2> QED BY <2>1, <2>2, <2>3
<1>6. CASE at' = AllowedTarget /\ AllowedTarget # "none" /\ job # "failed" /\ UNCHANGED outcome
  <2>0. job = "running"
    BY <1>1, <1>2, <1>6 DEF Ending, TypeOK, Terminal
  <2>1. /\ at' \in {"planner", "researcher", "synthesizer", "fact_checker"}
        /\ at' = "planner" => plan = 0
        /\ at' = "researcher" => plan # 0 /\ Pending # {}
        /\ at' = "synthesizer" => plan # 0 /\ Pending = {}
        /\ at' = "fact_checker" => report # <<>> /\ ~ Claims \subseteq Checked
    BY <1>6 DEF AllowedTarget
  <2>2. Position'
    BY <1>1, <1>2, <2>1 DEF Position, Drafted
  <2>3. Judgement'
    <3>1. at' = "fact_checker" => passed < minted
      BY <1>1, <2>1 DEF Judgement, TypeOK
    <3> QED BY <1>1, <1>2, <2>1, <3>1 DEF Judgement, Counts, TypeOK
  <2>4. Ending'
    BY <1>1, <1>6, <2>0, <2>1 DEF Ending, Terminal, outcome, WiringBugs
  <2> QED BY <2>2, <2>3, <2>4
<1> QED BY <1>1, <1>3, <1>4, <1>5, <1>6, SupervisorEffect DEF CallReasons

LEMMA PlannerKeeps ==
    ASSUME GraphInv, Planner
    PROVE  Position' /\ Judgement' /\ Ending'
<1>1. TypeOK /\ Position /\ Judgement /\ Ending
  BY DEF GraphInv
<1>2. /\ at = "planner" /\ at' = "supervisor" /\ UNCHANGED <<report, minted, edit, passed, visit, flag>>
      /\ Claims' = Claims /\ Checked' = Checked
      /\ report = <<>> /\ plan = 0 /\ job = "running" /\ reason = "none"
  BY <1>1, Frames DEF Planner, draft, review, Position, Ending, TypeOK, Terminal
<1>3. Counts
  BY <1>1, CallEffects, FatalEffect DEF TypeOK, Planner
<1>4. Position'
  BY <1>1, <1>2 DEF Position, Drafted
<1>5. Judgement'
  BY <1>1, <1>2, <1>3 DEF Judgement, Counts, TypeOK
<1>6. UNCHANGED outcome \/ \E why \in CallReasons \cup {"invalid_plan"} : Fail(why)
  <2>1. ASSUME NEW why \in Reasons, AnyFailure(why), Fail(why)
        PROVE  why \in CallReasons
    BY <1>1, <2>1, FatalEffect, GraphFacts DEF TypeOK
  <2> QED BY <2>1 DEF Planner
<1>7. Ending'
  BY <1>1, <1>2, <1>6 DEF Ending, Fail, Terminal, outcome, WiringBugs, CallReasons
<1> QED BY <1>4, <1>5, <1>7

LEMMA ResearcherKeeps ==
    ASSUME GraphInv, Researcher
    PROVE  Position' /\ Judgement' /\ Ending'
<1>1. TypeOK /\ Position /\ Judgement /\ Ending
  BY DEF GraphInv
<1>2. /\ at = "researcher" /\ at' = "supervisor" /\ Counts
      /\ UNCHANGED <<plan, report, minted, edit, passed, visit, flag>>
      /\ Claims' = Claims /\ Checked' = Checked
  BY <1>1, ResearcherEffect, Frames DEF Researcher, draft, review
<1>3. Pending # {} /\ report = <<>> /\ job = "running" /\ reason = "none"
  BY <1>1, <1>2 DEF Position, Ending, TypeOK, Terminal
<1>4. Position'
  BY <1>1, <1>2, <1>3 DEF Position, Drafted
<1>5. Judgement'
  BY <1>1, <1>2 DEF Judgement, Counts, TypeOK
<1>6. UNCHANGED outcome \/ \E why \in CallReasons : Fail(why)
  BY <1>1, <1>3, ResearcherEffect DEF VisitOf
<1>7. Ending'
  BY <1>1, <1>2, <1>3, <1>6 DEF Ending, Fail, Terminal, outcome, WiringBugs, CallReasons
<1> QED BY <1>4, <1>5, <1>7

LEMMA SynthesizerKeeps ==
    ASSUME GraphInv, Synthesizer
    PROVE  Position' /\ Judgement' /\ Ending'
<1>1. TypeOK /\ Position /\ Judgement /\ Ending
  BY DEF GraphInv
<1>2. /\ at = "synthesizer" /\ at' = "supervisor" /\ Counts
      /\ UNCHANGED <<plan, status, verdicts, edit, passed, visit, flag>>
      /\ Checked' = Checked /\ Pending' = Pending
  BY <1>1, SynthesizerEffect, Frames DEF progress, review
<1>3. Pending = {} /\ plan # 0 /\ job = "running" /\ reason = "none"
  BY <1>1, <1>2 DEF Position, Ending, TypeOK, Terminal
<1>4. CASE /\ UNCHANGED <<report, minted>>
           /\ \E why \in CallReasons \cup {"no_findings", "report_rejected"} : Fail(why)
  <2>0. Claims' = Claims
    BY <1>4, Frames
  <2>1. job' = "failed"
    BY <1>4 DEF Fail
  <2>2. Position'
    BY <1>1, <1>2, <1>3, <1>4, <2>1 DEF Position
  <2>3. Judgement'
    BY <1>1, <1>2, <1>4, <2>0, <2>1 DEF Judgement, Counts, TypeOK
  <2>4. Ending'
    BY <1>1, <1>2, <1>4 DEF Ending, Fail, Terminal, WiringBugs, CallReasons
  <2> QED BY <2>2, <2>3, <2>4
<1>5. CASE /\ UNCHANGED outcome
           /\ \E n \in 1..MaxClaims : report' = FreshIds(n) /\ minted' = minted + n
  <2>0. /\ report' # <<>> /\ minted < minted' /\ minted' \in Nat /\ minted \in Nat
        /\ minted + 1 \in Claims'
    BY <1>1, <1>5, FreshEffect DEF TypeOK
  <2>1. ~ (minted + 1 \in Checked')
    BY <1>1, <1>2, <2>0 DEF Judgement
  <2>2. Position'
    BY <1>1, <1>2, <1>3, <2>0, <2>1 DEF Position, Drafted
  <2>3. Judgement'
    <3>1. Checked' \subseteq 1..minted' /\ passed' < minted'
      BY <1>1, <1>2, <2>0 DEF Judgement, TypeOK
    <3> QED BY <1>1, <1>2, <2>0, <3>1 DEF Judgement, Counts, TypeOK
  <2>4. Ending'
    BY <1>1, <1>2, <1>3, <1>5 DEF Ending, Terminal, outcome, WiringBugs
  <2> QED BY <2>2, <2>3, <2>4
<1> QED BY <1>1, <1>4, <1>5, SynthesizerEffect

LEMMA FactCheckerKeeps ==
    ASSUME GraphInv, FactChecker
    PROVE  Position' /\ Judgement' /\ Ending'
<1>1. TypeOK /\ Position /\ Judgement /\ Ending
  BY DEF GraphInv
<1>2. /\ at = "fact_checker" /\ at' = "reflection" /\ Counts
      /\ UNCHANGED <<plan, status, report, minted, edit, passed, visit, flag>>
      /\ Claims' = Claims /\ Pending' = Pending
  BY <1>1, FactCheckerEffect, Frames DEF progress, review
<1>3. report # <<>> /\ passed < minted /\ job = "running" /\ reason = "none"
  BY <1>1, <1>2 DEF Position, Judgement, Ending, TypeOK, Terminal
<1>4. CASE UNCHANGED verdicts /\ \E why \in CallReasons : Fail(why)
  <2>0. Checked' = Checked /\ job' = "failed"
    BY <1>4, Frames DEF Fail
  <2>1. Position'
    BY <1>1, <1>2, <1>3, <2>0 DEF Position
  <2>2. Judgement'
    BY <1>1, <1>2, <1>3, <2>0 DEF Judgement, Counts, TypeOK
  <2>3. Ending'
    BY <1>1, <1>2, <1>4 DEF Ending, Fail, Terminal, WiringBugs, CallReasons
  <2> QED BY <2>1, <2>2, <2>3
<1>5. CASE UNCHANGED outcome /\ Checked' = Checked \cup Claims
  <2>0. Claims \subseteq 1..minted
    BY <1>1, ReportFacts
  <2>1. Position'
    BY <1>1, <1>2, <1>3, <1>5 DEF Position, Drafted
  <2>2. Judgement'
    BY <1>1, <1>2, <1>3, <1>5, <2>0 DEF Judgement, Counts, TypeOK
  <2>3. Ending'
    BY <1>1, <1>2, <1>3, <1>5 DEF Ending, Terminal, outcome, WiringBugs
  <2> QED BY <2>1, <2>2, <2>3
<1> QED BY <1>1, <1>3, <1>4, <1>5, FactCheckerEffect

LEMMA ReflectionKeeps ==
    ASSUME GraphInv, Reflection
    PROVE  Position' /\ Judgement' /\ Ending'
<1>1. TypeOK /\ Position /\ Judgement /\ Ending
  BY DEF GraphInv
<1>2. /\ at = "reflection" /\ Counts
      /\ UNCHANGED <<plan, minted, verdicts, edit, visit>> /\ Checked' = Checked
  BY <1>1, ReflectionEffect, Frames
<1>3. /\ job # "failed" => Drafted /\ passed < minted /\ job = "running" /\ reason = "none"
      /\ job = "failed" => reason # "none"
      /\ visit <= calls /\ calls \in Nat /\ visit \in Nat /\ calls' \in Nat
  BY <1>1, <1>2 DEF Position, Judgement, Ending, TypeOK, Terminal, Counts
<1>4. CASE ToFinalize
  <2>0. /\ at' = "finalize" /\ UNCHANGED <<flag, passed, report, status>>
        /\ Claims' = Claims /\ Pending' = Pending
    BY <1>2, <1>4, Frames DEF ToFinalize
  <2>1. Position'
    BY <1>1, <1>2, <2>0 DEF Position
  <2>2. Judgement'
    BY <1>1, <1>2, <1>3, <2>0 DEF Judgement, Counts
  <2>3. Ending'
    BY <1>1, <1>3, <1>4
    DEF Ending, ToFinalize, Fail, Terminal, WiringBugs, CallReasons, outcome, Drafted
  <2> QED BY <2>1, <2>2, <2>3
<1>5. CASE ToGate
  <2>0. /\ at' = "human_gate" /\ UNCHANGED <<report, status>> /\ UNCHANGED outcome
        /\ Claims' = Claims /\ Pending' = Pending /\ calls' > calls
        /\ Drafted /\ job = "running" /\ reason = "none" /\ passed < minted
    BY <1>2, <1>3, <1>5, Frames DEF ToGate
  <2>1. Position'
    BY <1>1, <1>2, <2>0 DEF Position, Drafted
  <2>2. Judgement'
    <3>1. /\ flag' = "none" <=> passed' = minted'
          /\ passed' <= minted'
      BY <1>1, <1>2, <1>5, <2>0 DEF ToGate, TypeOK
    <3> QED BY <1>1, <1>2, <1>3, <2>0, <3>1 DEF Judgement, Counts, Drafted
  <2>3. Ending'
    BY <1>1, <2>0 DEF Ending, Terminal, WiringBugs, outcome
  <2> QED BY <2>1, <2>2, <2>3
<1>6. CASE ToRepair
  <2>0. /\ at' \in {"synthesizer", "fact_checker"} /\ UNCHANGED <<report, status, passed>>
        /\ UNCHANGED outcome /\ Claims' = Claims /\ Pending' = Pending
        /\ Drafted /\ job = "running" /\ reason = "none" /\ passed < minted
    BY <1>2, <1>3, <1>6, Frames DEF ToRepair, Revises
  <2>1. Position'
    BY <1>1, <1>2, <2>0 DEF Position, Drafted
  <2>2. Judgement'
    BY <1>1, <1>2, <1>3, <2>0 DEF Judgement, Counts
  <2>3. Ending'
    BY <1>1, <2>0 DEF Ending, Terminal, WiringBugs, outcome
  <2> QED BY <2>1, <2>2, <2>3
<1>7. CASE ToResearch
  <2>0. /\ at' = "researcher" /\ report' = <<>> /\ UNCHANGED passed /\ UNCHANGED outcome
        /\ ~edit /\ job = "running" /\ reason = "none" /\ passed < minted
    BY <1>3, <1>7 DEF ToResearch, Revises
  <2>1. Pending' # {}
    <3>1. PICK t : t \in ThinSubtopics
      BY <1>7 DEF ToResearch
    <3>2. t \in 1..plan
      BY <3>1, ThinFacts
    <3>3. t \in 1..plan' /\ status'[t] = "pending"
      BY <1>2, <1>7, <3>1, <3>2 DEF ToResearch
    <3> QED BY <3>3 DEF Pending
  <2>2. Position'
    BY <1>1, <1>2, <2>0, <2>1 DEF Position
  <2>3. Judgement'
    BY <1>1, <1>2, <1>3, <2>0 DEF Judgement, Counts, TypeOK
  <2>4. Ending'
    BY <1>1, <2>0 DEF Ending, Terminal, WiringBugs, outcome
  <2> QED BY <2>2, <2>3, <2>4
<1> QED BY <1>1, <1>4, <1>5, <1>6, <1>7, ReflectionEffect

LEMMA GateKeeps ==
    ASSUME GraphInv, HumanGate
    PROVE  Position' /\ Judgement' /\ Ending'
<1>1. TypeOK /\ Position /\ Judgement /\ Ending
  BY DEF GraphInv
<1>2. /\ at = "human_gate" /\ UNCHANGED <<plan, status, minted, verdicts, report, passed, calls>>
      /\ visit' = calls /\ calls \in Nat
      /\ Claims' = Claims /\ Checked' = Checked /\ Pending' = Pending
      /\ at' \in {"export", "finalize", "synthesizer"}
  BY <1>1, Frames DEF HumanGate, Approve, Reject, Edit, Invalid, progress, draft, TypeOK
<1>3. /\ Drafted /\ Pending = {} /\ plan # 0 /\ job = "running" /\ reason = "none"
  BY <1>1, <1>2 DEF Position, Ending, TypeOK, Terminal, Drafted
<1>4. Position'
  BY <1>1, <1>2, <1>3 DEF Position, Drafted
<1>5. Judgement'
  BY <1>1, <1>2 DEF Judgement
<1>6. Ending'
  BY <1>1, <1>2, <1>3
  DEF HumanGate, Approve, Reject, Edit, Invalid, Ending, Fail, Terminal, WiringBugs, outcome
<1> QED BY <1>4, <1>5, <1>6

LEMMA EndKeeps ==
    ASSUME GraphInv, Export \/ Finalize
    PROVE  Position' /\ Judgement' /\ Ending'
<1>1. TypeOK /\ Position /\ Judgement /\ Ending
  BY DEF GraphInv
<1>2. /\ UNCHANGED <<plan, status, minted, verdicts, report, passed, calls, edit, visit, flag>>
      /\ Claims' = Claims /\ Checked' = Checked /\ Pending' = Pending
      /\ at' \in {"finalize", "end"}
  BY Frames DEF Export, Finalize, progress, draft, review
<1>4. Position'
  BY <1>1, <1>2 DEF Position
<1>5. Judgement'
  BY <1>1, <1>2 DEF Judgement
<1>6. CASE Export
  <2>1. report # <<>> /\ job = "running" /\ reason = "none"
    BY <1>1, <1>6 DEF Export, Position, Drafted, Ending, TypeOK, Terminal
  <2>2. Ending'
    BY <1>6, <2>1 DEF Export, Ending, Fail, Terminal, WiringBugs
  <2> QED BY <1>4, <1>5, <2>2
<1>7. CASE Finalize
  <2>1. job \in Terminal /\ UNCHANGED outcome /\ at' = "end"
    BY <1>1, <1>7 DEF Finalize, Ending
  <2>2. Ending'
    BY <1>1, <2>1 DEF Ending, outcome, Terminal
  <2> QED BY <1>4, <1>5, <2>2
<1> QED BY <1>6, <1>7

LEMMA GraphInvAtFirst == Init => GraphInv
<1> SUFFICES ASSUME Init PROVE GraphInv
  OBVIOUS
<1>1. TypeOK
  BY TypesAtFirst
<1>2. Claims = {} /\ Checked = {} /\ ~Drafted
  BY <1>1, ReportFacts DEF Init, Checked, Drafted
<1>3. Position
  BY <1>2 DEF Init, Position
<1>4. Judgement
  BY <1>2 DEF Init, Judgement
<1>5. Ending
  BY DEF Init, Ending, Terminal, WiringBugs
<1> QED BY <1>1, <1>3, <1>4, <1>5 DEF GraphInv

LEMMA GraphInvIsKept == ASSUME GraphInv, [Next]_vars PROVE GraphInv'
<1>1. TypeOK'
  BY TypesAreKept DEF GraphInv
<1>2. CASE Next
  BY <1>1, <1>2, SupervisorKeeps, PlannerKeeps, ResearcherKeeps, SynthesizerKeeps,
     FactCheckerKeeps, ReflectionKeeps, GateKeeps, EndKeeps
  DEF Next, Agents, ControlFlow, GraphInv
<1>3. CASE UNCHANGED vars
  <2>1. Claims' = Claims /\ Checked' = Checked /\ Pending' = Pending
    BY <1>3, Frames DEF vars
  <2>2. Position'
    BY <1>3, <2>1 DEF vars, progress, draft, review, outcome, GraphInv, Position, Drafted
  <2>3. Judgement'
    BY <1>3, <2>1 DEF vars, progress, draft, review, outcome, GraphInv, Judgement
  <2>4. Ending'
    BY <1>3 DEF vars, progress, draft, review, outcome, GraphInv, Ending
  <2> QED BY <1>1, <2>2, <2>3, <2>4 DEF GraphInv
<1> QED BY <1>2, <1>3

LEMMA GraphInvHolds == Spec => []GraphInv
BY GraphInvAtFirst, GraphInvIsKept, PTL DEF Spec

-----------------------------------------------------------------------------
(***************************************************************************)
(* A reviewer and the export only see drafts every claim of which has a    *)
(* verdict, for every plan, budget and answer of the models.               *)
(***************************************************************************)
THEOREM NothingUnverifiedIsSeen == Spec => []NothingUnverified
<1>1. GraphInv => NothingUnverified
  BY DEF GraphInv, Position, Drafted, NothingUnverified
<1> QED BY <1>1, GraphInvHolds, PTL

(***************************************************************************)
(* No wiring-bug branch of any node is reached, and every job that ends    *)
(* has an outcome and, if it failed, a reason.                             *)
(***************************************************************************)
THEOREM NodesFindTheirInput == Spec => []NoWiringBug
<1>1. ASSUME GraphInv PROVE NoWiringBug
  <2>1. reason \notin WiringBugs /\ (at = "end" => job \in Terminal)
    BY <1>1 DEF GraphInv, Ending
  <2>2. job = "failed" <=> reason # "none"
    BY <1>1 DEF GraphInv, Ending
  <2>3. (job = "failed") = (reason # "none")
    BY <2>2, Zenon
  <2> QED BY <2>1, <2>3 DEF NoWiringBug
<1> QED BY <1>1, GraphInvHolds, PTL

(***************************************************************************)
(* llm_calls_used names a gate visit: it is higher at each one than at the *)
(* visit before.                                                           *)
(***************************************************************************)
THEOREM VisitsHaveNames == Spec => []VisitsAdvance
<1>1. GraphInv => VisitsAdvance
  BY DEF GraphInv, Judgement, TypeOK, VisitsAdvance
<1> QED BY <1>1, GraphInvHolds, PTL

(***************************************************************************)
(* The flag a reviewer reads says what the rubric made of this very draft. *)
(***************************************************************************)
THEOREM FlagsAreCurrent == Spec => []FlagIsOfThisDraft
<1>1. GraphInv => FlagIsOfThisDraft
  BY DEF GraphInv, Judgement, FlagIsOfThisDraft
<1> QED BY <1>1, GraphInvHolds, PTL

(***************************************************************************)
(* An edited draft goes back to the gate or the job fails: no revision and *)
(* no research comes in between.                                           *)
(***************************************************************************)
THEOREM EditsReturn == Spec => EditReturns
<1>1. ASSUME GraphInv, [Next]_vars
      PROVE  [edit =>
                /\ revisions' = revisions
                /\ status' = status
                /\ at' # "researcher"
                /\ (at' = "finalize" =>
                      job' = "failed" \/ at = "human_gate" \/ at = "export")]_vars
  <2> SUFFICES ASSUME Next, edit
               PROVE  /\ revisions' = revisions
                      /\ status' = status
                      /\ at' # "researcher"
                      /\ (at' = "finalize" =>
                            job' = "failed" \/ at = "human_gate" \/ at = "export")
    BY <1>1
  <2>0. TypeOK /\ Position /\ report # <<>> /\ Pending = {} /\ plan # 0
    BY <1>1 DEF GraphInv, Position
  <2>1. CASE Supervisor
    <3>1. AllowedTarget \notin {"researcher", "finalize"}
      BY <2>0 DEF AllowedTarget
    <3>2. UNCHANGED <<revisions, status>>
      BY <2>1 DEF Supervisor, progress, review
    <3>3. at' # "finalize" \/ job' = "failed"
      BY <2>0, <2>1, <3>1, SupervisorEffect DEF Fail, outcome
    <3>4. at' # "researcher"
      BY <2>0, <2>1, <3>1, SupervisorEffect
    <3> QED BY <3>2, <3>3, <3>4
  <2>2. CASE Planner \/ Researcher
    BY <2>0, <2>2 DEF Position, Planner, Researcher
  <2>3. CASE Synthesizer \/ FactChecker
    BY <2>3 DEF Synthesizer, FactChecker, progress, review
  <2>4. CASE Reflection
    <3>1. ToFinalize \/ ToGate
      BY <2>0, <2>4, ReflectionEffect DEF ToRepair, ToResearch, Revises
    <3> QED BY <2>4, <3>1 DEF ToFinalize, ToGate, Fail, outcome
  <2>5. CASE Export \/ Finalize
    BY <2>5 DEF Export, Finalize, progress, review
  <2>6. CASE HumanGate
    BY <2>6 DEF HumanGate, Approve, Reject, Edit, Invalid, progress
  <2> QED BY <2>1, <2>2, <2>3, <2>4, <2>5, <2>6 DEF Next, Agents, ControlFlow
<1> QED BY <1>1, GraphInvHolds, PTL DEF Spec, EditReturns

(***************************************************************************)
(* A subtopic with nothing to find is never researched again, and a        *)
(* revision that researches has something to research and no draft.        *)
(***************************************************************************)
THEOREM ExhaustedStaysExhausted == Spec => EvidenceExhausted
<1>1. ASSUME GraphInv, [Next]_vars
      PROVE  [/\ \A s \in 1..plan : status[s] = "unresearched" => status'[s] = "unresearched"
              /\ (at = "reflection" /\ at' = "researcher" =>
                    report' = <<>> /\ \E s \in 1..plan : status'[s] = "pending")]_vars
  <2> SUFFICES ASSUME Next
               PROVE  /\ \A s \in 1..plan : status[s] = "unresearched" => status'[s] = "unresearched"
                      /\ (at = "reflection" /\ at' = "researcher" =>
                            report' = <<>> /\ \E s \in 1..plan : status'[s] = "pending")
    BY <1>1
  <2>0. TypeOK /\ Position
    BY <1>1 DEF GraphInv
  <2>1. CASE UNCHANGED status /\ at # "reflection"
    BY <2>1
  <2>2. CASE Planner
    <3>1. plan = 0 /\ at = "planner"
      BY <2>0, <2>2 DEF Planner, Position
    <3> QED BY <3>1
  <2>3. CASE Researcher
    <3>1. at = "researcher" /\ Pending # {}
      BY <2>0, <2>3 DEF Researcher, Position
    <3>2. PICK s : s = Min(Pending) /\ VisitOf(s)
      BY <2>0, <2>3, <3>1, ResearcherEffect
    <3>3. Pending \subseteq Nat
      BY DEF Pending
    <3>4. s \in Pending
      BY <3>1, <3>2, <3>3, MinIsIn
    <3>5. status[s] = "pending"
      BY <3>4 DEF Pending
    <3>6. \A t \in 1..plan : t # s => status'[t] = status[t]
      BY <2>0, <3>2 DEF VisitOf, TypeOK
    <3> QED BY <3>1, <3>5, <3>6
  <2>4. CASE Reflection
    <3>1. CASE UNCHANGED status /\ at' # "researcher"
      BY <3>1
    <3>2. CASE ToResearch
      <4>1. PICK t : t \in ThinSubtopics
        BY <3>2 DEF ToResearch
      <4>2. t \in 1..plan /\ status'[t] = "pending" /\ report' = <<>>
        BY <3>2, <4>1, ThinFacts DEF ToResearch
      <4>3. ASSUME NEW s \in 1..plan, status[s] = "unresearched"
            PROVE  status'[s] = "unresearched"
        <5>1. s \notin ThinSubtopics
          BY <4>3, ThinFacts DEF Eligible
        <5> QED BY <3>2, <4>3, <5>1 DEF ToResearch
      <4> QED BY <4>2, <4>3
    <3> QED BY <2>0, <2>4, <3>1, <3>2, ReflectionEffect DEF ToFinalize, ToGate, ToRepair
  <2> QED BY <2>1, <2>2, <2>3, <2>4
          DEF Next, Agents, ControlFlow, Supervisor, Synthesizer, FactChecker, Export, Finalize,
              HumanGate, progress
<1> QED BY <1>1, GraphInvHolds, PTL DEF Spec, EvidenceExhausted

-----------------------------------------------------------------------------
(***************************************************************************)
(* Hops.  What is left of the way to the reviewer never grows by more than *)
(* a revision or an edit adds to the ceiling.                              *)
(***************************************************************************)
LEMMA PendingCount ==
    ASSUME NEW n \in Nat, n <= MaxSubtopics, NEW P, P \subseteq 1..n
    PROVE  /\ IsFiniteSet(P) /\ Cardinality(P) \in Nat /\ Cardinality(P) <= MaxSubtopics
           /\ Cardinality(P) <= n /\ (P = {} <=> Cardinality(P) = 0)
<1>1. IsFiniteSet(1..n) /\ Cardinality(1..n) = n
  BY FS_Interval
<1>2. IsFiniteSet(P) /\ Cardinality(P) <= n /\ Cardinality(P) \in Nat
  BY <1>1, FS_Subset, FS_CardinalityType
<1>3. P = {} <=> Cardinality(P) = 0
  BY <1>2, FS_EmptySet
<1> QED BY <1>2, <1>3, GraphFacts

LEMMA PendingFacts ==
    ASSUME TypeOK
    PROVE  /\ IsFiniteSet(Pending)
           /\ \E c \in Nat : /\ c = Cardinality(Pending) /\ c <= MaxSubtopics
                             /\ (Pending = {} <=> c = 0)
<1>1. PICK n : n = plan
  OBVIOUS
<1>2. PICK P : P = Pending
  OBVIOUS
<1>3. n \in Nat /\ n <= MaxSubtopics /\ P \subseteq 1..n
  BY <1>1, <1>2, GraphFacts DEF TypeOK, Pending
<1> QED BY <1>2, <1>3, PendingCount

LEMMA PendingFactsAfter ==
    ASSUME TypeOK'
    PROVE  \E c \in Nat : /\ c = Cardinality(Pending') /\ c <= MaxSubtopics
                          /\ (Pending' = {} <=> c = 0)
<1>1. PICK n : n = plan'
  OBVIOUS
<1>2. PICK P : P = Pending'
  OBVIOUS
<1>3. n \in Nat /\ n <= MaxSubtopics /\ P \subseteq 1..n
  BY <1>1, <1>2, GraphFacts DEF TypeOK, Pending
<1> QED BY <1>2, <1>3, PendingCount

LEMMA VisitedPending ==
    ASSUME TypeOK, NEW s, s \in Pending, UNCHANGED plan,
           NEW st, st # "pending", status' = [status EXCEPT ![s] = st]
    PROVE  Cardinality(Pending') = Cardinality(Pending) - 1
<1>1. PICK P : P = Pending
  OBVIOUS
<1>2. PICK Q : Q = Pending'
  OBVIOUS
<1>3. Q = P \ {s}
  BY <1>1, <1>2 DEF Pending, TypeOK
<1>4. IsFiniteSet(P) /\ s \in P
  BY <1>1, PendingFacts
<1>5. Cardinality(P \ {s}) = Cardinality(P) - 1
  BY <1>4, FS_RemoveElement
<1> QED BY <1>1, <1>2, <1>3, <1>5

LEMMA CeilingGrows ==
    ASSUME NEW r \in Nat, NEW e \in Nat
    PROVE  /\ HopCeiling(r, e) \in Nat
           /\ HopCeiling(r + 1, e) = HopCeiling(r, e) + MaxSubtopics + 1
           /\ HopCeiling(r, e + 1) = HopCeiling(r, e) + 1
<1>0. MaxSubtopics \in Nat
  BY GraphFacts
<1>1. PICK a \in Nat : a = (MaxSubtopics + 1) * r
  BY <1>0
<1>2. (MaxSubtopics + 1) * (r + 1) = a + MaxSubtopics + 1
  BY <1>0, <1>1
<1> QED BY <1>0, <1>1, <1>2 DEF HopCeiling

LEMMA LeftFacts ==
    ASSUME TypeOK
    PROVE  \E a \in Nat : HopsLeft = a /\ (at = "supervisor" /\ job # "failed" => a >= 1)
<1>1. PICK c \in Nat : c = Cardinality(Pending)
  BY PendingFacts
<1>2. HopsLeft \in Nat /\ (at = "supervisor" /\ job # "failed" => HopsLeft >= 1)
  BY <1>1, GraphFacts DEF HopsLeft
<1> QED BY <1>2

LEMMA Bounded ==
    ASSUME NEW h \in Nat, NEW g \in Nat, NEW a \in Nat, NEW b \in Nat, NEW c \in Nat,
           g + b <= h + a, h + a <= c
    PROVE  g + b <= c
OBVIOUS

LEMMA CountedKeeps ==
    ASSUME TypeOK, TypeOK', HopsAreCounted,
           NEW a \in Nat, HopsLeft = a, NEW b \in Nat, HopsLeft' = b,
           UNCHANGED <<revisions, edits>>, hops' + b <= hops + a,
           reason' # "hop_limit_exceeded" \/ UNCHANGED reason
    PROVE  HopsAreCounted'
<1>1. PICK r \in Nat, e \in Nat : r = revisions /\ e = edits
  BY DEF TypeOK
<1>2. /\ r <= MaxRevisions /\ hops + a <= HopCeiling(r, e)
      /\ reason = "hop_limit_exceeded" => MaxHops < HopCeiling(r, e)
  BY <1>1 DEF HopsAreCounted
<1>3. hops' + b <= HopCeiling(r, e)
  <2>1. HopCeiling(r, e) \in Nat
    BY CeilingGrows
  <2>2. PICK h \in Nat, g \in Nat : h = hops /\ g = hops'
    BY DEF TypeOK
  <2>3. g + b <= h + a /\ h + a <= HopCeiling(r, e)
    BY <1>2, <2>2, Zenon
  <2>4. g + b <= HopCeiling(r, e)
    BY <2>1, <2>3, Bounded
  <2> QED BY <2>2, <2>4, Zenon
<1> QED BY <1>1, <1>2, <1>3 DEF HopsAreCounted

LEMMA SupervisorCounts ==
    ASSUME GraphInv, HopsAreCounted, Supervisor, TypeOK'
    PROVE  HopsAreCounted'
<1>1. /\ at = "supervisor" /\ UNCHANGED <<plan, status, report, revisions, edits>> /\ Pending' = Pending
      /\ TypeOK /\ hops \in Nat /\ hops' \in Nat
  BY SupervisorEffect, Frames DEF GraphInv, progress, draft, review, TypeOK
<1>2. PICK a \in Nat : HopsLeft = a /\ (job # "failed" => a >= 1)
  BY <1>1, LeftFacts
<1>3. CASE at' = "finalize" /\ job = "failed" /\ hops' = hops /\ UNCHANGED outcome
  <2>1. HopsLeft' = 0 /\ hops' + 0 <= hops + a
    BY <1>1, <1>3 DEF HopsLeft
  <2> QED BY <1>1, <1>2, <1>3, <2>1, CountedKeeps DEF outcome
<1>4. CASE at' = "finalize" /\ job # "failed" /\ hops' = hops + 1
  <2>1. HopsLeft' = 0 /\ hops' + 0 <= hops + a
    BY <1>1, <1>2, <1>4 DEF HopsLeft
  <2>2. CASE reason' # "hop_limit_exceeded"
    <3>1. PICK b \in Nat : b = 0
      OBVIOUS
    <3> QED BY <1>1, <1>2, <2>1, <2>2, <3>1, CountedKeeps
  <2>3. CASE hops >= MaxHops
    <3>1. PICK r \in Nat, e \in Nat : r = revisions /\ e = edits
      BY <1>1 DEF TypeOK
    <3>2. r <= MaxRevisions /\ hops + a <= HopCeiling(r, e)
      BY <1>2, <3>1 DEF HopsAreCounted
    <3>3. HopCeiling(r, e) \in Nat
      BY CeilingGrows
    <3>4. MaxHops < HopCeiling(r, e) /\ hops' + 0 <= HopCeiling(r, e)
      BY <1>1, <1>2, <1>4, <2>1, <2>3, <3>2, <3>3, GraphFacts
    <3> QED BY <1>1, <2>1, <3>1, <3>2, <3>4 DEF HopsAreCounted
  <2>4. reason' # "hop_limit_exceeded" \/ hops >= MaxHops
    <3>1. AllowedTarget # "finalize"
      BY TargetFacts
    <3> QED BY <1>1, <1>4, <3>1, SupervisorEffect DEF Fail, CallReasons
  <2> QED BY <2>2, <2>3, <2>4
<1>5. CASE /\ job # "failed" /\ at' = AllowedTarget /\ AllowedTarget # "none"
           /\ hops' = hops + 1 /\ UNCHANGED outcome
  <2>1. PICK c \in Nat : c = Cardinality(Pending)
    BY <1>1, PendingFacts
  <2>2. \E b \in Nat : HopsLeft' = b /\ b + 1 <= HopsLeft
    <3>1. CASE plan = 0
      <4>1. MaxSubtopics + 2 = HopsLeft' /\ HopsLeft = MaxSubtopics + 3
        BY <1>1, <1>5, <3>1 DEF HopsLeft, AllowedTarget
      <4> QED BY <4>1, GraphFacts
    <3>2. CASE plan # 0 /\ Pending # {}
      <4>1. c + 1 = HopsLeft' /\ HopsLeft = c + 2
        BY <1>1, <1>5, <2>1, <3>2 DEF HopsLeft, AllowedTarget
      <4> QED BY <4>1
    <3>3. CASE plan # 0 /\ Pending = {} /\ report = <<>>
      <4>1. 1 = HopsLeft' /\ HopsLeft = 2
        BY <1>1, <1>5, <3>3 DEF HopsLeft, AllowedTarget
      <4> QED BY <4>1
    <3>4. CASE plan # 0 /\ Pending = {} /\ report # <<>>
      <4>1. 0 = HopsLeft' /\ HopsLeft = 1
        BY <1>1, <1>5, <3>4 DEF HopsLeft, AllowedTarget
      <4> QED BY <4>1
    <3> QED BY <3>1, <3>2, <3>3, <3>4
  <2>3. PICK b \in Nat : HopsLeft' = b /\ b + 1 <= a
    BY <1>2, <2>2
  <2>4. hops' + b <= hops + a
    BY <1>1, <1>5, <2>3
  <2> QED BY <1>1, <1>2, <1>5, <2>3, <2>4, CountedKeeps DEF outcome
<1> QED BY <1>1, <1>3, <1>4, <1>5, SupervisorEffect

LEMMA PlannerCounts ==
    ASSUME GraphInv, HopsAreCounted, Planner, TypeOK'
    PROVE  HopsAreCounted'
<1>1. /\ TypeOK /\ at = "planner" /\ at' = "supervisor" /\ report' = <<>> /\ job # "failed"
      /\ UNCHANGED <<hops, revisions, edits>> /\ hops \in Nat
  BY DEF GraphInv, Planner, Position, Ending, draft, review, TypeOK
<1>2. PICK c \in Nat : c = Cardinality(Pending') /\ c <= MaxSubtopics
  BY PendingFactsAfter
<1>3. MaxSubtopics + 2 = HopsLeft /\ MaxSubtopics + 2 \in Nat
  BY <1>1, GraphFacts DEF HopsLeft
<1>4. \E b \in Nat : HopsLeft' = b /\ b <= MaxSubtopics + 2
  <2>1. job' # "failed" => plan' # 0
    BY GraphFacts DEF Planner, Fail
  <2>2. HopsLeft' \in {0, 2, c + 2}
    BY <1>1, <1>2, <2>1 DEF HopsLeft
  <2> QED BY <1>2, <2>2, GraphFacts
<1>5. reason' # "hop_limit_exceeded" \/ UNCHANGED reason
  <2>1. ASSUME NEW why \in Reasons, AnyFailure(why), Fail(why)
        PROVE  why \in CallReasons
    BY <1>1, <2>1, FatalEffect, GraphFacts DEF TypeOK
  <2> QED BY <2>1 DEF Planner, Fail, CallReasons, outcome
<1>6. PICK b \in Nat : HopsLeft' = b /\ b <= MaxSubtopics + 2
  BY <1>4
<1>7. hops' + b <= hops + (MaxSubtopics + 2)
  BY <1>1, <1>6, GraphFacts
<1> QED BY <1>1, <1>3, <1>5, <1>6, <1>7, CountedKeeps

LEMMA ResearcherCounts ==
    ASSUME GraphInv, HopsAreCounted, Researcher, TypeOK'
    PROVE  HopsAreCounted'
<1>1. /\ TypeOK /\ at = "researcher" /\ at' = "supervisor" /\ Pending # {}
      /\ report = <<>> /\ job # "failed" /\ UNCHANGED <<plan, report, hops, revisions, edits>>
      /\ hops \in Nat
  BY DEF GraphInv, Researcher, Position, Ending, draft, review, TypeOK
<1>2. PICK c \in Nat : c = Cardinality(Pending) /\ c # 0
  BY <1>1, PendingFacts
<1>3. HopsLeft = c + 1 /\ c + 1 \in Nat
  BY <1>1, <1>2 DEF HopsLeft
<1>4. PICK s : s = Min(Pending) /\ VisitOf(s)
  BY <1>1, ResearcherEffect
<1>5. s \in Pending
  <2>1. Pending \subseteq Nat
    BY DEF Pending
  <2> QED BY <1>1, <1>4, <2>1, MinIsIn
<1>6. reason' # "hop_limit_exceeded" \/ UNCHANGED reason
  BY <1>4 DEF VisitOf, Fail, CallReasons, outcome
<1>7. CASE UNCHANGED status /\ job' = "failed"
  <2>1. HopsLeft' = 0
    BY <1>1, <1>7 DEF HopsLeft
  <2>2. PICK b \in Nat : b = 0
    OBVIOUS
  <2>3. hops' + 0 <= hops + (c + 1)
    BY <1>1, <1>2
  <2> QED BY <1>1, <1>3, <1>6, <2>1, <2>2, <2>3, CountedKeeps
<1>8. CASE \E st \in {"done", "unresearched"} : status' = [status EXCEPT ![s] = st]
  <2>1. Cardinality(Pending') = c - 1
    BY <1>1, <1>2, <1>5, <1>8, VisitedPending
  <2>2. plan # 0 /\ report' = <<>> /\ plan' # 0
    BY <1>1 DEF Pending, TypeOK
  <2>3. HopsLeft' \in {0, 2, (c - 1) + 2}
    BY <1>1, <2>1, <2>2 DEF HopsLeft
  <2>4. PICK b \in Nat : HopsLeft' = b /\ b <= c + 1
    BY <1>2, <2>3
  <2>5. hops' + b <= hops + (c + 1)
    BY <1>1, <1>2, <2>4
  <2> QED BY <1>1, <1>3, <1>6, <2>4, <2>5, CountedKeeps
<1> QED BY <1>4, <1>7, <1>8 DEF VisitOf, Fail

LEMMA SynthesizerCounts ==
    ASSUME GraphInv, HopsAreCounted, Synthesizer, TypeOK'
    PROVE  HopsAreCounted'
<1>1. /\ TypeOK /\ at = "synthesizer" /\ at' = "supervisor" /\ Pending = {} /\ plan # 0
      /\ UNCHANGED <<plan, status, hops, revisions, edits>> /\ Pending' = Pending /\ hops \in Nat
  BY Frames DEF GraphInv, Synthesizer, Position, progress, review, TypeOK
<1>2. HopsLeft = 1
  BY <1>1 DEF HopsLeft
<1>3. job' = "failed" \/ report' # <<>>
  BY <1>1, SynthesizerEffect, FreshEffect DEF Fail
<1>4. HopsLeft' \in {0, 1}
  BY <1>1, <1>3 DEF HopsLeft
<1>5. PICK b \in Nat : HopsLeft' = b /\ b <= 1
  BY <1>4
<1>6. hops' + b <= hops + 1
  BY <1>1, <1>5
<1>7. reason' # "hop_limit_exceeded" \/ UNCHANGED reason
  BY <1>1, SynthesizerEffect DEF Fail, CallReasons, outcome
<1>8. PICK a \in Nat : HopsLeft = a /\ a = 1
  BY <1>2
<1> QED BY <1>1, <1>5, <1>6, <1>7, <1>8, CountedKeeps

(***************************************************************************)
(* Away from the Supervisor's loop nothing is left to count: no hop is     *)
(* taken there, and only a revision or an edit re-enters the loop.         *)
(***************************************************************************)
LEMMA RestCounts ==
    ASSUME TypeOK, TypeOK', HopsAreCounted, UNCHANGED <<hops, revisions, edits>>,
           HopsLeft' = 0, reason' # "hop_limit_exceeded" \/ UNCHANGED reason
    PROVE  HopsAreCounted'
<1>1. PICK a \in Nat : HopsLeft = a
  BY LeftFacts
<1>2. PICK b \in Nat : b = 0
  OBVIOUS
<1>3. hops' + b <= hops + a
  BY <1>1, <1>2 DEF TypeOK
<1> QED BY <1>1, <1>2, <1>3, CountedKeeps

LEMMA OthersCount ==
    ASSUME GraphInv, HopsAreCounted, FactChecker \/ Export \/ Finalize, TypeOK'
    PROVE  HopsAreCounted'
<1>1. /\ TypeOK /\ UNCHANGED <<hops, revisions, edits>> /\ at' \in {"reflection", "finalize", "end"}
  BY DEF GraphInv, FactChecker, Export, Finalize, review
<1>2. HopsLeft' = 0
  BY <1>1 DEF HopsLeft
<1>3. CASE FactChecker
  BY <1>1, <1>2, <1>3, FactCheckerEffect, RestCounts DEF Fail, CallReasons, outcome
<1>4. CASE Export \/ Finalize
  BY <1>1, <1>2, <1>4, RestCounts DEF Export, Finalize, Fail, outcome
<1> QED BY <1>3, <1>4

LEMMA ReflectionCounts ==
    ASSUME GraphInv, HopsAreCounted, Reflection, TypeOK'
    PROVE  HopsAreCounted'
<1>1. TypeOK /\ at = "reflection" /\ UNCHANGED <<plan, hops, edits>> /\ hops \in Nat
  BY ReflectionEffect DEF GraphInv, TypeOK
<1>2. reason' # "hop_limit_exceeded" \/ UNCHANGED reason
  BY <1>1, ReflectionEffect
  DEF ToFinalize, ToGate, ToRepair, ToResearch, Revises, Fail, CallReasons, outcome
<1>3. CASE ToFinalize \/ ToGate
  <2>1. HopsLeft' = 0 /\ UNCHANGED revisions
    BY <1>3 DEF ToFinalize, ToGate, HopsLeft
  <2> QED BY <1>1, <1>2, <2>1, RestCounts
<1>4. CASE ToRepair \/ ToResearch
  <2>1. HopsLeft = 0 /\ revisions' = revisions + 1 /\ revisions < MaxRevisions
    BY <1>1, <1>4, GraphFacts DEF HopsLeft, ToRepair, ToResearch, Revises, TypeOK
  <2>2. PICK c \in Nat : c = Cardinality(Pending') /\ c <= MaxSubtopics
    BY PendingFactsAfter
  <2>3. HopsLeft' \in {0, 1, c + 1}
    BY <1>4, <2>2 DEF HopsLeft, ToRepair, ToResearch
  <2>4. PICK b \in Nat : HopsLeft' = b /\ b <= MaxSubtopics + 1
    BY <2>2, <2>3, GraphFacts
  <2>5. PICK r \in Nat, e \in Nat, h \in Nat : r = revisions /\ e = edits /\ h = hops
    BY <1>1 DEF TypeOK
  <2>6. PICK a \in Nat : a = 0 /\ HopsLeft = a
    BY <2>1
  <2>7. h + a <= HopCeiling(r, e) /\ r + 1 <= MaxRevisions
    BY <2>1, <2>5, <2>6, GraphFacts DEF HopsAreCounted
  <2>8. HopCeiling(r + 1, e) = HopCeiling(r, e) + MaxSubtopics + 1 /\ HopCeiling(r, e) \in Nat
    BY CeilingGrows
  <2>9. h + b <= HopCeiling(r + 1, e)
    <3>1. PICK k \in Nat : k = HopCeiling(r, e)
      BY <2>8
    <3>2. h <= k /\ b <= MaxSubtopics + 1
      BY <2>4, <2>6, <2>7, <3>1
    <3>3. h + b <= k + MaxSubtopics + 1
      BY <3>2, GraphFacts
    <3> QED BY <2>8, <3>1, <3>3
  <2>10. reason' = "hop_limit_exceeded" => MaxHops < HopCeiling(r + 1, e)
    <3>1. reason' = "hop_limit_exceeded" => MaxHops < HopCeiling(r, e)
      BY <1>2, <2>5 DEF HopsAreCounted
    <3> QED BY <2>8, <3>1, GraphFacts
  <2> QED BY <1>1, <2>1, <2>4, <2>5, <2>7, <2>9, <2>10 DEF HopsAreCounted
<1> QED BY <1>1, <1>3, <1>4, ReflectionEffect

LEMMA GateCounts ==
    ASSUME GraphInv, HopsAreCounted, HumanGate, TypeOK'
    PROVE  HopsAreCounted'
<1>1. TypeOK /\ at = "human_gate" /\ UNCHANGED <<hops, revisions>> /\ hops \in Nat
  BY DEF GraphInv, HumanGate, TypeOK
<1>2. reason' # "hop_limit_exceeded" \/ UNCHANGED reason
  BY DEF HumanGate, Approve, Reject, Edit, Invalid, Fail, outcome
<1>3. CASE at' # "synthesizer"
  <2>1. HopsLeft' = 0 /\ UNCHANGED edits
    BY <1>3 DEF HumanGate, Approve, Reject, Edit, Invalid, HopsLeft
  <2> QED BY <1>1, <1>2, <2>1, RestCounts
<1>4. CASE at' = "synthesizer"
  <2>1. HopsLeft = 0 /\ HopsLeft' = 1 /\ edits' = edits + 1
    BY <1>1, <1>4 DEF HopsLeft, HumanGate, Approve, Reject, Edit, Invalid
  <2>2. PICK r \in Nat, e \in Nat, h \in Nat : r = revisions /\ e = edits /\ h = hops
    BY <1>1 DEF TypeOK
  <2>3. PICK a \in Nat : a = 0 /\ HopsLeft = a
    BY <2>1
  <2>4. r <= MaxRevisions /\ h + a <= HopCeiling(r, e)
    BY <2>2, <2>3 DEF HopsAreCounted
  <2>5. HopCeiling(r, e + 1) = HopCeiling(r, e) + 1 /\ HopCeiling(r, e) \in Nat
    BY CeilingGrows
  <2>6. h + 1 <= HopCeiling(r, e + 1)
    BY <2>3, <2>4, <2>5
  <2>7. reason' = "hop_limit_exceeded" => MaxHops < HopCeiling(r, e + 1)
    <3>1. reason' = "hop_limit_exceeded" => MaxHops < HopCeiling(r, e)
      BY <1>2, <2>2 DEF HopsAreCounted
    <3> QED BY <2>5, <3>1, GraphFacts
  <2> QED BY <1>1, <2>1, <2>2, <2>4, <2>6, <2>7 DEF HopsAreCounted
<1> QED BY <1>3, <1>4

(***************************************************************************)
(* The hop ceiling of docs/adr/0006 is what the routing earns, for however *)
(* many edits the gate takes, and a guard that is not below what a job has *)
(* earned never stops it.                                                  *)
(***************************************************************************)
THEOREM HopsStayUnderTheCeiling == Spec => []HopsAreEarned
<1>1. Init => HopsAreCounted
  <2> SUFFICES ASSUME Init PROVE HopsAreCounted
    OBVIOUS
  <2>1. HopsLeft = MaxSubtopics + 3
    BY DEF Init, HopsLeft
  <2> QED BY <2>1, GraphFacts DEF Init, HopsAreCounted, HopCeiling
<1>2. ASSUME GraphInv, GraphInv', HopsAreCounted, [Next]_vars PROVE HopsAreCounted'
  <2>0. TypeOK /\ TypeOK'
    BY <1>2 DEF GraphInv
  <2>1. CASE Next
    BY <1>2, <2>0, <2>1, SupervisorCounts, PlannerCounts, ResearcherCounts, SynthesizerCounts,
       OthersCount, ReflectionCounts, GateCounts
    DEF Next, Agents, ControlFlow
  <2>2. CASE UNCHANGED vars
    <3>1. Pending' = Pending
      BY <2>2, Frames DEF vars
    <3>2. HopsLeft' = HopsLeft
      BY <2>2, <3>1 DEF vars, progress, draft, outcome, HopsLeft
    <3> QED BY <1>2, <2>2, <3>2 DEF vars, review, outcome, HopsAreCounted
  <2> QED BY <1>2, <2>1, <2>2
<1>3. ASSUME GraphInv, HopsAreCounted PROVE HopsAreEarned
  <2>1. PICK a \in Nat : HopsLeft = a
    BY <1>3, LeftFacts DEF GraphInv
  <2>2. PICK r \in Nat, e \in Nat, h \in Nat : r = revisions /\ e = edits /\ h = hops
    BY <1>3 DEF GraphInv, TypeOK
  <2>3. r <= MaxRevisions /\ h + a <= HopCeiling(r, e)
    BY <1>3, <2>1, <2>2 DEF HopsAreCounted
  <2>4. HopCeiling(r, e) \in Nat
    BY CeilingGrows
  <2>5. h <= HopCeiling(r, e)
    BY <2>3, <2>4
  <2>6. MaxHops >= HopCeiling(r, e) => reason # "hop_limit_exceeded"
    BY <1>3, <2>2, <2>4, GraphFacts DEF HopsAreCounted
  <2> QED BY <2>2, <2>3, <2>5, <2>6 DEF HopsAreEarned
<1> QED BY <1>1, <1>2, <1>3, GraphInvHolds, PTL DEF Spec
=============================================================================
