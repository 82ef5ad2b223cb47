--------------------------- MODULE ResearchGraph ---------------------------
(***************************************************************************)
(* One job's research graph between two super-steps: the Supervisor, the   *)
(* agents, reflection, the gate and the end (graph/build.py, agents/,      *)
(* graph/reflection.py).  LangGraph runs one node at a time and checkpoints *)
(* after it, so a node is one action, and a node that a crash re-runs      *)
(* starts from the same state again.  What an LLM answers is chosen, what  *)
(* the code does with the answer is not.                                   *)
(***************************************************************************)
EXTENDS Rubric, Sequences, FiniteSetsExt

CONSTANTS
    MinSubtopics, MaxSubtopics, \* how many subtopics a plan has (schemas.ResearchPlan)
    MaxHops,                    \* max_supervisor_hops
    MaxCalls,                   \* max_llm_calls_per_job
    MaxRevisions,               \* max_revisions
    EditCost,                   \* EDIT_CALL_COST
    Attempts,                   \* requests one structured call may send, at most
    PagesPerVisit,              \* MAX_LLM_CALLS_PER_SUBTOPIC
    MaxClaims,                  \* claims in one draft (a bound of the exploration)
    Rubrics                     \* the score vectors the model may return

ASSUME GraphAssumption ==
    /\ MinSubtopics \in Nat \ {0} /\ MaxSubtopics \in Nat /\ MinSubtopics <= MaxSubtopics
    /\ MaxHops \in Nat /\ MaxCalls \in Nat /\ MaxRevisions \in Nat
    /\ EditCost \in Nat \ {0} /\ Attempts \in Nat \ {0}
    /\ PagesPerVisit \in Nat /\ MaxClaims \in Nat \ {0}
    /\ Rubrics \subseteq Scores

VARIABLES
    at,         \* the node that runs next, or "end"
    plan,       \* how many subtopics are planned; 0 while state["plan"] is None
    status,     \* subtopic_status, by position in the plan
    urls,       \* distinct source URLs among the findings of each subtopic
    report,     \* the claim ids of the current draft, in order; empty while it is None
    minted,     \* claim ids given out so far: uuid4 never repeats one
    verdicts,   \* every verdict of every pass, in order
    flag,       \* quality_flag
    revisions, hops, calls,     \* revision_count, hop_count, llm_calls_used
    edit,       \* is an edit in flight (reviewer_edit_text is not None)?
    edits,      \* history: edits the gate has taken
    job, reason,                \* status, failure_reason
    visit,      \* history: llm_calls_used at the last gate visit
    passed      \* history: minted when the rubric last passed a draft

progress == <<plan, status, urls>>
draft == <<report, minted, verdicts>>
review == <<flag, revisions, edit, edits, visit, passed>>
outcome == <<job, reason>>
vars == <<at, progress, draft, review, hops, calls, outcome>>

Nodes == {"supervisor", "planner", "researcher", "synthesizer", "fact_checker", "reflection",
          "human_gate", "export", "finalize", "end"}
SubtopicStatus == {"pending", "done", "unresearched"}
Flags == {"none", "below_threshold", "unscored"}
Terminal == {"approved", "rejected", "failed"}
Reasons == {"none", "hop_limit_exceeded", "budget_exceeded", "no_valid_transition",
            "rate_limited", "llm_call_failed", "invalid_plan", "no_pending_subtopic",
            "no_findings", "report_rejected", "no_report_to_check", "no_report_to_score",
            "no_report_to_export", "export_write_failed", "invalid_gate_decision",
            "no_terminal_status", "unrecorded_failure"}

(***************************************************************************)
(* What one structured call does to the counter: it sends one request or   *)
(* more; it runs into the limit only if some attempt of it would pass it.  *)
(***************************************************************************)
(* mutant: attempts are sent without asking the budget.                    *)
SpentUnasked(least, most) == calls + least .. calls + most

Spent(least, most) == { n \in calls + least .. calls + most : n <= MaxCalls }

(* mutant: only a request that succeeds is counted.                        *)
CallAnswersUncounted == calls' \in Spent(0, Attempts)

CallAnswers == calls' \in Spent(1, Attempts)

CallHitsLimit(most) == calls + most > MaxCalls /\ calls' = MaxCalls

(***************************************************************************)
(* JOB_FATAL_REASONS end a job at any node; other failures of a call end   *)
(* it only at the nodes that need its answer.                              *)
(***************************************************************************)
FatalReason(why, most) ==
    \/ why = "rate_limited" /\ calls' \in Spent(1, most)
    \/ why = "budget_exceeded" /\ CallHitsLimit(most)

AnyFailure(why) == FatalReason(why, Attempts) \/ (why = "llm_call_failed" /\ CallAnswers)

Fail(why) == job' = "failed" /\ reason' = why

Claims == { report[i] : i \in DOMAIN report }

Checked == { verdicts[i].claim : i \in DOMAIN verdicts }

Pending == { s \in 1..plan : status[s] = "pending" }

(***************************************************************************)
(* The one target the state allows, "none" when no row applies.            *)
(***************************************************************************)
AllowedTarget ==
    IF plan = 0 THEN "planner"
    ELSE IF Pending # {} THEN "researcher"
    ELSE IF report = <<>> THEN "synthesizer"
    ELSE IF ~ Claims \subseteq Checked THEN "fact_checker"
    ELSE "none"

(***************************************************************************)
(* The Supervisor.  Guards first, then the state's own route; the advisory *)
(* call is made after the route is known and only a fatal failure of it    *)
(* matters.                                                                *)
(***************************************************************************)
Stop(why) ==
    /\ at' = "finalize"
    /\ hops' = hops + 1
    /\ Fail(why)
    /\ UNCHANGED calls

Route ==
    /\ hops < MaxHops
    /\ calls < MaxCalls
    /\ AllowedTarget # "none"
    /\ hops' = hops + 1
    /\ \/ CallAnswers /\ at' = AllowedTarget /\ UNCHANGED outcome
       \/ \E why \in Reasons : FatalReason(why, Attempts) /\ Fail(why) /\ at' = "finalize"

DecideNext ==
    \/ hops >= MaxHops /\ Stop("hop_limit_exceeded")
    \/ hops < MaxHops /\ calls >= MaxCalls /\ Stop("budget_exceeded")
    \/ /\ hops < MaxHops /\ calls < MaxCalls /\ AllowedTarget = "none"
       /\ Stop("no_valid_transition")
    \/ Route

(* mutant: a job that has failed is left where it is.                      *)
GoToFinalizeStays == UNCHANGED <<at, hops, calls, outcome>>

GoToFinalize ==
    /\ at' = "finalize"
    /\ UNCHANGED <<hops, calls, outcome>>

Supervisor ==
    /\ at = "supervisor"
    /\ IF job = "failed" THEN GoToFinalize ELSE DecideNext
    /\ UNCHANGED <<progress, draft, review>>

(***************************************************************************)
(* The Planner: a plan with every subtopic pending, or a failed job (the   *)
(* call failed, or two subtopics share an id).                             *)
(***************************************************************************)
Planner ==
    /\ at = "planner"
    /\ at' = "supervisor"
    /\ \/ \E n \in MinSubtopics..MaxSubtopics :
            /\ CallAnswers
            /\ plan' = n
            /\ status' = [s \in 1..n |-> "pending"]
            /\ urls' = [s \in 1..n |-> 0]
            /\ UNCHANGED outcome
       \/ /\ CallAnswers /\ Fail("invalid_plan")
          /\ UNCHANGED progress
       \/ /\ \E why \in Reasons : AnyFailure(why) /\ Fail(why)
          /\ UNCHANGED progress
    /\ UNCHANGED <<draft, review, hops>>

(***************************************************************************)
(* The Researcher: one visit to the first pending subtopic in plan order.  *)
(* It reads pages pages, one extraction call each; found says whether any  *)
(* yielded a finding and fresh how many new source URLs the findings have  *)
(* (a redirect may land on a known one).  A fatal failure keeps what was   *)
(* found and leaves the subtopic pending.                                  *)
(***************************************************************************)
Visit(s, pages, found, fresh) ==
    /\ fresh <= pages
    /\ fresh > 0 => found
    /\ found => pages > 0 /\ (fresh > 0 \/ urls[s] > 0)
    /\ urls' = [urls EXCEPT ![s] = @ + fresh]
    /\ \/ /\ calls' \in Spent(pages, pages * Attempts)
          /\ status' = [status EXCEPT ![s] = IF found THEN "done" ELSE "unresearched"]
          /\ UNCHANGED outcome
       \/ /\ pages > 0 /\ (found => pages > 1)
          /\ \E why \in Reasons : FatalReason(why, pages * Attempts) /\ Fail(why)
          /\ UNCHANGED status

Researcher ==
    /\ at = "researcher"
    /\ at' = "supervisor"
    /\ IF Pending = {}
       THEN Fail("no_pending_subtopic") /\ UNCHANGED <<calls, status, urls>>
       ELSE \E pages \in 0..PagesPerVisit, found \in BOOLEAN, fresh \in 0..PagesPerVisit :
                Visit(Min(Pending), pages, found, fresh)
    /\ UNCHANGED <<plan, draft, review, hops>>

(***************************************************************************)
(* The Synthesizer: a draft with freshly minted claim ids, or a failed job *)
(* (nothing found, the call failed, the draft cites unknown findings or    *)
(* nothing at all).                                                        *)
(***************************************************************************)
NoFindings == \A s \in 1..plan : urls[s] = 0

(* mutant: the model's own numbering, which starts from 1 on every pass.   *)
FreshIdsReused(n) == [i \in 1..n |-> i]

FreshIds(n) == [i \in 1..n |-> minted + i]

WriteReport ==
    \/ /\ NoFindings /\ Fail("no_findings")
       /\ UNCHANGED <<calls, report, minted>>
    \/ /\ ~NoFindings /\ CallAnswers
       /\ \E n \in 1..MaxClaims : report' = FreshIds(n) /\ minted' = minted + n
       /\ UNCHANGED outcome
    \/ /\ ~NoFindings /\ CallAnswers /\ Fail("report_rejected")
       /\ UNCHANGED <<report, minted>>
    \/ /\ ~NoFindings
       /\ \E why \in Reasons : AnyFailure(why) /\ Fail(why)
       /\ UNCHANGED <<report, minted>>

Synthesizer ==
    /\ at = "synthesizer"
    /\ at' = "supervisor"
    /\ WriteReport
    /\ UNCHANGED <<progress, verdicts, review, hops>>

(***************************************************************************)
(* The Fact-Checker: one verdict for every claim of the draft, in report   *)
(* order.  With no readable source every claim is unsupported and no call  *)
(* is made.                                                                *)
(***************************************************************************)
(* mutant: a claim the model's batch left out gets no verdict.             *)
VerdictsOfBatch(supported) ==
    [ i \in 1..Cardinality(supported) |-> [claim |-> report[i], supported |-> TRUE] ]

VerdictsFor(supported) ==
    [ i \in DOMAIN report |-> [claim |-> report[i], supported |-> report[i] \in supported] ]

CheckReport ==
    \/ /\ report = <<>> /\ Fail("no_report_to_check")
       /\ UNCHANGED <<calls, verdicts>>
    \/ /\ report # <<>>
       /\ verdicts' = verdicts \o VerdictsFor({})
       /\ UNCHANGED <<calls, outcome>>
    \/ /\ report # <<>> /\ CallAnswers
       /\ \E supported \in SUBSET Claims :
              verdicts' = verdicts \o VerdictsFor(supported)
       /\ UNCHANGED outcome
    \/ /\ report # <<>>
       /\ \E why \in Reasons : AnyFailure(why) /\ Fail(why)
       /\ UNCHANGED verdicts

FactChecker ==
    /\ at = "fact_checker"
    /\ at' = "reflection"
    /\ CheckReport
    /\ UNCHANGED <<progress, report, minted, review, hops>>

(***************************************************************************)
(* _thin_subtopics: those worth another visit.  A subtopic already marked  *)
(* unresearched is not; otherwise the ones below two sources, or, if every *)
(* one has two, those with the fewest.                                     *)
(***************************************************************************)
(* mutant: an unresearched subtopic is the thinnest there is.              *)
EligibleAny == 1..plan

Eligible == { s \in 1..plan : status[s] # "unresearched" }

ThinSubtopics ==
    LET thin == { s \in Eligible : urls[s] < 2 }
    IN  IF thin # {} THEN thin
        ELSE { s \in Eligible : \A t \in Eligible : urls[s] <= urls[t] }

(***************************************************************************)
(* Reflection.  A pass, the cap and an edited draft go to the gate; what   *)
(* else fails starts a revision at the node that repairs it, and a revision *)
(* that researches drops the draft.  A rubric that could not be run keeps  *)
(* the draft and says so; a fatal failure ends the job.                    *)
(***************************************************************************)
(* mutant: an edited draft is treated as any other.                        *)
GateRouteEditsToo(s) == Passed(s) \/ revisions >= MaxRevisions

GateRoute(s) == Passed(s) \/ revisions >= MaxRevisions \/ edit

ScoredRoute(s) == IF GateRoute(s) THEN "human_gate" ELSE RouteFor(s, ThinSubtopics # {})

(* mutant: a draft is sent back without counting it.                       *)
NextRevisionUncounted == revisions

NextRevision == revisions + 1

Scored(s) ==
    /\ CallAnswers
    /\ at' = ScoredRoute(s)
    /\ passed' = IF Passed(s) THEN minted ELSE passed
    /\ IF at' = "human_gate"
       THEN /\ flag' = IF Passed(s) THEN "none" ELSE "below_threshold"
            /\ UNCHANGED <<revisions, report, status>>
       ELSE /\ revisions' = NextRevision
            /\ IF at' = "researcher"
               THEN /\ report' = <<>>
                    /\ status' = [ t \in 1..plan |->
                                     IF t \in ThinSubtopics THEN "pending" ELSE status[t] ]
               ELSE UNCHANGED <<report, status>>
            /\ UNCHANGED flag
    /\ UNCHANGED outcome

(* mutant: a draft the rubric never ran on keeps the flag it had.          *)
UnscoredSilently ==
    /\ CallAnswers
    /\ at' = "human_gate"
    /\ UNCHANGED <<flag, passed, revisions, report, status, outcome>>

Unscored ==
    /\ CallAnswers
    /\ at' = "human_gate"
    /\ flag' = "unscored"
    /\ UNCHANGED <<passed, revisions, report, status, outcome>>

Reflect ==
    \/ /\ report = <<>> /\ at' = "finalize" /\ Fail("no_report_to_score")
       /\ UNCHANGED <<calls, flag, passed, revisions, report, status>>
    \/ report # <<>> /\ \E s \in Rubrics : Scored(s)
    \/ report # <<>> /\ Unscored
    \/ /\ report # <<>> /\ at' = "finalize"
       /\ \E why \in Reasons : FatalReason(why, Attempts) /\ Fail(why)
       /\ UNCHANGED <<flag, passed, revisions, report, status>>

Reflection ==
    /\ at = "reflection"
    /\ IF job = "failed"
       THEN at' = "finalize" /\ UNCHANGED <<calls, flag, passed, revisions, report, status, outcome>>
       ELSE Reflect
    /\ UNCHANGED <<plan, urls, minted, verdicts, edit, edits, hops, visit>>

(***************************************************************************)
(* The gate: it opens at a visit named by the calls spent so far and goes  *)
(* on with what a reviewer decided.  It takes every edit it is handed: the *)
(* endpoint's refusals come earlier, and its count of edits may be stale.  *)
(* The budget bounds the edits.  A decision that does not validate ends    *)
(* the job.                                                                *)
(***************************************************************************)
Approve ==
    /\ at' = "export" /\ edit' = FALSE
    /\ UNCHANGED <<edits, outcome>>

Reject ==
    /\ at' = "finalize" /\ edit' = FALSE
    /\ job' = "rejected"
    /\ UNCHANGED <<edits, reason>>

Edit ==
    /\ at' = "synthesizer" /\ edit' = TRUE
    /\ edits' = edits + 1
    /\ UNCHANGED outcome

Invalid ==
    /\ at' = "finalize"
    /\ Fail("invalid_gate_decision")
    /\ UNCHANGED <<edit, edits>>

HumanGate ==
    /\ at = "human_gate"
    /\ visit' = calls
    /\ Approve \/ Reject \/ Edit \/ Invalid
    /\ UNCHANGED <<progress, draft, flag, passed, revisions, hops, calls>>

(***************************************************************************)
(* Export writes the artifact or fails; every claim of a draft the         *)
(* Synthesizer wrote reaches a source, so the citation gate passes here.   *)
(* Finalize names an outcome nobody recorded.                              *)
(***************************************************************************)
Export ==
    /\ at = "export"
    /\ at' = "finalize"
    /\ \/ report = <<>> /\ Fail("no_report_to_export")
       \/ report # <<>> /\ job' = "approved" /\ UNCHANGED reason
       \/ report # <<>> /\ Fail("export_write_failed")
    /\ UNCHANGED <<progress, draft, review, hops, calls>>

Finalize ==
    /\ at = "finalize"
    /\ at' = "end"
    /\ \/ job \notin Terminal /\ Fail("no_terminal_status")
       \/ job = "failed" /\ reason = "none" /\ Fail("unrecorded_failure")
       \/ job \in Terminal /\ (job = "failed" => reason # "none") /\ UNCHANGED outcome
    /\ UNCHANGED <<progress, draft, review, hops, calls>>

(***************************************************************************)
(* new_state and the edge from START.                                      *)
(***************************************************************************)
Init ==
    /\ at = "supervisor"
    /\ plan = 0 /\ status = <<>> /\ urls = <<>>
    /\ report = <<>> /\ minted = 0 /\ verdicts = <<>>
    /\ flag = "none" /\ revisions = 0 /\ hops = 0 /\ calls = 0
    /\ edit = FALSE /\ edits = 0
    /\ job = "running" /\ reason = "none"
    /\ visit = 0 /\ passed = 0

Agents == Planner \/ Researcher \/ Synthesizer \/ FactChecker
ControlFlow == Supervisor \/ Reflection \/ Export \/ Finalize

Next == Agents \/ ControlFlow \/ HumanGate

Spec == Init /\ [][Next]_vars

(***************************************************************************)
(* A worker keeps driving the graph; nobody is obliged to decide a gate.   *)
(***************************************************************************)
FairSpec == Spec /\ WF_vars(Agents \/ ControlFlow)

-----------------------------------------------------------------------------

TypeOK ==
    /\ at \in Nodes
    /\ plan \in {0} \cup MinSubtopics..MaxSubtopics
    /\ status \in [1..plan -> SubtopicStatus]
    /\ urls \in [1..plan -> Nat]
    /\ report \in Seq(1..minted) /\ minted \in Nat
    /\ verdicts \in Seq([claim : Nat, supported : BOOLEAN])
    /\ flag \in Flags
    /\ revisions \in Nat /\ hops \in Nat /\ calls \in 0..MaxCalls
    /\ edit \in BOOLEAN /\ edits \in Nat
    /\ job \in {"running"} \cup Terminal /\ reason \in Reasons
    /\ visit \in Nat /\ passed \in Nat

(***************************************************************************)
(* A reviewer, and after him the export, only ever sees a draft every claim *)
(* of which the Fact-Checker has ruled on: reflection, the gate and export *)
(* are reached with a draft and a verdict for each of its claims           *)
(* (the fixed edges of build_graph, the minting of claim ids).             *)
(***************************************************************************)
NothingUnverified ==
    at \in {"reflection", "human_gate", "export"} /\ job # "failed" =>
        report # <<>> /\ Claims \subseteq Checked

(***************************************************************************)
(* Nobody arrives where the code says only a wiring bug could: the routing *)
(* rules, the fixed edges and the statuses fit together so that no node    *)
(* finds its input missing and every job ends with an outcome and a reason *)
(* (the "wiring bug" branches of supervisor, agents, reflection, export and *)
(* finalize).                                                              *)
(***************************************************************************)
WiringBugs == {"no_valid_transition", "no_pending_subtopic", "no_report_to_check",
               "no_report_to_score", "no_report_to_export", "no_terminal_status",
               "unrecorded_failure"}

NoWiringBug ==
    /\ reason \notin WiringBugs
    /\ (job = "failed") = (reason # "none")
    /\ at = "end" => job \in Terminal

(***************************************************************************)
(* The ceiling the hop guard is derived from (docs/adr/0006, decision 6):  *)
(* N + 3 hops to the first gate, N + 1 for each revision and one for each  *)
(* edit.  However many edits reach the gate, a job spends no more hops     *)
(* than it has earned, and a guard at or above that never stops it.        *)
(***************************************************************************)
HopCeiling(revised, edited) ==
    (MaxSubtopics + 3) + (MaxSubtopics + 1) * revised + edited

HopsAreEarned ==
    /\ revisions <= MaxRevisions
    /\ hops <= HopCeiling(revisions, edits)
    /\ MaxHops >= HopCeiling(revisions, edits) => reason # "hop_limit_exceeded"

(***************************************************************************)
(* Each gate visit happens at a higher call count than the one before:     *)
(* llm_calls_used names a visit, on the trail and as the deduplication id  *)
(* of a resume (docs/adr/0007).                                            *)
(***************************************************************************)
VisitsAdvance == at = "human_gate" => calls > visit

(***************************************************************************)
(* The flag at the gate is about the draft at the gate: none if and only   *)
(* if the rubric ran on this very draft and passed it.                     *)
(***************************************************************************)
FlagIsOfThisDraft ==
    at = "human_gate" => (flag = "none" <=> passed = minted)

(***************************************************************************)
(* A draft a reviewer asked for goes back to him: while an edit is in      *)
(* flight no revision starts, no subtopic is researched again, and the only *)
(* ways on are the gate and a failure (docs/adr/0006).                     *)
(***************************************************************************)
EditReturns ==
    [][edit =>
        /\ revisions' = revisions
        /\ status' = status
        /\ at' # "researcher"
        /\ (at' = "finalize" => job' = "failed" \/ at = "human_gate" \/ at = "export")]_vars

(***************************************************************************)
(* A subtopic whose last visit found nothing is never sent back to the     *)
(* Researcher, and a revision that researches has something to research    *)
(* and no draft (docs/adr/0004).                                           *)
(***************************************************************************)
EvidenceExhausted ==
    [][/\ \A s \in 1..plan : status[s] = "unresearched" => status'[s] = "unresearched"
       /\ (at = "reflection" /\ at' = "researcher" =>
            report' = <<>> /\ \E s \in 1..plan : status'[s] = "pending")]_vars

(***************************************************************************)
(* Every job that a worker keeps driving reaches its reviewer or its end,  *)
(* whatever the models answer.                                             *)
(***************************************************************************)
ReachesGateOrEnd == []<>(at \in {"human_gate", "end"})

(***************************************************************************)
(* refuse_edit's bound on the calls: what the endpoint asks of the live    *)
(* count, which is the visit's own (EditsFit).                             *)
(***************************************************************************)
Affordable(spent) == MaxCalls - spent >= EditCost

(***************************************************************************)
(* "insufficient_call_budget_for_edit ... protects a reviewer holding an   *)
(* approvable report, who asks for a change and gets a failed job instead" *)
(* (graph/state.py, refuse_edit): an edit that it does not refuse for the  *)
(* calls spent at its visit, and whose calls each need one request only,   *)
(* is not ended by the budget.                                             *)
(***************************************************************************)
AcceptedEditFits == Attempts = 1 /\ edit /\ Affordable(visit) => reason # "budget_exceeded"
=============================================================================
