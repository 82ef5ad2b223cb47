------------------------------ MODULE EvalGate ------------------------------
(***************************************************************************)
(* The offline evaluation (eval/): twelve metrics over recorded outputs,   *)
(* the runner that isolates every case's failures, and the gate that       *)
(* compares what each case fails with what its benchmark row declares.     *)
(***************************************************************************)
EXTENDS Integers, Sequences, FiniteSets

CONSTANTS
    Benchmarked,       \* rows a benchmark may hold: an output and what its case expects of it
    Rewritten       \* outputs a fixture may be changed to

VARIABLES
    benchmark,      \* the committed rows, each with the metrics it declares to fail
    change,         \* what a commit did to the evaluators, a fixture or the benchmark
    results,        \* CaseResults of the run under way
    verdict         \* the gate's

evalVars == <<benchmark, change, results, verdict>>

Unstated == -1

(***************************************************************************)
(* eval/metrics.py.  A metric answers "passed", "failed", or "none" where  *)
(* the case states no rule or there is nothing to measure.                 *)
(***************************************************************************)
PassIf(holds) == IF holds THEN "passed" ELSE "failed"
When(applies, holds) == IF applies THEN PassIf(holds) ELSE "none"

ClaimsOf(o) == { o.claims[i] : i \in DOMAIN o.claims }
SourcesOf(o) == { o.sources[i] : i \in DOMAIN o.sources }

TerminalSuccess(o, c) == PassIf(o.status = c.expected_status)

StructuredOutputValidity(o, c) == PassIf(~o.malformed)

CitationPresence(o, c) ==
    When(o.report \/ c.expected_status = "approved",
         o.report /\ o.claims # <<>> /\ o.sources # <<>>)

ClaimCitationCoverage(o, c) ==
    When(o.report /\ o.claims # <<>>,
         \A ids \in ClaimsOf(o) : \E s \in SourcesOf(o) : ids \cap s.ids # {})

ClaimSupportRate(o, c) ==
    When(o.supported + o.unsupported > 0 /\ c.max_unsupported_claims # Unstated,
         o.unsupported <= c.max_unsupported_claims)

RequiredFactCoverage(o, c) ==
    When(o.report /\ c.required_facts # {},
         \A phrasings \in c.required_facts : phrasings \cap o.says # {})

ExpectedEntityCoverage(o, c) ==
    When(o.report /\ c.required_entities # {}, c.required_entities \subseteq o.says)

ForbiddenClaimAbsence(o, c) ==
    When(o.report /\ c.forbidden_claims # {}, c.forbidden_claims \cap o.says = {})

ResearchCoverage(o, c) ==
    When(o.planned # {} /\ c.expect_all_subtopics_researched # "unstated",
         (o.planned \cap o.unresearched = {}) = (c.expect_all_subtopics_researched = "yes"))

SourceDiversity(o, c) ==
    When(o.report /\ o.sources # <<>> /\ c.min_distinct_domains # Unstated,
         Cardinality({ s.host : s \in SourcesOf(o) }) >= c.min_distinct_domains)

DuplicateSourceAbsence(o, c) ==
    When(o.report /\ o.sources # <<>>,
         \A i, j \in DOMAIN o.sources : i # j => o.sources[i].page # o.sources[j].page)

MinimumUsefulOutput(o, c) ==
    When(o.report,
         Len(o.claims) >= (IF c.min_claims = Unstated THEN 1 ELSE c.min_claims) /\ ~o.hollow)

(* DETERMINISTIC_METRICS.                                                  *)
Deterministic(o, c) ==
    [terminal_success |-> TerminalSuccess(o, c),
     structured_output_validity |-> StructuredOutputValidity(o, c),
     citation_presence |-> CitationPresence(o, c),
     claim_citation_coverage |-> ClaimCitationCoverage(o, c),
     claim_support_rate |-> ClaimSupportRate(o, c),
     required_fact_coverage |-> RequiredFactCoverage(o, c),
     expected_entity_coverage |-> ExpectedEntityCoverage(o, c),
     forbidden_claim_absence |-> ForbiddenClaimAbsence(o, c),
     research_coverage |-> ResearchCoverage(o, c),
     source_diversity |-> SourceDiversity(o, c),
     duplicate_source_absence |-> DuplicateSourceAbsence(o, c),
     minimum_useful_output |-> MinimumUsefulOutput(o, c)]

Metrics == {"terminal_success", "structured_output_validity", "citation_presence",
            "claim_citation_coverage", "claim_support_rate", "required_fact_coverage",
            "expected_entity_coverage", "forbidden_claim_absence", "research_coverage",
            "source_diversity", "duplicate_source_absence", "minimum_useful_output"}

Failing(o, c) == { m \in Metrics : Deterministic(o, c)[m] = "failed" }

(***************************************************************************)
(* A change is one commit's.  METRIC_NAMES is read off the tuple of        *)
(* metrics, so a metric deleted from it is unknown to the gate of that     *)
(* build as well; a report of another build carries other metrics.         *)
(***************************************************************************)
Change(kind, m, i, o) == [kind |-> kind, metric |-> m, row |-> i, output |-> o]

NoChange == Change("none", "terminal_success", 1, <<>>)

Changes(bench) ==
    LET rows == DOMAIN bench
    IN  {NoChange, Change("database", "terminal_success", 1, <<>>)}
        \union { Change(k, m, 1, <<>>) : m \in Metrics,
                 k \in {"deleted", "lenient", "stricter", "raises", "older", "newer"} }
        \union { Change(k, "terminal_success", i, <<>>) : i \in rows, k \in {"unreadable", "unparsed"} }
        \union { Change("rewritten", "terminal_success", i, o) : i \in rows, o \in Rewritten }

Is(kind) == change.kind = kind

RunnerMetrics == IF Is("deleted") \/ Is("older") THEN Metrics \ {change.metric} ELSE Metrics
GateMetrics == IF Is("deleted") \/ Is("newer") THEN Metrics \ {change.metric} ELSE Metrics

(* A committed row declares what the committed evaluators fail it for.     *)
Declared(row) == [output |-> row.output, case |-> row.case,
                  expect_failing_metrics |-> Failing(row.output, row.case)]

Committed == { <<Declared(r[1]), Declared(r[2])>> : r \in { s \in Benchmarked \X Benchmarked : s[1] # s[2] } }

EvalInit ==
    /\ benchmark \in Committed
    /\ change \in Changes(benchmark)
    /\ results = <<>> /\ verdict = "none"

EvalTypeOK ==
    /\ verdict \in {"none", "accepted", "refused", "unusable"}
    /\ \A i \in DOMAIN results :
        /\ results[i].status \in {"evaluated", "failed", "skipped", "errored"}
        /\ results[i].failed \subseteq results[i].ran /\ results[i].ran \subseteq Metrics

(***************************************************************************)
(* eval/run.py.                                                            *)
(***************************************************************************)
Evaluated(i) == IF Is("rewritten") /\ change.row = i THEN change.output ELSE benchmark[i].output

(* What metric m answers of case i after the change.                       *)
Answers(i, m) ==
    LET answer == Deterministic(Evaluated(i), benchmark[i].case)[m]
    IN  CASE change.metric = m /\ Is("lenient") /\ answer = "failed"  -> "passed"
          [] change.metric = m /\ Is("stricter") /\ answer = "passed" -> "failed"
          [] OTHER -> answer

Bare(i, status) == [status |-> status, ran |-> {}, failed |-> {},
                    declared |-> benchmark[i].expect_failing_metrics]

Unreadable(i) == Is("unreadable") /\ change.row = i

EvaluateCase(i) ==
    CASE Is("database")  -> Bare(i, "skipped")
      [] Unreadable(i) \/ Is("raises") -> Bare(i, "errored")
      [] OTHER -> LET failed == { m \in RunnerMetrics : Answers(i, m) = "failed" }
                  IN  [status |-> IF failed = {} THEN "evaluated" ELSE "failed",
                       ran |-> RunnerMetrics, failed |-> failed,
                       declared |-> benchmark[i].expect_failing_metrics]

Problems == IF Is("unparsed") THEN {change.row} ELSE {}

Parsed == [i \in 1..(Len(benchmark) - Cardinality(Problems)) |->
            IF Is("unparsed") /\ change.row <= i THEN i + 1 ELSE i]

Evaluate ==
    /\ Len(results) < Len(Parsed)
    /\ results' = Append(results, EvaluateCase(Parsed[Len(results) + 1]))
    /\ UNCHANGED <<benchmark, change, verdict>>

(***************************************************************************)
(* eval/report.py: the counts and the per-metric aggregates.               *)
(***************************************************************************)
WithStatus(statuses) == { i \in DOMAIN results : results[i].status \in statuses }

RanOn(m) == Cardinality({ i \in DOMAIN results : m \in results[i].ran })

(***************************************************************************)
(* eval/gate.py.                                                           *)
(***************************************************************************)
RunCompleted == Problems = {} /\ results # <<>> /\ WithStatus({"errored", "skipped"}) = {}

MetricsAllRan ==
    /\ GateMetrics = RunnerMetrics
    /\ \A m \in GateMetrics : RanOn(m) = Cardinality(WithStatus({"evaluated", "failed"}))

(* mutant: a failure that has gone looks like an improvement.              *)
CaseContractOneSided(result) ==
    result.declared \subseteq GateMetrics /\ result.failed \subseteq result.declared

CaseContract(result) ==
    /\ result.declared \subseteq GateMetrics
    /\ result.failed \subseteq result.declared
    /\ result.declared \subseteq result.failed

LoadReport == ~Is("database")

Gate ==
    /\ verdict = "none" /\ Len(results) = Len(Parsed)
    /\ verdict' =
        IF ~LoadReport THEN "unusable"
        ELSE IF RunCompleted /\ MetricsAllRan
                /\ \A i \in WithStatus({"evaluated", "failed"}) : CaseContract(results[i])
             THEN "accepted" ELSE "refused"
    /\ UNCHANGED <<benchmark, change, results>>

EvalNext == Evaluate \/ Gate

EvalSpec == EvalInit /\ [][EvalNext]_evalVars

-----------------------------------------------------------------------------
(* A change no committed row can tell from none.                           *)
Invisible ==
    LET shows(i) == Deterministic(benchmark[i].output, benchmark[i].case)
        m == change.metric
    IN  CASE Is("none") -> TRUE
          [] Is("deleted") \/ Is("lenient") -> \A i \in 1..2 : shows(i)[m] # "failed"
          [] Is("stricter") -> \A i \in 1..2 : shows(i)[m] # "passed"
          [] Is("rewritten") ->
                Failing(change.output, benchmark[change.row].case)
                    = benchmark[change.row].expect_failing_metrics
          [] OTHER -> FALSE

(***************************************************************************)
(* The gate accepts exactly the commits that leave what every row fails as *)
(* it was: an evaluator that goes blind or strict on some row, one that    *)
(* raises, an output or row that does not load, and a report of another    *)
(* build are all refused, and an intact one never is.  A metric no row     *)
(* fails may be deleted or go blind unseen, against _metrics_all_ran's     *)
(* docstring.                                                              *)
(***************************************************************************)
GateIsExact ==
    verdict \in {"accepted", "refused"} => (verdict = "accepted" <=> Invisible)
=============================================================================
