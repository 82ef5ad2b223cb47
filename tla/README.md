# A verification project for the research assistant

The program takes a question, runs a multi-agent research graph over it in a worker, stops at a
human gate, and exports the approved report. This directory holds TLA+ modules of the parts that
are hard to test - one job's life across the API, the queue, the workers, the reviewer and the
operators' recovery scripts; the graph's own routing; and the services the nodes stand on - the TLC
configurations that check them, and proofs that TLAPS checks for every value of the constants.

Run from this directory:

    tlasany JobSystem.tla
    tlc -workers 2 -config delivery.cfg MCJobSystem.tla     # the module of each run is in PROJECT.json
    tlapm JobSystem_proofs.tla                              # any *_types, *_proofs, *_contract, *_hands

`PROJECT.json` lists the runs, the mutants, the theorems, the findings, the hazards, and for each
definition the source lines it models.

## 1. Inventory

| Component | State it keeps | Operations | Hard part | Where |
|---|---|---|---|---|
| Durable job state (`database/queries.py`) | the `jobs` row, `audit_events` | create, project a status, open / claim / decide a gate, finish, reconcile | transactions of four kinds of process interleave; some are guarded by `completed_at`, some are not | `JobStore` |
| Checkpoint (LangGraph, driven by `worker.py`, `graph/build.py`) | channels, next node, interrupt or error pending | one node at a time, `update_state`, resume | a node's database write and its checkpoint are not one transaction | `JobStore`, `Worker` |
| Execution lock (`database/locks.py`) | holder of the per-job advisory lock | try, release, lost with the session | the queue delivers twice; the lock decides | `JobStore` |
| Job queue (`jobqueue.py`, SQS FIFO) | the job's message group, receipts, receive counts, dead letters, deduplication window | send, receive, renew, delete, expire, redrive, resend | at-least-once, lost acknowledgements, a resend swallowed as a duplicate | `JobStore` |
| Worker (`worker.py`) | the delivery at hand, lease, shutdown flag | receive, wait for the lock, start / continue / resume, admit nodes, finalise, reconcile, acknowledge | crash, freeze, lost lease, SIGTERM and the deadline at every point | `Worker` |
| Heartbeat (`worker.py`) | expiry estimate, failure count, node admission | renew, retry at the midpoint, give up, bind | timing margins; two threads hand a loss over | `VisibilityLease` |
| Review API (`routes/api.py`) | open requests | submit, decide | row, checkpoint and trail are three reads; claim, record and send are three writes | `ReviewApi` |
| Operators (`operations.py`, `scripts/`) | a sweep's or a replay's evidence | sweep, replay a dead letter, re-export | evidence read early and used late | `Operations` |
| Supervisor, reflection (`agents/supervisor.py`, `graph/reflection.py`) | hop, revision and call counters, quality flag, statuses | route, score, retry a subtopic | the loop ends only through its guards, and an edit enters it again | `ResearchGraph`, `Rubric`, `RubricTable` |
| Research agents (`agents/`) | plan, findings, draft, verdicts | plan, research, synthesise, check | every failure path; verdicts and flags outlive the draft they judged | `ResearchGraph` |
| Researcher's pages (`agents/researcher.py`), URL set (`redisstore.py`) | pages read, fetched URLs | search, filter, fetch, record | a replayed node against a set that outlived it | `Sources` |
| LLM client (`llm_client.py`) under the extraction pool | `CallBudget`, retry counters | spend, take a token, send, retry | nested retries; threads share a budget and one cancellation | `LlmClient`, `CallBudget` |
| Rate limiter (`redisstore.py`) | rolling window | acquire | callers' clocks | `RateLimiter` |
| Web tools (`tools/fetch.py`, `tools/search.py`) and their cache | cache entries | search, fetch | redirects, retries, and callers that share entries | `WebTools` |
| Authentication (`routes/auth.py`) | `_keys`, `_fetched_at` | look up, reload, identify | threads share them without a lock while the pool rotates | `SigningKeys` |
| Evaluation (`eval/`) | committed rows, a run's results | measure, isolate, gate | a metric that goes blind looks like an improvement | `EvalGate` |
| Configuration and wiring, read-only and measurement scripts, migrations, deployment | - | - | stateless, or run once | not modelled |

How they meet: the API commits the row and then sends a start message; a worker receives it, takes
the lock, runs nodes and, at the gate, commits `awaiting_approval` and checkpoints an interrupt;
the API reads row, checkpoint and trail, claims the gate, records the decision and sends a resume;
a worker resumes with the *recorded* decision. Whatever fails is redelivered, then dead-lettered,
then swept. Nobody calls anybody: everything is shared state, and the lock and four conditional
updates are the only coordination. A node calls down: the agents into the tools, the LLM client and
the URL set, and those into Redis and the network, where several workers meet again.

What makes each correct:

- **lock and worker** - one executor; a resume carries what was decided at this visit; a job that
  ran is not started again; an acknowledgement means a durable outcome.
- **heartbeat** - a delivery is never claimed that another may hold; a third of the lease is left
  when it is given up; once it is lost no node is admitted.
- **row and trail** - a finished job stays finished and spends nothing more; the status and its
  explanation agree.
- **queue and recovery** - no unfinished job is in nobody's hands; deliveries end; a submitted job
  reaches its reviewer or an end.
- **gate** - an approval is a human's, of the draft at hand; recorded edits can be paid for and are
  bounded; a decision that was answered 200 is in the trail and is carried out.
- **export** - an export stamp means an object, an object means a cited body.
- **graph** - a reviewer sees only a draft whose every claim has a verdict, with a flag that is about
  that draft; visits have distinct names; an edit comes back to him; the loop ends.
- **reflection** - a revision repairs the worst failing dimension and never asks for evidence that is
  exhausted.
- **budget and limiter** - every request is paid for, once, under the ceiling; a wait is bounded; an
  over-grant is bounded by the clocks.
- **tools and pages** - what is given as evidence was served; one bad result costs itself; no URL is
  requested twice without a failure that explains it.
- **keys** - a caller is identified under a key that was recently the pool's.
- **evaluation** - the gate accepts exactly the commits that change no row's verdict, up to metrics
  no row fails.

## 2. Modules

| Module | Models | Role |
|---|---|---|
| `JobStore` | row, trail, checkpoint, artifact, lock, queue | the shared variables and the transactions on them; extended by the next three |
| `Worker` | `worker.py` and the nodes of `graph/build.py` | one action per stretch between two reads or writes of shared state |
| `ReviewApi` | `submit_job`, `decide` | the same for the two handlers that change a job |
| `Operations` | `Reconciler`, `Replayer`, `reexport` | the same for the operators |
| `JobContract` | what submitter, reviewer and reader are promised | the abstract specification of a job |
| `JobSystem` | the composition of the first four | `Spec`, `FairSpec`, the properties, the inductive invariants, the mapping to `JobContract` |
| `MCJobSystem` | - | symmetry sets for TLC |
| `JobSystem_types`, `_proofs`, `_contract`, `_hands` | - | proofs of `TypeOK`; of `ExecutionInv` and what follows from it; of the refinement and of acknowledgements; that no job is dropped |
| `Rubric` | the arithmetic of `reflection.py` | weighted score, failing dimensions, the target of a revision |
| `RubricTable` | - | the rubric over all 3125 score vectors |
| `ResearchGraph` | `agents/`, `graph/reflection.py`, the edges of `graph/build.py` | one action per node |
| `MCResearchGraph` | - | the score vectors of the run |
| `ResearchGraph_proofs` | - | proofs about the graph |
| `CallBudget` | - | the abstract budget: units claimed one at a time |
| `LlmClient` | `llm_client.py`, the Researcher's `_extract` | one action per access to the budget, the limiter, the endpoint |
| `LlmClient_proofs` | - | the invariant of the lock, the refinement of `CallBudget`, the bound on a wait, the numbering |
| `WebTools` | `tools/fetch.py`, `tools/search.py`, `RedisCache` | one action per request or cache access |
| `Sources` | `_pages_to_read`, `RedisUrlDeduplicator` | one action per step of a visit, and the crash between any two |
| `RateLimiter` | `RedisRateLimiter` and its script | callers read clocks, the script runs later |
| `VisibilityLease` | the heartbeat, `_NodeAdmission` | integer time, two threads, the queue |
| `SigningKeys` | `JwksCache`, the authenticator's `identity` | one action per access to the shared attributes |
| `EvalGate` | `eval/metrics.py`, `run.py`, `report.py`, `gate.py` | one action per case, one for the gate |
| `Services` | the composition of the eight parts | one `part` moves in a behaviour; they share no variable, so nothing is lost by it |
| `MCServices` | - | schedules, URLs, clocks and benchmark rows |
| `Clocks_proofs` | - | proofs about the three parts that reason with time: limiter, lease, keys |
| `Services_proofs` | - | proofs about the tools, the pages, the rubric's table and the gate, and of the composition |

### One job: `JobStore`, `Worker`, `ReviewApi`, `Operations`

Jobs share nothing - row, thread, lock key, FIFO group and object key are functions of the job id -
so one job is modelled and stands for all. `pc[w]` names the point in `worker.py` where worker `w`
is: `wait` (`_wait_for_execution_lock`), `row` and `decide` (`_handle_or_skip`, `_continue`),
`start` (`_start`), `admit`, `node`, `after` (the loop of `_invoke`), `opened`, `put`, `stamp`,
`commit` (inside a node, between its writes and its checkpoint), `gateack`, `regate`, `reread`
(`_gate_delivery_is_acknowledgeable`), `finalise`, `finish` (`_finalise`), `reconcile`
(`_reconcile_status`), `unlock`, `ack`, `fallback` (the end of `handle`). `task[w]` holds the
receipt and the handler's local variables. `ckpt.node` is the node the thread would run next; the
agents before the gate are one node `work` here, which spends a call, fails the job, or goes on to
the gate, and are `ResearchGraph` opened up. `ckpt.calls` is `llm_calls_used`, which is also the
key of a gate visit. `req[r]` and `op[o]` are a request's and a script's locals in the same way.

A handler's stretch between two shared accesses is one action. What is under the lock is still
split at every access, because the API and the re-export do not take the lock.

**External behaviour,** modelled from how the code uses it: `update_state` discards a task with
pending writes and keeps one nobody started (the docstring of `_finalise` measures both), and may
be refused or leave a two-channel checkpoint on a thread that never ran; SQS delivers the oldest
message of a group and nothing behind it, drops a duplicate sent within its five-minute window,
honours only the current receipt, and redrives after `maxReceiveCount` deliveries; PostgreSQL
releases an advisory lock with its session. The visibility timeout (30 minutes) is longer than the
deduplication window, so an expiry puts earlier sends outside it.

**Disturbances.** `FaultKinds` names what may go wrong and `MaxFaults` how often in one behaviour:
`crash` (a worker, API task or operator dies anywhere), `lease` (renewals fail), `pause` (a
frozen worker's message expires under it), `shutdown` (SIGTERM), `timeout` (the job's deadline),
`db` (a database or checkpoint call raises, with or without its effect), `send` (an SQS call raises,
with or without its effect), `put` (S3 likewise), `uncited` (a draft with a claim no source
reaches). An ordinary expiry, redelivery or redrive is not a fault and is not counted.

**The contract.** `JobContract` has four variables - how the job ended if it did, the gate visits on
record, the answer to each, whether the report is stored - and says: a visit is shown once and
answered once; nothing is stored that was not approved at a visit that was shown; a job ends once,
approved only with its report stored, rejected only by a reviewer; and the one thing that may still
happen to an end is that `failed` overrides it, which is what `_finalise` does.
`JobSystem` defines each from row, trail and artifact, and `KeepsTheContract` is that refinement,
both run and proved. The contract is where a reader should start.

### The graph: `ResearchGraph`

One action per node (`Supervisor`, `Planner`, `Researcher`, `Synthesizer`, `FactChecker`,
`Reflection`, `HumanGate`, `Export`, `Finalize`), each the whole handler with its guards, failure
updates and the edge it takes. A finding, claim or verdict is a number; a draft is a sequence of claim
numbers that are never reused (`minted`); the rubric's scores are chosen by the model. Everything a
language model may answer is a choice: a plan of any legal size, any number of findings, a draft
with or without claims, any verdict, any score vector, no answer at all, and for each call any
number of attempts. `minted` is how long the list of claim ids has grown, and `passed` remembers its
length when the rubric last passed a draft, so "this very draft" is `passed = minted`. The gate takes
an edit as often as it is handed one, as in the code: the limit on edits is the endpoint's
(`ReviewApi`). `edits` counts them for the properties and no action reads it; what bounds them here is
that each spends a call.

### What the nodes stand on: `Services`

- `LlmClient`: a call is one page of a visit on the pool's threads. `spend()` is three steps (take
  the lock and read, compare, write), so that what the lock is for is visible; the token, the
  request and the three ladders (validation, 429, transport) follow, with the limiter's own ladder
  under each. `Join` numbers the findings in page order.
- `WebTools`: a call of `fetch` or `search` goes through cache, robots, requests and retries; other
  callers, an expiry, an outage or an unreadable entry may come between any two of them. `search`
  has one query, so its cache is one entry.
- `Sources`: `seen` dies with the process, `urls` does not, `evidence` is what was checkpointed.
- `RateLimiter`: a caller reads its clock (`Ahead[c]` from Redis's), the script runs up to
  `MaxDelay` later and cuts the window with that old time.
- `VisibilityLease`: `Interval` is a third of the timeout and `LatestStart` leaves a call's envelope
  before that third; the main thread's `bind_node_admission` is split at what it reads.
- `SigningKeys`: a request's steps are the reads and writes of `_keys` and `_fetched_at`; the
  document fetched is what the pool published at some moment of the fetch.
- `EvalGate`: a commit may change an evaluator (blind, strict, raising, deleted), a fixture or a row;
  then the runner and the gate do what they do.

**Bounds,** all named constants. Those of the code, made small: `MaxCalls`, `MaxReceive`, `MaxEdits`,
`EditCost`, `MaxHops`, `MaxRevisions`, `Attempts`, `PagesPerVisit`, `Pages`, `CallLimit`, `Limit`,
`Window`, `Timeout`, `Envelope`, `KeyTtl`, `Cooldown`. Those of the exploration only: `MaxSends`,
`MaxFaults`, `MaxRequests`, `MaxClaims`, `MaxFindings`, `MaxRaw`, `MaxCandidates`, `MaxCrashes`,
`MaxReopens`, `MaxTime`, `MaxTokens`, `MaxClock`, `MaxKeyTime`, `MaxRotations`. The theorems hold for
every value of both kinds that the assumptions allow.

## 3. Runs

Times are for two TLC workers on a small machine.

| Run | Instance | Shows | States |
|---|---|---|---|
| `delivery` | 2 workers, 1 reviewer, 3 calls, 2 deliveries, 2 faults (all but pause) | `OneExecutor`, `ResumeMatchesTrail`, `NoOrphan`, `AckMeansOutcome`, `NeverRestarted` | 0.5 M, 25 s |
| `operators` | 1 worker, 1 operator, 1 reviewer, 1 delivery, 1 fault | `TypeOK`, `ExportedMeansWritten`, `NoOrphan`, `FinishedStaysFinished`, `SpendsNothingWhenFinished`, and that `JobSystem` implements `JobContract`: `KeepsTheContract` | 1.4 M, 80 s |
| `reviewers` | 1 worker, 2 reviewers, 3 requests, 1 fault (crash, pause, timeout, db) | `ApprovalIsHuman`, `EditsFit` | 2.2 M, 70 s |
| `settles` | 1 worker, 1 operator, 2 deliveries, 2 faults, fair | `Settles`, `QueueDrains` | 0.3 M, 100 s |
| `graph` | up to 2 subtopics, 17 calls, 8 hops, 2 revisions, edits as the calls allow, 5 score vectors, fair | `TypeOK`, `NothingUnverified`, `NoWiringBug`, `VisitsAdvance`, `FlagIsOfThisDraft`, `HopsAreEarned`, `EditReturns`, `EvidenceExhausted`, `ReachesGateOrEnd` | 1.3 M, 55 s |
| `services` | eight parts, see below | `TypeOK` and the parts' own | 0.7 M, 120 s |

The parts of `services`:

| Part | Instance | Shows | States |
|---|---|---|---|
| pool | 3 pages, 2 threads, 5 units left, 2 validation attempts, 1 retry of a 429 | `RequestsArePaidFor`, `SpendIsAtomic` (implements `CallBudget`), `NumberedInPageOrder`, `WaitIsBounded`, `PoolJoins` | 187 k |
| tools | 2 callers; a page, a disallowed one, a refusable one; 1 redirect, 1 retry | `GivenWasServed`, `OneBadResultCostsItself` | 36 k |
| sources | 3 URLs, one of them a redirect; 1 Redis failure, 1 crash, 1 reopening | `RepeatsArePaidFor` | 39 k |
| bucket | 2 callers a tick apart, delay 1, window 4, limit 2 | `OverGrantIsBounded` | 91 k |
| lease | timeout 12, envelope 2, lateness 2 | `ClaimIsSound`, `MarginKept`, `LossClosesAdmission` | 191 k |
| rubric | all 5^5 score vectors | `RepairsTheWorst` | 3 k |
| keys | 2 requests, 2 keys, 1 rotation | `KeyIsRecent` | 130 k |
| eval | 10 benchmark rows, two to a benchmark, every kind of change | `GateIsExact` | 35 k |

Why these bounds. Two workers are enough to contend for the lock, to redeliver under a holder that
lost its lease, and for one to finish what the other was handed. Two deliveries make a first, a
repeated and a last one; one delivery (in `operators`) makes dead letters common. Two or three calls
give two or three gate visits, so an edit reopens the gate and a decision of an earlier visit is
there to be misapplied. Two faults reach a failure during the recovery from a failure; every known
divergence below needs at most two. In `delivery`, `operators` and `reviewers` `EditCost` and
`MaxEdits` are 1 (the code: 3 and 3), so that an edit is affordable, then too expensive, then too
many, within the calls there are. In `graph`, 17 calls are spent up in some behaviours and
not in others, and let a job take up to three edits; `MaxHops` is 8, which stops some jobs after a
revision and an edit and not others (17 calls never reach the ceiling for two of each, 13); two
subtopics let one be exhausted while the other is not; the five score vectors are a pass and four failures that want
different repairs. Five units for three pages of up to four requests run out in the middle. Of a
call's three ladders the run climbs the 429's, `WaitingIsBounded` all of them. The
header of 5 is over what our schedule would wait. The lease's timeout is the smallest that leaves an
interval above an envelope with room for lateness. The benchmark's rows carry the defects that the
committed fixtures carry on purpose.

What a sleeping worker may do. `delivery` leaves `pause` out of its faults, the other three runs of
the job keep it. `NoOrphan` asks that an unfinished job's message is in the queue or among the dead
letters, that its gate is open, or that a sweep would act on it - a worker that holds no message
does not count - and that is false when a worker sleeps through its own lease (section 4), which
takes two workers and two faults. A lease that is lost while its worker runs, `lease`, is in the
run, and `OneExecutor`, `ResumeMatchesTrail`, `AckMeansOutcome` and `NeverRestarted` are proved with
`pause` among the faults.

`CHECK_DEADLOCK` is off because these systems end: a job that is over, or that waits for a
reviewer who never comes, is a state the system may stay in; a part of `Services` comes to the end
of its bounds.

Every property of a passing run has a mutant in `PROJECT.json` - a guard dropped, a stale value
kept, evidence ignored - that makes that run fail. The mutants' operators stand before the
definitions they replace and are marked `mutant`.

### Fairness

`JobSystem!FairSpec` assumes what the deployment schedules: some worker keeps polling; a worker takes
its next step; the poll for the lock is jittered and unbounded, so a lock that keeps coming free is
eventually got (strong fairness on `WaitForLock`); a stopped worker is replaced; SQS expires and
redrives; a handler that has begun goes on. Two assumptions are about people and are only used
where operators exist (`settles`): sweeps are run again and again, and not every requeue falls
inside the five-minute deduplication window (strong fairness on a requeue that is enqueued).
Nothing is assumed of reviewers, and faults are never fair. `Settles` without a sweep is false, as
the code intends: an unfinished job whose messages are spent is the sweep's to end.

`ResearchGraph!FairSpec` asks that a worker keeps driving the job - weak fairness on every node but
the gate, which is what `settles` establishes of the worker - and nothing of the reviewer.
`Services!FairSpec` asks that the pool's threads keep running: every request and every acquire has a
timeout.

## 4. Where the code differs from what is said of it

Six violation runs, each against a quoted sentence (`findings` in `PROJECT.json`):

| Run | Property | What happens |
|---|---|---|
| `row_trail` | `RowMatchesTrail` | the deadline is checked before the graph's end is noticed: a job that has just recorded approved or rejected is finalised as failed; the trail keeps the first outcome |
| `told_recorded` | `ToldIsRecorded` | a worker's gate repair undoes a reviewer's claim; a second reviewer claims too; both are answered 200 and one decision is dropped |
| `edits_bounded` | `EditsBounded` | the count of edits is stale when the gate is claimed; one edit too many is recorded |
| `gate_projection` | `GateProjection` | a crash between the gate's row and its interrupt, then a lost last delivery: `awaiting_approval` with no interrupt, which neither sweep nor replay will touch |
| `decision_travels` | `DecisionTravels` | a decision recorded for a visit not opened yet: its resume is the delivery that opens the gate, and the gate waits with the decision on record |
| `edit_budget` | `AcceptedEditFits` | an edit is accepted with exactly three calls left; its pass also goes through the Supervisor, whose advisory call spends one of them, and ends as `budget_exceeded` |

None contradicts a property of section 3: the passing properties say what does hold. `EditsBounded`
fails, `EditsFit` holds: an edit over the limit is still one the endpoint found affordable. The gate
takes every edit it is handed (`graph/build.py:432-437`), so `ResearchGraph` has no limit on edits
either, and what it shows holds for any number of them; with the shipped limits (24 hops, a ceiling of
20 and one for each edit) a job may take one edit too many, and a second one, if its calls last
that long, may end it as `hop_limit_exceeded`.
`ApprovalIsHuman` holds although `DecisionTravels` fails, because a resume reads the trail at the
visit the graph is at. `Settles` names the state `gate_projection` reaches as its one exception.

Met while reading or modelling, without a run of their own:

- `graph/state.py:109-111` says the Synthesizer pass an edit asks for sets `reviewer_edit_text` back to
  None; the gate is its only writer (`graph/build.py:388`) and clears it at the next decision.
- For a claim that two passes judged differently the gate's payload contradicts itself:
  `unsupported_claims` lists it if any verdict was against it (`graph/state.py:189-203`), its entry
  among the claims shows the last verdict (`214-238`).
- A worker that freezes past its lease and wakes may leave a job with nobody. Its message is
  delivered to a second worker, which finds the gate open, acknowledges it and deletes it; a
  reviewer's claim and a repair of the gate then let the first one, still under the lock, move the
  graph on; it notices the loss, returns its message and has none to return. The row says
  `running`, the queue is empty, and no sweep acts. "Re-sending the identical decision is the fix"
  (`routes/api.py:545`) helps only as long as the graph waits at the decided visit. With `pause`
  among `delivery`'s faults TLC finds this at depth 32 as a violation of `NoOrphan`. The heartbeat is
  what excludes it: a worker that claims its lease is alone with the message (`SoundClaim`), and one
  that does not admits no node (`LossReachesAdmission`), as long as its threads are scheduled. Hence
  the hypothesis of `JobsAreNeverDropped`.
- A decision can be filed for a visit that was never opened (`routes/api.py:465`): the root of
  `decision_travels`.
- Two candidates that redirect to one page are both read: where a fetch landed is recorded, not asked
  (`agents/researcher.py:195-196` against `232-236`).
- A URL enters the job's set before its page is fetched and checkpointed (`agents/researcher.py:255`):
  after a crash the pages of the lost visit are skipped, and a subtopic may end `unresearched`
  although they had something to say, against "attempted and produced nothing"
  (`docs/ARCHITECTURE.md:889-890`). What `RepeatsArePaidFor` bounds is the opposite mistake.
- The window is cut with the caller's clock (`redisstore.py:239`), so callers whose clocks differ may
  be granted more than the limit in a window, against `tests/test_redis_integration.py:223-224`;
  `OverGrantIsBounded` says how much more.
- `robots.txt` is asked for the URL given, not for where a redirect leads nor on a cache hit
  (`tools/fetch.py:125`, `docs/ARCHITECTURE.md:1202`).
- A redirect whose `Location` does not parse raises `ValueError` out of `fetch`
  (`tools/fetch.py:163`), whose docstring (`110-112`) has one outcome for every bad page. The model
  has it (`RedirectUnparseable`).
- A failed key reload does not stamp `_fetched_at` (`routes/auth.py:286-287`), so while the endpoint
  is down the cooldown bounds nothing, and a stale cache costs two fetches per request; `186-192`
  has one fetch in five minutes as the worst case. The docstring's "answers None" is for an empty
  cache only: `key_for` answers from what it holds. `KeyIsRecent` excepts exactly these requests.
- Between `kid in self._keys` and `self._keys[kid]` (`routes/auth.py:272-273`) another thread may
  replace the keys: `KeyError`, a 500 where a 401 was meant. The model has it (`Missing`).
- A metric deleted from `DETERMINISTIC_METRICS` leaves `METRIC_NAMES` as well, so `_metrics_all_ran`
  cannot see what its docstring says it catches (`eval/gate.py:213-220`); only a row that declares
  the metric can. In the committed benchmark no row declares `terminal_success`,
  `required_fact_coverage` or `research_coverage`, and no metric reads a row's `min_sources`.

## 5. Proofs

Assumptions: the named `ASSUME`s only. `StoreAssumption` and `ReviewAssumption` - workers and
operators are different processes, `NoOne` is neither, the limits are naturals, a message may be
received once, an edit costs something; `FaultKinds` and `MaxFaults` are arbitrary, so the theorems
hold for any number of disturbances in any order. `GraphAssumption` and `ThresholdAssumption` - a plan
has a subtopic, the threshold is on the scores' scale. `ClientAssumption`, `LimiterAssumption`
(clocks differ by at most `Spread`). `LeaseAssumption` - the envelope is less than a third of the
timeout, which `check_queue` enforces, and a thread is at most an envelope late. `WebToolsAssumption`,
`SourcesAssumption` - there is a URL, and a redirect is followed to its end. `KeyAssumption` - the
pool publishes a key, and the cooldown is no longer than the TTL. One theorem has a hypothesis of
its own, `JobsAreNeverDropped`: `"pause" \notin FaultKinds`.

| Theorem | Module | Says |
|---|---|---|
| `TypeCorrectness` | `JobSystem_types` | `Spec => []TypeOK` |
| `ExecutionIsExclusive` | `JobSystem_proofs` | `Spec => []ExecutionInv` |
| `ExecutorIsUnique` | `JobSystem_proofs` | `Spec => []OneExecutor` |
| `ResumesMatchTheTrail` | `JobSystem_proofs` | `Spec => []ResumeMatchesTrail` |
| `FinishedIsFinal` | `JobSystem_proofs` | `Spec => FinishedStaysFinished` |
| `FinishedSpendsNothing` | `JobSystem_proofs` | `Spec => SpendsNothingWhenFinished` |
| `NoRestart` | `JobSystem_proofs` | `Spec => NeverRestarted` |
| `EditsHaveTheirCalls` | `JobSystem_proofs` | `Spec => []EditsFit` |
| `ApprovalsAreHuman` | `JobSystem_contract` | `Spec => []ApprovalIsHuman` |
| `ExportsAreWritten` | `JobSystem_contract` | `Spec => []ExportedMeansWritten` |
| `ContractIsKept` | `JobSystem_contract` | `Spec => KeepsTheContract`, the refinement |
| `AcksAreEarned` | `JobSystem_contract` | `Spec => AckMeansOutcome` |
| `JobsAreNeverDropped` | `JobSystem_hands` | `"pause" \notin FaultKinds => (Spec => []NoOrphan)` |
| `GraphTypes` | `ResearchGraph_proofs` | `Spec => []TypeOK` |
| `NothingUnverifiedIsSeen` | `ResearchGraph_proofs` | `Spec => []NothingUnverified` |
| `NodesFindTheirInput` | `ResearchGraph_proofs` | `Spec => []NoWiringBug` |
| `VisitsHaveNames` | `ResearchGraph_proofs` | `Spec => []VisitsAdvance` |
| `FlagsAreCurrent` | `ResearchGraph_proofs` | `Spec => []FlagIsOfThisDraft` |
| `EditsReturn` | `ResearchGraph_proofs` | `Spec => EditReturns` |
| `ExhaustedStaysExhausted` | `ResearchGraph_proofs` | `Spec => EvidenceExhausted` |
| `HopsStayUnderTheCeiling` | `ResearchGraph_proofs` | `Spec => []HopsAreEarned` |
| `EveryRequestIsPaidFor` | `LlmClient_proofs` | `PoolSpec => []RequestsArePaidFor` |
| `SpendingIsAtomic` | `LlmClient_proofs` | `PoolSpec => SpendIsAtomic`, the refinement |
| `WaitingIsBounded` | `LlmClient_proofs` | `PoolSpec => []WaitIsBounded` |
| `NumberingIsInPageOrder` | `LlmClient_proofs` | `PoolSpec => []NumberedInPageOrder` |
| `LimiterTypes`, `BoundedOverGrant` | `Clocks_proofs` | `BucketSpec => []BucketTypeOK`, `[]OverGrantIsBounded` |
| `SoundClaim`, `ThirdKept`, `LossReachesAdmission` | `Clocks_proofs` | `LeaseSpec => []ClaimIsSound`, `MarginKept`, `[]LossClosesAdmission` |
| `KeysAreRecent` | `Clocks_proofs` | `KeySpec => []KeyIsRecent` |
| `PagesWereServed`, `OneBadResultIsOneLost` | `Services_proofs` | `ToolSpec => []GivenWasServed`, `[]OneBadResultCostsItself` |
| `RepeatsAreOwed` | `Services_proofs` | `SourcesSpec => []RepeatsArePaidFor` |
| `TheWorstIsRepaired` | `Services_proofs` | `TableSpec => []RepairsTheWorst` |
| `TheGateIsExact` | `Services_proofs` | `EvalSpec => []GateIsExact` |
| `ServicesTypes`, `ServicesAreSafe` | `Services_proofs` | `FairSpec => []TypeOK`, `FairSpec =>` every invariant proved of a part |

**The job.** `OneExecutor` and `ResumeMatchesTrail` are not inductive: to keep "the answer
given to `stream()` is the one recorded at this visit" through a step one must know that nobody
else moved the graph or rewrote the trail since the decision was read. `ExecutionInv` says so. It
has three parts: for each worker, by its `pc`, that it holds the lock in the region where it may
touch the job, and what it learnt there still stands (`start` - no checkpoint; `decide` - the gate
waits; `admit`, `node`, `opened` with an answer - the gate waits and the trail holds that answer;
`put`, `stamp` - the graph is at export; every advancing point - the row is not complete); the same
for an operator between its evidence and its audit row; and, of the job alone, that a complete row
is terminal with no gate waiting.

The proof that a step keeps it is one frame argument used many times. A step of a process that holds
the lock finds every other process outside the region (two holders are one), and outside the region
`WorkerInv` and `OperatorInv` claim nothing that could be disturbed (`LockedStep`). A step of a
process without the lock changes neither checkpoint nor completion and only adds to the trail
(`UnlockedStep`, `ReviewStep`): a recorded decision is never rewritten, which is the
query-then-insert guard of `record_reviewer_decision`, so whatever a lock holder has read still
stands. What is left is one case per action of the process that moves. The rest of the module reads
the action properties off `ExecutionInv`: a complete row can be changed only by a projection, which
is guarded, or by `_finalise`, which writes `failed`; a call can be spent only from `node`, where
the row is not complete; the checkpoint becomes new only from `admit` with no checkpoint. `EditsFit`
needs an invariant of its own: an edit past the affordability check carries a visit with calls to
spare, and the visit it is recorded under is the one it was checked with.

**The contract.** `ReportInv` adds what a report's way to the bucket rests on: a draft that is
approved, being stored or stamped has an approval in the trail at the visit the graph is at, and an
object a cited body. It is kept because these facts only grow (`Grows`: no step takes back a stored
body, a stamp, an object, an opening or a decision). The refinement then maps each action to one
step of `JobContract` or to none: submission to `Accept`, the opening of a gate to `Show`, a recorded
decision to `Decide`, the export's put to `Store`, every way to a complete row to `End` and the late
finalisation to `Override`.

**Acknowledgements.** `AckMeansOutcome` is about the step that sets a flag (`AckIsEarned`), so all
it needs is what the worker knows at that step: `WorkerInv` says at each point that leads there
whether the gate waits or the graph is at its end, and under the lock nobody takes that back.

**No job is dropped.** `NoOrphan` relates a job's state to its one last message, and the invariant
that carries it, `HandsInv`, follows that message. `GroupInv`: the messages of the group are
numbered without a gap up to the last send, only the first has been delivered, and what expired, was
dead-lettered or may be sent again is outside the deduplication window, so that what is sent again
in its place is not swallowed. `Given` and `Current`: a receipt tells the delivery it was given for,
no receipt is from the future, and no step makes an old one current again (`Orderly`, one lemma per
change of the queue). `AckInv`: a worker that may still delete the message - it holds the current
receipt and has acknowledged - leaves the job `Settled`: complete, at its gate, or at the graph's
end. `Apart`: two workers never hold the same receipt, and none is in the lock's region while
another may delete, which is what a sleeping worker breaks. `InRegion(w) => Held`: while a worker
may move the graph, the job's last message is in the queue or a dead letter. The hypothesis is used
once, where `QueueMoves` lists what may change the queue: a message expires only when nobody is
renewing it. `LetterInv`: a replay discards a dead letter only once a later message was sent. The
last conjunct is the property in the form that is preserved: `Held`, `Settled` or `Startable`. The
proof has one lemma for each part of `HandsInv` (`ReceiptsStep`, `RegionStep`, `AcksStep`,
`ApartStep`, `LettersStep`, `SomethingIsLeft`), over what a worker's own step may do (`OwnMove`) and
what others' steps leave.

**The graph.** `GraphInv` is `TypeOK` and three more: `Position` (what the state holds at each node:
a plan before the Researcher, a draft before the Fact-Checker, a verdict for every claim from
reflection on), `Judgement` (claim ids are below `minted`, the flag at the gate is about the draft
that was scored, the last visit is below the calls) and `Ending` (status, reason and node agree, and
no reason is a wiring bug). It is proved node by node; the invariants follow at once and the two
action properties from one look at each action under it. The hop bound needs a measure: `HopsLeft` is
what the way to the reviewer still costs from each node, each supervisor hop lowers it, a revision and
an edit raise it by exactly what `HopCeiling` grows, so `hops + HopsLeft` stays at most the ceiling
of the revisions and edits there were (`HopsAreCounted`), however many edits that is. With the code's
five subtopics, two revisions and three edits that is ADR 0006's 23.

**Budget, limiter, lease.** `BudgetInv`: what a call has read inside the lock is still the counter's
value, a ticket is above every unit paid for and at most `used`, and two calls' tickets differ; the
write under the lock is then `CallBudget`'s `Claim`. `BoundedOverGrant`: a token that a caller does
not count was inserted by real time at least `Window - MaxDelay - Spread` ago (`NotHeld`), and with
room for one more, one of the last `Limit` is not counted. `LeaseInv`: the estimate of the expiry never
exceeds the queue's, since a renewal counts from before its call; the next attempt is planned before
the latest start; and the hand-over is one of the two orders of "set flag, look up admission" against
"bind, look at the flag", in each of which the second sees the first.

`KeyInv` dates every key a request has in hand: by the fetch that read it, whose document was
published since the fetch began, or by the stamp on the cache it was found in, which is no older than
the TTL unless a reload failed.

**Sums and sequences.** What a call has waited is a sum over its attempts and its schedules, a visit's
findings are numbered by a sum over its pages, and a search's answer is a recursive function over its
results. The library's induction takes an operator, which the provers cannot instantiate; `Counting`
is induction for a *set* of naturals, from the well-foundedness of `<`, and "the prefixes of which
the claim holds" is such a set. `LadderInv` bounds what a call has slept, rung by rung: its earlier
attempts at their longest, and of the present one the retries made so far.

**Tools, pages, gate.** `ToolInv`: what a caller carries, and what the cache holds, is a page that
was served for where that URL leads, whichever of them put it there. `SearchInv`: the results kept
from a prefix are the URLs of its usable ones, each once. `SourcesInv` counts what is `Owed`: the
repeats so far, plus the URLs known and not recorded, plus the one under way, never exceed what a
crash or a fault of Redis has paid for; a crash turns what was known into what is owed, and a repeat
spends it. `TheWorstIsRepaired` holds for every threshold on the scale; the run checks one, on every
vector. `EvalInv` follows the runner and the gate: each result is what the evaluators say of its
row, and a verdict is the gate's on all of them; `ExactGate` then compares the gate's conditions
with what a benchmark of two rows can show, for whatever its rows hold.

**The composition.** `part` never changes and each part's step leaves the others' variables alone, so
the invariant of `Services` is, for each part, its own invariant if it is the one that moves and its
initial state if it is not. `ServicesAreSafe` collects what follows.

**Only model-checked.** Liveness: `QueueDrains`, `Settles`, `ReachesGateOrEnd`, `PoolJoins`, since
fairness and `ENABLED` are out of the prover's reach. Also out of its reach is anything in a module
with RECURSIVE operators; there are none here. Every other property of a passing run is a theorem.

## 6. What the model leaves out

- `Worker` and `VisibilityLease` are separate modules. In `Worker`, `LoseOwnership` may happen at any
  moment at which the receipt is no longer current, and as a `lease` fault at any other, which is more
  than the heartbeat allows.
- `Worker` and `ResearchGraph` are separate too. In `Worker`, the nodes before the gate spend a call
  each, so visits advance by construction; `VisitsHaveNames` is the theorem that justifies it.
- The lock's session dying while its worker lives. The code does not notice either; what exclusive
  execution then rests on is the lease.
- Two database transactions inside each other: each transaction is one step.
- What the reviewer had on the screen: a decision's body names no visit.
- Content: prompts, quotes and their match with a page's text, HTML and PDF extraction, encodings, the
  character cap, what makes an address public, untrusted-content markers.
- Which adapter answers (`bedrock.py`, OpenAI): a request is answered, or fails in one of three kinds.
- A token's own checks and the static key table; the judge, the scores and the CSV of `eval/`.
- Operators' age thresholds: a sweep may look at any unfinished row at any time, which is more than
  the code allows and therefore safe for the invariants.
- Dead letters hidden for a moment while a script reads them.
- A resume that is dead-lettered with its decision on record: a replay refuses it and only the
  reviewer's identical retry recovers it. `NoOrphan` counts the dead letter as a pair of hands.
- How long a worker may sleep. `pause` lets it sleep through its lease at any point, which is more
  than the heartbeat's margins are for; `NoOrphan` is claimed without it.

**Not modelled.** Configuration and wiring build objects once; the limits that matter are constants,
and the checks of `config.py` are where the assumptions come from. Read-only queries and the
measurement scripts change nothing. Migrations run once, alone. Deployment declares infrastructure;
its redrive policy and visibility timeout are in `JobStore`.

## 7. Open

- `ClaimIsSound` carried into `Worker` in place of its free `LoseOwnership`, so that the hypothesis
  on `pause` becomes a statement about threads.
- An abstract specification of the nodes before the gate that both `ResearchGraph` and `Worker`'s
  `work` are shown to implement.
- `Worker` with `ResearchGraph` inside its `work` node, once smaller abstractions of both are shown
  to be implemented by them.
- A run with the lock's session as a process of its own.
