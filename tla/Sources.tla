------------------------------ MODULE Sources ------------------------------
(***************************************************************************)
(* How the Researcher chooses and reads the pages of a job                 *)
(* (agents/researcher.py _pages_to_read, redisstore.py                     *)
(* RedisUrlDeduplicator).  A visit keeps its `seen` set in the process;    *)
(* the job's set of URLs is in Redis and outlives the process; findings    *)
(* are what the graph has checkpointed.  The worker may die between any    *)
(* two steps of a visit, and the queue's redelivery starts it again.       *)
(***************************************************************************)
EXTENDS Naturals, Sequences, FiniteSets, SequencesExt, FiniteSetsExt

CONSTANTS
    SourceUrl,            \* normalised URLs
    Subtopics,      \* 1..Subtopics, in plan order
    Lands,          \* where a request for a URL ends up: a fixed point is a page of its own
    PagesPerVisit,  \* MAX_LLM_CALLS_PER_SUBTOPIC
    MaxCandidates, MaxFaults, MaxCrashes, MaxReopens   \* bounds of the exploration

ASSUME SourcesAssumption ==
    /\ SourceUrl # {} /\ Lands \in [SourceUrl -> SourceUrl]
    /\ \A u \in SourceUrl : Lands[Lands[u]] = Lands[u]
    /\ Subtopics \in Nat /\ PagesPerVisit \in Nat \ {0}
    /\ MaxCandidates \in Nat /\ MaxFaults \in Nat /\ MaxCrashes \in Nat /\ MaxReopens \in Nat

Topic == 1..Subtopics

VARIABLES
    stage,      \* "away", or what the visit in progress does next
    status,     \* subtopic_status
    evidence,   \* the checkpointed findings: the pages they cite, by subtopic
    urls,       \* the Redis set job:{id}:urls
    seen,       \* the visit's own set
    todo,       \* candidates the visit has not looked at
    pages,      \* the pages the visit has read, in order
    fetching,     \* the candidate being fetched
    known,      \* history: URLs the job has requested or whose page it has been given
    repeats,    \* history: requests for a URL the job already knew
    faults,     \* history: what Redis failures can excuse, in repeats
    crashes, reopens

checkpoint == <<status, evidence>>
visit == <<seen, todo, pages, fetching>>
sourceHistory == <<known, repeats, faults>>
bounds == <<crashes, reopens>>
sourcesVars == <<stage, checkpoint, urls, visit, sourceHistory, bounds>>

Pending == { s \in Topic : status[s] = "pending" }

Current == Min(Pending)

Cited == UNION { evidence[s] : s \in Topic }

(***************************************************************************)
(* One search: candidates with distinct URLs, none at all if it failed.    *)
(***************************************************************************)
Candidates == { s \in SeqOf(SourceUrl, MaxCandidates) : IsInjective(s) }

Search ==
    /\ stage = "away" /\ Pending # {}
    /\ stage' = "collect"
    /\ seen' = Cited
    /\ todo' \in Candidates
    /\ pages' = <<>>
    /\ UNCHANGED <<checkpoint, urls, fetching, sourceHistory, bounds>>

(***************************************************************************)
(* add_if_new: SADD answers whether the URL is new and records it in one   *)
(* round trip; an outage answers "new" and records nothing.                *)
(***************************************************************************)
Recorded(u) == urls' = urls \cup {u} /\ UNCHANGED faults

Outage == faults < MaxFaults /\ faults' = faults + 1 /\ UNCHANGED urls

AddIfNew(u) == (u \notin urls /\ Recorded(u)) \/ Outage

AlreadyKnown(u) == u \in seen \/ u \in urls

(***************************************************************************)
(* One candidate.  The loop stops at PagesPerVisit pages or at the         *)
(* deadline, which may pass between any two candidates.                    *)
(***************************************************************************)
Stop ==
    /\ stage = "collect"
    /\ stage' = "extract"
    /\ UNCHANGED <<checkpoint, urls, visit, sourceHistory, bounds>>

MayContinue == stage = "collect" /\ todo # <<>> /\ Len(pages) < PagesPerVisit

Skip ==
    /\ MayContinue
    /\ AlreadyKnown(Head(todo))
    /\ todo' = Tail(todo)
    /\ UNCHANGED <<stage, checkpoint, urls, seen, pages, fetching, sourceHistory, bounds>>

Take ==
    /\ MayContinue
    /\ Head(todo) \notin seen
    /\ AddIfNew(Head(todo))
    /\ seen' = seen \cup {Head(todo)}
    /\ fetching' = Head(todo)
    /\ todo' = Tail(todo)
    /\ stage' = "fetch"
    /\ UNCHANGED <<checkpoint, pages, known, repeats, bounds>>

Request(reached) ==
    /\ stage = "fetch"
    /\ known' = known \cup {fetching} \cup reached
    /\ repeats' = repeats + (IF fetching \in known THEN 1 ELSE 0)
    /\ UNCHANGED <<checkpoint, urls, visit, faults, bounds>>

PageUnusable == Request({}) /\ stage' = "collect"

PageUsable == Request({Lands[fetching]}) /\ stage' = "landed"

(***************************************************************************)
(* The URL a redirect landed on is recorded in both sets as well; whether  *)
(* the job knew it already is not asked.                                   *)
(***************************************************************************)
(* mutant: only the URL that was asked for is remembered.                  *)
RememberLandedNot(u) == UNCHANGED <<seen, urls, faults>>

RememberLanded(u) ==
    /\ seen' = seen \cup {u}
    /\ IF u = fetching THEN UNCHANGED <<urls, faults>> ELSE Recorded(u) \/ Outage

Keep ==
    /\ stage = "landed"
    /\ stage' = "collect"
    /\ RememberLanded(Lands[fetching])
    /\ pages' = Append(pages, Lands[fetching])
    /\ UNCHANGED <<checkpoint, todo, fetching, known, repeats, bounds>>

(***************************************************************************)
(* The extraction calls answer (LlmClient), and the graph checkpoints.     *)
(***************************************************************************)
Extract ==
    /\ stage = "extract"
    /\ stage' = "away"
    /\ \E useful \in SUBSET Range(pages) :
        /\ evidence' = [evidence EXCEPT ![Current] = @ \cup useful]
        /\ status' = [status EXCEPT ![Current] = IF useful # {} THEN "done" ELSE "unresearched"]
    /\ UNCHANGED <<urls, visit, known, repeats, faults, bounds>>

(***************************************************************************)
(* The worker dies during a visit: only Redis and the checkpoint are left. *)
(***************************************************************************)
Crash ==
    /\ stage # "away" /\ crashes < MaxCrashes
    /\ crashes' = crashes + 1
    /\ stage' = "away"
    /\ UNCHANGED <<checkpoint, urls, visit, known, repeats, faults, reopens>>

(***************************************************************************)
(* The set's TTL passes (each addition refreshes it), or Redis loses it.   *)
(***************************************************************************)
Forget ==
    /\ urls # {} /\ faults + Cardinality(urls) <= MaxFaults
    /\ urls' = {}
    /\ faults' = faults + Cardinality(urls)
    /\ UNCHANGED <<stage, checkpoint, visit, known, repeats, bounds>>

(***************************************************************************)
(* Reflection sends thin subtopics back; an unresearched one never.        *)
(***************************************************************************)
Reopen ==
    /\ stage = "away" /\ Pending = {} /\ reopens < MaxReopens
    /\ reopens' = reopens + 1
    /\ \E again \in SUBSET { s \in Topic : status[s] = "done" } :
        /\ again # {}
        /\ status' = [s \in Topic |-> IF s \in again THEN "pending" ELSE status[s]]
    /\ UNCHANGED <<stage, evidence, urls, visit, sourceHistory, crashes>>

SourcesInit ==
    /\ stage = "away"
    /\ status = [s \in Topic |-> "pending"] /\ evidence = [s \in Topic |-> {}]
    /\ urls = {}
    /\ seen = {} /\ todo = <<>> /\ pages = <<>> /\ fetching = CHOOSE u \in SourceUrl : TRUE
    /\ known = {} /\ repeats = 0 /\ faults = 0
    /\ crashes = 0 /\ reopens = 0

Collect == Stop \/ Skip \/ Take \/ PageUnusable \/ PageUsable \/ Keep

SourcesNext == Search \/ Collect \/ Extract \/ Crash \/ Forget \/ Reopen

SourcesSpec == SourcesInit /\ [][SourcesNext]_sourcesVars

-----------------------------------------------------------------------------

SourcesTypeOK ==
    /\ stage \in {"away", "collect", "fetch", "landed", "extract"}
    /\ status \in [Topic -> {"pending", "done", "unresearched"}]
    /\ evidence \in [Topic -> SUBSET SourceUrl]
    /\ urls \subseteq SourceUrl /\ seen \subseteq SourceUrl /\ known \subseteq SourceUrl
    /\ todo \in Seq(SourceUrl) /\ pages \in Seq(SourceUrl) /\ fetching \in SourceUrl
    /\ Len(pages) <= PagesPerVisit
    /\ repeats \in Nat /\ faults \in Nat /\ crashes \in Nat /\ reopens \in Nat

(***************************************************************************)
(* A redelivery or a second visit to a subtopic makes the job request no   *)
(* URL it has already requested or landed on: each repetition is owed to   *)
(* one failure of Redis ("the cost is one wasted fetch", researcher.py     *)
(* _unseen_across_the_job), or to a crash between a redirected fetch and   *)
(* the record of where it landed.                                          *)
(***************************************************************************)
RepeatsArePaidFor == repeats <= faults + crashes
=============================================================================
