------------------------------ MODULE WebTools ------------------------------
(***************************************************************************)
(* The two tools of the agents (tools/fetch.py, tools/search.py) and the   *)
(* cache they share (redisstore.py RedisCache).  The Researcher and the    *)
(* Fact-Checker of several workers call them at once.                      *)
(***************************************************************************)
EXTENDS Naturals, Sequences, FiniteSets, SequencesExt, FiniteSetsExt

CONSTANTS
    ToolCallers,
    Url,            \* normalised URLs
    Refusable,      \* those validate_url refuses: not http(s), or not a public host
    Disallowed,     \* those a robots.txt disallows
    MaxRedirects,   \* _MAX_REDIRECTS
    FetchBackoff, SearchBackoff,    \* _BACKOFF_S of each tool
    MaxRaw,     \* bound: results of a search
    MaxCalls        \* bound: calls of the tools

ASSUME WebToolsAssumption ==
    /\ Url # {} /\ Refusable \subseteq Url /\ Disallowed \subseteq Url
    /\ MaxRedirects \in Nat /\ MaxRaw \in Nat /\ MaxCalls \in Nat
    /\ FetchBackoff \in Seq(Nat) /\ SearchBackoff \in Seq(Nat)

VARIABLES
    phase,      \* of each caller: what its call does next, "idle" when none is under way
    target,     \* the URL it asked for
    current,    \* the URL of its next request
    hops,       \* redirects followed in this attempt
    retries,    \* of the loop it is in
    outcome,    \* what its last call answered
    cache,      \* cache:fetch:{hash}, by URL
    searched,   \* cache:search:{hash}, of the one query of the exploration
    calls,      \* how many calls there were
    last,       \* history: what the last request of its call was answered
    served,     \* history: <<asked for, landed on>> of every page a site answered with
    offered     \* history: the pages its search was answered a usable result for

call == <<phase, target, current, hops, retries>>
caches == <<cache, searched>>
toolHistory == <<last, served, offered>>
toolVars == <<call, outcome, caches, calls, toolHistory>>

Nothing == [kind |-> "nothing"]
Corrupt == [kind |-> "corrupt"]
Page(u) == [kind |-> "page", url |-> u]
Unreachable(why) == [kind |-> "unreachable", reason |-> why]
ToolCallFailed(why) == [kind |-> "failed", reason |-> why]
Results(s) == [kind |-> "results", urls |-> s]
Raised == [kind |-> "raised"]

Reasons == {"timeout", "connection_error", "http_error", "server_error", "too_large",
            "wrong_content_type", "redirect_blocked", "too_many_redirects",
            "robots_denied", "empty_content"}

Retryable == {"timeout", "connection_error", "server_error"}

Answer(c, o) ==
    /\ phase' = [phase EXCEPT ![c] = "idle"]
    /\ outcome' = [outcome EXCEPT ![c] = o]

Retry(c) == retries' = [retries EXCEPT ![c] = @ + 1]

-----------------------------------------------------------------------------
(***************************************************************************)
(* search: the raw results, and _normalize.  A raw result is what the      *)
(* service sent for a page, and what keeps it from being a source: it has  *)
(* no URL that parses or no body, or it fails the schema.  Two spellings   *)
(* of a page have one normalised URL.                                      *)
(***************************************************************************)
Raw == [url : Url, flaw : {"none", "dropped", "invalid"}]

Sound(r) == r.flaw = "none"

Usable(raw) == { r \in ToSet(raw) : Sound(r) }

(* mutant: a URL is remembered before its result is known to be usable.    *)
KeptEarly(raw, i) ==
    /\ Sound(raw[i])
    /\ \A j \in 1..i - 1 : raw[j].flaw \in {"none", "invalid"} => raw[j].url # raw[i].url

Kept(raw, i) ==
    Sound(raw[i]) /\ \A j \in 1..i - 1 : Sound(raw[j]) => raw[j].url # raw[i].url

Normalize(raw) ==
    LET kept[n \in 0..Len(raw)] ==
            IF n = 0 THEN <<>>
            ELSE IF Kept(raw, n) THEN Append(kept[n - 1], raw[n].url) ELSE kept[n - 1]
    IN  kept[Len(raw)]

BeginCall(c) ==
    /\ phase[c] = "idle"
    /\ calls < MaxCalls /\ calls' = calls + 1
    /\ retries' = [retries EXCEPT ![c] = 0]
    /\ last' = [last EXCEPT ![c] = "none"]
    /\ offered' = [offered EXCEPT ![c] = {}]
    /\ UNCHANGED <<caches, served>>

Requested(c, answered) == last' = [last EXCEPT ![c] = answered]

Found(c) ==
    /\ searched.kind = "results"
    /\ BeginCall(c)
    /\ Answer(c, searched)
    /\ UNCHANGED <<target, current, hops>>

(* A miss, or Redis was not reached: the caches fail open.                  *)
Query(c) ==
    /\ BeginCall(c)
    /\ phase' = [phase EXCEPT ![c] = "search"]
    /\ UNCHANGED <<target, current, hops, outcome>>

QueryRejected(c) ==
    /\ BeginCall(c)
    /\ Answer(c, ToolCallFailed("invalid_query"))
    /\ UNCHANGED <<target, current, hops>>

(* Tavily refused the request on its merits.                                *)
SearchRefused(c) ==
    /\ phase[c] = "search"
    /\ Requested(c, "refused")
    /\ Answer(c, ToolCallFailed("search_unavailable"))
    /\ UNCHANGED <<target, current, hops, retries, caches, calls, served, offered>>

SearchUnreachable(c) ==
    /\ phase[c] = "search"
    /\ Requested(c, "timeout")
    /\ IF retries[c] = Len(SearchBackoff)
       THEN Answer(c, ToolCallFailed("search_unavailable")) /\ UNCHANGED retries
       ELSE Retry(c) /\ UNCHANGED <<phase, outcome>>
    /\ UNCHANGED <<target, current, hops, caches, calls, served, offered>>

SearchAnswers(c) ==
    /\ phase[c] = "search"
    /\ Requested(c, "results")
    /\ \E raw \in SeqOf(Raw, MaxRaw) :
        LET given == Results(Normalize(raw))
        IN  /\ offered' = [offered EXCEPT ![c] = { r.url : r \in Usable(raw) }]
            /\ Answer(c, given)
            /\ searched' \in {searched, given}
    /\ UNCHANGED <<target, current, hops, retries, cache, calls, served>>

-----------------------------------------------------------------------------
(***************************************************************************)
(* fetch.                                                                  *)
(***************************************************************************)
Hit(u) == cache[u].kind = "page"

FetchCall(c, u) ==
    /\ BeginCall(c)
    /\ target' = [target EXCEPT ![c] = u]
    /\ current' = [current EXCEPT ![c] = u]
    /\ hops' = [hops EXCEPT ![c] = 0]

Reject(c, u) == u \in Refusable /\ FetchCall(c, u) /\ Answer(c, ToolCallFailed("blocked_url"))

Cached(c, u) == u \notin Refusable /\ Hit(u) /\ FetchCall(c, u) /\ Answer(c, cache[u])

Miss(c, u) ==
    /\ u \notin Refusable
    /\ FetchCall(c, u)
    /\ phase' = [phase EXCEPT ![c] = "robots"]
    /\ UNCHANGED outcome

(***************************************************************************)
(* _robots_allows, which fails open.                                       *)
(***************************************************************************)
Denies(c) == target[c] \in Disallowed

RobotsRead(c) ==
    /\ phase[c] = "robots"
    /\ IF Denies(c)
       THEN Answer(c, Unreachable("robots_denied"))
       ELSE phase' = [phase EXCEPT ![c] = "send"] /\ UNCHANGED outcome
    /\ UNCHANGED <<target, current, hops, retries, caches, calls, toolHistory>>

RobotsUnread(c) ==
    /\ phase[c] = "robots"
    /\ phase' = [phase EXCEPT ![c] = "send"]
    /\ UNCHANGED <<target, current, hops, retries, outcome, caches, calls, toolHistory>>

(***************************************************************************)
(* One request of _fetch_once.                                             *)
(***************************************************************************)
FetchRequest(c, answered) ==
    /\ phase[c] = "send"
    /\ Requested(c, answered)
    /\ UNCHANGED <<target, calls, offered>>

(* mutant: whatever the fetch came to is cached.                           *)
CacheableAny == {"page", "unreachable"}

Cacheable == {"page"}

(* A Redis that is not reached stores nothing.                              *)
FinishFetch(c, o) ==
    /\ Answer(c, o)
    /\ UNCHANGED searched
    /\ \/ o.kind \in Cacheable /\ cache' = [cache EXCEPT ![target[c]] = o]
       \/ UNCHANGED cache

(* _fetch_with_retry: a failed attempt is made again from the target.       *)
Failed(c, why) ==
    IF why \in Retryable /\ retries[c] < Len(FetchBackoff)
    THEN /\ Retry(c)
         /\ current' = [current EXCEPT ![c] = target[c]]
         /\ hops' = [hops EXCEPT ![c] = 0]
         /\ UNCHANGED <<phase, outcome, caches>>
    ELSE FinishFetch(c, Unreachable(why)) /\ UNCHANGED <<retries, current, hops>>

FetchRefused(c) ==
    /\ \E why \in {"timeout", "http_error"} : FetchRequest(c, why) /\ Failed(c, why)
    /\ UNCHANGED served

(* mutant: the bound is not looked at.                                     *)
TooManyNever(c) == FALSE

TooMany(c) == hops[c] = MaxRedirects

Redirect(c, u) ==
    /\ FetchRequest(c, "redirect")
    /\ \/ u \in Refusable /\ Failed(c, "redirect_blocked")
       \/ u \notin Refusable /\ TooMany(c) /\ Failed(c, "too_many_redirects")
       \/ /\ u \notin Refusable /\ ~ TooMany(c)
          /\ current' = [current EXCEPT ![c] = u]
          /\ hops' = [hops EXCEPT ![c] = @ + 1]
          /\ UNCHANGED <<phase, retries, outcome, caches>>
    /\ UNCHANGED served

(* A Location that urljoin or urlsplit cannot parse: their ValueError is    *)
(* neither a ToolCallFailed nor an HTTPError.                               *)
RedirectUnparseable(c) ==
    /\ FetchRequest(c, "redirect")
    /\ Answer(c, Raised)
    /\ UNCHANGED <<current, hops, retries, caches, served>>

Read(c) ==
    /\ FetchRequest(c, "page")
    /\ served' = served \cup {<<target[c], current[c]>>}
    /\ FinishFetch(c, Page(current[c]))
    /\ UNCHANGED <<current, hops, retries>>

(* An entry expires, or what is stored no longer parses.                    *)
Gone == {Nothing, Corrupt}

Expire(u) ==
    /\ cache[u] # Nothing
    /\ \E entry \in Gone \ {cache[u]} : cache' = [cache EXCEPT ![u] = entry]
    /\ UNCHANGED <<call, outcome, searched, calls, toolHistory>>

ExpireSearch ==
    /\ searched # Nothing
    /\ searched' \in Gone \ {searched}
    /\ UNCHANGED <<call, outcome, cache, calls, toolHistory>>

-----------------------------------------------------------------------------
ToolInit ==
    /\ phase = [c \in ToolCallers |-> "idle"]
    /\ target = [c \in ToolCallers |-> CHOOSE u \in Url : TRUE] /\ current = target
    /\ hops = [c \in ToolCallers |-> 0] /\ retries = hops
    /\ outcome = [c \in ToolCallers |-> Nothing]
    /\ cache = [u \in Url |-> Nothing] /\ searched = Nothing
    /\ calls = 0
    /\ last = [c \in ToolCallers |-> "none"]
    /\ served = {} /\ offered = [c \in ToolCallers |-> {}]

Begins(c) ==
    \/ Found(c) \/ Query(c) \/ QueryRejected(c)
    \/ \E u \in Url : Reject(c, u) \/ Cached(c, u) \/ Miss(c, u)

ToolSteps(c) ==
    \/ SearchRefused(c) \/ SearchUnreachable(c) \/ SearchAnswers(c)
    \/ RobotsRead(c) \/ RobotsUnread(c)
    \/ FetchRefused(c) \/ RedirectUnparseable(c) \/ Read(c)
    \/ \E u \in Url : Redirect(c, u)

ToolNext ==
    \/ \E c \in ToolCallers : Begins(c) \/ ToolSteps(c)
    \/ \E u \in Url : Expire(u)
    \/ ExpireSearch

ToolSpec == ToolInit /\ [][ToolNext]_toolVars

-----------------------------------------------------------------------------
ToolTypeOK ==
    /\ phase \in [ToolCallers -> {"idle", "search", "robots", "send"}]
    /\ target \in [ToolCallers -> Url] /\ current \in [ToolCallers -> Url]
    /\ hops \in [ToolCallers -> 0..MaxRedirects]
    /\ retries \in [ToolCallers -> 0..Len(FetchBackoff) + Len(SearchBackoff)]
    /\ \A c \in ToolCallers : outcome[c].kind \in
           {"nothing", "page", "unreachable", "failed", "results", "raised"}
    /\ cache \in [Url -> Gone \cup { Page(u) : u \in Url }
                         \cup { Unreachable(why) : why \in Reasons }]
    /\ searched.kind \in {"nothing", "corrupt", "results"}
    /\ calls \in 0..MaxCalls

(***************************************************************************)
(* A page a caller is given is one some site answered that URL with: never *)
(* a failure remembered from an earlier call, nor an entry that does not   *)
(* parse (fetch.py 118-133, _from_cache).                                  *)
(***************************************************************************)
Landed(u) == { v \in Url : <<u, v>> \in served }

GivenWasServed ==
    /\ \A c \in ToolCallers :
           phase[c] = "idle" /\ outcome[c].kind = "page" => outcome[c].url \in Landed(target[c])
    /\ \A u \in Url : cache[u] \in Gone \cup { Page(v) : v \in Landed(u) }

(***************************************************************************)
(* A result that cannot be used costs itself and no other: the URLs a      *)
(* search gives are those with a usable result, each once.                 *)
(***************************************************************************)
OneBadResultCostsItself ==
    \A c \in ToolCallers :
        last[c] = "results" =>
            IsInjective(outcome[c].urls) /\ ToSet(outcome[c].urls) = offered[c]
=============================================================================
