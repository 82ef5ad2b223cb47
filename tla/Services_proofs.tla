-------------------------- MODULE Services_proofs --------------------------
(***************************************************************************)
(* The rest of the parts that the graph's nodes and the worker stand on,   *)
(* and that what is proved of each part holds of the behaviours that       *)
(* Services composes of them.                                              *)
(***************************************************************************)
EXTENDS Services, LlmClient_proofs, Clocks_proofs

(***************************************************************************)
(* The tools of the agents.                                                *)
(***************************************************************************)

(***************************************************************************)
(* Each loop of a call stays within its own schedule, and what a finished  *)
(* call answered and what the cache holds were served.                     *)
(***************************************************************************)
CallerInv(c) ==
    /\ phase[c] = "search" => retries[c] <= Len(SearchBackoff)
    /\ phase[c] \in {"robots", "send"} => retries[c] <= Len(FetchBackoff)
    /\ phase[c] = "idle" /\ outcome[c].kind = "page" => outcome[c].url \in Landed(target[c])

CacheServed == \A u \in Url : cache[u] \in Gone \cup { Page(v) : v \in Landed(u) }

ToolInv ==
    /\ ToolTypeOK /\ DOMAIN outcome = ToolCallers
    /\ \A c \in ToolCallers : CallerInv(c)
    /\ CacheServed

LEMMA Kinds ==
    /\ Nothing.kind = "nothing" /\ Corrupt.kind = "corrupt" /\ Raised.kind = "raised"
    /\ \A u : Page(u).kind = "page" /\ Page(u).url = u
    /\ \A why : Unreachable(why).kind = "unreachable" /\ ToolCallFailed(why).kind = "failed"
    /\ \A s : Results(s).kind = "results"
BY DEF Nothing, Corrupt, Raised, Page, Unreachable, ToolCallFailed, Results

LEMMA Schedules ==
    /\ Len(FetchBackoff) \in Nat /\ Len(SearchBackoff) \in Nat
    /\ MaxRedirects \in Nat /\ MaxCalls \in Nat
BY WebToolsAssumption

(***************************************************************************)
(* A step of one call leaves the other calls' entries alone, and what was  *)
(* served stays served.                                                    *)
(***************************************************************************)
CallChanges(c) ==
    /\ ToolTypeOK' /\ DOMAIN outcome' = ToolCallers
    /\ \A d \in ToolCallers \ {c} :
           phase'[d] = phase[d] /\ target'[d] = target[d] /\ retries'[d] = retries[d]
           /\ outcome'[d] = outcome[d]
    /\ served \subseteq served'

LEMMA LandedGrows ==
    ASSUME served \subseteq served', NEW u PROVE Landed(u) \subseteq Landed(u)'
BY DEF Landed

LEMMA OneCall ==
    ASSUME ToolInv, NEW c \in ToolCallers, CallChanges(c), CallerInv(c)', CacheServed'
    PROVE  ToolInv'
<1>1. ASSUME NEW d \in ToolCallers \ {c} PROVE CallerInv(d)'
  <2>1. CallerInv(d) /\ target[d] \in Url BY DEF ToolInv, ToolTypeOK
  <2>2. /\ phase'[d] = phase[d] /\ target'[d] = target[d] /\ retries'[d] = retries[d]
        /\ outcome'[d] = outcome[d] /\ served \subseteq served'
    BY DEF CallChanges
  <2> QED BY <2>1, <2>2 DEF CallerInv, Landed
<1> QED BY <1>1 DEF ToolInv, CallChanges

LEMMA CacheKept ==
    ASSUME CacheServed, served \subseteq served', cache' = cache PROVE CacheServed'
<1>1. ASSUME NEW u \in Url PROVE cache'[u] \in Gone \cup { Page(v) : v \in Landed(u)' }
  <2>1. cache[u] \in Gone \cup { Page(v) : v \in Landed(u) } BY DEF CacheServed
  <2> QED BY <2>1, LandedGrows
<1> QED BY <1>1 DEF CacheServed

LEMMA InitTools == ToolInit => ToolInv
<1> SUFFICES ASSUME ToolInit PROVE ToolInv OBVIOUS
<1>1. (CHOOSE u \in Url : TRUE) \in Url BY WebToolsAssumption
<1>2. ToolTypeOK BY <1>1, Schedules, Kinds DEF ToolInit, ToolTypeOK, Gone
<1>3. ASSUME NEW c \in ToolCallers PROVE CallerInv(c)
  BY Schedules, Kinds DEF ToolInit, CallerInv
<1>4. CacheServed BY DEF ToolInit, CacheServed, Gone
<1> QED BY <1>2, <1>3, <1>4 DEF ToolInv, ToolInit

-----------------------------------------------------------------------------
(***************************************************************************)
(* What a call's beginning, its answer and its next phase change.          *)
(***************************************************************************)
AnswerKinds == {"nothing", "page", "unreachable", "failed", "results", "raised"}

Phases == {"idle", "search", "robots", "send"}

Same(f, g, c) == \A d \in ToolCallers \ {c} : g[d] = f[d]

LEMMA ToolTypes ==
    ASSUME ToolInv
    PROVE  /\ phase \in [ToolCallers -> Phases]
           /\ target \in [ToolCallers -> Url] /\ current \in [ToolCallers -> Url]
           /\ hops \in [ToolCallers -> 0..MaxRedirects]
           /\ retries \in [ToolCallers -> 0..Len(FetchBackoff) + Len(SearchBackoff)]
           /\ DOMAIN outcome = ToolCallers
           /\ \A d \in ToolCallers : outcome[d].kind \in AnswerKinds
           /\ cache \in [Url -> Gone \cup { Page(v) : v \in Url }
                                \cup { Unreachable(why) : why \in Reasons }]
           /\ searched.kind \in {"nothing", "corrupt", "results"} /\ calls \in 0..MaxCalls
BY DEF ToolInv, ToolTypeOK, AnswerKinds, Phases

LEMMA AnswersCall ==
    ASSUME ToolInv, NEW c \in ToolCallers, NEW o, o.kind \in AnswerKinds, Answer(c, o)
    PROVE  /\ phase' \in [ToolCallers -> Phases] /\ phase'[c] = "idle" /\ Same(phase, phase', c)
           /\ DOMAIN outcome' = ToolCallers /\ outcome'[c] = o /\ Same(outcome, outcome', c)
           /\ \A d \in ToolCallers : outcome'[d].kind \in AnswerKinds
BY ToolTypes DEF Answer, Same, Phases

LEMMA BeginEffect ==
    ASSUME ToolInv, NEW c \in ToolCallers, BeginCall(c)
    PROVE  /\ retries' \in [ToolCallers -> 0..Len(FetchBackoff) + Len(SearchBackoff)]
           /\ retries'[c] = 0 /\ Same(retries, retries', c)
           /\ calls' \in 0..MaxCalls /\ cache' = cache /\ searched' = searched /\ served' = served
           /\ CacheServed'
<1>1. cache' = cache /\ searched' = searched /\ served' = served BY DEF BeginCall, caches
<1>2. CacheServed' BY <1>1, CacheKept DEF ToolInv
<1> QED BY <1>1, <1>2, ToolTypes, Schedules DEF BeginCall, Same

LEMMA FetchCallEffect ==
    ASSUME ToolInv, NEW c \in ToolCallers, NEW u \in Url, FetchCall(c, u)
    PROVE  /\ target' \in [ToolCallers -> Url] /\ current' \in [ToolCallers -> Url]
           /\ target'[c] = u /\ Same(target, target', c)
           /\ hops' \in [ToolCallers -> 0..MaxRedirects]
BY ToolTypes, Schedules DEF FetchCall, Same

(***************************************************************************)
(* A step is accounted for by its types, by what it leaves of the others   *)
(* and by what it makes of its own call.                                   *)
(***************************************************************************)
LEMMA Accounted ==
    ASSUME ToolInv, NEW c \in ToolCallers,
           phase' \in [ToolCallers -> Phases], Same(phase, phase', c),
           target' \in [ToolCallers -> Url], Same(target, target', c),
           current' \in [ToolCallers -> Url],
           hops' \in [ToolCallers -> 0..MaxRedirects],
           retries' \in [ToolCallers -> 0..Len(FetchBackoff) + Len(SearchBackoff)],
           Same(retries, retries', c),
           DOMAIN outcome' = ToolCallers, Same(outcome, outcome', c),
           \A d \in ToolCallers : outcome'[d].kind \in AnswerKinds,
           cache' \in [Url -> Gone \cup { Page(v) : v \in Url }
                              \cup { Unreachable(why) : why \in Reasons }],
           searched'.kind \in {"nothing", "corrupt", "results"}, calls' \in 0..MaxCalls,
           served \subseteq served', CallerInv(c)', CacheServed'
    PROVE  ToolInv'
<1>1. ToolTypeOK' BY DEF ToolTypeOK, AnswerKinds, Phases, Gone, Page, Unreachable, Nothing, Corrupt
<1>2. CallChanges(c) BY <1>1 DEF CallChanges, Same
<1> QED BY <1>2, OneCall

LEMMA SameAsBefore == ASSUME NEW f, NEW c PROVE Same(f, f, c) BY DEF Same

(* A call that ends as it begins, or is on its way.                        *)
LEMMA FoundStep == ASSUME ToolInv, NEW c \in ToolCallers, Found(c) PROVE ToolInv'
<1>1. BeginCall(c) /\ Answer(c, searched) /\ UNCHANGED <<target, current, hops>> BY DEF Found
<1>2. searched.kind = "results" BY DEF Found
<1>3. searched.kind \in AnswerKinds BY <1>2 DEF AnswerKinds
<1>4. phase'[c] = "idle" /\ outcome'[c] = searched BY <1>1, <1>3, AnswersCall
<1>5. CallerInv(c)' BY <1>2, <1>4 DEF CallerInv
<1> QED BY <1>1, <1>3, <1>5, AnswersCall, BeginEffect, ToolTypes, SameAsBefore, Accounted

LEMMA QueryRejectedStep == ASSUME ToolInv, NEW c \in ToolCallers, QueryRejected(c) PROVE ToolInv'
<1> DEFINE answer == ToolCallFailed("invalid_query")
<1>1. BeginCall(c) /\ Answer(c, answer) /\ UNCHANGED <<target, current, hops>>
  BY DEF QueryRejected
<1>2. answer.kind = "failed" /\ answer.kind \in AnswerKinds BY Kinds DEF AnswerKinds
<1> HIDE DEF answer
<1>3. phase'[c] = "idle" /\ outcome'[c] = answer BY <1>1, <1>2, AnswersCall
<1>4. CallerInv(c)' BY <1>2, <1>3 DEF CallerInv
<1> QED BY <1>1, <1>2, <1>4, AnswersCall, BeginEffect, ToolTypes, SameAsBefore, Accounted

LEMMA QueryStep == ASSUME ToolInv, NEW c \in ToolCallers, Query(c) PROVE ToolInv'
<1>1. BeginCall(c) /\ UNCHANGED <<target, current, hops, outcome>> BY DEF Query
<1>2. /\ phase' \in [ToolCallers -> Phases] /\ phase'[c] = "search" /\ Same(phase, phase', c)
  BY ToolTypes DEF Query, Phases, Same
<1>3. CallerInv(c)' BY <1>1, <1>2, BeginEffect, Schedules DEF CallerInv
<1> QED BY <1>1, <1>2, <1>3, BeginEffect, ToolTypes, SameAsBefore, Accounted

LEMMA RejectStep ==
    ASSUME ToolInv, NEW c \in ToolCallers, NEW u \in Url, Reject(c, u) PROVE ToolInv'
<1> DEFINE answer == ToolCallFailed("blocked_url")
<1>1. FetchCall(c, u) /\ BeginCall(c) /\ Answer(c, answer) BY DEF Reject, FetchCall
<1>2. answer.kind = "failed" /\ answer.kind \in AnswerKinds BY Kinds DEF AnswerKinds
<1> HIDE DEF answer
<1>3. phase'[c] = "idle" /\ outcome'[c] = answer BY <1>1, <1>2, AnswersCall
<1>4. CallerInv(c)' BY <1>2, <1>3 DEF CallerInv
<1>8. /\ phase' \in [ToolCallers -> Phases] /\ Same(phase, phase', c)
      /\ DOMAIN outcome' = ToolCallers /\ Same(outcome, outcome', c)
      /\ \A d \in ToolCallers : outcome'[d].kind \in AnswerKinds
  BY <1>1, <1>2, AnswersCall
<1>9. /\ cache' \in [Url -> Gone \cup { Page(v) : v \in Url }
                           \cup { Unreachable(why) : why \in Reasons }]
      /\ searched'.kind \in {"nothing", "corrupt", "results"} /\ served \subseteq served'
  BY <1>1, BeginEffect, ToolTypes
<1> QED BY <1>1, <1>4, <1>8, <1>9, BeginEffect, FetchCallEffect, Accounted

(* A hit is an entry that parses, so a page that was served for that URL.   *)
LEMMA CachedStep ==
    ASSUME ToolInv, NEW c \in ToolCallers, NEW u \in Url, Cached(c, u) PROVE ToolInv'
<1>1. FetchCall(c, u) /\ BeginCall(c) /\ Answer(c, cache[u]) /\ cache[u].kind = "page"
  BY DEF Cached, FetchCall, Hit
<1>2. cache[u].kind \in AnswerKinds BY <1>1 DEF AnswerKinds
<1>3. cache[u] \in { Page(v) : v \in Landed(u) }
  BY <1>1, Kinds DEF ToolInv, CacheServed, Gone
<1>4. cache[u].url \in Landed(u) BY <1>3, Kinds
<1>5. phase'[c] = "idle" /\ outcome'[c] = cache[u] /\ target'[c] = u /\ served' = served
  BY <1>1, <1>2, AnswersCall, FetchCallEffect, BeginEffect
<1>6. CallerInv(c)' BY <1>4, <1>5 DEF CallerInv, Landed
<1>8. /\ phase' \in [ToolCallers -> Phases] /\ Same(phase, phase', c)
      /\ DOMAIN outcome' = ToolCallers /\ Same(outcome, outcome', c)
      /\ \A d \in ToolCallers : outcome'[d].kind \in AnswerKinds
  BY <1>1, <1>2, AnswersCall
<1>9. /\ cache' \in [Url -> Gone \cup { Page(v) : v \in Url }
                           \cup { Unreachable(why) : why \in Reasons }]
      /\ searched'.kind \in {"nothing", "corrupt", "results"} /\ served \subseteq served'
  BY <1>1, BeginEffect, ToolTypes
<1> QED BY <1>1, <1>6, <1>8, <1>9, BeginEffect, FetchCallEffect, Accounted

LEMMA MissStep ==
    ASSUME ToolInv, NEW c \in ToolCallers, NEW u \in Url, Miss(c, u) PROVE ToolInv'
<1>1. FetchCall(c, u) /\ BeginCall(c) /\ outcome' = outcome BY DEF Miss, FetchCall
<1>2. /\ phase' \in [ToolCallers -> Phases] /\ phase'[c] = "robots" /\ Same(phase, phase', c)
  BY ToolTypes DEF Miss, Phases, Same
<1>3. CallerInv(c)' BY <1>1, <1>2, BeginEffect, Schedules DEF CallerInv
<1> QED BY <1>1, <1>2, <1>3, BeginEffect, FetchCallEffect, ToolTypes, SameAsBefore, Accounted

-----------------------------------------------------------------------------
(***************************************************************************)
(* The search and its retries.                                             *)
(***************************************************************************)
LEMMA SearchRefusedStep ==
    ASSUME ToolInv, NEW c \in ToolCallers, SearchRefused(c) PROVE ToolInv'
<1> DEFINE answer == ToolCallFailed("search_unavailable")
<1>1. Answer(c, answer) /\ UNCHANGED <<target, current, hops, retries, cache, searched, calls, served>>
  BY DEF SearchRefused, caches
<1>2. answer.kind = "failed" /\ answer.kind \in AnswerKinds BY Kinds DEF AnswerKinds
<1> HIDE DEF answer
<1>3. phase'[c] = "idle" /\ outcome'[c] = answer BY <1>1, <1>2, AnswersCall
<1>4. CallerInv(c)' BY <1>2, <1>3 DEF CallerInv
<1>5. CacheServed' BY <1>1, CacheKept DEF ToolInv
<1> QED BY <1>1, <1>2, <1>4, <1>5, AnswersCall, ToolTypes, SameAsBefore, Accounted

LEMMA SearchUnreachableStep ==
    ASSUME ToolInv, NEW c \in ToolCallers, SearchUnreachable(c) PROVE ToolInv'
<1> DEFINE answer == ToolCallFailed("search_unavailable")
<1>1. UNCHANGED <<target, current, hops, cache, searched, calls, served>> /\ phase[c] = "search"
  BY DEF SearchUnreachable, caches
<1>2. CacheServed' BY <1>1, CacheKept DEF ToolInv
<1>3. CASE retries[c] = Len(SearchBackoff)
  <2>1. Answer(c, answer) /\ retries' = retries BY <1>3 DEF SearchUnreachable
  <2>2. answer.kind = "failed" /\ answer.kind \in AnswerKinds BY Kinds DEF AnswerKinds
  <2> HIDE DEF answer
  <2>3. phase'[c] = "idle" /\ outcome'[c] = answer BY <2>1, <2>2, AnswersCall
  <2>4. CallerInv(c)' BY <2>2, <2>3 DEF CallerInv
  <2> QED BY <1>1, <1>2, <2>1, <2>2, <2>4, AnswersCall, ToolTypes, SameAsBefore, Accounted
<1>4. CASE retries[c] # Len(SearchBackoff)
  <2>1. Retry(c) /\ phase' = phase /\ outcome' = outcome BY <1>4 DEF SearchUnreachable
  <2>2. retries[c] <= Len(SearchBackoff) BY <1>1 DEF ToolInv, CallerInv
  <2>3. /\ retries' \in [ToolCallers -> 0..Len(FetchBackoff) + Len(SearchBackoff)]
        /\ Same(retries, retries', c) /\ retries'[c] <= Len(SearchBackoff)
    BY <1>4, <2>1, <2>2, ToolTypes, Schedules DEF Retry, Same
  <2>4. CallerInv(c)' BY <1>1, <2>1, <2>3 DEF CallerInv
  <2> QED BY <1>1, <1>2, <2>1, <2>3, <2>4, ToolTypes, SameAsBefore, Accounted
<1> QED BY <1>3, <1>4

LEMMA SearchAnswersStep ==
    ASSUME ToolInv, NEW c \in ToolCallers, SearchAnswers(c) PROVE ToolInv'
<1>1. UNCHANGED <<target, current, hops, retries, cache, calls, served>> BY DEF SearchAnswers
<1>2. PICK raw \in SeqOf(Raw, MaxRaw) :
        /\ Answer(c, Results(Normalize(raw))) /\ searched' \in {searched, Results(Normalize(raw))}
  BY DEF SearchAnswers
<1> DEFINE given == Results(Normalize(raw))
<1>3. given.kind = "results" /\ given.kind \in AnswerKinds BY Kinds DEF AnswerKinds
<1>4. Answer(c, given) /\ searched' \in {searched, given} BY <1>2
<1> HIDE DEF given
<1>5. phase'[c] = "idle" /\ outcome'[c] = given BY <1>3, <1>4, AnswersCall
<1>6. CallerInv(c)' BY <1>3, <1>5 DEF CallerInv
<1>7. CacheServed' BY <1>1, CacheKept DEF ToolInv
<1>8. searched'.kind \in {"nothing", "corrupt", "results"} BY <1>3, <1>4, ToolTypes
<1> QED BY <1>1, <1>3, <1>4, <1>6, <1>7, <1>8, AnswersCall, ToolTypes, SameAsBefore, Accounted

-----------------------------------------------------------------------------
(***************************************************************************)
(* The fetch and its retries.                                              *)
(***************************************************************************)
LEMMA OntoTheWire ==
    ASSUME ToolInv, NEW c \in ToolCallers, phase[c] = "robots",
           phase' = [phase EXCEPT ![c] = "send"],
           UNCHANGED <<target, current, hops, retries, outcome, caches, calls, toolHistory>>
    PROVE  ToolInv'
<1>1. UNCHANGED <<target, current, hops, retries, outcome, cache, searched, calls, served>>
  BY DEF caches, toolHistory
<1>2. /\ phase' \in [ToolCallers -> Phases] /\ phase'[c] = "send" /\ Same(phase, phase', c)
  BY ToolTypes DEF Phases, Same
<1>3. CallerInv(c) BY DEF ToolInv
<1>4. CallerInv(c)' BY <1>1, <1>2, <1>3 DEF CallerInv
<1>5. CacheServed' BY <1>1, CacheKept DEF ToolInv
<1> QED BY <1>1, <1>2, <1>4, <1>5, ToolTypes, SameAsBefore, Accounted

LEMMA RobotsReadStep == ASSUME ToolInv, NEW c \in ToolCallers, RobotsRead(c) PROVE ToolInv'
<1> DEFINE answer == Unreachable("robots_denied")
<1>1. UNCHANGED <<target, current, hops, retries, cache, searched, calls, served>>
  BY DEF RobotsRead, caches, toolHistory
<1>2. CASE Answer(c, answer)
  <2>1. answer.kind = "unreachable" /\ answer.kind \in AnswerKinds BY Kinds DEF AnswerKinds
  <2>2. Answer(c, answer) BY <1>2
  <2> HIDE DEF answer
  <2>3. phase'[c] = "idle" /\ outcome'[c] = answer BY <2>1, <2>2, AnswersCall
  <2>4. CallerInv(c)' BY <2>1, <2>3 DEF CallerInv
  <2>5. CacheServed' BY <1>1, CacheKept DEF ToolInv
  <2> QED BY <1>1, <2>1, <2>2, <2>4, <2>5, AnswersCall, ToolTypes, SameAsBefore, Accounted
<1>3. CASE phase' = [phase EXCEPT ![c] = "send"] /\ outcome' = outcome
  BY <1>3, OntoTheWire DEF RobotsRead
<1> QED BY <1>2, <1>3 DEF RobotsRead

LEMMA RobotsUnreadStep == ASSUME ToolInv, NEW c \in ToolCallers, RobotsUnread(c) PROVE ToolInv'
BY OntoTheWire DEF RobotsUnread

(* A call gives up with what is no page, and nothing of it is cached.       *)
LEMMA GivenUp ==
    ASSUME ToolInv, NEW c \in ToolCallers, NEW why,
           FinishFetch(c, Unreachable(why)),
           UNCHANGED <<retries, current, hops, target, calls, served>>
    PROVE  ToolInv'
<1> DEFINE answer == Unreachable(why)
<1>1. answer.kind = "unreachable" /\ answer.kind \in AnswerKinds BY Kinds DEF AnswerKinds
<1>2. Answer(c, answer) /\ searched' = searched /\ cache' = cache
  BY <1>1 DEF FinishFetch, Cacheable
<1> HIDE DEF answer
<1>3. phase'[c] = "idle" /\ outcome'[c] = answer BY <1>1, <1>2, AnswersCall
<1>4. CallerInv(c)' BY <1>1, <1>3 DEF CallerInv
<1>5. CacheServed' BY <1>2, CacheKept DEF ToolInv
<1> QED BY <1>1, <1>2, <1>4, <1>5, AnswersCall, ToolTypes, SameAsBefore, Accounted

LEMMA FailedStep ==
    ASSUME ToolInv, NEW c \in ToolCallers, NEW why, Failed(c, why), phase[c] = "send",
           UNCHANGED <<target, calls, served>>
    PROVE  ToolInv'
<1>1. CASE why \in Retryable /\ retries[c] < Len(FetchBackoff)
  <2>1. /\ Retry(c) /\ current' = [current EXCEPT ![c] = target[c]]
        /\ hops' = [hops EXCEPT ![c] = 0]
        /\ UNCHANGED <<phase, outcome, cache, searched>>
    BY <1>1 DEF Failed, caches
  <2>2. /\ retries' \in [ToolCallers -> 0..Len(FetchBackoff) + Len(SearchBackoff)]
        /\ Same(retries, retries', c) /\ retries'[c] <= Len(FetchBackoff)
    BY <1>1, <2>1, ToolTypes, Schedules DEF Retry, Same
  <2>3. current' \in [ToolCallers -> Url] /\ hops' \in [ToolCallers -> 0..MaxRedirects]
    BY <2>1, ToolTypes, Schedules
  <2>4. CallerInv(c)' BY <2>1, <2>2 DEF CallerInv
  <2>5. CacheServed' BY <2>1, CacheKept DEF ToolInv
  <2> QED BY <2>1, <2>2, <2>3, <2>4, <2>5, ToolTypes, SameAsBefore, Accounted
<1>2. CASE ~ (why \in Retryable /\ retries[c] < Len(FetchBackoff))
  BY <1>2, GivenUp DEF Failed
<1> QED BY <1>1, <1>2

LEMMA FetchRefusedStep == ASSUME ToolInv, NEW c \in ToolCallers, FetchRefused(c) PROVE ToolInv'
<1>1. PICK why \in {"timeout", "http_error"} : FetchRequest(c, why) /\ Failed(c, why)
  BY DEF FetchRefused
<1> QED BY <1>1, FailedStep DEF FetchRefused, FetchRequest

LEMMA RedirectStep ==
    ASSUME ToolInv, NEW c \in ToolCallers, NEW u \in Url, Redirect(c, u) PROVE ToolInv'
<1>1. phase[c] = "send" /\ UNCHANGED <<target, calls, served>> BY DEF Redirect, FetchRequest
<1>2. CASE Failed(c, "redirect_blocked") \/ Failed(c, "too_many_redirects")
  BY <1>1, <1>2, FailedStep
<1>3. CASE /\ ~ TooMany(c) /\ current' = [current EXCEPT ![c] = u]
           /\ hops' = [hops EXCEPT ![c] = @ + 1]
           /\ UNCHANGED <<phase, retries, outcome, caches>>
  <2>1. UNCHANGED <<phase, retries, outcome, cache, searched>> BY <1>3 DEF caches
  <2>2. current' \in [ToolCallers -> Url] /\ hops' \in [ToolCallers -> 0..MaxRedirects]
    BY <1>3, ToolTypes, Schedules DEF TooMany
  <2>3. CallerInv(c)' BY <1>1, <2>1 DEF ToolInv, CallerInv
  <2>4. CacheServed' BY <1>1, <2>1, CacheKept DEF ToolInv
  <2> QED BY <1>1, <2>1, <2>2, <2>3, <2>4, ToolTypes, SameAsBefore, Accounted
<1> QED BY <1>2, <1>3 DEF Redirect

LEMMA UnparseableStep ==
    ASSUME ToolInv, NEW c \in ToolCallers, RedirectUnparseable(c) PROVE ToolInv'
<1>1. /\ Answer(c, Raised)
      /\ UNCHANGED <<target, current, hops, retries, cache, searched, calls, served>>
  BY DEF RedirectUnparseable, FetchRequest, caches
<1>2. Raised.kind = "raised" /\ Raised.kind \in AnswerKinds BY Kinds DEF AnswerKinds
<1>3. phase'[c] = "idle" /\ outcome'[c] = Raised BY <1>1, <1>2, AnswersCall
<1>4. CallerInv(c)' BY <1>2, <1>3 DEF CallerInv
<1>5. CacheServed' BY <1>1, CacheKept DEF ToolInv
<1> QED BY <1>1, <1>2, <1>4, <1>5, AnswersCall, ToolTypes, SameAsBefore, Accounted

(* The page is served, answered and perhaps cached in one step.            *)
LEMMA ReadStepOfTools == ASSUME ToolInv, NEW c \in ToolCallers, Read(c) PROVE ToolInv'
<1> DEFINE page == Page(current[c])
<1>1. /\ Answer(c, page) /\ served' = served \cup {<<target[c], current[c]>>}
      /\ UNCHANGED <<target, current, hops, retries, searched, calls>>
      /\ cache' = [cache EXCEPT ![target[c]] = page] \/ cache' = cache
  BY DEF Read, FetchRequest, FinishFetch
<1>2. /\ page.kind = "page" /\ page.kind \in AnswerKinds /\ page.url = current[c]
      /\ page \in { Page(v) : v \in Url }
  BY Kinds, ToolTypes DEF AnswerKinds
<1>3. page \in { Page(v) : v \in Landed(target[c])' } /\ current[c] \in Landed(target[c])'
  BY <1>1, ToolTypes DEF Landed
<1> HIDE DEF page
<1>4. phase'[c] = "idle" /\ outcome'[c] = page BY <1>1, <1>2, AnswersCall
<1>5. CallerInv(c)' BY <1>1, <1>2, <1>3, <1>4 DEF CallerInv
<1>6. cache' \in [Url -> Gone \cup { Page(v) : v \in Url }
                          \cup { Unreachable(why) : why \in Reasons }]
  BY <1>1, <1>2, ToolTypes
<1>7. CacheServed'
  <2> SUFFICES ASSUME NEW u \in Url PROVE cache'[u] \in Gone \cup { Page(v) : v \in Landed(u)' }
    BY DEF CacheServed
  <2>1. cache[u] \in Gone \cup { Page(v) : v \in Landed(u)' }
    BY <1>1, LandedGrows DEF ToolInv, CacheServed
  <2>2. u = target[c] => page \in { Page(v) : v \in Landed(u)' } BY <1>1, <1>3 DEF Landed
  <2> QED BY <1>1, <2>1, <2>2, ToolTypes
<1> QED BY <1>1, <1>2, <1>5, <1>6, <1>7, AnswersCall, ToolTypes, SameAsBefore, Accounted

-----------------------------------------------------------------------------
LEMMA CallersKept ==
    ASSUME ToolInv, UNCHANGED <<call, outcome, calls, toolHistory>>,
           cache' \in [Url -> Gone \cup { Page(v) : v \in Url }
                              \cup { Unreachable(why) : why \in Reasons }],
           searched'.kind \in {"nothing", "corrupt", "results"}, CacheServed'
    PROVE  ToolInv'
<1>1. UNCHANGED <<phase, target, current, hops, retries, outcome, calls, served>>
  BY DEF call, toolHistory
<1>2. ToolTypeOK' BY <1>1 DEF ToolInv, ToolTypeOK
<1>3. \A c \in ToolCallers : CallerInv(c)' BY <1>1 DEF ToolInv, CallerInv, Landed
<1> QED BY <1>1, <1>2, <1>3 DEF ToolInv

LEMMA ExpireStep == ASSUME ToolInv, NEW u \in Url, Expire(u) PROVE ToolInv'
<1>1. PICK entry \in Gone : cache' = [cache EXCEPT ![u] = entry] BY DEF Expire
<1>2. UNCHANGED <<call, outcome, searched, calls, toolHistory>> /\ served' = served
  BY DEF Expire, toolHistory
<1>3. cache' \in [Url -> Gone \cup { Page(v) : v \in Url }
                          \cup { Unreachable(why) : why \in Reasons }]
  BY <1>1, ToolTypes
<1>4. CacheServed'
  <2> SUFFICES ASSUME NEW w \in Url PROVE cache'[w] \in Gone \cup { Page(v) : v \in Landed(w)' }
    BY DEF CacheServed
  <2>1. cache[w] \in Gone \cup { Page(v) : v \in Landed(w)' }
    BY <1>2, LandedGrows DEF ToolInv, CacheServed
  <2> QED BY <1>1, <2>1, ToolTypes
<1> QED BY <1>2, <1>3, <1>4, ToolTypes, CallersKept

LEMMA ExpireSearchStep == ASSUME ToolInv, ExpireSearch PROVE ToolInv'
<1>1. UNCHANGED <<call, outcome, cache, calls, toolHistory>> /\ served' = served /\ searched' \in Gone
  BY DEF ExpireSearch, toolHistory
<1>2. CacheServed' BY <1>1, CacheKept DEF ToolInv
<1>3. searched'.kind \in {"nothing", "corrupt", "results"} BY <1>1, Kinds DEF Gone
<1> QED BY <1>1, <1>2, <1>3, ToolTypes, CallersKept

LEMMA ToolStutter == ASSUME ToolInv, UNCHANGED toolVars PROVE ToolInv'
<1>1. UNCHANGED <<call, outcome, cache, searched, calls, toolHistory>> /\ served' = served
  BY DEF toolVars, caches, toolHistory
<1>2. CacheServed' BY <1>1, CacheKept DEF ToolInv
<1> QED BY <1>1, <1>2, ToolTypes, CallersKept

LEMMA ToolsInvariant == ToolSpec => []ToolInv
<1>1. ToolInv /\ [ToolNext]_toolVars => ToolInv'
  <2> SUFFICES ASSUME ToolInv, [ToolNext]_toolVars PROVE ToolInv' OBVIOUS
  <2>1. CASE UNCHANGED toolVars BY <2>1, ToolStutter
  <2>2. ASSUME NEW c \in ToolCallers, Begins(c) PROVE ToolInv'
    BY <2>2, FoundStep, QueryStep, QueryRejectedStep, RejectStep, CachedStep, MissStep DEF Begins
  <2>3. ASSUME NEW c \in ToolCallers, ToolSteps(c) PROVE ToolInv'
    BY <2>3, SearchRefusedStep, SearchUnreachableStep, SearchAnswersStep, RobotsReadStep,
       RobotsUnreadStep, FetchRefusedStep, UnparseableStep, ReadStepOfTools, RedirectStep
       DEF ToolSteps
  <2> QED BY <2>1, <2>2, <2>3, ExpireStep, ExpireSearchStep DEF ToolNext
<1> QED BY <1>1, InitTools, PTL DEF ToolSpec

(***************************************************************************)
(* The tools' variables stay in their sets; a fetch follows no more        *)
(* redirects and makes no more retries than its schedule has.              *)
(***************************************************************************)
THEOREM ToolStateTypes == ToolSpec => []ToolTypeOK
<1>1. ToolInv => ToolTypeOK BY DEF ToolInv
<1> QED BY <1>1, ToolsInvariant, PTL

(***************************************************************************)
(* For any number of callers, URLs, redirects and retries: the page a call *)
(* is given, and every page in the cache, is one a site served for that    *)
(* very URL (tools/fetch.py, fetch and _from_cache).                       *)
(***************************************************************************)
THEOREM PagesWereServed == ToolSpec => []GivenWasServed
<1>1. ToolInv => GivenWasServed BY DEF ToolInv, CallerInv, CacheServed, GivenWasServed
<1> QED BY <1>1, ToolsInvariant, PTL

-----------------------------------------------------------------------------
(***************************************************************************)
(* What _normalize has kept of the first n results: the URLs of the usable *)
(* ones, each once.                                                        *)
(***************************************************************************)
Keeps(raw, f) ==
    f = [n \in 0..Len(raw) |->
            IF n = 0 THEN <<>>
            ELSE IF Kept(raw, n) THEN Append(f[n - 1], raw[n].url) ELSE f[n - 1]]

UsableUpto(raw, n) == { raw[i].url : i \in { j \in 1..n : Sound(raw[j]) } }

Once(s, usable) == s \in Seq(Url) /\ IsInjective(s) /\ ToSet(s) = usable

LEMMA NothingKept == Once(<<>>, {})
BY DEF Once, IsInjective, ToSet

LEMMA OneMoreKept ==
    ASSUME NEW usable, NEW s, Once(s, usable), NEW u \in Url, u \notin usable
    PROVE  Once(Append(s, u), usable \cup {u})
<1>1. s \in Seq(Url) /\ ToSet(s) = usable /\ IsInjective(s) BY DEF Once
<1> DEFINE t == Append(s, u)
           n == Len(s)
<1>2. /\ n \in Nat /\ t \in Seq(Url) /\ Len(t) = n + 1 /\ t[n + 1] = u
      /\ \A i \in 1..n : t[i] = s[i]
  BY <1>1, AppendProperties
<1>3. DOMAIN s = 1..n /\ DOMAIN t = 1..n + 1 BY <1>1, <1>2, LenProperties
<1>4. \A i \in 1..n + 1 : i \in 1..n \/ i = n + 1 BY <1>2
<1>5. \A i \in 1..n : s[i] \in usable BY <1>1, <1>3 DEF ToSet
<1> HIDE DEF t, n
<1>6. IsInjective(t)
  <2>1. \A i, j \in 1..n : s[i] = s[j] => i = j BY <1>1, <1>3 DEF IsInjective
  <2>2. \A i \in 1..n : t[i] # u BY <1>2, <1>5
  <2>3. \A i, j \in 1..n + 1 : t[i] = t[j] => i = j
    <3> SUFFICES ASSUME NEW i \in 1..n + 1, NEW j \in 1..n + 1, t[i] = t[j] PROVE i = j OBVIOUS
    <3>1. CASE i \in 1..n /\ j \in 1..n BY <1>2, <2>1, <3>1
    <3>2. CASE i = n + 1 /\ j = n + 1 BY <3>2
    <3>3. CASE i = n + 1 /\ j \in 1..n BY <1>2, <2>2, <3>3
    <3>4. CASE j = n + 1 /\ i \in 1..n BY <1>2, <2>2, <3>4
    <3> QED BY <1>4, <3>1, <3>2, <3>3, <3>4
  <2> QED BY <1>3, <2>3 DEF IsInjective
<1>7. ToSet(t) = usable \cup {u}
  <2>1. \A x : x \in ToSet(t) <=> \E i \in 1..n + 1 : t[i] = x BY <1>3 DEF ToSet
  <2>2. \A x : x \in usable <=> \E i \in 1..n : s[i] = x BY <1>1, <1>3 DEF ToSet
  <2>3. n + 1 \in 1..n + 1 /\ 1..n \subseteq 1..n + 1 BY <1>2
  <2>4. ASSUME NEW x PROVE x \in ToSet(t) <=> x \in usable \cup {u}
    <3>1. (\E i \in 1..n + 1 : t[i] = x) => x \in usable \cup {u} BY <1>2, <1>4, <1>5
    <3>2. x \in usable \cup {u} => \E i \in 1..n + 1 : t[i] = x BY <1>2, <2>2, <2>3
    <3> QED BY <2>1, <3>1, <3>2
  <2> QED BY <2>4
<1> QED BY <1>2, <1>6, <1>7 DEF Once, t

LEMMA KeepsExist ==
    ASSUME NEW raw \in Seq(Raw) PROVE \E f : Keeps(raw, f)
<1> DEFINE Run(n, f) ==
               /\ f[0] = <<>>
               /\ \A i \in 1..n :
                    f[i] = IF Kept(raw, i) THEN Append(f[i - 1], raw[i].url) ELSE f[i - 1]
           Upto(n) == \E f : f = [i \in 0..n |-> f[i]] /\ Run(n, f)
           S == { n \in Nat : Upto(n) }
<1>1. 0 \in S
  <2> DEFINE f == [i \in 0..0 |-> <<>>]
  <2>1. f = [i \in 0..0 |-> f[i]] /\ Run(0, f) OBVIOUS
  <2>2. Upto(0) BY <2>1
  <2> HIDE DEF Upto
  <2> QED BY <2>2
<1>2. ASSUME NEW n \in Nat, Upto(n) PROVE Upto(n + 1)
  <2>1. PICK f : Run(n, f) BY <1>2
  <2> DEFINE more == IF Kept(raw, n + 1) THEN Append(f[n], raw[n + 1].url) ELSE f[n]
             g == [i \in 0..n + 1 |-> IF i <= n THEN f[i] ELSE more]
  <2>2. g = [i \in 0..n + 1 |-> g[i]] OBVIOUS
  <2>3. (\A i \in 0..n : g[i] = f[i]) /\ g[n + 1] = more
    <3> HIDE DEF more
    <3> QED BY <1>2
  <2> HIDE DEF g
  <2>4. g[0] = <<>> BY <1>2, <2>1, <2>3
  <2>5. \A i \in 1..n :
            g[i] = IF Kept(raw, i) THEN Append(g[i - 1], raw[i].url) ELSE g[i - 1]
    <3>1. \A i \in 1..n : i \in 0..n /\ i - 1 \in 0..n BY <1>2
    <3> QED BY <2>1, <2>3, <3>1
  <2>6. g[n + 1] = IF Kept(raw, n + 1) THEN Append(g[(n + 1) - 1], raw[n + 1].url)
                   ELSE g[(n + 1) - 1]
    <3>1. (n + 1) - 1 = n /\ n \in 0..n BY <1>2
    <3> QED BY <2>3, <3>1
  <2>7. \A i \in 1..n + 1 : i \in 1..n \/ i = n + 1 BY <1>2
  <2>8. Run(n + 1, g) BY <2>4, <2>5, <2>6, <2>7
  <2> HIDE DEF Run
  <2> QED BY <2>2, <2>8
<1>3. ASSUME NEW n \in Nat, n \in S PROVE n + 1 \in S
  <2> HIDE DEF Upto
  <2> QED BY <1>2, <1>3
<1>4. Len(raw) \in Nat BY LenProperties
<1>5. Upto(Len(raw))
  <2> HIDE DEF Upto
  <2>1. Nat \subseteq S
    <3> HIDE DEF S
    <3> QED BY <1>1, <1>3, Counting
  <2> QED BY <1>4, <2>1
<1>6. PICK f : f = [i \in 0..Len(raw) |-> f[i]] /\ Run(Len(raw), f) BY <1>5
<1>7. \A i \in 0..Len(raw) :
        f[i] = IF i = 0 THEN <<>>
               ELSE IF Kept(raw, i) THEN Append(f[i - 1], raw[i].url) ELSE f[i - 1]
  <2>1. \A i \in 0..Len(raw) : i = 0 \/ i \in 1..Len(raw) BY <1>4
  <2> QED BY <1>6, <2>1
<1>8. Keeps(raw, f) BY <1>6, <1>7 DEF Keeps
<1> QED BY <1>8

LEMMA KeepsOnce ==
    ASSUME NEW raw \in Seq(Raw) PROVE Once(Normalize(raw), { r.url : r \in Usable(raw) })
<1> DEFINE f == CHOOSE g : Keeps(raw, g)
           S == { n \in Nat : n <= Len(raw) => Once(f[n], UsableUpto(raw, n)) }
<1>0. Len(raw) \in Nat /\ DOMAIN raw = 1..Len(raw) /\ \A i \in 1..Len(raw) : raw[i] \in Raw
  BY LenProperties, ElementOfSeq
<1>1. Keeps(raw, f) BY KeepsExist
<1>2. Normalize(raw) = f[Len(raw)] BY DEF Normalize, Keeps
<1> HIDE DEF f
<1>3. \A n \in 0..Len(raw) :
        f[n] = IF n = 0 THEN <<>>
               ELSE IF Kept(raw, n) THEN Append(f[n - 1], raw[n].url) ELSE f[n - 1]
  BY <1>1 DEF Keeps
<1>4. Once(f[0], UsableUpto(raw, 0))
  <2>1. f[0] = <<>> BY <1>0, <1>3
  <2>2. UsableUpto(raw, 0) = {} BY DEF UsableUpto
  <2> QED BY <2>1, <2>2, NothingKept
<1>5. ASSUME NEW n \in Nat, n + 1 <= Len(raw), Once(f[n], UsableUpto(raw, n))
      PROVE  Once(f[n + 1], UsableUpto(raw, n + 1))
  <2>1. n + 1 \in 0..Len(raw) /\ n + 1 # 0 /\ (n + 1) - 1 = n /\ n + 1 \in 1..Len(raw)
    BY <1>0, <1>5
  <2>2. f[n + 1] = IF Kept(raw, n + 1) THEN Append(f[n], raw[n + 1].url) ELSE f[n]
    BY <1>3, <2>1
  <2>3. raw[n + 1].url \in Url BY <1>0, <2>1 DEF Raw
  <2>4. \A i \in 1..n + 1 : i \in 1..n \/ i = n + 1 BY <1>5
  <2>5. 1..n \subseteq 1..n + 1 /\ n + 1 \in 1..n + 1 BY <1>5
  <2>6. Kept(raw, n + 1) <=> Sound(raw[n + 1]) /\ raw[n + 1].url \notin UsableUpto(raw, n)
    BY <2>1 DEF Kept, UsableUpto
  <2>7. Sound(raw[n + 1]) => UsableUpto(raw, n + 1) = UsableUpto(raw, n) \cup {raw[n + 1].url}
    BY <2>4, <2>5 DEF UsableUpto
  <2>8. ~ Sound(raw[n + 1]) => UsableUpto(raw, n + 1) = UsableUpto(raw, n)
    BY <2>4, <2>5 DEF UsableUpto
  <2>9. CASE Kept(raw, n + 1)
    BY <1>5, <2>2, <2>3, <2>6, <2>7, <2>9, OneMoreKept
  <2>10. CASE ~ Kept(raw, n + 1)
    <3>1. UsableUpto(raw, n + 1) = UsableUpto(raw, n) BY <2>6, <2>7, <2>8, <2>10
    <3> QED BY <1>5, <2>2, <2>10, <3>1
  <2> QED BY <2>9, <2>10
<1>6. ASSUME NEW n \in Nat, n \in S PROVE n + 1 \in S
  <2>1. n + 1 <= Len(raw) => Once(f[n], UsableUpto(raw, n)) BY <1>0, <1>6
  <2> QED BY <1>5, <2>1
<1>7. Len(raw) \in S
  <2>1. 0 \in S BY <1>4
  <2> HIDE DEF S
  <2> QED BY <1>0, <1>6, <2>1, Counting
<1>8. UsableUpto(raw, Len(raw)) = { r.url : r \in Usable(raw) }
  <2>1. \A r : r \in Usable(raw) <=> \E i \in 1..Len(raw) : raw[i] = r /\ Sound(r)
    BY <1>0 DEF Usable, ToSet
  <2>2. \A u : u \in { r.url : r \in Usable(raw) } <=> \E r \in Usable(raw) : u = r.url OBVIOUS
  <2>3. \A u : u \in UsableUpto(raw, Len(raw))
                 <=> \E i \in 1..Len(raw) : Sound(raw[i]) /\ u = raw[i].url
    BY DEF UsableUpto
  <2> QED BY <2>1, <2>2, <2>3
<1>9. Once(f[Len(raw)], UsableUpto(raw, Len(raw))) BY <1>0, <1>7
<1> HIDE DEF S
<1> QED BY <1>2, <1>8, <1>9

(***************************************************************************)
(* What a search answered stands until the call's next one begins.         *)
(***************************************************************************)
SearchInv ==
    /\ DOMAIN last = ToolCallers /\ DOMAIN offered = ToolCallers
    /\ \A c \in ToolCallers :
           last[c] = "results" => phase[c] = "idle" /\ Once(outcome[c].urls, offered[c])

LEMMA SearchKept ==
    ASSUME SearchInv, NEW c \in ToolCallers,
           DOMAIN last' = ToolCallers, DOMAIN offered' = ToolCallers,
           \A d \in ToolCallers \ {c} : /\ phase'[d] = phase[d] /\ outcome'[d] = outcome[d]
                                        /\ last'[d] = last[d] /\ offered'[d] = offered[d],
           last'[c] = "results" => phase'[c] = "idle" /\ Once(outcome'[c].urls, offered'[c])
    PROVE  SearchInv'
<1>1. ASSUME NEW d \in ToolCallers
      PROVE  last'[d] = "results" => phase'[d] = "idle" /\ Once(outcome'[d].urls, offered'[d])
  BY <1>1 DEF SearchInv
<1>2. ASSUME NEW d \in ToolCallers
      PROVE  Once(outcome[d].urls, offered[d])' = Once(outcome'[d].urls, offered'[d])
  BY DEF Once
<1> QED BY <1>1, <1>2 DEF SearchInv

(***************************************************************************)
(* No step but SearchAnswers leaves a call answered with results.          *)
(***************************************************************************)
Outcomes(c) ==
    /\ phase' = phase \/ \E p : phase' = [phase EXCEPT ![c] = p]
    /\ outcome' = outcome \/ \E o : outcome' = [outcome EXCEPT ![c] = o]

LEMMA FinishOutcomes ==
    ASSUME NEW c, NEW why, Failed(c, why) PROVE Outcomes(c)
BY DEF Failed, FinishFetch, Answer, Outcomes

LEMMA BeginsQuietly ==
    ASSUME NEW c \in ToolCallers, Begins(c)
    PROVE  /\ last' = [last EXCEPT ![c] = "none"] /\ offered' = [offered EXCEPT ![c] = {}]
           /\ Outcomes(c)
<1>1. CASE Found(c) \/ Query(c) \/ QueryRejected(c)
  BY <1>1 DEF Found, Query, QueryRejected, BeginCall, Answer, Outcomes
<1>2. CASE \E u \in Url : Reject(c, u) \/ Cached(c, u) \/ Miss(c, u)
  BY <1>2 DEF Reject, Cached, Miss, FetchCall, BeginCall, Answer, Outcomes
<1> QED BY <1>1, <1>2 DEF Begins

LEMMA StepsQuietly ==
    ASSUME NEW c \in ToolCallers, ToolSteps(c), ~ SearchAnswers(c)
    PROVE  /\ \/ last' = last /\ phase[c] # "idle"
              \/ \E why : why # "results" /\ last' = [last EXCEPT ![c] = why]
           /\ offered' = offered /\ Outcomes(c)
<1>1. CASE SearchRefused(c) \/ SearchUnreachable(c)
  BY <1>1 DEF SearchRefused, SearchUnreachable, Requested, Answer, Outcomes
<1>2. CASE RobotsRead(c) \/ RobotsUnread(c)
  BY <1>2 DEF RobotsRead, RobotsUnread, toolHistory, Answer, Outcomes
<1>3. CASE FetchRefused(c)
  <2>1. PICK why \in {"timeout", "http_error"} : FetchRequest(c, why) /\ Failed(c, why)
    BY <1>3 DEF FetchRefused
  <2>2. why # "results" /\ last' = [last EXCEPT ![c] = why] /\ offered' = offered
    BY <2>1 DEF FetchRequest, Requested
  <2> QED BY <2>1, <2>2, FinishOutcomes
<1>4. CASE RedirectUnparseable(c)
  BY <1>4 DEF RedirectUnparseable, FetchRequest, Requested, Answer, Outcomes
<1>5. CASE Read(c)
  BY <1>5 DEF Read, FetchRequest, Requested, FinishFetch, Answer, Outcomes
<1>6. ASSUME NEW u \in Url, Redirect(c, u)
      PROVE  /\ \E why : why # "results" /\ last' = [last EXCEPT ![c] = why]
             /\ offered' = offered /\ Outcomes(c)
  <2>1. last' = [last EXCEPT ![c] = "redirect"] /\ offered' = offered
    BY <1>6 DEF Redirect, FetchRequest, Requested
  <2>2. Outcomes(c) BY <1>6, FinishOutcomes DEF Redirect, Outcomes
  <2> QED BY <2>1, <2>2
<1> QED BY <1>1, <1>2, <1>3, <1>4, <1>5, <1>6 DEF ToolSteps

LEMMA SearchStep == ToolInv /\ SearchInv /\ [ToolNext]_toolVars => SearchInv'
<1> SUFFICES ASSUME ToolInv, SearchInv, [ToolNext]_toolVars PROVE SearchInv'
  OBVIOUS
<1>0. /\ DOMAIN phase = ToolCallers /\ DOMAIN outcome = ToolCallers
      /\ DOMAIN last = ToolCallers /\ DOMAIN offered = ToolCallers
  BY DEF ToolInv, ToolTypeOK, SearchInv
<1>1. CASE UNCHANGED toolVars \/ ExpireSearch \/ \E u \in Url : Expire(u)
  <2>1. UNCHANGED <<phase, outcome, last, offered>>
    BY <1>1 DEF toolVars, call, toolHistory, ExpireSearch, Expire
  <2> QED BY <2>1 DEF SearchInv, Once
<1>2. ASSUME NEW c \in ToolCallers, Outcomes(c)
      PROVE  \A d \in ToolCallers \ {c} : phase'[d] = phase[d] /\ outcome'[d] = outcome[d]
  BY <1>0, <1>2 DEF Outcomes
<1>3. ASSUME NEW c \in ToolCallers, Begins(c) PROVE SearchInv'
  <2>1. /\ last' = [last EXCEPT ![c] = "none"] /\ offered' = [offered EXCEPT ![c] = {}]
        /\ Outcomes(c)
    BY <1>3, BeginsQuietly
  <2>2. /\ DOMAIN last' = ToolCallers /\ DOMAIN offered' = ToolCallers /\ last'[c] = "none"
        /\ \A d \in ToolCallers \ {c} : last'[d] = last[d] /\ offered'[d] = offered[d]
    BY <1>0, <2>1
  <2> QED BY <1>2, <2>1, <2>2, SearchKept
<1>4. ASSUME NEW c \in ToolCallers, ToolSteps(c), ~ SearchAnswers(c) PROVE SearchInv'
  <2>1. /\ \/ last' = last /\ phase[c] # "idle"
           \/ \E why : why # "results" /\ last' = [last EXCEPT ![c] = why]
        /\ offered' = offered /\ Outcomes(c)
    BY <1>4, StepsQuietly
  <2>2. /\ DOMAIN last' = ToolCallers
        /\ \A d \in ToolCallers \ {c} : last'[d] = last[d]
        /\ last'[c] # "results"
    <3>1. CASE last' = last /\ phase[c] # "idle" BY <1>0, <3>1 DEF SearchInv
    <3>2. CASE \E why : why # "results" /\ last' = [last EXCEPT ![c] = why] BY <1>0, <3>2
    <3> QED BY <2>1, <3>1, <3>2
  <2> QED BY <1>0, <1>2, <2>1, <2>2, SearchKept
<1>5. ASSUME NEW c \in ToolCallers, SearchAnswers(c) PROVE SearchInv'
  <2>1. PICK raw \in SeqOf(Raw, MaxRaw) :
          /\ offered' = [offered EXCEPT ![c] = { r.url : r \in Usable(raw) }]
          /\ Answer(c, Results(Normalize(raw)))
    BY <1>5 DEF SearchAnswers
  <2>2. raw \in Seq(Raw)
    <3>1. PICK m \in 0..MaxRaw : raw \in [1..m -> Raw] BY DEF SeqOf
    <3>2. m \in Nat BY Schedules, WebToolsAssumption
    <3> QED BY <3>1, <3>2, SeqDef
  <2>3. Results(Normalize(raw)).urls = Normalize(raw) BY DEF Results
  <2> DEFINE given == Results(Normalize(raw))
             usable == { r.url : r \in Usable(raw) }
  <2>4. Once(given.urls, usable) BY <2>2, <2>3, KeepsOnce
  <2>5. phase' = [phase EXCEPT ![c] = "idle"] /\ outcome' = [outcome EXCEPT ![c] = given]
    BY <2>1 DEF Answer
  <2>6. offered' = [offered EXCEPT ![c] = usable] BY <2>1
  <2> HIDE DEF given, usable
  <2>7. last' = [last EXCEPT ![c] = "results"] BY <1>5 DEF SearchAnswers, Requested
  <2>8. phase'[c] = "idle" /\ outcome'[c] = given /\ offered'[c] = usable BY <1>0, <2>5, <2>6
  <2>9. \A d \in ToolCallers \ {c} : /\ phase'[d] = phase[d] /\ outcome'[d] = outcome[d]
                                      /\ last'[d] = last[d] /\ offered'[d] = offered[d]
    BY <1>0, <2>5, <2>6, <2>7
  <2>10. DOMAIN last' = ToolCallers /\ DOMAIN offered' = ToolCallers BY <1>0, <2>6, <2>7
  <2> QED BY <2>4, <2>8, <2>9, <2>10, SearchKept
<1> QED BY <1>1, <1>3, <1>4, <1>5 DEF ToolNext

LEMMA SearchesInvariant == ToolSpec => []SearchInv
<1>1. ToolInit => SearchInv BY DEF ToolInit, SearchInv
<1> QED BY <1>1, SearchStep, ToolsInvariant, PTL DEF ToolSpec

(***************************************************************************)
(* For any number of callers and any results of a search: a result that    *)
(* cannot be used costs itself and no other (tools/search.py, _normalize). *)
(***************************************************************************)
THEOREM OneBadResultIsOneLost == ToolSpec => []OneBadResultCostsItself
<1>1. SearchInv => OneBadResultCostsItself BY DEF SearchInv, Once, OneBadResultCostsItself
<1> QED BY <1>1, SearchesInvariant, PTL

-----------------------------------------------------------------------------
(***************************************************************************)
(* The Researcher's visit.                                                 *)
(***************************************************************************)

(***************************************************************************)
(* What the job still owes: a URL it knows and Redis does not may be       *)
(* requested once more.  Where the page in hand landed is about to be      *)
(* recorded; the URL about to be requested is, unless Redis holds it and   *)
(* the job does not know it yet, a repetition now or one to come.          *)
(***************************************************************************)
Landing == IF stage = "landed" THEN {Lands[fetching]} \ {fetching} ELSE {}

Unrecorded == (known \ urls) \ Landing

Underway == IF stage = "fetch" /\ (fetching \in known \/ fetching \notin urls) THEN 1 ELSE 0

Owed == repeats + Cardinality(Unrecorded) + Underway

SourcesInv ==
    /\ SourcesTypeOK /\ IsFiniteSet(urls) /\ IsFiniteSet(known)
    /\ stage \in {"fetch", "landed"} => Len(pages) < PagesPerVisit
    /\ Owed <= faults + crashes

LEMMA SourcesFacts ==
    /\ Lands \in [SourceUrl -> SourceUrl] /\ Subtopics \in Nat /\ PagesPerVisit \in Nat \ {0}
    /\ MaxCandidates \in Nat /\ MaxFaults \in Nat /\ MaxCrashes \in Nat
BY SourcesAssumption

(***************************************************************************)
(* How many elements a set has at most.                                    *)
(***************************************************************************)
LEMMA CardWithin ==
    ASSUME NEW S, IsFiniteSet(S), NEW T, T \subseteq S
    PROVE  IsFiniteSet(T) /\ Cardinality(T) \in Nat /\ Cardinality(S) \in Nat
           /\ Cardinality(T) <= Cardinality(S)
BY FS_Subset, FS_CardinalityType

LEMMA CardWithinUnion ==
    ASSUME NEW S, IsFiniteSet(S), NEW U, IsFiniteSet(U), NEW T, T \subseteq S \cup U
    PROVE  Cardinality(T) <= Cardinality(S) + Cardinality(U)
<1>1. /\ IsFiniteSet(S \cup U) /\ Cardinality(S \cup U) <= Cardinality(S) + Cardinality(U)
  <2>1. /\ IsFiniteSet(S \cup U)
        /\ Cardinality(S \cup U) = Cardinality(S) + Cardinality(U) - Cardinality(S \cap U)
    BY FS_Union
  <2>2. S \cap U \subseteq S OBVIOUS
  <2>3. Cardinality(S \cap U) \in Nat /\ Cardinality(S) \in Nat BY <2>2, CardWithin
  <2>4. Cardinality(U) \in Nat BY FS_CardinalityType
  <2> QED BY <2>1, <2>3, <2>4
<1>2. Cardinality(T) <= Cardinality(S \cup U) /\ Cardinality(T) \in Nat /\ Cardinality(S \cup U) \in Nat
  BY <1>1, CardWithin
<1>3. Cardinality(S) \in Nat /\ Cardinality(U) \in Nat BY FS_CardinalityType
<1> QED BY <1>1, <1>2, <1>3

LEMMA CardOneMore ==
    ASSUME NEW S, IsFiniteSet(S), NEW x, NEW T, T \subseteq S \cup {x}
    PROVE  IsFiniteSet(T) /\ Cardinality(T) \in Nat /\ Cardinality(T) <= Cardinality(S) + 1
<1>1. IsFiniteSet({x}) /\ Cardinality({x}) = 1 BY FS_Singleton
<1>2. Cardinality(T) <= Cardinality(S) + 1 BY <1>1, CardWithinUnion
<1>3. IsFiniteSet(S \cup {x}) BY <1>1, FS_Union
<1> QED BY <1>2, <1>3, CardWithin

LEMMA CardOneLess ==
    ASSUME NEW S, IsFiniteSet(S), NEW x \in S, NEW T, T \subseteq S \ {x}
    PROVE  IsFiniteSet(T) /\ Cardinality(T) \in Nat /\ Cardinality(T) + 1 <= Cardinality(S)
<1>1. IsFiniteSet(S \ {x}) /\ Cardinality(S \ {x}) = Cardinality(S) - 1
  BY FS_RemoveElement
<1>2. Cardinality(T) <= Cardinality(S \ {x}) /\ Cardinality(T) \in Nat /\ IsFiniteSet(T)
  BY <1>1, CardWithin
<1>3. Cardinality(S) \in Nat BY FS_CardinalityType
<1> QED BY <1>1, <1>2, <1>3

-----------------------------------------------------------------------------
LEMMA OwedFacts ==
    ASSUME SourcesInv
    PROVE  /\ IsFiniteSet(urls) /\ IsFiniteSet(known) /\ IsFiniteSet(Unrecorded)
           /\ Cardinality(Unrecorded) \in Nat /\ Cardinality(urls) \in Nat
           /\ Underway \in {0, 1} /\ repeats \in Nat /\ faults \in Nat /\ crashes \in Nat
           /\ repeats + Cardinality(Unrecorded) + Underway <= faults + crashes
<1>1. IsFiniteSet(urls) /\ IsFiniteSet(known) BY DEF SourcesInv
<1>2. IsFiniteSet(Unrecorded) /\ Cardinality(Unrecorded) \in Nat
  BY <1>1, CardWithin DEF Unrecorded
<1>3. Cardinality(urls) \in Nat BY <1>1, FS_CardinalityType
<1> QED BY <1>1, <1>2, <1>3 DEF SourcesInv, Owed, SourcesTypeOK, Underway

(***************************************************************************)
(* The account of a step: what it adds to the debt a fault or a crash of   *)
(* the step pays.                                                          *)
(***************************************************************************)
LEMMA Payments ==
    ASSUME NEW owed \in Int, NEW paid \in Int, NEW owed_ \in Int, NEW paid_ \in Int, NEW d \in Int,
           owed <= paid, paid_ = paid + d, owed_ <= owed + d
    PROVE  owed_ <= paid_
OBVIOUS

LEMMA Balanced ==
    ASSUME SourcesInv, SourcesTypeOK', IsFiniteSet(urls'), IsFiniteSet(known'),
           stage' \in {"fetch", "landed"} => Len(pages') < PagesPerVisit,
           NEW d \in Nat, faults' + crashes' = faults + crashes + d,
           repeats' + Cardinality(Unrecorded') + Underway'
               <= repeats + Cardinality(Unrecorded) + Underway + d
    PROVE  SourcesInv'
<1>1. IsFiniteSet(Unrecorded') /\ Cardinality(Unrecorded') \in Nat
  <2>1. Unrecorded' \subseteq known' BY DEF Unrecorded
  <2> QED BY <2>1, CardWithin
<1>2. Underway' \in {0, 1} BY DEF Underway
<1>3. repeats' \in Nat /\ faults' \in Nat /\ crashes' \in Nat BY DEF SourcesTypeOK
<1>4. repeats' + Cardinality(Unrecorded') + Underway' <= faults' + crashes'
  <2> DEFINE owed == repeats + Cardinality(Unrecorded) + Underway
             owed_ == repeats' + Cardinality(Unrecorded') + Underway'
             paid == faults + crashes
             paid_ == faults' + crashes'
  <2>1. owed \in Int /\ paid \in Int /\ owed <= paid BY OwedFacts
  <2>2. owed_ \in Int /\ paid_ \in Int BY <1>1, <1>2, <1>3
  <2>3. paid_ = paid + d /\ owed_ <= owed + d OBVIOUS
  <2> HIDE DEF owed, owed_, paid, paid_
  <2>4. owed_ <= paid_ BY <2>1, <2>2, <2>3, Payments
  <2> QED BY <2>4 DEF owed_, paid_
<1> QED BY <1>4 DEF SourcesInv, Owed

(* A step away from the requests: nothing comes to be owed.                *)
LEMMA Quiet ==
    ASSUME SourcesInv, SourcesTypeOK', UNCHANGED <<urls, known, repeats, faults, crashes>>,
           stage \notin {"fetch", "landed"}, stage' \notin {"fetch", "landed"}
    PROVE  SourcesInv'
<1>1. Underway = 0 /\ Underway' = 0 BY DEF Underway
<1>2. Unrecorded' = Unrecorded BY DEF Unrecorded, Landing
<1> QED BY <1>1, <1>2, OwedFacts, Balanced

LEMMA InitSources == SourcesInit => SourcesInv
<1> SUFFICES ASSUME SourcesInit PROVE SourcesInv OBVIOUS
<1> USE SourcesFacts DEF SourcesInit
<1>1. fetching \in SourceUrl BY SourcesAssumption
<1>2. SourcesTypeOK BY <1>1 DEF SourcesTypeOK
<1>3. IsFiniteSet(urls) /\ IsFiniteSet(known) /\ Cardinality({}) = 0 BY FS_EmptySet
<1>4. Unrecorded = {} /\ Underway = 0 BY DEF Unrecorded, Underway
<1>5. Owed <= faults + crashes BY <1>3, <1>4 DEF Owed
<1> QED BY <1>2, <1>3, <1>5 DEF SourcesInv

LEMMA SearchOfVisit == ASSUME SourcesInv, Search PROVE SourcesInv'
<1>1. /\ stage = "away" /\ stage' = "collect" /\ seen' = Cited /\ todo' \in Candidates /\ pages' = <<>>
      /\ UNCHANGED <<status, evidence, urls, fetching, known, repeats, faults, crashes, reopens>>
  BY DEF Search, checkpoint, sourceHistory, bounds
<1>2. SourcesTypeOK BY DEF SourcesInv
<1>3. Cited \subseteq SourceUrl BY <1>2 DEF Cited, SourcesTypeOK
<1>4. todo' \in Seq(SourceUrl) BY <1>1 DEF Candidates, SeqOf
<1>5. SourcesTypeOK' BY <1>1, <1>2, <1>3, <1>4, SourcesFacts DEF SourcesTypeOK
<1> QED BY <1>1, <1>5, Quiet

LEMMA StopStep == ASSUME SourcesInv, Stop PROVE SourcesInv'
<1>1. /\ stage = "collect" /\ stage' = "extract"
      /\ UNCHANGED <<status, evidence, urls, seen, todo, pages, fetching, known, repeats, faults, crashes, reopens>>
  BY DEF Stop, checkpoint, sourceHistory, bounds, visit
<1>2. SourcesTypeOK' BY <1>1 DEF SourcesInv, SourcesTypeOK
<1> QED BY <1>1, <1>2, Quiet

LEMMA SkipStep == ASSUME SourcesInv, Skip PROVE SourcesInv'
<1>1. /\ stage = "collect" /\ todo # <<>> /\ todo' = Tail(todo)
      /\ UNCHANGED <<stage, status, evidence, urls, seen, pages, fetching, known, repeats, faults, crashes, reopens>>
  BY DEF Skip, MayContinue, checkpoint, sourceHistory, bounds
<1>2. SourcesTypeOK' BY <1>1 DEF SourcesInv, SourcesTypeOK
<1> QED BY <1>1, <1>2, Quiet

LEMMA ExtractStep == ASSUME SourcesInv, Extract PROVE SourcesInv'
<1>1. /\ stage = "extract" /\ stage' = "away"
      /\ UNCHANGED <<urls, seen, todo, pages, fetching, known, repeats, faults, crashes, reopens>>
  BY DEF Extract, visit, bounds
<1>2. PICK useful \in SUBSET Range(pages) :
        /\ evidence' = [evidence EXCEPT ![Current] = @ \cup useful]
        /\ status' = [status EXCEPT ![Current] = IF useful # {} THEN "done" ELSE "unresearched"]
  BY DEF Extract
<1>3. SourcesTypeOK BY DEF SourcesInv
<1>4. useful \subseteq SourceUrl BY <1>3 DEF SourcesTypeOK, Range
<1>5. /\ evidence' \in [Topic -> SUBSET SourceUrl]
      /\ status' \in [Topic -> {"pending", "done", "unresearched"}]
  BY <1>2, <1>3, <1>4 DEF SourcesTypeOK
<1>6. SourcesTypeOK' BY <1>1, <1>3, <1>5 DEF SourcesTypeOK
<1> QED BY <1>1, <1>6, Quiet

LEMMA ReopenStep == ASSUME SourcesInv, Reopen PROVE SourcesInv'
<1>1. /\ stage = "away" /\ reopens' = reopens + 1
      /\ UNCHANGED <<stage, evidence, urls, seen, todo, pages, fetching, known, repeats, faults, crashes>>
  BY DEF Reopen, visit, sourceHistory
<1>2. PICK again : status' = [s \in Topic |-> IF s \in again THEN "pending" ELSE status[s]]
  BY DEF Reopen
<1>3. SourcesTypeOK BY DEF SourcesInv
<1>4. status' \in [Topic -> {"pending", "done", "unresearched"}] BY <1>2, <1>3 DEF SourcesTypeOK
<1>5. SourcesTypeOK' BY <1>1, <1>3, <1>4 DEF SourcesTypeOK
<1> QED BY <1>1, <1>5, Quiet

-----------------------------------------------------------------------------
(* A page that landed elsewhere and is lost with the visit.                *)
LEMMA CrashStep == ASSUME SourcesInv, Crash PROVE SourcesInv'
<1>1. /\ stage' = "away" /\ crashes' = crashes + 1
      /\ UNCHANGED <<status, evidence, urls, seen, todo, pages, fetching, known, repeats, faults, reopens>>
  BY DEF Crash, checkpoint, visit
<1>2. SourcesTypeOK' BY <1>1 DEF SourcesInv, SourcesTypeOK
<1>3. Unrecorded' \subseteq Unrecorded \cup {Lands[fetching]}
  BY <1>1 DEF Unrecorded, Landing
<1>4. Cardinality(Unrecorded') <= Cardinality(Unrecorded) + 1 /\ Cardinality(Unrecorded') \in Nat
  BY <1>3, OwedFacts, CardOneMore
<1>5. Underway' = 0 BY <1>1 DEF Underway
<1>6. repeats' + Cardinality(Unrecorded') + Underway'
        <= repeats + Cardinality(Unrecorded) + Underway + 1
  BY <1>1, <1>4, <1>5, OwedFacts
<1>7. faults' + crashes' = faults + crashes + 1 BY <1>1, OwedFacts
<1> QED BY <1>1, <1>2, <1>6, <1>7, OwedFacts, Balanced

(* Redis forgets: each URL it held may be requested again, once.           *)
LEMMA ForgetStep == ASSUME SourcesInv, Forget PROVE SourcesInv'
<1> DEFINE n == Cardinality(urls)
<1>1. /\ urls' = {} /\ faults' = faults + n
      /\ UNCHANGED <<stage, status, evidence, seen, todo, pages, fetching, known, repeats, crashes, reopens>>
  BY DEF Forget, checkpoint, visit, bounds
<1>2. n \in Nat BY OwedFacts
<1>3. SourcesTypeOK' BY <1>1, <1>2 DEF SourcesInv, SourcesTypeOK
<1>4. Unrecorded' \subseteq Unrecorded \cup urls /\ Landing' = Landing
  BY <1>1 DEF Unrecorded, Landing
<1>5. Cardinality(Unrecorded') + Underway' <= Cardinality(Unrecorded) + Underway + n
      /\ Cardinality(Unrecorded') \in Nat
  <2>1. Cardinality(Unrecorded') <= Cardinality(Unrecorded) + n /\ Cardinality(Unrecorded') \in Nat
    <3>1. IsFiniteSet(Unrecorded \cup urls) BY OwedFacts, FS_Union
    <3> QED BY <1>4, <3>1, OwedFacts, CardWithinUnion, CardWithin
  <2>2. CASE Underway' <= Underway
    BY <1>2, <2>1, <2>2, OwedFacts DEF Underway
  <2>3. CASE ~ (Underway' <= Underway)
    <3>1. Underway = 0 /\ Underway' = 1 BY <2>3 DEF Underway
    <3>2. stage = "fetch" /\ fetching \notin known /\ fetching \in urls
      BY <1>1, <3>1 DEF Underway
    <3>3. Unrecorded' \subseteq Unrecorded \cup (urls \ {fetching})
      BY <1>1, <3>2 DEF Unrecorded, Landing
    <3>4. IsFiniteSet(urls \ {fetching}) /\ Cardinality(urls \ {fetching}) + 1 <= n
          /\ Cardinality(urls \ {fetching}) \in Nat
      BY <3>2, OwedFacts, CardOneLess
    <3>5. Cardinality(Unrecorded') <= Cardinality(Unrecorded) + Cardinality(urls \ {fetching})
      BY <3>3, <3>4, OwedFacts, CardWithinUnion
    <3> QED BY <1>2, <2>1, <3>1, <3>4, <3>5, OwedFacts
  <2> QED BY <2>2, <2>3
<1>6. repeats' + Cardinality(Unrecorded') + Underway'
        <= repeats + Cardinality(Unrecorded) + Underway + n
  <2>1. Underway' \in {0, 1} BY DEF Underway
  <2> QED BY <1>1, <1>2, <1>5, <2>1, OwedFacts
<1>7. faults' + crashes' = faults + crashes + n BY <1>1, <1>2, OwedFacts
<1>8. IsFiniteSet(urls') /\ IsFiniteSet(known') BY <1>1, OwedFacts, FS_EmptySet
<1>9. stage' \in {"fetch", "landed"} => Len(pages') < PagesPerVisit BY <1>1 DEF SourcesInv
<1> QED BY <1>2, <1>3, <1>6, <1>7, <1>8, <1>9, Balanced

-----------------------------------------------------------------------------
(* A URL is taken: Redis records it, or an outage pays for its repetition. *)
LEMMA TakeStep == ASSUME SourcesInv, Take PROVE SourcesInv'
<1> DEFINE u == Head(todo)
<1>1. /\ stage = "collect" /\ stage' = "fetch" /\ fetching' = u /\ todo # <<>>
      /\ seen' = seen \cup {u} /\ todo' = Tail(todo) /\ Len(pages) < PagesPerVisit
      /\ UNCHANGED <<status, evidence, pages, known, repeats, crashes, reopens>>
      /\ (u \notin urls /\ Recorded(u)) \/ Outage
  BY DEF Take, MayContinue, AddIfNew, checkpoint, bounds
<1>2. SourcesTypeOK BY DEF SourcesInv
<1>3. u \in SourceUrl /\ todo' \in Seq(SourceUrl) BY <1>1, <1>2 DEF SourcesTypeOK
<1> HIDE DEF u
<1>4. Landing = {} /\ Landing' = {} /\ Underway = 0 BY <1>1 DEF Landing, Underway
<1>5. CASE u \notin urls /\ Recorded(u)
  <2>1. urls' = urls \cup {u} /\ faults' = faults BY <1>5 DEF Recorded
  <2>2. SourcesTypeOK' BY <1>1, <1>2, <1>3, <2>1 DEF SourcesTypeOK
  <2>3. IsFiniteSet(urls') /\ IsFiniteSet(known') BY <1>1, <2>1, OwedFacts, FS_AddElement
  <2>4. Unrecorded' = Unrecorded \ {u} BY <1>1, <1>4, <2>1 DEF Unrecorded
  <2>5. Cardinality(Unrecorded') + Underway' <= Cardinality(Unrecorded)
        /\ Cardinality(Unrecorded') \in Nat
    <3>1. CASE u \in known
      <4>1. u \in Unrecorded BY <1>4, <1>5, <3>1 DEF Unrecorded
      <4>2. Cardinality(Unrecorded') + 1 <= Cardinality(Unrecorded) /\ Cardinality(Unrecorded') \in Nat
        BY <2>4, <4>1, OwedFacts, CardOneLess
      <4>3. Underway' \in {0, 1} BY DEF Underway
      <4> QED BY <4>2, <4>3, OwedFacts
    <3>2. CASE u \notin known
      <4>1. Underway' = 0 BY <1>1, <2>1, <3>2 DEF Underway
      <4>2. Unrecorded' \subseteq Unrecorded BY <2>4
      <4> QED BY <4>1, <4>2, OwedFacts, CardWithin
    <3> QED BY <3>1, <3>2
  <2>6. Underway' \in {0, 1} BY DEF Underway
  <2>7. repeats' + Cardinality(Unrecorded') + Underway'
          <= repeats + Cardinality(Unrecorded) + Underway + 0
    BY <1>1, <1>4, <2>5, <2>6, OwedFacts
  <2>8. faults' + crashes' = faults + crashes + 0 BY <1>1, <2>1, OwedFacts
  <2>9. Len(pages') < PagesPerVisit BY <1>1
  <2> QED BY <2>2, <2>3, <2>7, <2>8, <2>9, Balanced
<1>6. CASE Outage
  <2>1. urls' = urls /\ faults' = faults + 1 BY <1>6 DEF Outage
  <2>2. SourcesTypeOK' BY <1>1, <1>2, <1>3, <2>1 DEF SourcesTypeOK
  <2>3. Unrecorded' = Unrecorded BY <1>1, <1>4, <2>1 DEF Unrecorded
  <2>4. Underway' \in {0, 1} BY DEF Underway
  <2>5. repeats' + Cardinality(Unrecorded') + Underway'
          <= repeats + Cardinality(Unrecorded) + Underway + 1
    BY <1>1, <1>4, <2>3, <2>4, OwedFacts
  <2>6. faults' + crashes' = faults + crashes + 1 BY <1>1, <2>1, OwedFacts
  <2>7. Len(pages') < PagesPerVisit BY <1>1
  <2> QED BY <1>1, <2>1, <2>2, <2>5, <2>6, <2>7, OwedFacts, Balanced
<1> QED BY <1>1, <1>5, <1>6

(***************************************************************************)
(* A request: a repetition that was under way, or a URL that Redis does    *)
(* not hold and the job now knows.  Where it landed is not owed yet.       *)
(***************************************************************************)
LEMMA RequestStepOfVisit ==
    ASSUME SourcesInv, NEW reached \in SUBSET {Lands[fetching]}, Request(reached),
           \/ stage' = "collect" /\ reached = {}
           \/ stage' = "landed" /\ reached = {Lands[fetching]}
    PROVE  SourcesInv'
<1>1. /\ stage = "fetch" /\ known' = known \cup {fetching} \cup reached
      /\ repeats' = repeats + (IF fetching \in known THEN 1 ELSE 0)
      /\ UNCHANGED <<status, evidence, urls, seen, todo, pages, fetching, faults, crashes, reopens>>
  BY DEF Request, checkpoint, visit, bounds
<1>2. SourcesTypeOK /\ Len(pages) < PagesPerVisit BY <1>1 DEF SourcesInv
<1>3. reached \subseteq SourceUrl /\ fetching \in SourceUrl
  BY <1>2, SourcesFacts DEF SourcesTypeOK
<1>4. SourcesTypeOK' BY <1>1, <1>2, <1>3 DEF SourcesTypeOK
<1>5. IsFiniteSet(known')
  <2>1. IsFiniteSet(known \cup {fetching}) BY OwedFacts, FS_AddElement
  <2>2. reached = {} \/ known' = (known \cup {fetching}) \cup {Lands[fetching]} BY <1>1
  <2>3. reached = {} => known' = known \cup {fetching} BY <1>1
  <2> QED BY <2>1, <2>2, <2>3, FS_AddElement
<1>6. Underway' = 0 BY DEF Underway
<1>7. Unrecorded' \subseteq Unrecorded \cup ({fetching} \ urls)
  BY <1>1 DEF Unrecorded, Landing
<1>8. /\ repeats' + Cardinality(Unrecorded') <= repeats + Cardinality(Unrecorded) + Underway
      /\ Cardinality(Unrecorded') \in Nat
  <2>1. CASE fetching \in known \/ fetching \in urls
    <3>1. Unrecorded' \subseteq Unrecorded BY <1>1, <1>7, <2>1 DEF Unrecorded, Landing
    <3>2. Cardinality(Unrecorded') <= Cardinality(Unrecorded) /\ Cardinality(Unrecorded') \in Nat
      BY <3>1, OwedFacts, CardWithin
    <3>3. repeats' <= repeats + Underway BY <1>1, OwedFacts DEF Underway
    <3>4. repeats' \in Nat BY <1>4 DEF SourcesTypeOK
    <3> QED BY <3>2, <3>3, <3>4, OwedFacts
  <2>2. CASE fetching \notin known /\ fetching \notin urls
    <3>1. Underway = 1 /\ repeats' = repeats BY <1>1, <2>2, OwedFacts DEF Underway
    <3>2. Unrecorded' \subseteq Unrecorded \cup {fetching} BY <1>7
    <3>3. Cardinality(Unrecorded') <= Cardinality(Unrecorded) + 1 /\ Cardinality(Unrecorded') \in Nat
      BY <3>2, OwedFacts, CardOneMore
    <3> QED BY <3>1, <3>3, OwedFacts
  <2> QED BY <2>1, <2>2
<1>9. repeats' + Cardinality(Unrecorded') + Underway'
        <= repeats + Cardinality(Unrecorded) + Underway + 0
  <2>1. repeats' \in Nat BY <1>4 DEF SourcesTypeOK
  <2> QED BY <1>6, <1>8, <2>1, OwedFacts
<1>10. faults' + crashes' = faults + crashes + 0 /\ IsFiniteSet(urls') /\ Len(pages') < PagesPerVisit
  BY <1>1, <1>2, OwedFacts
<1> QED BY <1>4, <1>5, <1>9, <1>10, Balanced

(* Where the page landed is recorded, or an outage pays for it.            *)
LEMMA KeepStep == ASSUME SourcesInv, Keep PROVE SourcesInv'
<1> DEFINE u == Lands[fetching]
<1>1. /\ stage = "landed" /\ stage' = "collect" /\ seen' = seen \cup {u}
      /\ pages' = Append(pages, u)
      /\ UNCHANGED <<status, evidence, todo, fetching, known, repeats, crashes, reopens>>
      /\ IF u = fetching THEN UNCHANGED <<urls, faults>> ELSE Recorded(u) \/ Outage
  BY DEF Keep, RememberLanded, checkpoint, bounds
<1>2. SourcesTypeOK /\ Len(pages) < PagesPerVisit BY <1>1 DEF SourcesInv
<1>3. u \in SourceUrl BY <1>2, SourcesFacts DEF SourcesTypeOK
<1>4. Landing = {u} \ {fetching} /\ Landing' = {} BY <1>1 DEF Landing
<1> HIDE DEF u
<1>5. pages' \in Seq(SourceUrl) /\ Len(pages') <= PagesPerVisit
  BY <1>1, <1>2, <1>3, SourcesFacts DEF SourcesTypeOK
<1>6. Underway = 0 /\ Underway' = 0 BY <1>1 DEF Underway
<1>7. CASE (urls' = urls \cup Landing) /\ faults' = faults
  <2>1. SourcesTypeOK' BY <1>1, <1>2, <1>3, <1>4, <1>5, <1>7 DEF SourcesTypeOK
  <2>2. IsFiniteSet(urls')
    <3>1. urls' = urls \/ urls' = urls \cup {u} BY <1>4, <1>7
    <3> QED BY <3>1, OwedFacts, FS_AddElement
  <2>3. Unrecorded' = Unrecorded BY <1>1, <1>4, <1>7 DEF Unrecorded
  <2>4. repeats' + Cardinality(Unrecorded') + Underway'
          <= repeats + Cardinality(Unrecorded) + Underway + 0
    BY <1>1, <1>6, <2>3, OwedFacts
  <2>5. faults' + crashes' = faults + crashes + 0 BY <1>1, <1>7, OwedFacts
  <2> QED BY <1>1, <2>1, <2>2, <2>4, <2>5, OwedFacts, Balanced
<1>8. CASE Outage
  <2>1. urls' = urls /\ faults' = faults + 1 BY <1>8 DEF Outage
  <2>2. SourcesTypeOK' BY <1>1, <1>2, <1>3, <1>5, <2>1 DEF SourcesTypeOK
  <2>3. Unrecorded' \subseteq Unrecorded \cup {u} BY <1>1, <1>4, <2>1 DEF Unrecorded
  <2>4. Cardinality(Unrecorded') <= Cardinality(Unrecorded) + 1 /\ Cardinality(Unrecorded') \in Nat
    BY <2>3, OwedFacts, CardOneMore
  <2>5. repeats' + Cardinality(Unrecorded') + Underway'
          <= repeats + Cardinality(Unrecorded) + Underway + 1
    BY <1>1, <1>6, <2>4, OwedFacts
  <2>6. faults' + crashes' = faults + crashes + 1 BY <1>1, <2>1, OwedFacts
  <2> QED BY <1>1, <2>1, <2>2, <2>5, <2>6, OwedFacts, Balanced
<1>9. (urls' = urls \cup Landing /\ faults' = faults) \/ Outage
  BY <1>1, <1>4 DEF Recorded
<1> QED BY <1>7, <1>8, <1>9

LEMMA SourcesStutter == ASSUME SourcesInv, UNCHANGED sourcesVars PROVE SourcesInv'
<1>1. UNCHANGED <<stage, status, evidence, urls, seen, todo, pages, fetching, known, repeats,
                  faults, crashes, reopens>>
  BY DEF sourcesVars, checkpoint, visit, sourceHistory, bounds
<1>2. UNCHANGED Owed BY <1>1 DEF Owed, Unrecorded, Landing, Underway
<1> QED BY <1>1, <1>2 DEF SourcesInv, SourcesTypeOK

LEMMA SourcesInvariant == SourcesSpec => []SourcesInv
<1>1. SourcesInv /\ [SourcesNext]_sourcesVars => SourcesInv'
  <2> SUFFICES ASSUME SourcesInv, [SourcesNext]_sourcesVars PROVE SourcesInv' OBVIOUS
  <2>1. CASE PageUnusable
    <3>1. Request({}) /\ stage' = "collect" BY <2>1 DEF PageUnusable
    <3>2. {} \in SUBSET {Lands[fetching]} OBVIOUS
    <3> QED BY <3>1, <3>2, RequestStepOfVisit
  <2>2. CASE PageUsable
    <3>1. Request({Lands[fetching]}) /\ stage' = "landed" BY <2>2 DEF PageUsable
    <3> QED BY <3>1, RequestStepOfVisit
  <2>3. CASE Collect BY <2>1, <2>2, <2>3, StopStep, SkipStep, TakeStep, KeepStep DEF Collect
  <2>4. CASE UNCHANGED sourcesVars BY <2>4, SourcesStutter
  <2> QED BY <2>3, <2>4, SearchOfVisit, ExtractStep, CrashStep, ForgetStep, ReopenStep DEF SourcesNext
<1> QED BY <1>1, InitSources, PTL DEF SourcesSpec

(***************************************************************************)
(* A visit's variables stay in their sets, and it reads at most            *)
(* PagesPerVisit pages.                                                    *)
(***************************************************************************)
THEOREM VisitTypes == SourcesSpec => []SourcesTypeOK
<1>1. SourcesInv => SourcesTypeOK BY DEF SourcesInv
<1> QED BY <1>1, SourcesInvariant, PTL

(***************************************************************************)
(* For any number of subtopics, candidates, redirects, crashes and Redis   *)
(* failures: each URL requested twice is owed to one failure of Redis or   *)
(* to one crash (agents/researcher.py, _unseen_across_the_job).            *)
(***************************************************************************)
THEOREM RepeatsAreOwed == SourcesSpec => []RepeatsArePaidFor
<1>1. SourcesInv => RepeatsArePaidFor BY OwedFacts DEF RepeatsArePaidFor
<1> QED BY <1>1, SourcesInvariant, PTL

-----------------------------------------------------------------------------
(***************************************************************************)
(* The rubric.                                                             *)
(***************************************************************************)

(***************************************************************************)
(* A set of numbers has a least one; of a set of dimensions, that of six   *)
(* times the score plus the place scores lowest.                           *)
(***************************************************************************)
LEMMA LowestFacts ==
    ASSUME NEW s \in Scores, NEW failed \in SUBSET Dimensions, failed # {}
    PROVE  Lowest(s, failed) \in failed /\ \A e \in failed : s[Lowest(s, failed)] <= s[e]
<1> DEFINE key(d) == 6 * s[d] + d
           keys_ == { key(d) : d \in failed }
<1>1. \A d \in failed : d \in 1..5 /\ s[d] \in 1..5 BY DEF Scores, Dimensions
<1>2. \A d \in failed : key(d) \in Nat BY <1>1
<1>3. keys_ \subseteq Nat /\ keys_ # {} BY <1>2
<1>4. PICK m \in keys_ : \A n \in keys_ : m <= n
  <2> HIDE DEF keys_
  <2> QED BY <1>3, LeastOf
<1>5. PICK d \in failed : m = key(d) BY <1>4
<1>6. \A e \in failed : key(d) <= key(e) BY <1>4, <1>5
<1>7. \A e \in failed : s[d] < s[e] \/ (s[d] = s[e] /\ d <= e) BY <1>1, <1>6
<1>8. /\ Lowest(s, failed) \in failed
      /\ \A e \in failed : \/ s[Lowest(s, failed)] < s[e]
                           \/ s[Lowest(s, failed)] = s[e] /\ Lowest(s, failed) <= e
  BY <1>7 DEF Lowest
<1> QED BY <1>1, <1>8

LEMMA FailingReports ==
    ASSUME NEW s \in Scores
    PROVE  Passed(s) \/ FailedDimensions(s) # {}
<1>1. /\ s[1] \in 1..5 /\ s[2] \in 1..5 /\ s[3] \in 1..5 /\ s[4] \in 1..5 /\ s[5] \in 1..5
  BY DEF Scores, Dimensions
<1> SUFFICES ASSUME FailedDimensions(s) = {} PROVE Passed(s) OBVIOUS
<1>2. \A d \in {1, 2, 3, 4, 5} : 100 * s[d] >= Bar(d)
  BY <1>1, ThresholdAssumption DEF FailedDimensions, Bar, CoverageGate, Dimensions
<1>3. /\ 100 * s[1] >= Threshold /\ 100 * s[2] >= Threshold /\ s[3] >= CoverageGate
      /\ 100 * s[4] >= Threshold /\ 100 * s[5] >= Threshold
  BY <1>1, <1>2 DEF Bar, CitationCoverage, CoverageGate
<1>4. WeightedScore(s) = 30 * s[1] + 20 * s[2] + 20 * s[3] + 20 * s[4] + 10 * s[5]
  BY DEF WeightedScore, Weights
<1> QED BY <1>1, <1>3, <1>4, ThresholdAssumption DEF Passed, CitationCoverage, CoverageGate

LEMMA ScoreRange == ASSUME NEW s \in Scores PROVE WeightedScore(s) \in 100..500
<1>1. /\ s[1] \in 1..5 /\ s[2] \in 1..5 /\ s[3] \in 1..5 /\ s[4] \in 1..5 /\ s[5] \in 1..5
  BY DEF Scores, Dimensions
<1>2. WeightedScore(s) = 30 * s[1] + 20 * s[2] + 20 * s[3] + 20 * s[4] + 10 * s[5]
  BY DEF WeightedScore, Weights
<1> QED BY <1>1, <1>2

(* Without a thin subtopic what cannot be acted on is what needs research. *)
LEMMA OneRoute ==
    ASSUME NEW s \in Scores, NEW thin \in BOOLEAN
    PROVE  LET route == RouteFor(s, thin)
               failed == FailedDimensions(s)
           IN  /\ route = "researcher" => thin
               /\ route = "human_gate" => (~thin /\ failed \subseteq {1, 2}) \/ failed = {}
               /\ route # "human_gate" =>
                   \E d \in failed :
                       /\ RouteByDimension[d] = route
                       /\ \A e \in failed : s[e] < s[d] => (~thin /\ e \in {1, 2})
<1> DEFINE failed == FailedDimensions(s)
           able == Actionable(failed, thin)
           route == RouteFor(s, thin)
<1> SUFFICES /\ route = "researcher" => thin
             /\ route = "human_gate" => (~thin /\ failed \subseteq {1, 2}) \/ failed = {}
             /\ route # "human_gate" =>
                 \E d \in failed :
                     /\ RouteByDimension[d] = route
                     /\ \A e \in failed : s[e] < s[d] => (~thin /\ e \in {1, 2})
  OBVIOUS
<1>1. failed \in SUBSET Dimensions /\ able \in SUBSET failed
  BY DEF FailedDimensions, Actionable
<1>2. \A d \in Dimensions : RouteByDimension[d] = "researcher" <=> d \in {1, 2}
  BY DEF Dimensions, RouteByDimension
<1>3. \A d \in Dimensions : RouteByDimension[d] # "human_gate"
  BY DEF Dimensions, RouteByDimension
<1>4. \A d \in failed : d \in able <=> thin \/ d \notin {1, 2}
  BY <1>1, <1>2 DEF Actionable
<1>5. route = IF able = {} THEN "human_gate" ELSE RouteByDimension[Lowest(s, able)]
  BY DEF RouteFor
<1> HIDE DEF failed, able, route
<1>6. CASE able = {}
  BY <1>1, <1>4, <1>5, <1>6
<1>7. CASE able # {}
  <2> DEFINE d == Lowest(s, able)
  <2>1. d \in able /\ \A e \in able : s[d] <= s[e] BY <1>1, <1>7, LowestFacts
  <2>2. route = RouteByDimension[d] /\ d \in failed /\ d \in Dimensions BY <1>1, <1>5, <1>7, <2>1
  <2>3. \A e \in failed : s[e] \in 1..5 /\ s[d] \in 1..5 BY <1>1, <2>2 DEF Scores
  <2> HIDE DEF d
  <2>4. \A e \in failed : s[e] < s[d] => (~thin /\ e \in {1, 2}) BY <1>4, <2>1, <2>3
  <2>5. route # "human_gate" /\ (route = "researcher" => thin)
    BY <1>2, <1>3, <1>4, <2>1, <2>2
  <2> QED BY <2>2, <2>4, <2>5
<1> QED BY <1>6, <1>7

(***************************************************************************)
(* Scores stay scores, and what the rubric makes of any of them.           *)
(***************************************************************************)
ScoresOK == scores \in Scores

LEMMA TableTypes == TableSpec => []ScoresOK
<1>1. TableInit => ScoresOK BY DEF TableInit, ScoresOK
<1>2. ScoresOK /\ [TableNext]_scores => ScoresOK'
  BY DEF TableNext, Improve, Scores, ScoresOK
<1> QED BY <1>1, <1>2, PTL DEF TableSpec

LEMMA WorstIsRepaired == ASSUME ScoresOK PROVE RepairsTheWorst
BY FailingReports, ScoreRange, OneRoute DEF RepairsTheWorst, ScoresOK

(***************************************************************************)
(* For every threshold and every score vector: a draft that fails has a    *)
(* failing dimension, and the node it is sent to repairs the worst of      *)
(* those that can be acted on (graph/reflection.py, _route_for).           *)
(***************************************************************************)
THEOREM TheWorstIsRepaired == TableSpec => []RepairsTheWorst
<1>1. ScoresOK => RepairsTheWorst BY WorstIsRepaired
<1> QED BY <1>1, TableTypes, PTL

-----------------------------------------------------------------------------
(***************************************************************************)
(* The evaluation gate.                                                    *)
(***************************************************************************)

(***************************************************************************)
(* The benchmark has two rows, each with the metrics the committed         *)
(* evaluators fail it for; the results are those of the rows read so far;  *)
(* a verdict is the gate's on the results of every row that was parsed.    *)
(***************************************************************************)
Rows == 1..2

RowsDeclare ==
    /\ DOMAIN benchmark = Rows /\ Len(benchmark) = 2
    /\ \A i \in Rows : benchmark[i].expect_failing_metrics
                         = Failing(benchmark[i].output, benchmark[i].case)

ChangeKinds == {"none", "database", "deleted", "lenient", "stricter", "raises", "older",
                "newer", "unreadable", "unparsed", "rewritten"}

OneChange == change.kind \in ChangeKinds /\ change.metric \in Metrics /\ change.row \in Rows

Accepts ==
    /\ RunCompleted /\ MetricsAllRan
    /\ \A i \in WithStatus({"evaluated", "failed"}) : CaseContract(results[i])

EvalInv ==
    /\ RowsDeclare /\ OneChange
    /\ results \in Seq({ EvaluateCase(i) : i \in Rows })
    /\ Len(results) <= Len(Parsed)
    /\ \A i \in 1..Len(results) : results[i] = EvaluateCase(Parsed[i])
    /\ verdict \in {"none", "accepted", "refused", "unusable"}
    /\ verdict \in {"accepted", "refused"} =>
           LoadReport /\ Len(results) = Len(Parsed) /\ (verdict = "accepted" <=> Accepts)

LEMMA TerminalIsAMetric == "terminal_success" \in Metrics BY DEF Metrics

LEMMA FailingIsOfMetrics == \A o, c : Failing(o, c) \subseteq Metrics BY DEF Failing

(***************************************************************************)
(* At most one row does not parse, and what is parsed are rows.            *)
(***************************************************************************)
LEMMA ParsedFacts ==
    ASSUME RowsDeclare, OneChange
    PROVE  /\ Len(Parsed) \in Nat /\ DOMAIN Parsed = 1..Len(Parsed) /\ Len(Parsed) <= 2
           /\ \A i \in 1..Len(Parsed) : Parsed[i] \in Rows
           /\ ~ Is("unparsed") => Len(Parsed) = 2 /\ \A i \in Rows : Parsed[i] = i
<1> DEFINE n == Len(benchmark) - Cardinality(Problems)
<1>1. n \in {1, 2} /\ (Is("unparsed") => n = 1) /\ (~ Is("unparsed") => n = 2)
  <2>1. Is("unparsed") => Cardinality(Problems) = 1 BY FS_Singleton DEF Problems
  <2>2. ~ Is("unparsed") => Cardinality(Problems) = 0 BY FS_EmptySet DEF Problems
  <2> QED BY <2>1, <2>2 DEF RowsDeclare
<1>2. Parsed = [i \in 1..n |-> IF Is("unparsed") /\ change.row <= i THEN i + 1 ELSE i]
  BY DEF Parsed
<1> HIDE DEF n
<1>3. Len(Parsed) = n /\ DOMAIN Parsed = 1..n BY <1>1, <1>2
<1> QED BY <1>1, <1>2, <1>3 DEF OneChange, Rows

LEMMA InitEval == EvalInit => EvalInv
<1> SUFFICES ASSUME EvalInit PROVE EvalInv OBVIOUS
<1>1. PICK r \in { s \in Benchmarked \X Benchmarked : s[1] # s[2] } :
        benchmark = <<Declared(r[1]), Declared(r[2])>>
  BY DEF EvalInit, Committed
<1>2. RowsDeclare BY <1>1 DEF RowsDeclare, Rows, Declared
<1>3. OneChange
  <2>1. change \in Changes(benchmark) /\ DOMAIN benchmark = Rows
    BY <1>2 DEF EvalInit, RowsDeclare
  <2> QED BY <2>1, TerminalIsAMetric DEF OneChange, Changes, Change, NoChange, ChangeKinds, Rows
<1>4. results = <<>> /\ verdict = "none" BY DEF EvalInit
<1> QED BY <1>2, <1>3, <1>4, ParsedFacts DEF EvalInv

(***************************************************************************)
(* A commit is the same throughout its run.                                *)
(***************************************************************************)
LEMMA SameCommit ==
    ASSUME UNCHANGED <<benchmark, change>>
    PROVE  /\ UNCHANGED <<Parsed, RowsDeclare, OneChange, LoadReport>>
           /\ \A j : EvaluateCase(j)' = EvaluateCase(j)
<1>1. /\ UNCHANGED RunnerMetrics
      /\ \A j : Unreadable(j)' = Unreadable(j)
      /\ \A j, how : Bare(j, how)' = Bare(j, how)
  BY DEF RunnerMetrics, Unreadable, Bare, Is
<1>2. \A j : Evaluated(j)' = Evaluated(j) BY DEF Evaluated, Is
<1>3. \A j, m : Answers(j, m)' = Answers(j, m) BY <1>2 DEF Answers, Is
<1>4. Is("database")' = Is("database") /\ Is("raises")' = Is("raises") BY DEF Is
<1>5. \A j : EvaluateCase(j)' = EvaluateCase(j) BY <1>1, <1>3, <1>4 DEF EvaluateCase
<1>6. UNCHANGED <<Parsed, RowsDeclare, OneChange, LoadReport>>
  BY DEF Parsed, Problems, RowsDeclare, OneChange, LoadReport, Is
<1> QED BY <1>5, <1>6

LEMMA SameResults ==
    ASSUME UNCHANGED <<benchmark, change, results>> PROVE Accepts' = Accepts
BY DEF Accepts, RunCompleted, MetricsAllRan, Problems, WithStatus, RanOn, GateMetrics, RunnerMetrics,
       CaseContract, Is

LEMMA EvaluateStep == ASSUME EvalInv, Evaluate PROVE EvalInv'
<1> DEFINE i == Len(results) + 1
           S == { EvaluateCase(j) : j \in Rows }
<1>1. /\ Len(results) < Len(Parsed) /\ results' = Append(results, EvaluateCase(Parsed[i]))
      /\ UNCHANGED <<benchmark, change, verdict>>
  BY DEF Evaluate
<1>2. RowsDeclare /\ OneChange /\ results \in Seq(S) BY DEF EvalInv
<1>3. Parsed[i] \in Rows BY <1>1, <1>2, ParsedFacts
<1>4. /\ results' \in Seq(S) /\ Len(results') = i
      /\ \A j \in 1..i : results'[j] = EvaluateCase(Parsed[j])
  <2> DEFINE e == EvaluateCase(Parsed[i])
  <2>1. e \in S BY <1>3
  <2>2. \A j \in 1..Len(results) : results[j] = EvaluateCase(Parsed[j]) BY DEF EvalInv
  <2>3. results' = Append(results, e) BY <1>1
  <2> HIDE DEF e, S
  <2>4. results' \in Seq(S) /\ Len(results') = i BY <1>2, <2>1, <2>3
  <2>5. \A j \in 1..Len(results) : results'[j] = results[j] BY <1>2, <2>1, <2>3
  <2>6. results'[i] = e BY <1>2, <2>1, <2>3
  <2>7. \A j \in 1..i : j \in 1..Len(results) \/ j = i BY <1>2
  <2>8. e = EvaluateCase(Parsed[i]) BY DEF e
  <2> HIDE DEF i
  <2>9. \A j \in 1..i : results'[j] = EvaluateCase(Parsed[j])
    BY <2>2, <2>5, <2>6, <2>7, <2>8
  <2> QED BY <2>4, <2>9
<1>5. UNCHANGED <<Parsed, RowsDeclare, OneChange, LoadReport>>
      /\ \A j : EvaluateCase(j)' = EvaluateCase(j)
  BY <1>1, SameCommit
<1>6. verdict' \in {"none", "unusable"}
  BY <1>1 DEF EvalInv
<1>7. Len(results') <= Len(Parsed) BY <1>1, <1>2, <1>4, ParsedFacts
<1> QED BY <1>1, <1>2, <1>4, <1>5, <1>6, <1>7 DEF EvalInv

LEMMA GateStep == ASSUME EvalInv, Gate PROVE EvalInv'
<1>1. UNCHANGED <<benchmark, change, results>> /\ Len(results) = Len(Parsed)
  BY DEF Gate
<1>2. UNCHANGED <<Parsed, RowsDeclare, OneChange, LoadReport, Accepts>>
      /\ \A j : EvaluateCase(j)' = EvaluateCase(j)
  BY <1>1, SameCommit, SameResults
<1>3. /\ verdict' \in {"unusable", "accepted", "refused"}
      /\ verdict' # "unusable" => LoadReport /\ (verdict' = "accepted" <=> Accepts)
  BY DEF Gate, Accepts
<1> QED BY <1>1, <1>2, <1>3 DEF EvalInv

LEMMA EvalStutter == ASSUME EvalInv, UNCHANGED evalVars PROVE EvalInv'
<1>1. UNCHANGED <<benchmark, change, results, verdict>> BY DEF evalVars
<1>2. UNCHANGED <<Parsed, RowsDeclare, OneChange, LoadReport, Accepts>>
      /\ \A j : EvaluateCase(j)' = EvaluateCase(j)
  BY <1>1, SameCommit, SameResults
<1> QED BY <1>1, <1>2 DEF EvalInv

LEMMA EvalInvariant == EvalSpec => []EvalInv
<1>1. EvalInv /\ [EvalNext]_evalVars => EvalInv'
  BY EvaluateStep, GateStep, EvalStutter DEF EvalNext
<1> QED BY <1>1, InitEval, PTL DEF EvalSpec

LEMMA EvalTypes == ASSUME EvalInv PROVE EvalTypeOK
<1>1. ASSUME NEW i \in Rows
      PROVE  /\ EvaluateCase(i).status \in {"evaluated", "failed", "skipped", "errored"}
             /\ EvaluateCase(i).failed \subseteq EvaluateCase(i).ran
             /\ EvaluateCase(i).ran \subseteq Metrics
  BY DEF EvaluateCase, Bare, RunnerMetrics
<1> DEFINE S == { EvaluateCase(j) : j \in Rows }
<1>2. results \in Seq(S) BY DEF EvalInv
<1>3. \A e \in S : /\ e.status \in {"evaluated", "failed", "skipped", "errored"}
                  /\ e.failed \subseteq e.ran /\ e.ran \subseteq Metrics
  BY <1>1
<1> HIDE DEF S
<1>4. \A i \in DOMAIN results : results[i] \in S BY <1>2
<1>5. verdict \in {"none", "accepted", "refused", "unusable"} BY DEF EvalInv
<1> QED BY <1>3, <1>4, <1>5 DEF EvalTypeOK

(***************************************************************************)
(* Every variable stays in its set: a case fails metrics that ran.         *)
(***************************************************************************)
THEOREM EvaluationTypes == EvalSpec => []EvalTypeOK
<1>1. EvalInv => EvalTypeOK BY EvalTypes
<1> QED BY <1>1, EvalInvariant, PTL

-----------------------------------------------------------------------------
(***************************************************************************)
(* What the gate decides on.  Every row is evaluated: then it accepts if   *)
(* the build of the gate and of the report have the same metrics and each  *)
(* row fails exactly what it declares, of metrics the gate knows.          *)
(***************************************************************************)
FailedOf(i) == { m \in RunnerMetrics : Answers(i, m) = "failed" }

Judged == EvalInv /\ verdict \in {"accepted", "refused"}

LEMMA WholeRun ==
    ASSUME Judged, ~ Is("unparsed")
    PROVE  DOMAIN results = Rows /\ Len(results) = 2 /\ \A i \in Rows : results[i] = EvaluateCase(i)
<1>1. /\ results \in Seq({ EvaluateCase(i) : i \in Rows }) /\ Len(results) = Len(Parsed)
      /\ \A i \in 1..Len(results) : results[i] = EvaluateCase(Parsed[i])
  BY DEF Judged, EvalInv
<1>2. Len(Parsed) = 2 /\ \A i \in Rows : Parsed[i] = i BY ParsedFacts DEF Judged, EvalInv
<1> QED BY <1>1, <1>2 DEF Rows

LEMMA AcceptsIff ==
    ASSUME Judged, ~ Is("unparsed"), ~ Is("raises"), ~ Is("unreadable")
    PROVE  Accepts <=> /\ GateMetrics = RunnerMetrics
                       /\ \A i \in Rows : /\ benchmark[i].expect_failing_metrics \subseteq GateMetrics
                                          /\ FailedOf(i) = benchmark[i].expect_failing_metrics
<1>1. ~ Is("database") BY DEF Judged, EvalInv, LoadReport
<1>2. ASSUME NEW i \in Rows
      PROVE  /\ results[i].status \in {"evaluated", "failed"} /\ results[i].ran = RunnerMetrics
             /\ results[i].failed = FailedOf(i)
             /\ results[i].declared = benchmark[i].expect_failing_metrics
  <2>1. ~ Unreadable(i) BY DEF Unreadable
  <2>2. EvaluateCase(i) = [status |-> IF FailedOf(i) = {} THEN "evaluated" ELSE "failed",
                           ran |-> RunnerMetrics, failed |-> FailedOf(i),
                           declared |-> benchmark[i].expect_failing_metrics]
    BY <1>1, <2>1 DEF EvaluateCase, FailedOf
  <2> QED BY <2>2, WholeRun
<1>3. WithStatus({"evaluated", "failed"}) = Rows /\ WithStatus({"errored", "skipped"}) = {}
  BY <1>2, WholeRun DEF WithStatus
<1>4. RunCompleted BY <1>3, WholeRun DEF RunCompleted, Problems, Rows
<1>5. ASSUME NEW m \in RunnerMetrics PROVE RanOn(m) = Cardinality(WithStatus({"evaluated", "failed"}))
  <2>1. { i \in DOMAIN results : m \in results[i].ran } = Rows BY <1>2, WholeRun
  <2> QED BY <1>3, <2>1 DEF RanOn
<1>6. MetricsAllRan <=> GateMetrics = RunnerMetrics BY <1>5 DEF MetricsAllRan
<1>7. ASSUME NEW i \in Rows
      PROVE  CaseContract(results[i]) <=>
                 /\ benchmark[i].expect_failing_metrics \subseteq GateMetrics
                 /\ FailedOf(i) = benchmark[i].expect_failing_metrics
  <2> DEFINE declared == benchmark[i].expect_failing_metrics
  <2>1. results[i].declared = declared /\ results[i].failed = FailedOf(i) BY <1>2
  <2>2. FailedOf(i) \subseteq declared /\ declared \subseteq FailedOf(i) <=> FailedOf(i) = declared
    OBVIOUS
  <2> QED BY <2>1, <2>2 DEF CaseContract
<1> QED BY <1>3, <1>4, <1>6, <1>7 DEF Accepts

(***************************************************************************)
(* A change that reaches one metric of every row.                          *)
(***************************************************************************)
Shows(i) == Deterministic(benchmark[i].output, benchmark[i].case)

LEMMA DeclaredIsShown ==
    ASSUME Judged, NEW i \in Rows, NEW m \in Metrics
    PROVE  m \in benchmark[i].expect_failing_metrics <=> Shows(i)[m] = "failed"
BY DEF Judged, EvalInv, RowsDeclare, Failing, Shows

LEMMA SameOutput ==
    ASSUME ~ Is("rewritten"), NEW i \in Rows, NEW m \in Metrics
    PROVE  Answers(i, m) = "failed" <=>
               \/ Shows(i)[m] = "failed" /\ ~ (Is("lenient") /\ change.metric = m)
               \/ Shows(i)[m] = "passed" /\ Is("stricter") /\ change.metric = m
BY DEF Answers, Evaluated, Shows, Is

LEMMA IntactRun ==
    ASSUME Judged, Is("none") PROVE Accepts
<1>1. GateMetrics = Metrics /\ RunnerMetrics = Metrics BY DEF GateMetrics, RunnerMetrics, Is
<1>2. \A i \in Rows : benchmark[i].expect_failing_metrics \subseteq Metrics
  BY FailingIsOfMetrics DEF Judged, EvalInv, RowsDeclare
<1>3. ASSUME NEW i \in Rows, NEW m \in Metrics
      PROVE  Answers(i, m) = "failed" <=> m \in benchmark[i].expect_failing_metrics
  BY SameOutput, DeclaredIsShown DEF Is
<1>4. \A i \in Rows : FailedOf(i) = benchmark[i].expect_failing_metrics
  BY <1>1, <1>2, <1>3 DEF FailedOf
<1>5. ~ Is("unparsed") /\ ~ Is("raises") /\ ~ Is("unreadable") BY DEF Is
<1> QED BY <1>1, <1>2, <1>4, <1>5, AcceptsIff

LEMMA DeletedMetric ==
    ASSUME Judged, Is("deleted")
    PROVE  Accepts <=> \A i \in Rows : Shows(i)[change.metric] # "failed"
<1> DEFINE m == change.metric
<1>1. /\ GateMetrics = Metrics \ {m} /\ RunnerMetrics = Metrics \ {m} /\ m \in Metrics
      /\ ~ Is("unparsed") /\ ~ Is("raises") /\ ~ Is("unreadable")
  BY DEF GateMetrics, RunnerMetrics, Is, Judged, EvalInv, OneChange
<1>2. ASSUME NEW i \in Rows
      PROVE  benchmark[i].expect_failing_metrics \subseteq GateMetrics
                 <=> Shows(i)[m] # "failed"
  <2>1. benchmark[i].expect_failing_metrics \subseteq Metrics
    BY FailingIsOfMetrics DEF Judged, EvalInv, RowsDeclare
  <2>2. m \in benchmark[i].expect_failing_metrics <=> Shows(i)[m] = "failed"
    BY <1>1, DeclaredIsShown
  <2> QED BY <1>1, <2>1, <2>2
<1>3. ASSUME NEW i \in Rows, Shows(i)[m] # "failed"
      PROVE  FailedOf(i) = benchmark[i].expect_failing_metrics
  <2>1. \A n \in RunnerMetrics : Answers(i, n) = "failed" <=> n \in benchmark[i].expect_failing_metrics
    BY <1>1, SameOutput, DeclaredIsShown DEF Is
  <2>2. benchmark[i].expect_failing_metrics \subseteq RunnerMetrics BY <1>1, <1>2, <1>3
  <2> QED BY <2>1, <2>2 DEF FailedOf
<1> QED BY <1>1, <1>2, <1>3, AcceptsIff

LEMMA LenientMetric ==
    ASSUME Judged, Is("lenient")
    PROVE  Accepts <=> \A i \in Rows : Shows(i)[change.metric] # "failed"
<1> DEFINE m == change.metric
<1>1. /\ GateMetrics = Metrics /\ RunnerMetrics = Metrics /\ m \in Metrics
      /\ ~ Is("unparsed") /\ ~ Is("raises") /\ ~ Is("unreadable")
      /\ ~ Is("stricter") /\ ~ Is("rewritten")
  BY DEF GateMetrics, RunnerMetrics, Is, Judged, EvalInv, OneChange
<1>2. \A i \in Rows : benchmark[i].expect_failing_metrics \subseteq Metrics
  BY FailingIsOfMetrics DEF Judged, EvalInv, RowsDeclare
<1>3. ASSUME NEW i \in Rows
      PROVE  FailedOf(i) = benchmark[i].expect_failing_metrics <=> Shows(i)[m] # "failed"
  <2>1. \A n \in Metrics : n \in FailedOf(i) <=> Shows(i)[n] = "failed" /\ n # m
    BY <1>1, SameOutput DEF FailedOf
  <2>2. \A n \in Metrics : n \in benchmark[i].expect_failing_metrics <=> Shows(i)[n] = "failed"
    BY DeclaredIsShown
  <2>3. FailedOf(i) \subseteq Metrics BY <1>1 DEF FailedOf
  <2> QED BY <1>1, <1>2, <2>1, <2>2, <2>3
<1> QED BY <1>1, <1>2, <1>3, AcceptsIff

LEMMA StricterMetric ==
    ASSUME Judged, Is("stricter")
    PROVE  Accepts <=> \A i \in Rows : Shows(i)[change.metric] # "passed"
<1> DEFINE m == change.metric
<1>1. /\ GateMetrics = Metrics /\ RunnerMetrics = Metrics /\ m \in Metrics
      /\ ~ Is("unparsed") /\ ~ Is("raises") /\ ~ Is("unreadable")
      /\ ~ Is("lenient") /\ ~ Is("rewritten")
  BY DEF GateMetrics, RunnerMetrics, Is, Judged, EvalInv, OneChange
<1>2. \A i \in Rows : benchmark[i].expect_failing_metrics \subseteq Metrics
  BY FailingIsOfMetrics DEF Judged, EvalInv, RowsDeclare
<1>3. ASSUME NEW i \in Rows
      PROVE  FailedOf(i) = benchmark[i].expect_failing_metrics <=> Shows(i)[m] # "passed"
  <2>1. \A n \in Metrics :
          n \in FailedOf(i) <=> Shows(i)[n] = "failed" \/ (Shows(i)[n] = "passed" /\ n = m)
    BY <1>1, SameOutput DEF FailedOf
  <2>2. \A n \in Metrics : n \in benchmark[i].expect_failing_metrics <=> Shows(i)[n] = "failed"
    BY DeclaredIsShown
  <2>3. FailedOf(i) \subseteq Metrics BY <1>1 DEF FailedOf
  <2> QED BY <1>1, <1>2, <2>1, <2>2, <2>3
<1> QED BY <1>1, <1>2, <1>3, AcceptsIff

(* An output rewritten: the other row is as it was.                        *)
LEMMA RewrittenOutput ==
    ASSUME Judged, Is("rewritten")
    PROVE  Accepts <=> Failing(change.output, benchmark[change.row].case)
                           = benchmark[change.row].expect_failing_metrics
<1>1. /\ GateMetrics = Metrics /\ RunnerMetrics = Metrics /\ change.row \in Rows
      /\ ~ Is("unparsed") /\ ~ Is("raises") /\ ~ Is("unreadable")
      /\ ~ Is("lenient") /\ ~ Is("stricter")
  BY DEF GateMetrics, RunnerMetrics, Is, Judged, EvalInv, OneChange
<1>2. \A i \in Rows : /\ benchmark[i].expect_failing_metrics \subseteq Metrics
                      /\ benchmark[i].expect_failing_metrics
                             = Failing(benchmark[i].output, benchmark[i].case)
  BY FailingIsOfMetrics DEF Judged, EvalInv, RowsDeclare
<1>3. ASSUME NEW i \in Rows PROVE FailedOf(i) = Failing(Evaluated(i), benchmark[i].case)
  BY <1>1 DEF FailedOf, Answers, Failing
<1>4. Evaluated(change.row) = change.output BY DEF Evaluated
<1>5. \A i \in Rows \ {change.row} : Evaluated(i) = benchmark[i].output BY DEF Evaluated
<1> QED BY <1>1, <1>2, <1>3, <1>4, <1>5, AcceptsIff

(* Everything else is refused.                                             *)
LEMMA RefusedRuns ==
    ASSUME Judged, \E kind \in {"raises", "older", "newer", "unreadable", "unparsed"} : Is(kind)
    PROVE  ~ Accepts
<1>1. CASE Is("unparsed") BY <1>1 DEF Accepts, RunCompleted, Problems
<1>2. CASE Is("older") \/ Is("newer")
  <2>1. change.metric \in Metrics BY DEF Judged, EvalInv, OneChange
  <2>2. GateMetrics # RunnerMetrics BY <1>2, <2>1 DEF GateMetrics, RunnerMetrics, Is
  <2> QED BY <2>2 DEF Accepts, MetricsAllRan
<1>3. CASE Is("raises") \/ Is("unreadable")
  <2>1. ~ Is("unparsed") /\ ~ Is("database") /\ change.row \in Rows
    BY <1>3 DEF Is, Judged, EvalInv, OneChange
  <2>2. EvaluateCase(change.row) = Bare(change.row, "errored")
    BY <1>3, <2>1 DEF EvaluateCase, Unreadable
  <2>3. results[change.row].status = "errored" /\ change.row \in DOMAIN results
    BY <2>1, <2>2, WholeRun DEF Bare
  <2> QED BY <2>3 DEF Accepts, RunCompleted, WithStatus
<1> QED BY <1>1, <1>2, <1>3

LEMMA ExactGate == ASSUME EvalInv PROVE GateIsExact
<1> SUFFICES ASSUME Judged PROVE verdict = "accepted" <=> Invisible
  BY DEF Judged, GateIsExact
<1>1. verdict = "accepted" <=> Accepts BY DEF Judged, EvalInv
<1>2. change.kind \in ChangeKinds /\ ~ Is("database")
  BY DEF Judged, EvalInv, OneChange, LoadReport
<1>3. CASE Is("none") BY <1>1, <1>3, IntactRun DEF Invisible, Is
<1>4. CASE Is("deleted") BY <1>1, <1>4, DeletedMetric DEF Invisible, Is, Shows, Rows
<1>5. CASE Is("lenient") BY <1>1, <1>5, LenientMetric DEF Invisible, Is, Shows, Rows
<1>6. CASE Is("stricter") BY <1>1, <1>6, StricterMetric DEF Invisible, Is, Shows, Rows
<1>7. CASE Is("rewritten") BY <1>1, <1>7, RewrittenOutput DEF Invisible, Is
<1>8. CASE \E kind \in {"raises", "older", "newer", "unreadable", "unparsed"} : Is(kind)
  BY <1>1, <1>8, RefusedRuns DEF Invisible, Is
<1> QED BY <1>2, <1>3, <1>4, <1>5, <1>6, <1>7, <1>8 DEF ChangeKinds, Is

(***************************************************************************)
(* For every benchmark of two rows and whatever the metrics say of them:   *)
(* the gate accepts exactly the changes that no row can show               *)
(* (eval/gate.py, _case_contract and _metrics_all_ran).                    *)
(***************************************************************************)
THEOREM TheGateIsExact == EvalSpec => []GateIsExact
<1>1. EvalInv => GateIsExact BY ExactGate
<1> QED BY <1>1, EvalInvariant, PTL

-----------------------------------------------------------------------------
(***************************************************************************)
(* The composition.  A part that is not explored rests in its initial      *)
(* state, so each part's specification holds of every behaviour, but for   *)
(* the rubric and the evaluation, which then start elsewhere.              *)
(***************************************************************************)
EvalPart == IF part = "eval" THEN EvalInv ELSE EvalAtRest

LEMMA AtRestTypes == ASSUME EvalAtRest PROVE EvalTypeOK
BY DEF EvalAtRest, EvalTypeOK

LEMMA AtRestIsExact == ASSUME EvalAtRest PROVE GateIsExact
BY DEF EvalAtRest, GateIsExact

LEMMA EvalPartHolds == ASSUME EvalPart PROVE EvalTypeOK /\ GateIsExact
BY EvalTypes, ExactGate, AtRestTypes, AtRestIsExact DEF EvalPart

LEMMA PartsStart ==
    ASSUME Init
    PROVE  /\ PoolInit /\ ToolInit /\ SourcesInit /\ BucketInit /\ LeaseInit /\ KeyInit
           /\ ScoresOK /\ EvalPart
<1>1. ScoresOK
  <2>1. TableInit => scores \in Scores BY DEF TableInit
  <2>2. [d \in Dimensions |-> 5] \in Scores BY DEF Scores
  <2> QED BY <2>1, <2>2 DEF Init, Offline, ScoresOK
<1>2. EvalPart BY InitEval DEF Init, Offline, EvalPart
<1> QED BY <1>1, <1>2 DEF Init

LEMMA PartsStep ==
    ASSUME [Next]_vars
    PROVE  /\ [PoolNext]_poolVars /\ [ToolNext]_toolVars /\ [SourcesNext]_sourcesVars
           /\ [BucketNext]_bucketVars /\ [LeaseNext]_leaseVars /\ [KeyNext]_keyVars
           /\ [TableNext]_scores
           /\ part' = part /\ (UNCHANGED evalVars \/ (part = "eval" /\ EvalNext))
BY DEF Next, vars, ResearchVars, OfflineVars, Pool, Tools, Visit, Bucket, Lease, Rubrics, Keys,
       Evaluation

LEMMA EvalPartStep == ASSUME EvalPart, [Next]_vars PROVE EvalPart'
<1>1. part' = part /\ (UNCHANGED evalVars \/ (part = "eval" /\ EvalNext)) BY PartsStep
<1>2. CASE part = "eval"
  <2>1. EvalInv BY <1>2 DEF EvalPart
  <2>2. EvalInv' BY <1>1, <2>1, EvaluateStep, GateStep, EvalStutter DEF EvalNext
  <2> QED BY <1>1, <1>2, <2>2 DEF EvalPart
<1>3. CASE part # "eval"
  <2>1. EvalAtRest /\ UNCHANGED <<benchmark, change, results, verdict>>
    BY <1>1, <1>3 DEF EvalPart, evalVars
  <2> QED BY <1>1, <1>3, <2>1 DEF EvalPart, EvalAtRest
<1> QED BY <1>2, <1>3

LEMMA ServicesRunTheParts ==
    FairSpec => /\ PoolSpec /\ ToolSpec /\ SourcesSpec /\ BucketSpec /\ LeaseSpec /\ KeySpec
                /\ []ScoresOK /\ []EvalPart
<1>1. ScoresOK /\ [TableNext]_scores => ScoresOK'
  BY DEF TableNext, Improve, Scores, ScoresOK
<1>2. EvalPart /\ [Next]_vars => EvalPart' BY EvalPartStep
<1>3. Init => /\ PoolInit /\ ToolInit /\ SourcesInit /\ BucketInit /\ LeaseInit /\ KeyInit
              /\ ScoresOK /\ EvalPart
  BY PartsStart
<1>4. [Next]_vars => /\ [PoolNext]_poolVars /\ [ToolNext]_toolVars /\ [SourcesNext]_sourcesVars
                     /\ [BucketNext]_bucketVars /\ [LeaseNext]_leaseVars /\ [KeyNext]_keyVars
                     /\ [TableNext]_scores
  BY PartsStep
<1> QED BY <1>1, <1>2, <1>3, <1>4, PTL
        DEF FairSpec, PoolSpec, ToolSpec, SourcesSpec, BucketSpec, LeaseSpec, KeySpec

(***************************************************************************)
(* Every variable of every part stays in its set, for all constants.       *)
(***************************************************************************)
THEOREM ServicesTypes == FairSpec => []TypeOK
<1>1. PoolTypeOK /\ ToolTypeOK /\ SourcesTypeOK /\ BucketTypeOK /\ LeaseTypeOK /\ KeyTypeOK
        /\ ScoresOK /\ EvalPart => TypeOK
  BY EvalPartHolds DEF TypeOK, ScoresOK
<1> QED BY <1>1, ServicesRunTheParts, PoolTypes, ToolStateTypes, VisitTypes, LimiterTypes, LeaseTypes,
           KeyCacheTypes, PTL

(***************************************************************************)
(* The invariants of the parts together.                                   *)
(***************************************************************************)
PartsAreSafe ==
    /\ RequestsArePaidFor /\ NumberedInPageOrder /\ WaitIsBounded
    /\ GivenWasServed /\ OneBadResultCostsItself
    /\ RepeatsArePaidFor
    /\ OverGrantIsBounded
    /\ ClaimIsSound /\ LossClosesAdmission
    /\ RepairsTheWorst /\ KeyIsRecent /\ GateIsExact

(***************************************************************************)
(* What the run of Services checks of the parts holds for all constants:   *)
(* the composition keeps every invariant proved of a part alone.           *)
(***************************************************************************)
THEOREM ServicesAreSafe == FairSpec => []PartsAreSafe
<1>1. ScoresOK => RepairsTheWorst BY WorstIsRepaired
<1>2. EvalPart => GateIsExact BY EvalPartHolds
<1>3. RequestsArePaidFor /\ NumberedInPageOrder /\ WaitIsBounded /\ GivenWasServed
        /\ OneBadResultCostsItself /\ RepeatsArePaidFor /\ OverGrantIsBounded /\ ClaimIsSound
        /\ LossClosesAdmission /\ RepairsTheWorst /\ KeyIsRecent /\ GateIsExact => PartsAreSafe
  BY DEF PartsAreSafe
<1> QED BY <1>1, <1>2, <1>3, ServicesRunTheParts, EveryRequestIsPaidFor, NumberingIsInPageOrder,
           WaitingIsBounded, PagesWereServed, OneBadResultIsOneLost, RepeatsAreOwed,
           BoundedOverGrant, SoundClaim, LossReachesAdmission, KeysAreRecent, PTL
=============================================================================
