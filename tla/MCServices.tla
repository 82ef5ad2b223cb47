----------------------------- MODULE MCServices -----------------------------
(***************************************************************************)
(* Values for the constants of every part.                                 *)
(***************************************************************************)
EXTENDS Services

(* One retry of each kind, and a header beyond the largest delay of ours.  *)
OneRetry == <<1>>
NoRetry == <<>>
HeadersMet == {-1, 5}

FetchSchedule == <<2>>
SearchSchedule == <<1>>

(* A page, a redirect to it, and a page of its own.                        *)
Urls == {"a", "a1", "b"}
OneRedirect == ("a" :> "a") @@ ("a1" :> "a") @@ ("b" :> "b")

(* Two workers, one of them on a clock that is a tick ahead.               *)
TwoWorkers == {"w1", "w2"}
OneAhead == ("w1" :> 0) @@ ("w2" :> 1)

(* Benchmark rows, one for each defect a committed fixture carries on       *)
(* purpose, and two that expect a gap or a failed job.                      *)
Source(page, host, id) == [page |-> page, host |-> host, ids |-> {id}]
SoundReport == [status |-> "approved", malformed |-> FALSE, report |-> TRUE, hollow |-> FALSE,
          claims |-> <<{"f1"}, {"f2"}>>,
          sources |-> <<Source("p1", "h1", "f1"), Source("p2", "h2", "f2")>>,
          says |-> {"ours", "theirs", "fact"}, supported |-> 2, unsupported |-> 0,
          planned |-> {"s1", "s2"}, unresearched |-> {}]
NoReport == [SoundReport EXCEPT !.report = FALSE, !.claims = <<>>, !.sources = <<>>, !.says = {},
                          !.supported = 0]
Asks == [expected_status |-> "approved", required_facts |-> {}, required_entities |-> {"ours"},
         forbidden_claims |-> {}, min_claims |-> Unstated, min_distinct_domains |-> Unstated,
         max_unsupported_claims |-> Unstated, expect_all_subtopics_researched |-> "unstated"]
Row(output, case) == [output |-> output, case |-> case]

Rows == {
    Row(SoundReport, [Asks EXCEPT !.required_facts = {{"fact", "worded"}}, !.min_claims = 2,
                            !.min_distinct_domains = 2, !.max_unsupported_claims = 0,
                            !.expect_all_subtopics_researched = "yes"]),
    Row([SoundReport EXCEPT !.says = {"ours"}], [Asks EXCEPT !.required_entities = {"ours", "theirs"}]),
    Row([SoundReport EXCEPT !.claims = <<{"f1"}, {"f3"}>>, !.supported = 1, !.unsupported = 1],
        [Asks EXCEPT !.max_unsupported_claims = 0]),
    Row([NoReport EXCEPT !.malformed = TRUE], Asks),
    Row([SoundReport EXCEPT !.says = @ \union {"overclaim"}],
        [Asks EXCEPT !.forbidden_claims = {"overclaim"}]),
    Row([SoundReport EXCEPT !.unresearched = {"s2"}],
        [Asks EXCEPT !.expect_all_subtopics_researched = "no"]),
    Row([SoundReport EXCEPT !.sources = Append(@, Source("p1", "h1", "f1"))],
        [Asks EXCEPT !.min_distinct_domains = 2]),
    Row([SoundReport EXCEPT !.sources = <<Source("p1", "h1", "f1"), Source("p2", "h1", "f2")>>],
        [Asks EXCEPT !.min_distinct_domains = 2]),
    Row([SoundReport EXCEPT !.hollow = TRUE], [Asks EXCEPT !.min_claims = 2]),
    Row([NoReport EXCEPT !.status = "failed", !.unresearched = {"s1", "s2"}],
        [Asks EXCEPT !.expected_status = "failed", !.expect_all_subtopics_researched = "no"])}

Outputs == { row.output : row \in Rows }
=============================================================================
