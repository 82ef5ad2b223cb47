------------------------------ MODULE Services ------------------------------
(***************************************************************************)
(* The parts that the graph's nodes and the worker stand on.  They share   *)
(* no variable: a behaviour works one part and leaves the rest at their    *)
(* initial states, so one run explores each of them.                       *)
(***************************************************************************)
EXTENDS LlmClient, WebTools, Sources, RateLimiter, VisibilityLease, RubricTable,
        SigningKeys, EvalGate

VARIABLE part

Parts == {"pool", "tools", "sources", "bucket", "lease", "rubric", "keys", "eval"}

ResearchVars == <<poolVars, toolVars, sourcesVars>>
OfflineVars == <<scores, keyVars, evalVars>>
vars == <<part, ResearchVars, bucketVars, leaseVars, OfflineVars>>

Pool == part = "pool" /\ PoolNext
        /\ UNCHANGED <<part, toolVars, sourcesVars, bucketVars, leaseVars, OfflineVars>>

Tools == part = "tools" /\ ToolNext
         /\ UNCHANGED <<part, poolVars, sourcesVars, bucketVars, leaseVars, OfflineVars>>

Visit == part = "sources" /\ SourcesNext
         /\ UNCHANGED <<part, poolVars, toolVars, bucketVars, leaseVars, OfflineVars>>

Bucket == part = "bucket" /\ BucketNext
          /\ UNCHANGED <<part, ResearchVars, leaseVars, OfflineVars>>

Lease == part = "lease" /\ LeaseNext
         /\ UNCHANGED <<part, ResearchVars, bucketVars, OfflineVars>>

Rubrics == part = "rubric" /\ TableNext
           /\ UNCHANGED <<part, ResearchVars, bucketVars, leaseVars, keyVars, evalVars>>

Keys == part = "keys" /\ KeyNext
        /\ UNCHANGED <<part, ResearchVars, bucketVars, leaseVars, scores, evalVars>>

Evaluation == part = "eval" /\ EvalNext
              /\ UNCHANGED <<part, ResearchVars, bucketVars, leaseVars, scores, keyVars>>

Next == Pool \/ Tools \/ Visit \/ Bucket \/ Lease \/ Rubrics \/ Keys \/ Evaluation

EvalAtRest == benchmark = <<>> /\ change = NoChange /\ results = <<>> /\ verdict = "none"

(* A part that is not explored starts in one of its initial states.         *)
Offline ==
    /\ IF part = "rubric" THEN TableInit ELSE scores = [d \in Dimensions |-> 5]
    /\ IF part = "eval" THEN EvalInit ELSE EvalAtRest

Init ==
    /\ part \in Parts
    /\ PoolInit /\ ToolInit /\ SourcesInit /\ BucketInit /\ LeaseInit /\ KeyInit
    /\ part # "lease" => clock = 0 /\ hidden = Timeout
    /\ Offline

(***************************************************************************)
(* The pool's threads run, and a request or an acquire has a timeout.      *)
(***************************************************************************)
FairSpec == Init /\ [][Next]_vars /\ WF_vars(Pool)

(* Every variable stays in its set.                                         *)
TypeOK ==
    /\ PoolTypeOK /\ ToolTypeOK /\ SourcesTypeOK /\ BucketTypeOK /\ LeaseTypeOK
    /\ KeyTypeOK /\ EvalTypeOK /\ scores \in Scores

(***************************************************************************)
(* Whatever the endpoint and the limiter answer, and in whatever order the *)
(* threads reach the budget's lock, the Researcher's pool joins            *)
(* (agents/researcher.py _extract).                                        *)
(***************************************************************************)
PoolJoins == part = "pool" ~> update # "none"
=============================================================================
