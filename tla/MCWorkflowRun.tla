--------------------------- MODULE MCWorkflowRun ---------------------------
(***************************************************************************)
(* Instances of WorkflowRun for TLC: pipelines of two units of two kinds.  *)
(***************************************************************************)
EXTENDS WorkflowRun

CONSTANTS note, check, crawl

CheckAndCrawl == <<check, crawl>>

KindOf == [u \in {Pipeline[i] : i \in DOMAIN Pipeline} |->
             CASE u = note -> "local" [] u = check -> "seeded" [] u = crawl -> "external"]

\* Bound of the chain run: a job is resumed when its process is gone.
OneAtATime == \A i, j \in Jobs : Alive(i) /\ Alive(j) => i = j
=============================================================================
