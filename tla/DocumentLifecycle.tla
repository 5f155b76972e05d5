-------------------------- MODULE DocumentLifecycle -------------------------
(***************************************************************************)
(* One document under every actor that changes it: API commands, the        *)
(* ingest, ACL projection, cleanup and delete workflows, the dispatcher and *)
(* the reconciler, interleaved at the granularity of their transactions and *)
(* external calls.                                                          *)
(***************************************************************************)
EXTENDS IngestWorkflow, CleanupWorkflow, AclProjection, DocumentCommands, DocumentDelete

Commands ==
    \/ \E v \in Versions, g \in Generations : CreateVersion(v, g)
    \/ \E g \in Generations : CancelQueued(g) \/ CancelRunning(g)
    \/ \E g, fresh \in Generations : RetryIngest(g, fresh)
    \/ \E j \in AclJobs, a \in AclValues : ReplaceAcl(j, a)
    \/ DeleteRequest
    \/ \E d, fresh \in DeleteJobs : DeleteRetry(d, fresh)

Workflows ==
    \/ \E g \in Generations :
          \/ IngestDispatch(g) \/ IngestStep(g) \/ IngestReconcile(g)
          \/ CleanupMaterialize(g) \/ CleanupDispatch(g) \/ CleanupStep(g)
          \/ CleanupReconcile(g) \/ CleanupRetry(g)
    \/ \E j \in AclJobs : AclDispatch(j) \/ AclStep(j) \/ AclReconcile(j)
    \/ \E d \in DeleteJobs : DeleteDispatch(d) \/ DeleteStep(d) \/ DeleteReconcile(d)

Failures ==
    \/ \E g \in Generations : IngestDies(g) \/ CleanupDeleteFails(g) \/ CleanupDies(g)
    \/ \E j \in AclJobs : AclProjectRolledBack(j) \/ AclDies(j)
    \/ \E d \in DeleteJobs : DeleteStepFails(d) \/ DeleteDies(d)

Next == Commands \/ Workflows \/ Failures

Spec == Init /\ [][Next]_vars

\* The dispatcher and the reconciler run periodically and DBOS recovers its
\* workflows; nothing is assumed of users, operators, failures or the dispatch
\* of a cancelled job.  Nor is anything of the reconciler where a job is queued:
\* it selects the jobs not updated for a while, and each round of the dispatcher
\* updates the queued ones, also those whose workflow was lost.  The actions of
\* one line are never enabled together, so that being fair to their disjunction
\* is being fair to each.
Fairness ==
    /\ \A g \in Generations :
          /\ WF_vars(\/ jobStatus[g] = "queued" /\ IngestDispatch(g)
                     \/ IngestStep(g)
                     \/ jobStatus[g] # "queued" /\ IngestReconcile(g))
          /\ WF_vars(\/ CleanupMaterialize(g)
                     \/ cleanJob[g] = "queued" /\ CleanupDispatch(g)
                     \/ CleanupStep(g)
                     \/ cleanJob[g] # "queued" /\ CleanupReconcile(g))
    /\ \A j \in AclJobs :
          WF_vars(\/ aclStatus[j] = "queued" /\ AclDispatch(j)
                  \/ AclStep(j)
                  \/ aclStatus[j] # "queued" /\ AclReconcile(j))
    /\ \A d \in DeleteJobs :
          WF_vars(\/ DeleteDispatch(d) \/ DeleteStep(d)
                  \/ delStatus[d] # "queued" /\ DeleteReconcile(d))

FairSpec == Spec /\ Fairness

(***************************************************************************)
(* What retrieval resolves: DrizzleActiveGenerationResolver.                *)
(***************************************************************************)
Served ==
    IF Mutable /\ acl = projected
    THEN {g \in ActiveGenerations : verStatus[activeVersion] = "active"}
    ELSE {}

(***************************************************************************)
(* Safety.                                                                  *)
(***************************************************************************)

\* A generation that retrieval resolves has its points in Qdrant with the
\* visibility the search filters on: neither a cleanup, nor the deactivation
\* of a replaced generation, nor a late step of a cancelled ingest hits it.
ServedPointsVisible == \A g \in Served : pointVis[g] = "active"

\* Whoever the points of a served generation admit is who the document's ACL
\* admits now: the comparison of fingerprints in PostgreSQL stands for the
\* payload in Qdrant.  (Does not hold: see the run "aclaba" and ServedAclKept.)
ServedAclCurrent == \A g \in Served : pointAcl[g] = acl

\* Points with another ACL are served only as long as a projection of the
\* present one has not completed: it is queued, has failed or was cancelled.
StaleAclHasJob ==
    ServedAclCurrent
    \/ \E j \in AclJobs : aclFp[j] = acl /\ aclStatus[j] \notin {"none", "completed"}

\* documents.status tells the truth: "processing" has an ingest under way for
\* the desired version, "ready" serves the desired version, "degraded" still
\* serves another one, "failed" serves none.
StatusTruthful ==
    /\ docStatus = "processing" => jobStatus[verGen[desired]] \in OpenJobStatuses
    /\ docStatus = "ready" => activeVersion = desired
    /\ docStatus = "degraded" => activeVersion \notin {None, desired}
    /\ docStatus \in {"failed", "deleted"} => activeVersion = None

\* At most one ingest may still reach its activation, and it is the one for the
\* desired version: the cancel route's updates without a guard rely on it.
OnlyDesiredIngestRuns ==
    \A g \in Generations : jobStatus[g] \in {"queued", "running"} =>
        /\ Mutable
        /\ genVer[g] = desired
        /\ verGen[desired] = g

\* No version waits for an ingest that is over: while its row is open, so is the
\* job of its generation.
NoStrandedVersions ==
    \A v \in Versions :
        verStatus[v] \in OpenVersionStatuses => jobStatus[verGen[v]] \in OpenJobStatuses

\* No points are forgotten: those of a generation whose ingest has ended are
\* served, or have a row in the cleanup queue, or go with their document.
NoForgottenPoints ==
    \A g \in Generations :
        pointVis[g] # "none" /\ jobStatus[g] \in TerminalJobStatuses =>
            \/ g \in ActiveGenerations
            \/ sweep[g] \in {"pending", "sweeping", "error"}

\* A deleted document has left nothing behind, and no workflow can put anything
\* back: no points, no source object, no ingest that could still write.
DeletedLeavesNothing ==
    docStatus = "deleted" =>
        /\ \A g \in Generations : pointVis[g] = "none" /\ wf[g] \notin {"upserting", "exposing"}
        /\ stored = {}

\* A cleanup row marked deleted, or a completed cleanup job, means erased points.
CompletedCleanupErased ==
    \A g \in Generations : cleanJob[g] = "completed" => pointVis[g] = "none"

\* The points of a generation that is over are served, or queued for the
\* cleanup, or erased once that has said so.
PointsAccounted == NoForgottenPoints /\ CompletedCleanupErased

\* The active pointer and the version statuses agree, and the active version
\* still has the generation whose job completed: no retry, cancel or new version
\* changes the row that retrieval resolves.
PointerSound ==
    /\ \A v \in Versions : verStatus[v] = "active" => v = activeVersion
    /\ activeVersion # None =>
          /\ Mutable => verStatus[activeVersion] = "active"
          /\ verGen[activeVersion] \in Generations
          /\ genVer[verGen[activeVersion]] = activeVersion
          /\ jobStatus[verGen[activeVersion]] = "completed"

(***************************************************************************)
(* The invariant the proofs are by: what the properties above need to be    *)
(* preserved by every step.                                                 *)
(***************************************************************************)

\* A version row has a generation from its insertion on, and that generation's
\* job names the version; the desired version has its row.
VersionsOwnGenerations ==
    /\ \A v \in Versions :
          /\ verStatus[v] = "none" <=> verGen[v] = None
          /\ verGen[v] # None => genVer[verGen[v]] = v
    /\ verGen[desired] # None

\* A version never gets another generation once a job of it has completed.
CompletedKeepGeneration ==
    \A g \in Generations : jobStatus[g] = "completed" =>
        /\ genVer[g] \in Versions
        /\ verGen[genVer[g]] = g

\* While an ingest job is the latest of the document, it is the one of the
\* desired version's generation.
LatestIsDesired ==
    latest \in Generations => verGen[desired] = latest /\ genVer[latest] = desired

\* Only a document that no longer accepts changes has delete jobs and workflows.
DeletesAreFinal ==
    \A d \in DeleteJobs :
        /\ delStatus[d] # "none" => ~Mutable
        /\ delStatus[d] = "none" => delWf[d] = "none"

\* The inductive invariant of the lifecycle.
LifecycleInv ==
    /\ TypeOK
    /\ PointerSound
    /\ OnlyDesiredIngestRuns
    /\ StatusTruthful
    /\ NoStrandedVersions
    /\ VersionsOwnGenerations
    /\ CompletedKeepGeneration
    /\ LatestIsDesired
    /\ DeletesAreFinal

(***************************************************************************)
(* The abstract document: what is published, behind all the machinery.      *)
(***************************************************************************)

\* The versions that were activated at some time, by their completed jobs.
Activated == {genVer[g] : g \in {x \in Generations : jobStatus[x] = "completed"}}

Published == INSTANCE PublishedDocument WITH
    published <- activeVersion, retired <- Activated \ {activeVersion}, open <- Mutable

\* The lifecycle implements PublishedDocument: one version at a time, replaced
\* in one step, never brought back, nothing published once a delete is accepted.
ImplementsPublished == Published!Spec

(***************************************************************************)
(* Action properties.                                                       *)
(***************************************************************************)

\* What is published only changes to the version asked for last, and is only
\* withdrawn by the completion of a delete: a failed replacement never displaces
\* the old active version, a stale job never activates over a newer one.
PublishedStep ==
    activeVersion' # activeVersion =>
        \/ activeVersion' = desired /\ Mutable
        \/ docStatus' = "deleted"
PublishedOnlyByDesired == [][PublishedStep]_vars

\* The document is given back the ACL that PostgreSQL has as the projected one.
RestoresProjected == acl' # acl /\ acl' = projected

\* The ACL of served points goes wrong in one way only: an edit gives back the
\* ACL that is projected, after a projection of another had reached Qdrant and
\* was rolled back.  No activation, projection, retry, cancel, cleanup or late
\* write does it, and until the ACL is right again the edit's projection is due.
ServedAclStep ==
    /\ ServedAclCurrent => ServedAclCurrent' \/ RestoresProjected
    /\ StaleAclHasJob'
ServedAclKept == [][ServedAclStep]_vars

(***************************************************************************)
(* Liveness, under FairSpec.                                                *)
(***************************************************************************)

\* Every ingest job ends: a dead workflow is projected by the reconciler, a
\* cancelled one stops.  All but a job still queued when its workflow is over,
\* which the dispatcher keeps too fresh for the reconciler.
StrandedIngest(g) == jobStatus[g] = "queued" /\ wf[g] \in EndedWf
IngestEnds == \A g \in Generations :
    jobStatus[g] \in OpenJobStatuses ~>
        jobStatus[g] \in TerminalJobStatuses \/ StrandedIngest(g)

\* A document being deleted ends up deleted, or its latest delete job has ended
\* in a state the retry accepts, or is stranded the same way.
StrandedDelete(d) == delStatus[d] = "queued" /\ delWf[d] \in EndedWf
DeleteEnds ==
    docStatus = "deleting" ~>
        \/ docStatus = "deleted"
        \/ /\ latest \in DeleteJobs
           /\ delStatus[latest] \in RetryableJobStatuses \/ StrandedDelete(latest)

\* ADR 0005, release invariant 4: once no job is open, a replacement that failed
\* has left the previous version where it was, readable.  (Does not hold: see
\* the run "hidden".)
Quiet ==
    /\ \A g \in Generations : jobStatus[g] \notin OpenJobStatuses
    /\ \A j \in AclJobs : aclStatus[j] \notin OpenJobStatuses
FailedReplacementKeepsServing ==
    Quiet /\ docStatus = "degraded" /\ verStatus[desired] = "failed" => Served # {}
=============================================================================
