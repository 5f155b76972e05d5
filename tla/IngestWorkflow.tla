--------------------------- MODULE IngestWorkflow ---------------------------
(***************************************************************************)
(* The durable document.ingest workflow: each action is one DBOS step, that *)
(* is one PostgreSQL transaction or one external call.  An external call is *)
(* split where it reads the database, checks the job and writes Qdrant at   *)
(* different moments.                                                       *)
(***************************************************************************)
EXTENDS LifecycleState

\* The dispatcher lists queued jobs first and enqueues them later: a job
\* cancelled in between is enqueued all the same.
IngestDispatch(g) ==
    /\ wf[g] = "none"
    /\ jobStatus[g] \in {"queued", "cancelled"}
    /\ wf' = [wf EXCEPT ![g] = "begin"]
    /\ UNCHANGED <<docVars, versionVars, jobVars, wfAcl, pointVars, aclVars, aclJobVars,
                   cleanVars, deleteVars, stored, faults>>

CancelSeen(g) == jobStatus[g] \in {"cancelling", "cancelled"}

OwnsActive(g) ==
    /\ g \in ActiveGenerations
    /\ activeVersion = genVer[g]
    /\ verStatus[genVer[g]] = "active"

\* A version that is still open gets the status its ingest ended with.
EndedVersion(v, status) ==
    IF verStatus[v] \in OpenVersionStatuses THEN [verStatus EXCEPT ![v] = status] ELSE verStatus

\* refreshDocumentFailure: the desired version did not make it.
DocumentFailure(v) ==
    IF desired # v \/ ~Mutable THEN docStatus
    ELSE IF activeVersion = None THEN "failed" ELSE "degraded"

\* queueFailedStagingGeneration: a cleanup job for the staged points, and a row
\* in the queue unless the generation is being served.
QueueFailedStaging(g) ==
    /\ cleanJob' = IF cleanJob[g] = "none" THEN [cleanJob EXCEPT ![g] = "queued"] ELSE cleanJob
    /\ sweep' = IF sweep[g] = "none" /\ g \notin ActiveGenerations
                THEN [sweep EXCEPT ![g] = "pending"] ELSE sweep

\* The end of an ingest that did not activate: markCancelled and markError.
Settle(g, status) ==
    /\ verStatus' = EndedVersion(genVer[g], status)
    /\ jobStatus' = [jobStatus EXCEPT ![g] = status]
    /\ docStatus' = DocumentFailure(genVer[g])
    /\ QueueFailedStaging(g)
    /\ UNCHANGED <<desired, latest, activeVersion, verGen, genVer, jobPrev, wfAcl, pointVars,
                   aclVars, aclJobVars, cleanWf, deleteVars, stored>>

\* Nothing but the position of the workflow changes.
GoTo(g, step) ==
    /\ wf' = [wf EXCEPT ![g] = step]
    /\ UNCHANGED <<docVars, versionVars, jobVars, wfAcl, pointVars, aclVars, aclJobVars,
                   cleanVars, deleteVars, stored, faults>>

CanBegin(g) ==
    /\ InScope(g)
    /\ jobStatus[g] \in {"queued", "running"}
    /\ Mutable
    /\ desired = genVer[g]
    /\ verStatus[genVer[g]] \in OpenVersionStatuses

IngestBegin(g) ==
    /\ wf[g] = "begin"
    /\ CanBegin(g)
    /\ verStatus' = [verStatus EXCEPT ![genVer[g]] = "processing"]
    /\ jobStatus' = [jobStatus EXCEPT ![g] = "running"]
    /\ Checkpoint(wf, g, "begin", "stage")
    /\ UNCHANGED <<docVars, verGen, genVer, jobPrev, wfAcl, pointVars, aclVars, aclJobVars,
                   cleanVars, deleteVars, stored>>

\* begin finds the job cancelled and ends the workflow by itself.
IngestBeginCancelled(g) ==
    /\ wf[g] = "begin"
    /\ InScope(g)
    /\ CancelSeen(g)
    /\ Settle(g, "cancelled")
    /\ Checkpoint(wf, g, "begin", "done")

IngestBeginRefused(g) ==
    /\ wf[g] = "begin"
    /\ ~CanBegin(g)
    /\ ~(InScope(g) /\ CancelSeen(g))
    /\ GoTo(g, "error")

\* stageDocument loads the source and takes its snapshot of the ACL.
IngestLoadScope(g) ==
    /\ wf[g] = "stage"
    /\ InScope(g)
    /\ Mutable
    /\ wfAcl' = [wfAcl EXCEPT ![g] = acl]
    /\ wf' = [wf EXCEPT ![g] = "indexing"]
    /\ UNCHANGED <<docVars, versionVars, jobVars, pointVars, aclVars, aclJobVars, cleanVars,
                   deleteVars, stored, faults>>

\* The last assertContinuing before a batch: the job must still be running.
IngestCheckBatch(g) ==
    /\ wf[g] = "indexing"
    /\ jobStatus[g] = "running"
    /\ GoTo(g, "upserting")

\* The upsert itself looks at nothing: whatever happened since the check, the
\* points are written.  A crash runs stageDocument again from its snapshot.
IngestUpsert(g) ==
    /\ wf[g] = "upserting"
    /\ pointVis' = [pointVis EXCEPT ![g] = "staging"]
    /\ pointAcl' = [pointAcl EXCEPT ![g] = wfAcl[g]]
    /\ Checkpoint(wf, g, "stage", "prepare")
    /\ UNCHANGED <<docVars, versionVars, jobVars, wfAcl, aclVars, aclJobVars, cleanVars,
                   deleteVars, stored>>

CanPrepare(g) ==
    /\ InScope(g)
    /\ jobStatus[g] = "running"
    /\ Mutable
    /\ desired = genVer[g]
    /\ verStatus[genVer[g]] \in {"processing", "activating"}

IngestPrepare(g) ==
    /\ wf[g] = "prepare"
    /\ CanPrepare(g)
    /\ verStatus' = [verStatus EXCEPT ![genVer[g]] = "activating"]
    /\ Checkpoint(wf, g, "prepare", "visibility")
    /\ UNCHANGED <<docVars, verGen, jobVars, wfAcl, pointVars, aclVars, aclJobVars, cleanVars,
                   deleteVars, stored>>

IngestPrepareRefused(g) ==
    /\ wf[g] = "prepare"
    /\ ~CanPrepare(g)
    /\ GoTo(g, "error")

\* setGenerationVisibility reads the ACL without a lock ...
IngestLoadAcl(g) ==
    /\ wf[g] = "visibility"
    /\ InScope(g)
    /\ Mutable
    /\ wfAcl' = [wfAcl EXCEPT ![g] = acl]
    /\ wf' = [wf EXCEPT ![g] = "exposing"]
    /\ UNCHANGED <<docVars, versionVars, jobVars, pointVars, aclVars, aclJobVars, cleanVars,
                   deleteVars, stored, faults>>

\* ... and writes it later, with the visibility "active", to points that must exist.
IngestExpose(g) ==
    /\ wf[g] = "exposing"
    /\ pointVis[g] # "none"
    /\ pointVis' = [pointVis EXCEPT ![g] = "active"]
    /\ pointAcl' = [pointAcl EXCEPT ![g] = wfAcl[g]]
    /\ Checkpoint(wf, g, "visibility", "activate")
    /\ UNCHANGED <<docVars, versionVars, jobVars, wfAcl, aclVars, aclJobVars, cleanVars,
                   deleteVars, stored>>

\* An external step gave up (unreadable source, parser, provider or Qdrant),
\* or one of the checks between them found the job no longer running.
IngestFails(g) ==
    /\ wf[g] \in {"stage", "indexing", "upserting", "visibility", "exposing"}
    /\ GoTo(g, "error")

\* The version, if any, the activation of g takes the place of.
Replaced(g) == {activeVersion} \ {None, genVer[g]}

\* The conditions under which activate commits.
MutantCanActivateStale(g) ==   \* mutant: trusts what prepareActivation has checked
    /\ InScope(g)
    /\ jobStatus[g] \in {"running", "cancelling"}
    /\ Mutable
    /\ acl = wfAcl[g]
    /\ verStatus[genVer[g]] = "activating"
MutantCanActivateAcl(g) ==   \* mutant: no comparison of ACL fingerprints
    /\ InScope(g)
    /\ jobStatus[g] = "running"
    /\ Mutable
    /\ desired = genVer[g]
    /\ verStatus[genVer[g]] = "activating"
CanActivate(g) ==
    /\ InScope(g)
    /\ jobStatus[g] = "running"
    /\ Mutable
    /\ acl = wfAcl[g]
    /\ desired = genVer[g]
    /\ verStatus[genVer[g]] = "activating"
    /\ sweep[g] \in {"none", "pending"} /\ cleanJob[g] = "none"
    /\ \A x \in Replaced(g) : verStatus[x] = "active"

\* queueSupersededGeneration for the replaced version, and cancelPendingCleanup
\* for the activated one.
MutantQueueSuperseded(g, replacedGens) == sweep' = sweep   \* mutant: the replaced points stay
QueueSuperseded(g, replacedGens) ==
    sweep' = [x \in Generations |->
                 IF x \in replacedGens /\ sweep[x] = "none" THEN "pending"
                 ELSE IF x = g THEN "none" ELSE sweep[x]]

\* previous_generation_id of the job's result.
PreviousGeneration(replaced) == IF replaced = {} THEN None ELSE verGen[activeVersion]

\* The job of an activated generation is over.
MutantActivatedJobs(g) == jobStatus   \* mutant: completion is left to a later transaction
ActivatedJobs(g) == [jobStatus EXCEPT ![g] = "completed"]

\* The atomic switch of the active version.
IngestActivate(g) ==
    LET v == genVer[g]
        replaced == Replaced(g)
    IN
    /\ wf[g] = "activate"
    /\ CanActivate(g)
    /\ activeVersion' = v
    /\ verStatus' = [x \in Versions |-> IF x = v THEN "active"
                                        ELSE IF x \in replaced THEN "superseded"
                                        ELSE verStatus[x]]
    /\ QueueSuperseded(g, {verGen[x] : x \in replaced})
    /\ docStatus' = "ready"
    /\ projected' = acl
    /\ jobStatus' = ActivatedJobs(g)
    /\ jobPrev' = [jobPrev EXCEPT ![g] = PreviousGeneration(replaced)]
    /\ Checkpoint(wf, g, "activate", IF replaced = {} THEN "done" ELSE "deactivate")
    /\ UNCHANGED <<desired, latest, verGen, genVer, wfAcl, pointVars, acl, aclJobVars, cleanJob,
                   cleanWf, deleteVars, stored>>

\* The activation had committed before the crash: its stored result is returned.
IngestActivateReplay(g) ==
    /\ wf[g] = "activate"
    /\ InScope(g)
    /\ jobStatus[g] = "completed"
    /\ OwnsActive(g)
    /\ GoTo(g, IF jobPrev[g] = None THEN "done" ELSE "deactivate")

\* Cancelled, deleting, superseded or ACL changed since the points were exposed
\* (retries compare the same stale fingerprint again), or completed and already
\* replaced by a newer version.
IngestActivateRefused(g) ==
    /\ wf[g] = "activate"
    /\ ~CanActivate(g)
    /\ ~(InScope(g) /\ jobStatus[g] = "completed" /\ OwnsActive(g))
    /\ GoTo(g, "error")

\* setGenerationVisibility "inactive" finds points and hides them.
MutantHide(g) == pointVis' = [pointVis EXCEPT ![g] = "inactive"]   \* mutant: its own points
Hide(g) ==
    /\ pointVis[jobPrev[g]] # "none"
    /\ pointVis' = [pointVis EXCEPT ![jobPrev[g]] = "inactive"]

\* The replaced generation is hidden in Qdrant.  A failure here is a warning.
IngestDeactivate(g) ==
    /\ wf[g] = "deactivate"
    /\ \/ /\ InScope(g)
          /\ Mutable
          /\ Hide(g)
          /\ Checkpoint(wf, g, "deactivate", "done")
          /\ UNCHANGED <<docVars, versionVars, jobVars, wfAcl, pointAcl, aclVars, aclJobVars,
                         cleanVars, deleteVars, stored>>
       \/ GoTo(g, "done")

\* A job that has completed is left alone; when it no longer owns the active
\* generation the transaction throws, and so does the workflow.
IngestMarkError(g) ==
    /\ wf[g] = "error"
    /\ \/ /\ InScope(g)
          /\ jobStatus[g] # "completed"
          /\ Settle(g, IF CancelSeen(g) THEN "cancelled" ELSE "failed")
          /\ Checkpoint(wf, g, "error", "done")
       \/ /\ ~InScope(g) \/ jobStatus[g] = "completed"
          /\ GoTo(g, IF InScope(g) /\ OwnsActive(g) THEN "done" ELSE "lost")

\* DBOS stops recovering the workflow.
IngestDies(g) ==
    /\ wf[g] \notin {"none"} \cup EndedWf
    /\ Fault
    /\ wf' = [wf EXCEPT ![g] = "lost"]
    /\ UNCHANGED <<docVars, versionVars, jobVars, wfAcl, pointVars, aclVars, aclJobVars,
                   cleanVars, deleteVars, stored>>

\* The reconciler projects an ended workflow onto a job still open.
MutantReconcilable(g) == wf[g] \in EndedWf   \* mutant: whatever the job's status
MutantReconcilableRunning(g) == wf[g] \in EndedWf /\ jobStatus[g] = "running"
                                             \* mutant: forgets the cancelling jobs
Reconcilable(g) == wf[g] \in EndedWf /\ jobStatus[g] \in OpenJobStatuses
IngestReconcile(g) ==
    /\ Reconcilable(g)
    /\ InScope(g)
    /\ Settle(g, IF CancelSeen(g) THEN "cancelled" ELSE "failed")
    /\ UNCHANGED <<wf, faults>>

\* One step of the workflow, crashes apart.
IngestStep(g) ==
    \/ IngestBegin(g) \/ IngestBeginCancelled(g) \/ IngestBeginRefused(g)
    \/ IngestLoadScope(g) \/ IngestCheckBatch(g) \/ IngestUpsert(g)
    \/ IngestPrepare(g) \/ IngestPrepareRefused(g)
    \/ IngestLoadAcl(g) \/ IngestExpose(g) \/ IngestFails(g)
    \/ IngestActivate(g) \/ IngestActivateReplay(g) \/ IngestActivateRefused(g)
    \/ IngestDeactivate(g) \/ IngestMarkError(g)
=============================================================================
