--------------------------- MODULE DocumentDelete ---------------------------
(***************************************************************************)
(* Deleting a document: the request (enqueueDocumentDelete), the durable    *)
(* document.delete workflow, and its retry.  A second request after a retry *)
(* makes the first job the latest again, so that two workflows may run.     *)
(***************************************************************************)
EXTENDS LifecycleState

DeleteUnchanged == UNCHANGED <<desired, verGen, genVer, jobPrev, wfVars, aclVars, aclJobVars>>

\* Everything of the lifecycle but the position of one delete workflow.
DeleteGoTo(d, step) ==
    /\ delWf' = [delWf EXCEPT ![d] = step]
    /\ UNCHANGED <<docVars, verStatus, jobStatus, pointVars, cleanVars, delStatus, delTodo,
                   stored, faults>>
    /\ DeleteUnchanged

\* A first request makes the job; a later one finds it by its idempotency key,
\* stops ingest again and makes it the latest job once more.
DeleteRequest ==
    LET d == FirstDelete IN
    /\ d \in DeleteJobs
    /\ docStatus # "deleted"
    /\ jobStatus' = StoppedJobs
    /\ verStatus' = [v \in Versions |-> IF verStatus[v] \in {"none", "deleted"}
                                        THEN verStatus[v] ELSE "deleting"]
    /\ docStatus' = "deleting"
    /\ latest' = d
    /\ delStatus' = IF delStatus[d] = "none" THEN [delStatus EXCEPT ![d] = "queued"]
                    ELSE delStatus
    /\ UNCHANGED <<activeVersion, pointVars, cleanVars, delWf, delTodo, stored, faults>>
    /\ DeleteUnchanged

\* retryFailedDocumentDelete: compares and sets the document's latest job.
DeleteRetry(d, fresh) ==
    /\ docStatus = "deleting"
    /\ latest = d
    /\ delStatus[d] \in RetryableJobStatuses
    /\ delStatus[fresh] = "none" /\ fresh # FirstDelete
    /\ delStatus' = [delStatus EXCEPT ![fresh] = "queued"]
    /\ latest' = fresh
    /\ UNCHANGED <<docStatus, activeVersion, verStatus, jobStatus, pointVars, cleanVars, delWf,
                   delTodo, stored, faults>>
    /\ DeleteUnchanged

DeleteDispatch(d) ==
    /\ delWf[d] = "none"
    /\ delStatus[d] = "queued"
    /\ DeleteGoTo(d, "start")

DeleteStart(d) ==
    /\ delWf[d] = "start"
    /\ docStatus = "deleting"
    /\ delStatus[d] \in {"queued", "running"}
    /\ delStatus' = [delStatus EXCEPT ![d] = "running"]
    /\ Checkpoint(delWf, d, "start", "drain")
    /\ UNCHANGED <<docVars, verStatus, jobStatus, pointVars, cleanVars, delTodo, stored>>
    /\ DeleteUnchanged

\* Another delete workflow of the document, or this one before a crash, has
\* completed the delete.
DeleteStartReplay(d) ==
    /\ delWf[d] = "start"
    /\ docStatus = "deleted" \/ delStatus[d] = "completed"
    /\ DeleteGoTo(d, "finish")

\* Whether drainIngest found an ingest it has to wait for.
MutantUndrained == FALSE   \* mutant: asking the jobs to stop is taken for their having stopped
Undrained == \E x \in Generations : jobStatus[x] \in {"running", "cancelling"}

\* One poll of drainIngest: queued jobs are cancelled, running ones asked to
\* stop, and the workflow goes on when none is left open.
DeleteDrain(d) ==
    /\ delWf[d] = "drain"
    /\ jobStatus' = StoppedJobs
    /\ Checkpoint(delWf, d, "drain", IF Undrained THEN "drain" ELSE "targets")
    /\ UNCHANGED <<docVars, verStatus, pointVars, cleanVars, delStatus, delTodo, stored>>
    /\ DeleteUnchanged

\* The 360 polls were not enough.
DeleteDrainTimeout(d) ==
    /\ delWf[d] = "drain"
    /\ Undrained
    /\ DeleteGoTo(d, "error")

\* loadTargets freezes the generations the version rows name.  Those of
\* retried jobs are not among them.
DeleteLoadTargets(d) ==
    /\ delWf[d] = "targets"
    /\ delTodo' = [delTodo EXCEPT ![d] = {verGen[v] : v \in Versions} \ {None}]
    /\ delWf' = [delWf EXCEPT ![d] = "generations"]
    /\ UNCHANGED <<docVars, verStatus, jobStatus, pointVars, cleanVars, delStatus, stored, faults>>
    /\ DeleteUnchanged

DeleteGeneration(d, g) ==
    /\ delWf[d] = "generations"
    /\ g \in delTodo[d]
    /\ pointVis' = [pointVis EXCEPT ![g] = "none"]
    /\ pointAcl' = [pointAcl EXCEPT ![g] = None]
    /\ delTodo' = [delTodo EXCEPT ![d] = @ \ {g}]
    /\ UNCHANGED <<docVars, verStatus, jobStatus, cleanVars, delStatus, delWf, stored, faults>>
    /\ DeleteUnchanged

DeleteGenerationsDone(d) ==
    /\ delWf[d] = "generations"
    /\ delTodo[d] = {}
    /\ DeleteGoTo(d, "vectors")

\* Every point of the document, whatever its generation.
DeleteVectors(d) ==
    /\ delWf[d] = "vectors"
    /\ ~Mutable
    /\ pointVis' = [g \in Generations |-> "none"]
    /\ pointAcl' = [g \in Generations |-> None]
    /\ Checkpoint(delWf, d, "vectors", "storage")
    /\ UNCHANGED <<docVars, verStatus, jobStatus, cleanVars, delStatus, delTodo, stored>>
    /\ DeleteUnchanged

DeleteStorageKey(d, v) ==
    /\ delWf[d] = "storage"
    /\ v \in stored
    /\ stored' = stored \ {v}
    /\ UNCHANGED <<docVars, verStatus, jobStatus, pointVars, cleanVars, delStatus, delWf, delTodo,
                   faults>>
    /\ DeleteUnchanged

DeleteStorageDone(d) ==
    /\ delWf[d] = "storage"
    /\ stored = {}
    /\ DeleteGoTo(d, "finish")

\* The retries of one external step are exhausted.
DeleteStepFails(d) ==
    /\ delWf[d] \in {"generations", "vectors", "storage"}
    /\ Fault
    /\ delWf' = [delWf EXCEPT ![d] = "error"]
    /\ UNCHANGED <<docVars, verStatus, jobStatus, pointVars, cleanVars, delStatus, delTodo, stored>>
    /\ DeleteUnchanged

DeleteFinish(d) ==
    /\ delWf[d] = "finish"
    /\ delStatus[d] # "completed"
    /\ verStatus' = [v \in Versions |-> IF verStatus[v] = "none" THEN "none" ELSE "deleted"]
    /\ activeVersion' = None
    /\ sweep' = [g \in Generations |-> IF sweep[g] = "none" THEN "none" ELSE "deleted"]
    /\ docStatus' = "deleted"
    /\ delStatus' = [delStatus EXCEPT ![d] = "completed"]
    /\ Checkpoint(delWf, d, "finish", "done")
    /\ UNCHANGED <<latest, jobStatus, pointVars, cleanJob, cleanWf, delTodo, stored>>
    /\ DeleteUnchanged

DeleteFinishReplay(d) ==
    /\ delWf[d] = "finish"
    /\ delStatus[d] = "completed"
    /\ DeleteGoTo(d, "done")

DeleteMarkError(d) ==
    /\ delWf[d] = "error"
    /\ delStatus' = [delStatus EXCEPT ![d] = IF @ = "completed" THEN @ ELSE "failed"]
    /\ Checkpoint(delWf, d, "error", "done")
    /\ UNCHANGED <<docVars, verStatus, jobStatus, pointVars, cleanVars, delTodo, stored>>
    /\ DeleteUnchanged

DeleteDies(d) ==
    /\ delWf[d] \notin {"none"} \cup EndedWf
    /\ Fault
    /\ delWf' = [delWf EXCEPT ![d] = "lost"]
    /\ UNCHANGED <<docVars, verStatus, jobStatus, pointVars, cleanVars, delStatus, delTodo, stored>>
    /\ DeleteUnchanged

\* documentDeleteTerminalProjection.
MutantDeleteReconcilable(d) ==   \* mutant: only a delete that had succeeded is projected
    delWf[d] = "done" /\ delStatus[d] \in OpenJobStatuses
DeleteReconcilable(d) == delWf[d] \in EndedWf /\ delStatus[d] \in OpenJobStatuses
DeleteReconcile(d) ==
    /\ DeleteReconcilable(d)
    /\ delStatus' = [delStatus EXCEPT ![d] = IF docStatus = "deleted" THEN "completed"
                                              ELSE IF delWf[d] = "done" THEN "failed"
                                              ELSE "dead"]
    /\ UNCHANGED <<docVars, verStatus, jobStatus, pointVars, cleanVars, delWf, delTodo, stored,
                   faults>>
    /\ DeleteUnchanged

DeleteStep(d) ==
    \/ DeleteStart(d) \/ DeleteStartReplay(d)
    \/ DeleteDrain(d) \/ DeleteDrainTimeout(d) \/ DeleteLoadTargets(d)
    \/ \E g \in Generations : DeleteGeneration(d, g)
    \/ DeleteGenerationsDone(d) \/ DeleteVectors(d)
    \/ \E v \in Versions : DeleteStorageKey(d, v)
    \/ DeleteStorageDone(d) \/ DeleteFinish(d) \/ DeleteFinishReplay(d)
    \/ DeleteMarkError(d)
=============================================================================
