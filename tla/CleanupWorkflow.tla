--------------------------- MODULE CleanupWorkflow --------------------------
(***************************************************************************)
(* The queue of generations to erase from Qdrant and the durable            *)
(* generation.cleanup workflow.  A failed ingest queues its row with a job; *)
(* a superseded generation gets a row that the dispatcher turns into a job  *)
(* once its retention has passed (retention is not measured: the dispatcher *)
(* may find the row due at any moment).  cleanJob is the job the row names; *)
(* "none" is a NULL cleanup_job_id.                                         *)
(***************************************************************************)
EXTENDS LifecycleState

CleanupUnchanged ==
    UNCHANGED <<docVars, versionVars, jobVars, wfVars, aclVars, aclJobVars, deleteVars, stored>>

CleanupMaterialize(g) ==
    /\ sweep[g] \in {"pending", "error"}
    /\ cleanJob[g] = "none"
    /\ g \notin ActiveGenerations
    /\ cleanJob' = [cleanJob EXCEPT ![g] = "queued"]
    /\ sweep' = [sweep EXCEPT ![g] = "sweeping"]
    /\ UNCHANGED <<cleanWf, pointVars, faults>>
    /\ CleanupUnchanged

\* As for ingest, the listing of candidates and the enqueue are two moments.
CleanupDispatch(g) ==
    /\ cleanWf[g] = "none"
    /\ cleanJob[g] \in {"queued", "cancelled"}
    /\ cleanWf' = [cleanWf EXCEPT ![g] = "sweep"]
    /\ UNCHANGED <<sweep, cleanJob, pointVars, faults>>
    /\ CleanupUnchanged

CanSweep(g) ==
    /\ sweep[g] \in {"pending", "error", "sweeping"}
    /\ g \notin ActiveGenerations
    /\ cleanJob[g] \in {"queued", "running"}

CleanupMarkSweeping(g) ==
    /\ cleanWf[g] = "sweep"
    /\ CanSweep(g)
    /\ sweep' = [sweep EXCEPT ![g] = "sweeping"]
    /\ cleanJob' = [cleanJob EXCEPT ![g] = "running"]
    /\ Checkpoint(cleanWf, g, "sweep", "delete")
    /\ UNCHANGED pointVars
    /\ CleanupUnchanged

\* Nothing is left to erase: the workflow goes straight to its completion.
CleanupAlreadyDeleted(g) ==
    /\ cleanWf[g] = "sweep"
    /\ sweep[g] = "deleted"
    /\ cleanWf' = [cleanWf EXCEPT ![g] = "finish"]
    /\ UNCHANGED <<sweep, cleanJob, pointVars, faults>>
    /\ CleanupUnchanged

CleanupSweepRefused(g) ==
    /\ cleanWf[g] = "sweep"
    /\ ~CanSweep(g)
    /\ sweep[g] # "deleted"
    /\ cleanWf' = [cleanWf EXCEPT ![g] = "error"]
    /\ UNCHANGED <<sweep, cleanJob, pointVars, faults>>
    /\ CleanupUnchanged

\* The Qdrant delete does not look at the database again.
CleanupDeletePoints(g) ==
    /\ cleanWf[g] = "delete"
    /\ pointVis' = [pointVis EXCEPT ![g] = "none"]
    /\ pointAcl' = [pointAcl EXCEPT ![g] = None]
    /\ Checkpoint(cleanWf, g, "delete", "finish")
    /\ UNCHANGED <<sweep, cleanJob>>
    /\ CleanupUnchanged

\* Five attempts failed.
CleanupDeleteFails(g) ==
    /\ cleanWf[g] = "delete"
    /\ Fault
    /\ cleanWf' = [cleanWf EXCEPT ![g] = "error"]
    /\ UNCHANGED <<sweep, cleanJob, pointVars>>
    /\ CleanupUnchanged

\* The transaction refuses otherwise, which cannot happen: a row that is being
\* swept stays so until its workflow ends, and its generation is never activated.
CanFinish(g) == sweep[g] = "deleted" \/ (sweep[g] = "sweeping" /\ g \notin ActiveGenerations)

CleanupMarkDeleted(g) ==
    /\ cleanWf[g] = "finish"
    /\ CanFinish(g)
    /\ sweep' = [sweep EXCEPT ![g] = "deleted"]
    /\ cleanJob' = [cleanJob EXCEPT ![g] = "completed"]
    /\ Checkpoint(cleanWf, g, "finish", "done")
    /\ UNCHANGED pointVars
    /\ CleanupUnchanged

CleanupMarkError(g) ==
    /\ cleanWf[g] = "error"
    /\ IF sweep[g] = "deleted" \/ cleanJob[g] = "completed"
       THEN /\ cleanWf' = [cleanWf EXCEPT ![g] = "done"]
            /\ UNCHANGED <<sweep, cleanJob, faults>>
       ELSE /\ sweep' = [sweep EXCEPT ![g] = "error"]
            /\ cleanJob' = [cleanJob EXCEPT ![g] = "failed"]
            /\ Checkpoint(cleanWf, g, "error", "done")
    /\ UNCHANGED pointVars
    /\ CleanupUnchanged

CleanupDies(g) ==
    /\ cleanWf[g] \notin {"none"} \cup EndedWf
    /\ Fault
    /\ cleanWf' = [cleanWf EXCEPT ![g] = "lost"]
    /\ UNCHANGED <<sweep, cleanJob, pointVars>>
    /\ CleanupUnchanged

\* The reconciler's terminalProjection: an ended workflow whose job is open.
CleanupReconcile(g) ==
    /\ cleanWf[g] \in EndedWf
    /\ cleanJob[g] \in OpenJobStatuses
    /\ cleanJob' = [cleanJob EXCEPT ![g] =
                      IF cleanWf[g] = "done" /\ sweep[g] = "deleted" THEN "completed"
                      ELSE IF cleanWf[g] = "done" /\ sweep[g] = "error" THEN "failed"
                      ELSE "dead"]
    /\ sweep' = IF sweep[g] = "sweeping" THEN [sweep EXCEPT ![g] = "error"] ELSE sweep
    /\ UNCHANGED <<cleanWf, pointVars, faults>>
    /\ CleanupUnchanged

\* dispatch --retry-generation: an operator gives an error row a fresh job.
CleanupRetry(g) ==
    /\ sweep[g] = "error"
    /\ g \notin ActiveGenerations
    /\ cleanJob[g] \in RetryableJobStatuses \cup {"none"}
    /\ sweep' = [sweep EXCEPT ![g] = "sweeping"]
    /\ cleanJob' = [cleanJob EXCEPT ![g] = "queued"]
    /\ cleanWf' = [cleanWf EXCEPT ![g] = "none"]
    /\ UNCHANGED <<pointVars, faults>>
    /\ CleanupUnchanged

CleanupStep(g) ==
    \/ CleanupMarkSweeping(g) \/ CleanupAlreadyDeleted(g) \/ CleanupSweepRefused(g)
    \/ CleanupDeletePoints(g)
    \/ CleanupMarkDeleted(g) \/ CleanupMarkError(g)
=============================================================================
