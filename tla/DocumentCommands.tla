-------------------------- MODULE DocumentCommands --------------------------
(***************************************************************************)
(* The API's transactions on one document, each holding the document row:   *)
(* a new version (replacement or reindex), cancelling and retrying an       *)
(* ingest job, replacing the ACL.  Deletion is in DocumentDelete.           *)
(***************************************************************************)
EXTENDS LifecycleState

\* createDocumentVersion.  A reindex is the same transaction with one more
\* guard and the source object of an earlier version, so a replacement stands
\* for both.  Its cancellation of jobs does not look at their type: queued
\* cleanup and ACL projection jobs of the document are cancelled as well.
CreateVersion(v, g) ==
    /\ Mutable
    /\ verStatus[v] = "none"
    /\ genVer[g] = None
    /\ LET touched == {genVer[x] : x \in {y \in Generations :
                            genVer[y] # None /\ "queued" \in {jobStatus[y], cleanJob[y]}}}
       IN verStatus' = [x \in Versions |->
                            IF x = v THEN "pending"
                            ELSE IF x \in touched /\ verStatus[x] \in OpenVersionStatuses
                                 THEN "superseded"
                            ELSE verStatus[x]]
    /\ jobStatus' = [StoppedJobs EXCEPT ![g] = "queued"]
    /\ cleanJob' = [x \in Generations |->
                        IF cleanJob[x] = "queued" THEN "cancelled"
                        ELSE IF cleanJob[x] = "running" THEN "cancelling"
                        ELSE cleanJob[x]]
    /\ aclStatus' = Moved(aclStatus, {"queued"}, "cancelled")
    /\ verGen' = [verGen EXCEPT ![v] = g]
    /\ genVer' = [genVer EXCEPT ![g] = v]
    /\ stored' = stored \cup {v}
    /\ docStatus' = "processing"
    /\ desired' = v
    /\ latest' = g
    /\ UNCHANGED <<activeVersion, jobPrev, wfVars, pointVars, aclVars, aclFp, aclWf, sweep,
                   cleanWf, deleteVars, faults>>

\* POST /jobs/{id}/cancel on a queued job.  The version and the document are
\* updated without a look at their own status.
CancelQueued(g) ==
    /\ jobStatus[g] = "queued"
    /\ jobStatus' = [jobStatus EXCEPT ![g] = "cancelled"]
    /\ verStatus' = [verStatus EXCEPT ![genVer[g]] = "cancelled"]
    /\ docStatus' = IF activeVersion = None THEN "failed" ELSE "degraded"
    /\ UNCHANGED <<desired, latest, activeVersion, verGen, genVer, jobPrev, wfVars, pointVars,
                   aclVars, aclJobVars, cleanVars, deleteVars, stored, faults>>

\* The same route on a running job only asks the workflow to stop.
CancelRunning(g) ==
    /\ jobStatus[g] = "running"
    /\ jobStatus' = [jobStatus EXCEPT ![g] = "cancelling"]
    /\ UNCHANGED <<docVars, versionVars, genVer, jobPrev, wfVars, pointVars, aclVars, aclJobVars,
                   cleanVars, deleteVars, stored, faults>>

\* POST /jobs/{id}/retry: the version gets a fresh generation and job.
RetryIngest(g, fresh) ==
    LET v == genVer[g] IN
    /\ Mutable
    /\ jobStatus[g] \in RetryableJobStatuses
    /\ desired = v
    /\ latest = g
    /\ genVer[fresh] = None
    /\ verGen' = [verGen EXCEPT ![v] = fresh]
    /\ verStatus' = [verStatus EXCEPT ![v] = "pending"]
    /\ genVer' = [genVer EXCEPT ![fresh] = v]
    /\ jobStatus' = [jobStatus EXCEPT ![fresh] = "queued"]
    /\ docStatus' = "processing"
    /\ latest' = fresh
    /\ UNCHANGED <<desired, activeVersion, jobPrev, wfVars, pointVars, aclVars, aclJobVars,
                   cleanVars, deleteVars, stored, faults>>

\* replaceDocumentAcl.  projected_acl_fingerprint keeps its value, which hides
\* the document from retrieval until the job (or an activation) has run; no
\* job is made when nothing is being served.  Each edit takes one id of AclJobs.
ReplaceAcl(j, a) ==
    /\ aclFp[j] = None
    /\ acl' = a
    /\ aclFp' = [aclFp EXCEPT ![j] = a]
    /\ aclStatus' = IF Mutable /\ activeVersion # None
                    THEN [aclStatus EXCEPT ![j] = "queued"] ELSE aclStatus
    /\ UNCHANGED <<docVars, versionVars, jobVars, wfVars, pointVars, projected, aclWf, cleanVars,
                   deleteVars, stored, faults>>
=============================================================================
