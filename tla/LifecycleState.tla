--------------------------- MODULE LifecycleState ---------------------------
(***************************************************************************)
(* The persistent state one document's lifecycle is made of: the rows of   *)
(* PostgreSQL (documents, document_versions, document_active_versions,     *)
(* jobs, generation_cleanup_queue, document_acl), the points of Qdrant,    *)
(* the objects of the document store, and where each DBOS workflow stands. *)
(* Every module that changes this state extends this one.                  *)
(*                                                                         *)
(* A generation names the ingest job that was created with it, the         *)
(* workflow of that job (workflow_id = job id) and the Qdrant points it    *)
(* writes: the code makes all four together and never reuses one.          *)
(***************************************************************************)
EXTENDS Naturals, FiniteSets

CONSTANTS
    Versions,       \* ids of document_versions rows the run may create
    Generations,    \* generation ids (one ingest job and workflow each)
    AclJobs,        \* ids of document.acl.project jobs
    AclValues,      \* ACL fingerprints a document may be given
    DefaultAcl,     \* the fingerprint of the empty ACL
    DeleteJobs,     \* ids of document.delete jobs; {} when nobody deletes
    FirstDelete,    \* the one the document's delete idempotency key names
    MaxFaults,      \* crashes, exhausted retries and dead workflows in a run
    None            \* SQL NULL

ASSUME LifecycleAssumption ==
    /\ DefaultAcl \in AclValues
    /\ MaxFaults \in Nat
    /\ None \notin Versions \cup Generations \cup AclJobs \cup AclValues \cup DeleteJobs
    /\ Generations \cap DeleteJobs = {}

VARIABLES
    docStatus,      \* documents.status
    desired,        \* documents.desired_version_id
    latest,         \* documents.latest_job_id
    activeVersion,  \* document_active_versions.version_id
    verStatus,      \* document_versions.status
    verGen,         \* document_versions.generation_id
    genVer,         \* jobs.document_version_id of the ingest job
    jobStatus,      \* jobs.status of the ingest job
    jobPrev,        \* jobs.result.previous_generation_id of the ingest job
    wf,             \* next step of the ingest workflow
    wfAcl,          \* ACL fingerprint the ingest workflow loaded last
    pointVis,       \* lifecycle_visibility of the generation's points
    pointAcl,       \* acl_* payload of the generation's points
    acl,            \* document_acl rows and documents.acl_fingerprint
    projected,      \* documents.projected_acl_fingerprint
    aclStatus,      \* jobs.status of the ACL projection job
    aclFp,          \* payload.acl_fingerprint of the ACL projection job
    aclWf,          \* next step of the ACL projection workflow
    sweep,          \* generation_cleanup_queue.sweep_status
    cleanJob,       \* jobs.status of the row's cleanup_job_id
    cleanWf,        \* next step of that job's workflow
    delStatus,      \* jobs.status of the document.delete job
    delWf,          \* next step of the delete workflow
    delTodo,        \* frozen generation targets the workflow has still to delete
    stored,         \* versions whose source object is in the document store
    faults          \* faults so far

docVars == <<docStatus, desired, latest, activeVersion>>
versionVars == <<verStatus, verGen>>
jobVars == <<genVer, jobStatus, jobPrev>>
wfVars == <<wf, wfAcl>>
pointVars == <<pointVis, pointAcl>>
aclVars == <<acl, projected>>
aclJobVars == <<aclStatus, aclFp, aclWf>>
cleanVars == <<sweep, cleanJob, cleanWf>>
deleteVars == <<delStatus, delWf, delTodo>>
vars == <<docVars, versionVars, jobVars, wfVars, pointVars, aclVars, aclJobVars,
          cleanVars, deleteVars, stored, faults>>

DocStatuses == {"processing", "ready", "degraded", "failed", "deleting", "deleted"}
OpenVersionStatuses == {"pending", "processing", "activating"}
VersionStatuses == OpenVersionStatuses \cup
    {"none", "active", "superseded", "cancelled", "failed", "deleting", "deleted"}
OpenJobStatuses == {"queued", "running", "cancelling"}
TerminalJobStatuses == {"completed", "failed", "cancelled", "dead"}
JobStatuses == OpenJobStatuses \cup TerminalJobStatuses \cup {"none"}
RetryableJobStatuses == {"failed", "cancelled", "dead"}
SweepStatuses == {"none", "pending", "sweeping", "error", "deleted"}
Visibilities == {"none", "staging", "active", "inactive"}

\* "done" is DBOS SUCCESS, "lost" is DBOS ERROR or CANCELLED.
EndedWf == {"done", "lost"}
IngestSteps == {"none", "begin", "stage", "indexing", "upserting", "prepare",
                "visibility", "exposing", "activate", "deactivate", "error"} \cup EndedWf
AclSteps == {"none", "project", "error"} \cup EndedWf
CleanupSteps == {"none", "sweep", "delete", "finish", "error"} \cup EndedWf
DeleteSteps == {"none", "start", "drain", "targets", "generations", "vectors",
                "storage", "finish", "error"} \cup EndedWf

\* The document and its library still accept changes.
Mutable == docStatus \notin {"deleting", "deleted"}

\* The rows of the view active_document_generations: at most one generation.
ActiveGenerations == {verGen[v] : v \in {activeVersion} \ {None}}

\* What every ingest transaction locks: the version row must still carry the
\* generation of the job.
InScope(g) == verGen[genVer[g]] = g

\* A status change of one entry, left alone when its status is not in from.
Moved(f, from, to) == [x \in DOMAIN f |-> IF f[x] \in from THEN to ELSE f[x]]

\* Stopping whatever ingest is open: queued jobs end here, running workflows
\* are asked to.
StoppedJobs == [x \in Generations |->
                    IF jobStatus[x] = "queued" THEN "cancelled"
                    ELSE IF jobStatus[x] = "running" THEN "cancelling"
                    ELSE jobStatus[x]]

\* The next commit of a workflow step is checkpointed by DBOS, or the process
\* dies between the commit and the checkpoint and the step runs again.
Checkpoint(pc, id, here, next) ==
    \/ pc' = [pc EXCEPT ![id] = next] /\ UNCHANGED faults
    \/ faults < MaxFaults /\ faults' = faults + 1 /\ pc' = [pc EXCEPT ![id] = here]

Fault == faults < MaxFaults /\ faults' = faults + 1

\* The first upload has committed: one document, one pending version, one
\* queued ingest job, the default ACL, nothing in Qdrant.
FirstUpload(v, g) ==
    /\ docStatus = "processing"
    /\ desired = v
    /\ latest = g
    /\ activeVersion = None
    /\ verStatus = [x \in Versions |-> IF x = v THEN "pending" ELSE "none"]
    /\ verGen = [x \in Versions |-> IF x = v THEN g ELSE None]
    /\ genVer = [x \in Generations |-> IF x = g THEN v ELSE None]
    /\ jobStatus = [x \in Generations |-> IF x = g THEN "queued" ELSE "none"]
    /\ jobPrev = [x \in Generations |-> None]
    /\ wf = [x \in Generations |-> "none"]
    /\ wfAcl = [x \in Generations |-> None]
    /\ pointVis = [x \in Generations |-> "none"]
    /\ pointAcl = [x \in Generations |-> None]
    /\ acl = DefaultAcl
    /\ projected = None
    /\ aclStatus = [j \in AclJobs |-> "none"]
    /\ aclFp = [j \in AclJobs |-> None]
    /\ aclWf = [j \in AclJobs |-> "none"]
    /\ sweep = [x \in Generations |-> "none"]
    /\ cleanJob = [x \in Generations |-> "none"]
    /\ cleanWf = [x \in Generations |-> "none"]
    /\ delStatus = [d \in DeleteJobs |-> "none"]
    /\ delWf = [d \in DeleteJobs |-> "none"]
    /\ delTodo = [d \in DeleteJobs |-> {}]
    /\ stored = {v}
    /\ faults = 0

Init == \E v \in Versions, g \in Generations : FirstUpload(v, g)

\* Every variable has the type its column, payload or workflow position has.
TypeOK ==
    /\ docStatus \in DocStatuses
    /\ desired \in Versions
    /\ latest \in Generations \cup DeleteJobs
    /\ activeVersion \in Versions \cup {None}
    /\ verStatus \in [Versions -> VersionStatuses]
    /\ verGen \in [Versions -> Generations \cup {None}]
    /\ genVer \in [Generations -> Versions \cup {None}]
    /\ jobStatus \in [Generations -> JobStatuses]
    /\ jobPrev \in [Generations -> Generations \cup {None}]
    /\ wf \in [Generations -> IngestSteps]
    /\ wfAcl \in [Generations -> AclValues \cup {None}]
    /\ pointVis \in [Generations -> Visibilities]
    /\ pointAcl \in [Generations -> AclValues \cup {None}]
    /\ acl \in AclValues
    /\ projected \in AclValues \cup {None}
    /\ aclStatus \in [AclJobs -> JobStatuses]
    /\ aclFp \in [AclJobs -> AclValues \cup {None}]
    /\ aclWf \in [AclJobs -> AclSteps]
    /\ sweep \in [Generations -> SweepStatuses]
    /\ cleanJob \in [Generations -> JobStatuses]
    /\ cleanWf \in [Generations -> CleanupSteps]
    /\ delStatus \in [DeleteJobs -> JobStatuses]
    /\ delWf \in [DeleteJobs -> DeleteSteps]
    /\ delTodo \in [DeleteJobs -> SUBSET Generations]
    /\ stored \subseteq Versions
    /\ faults \in 0..MaxFaults
=============================================================================
