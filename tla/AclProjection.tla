---------------------------- MODULE AclProjection ---------------------------
(***************************************************************************)
(* The durable document.acl.project workflow: it copies a document's ACL    *)
(* onto the Qdrant points of the active generation.  One transaction holds  *)
(* the document row from the comparison of fingerprints to the commit, and  *)
(* the Qdrant write happens inside it.                                      *)
(***************************************************************************)
EXTENDS LifecycleState

AclUnchanged ==
    UNCHANGED <<docVars, versionVars, jobVars, wfVars, pointVis, acl, aclFp, cleanVars,
                deleteVars, stored>>

AclDispatch(j) ==
    /\ aclWf[j] = "none"
    /\ aclStatus[j] \in {"queued", "cancelled"}
    /\ aclWf' = [aclWf EXCEPT ![j] = "project"]
    /\ UNCHANGED <<aclStatus, projected, pointAcl, faults>>
    /\ AclUnchanged

\* A newer ACL: the job completes without a write, whatever its status was.
\* Without an active generation it completes too, once it may run.
AclProjectSuperseded(j) ==
    /\ aclWf[j] = "project"
    /\ Mutable
    /\ aclStatus[j] # "completed"
    /\ \/ acl # aclFp[j]
       \/ ActiveGenerations = {} /\ aclStatus[j] \in {"queued", "running"}
    /\ aclStatus' = [aclStatus EXCEPT ![j] = "completed"]
    /\ Checkpoint(aclWf, j, "project", "done")
    /\ UNCHANGED <<projected, pointAcl>>
    /\ AclUnchanged

CanProject(j) ==
    /\ Mutable
    /\ acl = aclFp[j]
    /\ ActiveGenerations # {}
    /\ aclStatus[j] \in {"queued", "running"}

\* The points of the active generation get the current ACL.
WriteAcl ==
    pointAcl' = [g \in Generations |->
                    IF g \in ActiveGenerations /\ pointVis[g] # "none" THEN acl ELSE pointAcl[g]]

AclProject(j) ==
    /\ aclWf[j] = "project"
    /\ CanProject(j)
    /\ WriteAcl
    /\ aclStatus' = [aclStatus EXCEPT ![j] = "completed"]
    /\ projected' = acl
    /\ Checkpoint(aclWf, j, "project", "done")
    /\ AclUnchanged

\* Qdrant has the write but the transaction rolls back (a count mismatch, a
\* lost connection, a crash); the step is retried or gives up.
AclProjectRolledBack(j) ==
    /\ aclWf[j] = "project"
    /\ CanProject(j)
    /\ Fault
    /\ WriteAcl
    /\ \E next \in {"project", "error"} : aclWf' = [aclWf EXCEPT ![j] = next]
    /\ UNCHANGED <<aclStatus, projected>>
    /\ AclUnchanged

\* The document is going away or the job was cancelled meanwhile.
AclProjectRefused(j) ==
    /\ aclWf[j] = "project"
    /\ \/ ~Mutable
       \/ /\ acl = aclFp[j]
          /\ aclStatus[j] \in RetryableJobStatuses
    /\ aclWf' = [aclWf EXCEPT ![j] = "error"]
    /\ UNCHANGED <<aclStatus, projected, pointAcl, faults>>
    /\ AclUnchanged

\* The commit had happened before the crash.
AclProjectReplay(j) ==
    /\ aclWf[j] = "project"
    /\ Mutable
    /\ aclStatus[j] = "completed"
    /\ aclWf' = [aclWf EXCEPT ![j] = "done"]
    /\ UNCHANGED <<aclStatus, projected, pointAcl, faults>>
    /\ AclUnchanged

\* markError takes no lock on the document.
AclMarkError(j) ==
    /\ aclWf[j] = "error"
    /\ IF aclStatus[j] = "completed"
       THEN /\ aclWf' = [aclWf EXCEPT ![j] = "done"]
            /\ UNCHANGED <<aclStatus, faults>>
       ELSE /\ aclStatus' = [aclStatus EXCEPT ![j] = "failed"]
            /\ Checkpoint(aclWf, j, "error", "done")
    /\ UNCHANGED <<projected, pointAcl>>
    /\ AclUnchanged

AclDies(j) ==
    /\ aclWf[j] \notin {"none"} \cup EndedWf
    /\ Fault
    /\ aclWf' = [aclWf EXCEPT ![j] = "lost"]
    /\ UNCHANGED <<aclStatus, projected, pointAcl>>
    /\ AclUnchanged

AclReconcile(j) ==
    /\ aclWf[j] \in EndedWf
    /\ aclStatus[j] \in OpenJobStatuses
    /\ aclStatus' = [aclStatus EXCEPT ![j] = "failed"]
    /\ UNCHANGED <<aclWf, projected, pointAcl, faults>>
    /\ AclUnchanged

AclStep(j) ==
    \/ AclProjectSuperseded(j) \/ AclProject(j) \/ AclProjectRefused(j)
    \/ AclProjectReplay(j) \/ AclMarkError(j)
=============================================================================
