---------------------- MODULE DocumentLifecycle_proofs ----------------------
(***************************************************************************)
(* Proofs about DocumentLifecycle, for every value of its constants: type   *)
(* correctness, the inductive invariant LifecycleInv with the safety        *)
(* properties that are its conjuncts, PublishedOnlyByDesired, that the      *)
(* lifecycle implements PublishedDocument, and what is said of the points   *)
(* of each generation (PointsInv), and what is known of their ACL.          *)
(***************************************************************************)
EXTENDS DocumentLifecycle, TLAPS

(***************************************************************************)
(* Types.                                                                   *)
(***************************************************************************)
USE DEF DocStatuses, OpenVersionStatuses, VersionStatuses, OpenJobStatuses, TerminalJobStatuses,
        JobStatuses, RetryableJobStatuses, SweepStatuses, Visibilities, EndedWf, IngestSteps,
        AclSteps, CleanupSteps, DeleteSteps

\* The state left by the first upload has the types of TypeOK.
LEMMA InitType == Init => TypeOK
<1> SUFFICES ASSUME Init PROVE TypeOK OBVIOUS
<1> PICK v \in Versions, g \in Generations : FirstUpload(v, g) BY DEF Init
<1>1. /\ verStatus \in [Versions -> VersionStatuses]
      /\ verGen \in [Versions -> Generations \cup {None}]
      /\ genVer \in [Generations -> Versions \cup {None}]
      /\ jobStatus \in [Generations -> JobStatuses]
  BY DEF FirstUpload
<1>2. faults \in 0..MaxFaults BY LifecycleAssumption DEF FirstUpload
<1> QED BY <1>1, <1>2, LifecycleAssumption DEF FirstUpload, TypeOK

\* Every step of the ingest workflow preserves the types.
LEMMA IngestType ==
  ASSUME TypeOK, NEW g \in Generations, IngestStep(g) \/ IngestDispatch(g) \/
      IngestReconcile(g) \/ IngestDies(g)
  PROVE  TypeOK'
<1> USE DEF TypeOK, docVars, versionVars, jobVars, wfVars, pointVars, aclVars, aclJobVars,
    cleanVars,
            deleteVars
<1>1. CASE IngestBegin(g)
  <2>1. verStatus' \in [Versions -> VersionStatuses] BY <1>1 DEF IngestBegin
  <2>2. wf' \in [Generations -> IngestSteps] /\ faults' \in 0..MaxFaults BY <1>1,
      LifecycleAssumption DEF IngestBegin, Checkpoint
  <2> QED BY <1>1, <2>1, <2>2 DEF IngestBegin, Checkpoint
<1>2. CASE IngestBeginCancelled(g)
  <2>1. verStatus' \in [Versions -> VersionStatuses] BY <1>2 DEF IngestBeginCancelled, Settle,
      EndedVersion, DocumentFailure, QueueFailedStaging
  <2>2. jobStatus' \in [Generations -> JobStatuses] BY <1>2 DEF IngestBeginCancelled, Settle,
      EndedVersion, DocumentFailure, QueueFailedStaging
  <2>3. wf' \in [Generations -> IngestSteps] /\ faults' \in 0..MaxFaults BY <1>2,
      LifecycleAssumption DEF IngestBeginCancelled, Checkpoint
  <2> QED BY <1>2, <2>1, <2>2, <2>3 DEF IngestBeginCancelled, Settle, EndedVersion,
      DocumentFailure, QueueFailedStaging
<1>3. CASE IngestBeginRefused(g) BY <1>3 DEF IngestBeginRefused, GoTo
<1>4. CASE IngestLoadScope(g) BY <1>4 DEF IngestLoadScope
<1>5. CASE IngestCheckBatch(g) BY <1>5 DEF IngestCheckBatch, GoTo
<1>6. CASE IngestUpsert(g) BY <1>6, LifecycleAssumption DEF IngestUpsert, Checkpoint
<1>7. CASE IngestPrepare(g)
  <2>1. verStatus' \in [Versions -> VersionStatuses] BY <1>7 DEF IngestPrepare
  <2>2. wf' \in [Generations -> IngestSteps] /\ faults' \in 0..MaxFaults BY <1>7,
      LifecycleAssumption DEF IngestPrepare, Checkpoint
  <2> QED BY <1>7, <2>1, <2>2 DEF IngestPrepare, Checkpoint
<1>8. CASE IngestPrepareRefused(g) BY <1>8 DEF IngestPrepareRefused, GoTo
<1>9. CASE IngestLoadAcl(g) BY <1>9 DEF IngestLoadAcl
<1>10. CASE IngestExpose(g) BY <1>10, LifecycleAssumption DEF IngestExpose, Checkpoint
<1>11. CASE IngestFails(g) BY <1>11 DEF IngestFails, GoTo
<1>12. CASE IngestActivate(g) BY <1>12, LifecycleAssumption DEF IngestActivate, Checkpoint,
    Replaced, QueueSuperseded, PreviousGeneration, ActivatedJobs
<1>13. CASE IngestActivateReplay(g) BY <1>13 DEF IngestActivateReplay, GoTo
<1>14. CASE IngestActivateRefused(g) BY <1>14 DEF IngestActivateRefused, GoTo
<1>15. CASE IngestDeactivate(g) BY <1>15, LifecycleAssumption DEF IngestDeactivate,
    Checkpoint, GoTo, Hide
<1>16. CASE IngestMarkError(g) BY <1>16, LifecycleAssumption DEF IngestMarkError, Checkpoint,
    GoTo, Settle, EndedVersion, DocumentFailure, QueueFailedStaging
<1>17. CASE IngestDispatch(g) BY <1>17 DEF IngestDispatch
<1>18. CASE IngestReconcile(g)
  <2>1. verStatus' \in [Versions -> VersionStatuses] BY <1>18 DEF IngestReconcile, Settle,
      EndedVersion, DocumentFailure, QueueFailedStaging
  <2>2. jobStatus' \in [Generations -> JobStatuses] BY <1>18 DEF IngestReconcile, Settle,
      EndedVersion, DocumentFailure, QueueFailedStaging
  <2> QED BY <1>18, <2>1, <2>2 DEF IngestReconcile, Settle, EndedVersion, DocumentFailure,
      QueueFailedStaging, Reconcilable
<1>19. CASE IngestDies(g) BY <1>19, LifecycleAssumption DEF IngestDies, Fault
<1> QED BY <1>1, <1>2, <1>3, <1>4, <1>5, <1>6, <1>7, <1>8, <1>9, <1>10, <1>11, <1>12, <1>13,
    <1>14, <1>15, <1>16, <1>17, <1>18, <1>19 DEF IngestStep

\* Every step of the cleanup queue and its workflow preserves the types.
LEMMA CleanupType ==
  ASSUME TypeOK, NEW g \in Generations, CleanupStep(g) \/ CleanupMaterialize(g) \/
      CleanupDispatch(g)
         \/ CleanupReconcile(g) \/ CleanupRetry(g) \/ CleanupDeleteFails(g) \/ CleanupDies(g)
  PROVE  TypeOK'
<1> USE DEF TypeOK, docVars, versionVars, jobVars, wfVars, pointVars, aclVars, aclJobVars,
    cleanVars,
            deleteVars
<1>1. CASE CleanupMarkSweeping(g) BY <1>1, LifecycleAssumption DEF CleanupMarkSweeping,
    CleanupUnchanged, Checkpoint
<1>2. CASE CleanupAlreadyDeleted(g) BY <1>2 DEF CleanupAlreadyDeleted, CleanupUnchanged
<1>3. CASE CleanupSweepRefused(g) BY <1>3 DEF CleanupSweepRefused, CleanupUnchanged
<1>4. CASE CleanupDeletePoints(g) BY <1>4, LifecycleAssumption DEF CleanupDeletePoints,
    CleanupUnchanged, Checkpoint
<1>5. CASE CleanupMarkDeleted(g) BY <1>5, LifecycleAssumption DEF CleanupMarkDeleted,
    CleanupUnchanged, Checkpoint
<1>6. CASE CleanupMarkError(g) BY <1>6, LifecycleAssumption DEF CleanupMarkError,
    CleanupUnchanged, Checkpoint
<1>7. CASE CleanupMaterialize(g) BY <1>7 DEF CleanupMaterialize, CleanupUnchanged
<1>8. CASE CleanupDispatch(g) BY <1>8 DEF CleanupDispatch, CleanupUnchanged
<1>9. CASE CleanupReconcile(g) BY <1>9 DEF CleanupReconcile, CleanupUnchanged
<1>10. CASE CleanupRetry(g) BY <1>10 DEF CleanupRetry, CleanupUnchanged
<1>11. CASE CleanupDeleteFails(g) BY <1>11, LifecycleAssumption DEF CleanupDeleteFails,
    CleanupUnchanged, Fault
<1>12. CASE CleanupDies(g) BY <1>12, LifecycleAssumption DEF CleanupDies, CleanupUnchanged,
    Fault
<1> QED BY <1>1, <1>2, <1>3, <1>4, <1>5, <1>6, <1>7, <1>8, <1>9, <1>10, <1>11, <1>12
    DEF CleanupStep

\* Every step of the ACL projection preserves the types.
LEMMA AclType ==
  ASSUME TypeOK, NEW j \in AclJobs, AclStep(j) \/ AclDispatch(j) \/ AclReconcile(j) \/
      AclProjectRolledBack(j) \/ AclDies(j)
  PROVE  TypeOK'
<1> USE DEF TypeOK, docVars, versionVars, jobVars, wfVars, pointVars, aclVars, aclJobVars,
    cleanVars,
            deleteVars
<1>1. CASE AclProjectSuperseded(j) BY <1>1, LifecycleAssumption DEF AclProjectSuperseded,
    AclUnchanged, Checkpoint
<1>2. CASE AclProject(j) BY <1>2, LifecycleAssumption DEF AclProject, AclUnchanged,
    Checkpoint, WriteAcl
<1>3. CASE AclProjectRefused(j) BY <1>3 DEF AclProjectRefused, AclUnchanged
<1>4. CASE AclProjectReplay(j) BY <1>4 DEF AclProjectReplay, AclUnchanged
<1>5. CASE AclMarkError(j) BY <1>5, LifecycleAssumption DEF AclMarkError, AclUnchanged,
    Checkpoint
<1>6. CASE AclDispatch(j) BY <1>6 DEF AclDispatch, AclUnchanged
<1>7. CASE AclReconcile(j) BY <1>7 DEF AclReconcile, AclUnchanged
<1>8. CASE AclProjectRolledBack(j) BY <1>8, LifecycleAssumption DEF AclProjectRolledBack,
    AclUnchanged, Fault, WriteAcl
<1>9. CASE AclDies(j) BY <1>9, LifecycleAssumption DEF AclDies, AclUnchanged, Fault
<1> QED BY <1>1, <1>2, <1>3, <1>4, <1>5, <1>6, <1>7, <1>8, <1>9 DEF AclStep

\* Every step of the delete workflow preserves the types.
LEMMA DeleteType ==
  ASSUME TypeOK, NEW d \in DeleteJobs, DeleteStep(d) \/ DeleteDispatch(d) \/
      DeleteReconcile(d) \/ DeleteStepFails(d) \/ DeleteDies(d)
  PROVE  TypeOK'
<1> USE DEF TypeOK, docVars, versionVars, jobVars, wfVars, pointVars, aclVars, aclJobVars,
    cleanVars,
            deleteVars
<1>1. CASE DeleteStart(d) BY <1>1, LifecycleAssumption DEF DeleteStart, Checkpoint,
    DeleteUnchanged
<1>2. CASE DeleteStartReplay(d) BY <1>2 DEF DeleteStartReplay, DeleteGoTo, DeleteUnchanged
<1>3. CASE DeleteDrain(d) BY <1>3, LifecycleAssumption DEF DeleteDrain, Checkpoint,
    DeleteUnchanged, StoppedJobs, Undrained
<1>4. CASE DeleteDrainTimeout(d) BY <1>4 DEF DeleteDrainTimeout, DeleteGoTo, DeleteUnchanged
<1>5. CASE DeleteLoadTargets(d) BY <1>5 DEF DeleteLoadTargets, DeleteUnchanged
<1>6. CASE DeleteGenerationsDone(d) BY <1>6 DEF DeleteGenerationsDone, DeleteGoTo,
    DeleteUnchanged
<1>7. CASE DeleteVectors(d) BY <1>7, LifecycleAssumption DEF DeleteVectors, Checkpoint,
    DeleteUnchanged
<1>8. CASE DeleteStorageDone(d) BY <1>8 DEF DeleteStorageDone, DeleteGoTo, DeleteUnchanged
<1>9. CASE DeleteFinish(d) BY <1>9, LifecycleAssumption DEF DeleteFinish, Checkpoint,
    DeleteUnchanged
<1>10. CASE DeleteFinishReplay(d) BY <1>10 DEF DeleteFinishReplay, DeleteGoTo, DeleteUnchanged
<1>11. CASE DeleteMarkError(d) BY <1>11, LifecycleAssumption DEF DeleteMarkError, Checkpoint,
    DeleteUnchanged
<1>12. CASE DeleteDispatch(d) BY <1>12 DEF DeleteDispatch, DeleteGoTo, DeleteUnchanged
<1>13. CASE DeleteReconcile(d) BY <1>13 DEF DeleteReconcile, DeleteUnchanged, DeleteReconcilable
<1>14. CASE DeleteStepFails(d) BY <1>14, LifecycleAssumption DEF DeleteStepFails,
    DeleteUnchanged, Fault
<1>15. CASE DeleteDies(d) BY <1>15, LifecycleAssumption DEF DeleteDies, DeleteUnchanged, Fault
<1>16. CASE \E g \in Generations : DeleteGeneration(d, g) BY <1>16 DEF DeleteGeneration,
    DeleteUnchanged
<1>17. CASE \E v \in Versions : DeleteStorageKey(d, v) BY <1>17 DEF DeleteStorageKey,
    DeleteUnchanged
<1> QED BY <1>1, <1>2, <1>3, <1>4, <1>5, <1>6, <1>7, <1>8, <1>9, <1>10, <1>11, <1>12, <1>13,
    <1>14, <1>15, <1>16, <1>17 DEF DeleteStep

\* Every command of the API preserves the types.
LEMMA CommandType ==
  ASSUME TypeOK, Commands
  PROVE  TypeOK'
<1> USE DEF TypeOK, docVars, versionVars, jobVars, wfVars, pointVars, aclVars, aclJobVars,
    cleanVars,
            deleteVars
<1>1. CASE \E v \in Versions, g \in Generations : CreateVersion(v, g)
  BY <1>1 DEF CreateVersion, StoppedJobs, Moved
<1>2. ASSUME NEW g \in Generations, CancelQueued(g) PROVE TypeOK'
  <2>1. verStatus' \in [Versions -> VersionStatuses] BY <1>2 DEF CancelQueued
  <2> QED BY <1>2, <2>1 DEF CancelQueued
<1>3. CASE \E g \in Generations : CancelRunning(g) BY <1>3 DEF CancelRunning
<1>4. CASE \E g, fresh \in Generations : RetryIngest(g, fresh) BY <1>4 DEF RetryIngest
<1>5. CASE \E j \in AclJobs, a \in AclValues : ReplaceAcl(j, a) BY <1>5 DEF ReplaceAcl
<1>6. CASE DeleteRequest BY <1>6 DEF DeleteRequest, DeleteUnchanged, StoppedJobs
<1>7. CASE \E d, fresh \in DeleteJobs : DeleteRetry(d, fresh)
  BY <1>7 DEF DeleteRetry, DeleteUnchanged
<1> QED BY <1>1, <1>2, <1>3, <1>4, <1>5, <1>6, <1>7 DEF Commands

\* Every step preserves the types.
LEMMA NextType == ASSUME TypeOK, [Next]_vars PROVE TypeOK'
<1>1. CASE Commands BY <1>1, CommandType
<1>2. CASE Workflows
  BY <1>2, IngestType, CleanupType, AclType, DeleteType DEF Workflows
<1>3. CASE Failures
  BY <1>3, IngestType, CleanupType, AclType, DeleteType DEF Failures
<1>4. CASE UNCHANGED vars
  BY <1>4 DEF vars, TypeOK, docVars, versionVars, jobVars, wfVars, pointVars, aclVars,
    aclJobVars, cleanVars, deleteVars
<1> QED BY <1>1, <1>2, <1>3, <1>4 DEF Next

(***************************************************************************)
(* The inductive invariant.  CoreVars is the state it relates; the steps    *)
(* that leave it alone need no more than CoreFrame.                         *)
(***************************************************************************)
CoreVars == <<docVars, versionVars, genVer, jobStatus>>

\* The first upload establishes the invariant.
LEMMA InitInv == Init => LifecycleInv
<1> SUFFICES ASSUME Init PROVE LifecycleInv OBVIOUS
<1> PICK v \in Versions, g \in Generations : FirstUpload(v, g) BY DEF Init
<1> USE LifecycleAssumption DEF FirstUpload
<1>1. TypeOK BY InitType
<1>2. PointerSound BY DEF PointerSound
<1>3. OnlyDesiredIngestRuns BY DEF OnlyDesiredIngestRuns, Mutable
<1>4. StatusTruthful BY DEF StatusTruthful
<1>5. VersionsOwnGenerations BY DEF VersionsOwnGenerations
<1>6. CompletedKeepGeneration BY DEF CompletedKeepGeneration
<1>7. LatestIsDesired BY DEF LatestIsDesired
<1>8. DeletesAreFinal BY DEF DeletesAreFinal
<1>9. NoStrandedVersions BY DEF NoStrandedVersions
<1> QED BY <1>1, <1>2, <1>3, <1>4, <1>5, <1>6, <1>7, <1>8, <1>9 DEF LifecycleInv

\* A step that changes neither the document, its versions nor its ingest jobs.
LEMMA CoreFrame ==
  ASSUME LifecycleInv, TypeOK', UNCHANGED CoreVars, DeletesAreFinal'
  PROVE  LifecycleInv'
BY DEF CoreVars, docVars, versionVars, LifecycleInv, PointerSound, OnlyDesiredIngestRuns,
  StatusTruthful, NoStrandedVersions, VersionsOwnGenerations, CompletedKeepGeneration,
  LatestIsDesired, Mutable

\* ... and no delete job or workflow either.
LEMMA IdleFrame ==
  ASSUME LifecycleInv, TypeOK', UNCHANGED CoreVars, UNCHANGED deleteVars
  PROVE  LifecycleInv'
<1>1. DeletesAreFinal'
  BY DEF LifecycleInv, DeletesAreFinal, Mutable, CoreVars, docVars, deleteVars
<1> QED BY <1>1, CoreFrame

\* A failed or cancelled ingest leaves the active version, which it does not own, alone.
LEMMA SettleInv ==
  ASSUME LifecycleInv, TypeOK', NEW g \in Generations, NEW status \in {"failed", "cancelled"},
         InScope(g), jobStatus[g] # "completed", Settle(g, status)
  PROVE LifecycleInv'
<1> USE LifecycleAssumption DEF LifecycleInv, Settle, EndedVersion, DocumentFailure, InScope,
       deleteVars
<1>1. PointerSound' BY DEF TypeOK, PointerSound, Mutable
<1>2. OnlyDesiredIngestRuns' BY DEF TypeOK, OnlyDesiredIngestRuns, Mutable
<1>3. StatusTruthful' BY DEF TypeOK, StatusTruthful, VersionsOwnGenerations, PointerSound,
       Mutable
<1>4. VersionsOwnGenerations' BY DEF TypeOK, VersionsOwnGenerations
<1>5. CompletedKeepGeneration' BY DEF TypeOK, CompletedKeepGeneration
<1>6. LatestIsDesired' BY DEF TypeOK, LatestIsDesired
<1>7. DeletesAreFinal' BY DEF DeletesAreFinal, Mutable
<1>8. NoStrandedVersions' BY DEF TypeOK, NoStrandedVersions, VersionsOwnGenerations
<1> QED BY <1>1, <1>2, <1>3, <1>4, <1>5, <1>6, <1>7, <1>8

\* begin finds an open job of the desired version and moves both to processing.
LEMMA BeginInv ==
  ASSUME LifecycleInv, TypeOK', NEW g \in Generations, IngestBegin(g)
  PROVE  LifecycleInv'
<1> USE LifecycleAssumption DEF LifecycleInv, IngestBegin, CanBegin, InScope, docVars,
       deleteVars
<1>1. PointerSound' BY DEF TypeOK, PointerSound, Mutable
<1>2. OnlyDesiredIngestRuns' BY DEF TypeOK, OnlyDesiredIngestRuns, Mutable
<1>3. StatusTruthful' BY DEF TypeOK, StatusTruthful, VersionsOwnGenerations, PointerSound,
       Mutable
<1>4. VersionsOwnGenerations' BY DEF TypeOK, VersionsOwnGenerations
<1>5. CompletedKeepGeneration' BY DEF TypeOK, CompletedKeepGeneration
<1>6. LatestIsDesired' BY DEF TypeOK, LatestIsDesired
<1>7. DeletesAreFinal' BY DEF DeletesAreFinal, Mutable
<1>8. NoStrandedVersions' BY DEF TypeOK, NoStrandedVersions, VersionsOwnGenerations
<1> QED BY <1>1, <1>2, <1>3, <1>4, <1>5, <1>6, <1>7, <1>8

\* prepareActivation only moves the desired version to activating.
LEMMA PrepareInv ==
  ASSUME LifecycleInv, TypeOK', NEW g \in Generations, IngestPrepare(g)
  PROVE  LifecycleInv'
<1> USE LifecycleAssumption DEF LifecycleInv, IngestPrepare, CanPrepare, InScope, docVars,
       jobVars, deleteVars
<1>1. PointerSound' BY DEF TypeOK, PointerSound, Mutable
<1>2. OnlyDesiredIngestRuns' BY DEF TypeOK, OnlyDesiredIngestRuns, Mutable
<1>3. StatusTruthful' BY DEF TypeOK, StatusTruthful, VersionsOwnGenerations, PointerSound,
       Mutable
<1>4. VersionsOwnGenerations' BY DEF TypeOK, VersionsOwnGenerations
<1>5. CompletedKeepGeneration' BY DEF TypeOK, CompletedKeepGeneration
<1>6. LatestIsDesired' BY DEF TypeOK, LatestIsDesired
<1>7. DeletesAreFinal' BY DEF DeletesAreFinal, Mutable
<1>8. NoStrandedVersions' BY DEF TypeOK, NoStrandedVersions, VersionsOwnGenerations
<1> QED BY <1>1, <1>2, <1>3, <1>4, <1>5, <1>6, <1>7, <1>8

\* The switch of the active version: the job completes, the version keeps its
\* generation, and the replaced version stops being active in the same step.
LEMMA ActivateInv ==
  ASSUME LifecycleInv, TypeOK', NEW g \in Generations, IngestActivate(g)
  PROVE  LifecycleInv'
<1> USE LifecycleAssumption DEF LifecycleInv, IngestActivate, CanActivate, Replaced,
       ActivatedJobs, InScope, deleteVars
<1>0. genVer[g] \in Versions /\ genVer[g] = desired BY DEF TypeOK
<1>1. PointerSound' BY <1>0 DEF TypeOK, PointerSound, Mutable
<1>2. OnlyDesiredIngestRuns' BY DEF TypeOK, OnlyDesiredIngestRuns, Mutable
<1>3. StatusTruthful' BY <1>0 DEF TypeOK, StatusTruthful, Mutable
<1>4. VersionsOwnGenerations' BY <1>0 DEF TypeOK, VersionsOwnGenerations
<1>5. CompletedKeepGeneration' BY <1>0 DEF TypeOK, CompletedKeepGeneration
<1>6. LatestIsDesired' BY DEF TypeOK, LatestIsDesired
<1>7. DeletesAreFinal' BY DEF DeletesAreFinal, Mutable
<1>8. NoStrandedVersions' BY <1>0 DEF TypeOK, NoStrandedVersions, VersionsOwnGenerations
<1> QED BY <1>1, <1>2, <1>3, <1>4, <1>5, <1>6, <1>7, <1>8

\* A new version takes over as the desired one, with a generation of its own.
LEMMA CreateInv ==
  ASSUME LifecycleInv, TypeOK', NEW v \in Versions, NEW g \in Generations, CreateVersion(v, g)
  PROVE  LifecycleInv'
<1> USE LifecycleAssumption DEF LifecycleInv, CreateVersion, StoppedJobs, deleteVars
<1>1. PointerSound' BY DEF TypeOK, PointerSound, Mutable
<1>2. OnlyDesiredIngestRuns' BY DEF TypeOK, OnlyDesiredIngestRuns, Mutable
<1>3. StatusTruthful' BY DEF TypeOK, StatusTruthful, Mutable
<1>4. VersionsOwnGenerations' BY DEF TypeOK, VersionsOwnGenerations
<1>5. CompletedKeepGeneration'
  <2>1. ASSUME NEW h \in Generations, jobStatus'[h] = "completed"
        PROVE  h # g /\ jobStatus[h] = "completed" /\ genVer'[h] = genVer[h]
    BY <2>1 DEF TypeOK
  <2>2. ASSUME NEW h \in Generations, jobStatus'[h] = "completed"
        PROVE  genVer'[h] \in Versions /\ verGen'[genVer'[h]] = h
    <3>1. genVer[h] \in Versions /\ verGen[genVer[h]] = h
      BY <2>1, <2>2 DEF CompletedKeepGeneration
    <3>2. genVer[h] # v
      BY <3>1 DEF TypeOK, VersionsOwnGenerations
    <3> QED
      BY <2>1, <2>2, <3>1, <3>2 DEF TypeOK
  <2> QED
    BY <2>2 DEF CompletedKeepGeneration
<1>6. LatestIsDesired' BY DEF TypeOK, LatestIsDesired
<1>7. DeletesAreFinal' BY DEF DeletesAreFinal, Mutable
<1>8. NoStrandedVersions' BY DEF TypeOK, NoStrandedVersions, VersionsOwnGenerations
<1> QED BY <1>1, <1>2, <1>3, <1>4, <1>5, <1>6, <1>7, <1>8

\* The cancel route writes without a guard, but a queued job is always the one of the
\* desired version, which is not the active one, in a document that is not going away.
LEMMA CancelQueuedInv ==
  ASSUME LifecycleInv, TypeOK', NEW g \in Generations, CancelQueued(g)
  PROVE  LifecycleInv'
<1> USE LifecycleAssumption DEF LifecycleInv, CancelQueued, deleteVars
<1>0. genVer[g] = desired /\ verGen[desired] = g /\ Mutable /\ desired # activeVersion
   BY DEF TypeOK, OnlyDesiredIngestRuns, PointerSound
<1>1. PointerSound' BY <1>0 DEF TypeOK, PointerSound, Mutable
<1>2. OnlyDesiredIngestRuns' BY <1>0 DEF TypeOK, OnlyDesiredIngestRuns, Mutable
<1>3. StatusTruthful' BY <1>0 DEF TypeOK, StatusTruthful, Mutable
<1>4. VersionsOwnGenerations' BY <1>0 DEF TypeOK, VersionsOwnGenerations
<1>5. CompletedKeepGeneration' BY DEF TypeOK, CompletedKeepGeneration
<1>6. LatestIsDesired' BY DEF TypeOK, LatestIsDesired
<1>7. DeletesAreFinal' BY <1>0 DEF DeletesAreFinal, Mutable
<1>8. NoStrandedVersions' BY <1>0 DEF TypeOK, NoStrandedVersions, VersionsOwnGenerations
<1> QED BY <1>1, <1>2, <1>3, <1>4, <1>5, <1>6, <1>7, <1>8

\* Asking a running job to stop changes nothing but the job.
LEMMA CancelRunningInv ==
  ASSUME LifecycleInv, TypeOK', NEW g \in Generations, CancelRunning(g)
  PROVE  LifecycleInv'
<1> USE LifecycleAssumption DEF LifecycleInv, CancelRunning, docVars, versionVars, deleteVars
<1>1. PointerSound' BY DEF TypeOK, PointerSound, Mutable
<1>2. OnlyDesiredIngestRuns' BY DEF TypeOK, OnlyDesiredIngestRuns, Mutable
<1>3. StatusTruthful' BY DEF TypeOK, StatusTruthful, VersionsOwnGenerations
<1>4. VersionsOwnGenerations' BY DEF TypeOK, VersionsOwnGenerations
<1>5. CompletedKeepGeneration' BY DEF TypeOK, CompletedKeepGeneration
<1>6. LatestIsDesired' BY DEF TypeOK, LatestIsDesired
<1>7. DeletesAreFinal' BY DEF DeletesAreFinal, Mutable
<1>8. NoStrandedVersions' BY DEF TypeOK, NoStrandedVersions, VersionsOwnGenerations
<1> QED BY <1>1, <1>2, <1>3, <1>4, <1>5, <1>6, <1>7, <1>8

\* The job that is retried is the desired version's, and it did not complete: the
\* version that gets a fresh generation is not the active one.
LEMMA RetryInv ==
  ASSUME LifecycleInv, TypeOK', NEW g \in Generations, NEW fresh \in Generations,
       RetryIngest(g, fresh)
  PROVE  LifecycleInv'
<1> USE LifecycleAssumption DEF LifecycleInv, RetryIngest, deleteVars
<1>0. genVer[g] = desired /\ verGen[desired] = g /\ desired # activeVersion /\ fresh # g
   BY DEF TypeOK, LatestIsDesired, PointerSound
<1>1. PointerSound' BY <1>0 DEF TypeOK, PointerSound, Mutable
<1>2. OnlyDesiredIngestRuns' BY <1>0 DEF TypeOK, OnlyDesiredIngestRuns, Mutable
<1>3. StatusTruthful' BY <1>0 DEF TypeOK, StatusTruthful, Mutable
<1>4. VersionsOwnGenerations' BY <1>0 DEF TypeOK, VersionsOwnGenerations
<1>5. CompletedKeepGeneration' BY <1>0 DEF TypeOK, CompletedKeepGeneration
<1>6. LatestIsDesired' BY <1>0 DEF TypeOK, LatestIsDesired
<1>7. DeletesAreFinal' BY <1>0 DEF DeletesAreFinal, Mutable
<1>8. NoStrandedVersions' BY <1>0 DEF TypeOK, NoStrandedVersions, VersionsOwnGenerations
<1> QED BY <1>1, <1>2, <1>3, <1>4, <1>5, <1>6, <1>7, <1>8

\* Accepting a delete stops every open ingest.
LEMMA DeleteRequestInv ==
  ASSUME LifecycleInv, TypeOK', DeleteRequest
  PROVE  LifecycleInv'
<1> USE LifecycleAssumption DEF LifecycleInv, DeleteRequest, DeleteUnchanged, StoppedJobs
<1>1. PointerSound' BY DEF TypeOK, PointerSound, Mutable
<1>2. OnlyDesiredIngestRuns' BY DEF TypeOK, OnlyDesiredIngestRuns, Mutable
<1>3. StatusTruthful' BY DEF TypeOK, StatusTruthful
<1>4. VersionsOwnGenerations' BY DEF TypeOK, VersionsOwnGenerations
<1>5. CompletedKeepGeneration' BY DEF TypeOK, CompletedKeepGeneration
<1>6. LatestIsDesired' BY DEF TypeOK, LatestIsDesired
<1>7. DeletesAreFinal' BY DEF TypeOK, DeletesAreFinal, Mutable
<1>8. NoStrandedVersions' BY DEF TypeOK, NoStrandedVersions
<1> QED BY <1>1, <1>2, <1>3, <1>4, <1>5, <1>6, <1>7, <1>8

\* A retried delete is a fresh job of a document already being deleted.
LEMMA DeleteRetryInv ==
  ASSUME LifecycleInv, TypeOK', NEW d \in DeleteJobs, NEW fresh \in DeleteJobs, DeleteRetry(d,
       fresh)
  PROVE  LifecycleInv'
<1> USE LifecycleAssumption DEF LifecycleInv, DeleteRetry, DeleteUnchanged
<1>1. PointerSound' BY DEF TypeOK, PointerSound, Mutable
<1>2. OnlyDesiredIngestRuns' BY DEF TypeOK, OnlyDesiredIngestRuns, Mutable
<1>3. StatusTruthful' BY DEF TypeOK, StatusTruthful
<1>4. VersionsOwnGenerations' BY DEF TypeOK, VersionsOwnGenerations
<1>5. CompletedKeepGeneration' BY DEF TypeOK, CompletedKeepGeneration
<1>6. LatestIsDesired' BY DEF TypeOK, LatestIsDesired
<1>7. DeletesAreFinal' BY DEF TypeOK, DeletesAreFinal, Mutable
<1>8. NoStrandedVersions' BY DEF NoStrandedVersions
<1> QED BY <1>1, <1>2, <1>3, <1>4, <1>5, <1>6, <1>7, <1>8

\* Draining stops the ingest of a document already being deleted.
LEMMA DeleteDrainInv ==
  ASSUME LifecycleInv, TypeOK', NEW d \in DeleteJobs, DeleteDrain(d)
  PROVE  LifecycleInv'
<1> USE LifecycleAssumption DEF LifecycleInv, DeleteDrain, DeleteUnchanged, StoppedJobs,
       Undrained, docVars, Checkpoint
<1>1. PointerSound' BY DEF TypeOK, PointerSound, Mutable
<1>2. OnlyDesiredIngestRuns' BY DEF TypeOK, OnlyDesiredIngestRuns, Mutable
<1>3. StatusTruthful' BY DEF TypeOK, StatusTruthful, DeletesAreFinal, Mutable
<1>4. VersionsOwnGenerations' BY DEF TypeOK, VersionsOwnGenerations
<1>5. CompletedKeepGeneration' BY DEF TypeOK, CompletedKeepGeneration
<1>6. LatestIsDesired' BY DEF TypeOK, LatestIsDesired
<1>7. DeletesAreFinal' BY DEF TypeOK, DeletesAreFinal, Mutable
<1>8. NoStrandedVersions' BY DEF TypeOK, NoStrandedVersions, VersionsOwnGenerations,
       OnlyDesiredIngestRuns, DeletesAreFinal, Mutable
<1> QED BY <1>1, <1>2, <1>3, <1>4, <1>5, <1>6, <1>7, <1>8

\* The completion of a delete withdraws the active version for good.
LEMMA DeleteFinishInv ==
  ASSUME LifecycleInv, TypeOK', NEW d \in DeleteJobs, DeleteFinish(d)
  PROVE  LifecycleInv'
<1> USE LifecycleAssumption DEF LifecycleInv, DeleteFinish, DeleteUnchanged, Checkpoint
<1>1. PointerSound' BY DEF TypeOK, PointerSound, Mutable
<1>2. OnlyDesiredIngestRuns' BY DEF TypeOK, OnlyDesiredIngestRuns, DeletesAreFinal, Mutable
<1>3. StatusTruthful' BY DEF TypeOK, StatusTruthful, DeletesAreFinal, Mutable
<1>4. VersionsOwnGenerations' BY DEF TypeOK, VersionsOwnGenerations
<1>5. CompletedKeepGeneration' BY DEF TypeOK, CompletedKeepGeneration
<1>6. LatestIsDesired' BY DEF TypeOK, LatestIsDesired
<1>7. DeletesAreFinal' BY DEF TypeOK, DeletesAreFinal, Mutable
<1>8. NoStrandedVersions' BY DEF TypeOK, NoStrandedVersions
<1> QED BY <1>1, <1>2, <1>3, <1>4, <1>5, <1>6, <1>7, <1>8

\* Every step of the ingest workflow preserves the invariant.
LEMMA IngestInv ==
  ASSUME LifecycleInv, TypeOK', NEW g \in Generations,
         IngestStep(g) \/ IngestDispatch(g) \/ IngestReconcile(g) \/ IngestDies(g)
  PROVE  LifecycleInv'
<1>1. CASE IngestBegin(g) BY <1>1, BeginInv
<1>2. CASE IngestBeginCancelled(g)
  BY <1>2, SettleInv DEF IngestBeginCancelled, CancelSeen
<1>3. CASE IngestPrepare(g) BY <1>3, PrepareInv
<1>4. CASE IngestActivate(g) BY <1>4, ActivateInv
<1>5. CASE IngestMarkError(g)
  <2>1. CASE InScope(g) /\ jobStatus[g] # "completed"
    BY <1>5, <2>1, SettleInv DEF IngestMarkError
  <2>2. CASE ~(InScope(g) /\ jobStatus[g] # "completed")
    BY <1>5, <2>2, IdleFrame DEF IngestMarkError, GoTo, CoreVars, jobVars
  <2> QED BY <2>1, <2>2
<1>6. CASE IngestReconcile(g) BY <1>6, SettleInv DEF IngestReconcile, Reconcilable
<1>7. CASE \/ IngestDispatch(g) \/ IngestBeginRefused(g) \/ IngestLoadScope(g)
           \/ IngestCheckBatch(g) \/ IngestUpsert(g) \/ IngestPrepareRefused(g)
           \/ IngestLoadAcl(g) \/ IngestExpose(g) \/ IngestFails(g)
           \/ IngestActivateReplay(g) \/ IngestActivateRefused(g) \/ IngestDeactivate(g)
           \/ IngestDies(g)
  BY <1>7, IdleFrame DEF GoTo, CoreVars, jobVars,
    IngestDispatch, IngestBeginRefused, IngestLoadScope, IngestCheckBatch, IngestUpsert,
    IngestPrepareRefused, IngestLoadAcl, IngestExpose, IngestFails, IngestActivateReplay,
    IngestActivateRefused, IngestDeactivate, IngestDies
<1> QED BY <1>1, <1>2, <1>3, <1>4, <1>5, <1>6, <1>7 DEF IngestStep

\* Neither the cleanup queue nor the ACL projection touches what the invariant relates.
LEMMA CleanupInv ==
  ASSUME LifecycleInv, TypeOK', NEW g \in Generations,
         CleanupStep(g) \/ CleanupMaterialize(g) \/ CleanupDispatch(g)
         \/ CleanupReconcile(g) \/ CleanupRetry(g) \/ CleanupDeleteFails(g) \/ CleanupDies(g)
  PROVE  LifecycleInv'
BY IdleFrame DEF CleanupStep, CleanupUnchanged, CoreVars, jobVars,
    CleanupMarkSweeping, CleanupAlreadyDeleted, CleanupSweepRefused, CleanupDeletePoints,
    CleanupMarkDeleted, CleanupMarkError, CleanupMaterialize,
    CleanupDispatch, CleanupReconcile, CleanupRetry, CleanupDeleteFails, CleanupDies

\* The same of the ACL projection.
LEMMA AclInv ==
  ASSUME LifecycleInv, TypeOK', NEW j \in AclJobs,
         AclStep(j) \/ AclDispatch(j) \/ AclReconcile(j) \/ AclProjectRolledBack(j) \/ AclDies(j)
  PROVE  LifecycleInv'
BY IdleFrame DEF AclStep, AclUnchanged, CoreVars, jobVars,
    AclProjectSuperseded, AclProject, AclProjectRefused, AclProjectReplay, AclMarkError,
    AclDispatch, AclReconcile, AclProjectRolledBack, AclDies

\* Every step of the delete workflow preserves the invariant.
LEMMA DeleteInv ==
  ASSUME LifecycleInv, TypeOK', NEW d \in DeleteJobs,
         DeleteStep(d) \/ DeleteDispatch(d) \/ DeleteReconcile(d) \/ DeleteStepFails(d)
         \/ DeleteDies(d)
  PROVE  LifecycleInv'
<1>1. CASE DeleteDrain(d) BY <1>1, DeleteDrainInv
<1>2. CASE DeleteFinish(d) BY <1>2, DeleteFinishInv
<1>3. CASE \E g \in Generations : DeleteGeneration(d, g)
  BY <1>3, CoreFrame DEF DeleteGeneration, DeleteUnchanged, CoreVars, docVars, versionVars,
    LifecycleInv, DeletesAreFinal, Mutable
<1>4. CASE \E v \in Versions : DeleteStorageKey(d, v)
  BY <1>4, CoreFrame DEF DeleteStorageKey, DeleteUnchanged, CoreVars, docVars, versionVars,
    LifecycleInv, DeletesAreFinal, Mutable
<1>5. CASE \/ DeleteStart(d) \/ DeleteStartReplay(d) \/ DeleteDrainTimeout(d)
           \/ DeleteLoadTargets(d) \/ DeleteGenerationsDone(d) \/ DeleteVectors(d)
           \/ DeleteStorageDone(d) \/ DeleteFinishReplay(d) \/ DeleteMarkError(d)
           \/ DeleteDispatch(d) \/ DeleteReconcile(d) \/ DeleteStepFails(d) \/ DeleteDies(d)
  <2> USE DEF DeleteGoTo, DeleteReconcilable, DeleteUnchanged, Checkpoint, Fault,
    docVars, versionVars, DeleteStart, DeleteStartReplay, DeleteDrainTimeout, DeleteLoadTargets,
    DeleteGenerationsDone, DeleteVectors, DeleteStorageDone, DeleteFinishReplay,
    DeleteMarkError, DeleteDispatch, DeleteReconcile, DeleteStepFails, DeleteDies
  <2>1. UNCHANGED CoreVars BY <1>5 DEF CoreVars
  <2>2. DeletesAreFinal' BY <1>5 DEF LifecycleInv, TypeOK, DeletesAreFinal, Mutable
  <2> QED BY <2>1, <2>2, CoreFrame
<1> QED BY <1>1, <1>2, <1>3, <1>4, <1>5 DEF DeleteStep

\* Every command of the API preserves the invariant.
LEMMA CommandInv ==
  ASSUME LifecycleInv, TypeOK', Commands
  PROVE  LifecycleInv'
<1>1. CASE \E j \in AclJobs, a \in AclValues : ReplaceAcl(j, a)
  BY <1>1, IdleFrame DEF ReplaceAcl, CoreVars, jobVars
<1> QED
  BY <1>1, CreateInv, CancelQueuedInv, CancelRunningInv, RetryInv, DeleteRequestInv,
    DeleteRetryInv DEF Commands

\* The invariant is inductive.
LEMMA NextInv == ASSUME LifecycleInv, [Next]_vars PROVE LifecycleInv'
<1>1. TypeOK' BY NextType DEF LifecycleInv
<1>2. CASE Commands BY <1>1, <1>2, CommandInv
<1>3. CASE Workflows
  BY <1>1, <1>3, IngestInv, CleanupInv, AclInv, DeleteInv DEF Workflows
<1>4. CASE Failures
  BY <1>1, <1>4, IngestInv, CleanupInv, AclInv, DeleteInv DEF Failures
<1>5. CASE UNCHANGED vars BY <1>1, <1>5, IdleFrame DEF vars, CoreVars, jobVars
<1> QED BY <1>2, <1>3, <1>4, <1>5 DEF Next

(***************************************************************************)
(* The theorems.                                                            *)
(***************************************************************************)

\* Whatever the commands, crashes and retries, and in every order of them, every
\* state of the lifecycle satisfies the inductive invariant.
THEOREM LifecycleInvariant == Spec => []LifecycleInv
<1>1. Init => LifecycleInv BY InitInv
<1>2. LifecycleInv /\ [Next]_vars => LifecycleInv' BY NextInv
<1> QED BY <1>1, <1>2, PTL DEF Spec

\* Every column and workflow position keeps its type.
THEOREM TypeCorrect == Spec => []TypeOK
<1>1. LifecycleInv => TypeOK BY DEF LifecycleInv
<1> QED BY <1>1, LifecycleInvariant, PTL

\* At most the desired version's ingest may still reach its activation, in a document
\* that accepts changes: what lets the cancel route write without a guard.
THEOREM OneIngestRuns == Spec => []OnlyDesiredIngestRuns
<1>1. LifecycleInv => OnlyDesiredIngestRuns BY DEF LifecycleInv
<1> QED BY <1>1, LifecycleInvariant, PTL

\* documents.status always says what is being served and what is under way.
THEOREM StatusIsTruthful == Spec => []StatusTruthful
<1>1. LifecycleInv => StatusTruthful BY DEF LifecycleInv
<1> QED BY <1>1, LifecycleInvariant, PTL

\* No version row stays open when the ingest of its generation has ended.
THEOREM NoneStranded == Spec => []NoStrandedVersions
<1>1. LifecycleInv => NoStrandedVersions BY DEF LifecycleInv
<1> QED BY <1>1, LifecycleInvariant, PTL

\* The row retrieval resolves is the active version with the generation its completed
\* job built.
THEOREM PointerIsSound == Spec => []PointerSound
<1>1. LifecycleInv => PointerSound BY DEF LifecycleInv
<1> QED BY <1>1, LifecycleInvariant, PTL

(***************************************************************************)
(* Publication.                                                             *)
(***************************************************************************)

\* The end of an ingest that did not activate.
Settles(g) ==
    /\ \E status \in {"failed", "cancelled"} : Settle(g, status)
    /\ InScope(g)
    /\ jobStatus[g] # "completed"

\* The steps that may change the document, its versions or its ingest jobs.
LEMMA CoreSteps ==
  ASSUME [Next]_vars
  PROVE  \/ UNCHANGED CoreVars
         \/ Commands
         \/ \E g \in Generations :
               IngestBegin(g) \/ IngestPrepare(g) \/ IngestActivate(g) \/ Settles(g)
         \/ \E d \in DeleteJobs : DeleteDrain(d) \/ DeleteFinish(d)
<1> USE DEF CoreVars, docVars, versionVars, jobVars
<1>1. ASSUME NEW g \in Generations,
             IngestStep(g) \/ IngestDispatch(g) \/ IngestReconcile(g) \/ IngestDies(g)
      PROVE  \/ UNCHANGED CoreVars
             \/ IngestBegin(g) \/ IngestPrepare(g) \/ IngestActivate(g) \/ Settles(g)
  BY <1>1 DEF IngestStep, IngestReconcile, Reconcilable, IngestBeginCancelled, CancelSeen,
    IngestMarkError, GoTo, Settles,
    IngestDispatch, IngestBeginRefused, IngestLoadScope, IngestCheckBatch, IngestUpsert,
    IngestPrepareRefused, IngestLoadAcl, IngestExpose, IngestFails, IngestActivateReplay,
    IngestActivateRefused, IngestDeactivate, IngestDies
<1>2. ASSUME NEW g \in Generations,
             CleanupStep(g) \/ CleanupMaterialize(g) \/ CleanupDispatch(g)
             \/ CleanupReconcile(g) \/ CleanupRetry(g) \/ CleanupDeleteFails(g) \/ CleanupDies(g)
      PROVE  UNCHANGED CoreVars
  BY <1>2 DEF CleanupStep, CleanupUnchanged,
    CleanupMarkSweeping, CleanupAlreadyDeleted, CleanupSweepRefused, CleanupDeletePoints,
    CleanupMarkDeleted, CleanupMarkError, CleanupMaterialize,
    CleanupDispatch, CleanupReconcile, CleanupRetry, CleanupDeleteFails, CleanupDies
<1>3. ASSUME NEW j \in AclJobs,
             AclStep(j) \/ AclDispatch(j) \/ AclReconcile(j) \/ AclProjectRolledBack(j)
             \/ AclDies(j)
      PROVE  UNCHANGED CoreVars
  BY <1>3 DEF AclStep, AclUnchanged,
    AclProjectSuperseded, AclProject, AclProjectRefused, AclProjectReplay, AclMarkError,
    AclDispatch, AclReconcile, AclProjectRolledBack, AclDies
<1>4. ASSUME NEW d \in DeleteJobs,
             DeleteStep(d) \/ DeleteDispatch(d) \/ DeleteReconcile(d) \/ DeleteStepFails(d)
             \/ DeleteDies(d)
      PROVE  UNCHANGED CoreVars \/ DeleteDrain(d) \/ DeleteFinish(d)
  BY <1>4 DEF DeleteStep, DeleteGoTo, DeleteUnchanged, DeleteGeneration, DeleteStorageKey,
    DeleteStart, DeleteStartReplay, DeleteDrainTimeout, DeleteLoadTargets,
    DeleteGenerationsDone, DeleteVectors, DeleteStorageDone, DeleteFinishReplay,
    DeleteMarkError, DeleteDispatch, DeleteReconcile, DeleteStepFails, DeleteDies
<1>5. CASE UNCHANGED vars BY <1>5 DEF vars
<1> QED BY <1>1, <1>2, <1>3, <1>4, <1>5 DEF Next, Workflows, Failures

\* A failed, cancelled or superseded ingest never displaces what is published; only the
\* desired version of a document that accepts changes, or the end of a delete, does.
THEOREM PublicationByDesired == Spec => PublishedOnlyByDesired
<1>1. ASSUME [Next]_vars PROVE [PublishedStep]_vars
  <2>1. ASSUME NEW g \in Generations, IngestActivate(g) PROVE PublishedStep
    BY <2>1 DEF IngestActivate, CanActivate, PublishedStep
  <2>2. ASSUME NEW d \in DeleteJobs, DeleteFinish(d) PROVE PublishedStep
    BY <2>2 DEF DeleteFinish, PublishedStep
  <2>3. ASSUME \/ UNCHANGED CoreVars \/ Commands
               \/ \E g \in Generations : IngestBegin(g) \/ IngestPrepare(g) \/ Settles(g)
               \/ \E d \in DeleteJobs : DeleteDrain(d)
        PROVE  activeVersion' = activeVersion
    BY <2>3 DEF CoreVars, docVars, Commands, CreateVersion, CancelQueued, CancelRunning,
      RetryIngest, ReplaceAcl, DeleteRequest, DeleteRetry, IngestBegin, IngestPrepare, Settles,
      Settle, DeleteDrain
  <2> QED BY <1>1, <2>1, <2>2, <2>3, CoreSteps DEF PublishedStep
<1> QED BY <1>1, PTL DEF Spec, PublishedOnlyByDesired

(***************************************************************************)
(* The refinement, under the mapping of DocumentLifecycle!Published: every  *)
(* step of the lifecycle publishes, closes, withdraws, or changes nothing a *)
(* reader could tell.                                                       *)
(***************************************************************************)

HIDE DEF DocStatuses, OpenVersionStatuses, VersionStatuses, OpenJobStatuses, TerminalJobStatuses,
         JobStatuses, RetryableJobStatuses, SweepStatuses, Visibilities, EndedWf, IngestSteps,
         AclSteps, CleanupSteps, DeleteSteps

\* The first upload maps to the abstract initial state.
LEMMA InitRefines == Init => Published!Init
<1> SUFFICES ASSUME Init PROVE Published!Init OBVIOUS
<1> PICK v \in Versions, g \in Generations : FirstUpload(v, g) BY DEF Init
<1> QED BY DEF FirstUpload, Published!Init, Activated, Mutable

\* The active version is among those that were activated.
LEMMA ActiveWasActivated ==
  ASSUME LifecycleInv
  PROVE  /\ activeVersion # None => activeVersion \in Activated
         /\ None \notin Activated
BY LifecycleAssumption DEF LifecycleInv, TypeOK, PointerSound, CompletedKeepGeneration, Activated

\* An activation publishes a version that was never published before.
LEMMA ActivateRefines ==
  ASSUME LifecycleInv, TypeOK', NEW g \in Generations, IngestActivate(g)
  PROVE  Published!Next
<1> DEFINE v == genVer[g]
<1> USE LifecycleAssumption DEF LifecycleInv
<1>1. v \in Versions /\ verGen[v] = g /\ jobStatus[g] = "running" /\ Mutable
  BY DEF TypeOK, IngestActivate, CanActivate, InScope
<1>2. v \notin Activated
  BY <1>1 DEF Activated, CompletedKeepGeneration
<1>3. v # activeVersion BY <1>1 DEF PointerSound
<1>4. Activated' = Activated \cup {v}
  BY <1>1 DEF IngestActivate, ActivatedJobs, Activated, TypeOK
<1>5. activeVersion' = v /\ Mutable' BY DEF IngestActivate, Mutable
<1>6. Activated' \ {activeVersion'} = (Activated \ {activeVersion}) \cup ({activeVersion} \ {None})
  BY <1>2, <1>4, <1>5, ActiveWasActivated
<1>7. Published!Publish(v) BY <1>1, <1>2, <1>3, <1>5, <1>6 DEF Published!Publish
<1> QED BY <1>1, <1>7 DEF Published!Next

\* A delete request closes the abstract document; the other commands leave the pointer,
\* the completed jobs and the openness of the document alone.
LEMMA CommandRefines ==
  ASSUME LifecycleInv, TypeOK', Commands
  PROVE  [Published!Next]_(Published!vars)
<1> USE LifecycleAssumption DEF LifecycleInv, Activated, Mutable
<1>1. ASSUME NEW v \in Versions, NEW g \in Generations, CreateVersion(v, g)
      PROVE  UNCHANGED Published!vars
  <2>1. UNCHANGED <<activeVersion, Mutable>> BY <1>1 DEF CreateVersion
  <2>2. \A x \in Generations :
           /\ jobStatus'[x] = "completed" <=> jobStatus[x] = "completed"
           /\ jobStatus[x] = "completed" => genVer'[x] = genVer[x]
    BY <1>1 DEF CreateVersion, StoppedJobs, TypeOK, CompletedKeepGeneration
  <2>3. Activated' = Activated BY <2>2
  <2> QED BY <2>1, <2>3 DEF Published!vars
<1>2. ASSUME NEW g \in Generations, CancelQueued(g) PROVE UNCHANGED Published!vars
  <2>1. UNCHANGED <<activeVersion, Mutable>> BY <1>2 DEF CancelQueued, OnlyDesiredIngestRuns, TypeOK
  <2>2. Activated' = Activated BY <1>2 DEF CancelQueued, TypeOK
  <2> QED BY <2>1, <2>2 DEF Published!vars
<1>3. ASSUME NEW g \in Generations, CancelRunning(g) PROVE UNCHANGED Published!vars
  BY <1>3 DEF CancelRunning, docVars, versionVars, TypeOK, Published!vars
<1>4. ASSUME NEW g \in Generations, NEW fresh \in Generations, RetryIngest(g, fresh)
      PROVE  UNCHANGED Published!vars
  <2>1. UNCHANGED <<activeVersion, Mutable>> BY <1>4 DEF RetryIngest
  <2>2. Activated' = Activated BY <1>4 DEF RetryIngest, TypeOK, CompletedKeepGeneration
  <2> QED BY <2>1, <2>2 DEF Published!vars
<1>5. ASSUME NEW j \in AclJobs, NEW a \in AclValues, ReplaceAcl(j, a)
      PROVE  UNCHANGED Published!vars
  BY <1>5 DEF ReplaceAcl, docVars, jobVars, Published!vars
<1>6. ASSUME DeleteRequest PROVE Published!Close
  <2>1. activeVersion' = activeVersion /\ ~Mutable' BY <1>6 DEF DeleteRequest
  <2>2. \A x \in Generations : jobStatus'[x] = "completed" <=> jobStatus[x] = "completed"
    BY <1>6 DEF DeleteRequest, StoppedJobs, TypeOK
  <2>3. Activated' = Activated BY <1>6, <2>2 DEF DeleteRequest, DeleteUnchanged
  <2> QED BY <2>1, <2>3 DEF Published!Close
<1>7. ASSUME NEW d \in DeleteJobs, NEW fresh \in DeleteJobs, DeleteRetry(d, fresh)
      PROVE  UNCHANGED Published!vars
  BY <1>7 DEF DeleteRetry, DeleteUnchanged, Published!vars
<1> QED BY <1>1, <1>2, <1>3, <1>4, <1>5, <1>6, <1>7 DEF Commands, Published!Next

\* The end of an ingest that did not activate: nothing a reader could tell.
LEMMA SettleRefines ==
  ASSUME LifecycleInv, TypeOK', NEW g \in Generations, Settles(g)
  PROVE  UNCHANGED Published!vars
<1> USE DEF Settles, Settle, DocumentFailure
<1>1. UNCHANGED <<activeVersion, Mutable>> BY DEF Mutable
<1>2. Activated' = Activated BY DEF LifecycleInv, TypeOK, Activated
<1> QED BY <1>1, <1>2 DEF Published!vars

\* The end of a delete withdraws the version.
LEMMA FinishRefines ==
  ASSUME LifecycleInv, TypeOK', NEW d \in DeleteJobs, DeleteFinish(d)
  PROVE  Published!Withdraw
<1> USE DEF DeleteFinish, DeleteUnchanged
<1>1. ~Mutable /\ UNCHANGED Mutable BY DEF LifecycleInv, DeletesAreFinal, Mutable, TypeOK
<1>2. activeVersion' = None /\ Activated' = Activated BY DEF Activated
<1>3. Activated \ {None} = (Activated \ {activeVersion}) \cup ({activeVersion} \ {None})
  BY ActiveWasActivated
<1> QED BY <1>1, <1>2, <1>3 DEF Published!Withdraw

\* Every step of the lifecycle is a step of the abstract document or invisible to it.
LEMMA NextRefines ==
  ASSUME LifecycleInv, LifecycleInv', [Next]_vars
  PROVE  [Published!Next]_(Published!vars)
<1>0. TypeOK' BY DEF LifecycleInv
<1>1. CASE UNCHANGED CoreVars
  BY <1>1 DEF CoreVars, docVars, Activated, Mutable, Published!vars
<1>2. CASE Commands BY <1>0, <1>2, CommandRefines
<1>3. ASSUME NEW g \in Generations, IngestBegin(g) \/ IngestPrepare(g)
      PROVE  UNCHANGED Published!vars
  <2>1. UNCHANGED <<activeVersion, Mutable>>
    BY <1>3 DEF IngestBegin, IngestPrepare, docVars, Mutable
  <2>2. Activated' = Activated
    BY <1>3 DEF IngestBegin, CanBegin, IngestPrepare, jobVars, LifecycleInv, TypeOK, Activated
  <2> QED BY <2>1, <2>2 DEF Published!vars
<1>4. ASSUME NEW g \in Generations, Settles(g) PROVE UNCHANGED Published!vars
  BY <1>0, <1>4, SettleRefines
<1>5. ASSUME NEW g \in Generations, IngestActivate(g) PROVE Published!Next
  BY <1>0, <1>5, ActivateRefines
<1>6. ASSUME NEW d \in DeleteJobs, DeleteDrain(d) PROVE UNCHANGED Published!vars
  <2>1. UNCHANGED <<activeVersion, Mutable>> BY <1>6 DEF DeleteDrain, docVars, Mutable
  <2>2. Activated' = Activated
    BY <1>6 DEF DeleteDrain, DeleteUnchanged, StoppedJobs, LifecycleInv, TypeOK, Activated
  <2> QED BY <2>1, <2>2 DEF Published!vars
<1>7. ASSUME NEW d \in DeleteJobs, DeleteFinish(d) PROVE Published!Next
  BY <1>0, <1>7, FinishRefines DEF Published!Next
<1> QED BY <1>1, <1>2, <1>3, <1>4, <1>5, <1>6, <1>7, CoreSteps

\* The lifecycle of a document, with all its workflows, retries and crashes, implements
\* the abstract document: one published version at a time, replaced in one step, a
\* replaced version never back, nothing published once a delete is accepted.
THEOREM LifecycleRefinesPublished == Spec => ImplementsPublished
<1>1. Init => Published!Init BY InitRefines
<1>2. LifecycleInv /\ LifecycleInv' /\ [Next]_vars => [Published!Next]_(Published!vars)
  BY NextRefines
<1> QED BY <1>1, <1>2, LifecycleInvariant, PTL DEF Spec, ImplementsPublished, Published!Spec

(***************************************************************************)
(* The points.  Each generation is looked at alone: what its workflow, its *)
(* job and its row of the queue say of its points.  Of the others it only  *)
(* matters which one is active, and that a completed job stays so.         *)
(***************************************************************************)
USE DEF OpenVersionStatuses, OpenJobStatuses, TerminalJobStatuses, JobStatuses,
        RetryableJobStatuses, EndedWf

\* Steps of the ingest that end before its activation.
Working == {"stage", "indexing", "upserting", "prepare", "visibility", "exposing"}

\* The workflow works for a job that runs or was asked to stop, and only such a
\* job has points written for it.
WritesForItsJob(g) ==
    /\ wf[g] \in Working => jobStatus[g] \in {"running", "cancelling"}
    /\ genVer[g] = None => jobStatus[g] = "none" /\ wf[g] = "none"
    /\ jobStatus[g] \in {"none", "queued"} => pointVis[g] = "none"

\* A row of the queue is of a generation whose job has ended and which is not
\* active; its job and that job's workflow come after it.
QueuedWhenOver(g) ==
    /\ sweep[g] # "none" => jobStatus[g] \in TerminalJobStatuses /\ g \notin ActiveGenerations
    /\ cleanJob[g] # "none" => sweep[g] # "none"
    /\ cleanWf[g] # "none" => cleanJob[g] # "none"

\* What the cleanup says it has erased is erased, and what is over and not
\* erased is active or queued.
Accounted(g) ==
    /\ sweep[g] = "deleted" \/ cleanWf[g] = "finish" \/ cleanJob[g] = "completed"
         => pointVis[g] = "none"
    /\ pointVis[g] # "none" /\ jobStatus[g] \in TerminalJobStatuses
         => g \in ActiveGenerations \/ sweep[g] \in {"pending", "sweeping", "error"}

\* From its exposure on a generation is visible: while its activation is due,
\* and while it is active.  The one its activation replaced is neither.
Exposed(g) ==
    /\ wf[g] = "activate" /\ Mutable /\ jobStatus[g] = "running"
         => pointVis[g] = "active" /\ pointAcl[g] = wfAcl[g]
    /\ Mutable /\ g \in ActiveGenerations => pointVis[g] = "active"
    /\ jobPrev[g] # None =>
          jobStatus[jobPrev[g]] = "completed" /\ jobPrev[g] \notin ActiveGenerations

GenerationInv(g) == WritesForItsJob(g) /\ QueuedWhenOver(g) /\ Accounted(g) /\ Exposed(g)

\* No ingest can write any more, and nothing is left of what was written.
Stopped == \A g \in Generations : jobStatus[g] \notin OpenJobStatuses
Erased == \A g \in Generations : pointVis[g] = "none"

\* What a delete workflow has done when it is where it is.
DeleteDone(d) ==
    /\ delWf[d] \in {"targets", "generations", "vectors", "storage", "finish"} => Stopped
    /\ delWf[d] \in {"storage", "finish"} => Erased
    /\ delWf[d] = "finish" => stored = {}
    /\ delStatus[d] = "completed" => docStatus = "deleted"

DeletionInv ==
    /\ \A d \in DeleteJobs : DeleteDone(d)
    /\ docStatus = "deleted" => Stopped /\ Erased /\ stored = {}

PointsInv == (\A g \in Generations : GenerationInv(g)) /\ DeletionInv

\* If the present ACL is the projected one, the active points carry it.
ActiveAclCurrent ==
    Mutable /\ acl = projected => \A g \in ActiveGenerations : pointAcl[g] = acl

\* A projection of the present ACL is due.
ProjectionDue == \E j \in AclJobs : aclFp[j] = acl /\ aclStatus[j] \notin {"none", "completed"}

\* What no step does, but for an activation and the end of a delete, which
\* change what is active.
Steady ==
    /\ ActiveGenerations' = ActiveGenerations
    /\ Mutable' => Mutable
    /\ \A h \in Generations : jobStatus[h] = "completed" => jobStatus'[h] = "completed"

\* A step leaves what is known of one generation alone.
SameRow(x) ==
    /\ wf'[x] = wf[x] /\ wfAcl'[x] = wfAcl[x]
    /\ genVer'[x] = genVer[x] /\ jobStatus'[x] = jobStatus[x] /\ jobPrev'[x] = jobPrev[x]
    /\ pointVis'[x] = pointVis[x] /\ pointAcl'[x] = pointAcl[x]
    /\ sweep'[x] = sweep[x] /\ cleanJob'[x] = cleanJob[x] /\ cleanWf'[x] = cleanWf[x]

\* The one active generation is the active version's, and its job has completed.
LEMMA ActiveIs ==
    ASSUME LifecycleInv
    PROVE  \A g \in Generations :
              /\ g \in ActiveGenerations <=> activeVersion # None /\ g = verGen[activeVersion]
              /\ g \in ActiveGenerations => jobStatus[g] = "completed"
BY DEF ActiveGenerations, LifecycleInv, PointerSound

CompletedStay ==
    \A h \in Generations : jobStatus[h] = "completed" => jobStatus'[h] = "completed"

\* No step makes a document mutable again, none reopens a completed job, and
\* once a document is going away none opens a job.
LEMMA NothingReopens ==
    ASSUME LifecycleInv, [Next]_vars
    PROVE  /\ Mutable' => Mutable
           /\ CompletedStay
           /\ ~Mutable /\ Stopped => Stopped'
<1> USE DEF LifecycleInv, TypeOK, Stopped, CompletedStay
<1>1. CASE UNCHANGED CoreVars  BY <1>1 DEF CoreVars, docVars, Mutable
<1>2. CASE Commands
  <2>1. ASSUME NEW v \in Versions, NEW g \in Generations, CreateVersion(v, g)
        PROVE  Mutable /\ CompletedStay
    BY <2>1, LifecycleAssumption DEF CreateVersion, StoppedJobs, CompletedKeepGeneration
  <2>2. ASSUME NEW g \in Generations, CancelQueued(g)
        PROVE  Mutable /\ CompletedStay
    BY <2>2 DEF CancelQueued, OnlyDesiredIngestRuns
  <2>3. ASSUME NEW g \in Generations, CancelRunning(g)
        PROVE  Mutable /\ CompletedStay
    BY <2>3 DEF CancelRunning, OnlyDesiredIngestRuns
  <2>4. ASSUME NEW g \in Generations, NEW fresh \in Generations, RetryIngest(g, fresh)
        PROVE  Mutable /\ CompletedStay
    BY <2>4, LifecycleAssumption DEF RetryIngest, CompletedKeepGeneration
  <2>5. CASE \E j \in AclJobs, a \in AclValues : ReplaceAcl(j, a)
    BY <2>5 DEF ReplaceAcl, docVars, jobVars, Mutable
  <2>6. CASE DeleteRequest  BY <2>6 DEF DeleteRequest, StoppedJobs, Mutable
  <2>7. CASE \E d, fresh \in DeleteJobs : DeleteRetry(d, fresh)  BY <2>7 DEF DeleteRetry, Mutable
  <2> QED  BY <1>2, <2>1, <2>2, <2>3, <2>4, <2>5, <2>6, <2>7 DEF Commands
<1>3. ASSUME NEW g \in Generations, IngestBegin(g) \/ IngestPrepare(g) \/ IngestActivate(g)
      PROVE  Mutable /\ CompletedStay
  BY <1>3 DEF IngestBegin, CanBegin, IngestPrepare, CanPrepare, IngestActivate, CanActivate,
    ActivatedJobs, jobVars
<1>4. ASSUME NEW g \in Generations, Settles(g)
      PROVE  /\ Mutable' => Mutable
             /\ CompletedStay
             /\ Stopped => Stopped'
  BY <1>4 DEF Settles, Settle, DocumentFailure, Mutable
<1>5. ASSUME NEW d \in DeleteJobs, DeleteDrain(d) \/ DeleteFinish(d)
      PROVE  /\ Mutable' => Mutable
             /\ CompletedStay
             /\ Stopped => Stopped'
  BY <1>5 DEF DeleteDrain, DeleteFinish, StoppedJobs, docVars, Mutable
<1> QED  BY <1>1, <1>2, <1>3, <1>4, <1>5, CoreSteps

\* The steps that leave what is active alone.
Calm ==
    \/ UNCHANGED CoreVars
    \/ Commands
    \/ \E g \in Generations : IngestBegin(g) \/ IngestPrepare(g) \/ Settles(g)
    \/ \E d \in DeleteJobs : DeleteDrain(d)

\* Only an activation and the end of a delete change the active generation: a
\* version gets another one while it is not active.
LEMMA ActiveKept ==
    ASSUME LifecycleInv, [Next]_vars, Calm
    PROVE  Steady
<1> USE DEF LifecycleInv, TypeOK
<1>1. activeVersion' = activeVersion
      /\ (activeVersion # None => verGen'[activeVersion] = verGen[activeVersion])
  <2>1. CASE UNCHANGED CoreVars  BY <2>1 DEF CoreVars, docVars, versionVars
  <2>2. ASSUME NEW v \in Versions, NEW g \in Generations, CreateVersion(v, g)
        PROVE  activeVersion' = activeVersion
               /\ (activeVersion # None => verGen'[activeVersion] = verGen[activeVersion])
    BY <2>2, LifecycleAssumption DEF CreateVersion, VersionsOwnGenerations, PointerSound
  <2>3. ASSUME NEW g \in Generations, NEW fresh \in Generations, RetryIngest(g, fresh)
        PROVE  activeVersion' = activeVersion
               /\ (activeVersion # None => verGen'[activeVersion] = verGen[activeVersion])
    BY <2>3, LifecycleAssumption DEF RetryIngest, LatestIsDesired, PointerSound
  <2>4. CASE \/ \E g \in Generations : CancelQueued(g) \/ CancelRunning(g)
             \/ \E j \in AclJobs, a \in AclValues : ReplaceAcl(j, a)
             \/ DeleteRequest \/ \E d, fresh \in DeleteJobs : DeleteRetry(d, fresh)
    BY <2>4 DEF CancelQueued, CancelRunning, ReplaceAcl, DeleteRequest, DeleteRetry,
      DeleteUnchanged, docVars, versionVars
  <2>5. CASE \/ \E g \in Generations : IngestBegin(g) \/ IngestPrepare(g) \/ Settles(g)
             \/ \E d \in DeleteJobs : DeleteDrain(d)
    BY <2>5 DEF IngestBegin, IngestPrepare, Settles, Settle, DeleteDrain, DeleteUnchanged, docVars
  <2> QED  BY <2>1, <2>2, <2>3, <2>4, <2>5 DEF Calm, Commands
<1>2. ActiveGenerations' = ActiveGenerations  BY <1>1 DEF ActiveGenerations
<1> QED  BY <1>2, NothingReopens DEF Steady, CompletedStay

\* What holds of a generation that a steady step leaves alone.
LEMMA Alone ==
    ASSUME LifecycleInv, NEW x \in Generations, GenerationInv(x), Steady, SameRow(x)
    PROVE  GenerationInv(x)'
<1> USE DEF LifecycleInv, TypeOK, Steady, SameRow
<1>1. WritesForItsJob(x)'  BY DEF GenerationInv, WritesForItsJob
<1>2. QueuedWhenOver(x)'  BY DEF GenerationInv, QueuedWhenOver
<1>3. Accounted(x)'  BY DEF GenerationInv, Accounted
<1>4. Exposed(x)'  BY DEF GenerationInv, Exposed
<1> QED  BY <1>1, <1>2, <1>3, <1>4 DEF GenerationInv

\* A steady step of one generation has to keep what is known of that one.
LEMMA OneGeneration ==
    ASSUME LifecycleInv, PointsInv, Steady, NEW g \in Generations,
           \A x \in Generations \ {g} : SameRow(x), GenerationInv(g)'
    PROVE  \A x \in Generations : GenerationInv(x)'
BY Alone DEF PointsInv

\* A step that moves one workflow of a job that exists, and neither starts work
\* for a job that is over nor reaches an activation.
LEMMA MovedOnly ==
    ASSUME LifecycleInv, PointsInv, TypeOK', Steady, NEW g \in Generations,
           UNCHANGED <<genVer, jobStatus, jobPrev, pointVis, pointAcl, sweep, cleanJob, cleanWf>>,
           \A x \in Generations \ {g} : wf'[x] = wf[x] /\ wfAcl'[x] = wfAcl[x],
           wf[g] # "none" \/ jobStatus[g] # "none",
           wf'[g] \in Working => jobStatus[g] \in {"running", "cancelling"},
           wf'[g] = "activate" => wf[g] = "activate" /\ wfAcl'[g] = wfAcl[g]
    PROVE  \A x \in Generations : GenerationInv(x)'
<1>1. \A x \in Generations \ {g} : SameRow(x)  BY DEF SameRow
<1> USE DEF LifecycleInv, TypeOK, PointsInv, GenerationInv, Steady
<1>2. WritesForItsJob(g)'  BY DEF WritesForItsJob
<1>3. QueuedWhenOver(g)'  BY DEF QueuedWhenOver
<1>4. Accounted(g)'  BY DEF Accounted
<1>5. Exposed(g)'  BY DEF Exposed
<1> HIDE DEF LifecycleInv, TypeOK, PointsInv, Steady
<1>6. GenerationInv(g)'  BY <1>2, <1>3, <1>4, <1>5
<1> HIDE DEF GenerationInv
<1> QED  BY <1>1, <1>6, OneGeneration

\* The end of an ingest that did not activate queues its points.
LEMMA SettledPoints ==
    ASSUME LifecycleInv, PointsInv, TypeOK', Steady, NEW g \in Generations, Settles(g),
           wf[g] # "none", wf'[g] \notin Working \cup {"activate"},
           \A x \in Generations \ {g} : wf'[x] = wf[x]
    PROVE  \A x \in Generations : GenerationInv(x)'
<1> USE DEF Settles, Settle, QueueFailedStaging, pointVars
<1>1. \A x \in Generations \ {g} : SameRow(x)
  BY DEF SameRow, LifecycleInv, TypeOK
<1>2. g \notin ActiveGenerations /\ g \notin ActiveGenerations'
  BY ActiveIs DEF Steady
<1>3. jobStatus'[g] \in {"failed", "cancelled"}  BY DEF LifecycleInv, TypeOK
<1> USE DEF LifecycleInv, TypeOK, PointsInv, GenerationInv
<1>4. WritesForItsJob(g)'  BY <1>3 DEF WritesForItsJob
<1>5. QueuedWhenOver(g)'  BY <1>2, <1>3 DEF QueuedWhenOver
<1>6. Accounted(g)'  BY <1>2, <1>3 DEF Accounted, QueuedWhenOver
<1>7. Exposed(g)'  BY <1>2, <1>3 DEF Exposed, Steady
<1>8. GenerationInv(g)'  BY <1>4, <1>5, <1>6, <1>7
<1> HIDE DEF LifecycleInv, TypeOK, PointsInv, GenerationInv
<1> QED  BY <1>1, <1>8, OneGeneration

\* The upsert and the exposure write the points of a job that is not over.
LEMMA WrittenPoints ==
    ASSUME LifecycleInv, PointsInv, TypeOK', Steady, NEW g \in Generations,
           IngestUpsert(g) \/ IngestExpose(g)
    PROVE  \A x \in Generations : GenerationInv(x)'
<1> USE DEF IngestUpsert, IngestExpose, Checkpoint, jobVars, cleanVars
<1>1. \A x \in Generations \ {g} : SameRow(x)
  BY DEF SameRow, LifecycleInv, TypeOK
<1>2. jobStatus[g] \in {"running", "cancelling"} /\ jobStatus' = jobStatus
  BY DEF PointsInv, GenerationInv, WritesForItsJob, Working
<1>3. g \notin ActiveGenerations /\ g \notin ActiveGenerations'
  BY <1>2, ActiveIs DEF Steady
<1> USE DEF LifecycleInv, TypeOK, PointsInv, GenerationInv
<1>4. WritesForItsJob(g)'  BY <1>2 DEF WritesForItsJob, Working
<1>5. QueuedWhenOver(g)'  BY <1>2, <1>3 DEF QueuedWhenOver
<1>6. Accounted(g)'  BY <1>2, <1>3 DEF Accounted, QueuedWhenOver
<1>7. Exposed(g)'  BY <1>2, <1>3 DEF Exposed, Steady
<1>8. GenerationInv(g)'  BY <1>4, <1>5, <1>6, <1>7
<1> HIDE DEF LifecycleInv, TypeOK, PointsInv, GenerationInv
<1> QED  BY <1>1, <1>8, OneGeneration

\* begin moves an open job on; it has no points yet, or those of a run before.
LEMMA BegunPoints ==
    ASSUME LifecycleInv, PointsInv, TypeOK', Steady, NEW g \in Generations, IngestBegin(g)
    PROVE  \A x \in Generations : GenerationInv(x)'
<1> USE DEF IngestBegin, CanBegin, Checkpoint, pointVars, cleanVars
<1>1. \A x \in Generations \ {g} : SameRow(x)
  BY DEF SameRow, LifecycleInv, TypeOK
<1>2. jobStatus[g] \in {"queued", "running"} /\ jobStatus'[g] = "running"
  BY DEF LifecycleInv, TypeOK
<1>3. g \notin ActiveGenerations /\ g \notin ActiveGenerations'
  BY <1>2, ActiveIs DEF Steady
<1> USE DEF LifecycleInv, TypeOK, PointsInv, GenerationInv
<1>4. WritesForItsJob(g)'  BY <1>2 DEF WritesForItsJob, Working
<1>5. QueuedWhenOver(g)'  BY <1>2, <1>3 DEF QueuedWhenOver
<1>6. Accounted(g)'  BY <1>2, <1>3 DEF Accounted, QueuedWhenOver
<1>7. Exposed(g)'  BY <1>2, <1>3 DEF Exposed, Steady
<1>8. GenerationInv(g)'  BY <1>4, <1>5, <1>6, <1>7
<1> HIDE DEF LifecycleInv, TypeOK, PointsInv, GenerationInv
<1> QED  BY <1>1, <1>8, OneGeneration

\* An activation: the exposed generation takes the place of the active one, which
\* had no row of the queue and gets one.
LEMMA ActivatedPoints ==
    ASSUME LifecycleInv, PointsInv, TypeOK', NEW g \in Generations, IngestActivate(g)
    PROVE  \A x \in Generations : GenerationInv(x)'
<1> USE DEF IngestActivate, CanActivate, ActivatedJobs, QueueSuperseded, Replaced,
        PreviousGeneration, InScope, Checkpoint, pointVars
<1> DEFINE v == genVer[g]
<1>1. v \in Versions /\ verGen[v] = g /\ jobStatus[g] = "running" /\ Mutable
      /\ Mutable' /\ jobStatus'[g] = "completed" /\ activeVersion # v
  <2>1. v \in Versions /\ verGen[v] = g /\ jobStatus[g] = "running" /\ Mutable /\ Mutable'
    BY DEF LifecycleInv, TypeOK, Mutable
  <2>2. jobStatus'[g] = "completed"  BY DEF LifecycleInv, TypeOK
  <2>3. activeVersion # v  BY <2>1, LifecycleAssumption DEF LifecycleInv, PointerSound
  <2> QED  BY <2>1, <2>2, <2>3
<1>2. ActiveGenerations' = {g}
  BY <1>1, LifecycleAssumption DEF LifecycleInv, TypeOK, ActiveGenerations
<1>3. g \notin ActiveGenerations  BY <1>1, ActiveIs
<1>4. ActiveGenerations = {verGen[x] : x \in Replaced(g)}
  BY <1>1 DEF ActiveGenerations
<1>5. \A x \in Generations :
         sweep'[x] = IF x \in ActiveGenerations THEN "pending"
                   ELSE IF x = g THEN "none" ELSE sweep[x]
  BY <1>4 DEF PointsInv, GenerationInv, QueuedWhenOver
<1>6. jobPrev'[g] \in ActiveGenerations \cup {None}
  BY <1>1 DEF LifecycleInv, TypeOK, ActiveGenerations
<1>7. sweep[g] = "none" /\ cleanJob[g] = "none" /\ cleanWf[g] = "none"
      /\ pointVis[g] = "active" /\ pointAcl[g] = wfAcl[g]
  BY <1>1 DEF PointsInv, GenerationInv, QueuedWhenOver, Exposed
<1>8. \A x \in Generations :
         jobStatus'[x] = IF x = g THEN "completed" ELSE jobStatus[x]
  BY DEF LifecycleInv, TypeOK
<1>9. GenerationInv(g)'
  <2>1. wf'[g] \notin Working  BY DEF LifecycleInv, TypeOK, Working
  <2>2. WritesForItsJob(g)'  BY <1>1, <2>1, LifecycleAssumption
         DEF WritesForItsJob, LifecycleInv, TypeOK
  <2>3. QueuedWhenOver(g)'  BY <1>3, <1>5, <1>7 DEF QueuedWhenOver
  <2>4. Accounted(g)'  BY <1>2, <1>3, <1>5, <1>7 DEF Accounted
  <2>5. Exposed(g)'  BY <1>1, <1>2, <1>3, <1>6, <1>7, <1>8, ActiveIs
         DEF Exposed, LifecycleInv, TypeOK, ActiveGenerations
  <2> QED  BY <2>2, <2>3, <2>4, <2>5 DEF GenerationInv
<1>10. ASSUME NEW x \in Generations, x # g  PROVE GenerationInv(x)'
  <2>1. wf'[x] = wf[x] /\ jobPrev'[x] = jobPrev[x] /\ genVer'[x] = genVer[x]
        /\ jobStatus'[x] = jobStatus[x] /\ pointVis'[x] = pointVis[x] /\ pointAcl'[x] = pointAcl[x]
        /\ wfAcl'[x] = wfAcl[x] /\ cleanJob'[x] = cleanJob[x] /\ cleanWf'[x] = cleanWf[x]
        /\ x \notin ActiveGenerations'
    BY <1>2, <1>10 DEF LifecycleInv, TypeOK
  <2>2. x \in ActiveGenerations => sweep[x] = "none" /\ jobStatus[x] = "completed"
    BY ActiveIs DEF PointsInv, GenerationInv, QueuedWhenOver
  <2> USE DEF PointsInv, GenerationInv
  <2>3. WritesForItsJob(x)'  BY <2>1 DEF WritesForItsJob
  <2>4. QueuedWhenOver(x)'  BY <1>5, <1>10, <2>1, <2>2 DEF QueuedWhenOver
  <2>5. Accounted(x)'  BY <1>5, <1>10, <2>1, <2>2 DEF Accounted, QueuedWhenOver
  <2>6. Exposed(x)'
    <3>1. jobPrev[x] # None => jobPrev[x] # g  BY <1>1 DEF Exposed
    <3> QED  BY <1>1, <1>2, <1>8, <2>1, <3>1 DEF Exposed, LifecycleInv, TypeOK
  <2> HIDE DEF PointsInv
  <2> QED  BY <2>3, <2>4, <2>5, <2>6
<1> QED  BY <1>9, <1>10

\* The generation an activation replaced is hidden after it; it is not active.
LEMMA HiddenPoints ==
    ASSUME LifecycleInv, PointsInv, TypeOK', Steady, NEW g \in Generations, IngestDeactivate(g)
    PROVE  \A x \in Generations : GenerationInv(x)'
<1>1. CASE GoTo(g, "done")
  BY <1>1, MovedOnly
      DEF IngestDeactivate, GoTo, jobVars, pointVars, cleanVars, Working, LifecycleInv, TypeOK
<1>2. CASE ~GoTo(g, "done") /\ jobPrev[g] = None
  <2>1. pointVis' = pointVis
    BY <1>2, LifecycleAssumption DEF IngestDeactivate, Hide, LifecycleInv, TypeOK
  <2>2. /\ UNCHANGED <<genVer, jobStatus, jobPrev, pointVis, pointAcl, sweep, cleanJob, cleanWf>>
        /\ \A x \in Generations \ {g} : wf'[x] = wf[x] /\ wfAcl'[x] = wfAcl[x]
        /\ wf[g] # "none" /\ wf'[g] \in {"deactivate", "done"}
    BY <1>2, <2>1 DEF IngestDeactivate, Checkpoint, jobVars, cleanVars, LifecycleInv, TypeOK
  <2>3. wf'[g] \notin Working /\ wf'[g] # "activate"  BY <2>2 DEF Working
  <2> QED  BY <2>2, <2>3, MovedOnly
<1>3. CASE ~GoTo(g, "done") /\ jobPrev[g] # None
  <2> USE <1>3 DEF IngestDeactivate, Hide, Checkpoint, jobVars, versionVars, cleanVars
  <2> DEFINE h == jobPrev[g]
  <2>1. h \in Generations /\ h \notin ActiveGenerations /\ jobStatus[h] = "completed"
        /\ pointVis[h] # "none" /\ wf[g] = "deactivate"
    BY DEF PointsInv, GenerationInv, Exposed, LifecycleInv, TypeOK
  <2>2. ASSUME NEW x \in Generations  PROVE GenerationInv(x)'
    <3>1. /\ wf'[x] = wf[x] \/ wf'[x] \notin Working \cup {"activate"}
          /\ wf[x] = "none" => x # g
          /\ jobPrev'[x] = jobPrev[x] /\ genVer'[x] = genVer[x] /\ jobStatus' = jobStatus
          /\ wfAcl'[x] = wfAcl[x] /\ pointAcl'[x] = pointAcl[x] /\ sweep'[x] = sweep[x]
          /\ cleanJob'[x] = cleanJob[x] /\ cleanWf'[x] = cleanWf[x]
          /\ x # g => wf'[x] = wf[x]
          /\ x # h => pointVis'[x] = pointVis[x]
          /\ x = h => pointVis'[x] = "inactive"
      BY <2>1 DEF LifecycleInv, TypeOK, Working
    <3>2. GenerationInv(x)  BY DEF PointsInv
    <3> HIDE <1>3 DEF IngestDeactivate, Hide, Checkpoint, h
    <3> USE DEF GenerationInv, Steady
    <3>3. WritesForItsJob(x)'  BY <2>1, <3>1, <3>2 DEF WritesForItsJob
    <3>4. QueuedWhenOver(x)'  BY <3>1, <3>2 DEF QueuedWhenOver
    <3>5. Accounted(x)'  BY <2>1, <3>1, <3>2 DEF Accounted
    <3>6. Exposed(x)'  BY <2>1, <3>1, <3>2 DEF Exposed
    <3> QED  BY <3>3, <3>4, <3>5, <3>6
  <2> QED  BY <2>2
<1> QED  BY <1>1, <1>2, <1>3

\* Every step of the ingest workflow keeps what is known of the points.
LEMMA IngestPoints ==
    ASSUME LifecycleInv, PointsInv, TypeOK', [Next]_vars, NEW g \in Generations,
           IngestStep(g) \/ IngestDispatch(g) \/ IngestReconcile(g) \/ IngestDies(g)
    PROVE  \A x \in Generations : GenerationInv(x)'
<1> USE DEF jobVars, pointVars, cleanVars, Working
<1>1. CASE IngestActivate(g)  BY <1>1, ActivatedPoints
<1>2. CASE IngestBegin(g)
  <2>1. Steady  BY <1>2, ActiveKept DEF Calm
  <2> QED  BY <1>2, <2>1, BegunPoints
<1>3. CASE IngestPrepare(g)
  <2>1. Steady  BY <1>3, ActiveKept DEF Calm
  <2>2. /\ UNCHANGED <<genVer, jobStatus, jobPrev, pointVis, pointAcl, sweep, cleanJob, cleanWf>>
        /\ \A x \in Generations \ {g} : wf'[x] = wf[x] /\ wfAcl'[x] = wfAcl[x]
        /\ wf[g] # "none" /\ wf'[g] # "activate" /\ jobStatus[g] = "running"
    BY <1>3 DEF IngestPrepare, CanPrepare, Checkpoint, LifecycleInv, TypeOK
  <2> QED  BY <2>1, <2>2, MovedOnly
<1>4. CASE IngestUpsert(g) \/ IngestExpose(g)
  <2>1. UNCHANGED CoreVars  BY <1>4 DEF IngestUpsert, IngestExpose, CoreVars
  <2>2. Steady  BY <2>1, ActiveKept DEF Calm
  <2> QED  BY <1>4, <2>2, WrittenPoints
<1>5. CASE IngestBeginCancelled(g) \/ IngestReconcile(g)
           \/ (IngestMarkError(g) /\ InScope(g) /\ jobStatus[g] # "completed")
  <2>1. Settles(g)
    BY <1>5
        DEF IngestBeginCancelled, IngestReconcile, Reconcilable, IngestMarkError, CancelSeen, Settles
  <2>2. wf[g] # "none" /\ wf'[g] \notin Working \cup {"activate"}
        /\ \A x \in Generations \ {g} : wf'[x] = wf[x]
    BY <1>5 DEF IngestBeginCancelled, IngestReconcile, Reconcilable, IngestMarkError,
      Checkpoint, LifecycleInv, TypeOK
  <2>3. Steady  BY <2>1, ActiveKept DEF Calm
  <2> QED  BY <2>1, <2>2, <2>3, SettledPoints
<1>6. CASE IngestDeactivate(g)
  <2>1. UNCHANGED CoreVars  BY <1>6 DEF IngestDeactivate, GoTo, CoreVars
  <2>2. Steady  BY <2>1, ActiveKept DEF Calm
  <2> QED  BY <1>6, <2>2, HiddenPoints
<1>7. CASE \/ IngestDispatch(g) \/ IngestBeginRefused(g) \/ IngestLoadScope(g)
           \/ IngestCheckBatch(g) \/ IngestPrepareRefused(g) \/ IngestLoadAcl(g) \/ IngestFails(g)
           \/ IngestActivateReplay(g) \/ IngestActivateRefused(g) \/ IngestDies(g)
           \/ (IngestMarkError(g) /\ ~(InScope(g) /\ jobStatus[g] # "completed"))
  <2> USE DEF GoTo, IngestDispatch, IngestBeginRefused, IngestLoadScope, IngestCheckBatch,
        IngestPrepareRefused, IngestLoadAcl, IngestFails, IngestActivateReplay,
        IngestActivateRefused, IngestDies, IngestMarkError
  <2>1. UNCHANGED CoreVars  BY <1>7 DEF CoreVars
  <2>2. Steady  BY <2>1, ActiveKept DEF Calm
  <2>3. UNCHANGED <<genVer, jobStatus, jobPrev, pointVis, pointAcl, sweep, cleanJob, cleanWf>>
    BY <1>7
  <2>4. /\ \A x \in Generations \ {g} : wf'[x] = wf[x] /\ wfAcl'[x] = wfAcl[x]
        /\ wf[g] # "none" \/ jobStatus[g] # "none"
    BY <1>7 DEF LifecycleInv, TypeOK
  <2>5. wf'[g] \in Working => wf[g] \in Working
    BY <1>7 DEF LifecycleInv, TypeOK
  <2>6. wf'[g] # "activate"
    BY <1>7 DEF LifecycleInv, TypeOK
  <2>7. wf'[g] \in Working => jobStatus[g] \in {"running", "cancelling"}
    BY <2>5 DEF PointsInv, GenerationInv, WritesForItsJob
  <2> HIDE DEF IngestDispatch, IngestBeginRefused, IngestLoadScope, IngestCheckBatch,
        IngestPrepareRefused, IngestLoadAcl, IngestFails, IngestActivateReplay,
        IngestActivateRefused, IngestDies, IngestMarkError
  <2> QED  BY <2>2, <2>3, <2>4, <2>6, <2>7, MovedOnly
<1> QED
  BY <1>1, <1>2, <1>3, <1>4, <1>5, <1>6, <1>7 DEF IngestStep

\* The queue and its workflow: what is being erased is neither active nor about
\* to be activated, and is called erased only after that.
LEMMA CleanupPoints ==
    ASSUME LifecycleInv, PointsInv, TypeOK', [Next]_vars, NEW g \in Generations,
           CleanupStep(g) \/ CleanupMaterialize(g) \/ CleanupDispatch(g)
           \/ CleanupReconcile(g) \/ CleanupRetry(g) \/ CleanupDeleteFails(g) \/ CleanupDies(g)
    PROVE  \A x \in Generations : GenerationInv(x)'
<1> USE DEF CleanupUnchanged, jobVars, wfVars, pointVars
<1>1. UNCHANGED <<docVars, versionVars, genVer, jobStatus, jobPrev, wf, wfAcl>>
  BY DEF CleanupStep, CleanupMarkSweeping, CleanupAlreadyDeleted, CleanupSweepRefused,
    CleanupDeletePoints, CleanupMarkDeleted, CleanupMarkError, CleanupMaterialize,
    CleanupDispatch, CleanupReconcile, CleanupRetry, CleanupDeleteFails, CleanupDies
<1>2. Steady
  <2>1. UNCHANGED CoreVars  BY <1>1 DEF CoreVars
  <2> QED  BY <2>1, ActiveKept DEF Calm
<1>3. /\ \A x \in Generations \ {g} :
            /\ sweep'[x] = sweep[x] /\ cleanJob'[x] = cleanJob[x] /\ cleanWf'[x] = cleanWf[x]
            /\ pointVis'[x] = pointVis[x] /\ pointAcl'[x] = pointAcl[x]
      /\ cleanWf[g] # "none" \/ cleanJob[g] # "none" \/ sweep[g] # "none"
  BY DEF CleanupStep, CleanupMarkSweeping, CleanupAlreadyDeleted, CleanupSweepRefused,
    CleanupDeletePoints, CleanupMarkDeleted, CleanupMarkError, CleanupMaterialize,
    CleanupDispatch, CleanupReconcile, CleanupRetry, CleanupDeleteFails, CleanupDies,
    Checkpoint, LifecycleInv, TypeOK
<1>4. \A x \in Generations \ {g} : SameRow(x)  BY <1>1, <1>3 DEF SameRow
<1>5. sweep[g] # "none" /\ jobStatus[g] \in TerminalJobStatuses /\ g \notin ActiveGenerations
  BY <1>3 DEF PointsInv, GenerationInv, QueuedWhenOver
<1>6. GenerationInv(g)  BY DEF PointsInv
<1> USE DEF GenerationInv
<1>7. WritesForItsJob(g)'
  <2>1. pointVis'[g] \in {"none", pointVis[g]}
    BY DEF CleanupStep, CleanupMarkSweeping, CleanupAlreadyDeleted, CleanupSweepRefused,
      CleanupDeletePoints, CleanupMarkDeleted, CleanupMarkError, CleanupMaterialize,
      CleanupDispatch, CleanupReconcile, CleanupRetry, CleanupDeleteFails, CleanupDies,
      Checkpoint, LifecycleInv, TypeOK
  <2> QED  BY <1>1, <1>6, <2>1 DEF WritesForItsJob
<1>8. Exposed(g)'  BY <1>1, <1>2, <1>5, <1>6 DEF Exposed, Steady, Working
<1>9. QueuedWhenOver(g)' /\ Accounted(g)'
  <2> USE <1>1, <1>2, <1>5, <1>6 DEF QueuedWhenOver, Accounted,
                             Steady, LifecycleInv, TypeOK, Checkpoint
  <2>1. CASE CleanupMarkSweeping(g)  BY <2>1 DEF CleanupMarkSweeping, CanSweep
  <2>2. CASE CleanupAlreadyDeleted(g)  BY <2>2 DEF CleanupAlreadyDeleted
  <2>3. CASE CleanupSweepRefused(g)  BY <2>3 DEF CleanupSweepRefused
  <2>4. CASE CleanupDeletePoints(g)  BY <2>4 DEF CleanupDeletePoints
  <2>5. CASE CleanupMarkDeleted(g)  BY <2>5 DEF CleanupMarkDeleted
  <2>6. CASE CleanupMarkError(g)  BY <2>6 DEF CleanupMarkError
  <2>7. CASE CleanupMaterialize(g)  BY <2>7 DEF CleanupMaterialize
  <2>8. CASE CleanupDispatch(g)  BY <2>8 DEF CleanupDispatch
  <2>9. CASE CleanupReconcile(g)  BY <2>9 DEF CleanupReconcile
  <2>10. CASE CleanupRetry(g)  BY <2>10 DEF CleanupRetry
  <2>11. CASE CleanupDeleteFails(g)  BY <2>11 DEF CleanupDeleteFails, Fault
  <2>12. CASE CleanupDies(g)  BY <2>12 DEF CleanupDies, Fault
  <2> QED
    BY <2>1, <2>2, <2>3, <2>4, <2>5, <2>6, <2>7, <2>8, <2>9, <2>10, <2>11, <2>12 DEF CleanupStep
<1>10. GenerationInv(g)'  BY <1>7, <1>8, <1>9
<1> HIDE DEF GenerationInv
<1> QED  BY <1>2, <1>4, <1>10, OneGeneration

\* A projection writes the ACL of the active points and nothing else of them.
LEMMA AclPoints ==
    ASSUME LifecycleInv, PointsInv, TypeOK', [Next]_vars, NEW j \in AclJobs,
           AclStep(j) \/ AclDispatch(j) \/ AclReconcile(j) \/ AclProjectRolledBack(j) \/ AclDies(j)
    PROVE  \A x \in Generations : GenerationInv(x)'
<1>1. UNCHANGED <<docVars, versionVars, jobVars, wfVars, pointVis, cleanVars>>
  BY DEF AclStep, AclUnchanged, AclProjectSuperseded, AclProject, AclProjectRefused,
    AclProjectReplay, AclMarkError, AclDispatch, AclReconcile, AclProjectRolledBack, AclDies
<1>2. \A x \in Generations : x \notin ActiveGenerations => pointAcl'[x] = pointAcl[x]
  BY DEF AclStep, AclUnchanged, AclProjectSuperseded, AclProject, AclProjectRefused,
    AclProjectReplay, AclMarkError, AclDispatch, AclReconcile, AclProjectRolledBack, AclDies,
    WriteAcl
<1>3. Steady
  <2>1. UNCHANGED CoreVars  BY <1>1 DEF CoreVars, jobVars
  <2> QED  BY <2>1, ActiveKept DEF Calm
<1>4. ASSUME NEW x \in Generations  PROVE GenerationInv(x)'
  <2>1. CASE x \notin ActiveGenerations
    <3>1. SameRow(x)  BY <1>1, <1>2, <2>1 DEF SameRow, jobVars, wfVars, cleanVars
    <3> QED  BY <1>3, <3>1, Alone DEF PointsInv
  <2>2. CASE x \in ActiveGenerations
    <3>1. jobStatus[x] = "completed"  BY <2>2, ActiveIs
    <3> USE DEF jobVars, wfVars, cleanVars, PointsInv, GenerationInv
    <3>2. WritesForItsJob(x)'  BY <1>1 DEF WritesForItsJob
    <3>3. QueuedWhenOver(x)'  BY <1>1, <1>3 DEF QueuedWhenOver, Steady
    <3>4. Accounted(x)'  BY <1>1, <1>3 DEF Accounted, Steady
    <3>5. Exposed(x)'  BY <1>1, <1>3, <3>1 DEF Exposed, Steady
    <3> QED  BY <3>2, <3>3, <3>4, <3>5
  <2> QED  BY <2>1, <2>2
<1> QED  BY <1>4

\* A step that stops jobs, and makes some of them, and cancels cleanup jobs: a
\* generation with a new job had none and no points.
LEMMA StoppedPoints ==
    ASSUME LifecycleInv, PointsInv, TypeOK', Steady, NEW x \in Generations,
           UNCHANGED <<jobPrev, wf, wfAcl, pointVis, pointAcl, sweep, cleanWf>>,
           genVer'[x] = None => genVer[x] = None /\ jobStatus'[x] = jobStatus[x],
           \/ jobStatus'[x] = jobStatus[x]
           \/ jobStatus[x] = "queued" /\ jobStatus'[x] = "cancelled"
           \/ jobStatus[x] = "running" /\ jobStatus'[x] = "cancelling"
           \/ jobStatus[x] = "none" /\ jobStatus'[x] = "queued" /\ genVer[x] = None,
           cleanJob[x] = "none" <=> cleanJob'[x] = "none",
           cleanJob'[x] = "completed" => cleanJob[x] = "completed"
    PROVE  GenerationInv(x)'
<1>0. GenerationInv(x)  BY DEF PointsInv
<1> USE DEF GenerationInv, Steady
<1>1. WritesForItsJob(x)'
  <2>1. wf'[x] \in Working => jobStatus'[x] \in {"running", "cancelling"}
    BY <1>0 DEF WritesForItsJob
  <2>2. genVer'[x] = None => jobStatus'[x] = "none" /\ wf'[x] = "none"
    BY <1>0 DEF WritesForItsJob
  <2>3. jobStatus'[x] \in {"none", "queued"} => pointVis'[x] = "none"
    BY <1>0 DEF WritesForItsJob
  <2> QED  BY <2>1, <2>2, <2>3 DEF WritesForItsJob
<1>2. QueuedWhenOver(x)'
  <2>1. sweep'[x] # "none" => jobStatus'[x] \in TerminalJobStatuses /\ x \notin ActiveGenerations'
    BY <1>0 DEF QueuedWhenOver
  <2>2. cleanJob'[x] # "none" => sweep'[x] # "none"  BY <1>0 DEF QueuedWhenOver
  <2>3. cleanWf'[x] # "none" => cleanJob'[x] # "none"  BY <1>0 DEF QueuedWhenOver
  <2> QED  BY <2>1, <2>2, <2>3 DEF QueuedWhenOver
<1>3. Accounted(x)'  BY <1>0 DEF Accounted, WritesForItsJob
<1>4. Exposed(x)'  BY <1>0 DEF Exposed, PointsInv, LifecycleInv, TypeOK
<1> QED  BY <1>1, <1>2, <1>3, <1>4

\* Every command keeps what is known of the points.
LEMMA CommandPoints ==
    ASSUME LifecycleInv, PointsInv, TypeOK', [Next]_vars, Commands, NEW x \in Generations
    PROVE  GenerationInv(x)'
<1> USE DEF docVars, jobVars, wfVars, pointVars, cleanVars
<1>1. Steady  BY ActiveKept DEF Calm
<1>2. GenerationInv(x)  BY DEF PointsInv
<1>3. genVer[x] = None => jobStatus[x] = "none"  BY <1>2 DEF GenerationInv, WritesForItsJob
<1>4. ASSUME NEW v \in Versions, NEW g \in Generations, CreateVersion(v, g)
      PROVE  GenerationInv(x)'
  <2>1. UNCHANGED <<jobPrev, wf, wfAcl, pointVis, pointAcl, sweep, cleanWf>>
    BY <1>4 DEF CreateVersion
  <2>2. /\ genVer'[x] = IF x = g THEN v ELSE genVer[x]
        /\ jobStatus'[x] = IF x = g THEN "queued" ELSE StoppedJobs[x]
        /\ genVer[g] = None
        /\ cleanJob'[x] = IF cleanJob[x] = "queued" THEN "cancelled"
                          ELSE IF cleanJob[x] = "running" THEN "cancelling" ELSE cleanJob[x]
    BY <1>4 DEF CreateVersion, StoppedJobs, LifecycleInv, TypeOK
  <2> QED  BY <1>1, <1>3, <2>1, <2>2, StoppedPoints, LifecycleAssumption DEF StoppedJobs
<1>5. ASSUME NEW g \in Generations, CancelQueued(g) \/ CancelRunning(g)
      PROVE  GenerationInv(x)'
  <2>1. UNCHANGED <<genVer, jobPrev, wf, wfAcl, pointVis, pointAcl, sweep, cleanJob, cleanWf>>
    BY <1>5 DEF CancelQueued, CancelRunning
  <2>2. \/ jobStatus'[x] = jobStatus[x]
        \/ jobStatus[x] = "queued" /\ jobStatus'[x] = "cancelled"
        \/ jobStatus[x] = "running" /\ jobStatus'[x] = "cancelling"
    BY <1>5 DEF CancelQueued, CancelRunning, LifecycleInv, TypeOK
  <2> QED  BY <1>1, <1>3, <2>1, <2>2, StoppedPoints
<1>6. ASSUME NEW g \in Generations, NEW fresh \in Generations, RetryIngest(g, fresh)
      PROVE  GenerationInv(x)'
  <2>1. UNCHANGED <<jobPrev, wf, wfAcl, pointVis, pointAcl, sweep, cleanJob, cleanWf>>
    BY <1>6 DEF RetryIngest
  <2>2. /\ genVer'[x] = IF x = fresh THEN genVer[g] ELSE genVer[x]
        /\ jobStatus'[x] = IF x = fresh THEN "queued" ELSE jobStatus[x]
        /\ genVer[fresh] = None /\ genVer[g] # None
    BY <1>6, LifecycleAssumption DEF RetryIngest, LifecycleInv, TypeOK
  <2> QED  BY <1>1, <1>3, <2>1, <2>2, StoppedPoints
<1>7. ASSUME NEW j \in AclJobs, NEW a \in AclValues, ReplaceAcl(j, a)
      PROVE  GenerationInv(x)'
  <2>1. SameRow(x)  BY <1>7 DEF ReplaceAcl, SameRow
  <2> QED  BY <1>1, <1>2, <2>1, Alone
<1>8. CASE DeleteRequest
  <2>1. UNCHANGED <<genVer, jobPrev, wf, wfAcl, pointVis, pointAcl, sweep, cleanJob, cleanWf>>
    BY <1>8 DEF DeleteRequest, DeleteUnchanged
  <2>2. jobStatus'[x] = StoppedJobs[x]  BY <1>8 DEF DeleteRequest
  <2> QED  BY <1>1, <1>3, <2>1, <2>2, StoppedPoints DEF StoppedJobs
<1>9. ASSUME NEW d \in DeleteJobs, NEW fresh \in DeleteJobs, DeleteRetry(d, fresh)
      PROVE  GenerationInv(x)'
  <2>1. SameRow(x)  BY <1>9 DEF DeleteRetry, DeleteUnchanged, SameRow
  <2> QED  BY <1>1, <1>2, <2>1, Alone
<1> QED  BY <1>4, <1>5, <1>6, <1>7, <1>8, <1>9 DEF Commands

\* Points erased by a delete, whose document is not mutable any more.
LEMMA ErasedPoints ==
    ASSUME LifecycleInv, PointsInv, TypeOK', Steady, ~Mutable, NEW x \in Generations,
           UNCHANGED <<genVer, jobStatus, jobPrev, wf, wfAcl, sweep, cleanJob, cleanWf>>,
           pointVis'[x] \in {"none", pointVis[x]}
    PROVE  GenerationInv(x)'
<1> USE DEF LifecycleInv, TypeOK, PointsInv, GenerationInv, Steady
<1>1. WritesForItsJob(x)'  BY DEF WritesForItsJob
<1>2. QueuedWhenOver(x)'  BY DEF QueuedWhenOver
<1>3. Accounted(x)'  BY DEF Accounted
<1>4. Exposed(x)'  BY DEF Exposed
<1> QED  BY <1>1, <1>2, <1>3, <1>4

\* Every step of a delete workflow keeps what is known of the points.
LEMMA DeletePoints ==
    ASSUME LifecycleInv, PointsInv, TypeOK', [Next]_vars, NEW d \in DeleteJobs,
           DeleteStep(d) \/ DeleteDispatch(d) \/ DeleteReconcile(d) \/ DeleteStepFails(d)
           \/ DeleteDies(d),
           NEW x \in Generations
    PROVE  GenerationInv(x)'
<1> USE DEF docVars, jobVars, wfVars, pointVars, cleanVars, DeleteUnchanged
<1>1. GenerationInv(x)  BY DEF PointsInv
<1>2. delWf[d] # "none" => ~Mutable  BY DEF LifecycleInv, DeletesAreFinal
<1>3. CASE DeleteDrain(d)
  <2>1. Steady  BY <1>3, ActiveKept DEF Calm
  <2>2. UNCHANGED <<genVer, jobPrev, wf, wfAcl, pointVis, pointAcl, sweep, cleanJob, cleanWf>>
        /\ jobStatus'[x] = StoppedJobs[x]
    BY <1>3 DEF DeleteDrain
  <2>3. genVer[x] = None => jobStatus[x] = "none"  BY <1>1 DEF GenerationInv, WritesForItsJob
  <2> QED  BY <2>1, <2>2, <2>3, StoppedPoints DEF StoppedJobs
<1>4. CASE DeleteFinish(d)
  <2>1. UNCHANGED <<genVer, jobStatus, jobPrev, wf, wfAcl, pointVis, pointAcl, cleanJob, cleanWf>>
        /\ sweep'[x] = (IF sweep[x] = "none" THEN "none" ELSE "deleted")
        /\ ActiveGenerations' = {} /\ ~Mutable'
    BY <1>4 DEF DeleteFinish, ActiveGenerations, Mutable
  <2>2. pointVis[x] = "none"
    BY <1>4 DEF DeleteFinish, PointsInv, DeletionInv, DeleteDone, Erased
  <2> USE DEF GenerationInv
  <2>3. WritesForItsJob(x)'  BY <1>1, <2>1 DEF WritesForItsJob
  <2>4. QueuedWhenOver(x)'  BY <1>1, <2>1 DEF QueuedWhenOver
  <2>5. Accounted(x)'  BY <2>1, <2>2 DEF Accounted
  <2>6. Exposed(x)'  BY <1>1, <2>1 DEF Exposed
  <2> QED  BY <2>3, <2>4, <2>5, <2>6
<1>5. CASE DeleteVectors(d) \/ \E g \in Generations : DeleteGeneration(d, g)
  <2>1. UNCHANGED CoreVars  BY <1>5 DEF DeleteVectors, DeleteGeneration, CoreVars, versionVars
  <2>2. Steady  BY <2>1, ActiveKept DEF Calm
  <2>3. UNCHANGED <<genVer, jobStatus, jobPrev, wf, wfAcl, sweep, cleanJob, cleanWf>> /\ ~Mutable
    BY <1>2, <1>5 DEF DeleteVectors, DeleteGeneration
  <2>4. pointVis'[x] \in {"none", pointVis[x]}
    BY <1>5 DEF DeleteVectors, DeleteGeneration, LifecycleInv, TypeOK
  <2> QED  BY <2>2, <2>3, <2>4, ErasedPoints
<1>6. CASE \/ DeleteStart(d) \/ DeleteStartReplay(d) \/ DeleteDrainTimeout(d)
           \/ DeleteLoadTargets(d) \/ DeleteGenerationsDone(d) \/ DeleteStorageDone(d)
           \/ DeleteFinishReplay(d) \/ DeleteMarkError(d) \/ DeleteDispatch(d)
           \/ DeleteReconcile(d) \/ DeleteStepFails(d) \/ DeleteDies(d)
           \/ \E v \in Versions : DeleteStorageKey(d, v)
  <2> USE DEF DeleteGoTo, versionVars, DeleteStart, DeleteStartReplay, DeleteDrainTimeout,
        DeleteLoadTargets, DeleteGenerationsDone, DeleteStorageDone, DeleteFinishReplay,
        DeleteMarkError, DeleteDispatch, DeleteReconcile, DeleteStepFails, DeleteDies,
        DeleteStorageKey
  <2>1. UNCHANGED CoreVars  BY <1>6 DEF CoreVars
  <2>2. SameRow(x)  BY <1>6 DEF SameRow
  <2>3. Steady  BY <2>1, ActiveKept DEF Calm
  <2> QED  BY <1>1, <2>2, <2>3, Alone
<1> QED  BY <1>3, <1>4, <1>5, <1>6 DEF DeleteStep

\* Every step keeps what is known of the points of each generation.
LEMMA GenerationsNext ==
    ASSUME LifecycleInv, PointsInv, [Next]_vars
    PROVE  \A x \in Generations : GenerationInv(x)'
<1>1. TypeOK'  BY NextType DEF LifecycleInv
<1>2. CASE Commands  BY <1>1, <1>2, CommandPoints
<1>3. CASE Workflows
  BY <1>1, <1>3, IngestPoints, CleanupPoints, AclPoints, DeletePoints DEF Workflows
<1>4. CASE Failures
  BY <1>1, <1>4, IngestPoints, CleanupPoints, AclPoints, DeletePoints DEF Failures
<1>5. CASE UNCHANGED vars
  <2>1. UNCHANGED CoreVars  BY <1>5 DEF vars, CoreVars, jobVars
  <2>2. Steady  BY <2>1, ActiveKept DEF Calm
  <2>3. \A x \in Generations : SameRow(x)
    BY <1>5 DEF vars, SameRow, jobVars, wfVars, pointVars, cleanVars
  <2> QED  BY <2>2, <2>3, Alone DEF PointsInv
<1> QED  BY <1>2, <1>3, <1>4, <1>5 DEF Next

(***************************************************************************)
(* What a delete has done stays done.                                       *)
(***************************************************************************)

\* Once no ingest is open in a document that is going away, no points appear.
LEMMA ErasedStays ==
    ASSUME LifecycleInv, PointsInv, [Next]_vars, Stopped, Erased
    PROVE  Erased'
<1> USE DEF Erased, LifecycleInv, TypeOK
<1>1. ASSUME NEW g \in Generations,
             IngestStep(g) \/ IngestDispatch(g) \/ IngestReconcile(g) \/ IngestDies(g)
      PROVE  Erased'
  <2>1. wf[g] \notin Working
    BY DEF Stopped, PointsInv, GenerationInv, WritesForItsJob
  <2>2. ~IngestUpsert(g) /\ ~IngestExpose(g)
    BY <2>1 DEF Working, IngestUpsert, IngestExpose
  <2>3. UNCHANGED pointVis
    BY <1>1, <2>2, LifecycleAssumption DEF IngestStep, IngestReconcile, IngestBeginCancelled,
      IngestMarkError, GoTo, Settle, pointVars, Hide,
      IngestDispatch, IngestBegin, IngestBeginRefused, IngestLoadScope, IngestCheckBatch,
      IngestPrepare, IngestPrepareRefused, IngestLoadAcl, IngestFails, IngestActivate,
      IngestActivateReplay, IngestActivateRefused, IngestDeactivate, IngestDies
  <2> QED  BY <2>3
<1>2. ASSUME NEW g \in Generations,
             CleanupStep(g) \/ CleanupMaterialize(g) \/ CleanupDispatch(g)
             \/ CleanupReconcile(g) \/ CleanupRetry(g) \/ CleanupDeleteFails(g) \/ CleanupDies(g)
      PROVE  Erased'
  BY <1>2 DEF CleanupStep, CleanupUnchanged, pointVars,
    CleanupMarkSweeping, CleanupAlreadyDeleted, CleanupSweepRefused, CleanupDeletePoints,
    CleanupMarkDeleted, CleanupMarkError, CleanupMaterialize,
    CleanupDispatch, CleanupReconcile, CleanupRetry, CleanupDeleteFails, CleanupDies
<1>3. ASSUME NEW j \in AclJobs,
             AclStep(j) \/ AclDispatch(j) \/ AclReconcile(j) \/ AclProjectRolledBack(j)
             \/ AclDies(j)
      PROVE  Erased'
  BY <1>3 DEF AclStep, AclUnchanged,
    AclProjectSuperseded, AclProject, AclProjectRefused, AclProjectReplay, AclMarkError,
    AclDispatch, AclReconcile, AclProjectRolledBack, AclDies
<1>4. ASSUME NEW d \in DeleteJobs,
             DeleteStep(d) \/ DeleteDispatch(d) \/ DeleteReconcile(d) \/ DeleteStepFails(d)
             \/ DeleteDies(d)
      PROVE  Erased'
  BY <1>4 DEF DeleteStep, DeleteGoTo, DeleteUnchanged, pointVars, DeleteGeneration,
    DeleteStorageKey, DeleteDrain, DeleteFinish,
    DeleteStart, DeleteStartReplay, DeleteDrainTimeout, DeleteLoadTargets,
    DeleteGenerationsDone, DeleteVectors, DeleteStorageDone, DeleteFinishReplay,
    DeleteMarkError, DeleteDispatch, DeleteReconcile, DeleteStepFails, DeleteDies
<1>5. CASE Commands
  BY <1>5 DEF Commands, pointVars, CreateVersion, CancelQueued, CancelRunning, RetryIngest,
    ReplaceAcl, DeleteRequest, DeleteRetry
<1>6. CASE UNCHANGED vars  BY <1>6 DEF vars, pointVars
<1> QED  BY <1>1, <1>2, <1>3, <1>4, <1>5, <1>6 DEF Next, Workflows, Failures

\* A document that is going away gets no originals, and a deleted one stays so.
LEMMA GoneStays ==
    ASSUME LifecycleInv, [Next]_vars, ~Mutable
    PROVE  /\ stored = {} => stored' = {}
           /\ docStatus = "deleted" => docStatus' = "deleted"
<1>1. ASSUME NEW g \in Generations,
             IngestStep(g) \/ IngestDispatch(g) \/ IngestReconcile(g) \/ IngestDies(g)
      PROVE  stored' = stored /\ (docStatus = "deleted" => docStatus' = "deleted")
  BY <1>1 DEF IngestStep, IngestReconcile, IngestBeginCancelled, docVars,
      IngestMarkError, GoTo, Settle, DocumentFailure, IngestUpsert, IngestExpose,
      IngestDispatch, IngestBegin, IngestBeginRefused, IngestLoadScope, IngestCheckBatch,
      IngestPrepare, IngestPrepareRefused, IngestLoadAcl, IngestFails, IngestActivate, CanActivate,
      IngestActivateReplay, IngestActivateRefused, IngestDeactivate, IngestDies
<1>2. ASSUME NEW g \in Generations,
             CleanupStep(g) \/ CleanupMaterialize(g) \/ CleanupDispatch(g)
             \/ CleanupReconcile(g) \/ CleanupRetry(g) \/ CleanupDeleteFails(g) \/ CleanupDies(g)
      PROVE  stored' = stored /\ docStatus' = docStatus
  BY <1>2 DEF CleanupStep, CleanupUnchanged, docVars,
    CleanupMarkSweeping, CleanupAlreadyDeleted, CleanupSweepRefused, CleanupDeletePoints,
    CleanupMarkDeleted, CleanupMarkError, CleanupMaterialize,
    CleanupDispatch, CleanupReconcile, CleanupRetry, CleanupDeleteFails, CleanupDies
<1>3. ASSUME NEW j \in AclJobs,
             AclStep(j) \/ AclDispatch(j) \/ AclReconcile(j) \/ AclProjectRolledBack(j)
             \/ AclDies(j)
      PROVE  stored' = stored /\ docStatus' = docStatus
  BY <1>3 DEF AclStep, AclUnchanged, docVars,
    AclProjectSuperseded, AclProject, AclProjectRefused, AclProjectReplay, AclMarkError,
    AclDispatch, AclReconcile, AclProjectRolledBack, AclDies
<1>4. ASSUME NEW d \in DeleteJobs,
             DeleteStep(d) \/ DeleteDispatch(d) \/ DeleteReconcile(d) \/ DeleteStepFails(d)
             \/ DeleteDies(d)
      PROVE  /\ stored = {} => stored' = {}
             /\ docStatus = "deleted" => docStatus' = "deleted"
  BY <1>4 DEF DeleteStep, DeleteGoTo, DeleteUnchanged, docVars, DeleteGeneration,
    DeleteStorageKey, DeleteDrain, DeleteFinish,
    DeleteStart, DeleteStartReplay, DeleteDrainTimeout, DeleteLoadTargets,
    DeleteGenerationsDone, DeleteVectors, DeleteStorageDone, DeleteFinishReplay,
    DeleteMarkError, DeleteDispatch, DeleteReconcile, DeleteStepFails, DeleteDies
<1>5. CASE Commands
  <2>1. \A g \in Generations : ~CancelQueued(g)
    BY DEF CancelQueued, LifecycleInv, OnlyDesiredIngestRuns
  <2> QED
    BY <1>5, <2>1 DEF Commands, docVars, CreateVersion, CancelRunning, RetryIngest,
      ReplaceAcl, DeleteRequest, DeleteRetry
<1>6. CASE UNCHANGED vars  BY <1>6 DEF vars, docVars
<1> QED  BY <1>1, <1>2, <1>3, <1>4, <1>5, <1>6 DEF Next, Workflows, Failures

\* Only the end of a delete says deleted.
LEMMA DeletedByFinish ==
    ASSUME LifecycleInv, [Next]_vars, docStatus # "deleted", docStatus' = "deleted"
    PROVE  \E d \in DeleteJobs : DeleteFinish(d)
<1>1. ~UNCHANGED CoreVars  BY DEF CoreVars, docVars
<1>2. ~Commands
  BY DEF Commands, docVars, CreateVersion, CancelQueued, CancelRunning, RetryIngest,
    ReplaceAcl, DeleteRequest, DeleteRetry
<1>3. \A g \in Generations :
         ~IngestBegin(g) /\ ~IngestPrepare(g) /\ ~IngestActivate(g) /\ ~Settles(g)
  BY DEF IngestBegin, IngestPrepare, IngestActivate, Settles, Settle, DocumentFailure, docVars
<1>4. \A d \in DeleteJobs : ~DeleteDrain(d)  BY DEF DeleteDrain, docVars
<1> QED  BY <1>1, <1>2, <1>3, <1>4, CoreSteps

\* A delete workflow moves by its own steps alone, and only these complete its job.
LEMMA DeleteMoves ==
    ASSUME LifecycleInv, [Next]_vars, NEW d \in DeleteJobs
    PROVE  \/ DeleteStep(d) \/ DeleteDispatch(d) \/ DeleteReconcile(d) \/ DeleteStepFails(d)
           \/ DeleteDies(d)
           \/ delWf'[d] = delWf[d] /\ (delStatus'[d] = "completed" => delStatus[d] = "completed")
<1> USE DEF LifecycleInv, TypeOK, deleteVars
<1>1. ASSUME NEW g \in Generations,
             IngestStep(g) \/ IngestDispatch(g) \/ IngestReconcile(g) \/ IngestDies(g)
      PROVE  UNCHANGED <<delWf, delStatus>>
  BY <1>1 DEF IngestStep, IngestReconcile, IngestBeginCancelled,
      IngestMarkError, GoTo, Settle, IngestUpsert, IngestExpose,
      IngestDispatch, IngestBegin, IngestBeginRefused, IngestLoadScope, IngestCheckBatch,
      IngestPrepare, IngestPrepareRefused, IngestLoadAcl, IngestFails, IngestActivate,
      IngestActivateReplay, IngestActivateRefused, IngestDeactivate, IngestDies
<1>2. ASSUME NEW g \in Generations,
             CleanupStep(g) \/ CleanupMaterialize(g) \/ CleanupDispatch(g)
             \/ CleanupReconcile(g) \/ CleanupRetry(g) \/ CleanupDeleteFails(g) \/ CleanupDies(g)
      PROVE  UNCHANGED <<delWf, delStatus>>
  BY <1>2 DEF CleanupStep, CleanupUnchanged,
    CleanupMarkSweeping, CleanupAlreadyDeleted, CleanupSweepRefused, CleanupDeletePoints,
    CleanupMarkDeleted, CleanupMarkError, CleanupMaterialize,
    CleanupDispatch, CleanupReconcile, CleanupRetry, CleanupDeleteFails, CleanupDies
<1>3. ASSUME NEW j \in AclJobs,
             AclStep(j) \/ AclDispatch(j) \/ AclReconcile(j) \/ AclProjectRolledBack(j)
             \/ AclDies(j)
      PROVE  UNCHANGED <<delWf, delStatus>>
  BY <1>3 DEF AclStep, AclUnchanged,
    AclProjectSuperseded, AclProject, AclProjectRefused, AclProjectReplay, AclMarkError,
    AclDispatch, AclReconcile, AclProjectRolledBack, AclDies
<1>4. ASSUME NEW e \in DeleteJobs, e # d,
             DeleteStep(e) \/ DeleteDispatch(e) \/ DeleteReconcile(e) \/ DeleteStepFails(e)
             \/ DeleteDies(e)
      PROVE  delWf'[d] = delWf[d] /\ delStatus'[d] = delStatus[d]
  BY <1>4 DEF DeleteStep, DeleteGoTo, DeleteGeneration, Checkpoint,
    DeleteStorageKey, DeleteDrain, DeleteFinish,
    DeleteStart, DeleteStartReplay, DeleteDrainTimeout, DeleteLoadTargets,
    DeleteGenerationsDone, DeleteVectors, DeleteStorageDone, DeleteFinishReplay,
    DeleteMarkError, DeleteDispatch, DeleteReconcile, DeleteStepFails, DeleteDies
<1>5. ASSUME Commands
      PROVE  delWf'[d] = delWf[d] /\ (delStatus'[d] = "completed" => delStatus[d] = "completed")
  BY <1>5 DEF Commands, CreateVersion, CancelQueued, CancelRunning, RetryIngest,
    ReplaceAcl, DeleteRequest, DeleteRetry
<1>6. CASE UNCHANGED vars  BY <1>6 DEF vars
<1> QED  BY <1>1, <1>2, <1>3, <1>4, <1>5, <1>6 DEF Next, Workflows, Failures

\* A delete workflow goes on when no ingest is open, to the originals when the
\* points are erased, and to its end when nothing is left.
LEMMA DeletionNext ==
    ASSUME LifecycleInv, PointsInv, [Next]_vars
    PROVE  DeletionInv'
<1>1. ~Mutable /\ Stopped => Stopped'  BY NothingReopens
<1>2. Stopped /\ Erased => Erased'  BY ErasedStays
<1>3. ~Mutable => /\ stored = {} => stored' = {}
                  /\ docStatus = "deleted" => docStatus' = "deleted"
  BY GoneStays
<1>4. docStatus = "deleted" => ~Mutable /\ Stopped /\ Erased /\ stored = {}
  BY DEF PointsInv, DeletionInv, Mutable
<1>5. \A d \in DeleteJobs :
         /\ DeleteDone(d)
         /\ delWf[d] # "none" => ~Mutable
         /\ delStatus[d] # "none" => ~Mutable
  BY DEF PointsInv, DeletionInv, LifecycleInv, DeletesAreFinal
<1>6. docStatus' = "deleted" => Stopped' /\ Erased' /\ stored' = {}
  <2>1. CASE docStatus = "deleted"  BY <1>1, <1>2, <1>3, <1>4, <2>1
  <2>2. ASSUME NEW d \in DeleteJobs, DeleteFinish(d)  PROVE Stopped' /\ Erased' /\ stored' = {}
    <3>1. delWf[d] = "finish" /\ ~Mutable  BY <1>5, <2>2 DEF DeleteFinish
    <3>2. Stopped /\ Erased /\ stored = {}  BY <1>5, <3>1 DEF DeleteDone
    <3> QED  BY <1>1, <1>2, <1>3, <3>1, <3>2
  <2> QED  BY <2>1, <2>2, DeletedByFinish
<1>7. ASSUME NEW d \in DeleteJobs  PROVE DeleteDone(d)'
  <2>1. CASE delWf'[d] = delWf[d] /\ (delStatus'[d] = "completed" => delStatus[d] = "completed")
    BY <1>1, <1>2, <1>3, <1>4, <1>5, <2>1 DEF DeleteDone
  <2>2. CASE DeleteDrain(d)
    <3>1. delStatus'[d] = delStatus[d] /\ docStatus' = docStatus
      BY <2>2 DEF DeleteDrain, docVars
    <3>2. delWf'[d] \in {"drain", "targets"}
          /\ (delWf'[d] = "targets" => ~Undrained)
      BY <2>2 DEF DeleteDrain, Checkpoint, LifecycleInv, TypeOK
    <3>3. ~Undrained => Stopped'
      BY <2>2 DEF DeleteDrain, Undrained, StoppedJobs, Stopped, LifecycleInv, TypeOK
    <3> QED  BY <1>5, <3>1, <3>2, <3>3 DEF DeleteDone
  <2>3. CASE DeleteVectors(d)
    <3>1. Erased' /\ delStatus'[d] = delStatus[d] /\ docStatus' = docStatus
          /\ delWf'[d] \in {"vectors", "storage"} /\ delWf[d] = "vectors" /\ ~Mutable
      BY <2>3 DEF DeleteVectors, docVars, Erased, Checkpoint, LifecycleInv, TypeOK
    <3> QED  BY <1>1, <1>5, <3>1 DEF DeleteDone
  <2>4. CASE DeleteFinish(d)
    <3>1. delWf[d] = "finish" /\ docStatus' = "deleted"  BY <2>4 DEF DeleteFinish
    <3> QED  BY <1>6, <3>1 DEF DeleteDone
  <2>5. CASE DeleteStartReplay(d)
    <3>1. docStatus = "deleted" /\ docStatus' = "deleted"
      BY <1>5, <2>5 DEF DeleteStartReplay, DeleteGoTo, docVars, DeleteDone
    <3> QED  BY <1>6, <3>1 DEF DeleteDone
  <2>6. CASE DeleteStorageDone(d)
    <3>1. delWf[d] = "storage" /\ stored = {} /\ delStatus'[d] = delStatus[d]
           /\ docStatus' = docStatus
      BY <2>6 DEF DeleteStorageDone, DeleteGoTo, docVars
    <3> QED  BY <1>1, <1>2, <1>3, <1>5, <3>1 DEF DeleteDone
  <2>7. CASE DeleteMarkError(d) \/ DeleteReconcile(d) \/ DeleteStart(d)
    <3>1. docStatus' = docStatus
          /\ delWf'[d] \in {"start", "drain", "error", "done", "lost"}
          /\ (delStatus'[d] = "completed" => delStatus[d] = "completed" \/ docStatus = "deleted")
      BY <2>7 DEF DeleteMarkError, DeleteReconcile, DeleteReconcilable, DeleteStart, docVars,
        Checkpoint, LifecycleInv, TypeOK
    <3> QED  BY <1>5, <3>1 DEF DeleteDone
  <2>8. CASE \/ DeleteDrainTimeout(d) \/ DeleteFinishReplay(d) \/ DeleteDispatch(d)
             \/ DeleteStepFails(d) \/ DeleteDies(d)
    <3>1. docStatus' = docStatus /\ delStatus'[d] = delStatus[d]
          /\ delWf'[d] \in {"start", "error", "done", "lost"}
      BY <2>8 DEF DeleteDrainTimeout, DeleteFinishReplay, DeleteDispatch, DeleteStepFails,
        DeleteDies, DeleteGoTo, docVars, LifecycleInv, TypeOK
    <3> QED  BY <1>5, <3>1 DEF DeleteDone
  <2>9. CASE \/ DeleteLoadTargets(d) \/ DeleteGenerationsDone(d)
             \/ \E g \in Generations : DeleteGeneration(d, g)
             \/ \E v \in Versions : DeleteStorageKey(d, v)
    <3>1. /\ docStatus' = docStatus /\ delStatus'[d] = delStatus[d]
          /\ \/ delWf[d] \in {"targets", "generations"} /\ delWf'[d] \in {"generations", "vectors"}
             \/ delWf[d] = "storage" /\ delWf'[d] = "storage"
      BY <2>9 DEF DeleteLoadTargets, DeleteGenerationsDone, DeleteGeneration, DeleteStorageKey,
        DeleteGoTo, docVars, LifecycleInv, TypeOK
    <3> QED  BY <1>1, <1>2, <1>5, <3>1 DEF DeleteDone
  <2> QED
    BY <2>1, <2>2, <2>3, <2>4, <2>5, <2>6, <2>7, <2>8, <2>9, DeleteMoves DEF DeleteStep
<1> QED  BY <1>6, <1>7 DEF DeletionInv

(***************************************************************************)
(* The theorems about the points.                                           *)
(***************************************************************************)

\* The first upload has no points, no row of the queue and no delete.
LEMMA InitPoints == Init => PointsInv
<1> SUFFICES ASSUME Init PROVE PointsInv OBVIOUS
<1> PICK v \in Versions, g \in Generations : FirstUpload(v, g) BY DEF Init
<1> USE LifecycleAssumption DEF FirstUpload
<1>1. ASSUME NEW x \in Generations  PROVE GenerationInv(x)
  BY DEF GenerationInv, WritesForItsJob, QueuedWhenOver, Accounted, Exposed, Working,
    ActiveGenerations
<1>2. DeletionInv  BY DEF DeletionInv, DeleteDone
<1> QED  BY <1>1, <1>2 DEF PointsInv

\* In every state the points are what jobs, queue and deletes say of them.
THEOREM PointsAreKept == Spec => [](LifecycleInv /\ PointsInv)
<1>1. Init => LifecycleInv /\ PointsInv  BY InitInv, InitPoints
<1>2. LifecycleInv /\ PointsInv /\ [Next]_vars => (LifecycleInv /\ PointsInv)'
  BY NextInv, GenerationsNext, DeletionNext DEF PointsInv
<1> QED  BY <1>1, <1>2, PTL DEF Spec

\* A served generation has its points where the search finds them: no cleanup,
\* deactivation or late write has touched them.
THEOREM ServedIsVisible == Spec => []ServedPointsVisible
<1>1. LifecycleInv /\ PointsInv => ServedPointsVisible
  BY ActiveIs DEF PointsInv, GenerationInv, Exposed, Served, ServedPointsVisible, LifecycleInv,
    TypeOK, ActiveGenerations, PointerSound
<1> QED  BY <1>1, PointsAreKept, PTL

\* No points are forgotten by the queue, and none outlive a completed cleanup.
THEOREM PointsAreAccounted == Spec => []PointsAccounted
<1>1. LifecycleInv /\ PointsInv => PointsAccounted
  BY DEF PointsInv, GenerationInv, Accounted, PointsAccounted, NoForgottenPoints,
    CompletedCleanupErased
<1> QED  BY <1>1, PointsAreKept, PTL

\* A deleted document has neither points nor originals, nor an ingest about to
\* write, however many deletes overlapped.
THEOREM NothingIsLeft == Spec => []DeletedLeavesNothing
<1>1. LifecycleInv /\ PointsInv => DeletedLeavesNothing
  BY DEF PointsInv, GenerationInv, DeletionInv, WritesForItsJob, Working, Stopped, Erased,
    DeletedLeavesNothing
<1> QED  BY <1>1, PointsAreKept, PTL

(***************************************************************************)
(* The ACL of what is served.                                               *)
(***************************************************************************)

\* A step that leaves the ACLs and the active points alone.
LEMMA AclFrame ==
    ASSUME ActiveAclCurrent, Steady, UNCHANGED <<acl, projected>>,
           Mutable => \A x \in ActiveGenerations : pointAcl'[x] = pointAcl[x]
    PROVE  ActiveAclCurrent'
BY DEF ActiveAclCurrent, Steady

\* An activation projects what its points carry; a projection writes before it
\* says so; an edit to an ACL that is not the projected one hides the document.
LEMMA ActiveAclNext ==
    ASSUME LifecycleInv, PointsInv, ActiveAclCurrent, [Next]_vars, ~RestoresProjected
    PROVE  ActiveAclCurrent'
<1>0. /\ \A x \in ActiveGenerations : x \in Generations /\ jobStatus[x] = "completed"
      /\ \A x \in ActiveGenerations : sweep[x] = "none" /\ cleanWf[x] = "none"
      /\ \A x \in ActiveGenerations : wf[x] \notin Working
      /\ Mutable => \A x \in ActiveGenerations : pointVis[x] = "active"
  <2>1. \A x \in ActiveGenerations : x \in Generations
    BY DEF LifecycleInv, PointerSound, ActiveGenerations
  <2> QED
    BY <2>1, ActiveIs DEF PointsInv, GenerationInv, WritesForItsJob, QueuedWhenOver, Exposed
<1>1. ASSUME NEW g \in Generations,
             IngestStep(g) \/ IngestDispatch(g) \/ IngestReconcile(g) \/ IngestDies(g)
      PROVE  ActiveAclCurrent'
  <2>1. CASE IngestActivate(g)
    <3>1. pointAcl'[g] = acl' /\ acl' = acl /\ projected' = acl
      BY <2>1
         DEF IngestActivate, CanActivate, pointVars, aclJobVars, PointsInv, GenerationInv, Exposed
    <3>2. ActiveGenerations' \subseteq {g}
      BY <2>1 DEF IngestActivate, CanActivate, InScope, ActiveGenerations
    <3> QED  BY <3>1, <3>2 DEF ActiveAclCurrent
  <2>2. CASE ~IngestActivate(g)
    <3>1. Steady
      <4>1. UNCHANGED CoreVars \/ IngestBegin(g) \/ IngestPrepare(g) \/ Settles(g)
        BY <1>1, <2>2 DEF IngestStep, IngestReconcile, Reconcilable, IngestBeginCancelled,
              CancelSeen,
          IngestMarkError, GoTo, Settles, CoreVars, docVars, versionVars, jobVars,
          IngestDispatch, IngestBeginRefused, IngestLoadScope, IngestCheckBatch, IngestUpsert,
          IngestPrepareRefused, IngestLoadAcl, IngestExpose, IngestFails, IngestActivateReplay,
          IngestActivateRefused, IngestDeactivate, IngestDies
      <4> QED  BY <4>1, ActiveKept DEF Calm
    <3>2. UNCHANGED <<acl, projected>>
      BY <1>1, <2>2 DEF IngestStep, IngestReconcile, IngestBeginCancelled, aclVars, aclJobVars,
        IngestMarkError, GoTo, Settle, IngestUpsert, IngestExpose,
        IngestDispatch, IngestBegin, IngestBeginRefused, IngestLoadScope, IngestCheckBatch,
        IngestPrepare, IngestPrepareRefused, IngestLoadAcl, IngestFails,
        IngestActivateReplay, IngestActivateRefused, IngestDeactivate, IngestDies
    <3>3. pointAcl' = pointAcl \/ IngestUpsert(g) \/ IngestExpose(g)
      BY <1>1, <2>2 DEF IngestStep, IngestReconcile, IngestBeginCancelled, pointVars,
        IngestMarkError, GoTo, Settle,
        IngestDispatch, IngestBegin, IngestBeginRefused, IngestLoadScope, IngestCheckBatch,
        IngestPrepare, IngestPrepareRefused, IngestLoadAcl, IngestFails,
        IngestActivateReplay, IngestActivateRefused, IngestDeactivate, IngestDies
    <3>4. \A x \in ActiveGenerations : pointAcl'[x] = pointAcl[x]
      BY <1>0, <3>3 DEF IngestUpsert, IngestExpose, Working, LifecycleInv, TypeOK
    <3> QED  BY <3>1, <3>2, <3>4, AclFrame
  <2> QED  BY <2>1, <2>2
<1>2. ASSUME NEW g \in Generations,
             CleanupStep(g) \/ CleanupMaterialize(g) \/ CleanupDispatch(g)
             \/ CleanupReconcile(g) \/ CleanupRetry(g) \/ CleanupDeleteFails(g) \/ CleanupDies(g)
      PROVE  ActiveAclCurrent'
  <2>1. UNCHANGED CoreVars /\ UNCHANGED <<acl, projected>>
    BY <1>2 DEF CleanupStep, CleanupUnchanged, CoreVars, jobVars, aclVars, aclJobVars,
      CleanupMarkSweeping, CleanupAlreadyDeleted, CleanupSweepRefused, CleanupDeletePoints,
      CleanupMarkDeleted, CleanupMarkError, CleanupMaterialize,
      CleanupDispatch, CleanupReconcile, CleanupRetry, CleanupDeleteFails, CleanupDies
  <2>2. pointAcl' = pointAcl \/ CleanupDeletePoints(g)
    BY <1>2 DEF CleanupStep, pointVars,
      CleanupMarkSweeping, CleanupAlreadyDeleted, CleanupSweepRefused,
      CleanupMarkDeleted, CleanupMarkError, CleanupMaterialize,
      CleanupDispatch, CleanupReconcile, CleanupRetry, CleanupDeleteFails, CleanupDies
  <2>3. \A x \in ActiveGenerations : pointAcl'[x] = pointAcl[x]
    BY <1>0, <2>2 DEF CleanupDeletePoints, LifecycleInv, TypeOK
  <2>4. Steady  BY <2>1, ActiveKept DEF Calm
  <2> QED  BY <2>1, <2>3, <2>4, AclFrame
<1>3. ASSUME NEW j \in AclJobs,
             AclStep(j) \/ AclDispatch(j) \/ AclReconcile(j) \/ AclProjectRolledBack(j)
             \/ AclDies(j)
      PROVE  ActiveAclCurrent'
  <2>1. UNCHANGED CoreVars /\ acl' = acl
    BY <1>3 DEF AclStep, AclUnchanged, CoreVars, jobVars,
      AclProjectSuperseded, AclProject, AclProjectRefused, AclProjectReplay, AclMarkError,
      AclDispatch, AclReconcile, AclProjectRolledBack, AclDies
  <2>2. Steady  BY <2>1, ActiveKept DEF Calm
  <2>3. CASE UNCHANGED <<projected, pointAcl>>  BY <2>1, <2>2, <2>3, AclFrame
  <2>4. CASE WriteAcl /\ projected' \in {projected, acl}
    <3>1. Mutable => \A x \in ActiveGenerations : pointAcl'[x] = acl
      BY <1>0, <2>4 DEF WriteAcl
    <3> QED  BY <2>1, <2>2, <2>4, <3>1 DEF ActiveAclCurrent, Steady
  <2> QED
    BY <1>3, <2>3, <2>4 DEF AclStep, AclUnchanged,
      AclProjectSuperseded, AclProject, AclProjectRefused, AclProjectReplay, AclMarkError,
      AclDispatch, AclReconcile, AclProjectRolledBack, AclDies
<1>4. ASSUME NEW d \in DeleteJobs,
             DeleteStep(d) \/ DeleteDispatch(d) \/ DeleteReconcile(d) \/ DeleteStepFails(d)
             \/ DeleteDies(d)
      PROVE  ActiveAclCurrent'
  <2>1. UNCHANGED <<acl, projected>>
    BY <1>4 DEF DeleteStep, DeleteGoTo, DeleteUnchanged, DeleteGeneration, aclVars, aclJobVars,
      DeleteStorageKey, DeleteDrain, DeleteFinish,
      DeleteStart, DeleteStartReplay, DeleteDrainTimeout, DeleteLoadTargets,
      DeleteGenerationsDone, DeleteVectors, DeleteStorageDone, DeleteFinishReplay,
      DeleteMarkError, DeleteDispatch, DeleteReconcile, DeleteStepFails, DeleteDies
  <2>2. ~Mutable \/ (UNCHANGED docVars /\ ~Mutable)
    BY <1>4 DEF DeleteStep, DeleteGoTo, DeleteGeneration, LifecycleInv, DeletesAreFinal,
      DeleteStorageKey, DeleteDrain, DeleteFinish,
      DeleteStart, DeleteStartReplay, DeleteDrainTimeout, DeleteLoadTargets,
      DeleteGenerationsDone, DeleteVectors, DeleteStorageDone, DeleteFinishReplay,
      DeleteMarkError, DeleteDispatch, DeleteReconcile, DeleteReconcilable,
      DeleteStepFails, DeleteDies
  <2>3. ~Mutable'  BY <2>2, NothingReopens
  <2> QED  BY <2>1, <2>3 DEF ActiveAclCurrent
<1>5. CASE Commands
  <2>1. Steady  BY <1>5, ActiveKept DEF Calm
  <2>2. ASSUME NEW j \in AclJobs, NEW a \in AclValues, ReplaceAcl(j, a)
        PROVE  ActiveAclCurrent'
    <3>1. acl' = a /\ UNCHANGED <<projected, pointAcl>>
      BY <2>2 DEF ReplaceAcl, pointVars
    <3>2. CASE a = acl  BY <2>1, <3>1, <3>2, AclFrame
    <3>3. CASE a # acl
      <4>1. acl' # projected'  BY <3>1, <3>3 DEF RestoresProjected
      <4> QED  BY <4>1 DEF ActiveAclCurrent
    <3> QED  BY <3>2, <3>3
  <2>3. CASE ~\E j \in AclJobs, a \in AclValues : ReplaceAcl(j, a)
    <3>1. UNCHANGED <<acl, projected, pointAcl>>
      BY <1>5, <2>3 DEF Commands, CreateVersion, CancelQueued, CancelRunning, RetryIngest,
        DeleteRequest, DeleteRetry, DeleteUnchanged, aclVars, aclJobVars, pointVars
    <3> QED  BY <2>1, <3>1, AclFrame
  <2> QED  BY <2>2, <2>3
<1>6. CASE UNCHANGED vars
  <2>1. UNCHANGED CoreVars /\ UNCHANGED <<acl, projected, pointAcl>>
    BY <1>6 DEF vars, CoreVars, jobVars, aclVars, aclJobVars, pointVars
  <2>2. Steady  BY <2>1, ActiveKept DEF Calm
  <2> QED  BY <2>1, <2>2, AclFrame
<1> QED  BY <1>1, <1>2, <1>3, <1>4, <1>5, <1>6 DEF Next, Workflows, Failures

\* An edit of a served document's ACL makes a job for the new one; the job ends
\* completed only once the points have that ACL, or another one is asked for.
LEMMA ProjectionStaysDue ==
    ASSUME LifecycleInv, PointsInv, [Next]_vars, ProjectionDue \/ RestoresProjected
    PROVE  ActiveAclCurrent' \/ ProjectionDue'
<1>1. ASSUME NEW j \in AclJobs, NEW a \in AclValues, ReplaceAcl(j, a)
      PROVE  ActiveAclCurrent' \/ ProjectionDue'
  <2>1. UNCHANGED docVars /\ UNCHANGED versionVars /\ acl' = a /\ aclFp' = [aclFp EXCEPT ![j] = a]
    BY <1>1 DEF ReplaceAcl
  <2>2. CASE Mutable /\ activeVersion # None
    <3>1. aclFp'[j] = acl' /\ aclStatus'[j] = "queued"
      BY <1>1, <2>1, <2>2 DEF ReplaceAcl, LifecycleInv, TypeOK
    <3> QED  BY <3>1 DEF ProjectionDue
  <2>3. CASE ~(Mutable /\ activeVersion # None)
    <3>1. ~Mutable' \/ ActiveGenerations' = {}
      BY <2>1, <2>3 DEF docVars, Mutable, ActiveGenerations
    <3> QED  BY <3>1 DEF ActiveAclCurrent
  <2> QED  BY <2>2, <2>3
<1>2. CASE UNCHANGED <<acl, aclFp, aclStatus>>
  BY <1>2 DEF ProjectionDue, RestoresProjected
<1>3. ASSUME NEW g \in Generations,
             \/ IngestStep(g) \/ IngestDispatch(g) \/ IngestReconcile(g) \/ IngestDies(g)
             \/ CleanupStep(g) \/ CleanupMaterialize(g) \/ CleanupDispatch(g)
             \/ CleanupReconcile(g) \/ CleanupRetry(g) \/ CleanupDeleteFails(g) \/ CleanupDies(g)
      PROVE  UNCHANGED <<acl, aclFp, aclStatus>>
  BY <1>3 DEF IngestStep, IngestReconcile, IngestBeginCancelled, aclVars, aclJobVars,
    IngestMarkError, GoTo, Settle, IngestUpsert, IngestExpose, IngestActivate,
    IngestDispatch, IngestBegin, IngestBeginRefused, IngestLoadScope, IngestCheckBatch,
    IngestPrepare, IngestPrepareRefused, IngestLoadAcl, IngestFails,
    IngestActivateReplay, IngestActivateRefused, IngestDeactivate, IngestDies,
    CleanupStep, CleanupUnchanged,
    CleanupMarkSweeping, CleanupAlreadyDeleted, CleanupSweepRefused, CleanupDeletePoints,
    CleanupMarkDeleted, CleanupMarkError, CleanupMaterialize,
    CleanupDispatch, CleanupReconcile, CleanupRetry, CleanupDeleteFails, CleanupDies
<1>4. ASSUME NEW d \in DeleteJobs,
             DeleteStep(d) \/ DeleteDispatch(d) \/ DeleteReconcile(d) \/ DeleteStepFails(d)
             \/ DeleteDies(d)
      PROVE  UNCHANGED <<acl, aclFp, aclStatus>>
  BY <1>4 DEF DeleteStep, DeleteGoTo, DeleteUnchanged, DeleteGeneration, aclVars, aclJobVars,
    DeleteStorageKey, DeleteDrain, DeleteFinish,
    DeleteStart, DeleteStartReplay, DeleteDrainTimeout, DeleteLoadTargets,
    DeleteGenerationsDone, DeleteVectors, DeleteStorageDone, DeleteFinishReplay,
    DeleteMarkError, DeleteDispatch, DeleteReconcile, DeleteStepFails, DeleteDies
<1>5. ASSUME NEW j \in AclJobs,
             AclStep(j) \/ AclDispatch(j) \/ AclReconcile(j) \/ AclProjectRolledBack(j)
             \/ AclDies(j)
      PROVE  ActiveAclCurrent' \/ ProjectionDue'
  <2>1. UNCHANGED CoreVars /\ UNCHANGED <<acl, aclFp>>
    BY <1>5 DEF AclStep, AclUnchanged, CoreVars, jobVars,
      AclProjectSuperseded, AclProject, AclProjectRefused, AclProjectReplay, AclMarkError,
      AclDispatch, AclReconcile, AclProjectRolledBack, AclDies
  <2>2. Steady  BY <2>1, ActiveKept DEF Calm
  <2>3. PICK i \in AclJobs : aclFp[i] = acl /\ aclStatus[i] \notin {"none", "completed"}
    BY <2>1 DEF ProjectionDue, RestoresProjected
  <2>4. CASE aclStatus'[i] \notin {"none", "completed"}
    BY <2>1, <2>3, <2>4 DEF ProjectionDue
  <2>5. CASE aclStatus'[i] \in {"none", "completed"}
    <3>1. j = i /\ (AclProjectSuperseded(i) \/ AclProject(i))
      BY <1>5, <2>3, <2>5 DEF AclStep, AclUnchanged, LifecycleInv, TypeOK,
        AclProjectSuperseded, AclProject, AclProjectRefused, AclProjectReplay, AclMarkError,
        AclDispatch, AclReconcile, AclProjectRolledBack, AclDies
    <3>2. CASE AclProjectSuperseded(i)
      BY <2>2, <2>3, <3>2 DEF AclProjectSuperseded, Steady, ActiveAclCurrent
    <3>3. CASE AclProject(i)
      <4>1. Mutable => \A x \in ActiveGenerations : x \in Generations /\ pointVis[x] = "active"
        BY ActiveIs DEF PointsInv, GenerationInv, Exposed, LifecycleInv, PointerSound,
          ActiveGenerations
      <4>2. Mutable => \A x \in ActiveGenerations : pointAcl'[x] = acl
        BY <3>3, <4>1 DEF AclProject, WriteAcl
      <4> QED  BY <2>1, <2>2, <4>2 DEF Steady, ActiveAclCurrent
    <3> QED  BY <3>1, <3>2, <3>3
  <2> QED  BY <2>4, <2>5
<1>6. CASE Commands
  <2>1. CASE DeleteRequest \/ \E d, fresh \in DeleteJobs : DeleteRetry(d, fresh)
    BY <1>2, <2>1 DEF DeleteRequest, DeleteRetry, DeleteUnchanged, aclVars, aclJobVars
  <2>2. ASSUME NEW v \in Versions, NEW g \in Generations, CreateVersion(v, g)
        PROVE  ProjectionDue'
    <3>1. UNCHANGED <<acl, aclFp>> /\ aclStatus' = Moved(aclStatus, {"queued"}, "cancelled")
      BY <2>2 DEF CreateVersion, aclVars
    <3> QED
      BY <3>1 DEF ProjectionDue, RestoresProjected, Moved, LifecycleInv, TypeOK
  <2>3. CASE \/ \E g \in Generations : CancelQueued(g) \/ CancelRunning(g)
             \/ \E g, fresh \in Generations : RetryIngest(g, fresh)
    BY <1>2, <2>3 DEF CancelQueued, CancelRunning, RetryIngest, aclVars, aclJobVars
  <2> QED  BY <1>1, <1>6, <2>1, <2>2, <2>3 DEF Commands
<1>7. CASE UNCHANGED vars  BY <1>2, <1>7 DEF vars, aclVars, aclJobVars
<1> QED
  BY <1>1, <1>2, <1>3, <1>4, <1>5, <1>6, <1>7 DEF Next, Workflows, Failures

\* What is projected is served as long as it is active: the comparison of
\* fingerprints is between the document's ACL and its active points'.
LEMMA ServedAclIsActive == LifecycleInv => (ServedAclCurrent <=> ActiveAclCurrent)
BY DEF LifecycleInv, PointerSound, Served, ServedAclCurrent, ActiveAclCurrent, ActiveGenerations

\* The same of the next state.
LEMMA ServedAclNextIsActive == LifecycleInv' => (ServedAclCurrent' <=> ActiveAclCurrent')
BY DEF LifecycleInv, PointerSound, Served, ServedAclCurrent, ActiveAclCurrent, ActiveGenerations

\* The points of a served generation stop admitting who its ACL admits only by
\* an edit that gives the projected ACL back, and from then on until they admit
\* them again a projection is due.
THEOREM ServedAclIsKept == Spec => ServedAclKept
<1> DEFINE Inv == LifecycleInv /\ PointsInv
<1>1. Init => ServedAclCurrent
  <2> SUFFICES ASSUME Init PROVE ServedAclCurrent OBVIOUS
  <2> PICK v \in Versions, g \in Generations : FirstUpload(v, g) BY DEF Init
  <2> QED  BY DEF FirstUpload, Served, ActiveGenerations, ServedAclCurrent
<1>2. Inv /\ Inv' /\ [Next]_vars => (ServedAclCurrent => ServedAclCurrent' \/ RestoresProjected)
  BY ActiveAclNext, ServedAclIsActive, ServedAclNextIsActive
<1>3. Inv /\ Inv' /\ [Next]_vars /\ StaleAclHasJob => StaleAclHasJob'
  BY ActiveAclNext, ServedAclIsActive, ServedAclNextIsActive, ProjectionStaysDue
     DEF StaleAclHasJob, ProjectionDue
<1>4. ServedAclCurrent => StaleAclHasJob  BY DEF StaleAclHasJob
<1>5. Inv /\ Inv' /\ [Next]_vars /\ StaleAclHasJob => [ServedAclStep]_vars
  BY <1>2, <1>3 DEF ServedAclStep
<1> QED  BY <1>1, <1>3, <1>4, <1>5, PointsAreKept, PTL DEF Spec, ServedAclKept
=============================================================================
