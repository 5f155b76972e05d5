--------------------------- MODULE Services_proofs ---------------------------
(***************************************************************************)
(* What a library and its documents leave behind, for any set of           *)
(* documents, any number of refreshes, of retried deletes and of failures; *)
(* and what the receivers are told of an alert, for any number of control  *)
(* workers, of attempts, of recovery cycles and of transitions.            *)
(***************************************************************************)
EXTENDS LibraryDeletion, Alerting, TLAPS

(***************************************************************************)
(* The library.  That no object outlives its row rests on what its         *)
(* document has been through: before the row there is no delete job, a job *)
(* that says erased says so of an object that is gone, and the object of   *)
(* an upload under way has no row yet, so that no job can have met it.     *)
(***************************************************************************)
DeleteStatus == {"queued", "running", "erased", "completed", "failed"}
DeleteJob == [status : DeleteStatus, byLibrary : BOOLEAN]
DocStatus == {"none", "live", "deleting", "deleted", "gone"}

LibraryTypeOK ==
    /\ doc \in [Docs -> DocStatus]
    /\ stored \subseteq Docs
    /\ deletes \in [Docs -> Seq(DeleteJob)]

\* Before its row a document has no delete, and only then an upload.
RowFirst ==
    \A d \in Docs :
        /\ doc[d] = "none" => deletes[d] = <<>>
        /\ d \in stored => doc[d] = "none"

\* A document's end, and a job's word for it, mean that the object is gone.
ErasedGone ==
    \A d \in Docs :
        /\ doc[d] \in {"deleted", "gone"} => d \notin objects
        /\ \A i \in DOMAIN deletes[d] : deletes[d][i].status = "erased" => d \notin objects

Kept == objects \subseteq Docs /\ ObjectsAccounted

LibraryInv == LibraryTypeOK /\ TombstoneLast /\ RowFirst /\ ErasedGone /\ Kept

-----------------------------------------------------------------------------
(* The steps                                                                 *)

\* What one step of a job changes.
LEMMA OneJob ==
    ASSUME LibraryTypeOK, NEW d \in Docs, NEW i \in DOMAIN deletes[d],
           NEW status \in DeleteStatus, Becomes(d, i, status)
    PROVE  /\ deletes' \in [Docs -> Seq(DeleteJob)]
           /\ \A e \in Docs : DOMAIN deletes'[e] = DOMAIN deletes[e]
           /\ \A e \in Docs : e # d => deletes'[e] = deletes[e]
           /\ \A j \in DOMAIN deletes[d] :
                 deletes'[d][j].status = IF j = i THEN status ELSE deletes[d][j].status
PROOF
<1> DEFINE job == [deletes[d][i] EXCEPT !.status = status]
<1> DEFINE jobs == [deletes[d] EXCEPT ![i] = job]
<1>1. deletes' = [deletes EXCEPT ![d] = jobs]
    BY DEF Becomes
<1>2. deletes[d] \in Seq(DeleteJob) /\ deletes \in [Docs -> Seq(DeleteJob)]
    BY DEF LibraryTypeOK
<1>3. deletes[d][i] \in DeleteJob
    BY <1>2
<1>4. job \in DeleteJob /\ job.status = status
    BY <1>3 DEF DeleteJob
<1> HIDE DEF job
<1>5. /\ jobs \in Seq(DeleteJob) /\ DOMAIN jobs = DOMAIN deletes[d]
      /\ \A j \in DOMAIN deletes[d] : jobs[j] = IF j = i THEN job ELSE deletes[d][j]
    BY <1>2, <1>4
<1> HIDE DEF jobs
<1> QED
    BY <1>1, <1>2, <1>4, <1>5

LEMMA UploadKeeps ==
    ASSUME LibraryInv, NEW d \in Docs, StoreObject(d) \/ CommitUpload(d) \/ UploadDies(d)
    PROVE  LibraryInv'
PROOF
<1>1. CASE StoreObject(d)
    <2>1. /\ stored' = stored \cup {d} /\ objects' = objects \cup {d} /\ doc[d] = "none"
          /\ UNCHANGED <<library, doc, deletes, orphans>>
        BY <1>1 DEF StoreObject
    <2>2. LibraryTypeOK' /\ TombstoneLast' /\ RowFirst' /\ Kept'
        BY <2>1 DEF LibraryInv, LibraryTypeOK, TombstoneLast, Remaining, WithStatus, RowFirst, Kept, ObjectsAccounted
    <2>3. ErasedGone'
        BY <2>1 DEF LibraryInv, RowFirst, ErasedGone
    <2> QED
        BY <2>2, <2>3 DEF LibraryInv
<1>2. CASE CommitUpload(d)
    <2>1. d \in stored /\ stored' = stored \ {d} /\ UNCHANGED <<library, deletes>> /\ doc[d] = "none"
        BY <1>2 DEF CommitUpload, LibraryInv, RowFirst
    <2>2. CASE library = "open" /\ doc' = [doc EXCEPT ![d] = "live"] /\ UNCHANGED <<objects, orphans>>
        <3>1. LibraryTypeOK' /\ TombstoneLast'
            BY <2>1, <2>2 DEF LibraryInv, LibraryTypeOK, TombstoneLast, DocStatus
        <3>2. RowFirst' /\ ErasedGone'
            BY <2>1, <2>2 DEF LibraryInv, LibraryTypeOK, RowFirst, ErasedGone
        <3>3. Kept'
            BY <2>1, <2>2 DEF LibraryInv, LibraryTypeOK, Kept, ObjectsAccounted, Remaining, WithStatus
        <3> QED
            BY <3>1, <3>2, <3>3 DEF LibraryInv
    <2>3. CASE objects' = objects \ {d} /\ UNCHANGED <<doc, orphans>>
        BY <2>1, <2>3 DEF LibraryInv, LibraryTypeOK, TombstoneLast, Remaining, WithStatus, RowFirst, ErasedGone,
            Kept, ObjectsAccounted
    <2> QED
        BY <1>2, <2>2, <2>3 DEF CommitUpload
<1>3. CASE UploadDies(d)
    <2>1. stored' = stored \ {d} /\ orphans' = orphans \cup {d} /\ UNCHANGED <<library, doc, objects, deletes>>
        BY <1>3 DEF UploadDies
    <2> QED
        BY <2>1 DEF LibraryInv, LibraryTypeOK, TombstoneLast, Remaining, WithStatus, RowFirst, ErasedGone,
            Kept, ObjectsAccounted
<1> QED
    BY <1>1, <1>2, <1>3

\* The refreshes move the library's status alone, and never to deleted.
LEMMA RefreshKeeps ==
    ASSUME LibraryInv, NEW f \in Refreshers, CommandDone(f) \/ RefreshReads(f) \/ RefreshWrites(f)
    PROVE  LibraryInv'
PROOF
<1>1. UNCHANGED <<doc, stored, objects, deletes, orphans>>
    BY DEF CommandDone, RefreshReads, RefreshWrites
<1>2. library' = library \/ library' \notin {"deleted", "gone"}
    BY DEF CommandDone, RefreshReads, RefreshWrites
<1> QED
    BY <1>1, <1>2 DEF LibraryInv, LibraryTypeOK, TombstoneLast, Remaining, WithStatus, RowFirst, ErasedGone,
        Kept, ObjectsAccounted

LEMMA RequestDocumentDeleteKeeps ==
    ASSUME LibraryInv, NEW d \in Docs, RequestDocumentDelete(d)
    PROVE  LibraryInv'
PROOF
<1>1. /\ library = "open" /\ d \in Remaining
      /\ doc' = [doc EXCEPT ![d] = "deleting"]
      /\ deletes' = [deletes EXCEPT ![d] = IF @ = <<>> THEN <<NewDelete(FALSE)>> ELSE @]
      /\ UNCHANGED <<library, stored, objects, orphans>>
    BY DEF RequestDocumentDelete
<1>2. <<NewDelete(FALSE)>> \in Seq(DeleteJob) /\ NewDelete(FALSE).status = "queued"
      /\ DOMAIN <<NewDelete(FALSE)>> = {1} /\ <<NewDelete(FALSE)>>[1] = NewDelete(FALSE)
    BY DEF NewDelete, DeleteJob, DeleteStatus
<1> DEFINE jobs == IF deletes[d] = <<>> THEN <<NewDelete(FALSE)>> ELSE deletes[d]
<1>3. /\ deletes' = [deletes EXCEPT ![d] = jobs]
      /\ jobs \in Seq(DeleteJob)
      /\ \A i \in DOMAIN jobs : jobs[i].status = "erased" =>
             i \in DOMAIN deletes[d] /\ deletes[d][i].status = "erased"
    <2>1. deletes' = [deletes EXCEPT ![d] = jobs] /\ deletes[d] \in Seq(DeleteJob)
        BY <1>1 DEF LibraryInv, LibraryTypeOK
    <2>2. CASE deletes[d] = <<>>
        <3>1. jobs = <<NewDelete(FALSE)>>
            BY <2>2
        <3>2. DOMAIN jobs = {1} /\ jobs[1].status = "queued"
            BY <1>2, <3>1
        <3> QED
            BY <1>2, <2>1, <3>1, <3>2
    <2>3. CASE deletes[d] # <<>>
        BY <2>1, <2>3
    <2> QED
        BY <2>2, <2>3
<1> HIDE DEF jobs
<1>4. LibraryTypeOK' /\ TombstoneLast'
    BY <1>1, <1>3 DEF LibraryInv, LibraryTypeOK, TombstoneLast, DocStatus
<1>5. doc[d] \in {"live", "deleting"}
    BY <1>1 DEF Remaining, WithStatus
<1>6. RowFirst'
    BY <1>1, <1>3, <1>5 DEF LibraryInv, LibraryTypeOK, RowFirst
<1>7. ErasedGone'
    BY <1>1, <1>3 DEF LibraryInv, LibraryTypeOK, ErasedGone
<1>8. Kept'
    BY <1>1 DEF LibraryInv, LibraryTypeOK, Kept, ObjectsAccounted, Remaining, WithStatus
<1> QED
    BY <1>4, <1>6, <1>7, <1>8 DEF LibraryInv

LEMMA RequestLibraryDeleteKeeps ==
    ASSUME LibraryInv, RequestLibraryDelete
    PROVE  LibraryInv'
PROOF
<1>1. library = "open" /\ UNCHANGED <<stored, objects, orphans>>
    BY DEF RequestLibraryDelete
<1>2. CASE /\ Remaining = {}
           /\ doc' = [d \in Docs |-> IF doc[d] = "deleted" THEN "gone" ELSE doc[d]]
           /\ deletes' = deletes
    <2>1. LibraryTypeOK' /\ RowFirst' /\ ErasedGone'
        BY <1>1, <1>2 DEF LibraryInv, LibraryTypeOK, DocStatus, RowFirst, ErasedGone
    <2>2. Remaining' = {}
        BY <1>2 DEF Remaining, WithStatus
    <2> QED
        BY <1>1, <1>2, <2>1, <2>2 DEF LibraryInv, TombstoneLast, Kept, ObjectsAccounted
<1>3. CASE /\ library' = "deleting"
           /\ doc' = [d \in Docs |-> IF doc[d] = "live" THEN "deleting" ELSE doc[d]]
           /\ deletes' = [d \in Docs |-> IF doc[d] = "live" THEN <<NewDelete(TRUE)>> ELSE deletes[d]]
    <2>1. <<NewDelete(TRUE)>> \in Seq(DeleteJob) /\ DOMAIN <<NewDelete(TRUE)>> = {1}
          /\ <<NewDelete(TRUE)>>[1].status # "erased"
        BY DEF NewDelete, DeleteJob, DeleteStatus
    <2>2. LibraryTypeOK' /\ TombstoneLast' /\ RowFirst'
        BY <1>1, <1>3, <2>1 DEF LibraryInv, LibraryTypeOK, DocStatus, TombstoneLast, RowFirst
    <2>3. ErasedGone'
        BY <1>1, <1>3, <2>1 DEF LibraryInv, LibraryTypeOK, ErasedGone
    <2>4. Remaining' = Remaining
        BY <1>3 DEF Remaining, WithStatus
    <2> QED
        BY <1>1, <2>2, <2>3, <2>4 DEF LibraryInv, Kept, ObjectsAccounted
<1> QED
    BY <1>2, <1>3 DEF RequestLibraryDelete

LEMMA RetryDeleteKeeps ==
    ASSUME LibraryInv, NEW d \in Docs, RetryDelete(d)
    PROVE  LibraryInv'
PROOF
<1> DEFINE byLibrary == library = "deleting" \/ deletes[d][latest[d]].byLibrary
<1>1. /\ doc[d] = "deleting"
      /\ deletes' = [deletes EXCEPT ![d] = Append(@, NewDelete(byLibrary))]
      /\ UNCHANGED <<library, doc, stored, objects, orphans>>
    BY DEF RetryDelete
<1>2. byLibrary \in BOOLEAN
    OBVIOUS
<1> HIDE DEF byLibrary
<1>3. NewDelete(byLibrary) \in DeleteJob /\ NewDelete(byLibrary).status = "queued"
    BY <1>2 DEF NewDelete, DeleteJob, DeleteStatus
<1> DEFINE jobs == Append(deletes[d], NewDelete(byLibrary))
<1>4. /\ deletes' = [deletes EXCEPT ![d] = jobs]
      /\ jobs \in Seq(DeleteJob)
      /\ \A i \in DOMAIN jobs : jobs[i].status = "erased" =>
             i \in DOMAIN deletes[d] /\ deletes[d][i].status = "erased"
    BY <1>1, <1>3 DEF LibraryInv, LibraryTypeOK
<1> HIDE DEF jobs
<1>5. LibraryTypeOK' /\ TombstoneLast' /\ RowFirst' /\ Kept'
    BY <1>1, <1>4 DEF LibraryInv, LibraryTypeOK, TombstoneLast, Remaining, WithStatus, RowFirst, Kept, ObjectsAccounted
<1>6. ErasedGone'
    BY <1>1, <1>4 DEF LibraryInv, LibraryTypeOK, ErasedGone
<1> QED
    BY <1>5, <1>6 DEF LibraryInv

LEMMA JobKeeps ==
    ASSUME LibraryInv, NEW d \in Docs, NEW i \in DOMAIN deletes[d],
           StartDelete(d, i) \/ EraseObject(d, i) \/ CompleteDelete(d, i) \/ FailDelete(d, i)
    PROVE  LibraryInv'
PROOF
<1>1. deletes[d] # <<>> /\ doc[d] # "none" /\ LibraryTypeOK
    BY DEF LibraryInv, RowFirst
<1> DEFINE Jobs(status) ==
        /\ deletes' \in [Docs -> Seq(DeleteJob)]
        /\ \A e \in Docs : DOMAIN deletes'[e] = DOMAIN deletes[e]
        /\ \A e \in Docs : e # d => deletes'[e] = deletes[e]
        /\ \A j \in DOMAIN deletes[d] :
              deletes'[d][j].status = IF j = i THEN status ELSE deletes[d][j].status
<1>2. ASSUME NEW status \in DeleteStatus, Becomes(d, i, status)
      PROVE  Jobs(status)
    BY <1>1, <1>2, OneJob
<1>3. CASE /\ UNCHANGED <<library, doc, stored, orphans>>
           /\ objects' \subseteq objects
           /\ \E status \in DeleteStatus :
                 Becomes(d, i, status) /\ (status = "erased" => d \notin objects')
    <2>1. PICK status \in DeleteStatus :
              Becomes(d, i, status) /\ (status = "erased" => d \notin objects')
        BY <1>3
    <2>2. Jobs(status)
        BY <1>2, <2>1
    <2>3. LibraryTypeOK' /\ TombstoneLast' /\ Kept'
        BY <1>3, <2>2 DEF LibraryInv, LibraryTypeOK, TombstoneLast, Remaining, WithStatus, Kept, ObjectsAccounted
    <2>4. RowFirst'
        BY <1>1, <1>3, <2>2 DEF LibraryInv, LibraryTypeOK, RowFirst
    <2>5. ErasedGone'
        BY <1>3, <2>1, <2>2 DEF LibraryInv, LibraryTypeOK, ErasedGone
    <2> QED
        BY <2>3, <2>4, <2>5 DEF LibraryInv
<1>4. CASE StartDelete(d, i)
    <2>1. PICK status \in {"failed", "erased", "running"} :
              Becomes(d, i, status) /\ (status = "erased" => doc[d] = "deleted")
        BY <1>4 DEF StartDelete, Scope
    <2>2. UNCHANGED <<library, doc, stored, orphans, objects>>
        BY <1>4 DEF StartDelete
    <2> QED
        BY <1>3, <2>1, <2>2 DEF DeleteStatus, LibraryInv, ErasedGone
<1>5. CASE EraseObject(d, i)
    BY <1>3, <1>5 DEF EraseObject, DeleteStatus
<1>6. CASE FailDelete(d, i)
    BY <1>3, <1>6 DEF FailDelete, DeleteStatus
<1>7. CASE CompleteDelete(d, i)
    <2>1. /\ deletes[d][i].status = "erased" /\ Becomes(d, i, "completed")
          /\ doc' = [doc EXCEPT ![d] = "deleted"]
          /\ library' = IF Finalized(d, i) THEN "deleted" ELSE Refreshed
          /\ UNCHANGED <<stored, objects, orphans>>
        BY <1>7 DEF CompleteDelete
    <2>2. Jobs("completed")
        BY <1>2, <2>1 DEF DeleteStatus
    <2>3. d \notin objects
        BY <2>1 DEF LibraryInv, ErasedGone
    <2>4. Remaining' = Remaining \ {d}
        BY <2>1 DEF Remaining, WithStatus, LibraryInv, LibraryTypeOK
    <2>5. LibraryTypeOK'
        BY <2>1, <2>2 DEF LibraryInv, LibraryTypeOK, DocStatus
    <2>6. TombstoneLast'
        BY <2>1, <2>4 DEF TombstoneLast, Finalized, Refreshed
    <2>7. RowFirst'
        BY <1>1, <2>1, <2>2 DEF LibraryInv, LibraryTypeOK, RowFirst
    <2>8. ErasedGone'
        BY <2>1, <2>2, <2>3 DEF LibraryInv, LibraryTypeOK, ErasedGone
    <2>9. Kept'
        BY <2>1, <2>3, <2>4 DEF LibraryInv, Kept, ObjectsAccounted
    <2> QED
        BY <2>5, <2>6, <2>7, <2>8, <2>9 DEF LibraryInv
<1> QED
    BY <1>4, <1>5, <1>6, <1>7

LEMMA PurgeKeeps ==
    ASSUME LibraryInv, PurgeLibrary \/ \E d \in Docs : PurgeDocument(d)
    PROVE  LibraryInv'
PROOF
<1>1. CASE PurgeLibrary
    <2>1. library' = "gone" /\ library = "deleted" /\ UNCHANGED <<doc, stored, objects, deletes, orphans>>
        BY <1>1 DEF PurgeLibrary
    <2> QED
        BY <2>1 DEF LibraryInv, LibraryTypeOK, TombstoneLast, Remaining, WithStatus, RowFirst, ErasedGone,
            Kept, ObjectsAccounted
<1>2. ASSUME NEW d \in Docs, PurgeDocument(d)
      PROVE  LibraryInv'
    <2>1. /\ doc[d] = "deleted" /\ doc' = [doc EXCEPT ![d] = "gone"]
          /\ UNCHANGED <<library, stored, objects, deletes, orphans>>
        BY <1>2 DEF PurgeDocument
    <2>2. Remaining' = Remaining
        BY <2>1 DEF Remaining, WithStatus, LibraryInv, LibraryTypeOK
    <2>3. LibraryTypeOK' /\ RowFirst' /\ ErasedGone'
        BY <2>1 DEF LibraryInv, LibraryTypeOK, DocStatus, RowFirst, ErasedGone
    <2> QED
        BY <2>1, <2>2, <2>3 DEF LibraryInv, TombstoneLast, Kept, ObjectsAccounted
<1> QED
    BY <1>1, <1>2

-----------------------------------------------------------------------------
LEMMA LibraryInvariant == LibrarySpec => []LibraryInv
PROOF
<1>1. LibraryInit => LibraryInv
    BY DEF LibraryInit, LibraryInv, LibraryTypeOK, DocStatus, TombstoneLast, RowFirst, ErasedGone, Kept, ObjectsAccounted
<1>2. LibraryInv /\ [LibraryNext]_libraryVars => LibraryInv'
    <2> SUFFICES ASSUME LibraryInv, [LibraryNext]_libraryVars
                 PROVE  LibraryInv'
        OBVIOUS
    <2>1. CASE UNCHANGED libraryVars
        BY <2>1 DEF libraryVars, LibraryInv, LibraryTypeOK, TombstoneLast, Remaining, WithStatus, RowFirst,
            ErasedGone, Kept, ObjectsAccounted
    <2>2. CASE LibraryNext
        BY <2>2, UploadKeeps, RefreshKeeps, RequestDocumentDeleteKeeps, RequestLibraryDeleteKeeps,
           RetryDeleteKeeps, JobKeeps, PurgeKeeps DEF LibraryNext, DeleteStep
    <2> QED
        BY <2>1, <2>2
<1> QED
    BY <1>1, <1>2, PTL DEF LibrarySpec

(***************************************************************************)
(* A library is deleted, or its row gone, only when none of its documents  *)
(* is left, whatever uploads, refreshes and second deletes run beside its  *)
(* delete.                                                                 *)
(***************************************************************************)
THEOREM NoDocumentBehindTheTombstone == LibrarySpec => []TombstoneLast
PROOF
<1>1. LibraryInv => TombstoneLast
    BY DEF LibraryInv
<1> QED
    BY <1>1, LibraryInvariant, PTL

(***************************************************************************)
(* An original in the storage belongs to a document, to an upload, or to   *)
(* an upload whose process died: no delete, retried or repeated, and no    *)
(* purge leaves one behind.                                                *)
(***************************************************************************)
THEOREM NoObjectOutlivesItsRow == LibrarySpec => []ObjectsAccounted
PROOF
<1>1. LibraryInv => ObjectsAccounted
    BY DEF LibraryInv, Kept
<1> QED
    BY <1>1, LibraryInvariant, PTL

(***************************************************************************)
(* Whatever uploads, refreshes, retries and purges run beside it, neither  *)
(* a document nor an original outlives the delete of its library.          *)
(***************************************************************************)
THEOREM NothingOutlivesItsLibrary == LibrarySpec => []NothingOutlives
PROOF
<1> QED
    BY NoDocumentBehindTheTombstone, NoObjectOutlivesItsRow, PTL DEF NothingOutlives

-----------------------------------------------------------------------------
(***************************************************************************)
(* The alert.  createTransition swallows a transition its generation has   *)
(* already had.  That is right only because no two transitions of one kind *)
(* are wanted in one generation: every transition on record is of the      *)
(* generation of the alert or an older one, an active alert has no end in  *)
(* its generation, and an escalation only once it is critical.             *)
(***************************************************************************)
Severities == {"warning", "critical"}
Transition == [kind : {"opened", "reopened", "escalated", "resolved"},
               severity : Severities, generation : Nat]
Delivery == [status : {"pending", "sending", "retry", "sent", "dead"},
             attempt : Nat, expired : BOOLEAN]

AlertTypeOK ==
    /\ alert \in [status : {"none", "active", "resolved"}, severity : Severities,
                  generation : Nat, healthy : Nat]
    /\ transitions \in Seq(Transition)

\* createTransition finds the kind in the generation only when it belongs there.
NothingSwallowed ==
    /\ \A i \in DOMAIN transitions :
          /\ transitions[i].generation <= alert.generation
          /\ transitions[i].generation = alert.generation /\ transitions[i].kind = "resolved"
                => alert.status = "resolved"
          /\ transitions[i].generation = alert.generation /\ transitions[i].kind = "escalated"
                => alert.severity = "critical"
    /\ alert.status # "none" => transitions # <<>>

\* The generation has not had a transition of this kind.
New(kind, generation) ==
    \A i \in DOMAIN transitions :
        ~(transitions[i].kind = kind /\ transitions[i].generation = generation)

\* The transition is the last on record, those before it stay.
Recorded(kind, severity, generation) ==
    /\ transitions' \in Seq(Transition) /\ transitions' # <<>>
    /\ transitions'[Len(transitions')] =
           [kind |-> kind, severity |-> severity, generation |-> generation]
    /\ DOMAIN transitions' = DOMAIN transitions \cup {Len(transitions')}
    /\ \A i \in DOMAIN transitions : transitions'[i] = transitions[i]

AlertInv == AlertTypeOK /\ NothingSwallowed /\ AlertAnnounced

-----------------------------------------------------------------------------
(* The evaluation of an alert                                                *)

\* A transition that its generation has not had is put on record.
LEMMA CreatedIsLast ==
    ASSUME AlertTypeOK, NEW kind \in {"opened", "reopened", "escalated", "resolved"},
           NEW severity \in Severities, NEW generation \in Nat,
           CreateTransition(kind, severity, generation), New(kind, generation)
    PROVE  Recorded(kind, severity, generation)
PROOF
<1> DEFINE t == [kind |-> kind, severity |-> severity, generation |-> generation]
<1>1. transitions' = Append(transitions, t)
    BY DEF CreateTransition, New
<1>2. t \in Transition
    BY DEF Transition
<1>3. transitions \in Seq(Transition)
    BY DEF AlertTypeOK
<1> HIDE DEF t
<1>4. /\ transitions' \in Seq(Transition) /\ transitions' # <<>>
      /\ transitions'[Len(transitions')] = t
      /\ DOMAIN transitions' = DOMAIN transitions \cup {Len(transitions')}
      /\ \A i \in DOMAIN transitions : transitions'[i] = transitions[i]
    BY <1>1, <1>2, <1>3
<1> QED
    BY <1>4 DEF Recorded, t

LEMMA OpensKeeps ==
    ASSUME AlertInv, NEW severity \in Severities, Opens(severity)
    PROVE  AlertInv'
PROOF
<1> DEFINE kind == IF alert.status = "none" THEN "opened" ELSE "reopened"
<1>1. /\ alert' = [status |-> "active", severity |-> severity,
                   generation |-> alert.generation + 1, healthy |-> 0]
      /\ alert.generation \in Nat /\ AlertTypeOK
    BY DEF Opens, AlertInv, AlertTypeOK
<1>2. New(kind, alert.generation + 1)
    <2>1. ASSUME NEW i \in DOMAIN transitions
          PROVE  transitions[i].generation # alert.generation + 1
        <3>1. transitions[i] \in Transition
            BY <1>1 DEF AlertTypeOK
        <3>2. transitions[i].generation \in Nat /\ transitions[i].generation <= alert.generation
            BY <3>1 DEF Transition, AlertInv, NothingSwallowed
        <3> QED
            BY <1>1, <3>2
    <2> QED
        BY <2>1 DEF New
<1>3. CreateTransition(kind, severity, alert.generation + 1)
    BY DEF Opens
<1>4. kind \in {"opened", "reopened"}
    OBVIOUS
<1>5. Recorded(kind, severity, alert.generation + 1)
    BY <1>1, <1>2, <1>3, <1>4, CreatedIsLast
<1> HIDE DEF kind
<1>6. AlertTypeOK'
    BY <1>1, <1>5 DEF AlertTypeOK, Recorded
<1>7. NothingSwallowed'
    <2>1. ASSUME NEW i \in DOMAIN transitions
          PROVE  /\ transitions'[i].generation <= alert'.generation
                 /\ transitions'[i].generation # alert'.generation
        <3>1. transitions[i] \in Transition
            BY <1>1 DEF AlertTypeOK
        <3>2. transitions[i].generation \in Nat /\ transitions[i].generation <= alert.generation
            BY <3>1 DEF Transition, AlertInv, NothingSwallowed
        <3> QED
            BY <1>1, <1>5, <3>2 DEF Recorded
    <2>2. /\ transitions'[Len(transitions')].generation <= alert'.generation
          /\ transitions'[Len(transitions')].kind \notin {"resolved", "escalated"}
        BY <1>1, <1>4, <1>5 DEF Recorded
    <2> QED
        BY <1>5, <2>1, <2>2 DEF NothingSwallowed, Recorded
<1>8. AlertAnnounced'
    BY <1>1, <1>4, <1>5 DEF AlertAnnounced, Recorded
<1> QED
    BY <1>6, <1>7, <1>8 DEF AlertInv

LEMMA ObservesKeeps ==
    ASSUME AlertInv, NEW severity \in Severities, Observes(severity)
    PROVE  AlertInv'
PROOF
<1> DEFINE escalated == severity = "critical" /\ alert.severity = "warning"
<1>1. /\ alert.status = "active"
      /\ alert' = [alert EXCEPT !.severity = IF escalated THEN severity ELSE @, !.healthy = 0]
      /\ AlertTypeOK
    BY DEF Observes, AlertInv
<1>2. CASE ~escalated
    <2>1. transitions' = transitions
        BY <1>2 DEF Observes
    <2>2. /\ alert'.status = alert.status /\ alert'.severity = alert.severity
          /\ alert'.generation = alert.generation
          /\ AlertTypeOK'
        BY <1>1, <1>2, <2>1 DEF AlertTypeOK
    <2> QED
        BY <2>1, <2>2 DEF AlertInv, NothingSwallowed, AlertAnnounced
<1>3. CASE escalated
    <2>1. CreateTransition("escalated", severity, alert.generation)
        BY <1>3 DEF Observes
    <2>2. /\ alert'.status = "active" /\ alert'.severity = "critical"
          /\ alert'.generation = alert.generation /\ alert.generation \in Nat
          /\ alert' \in [status : {"none", "active", "resolved"}, severity : Severities,
                         generation : Nat, healthy : Nat]
        BY <1>1, <1>3 DEF AlertTypeOK, Severities
    <2>3. New("escalated", alert.generation)
        BY <1>3 DEF AlertInv, NothingSwallowed, New
    <2>4. Recorded("escalated", severity, alert.generation)
        BY <1>1, <2>1, <2>2, <2>3, CreatedIsLast
    <2>5. AlertTypeOK'
        BY <2>2, <2>4 DEF AlertTypeOK, Recorded
    <2>6. NothingSwallowed'
        <3>1. ASSUME NEW i \in DOMAIN transitions
              PROVE  /\ transitions'[i].generation <= alert'.generation
                     /\ ~(transitions'[i].generation = alert'.generation
                            /\ transitions'[i].kind = "resolved")
            BY <1>1, <2>2, <2>4, <3>1 DEF AlertInv, NothingSwallowed, Recorded
        <3>2. /\ transitions'[Len(transitions')].generation <= alert'.generation
              /\ transitions'[Len(transitions')].kind = "escalated"
            BY <2>2, <2>4 DEF Recorded
        <3> QED
            BY <2>2, <2>4, <3>1, <3>2 DEF NothingSwallowed, Recorded
    <2>7. AlertAnnounced'
        BY <1>3, <2>2, <2>4 DEF AlertAnnounced, Recorded
    <2> QED
        BY <2>5, <2>6, <2>7 DEF AlertInv
<1> QED
    BY <1>2, <1>3

LEMMA RecoversKeeps ==
    ASSUME AlertInv, Recovers
    PROVE  AlertInv'
PROOF
<1>1. alert.status = "active" /\ AlertTypeOK
    BY DEF Recovers, AlertInv
<1>2. CASE alert.healthy + 1 < RecoveryCycles
    <2>1. alert' = [alert EXCEPT !.healthy = @ + 1] /\ transitions' = transitions
        BY <1>2 DEF Recovers
    <2>2. /\ alert'.status = alert.status /\ alert'.severity = alert.severity
          /\ alert'.generation = alert.generation
          /\ AlertTypeOK'
        BY <1>1, <2>1 DEF AlertTypeOK
    <2> QED
        BY <2>1, <2>2 DEF AlertInv, NothingSwallowed, AlertAnnounced
<1>3. CASE ~(alert.healthy + 1 < RecoveryCycles)
    <2>1. /\ alert' = [alert EXCEPT !.healthy = @ + 1, !.status = "resolved"]
          /\ CreateTransition("resolved", alert.severity, alert.generation)
        BY <1>3 DEF Recovers
    <2>2. /\ alert'.status = "resolved" /\ alert'.severity = alert.severity
          /\ alert'.generation = alert.generation
          /\ alert.generation \in Nat /\ alert.severity \in Severities
          /\ alert' \in [status : {"none", "active", "resolved"}, severity : Severities,
                         generation : Nat, healthy : Nat]
        <3>1. alert' = [status |-> "resolved", severity |-> alert.severity,
                        generation |-> alert.generation, healthy |-> alert.healthy + 1]
            BY <1>1, <2>1 DEF AlertTypeOK
        <3> QED
            BY <1>1, <3>1 DEF AlertTypeOK
    <2>3. New("resolved", alert.generation)
        BY <1>1 DEF AlertInv, NothingSwallowed, New
    <2>4. Recorded("resolved", alert.severity, alert.generation)
        BY <1>1, <2>1, <2>2, <2>3, CreatedIsLast
    <2>5. AlertTypeOK'
        BY <2>2, <2>4 DEF AlertTypeOK, Recorded
    <2>6. NothingSwallowed'
        <3>1. ASSUME NEW i \in DOMAIN transitions
              PROVE  /\ transitions'[i].generation <= alert'.generation
                     /\ transitions'[i].generation = alert'.generation
                           /\ transitions'[i].kind = "escalated" => alert'.severity = "critical"
            BY <2>2, <2>4, <3>1 DEF AlertInv, NothingSwallowed, Recorded
        <3>2. /\ transitions'[Len(transitions')].generation <= alert'.generation
              /\ transitions'[Len(transitions')].kind = "resolved"
            BY <2>2, <2>4 DEF Recorded
        <3> QED
            BY <2>2, <2>4, <3>1, <3>2 DEF NothingSwallowed, Recorded
    <2>7. AlertAnnounced'
        BY <2>2, <2>4 DEF AlertAnnounced, Recorded
    <2> QED
        BY <2>5, <2>6, <2>7 DEF AlertInv
<1> QED
    BY <1>2, <1>3

-----------------------------------------------------------------------------
(***************************************************************************)
(* The last transition on record is what the alert is now.                 *)
(***************************************************************************)
THEOREM AlertsAnnounced == AlertSpec => []AlertAnnounced
PROOF
<1>1. AlertInit => AlertInv
    BY DEF AlertInit, AlertInv, AlertTypeOK, Severities, NothingSwallowed, AlertAnnounced
<1>2. AlertInv /\ [AlertNext]_alertVars => AlertInv'
    <2> SUFFICES ASSUME AlertInv, [AlertNext]_alertVars
                 PROVE  AlertInv'
        OBVIOUS
    <2>1. CASE UNCHANGED <<alert, transitions>>
        BY <2>1 DEF AlertInv, AlertTypeOK, NothingSwallowed, AlertAnnounced
    <2>2. CASE Evaluate
        BY <2>2, OpensKeeps, ObservesKeeps, RecoversKeeps DEF Evaluate, Severities
    <2>3. [AlertNext]_alertVars => Evaluate \/ UNCHANGED <<alert, transitions>>
        BY DEF AlertNext, alertVars, Claim, Answered, Record, WorkerDies, LeaseExpires
    <2> QED
        BY <2>1, <2>2, <2>3
<1>3. AlertInv => AlertAnnounced
    BY DEF AlertInv
<1> QED
    BY <1>1, <1>2, <1>3, PTL DEF AlertSpec

-----------------------------------------------------------------------------
(* The deliveries                                                            *)

EndsKept ==
    \A i \in DOMAIN deliveries :
        deliveries[i].status \in DeliveryEnded => deliveries'[i] = deliveries[i]

\* One delivery is written; it is one that has not ended.
LEMMA OneWritten ==
    ASSUME deliveries \in Seq(Delivery), NEW i \in DOMAIN deliveries, NEW d \in Delivery,
           deliveries' = [deliveries EXCEPT ![i] = d],
           deliveries[i].status \notin DeliveryEnded
    PROVE  deliveries' \in Seq(Delivery) /\ EndsKept
PROOF
    BY DEF EndsKept

LEMMA DeliveryStep ==
    ASSUME deliveries \in Seq(Delivery), [AlertNext]_alertVars
    PROVE  deliveries' \in Seq(Delivery) /\ EndsKept
PROOF
<1>1. CASE UNCHANGED deliveries
    BY <1>1 DEF EndsKept
<1>2. CASE Evaluate
    <2>1. CASE deliveries' = Append(deliveries, [status |-> "pending", attempt |-> 0, expired |-> FALSE])
        <3>1. [status |-> "pending", attempt |-> 0, expired |-> FALSE] \in Delivery
            BY DEF Delivery
        <3> QED
            BY <2>1, <3>1 DEF EndsKept
    <2> QED
        BY <1>1, <1>2, <2>1 DEF Evaluate, Opens, Observes, Recovers, CreateTransition
<1>3. ASSUME NEW w \in Workers, Claim(w)
      PROVE  deliveries' \in Seq(Delivery) /\ EndsKept
    <2>1. PICK i \in DOMAIN deliveries :
              /\ Claimable(i)
              /\ deliveries' = [deliveries EXCEPT ![i] =
                    [status |-> "sending", attempt |-> @.attempt + 1, expired |-> FALSE]]
        BY <1>3 DEF Claim
    <2>2. deliveries[i] \in Delivery
        OBVIOUS
    <2>3. [status |-> "sending", attempt |-> deliveries[i].attempt + 1, expired |-> FALSE] \in Delivery
        BY <2>2 DEF Delivery
    <2>4. deliveries[i].status \notin DeliveryEnded
        BY <2>1 DEF Claimable, DeliveryEnded
    <2> QED
        BY <2>1, <2>3, <2>4, OneWritten
<1>4. ASSUME NEW w \in Workers, Record(w)
      PROVE  deliveries' \in Seq(Delivery) /\ EndsKept
    <2> DEFINE i == sending[w].delivery
    <2>1. CASE Leased(sending[w]) /\ i \in DOMAIN deliveries
        <3>1. deliveries' = [deliveries EXCEPT ![i] =
                  [@ EXCEPT !.status = Outcome(sending[w]), !.expired = FALSE]]
            BY <1>4, <2>1 DEF Record
        <3>2. deliveries[i] \in Delivery
            BY <2>1
        <3>3. [deliveries[i] EXCEPT !.status = Outcome(sending[w]), !.expired = FALSE] \in Delivery
            <4>1. Outcome(sending[w]) \in {"sent", "retry", "dead"}
                BY DEF Outcome
            <4> QED
                BY <3>2, <4>1 DEF Delivery
        <3>4. deliveries[i].status \notin DeliveryEnded
            BY <2>1 DEF Leased, DeliveryEnded
        <3> QED
            BY <2>1, <3>1, <3>3, <3>4, OneWritten
    <2>2. CASE ~(Leased(sending[w]) /\ i \in DOMAIN deliveries)
        <3>1. deliveries' = deliveries
            BY <1>4, <2>2 DEF Record
        <3> QED
            BY <1>1, <3>1
    <2> QED
        BY <2>1, <2>2
<1>5. ASSUME NEW i \in DOMAIN deliveries, LeaseExpires(i)
      PROVE  deliveries' \in Seq(Delivery) /\ EndsKept
    <2>1. deliveries' = [deliveries EXCEPT ![i] = [@ EXCEPT !.expired = TRUE]]
          /\ deliveries[i].status = "sending"
        BY <1>5 DEF LeaseExpires
    <2>2. deliveries[i] \in Delivery
        OBVIOUS
    <2>3. [deliveries[i] EXCEPT !.expired = TRUE] \in Delivery
        BY <2>2 DEF Delivery
    <2> QED
        BY <2>1, <2>3, OneWritten DEF DeliveryEnded
<1>6. ASSUME NEW w \in Workers, Answered(w) \/ WorkerDies(w)
      PROVE  UNCHANGED deliveries
    BY <1>6 DEF Answered, WorkerDies
<1> QED
    BY <1>1, <1>2, <1>3, <1>4, <1>5, <1>6 DEF AlertNext, alertVars

(***************************************************************************)
(* A delivery that was sent or given up stays so: no worker that outlived  *)
(* its lease writes it again.                                              *)
(***************************************************************************)
THEOREM EndedDeliveriesStay == AlertSpec => DeliveriesEndOnce
PROOF
<1>1. AlertInit => deliveries \in Seq(Delivery)
    BY DEF AlertInit
<1>2. deliveries \in Seq(Delivery) /\ [AlertNext]_alertVars => (deliveries \in Seq(Delivery))'
    BY DeliveryStep
<1>3. deliveries \in Seq(Delivery) /\ [AlertNext]_alertVars => [EndsKept]_alertVars
    BY DeliveryStep
<1>4. AlertSpec => [][EndsKept]_alertVars
    BY <1>1, <1>2, <1>3, PTL DEF AlertSpec
<1> QED
    BY <1>4 DEF DeliveriesEndOnce, EndsKept
=============================================================================
