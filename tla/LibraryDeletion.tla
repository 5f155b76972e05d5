--------------------------- MODULE LibraryDeletion ---------------------------
(***************************************************************************)
(* The life of a library's row: uploads, the deletes of its documents, its *)
(* own delete that fans out to them, the recomputations of its status, and *)
(* the purge of tombstones (src/src/app/api/libraries/[libraryId]/...,     *)
(* src/src/lib/server/library-access.ts, document-delete-enqueue.ts,       *)
(* src/src/worker/document-delete-ports.ts,                                *)
(* src/src/server/lifecycle/tombstone-repository.ts).                      *)
(*                                                                         *)
(* A transaction that locks the row is one action; only                    *)
(* refreshLibraryCounts works without the lock, in two statements.  The    *)
(* statuses of a library that accepts writes are one here, "open", and the *)
(* worker's refreshLibrary, which moves an open library among them, shows  *)
(* only in the completion of a delete.  What a delete does to its document *)
(* in detail is DocumentDelete's.                                          *)
(***************************************************************************)
EXTENDS Naturals, FiniteSets, Sequences

CONSTANTS
    Docs,           \* the documents that may be uploaded
    Refreshers,     \* the calls of refreshLibraryCounts
    MaxDeletes,     \* bound: delete jobs of one document
    MaxLibraryFaults \* bound: failed delete workflows, dead uploads

VARIABLES
    library,        \* libraries.status, "gone" without a row
    threads,        \* archived threads name the library
    doc,            \* documents.status, "none" before and "gone" after the row
    stored,         \* uploads between their object and their transaction
    objects,        \* originals in the object storage
    deletes,        \* the delete jobs of a document, the first by its key
    latest,         \* documents.latest_job_id, among them
    refresh,        \* what a refreshLibraryCounts has read
    orphans,        \* history variable: objects of uploads that died
    libraryFaults

libraryVars == <<library, threads, doc, stored, objects, deletes, latest, refresh,
                 orphans, libraryFaults>>

LibraryInit ==
    /\ library = "open"
    /\ threads \in BOOLEAN
    /\ doc = [d \in Docs |-> "none"]
    /\ stored = {} /\ objects = {} /\ orphans = {}
    /\ deletes = [d \in Docs |-> <<>>]
    /\ latest = [d \in Docs |-> 0]
    /\ refresh = [f \in Refreshers |-> "unused"]
    /\ libraryFaults = 0

LibraryFault == libraryFaults < MaxLibraryFaults /\ libraryFaults' = libraryFaults + 1

NewDelete(byLibrary) == [status |-> "queued", byLibrary |-> byLibrary]

WithStatus(status) == {d \in Docs : doc[d] = status}

\* Documents whose row does not say deleted.
Remaining == WithStatus("live") \cup WithStatus("deleting")

-----------------------------------------------------------------------------
(***************************************************************************)
(* An upload: the object first, while the library accepts it, then the     *)
(* transaction, which looks again, and takes the object back if it fails.  *)
(***************************************************************************)
StoreObject(d) ==
    /\ library = "open"
    /\ doc[d] = "none" /\ d \notin stored \cup orphans
    /\ stored' = stored \cup {d}
    /\ objects' = objects \cup {d}
    /\ UNCHANGED <<library, threads, doc, deletes, latest, refresh, orphans, libraryFaults>>

\* The look of the route before the object was stored is taken for enough.
MutantCommitUpload(d) ==
    /\ d \in stored
    /\ stored' = stored \ {d}
    /\ doc' = [doc EXCEPT ![d] = "live"]
    /\ UNCHANGED <<library, threads, objects, deletes, latest, refresh, orphans, libraryFaults>>

CommitUpload(d) ==
    /\ d \in stored
    /\ stored' = stored \ {d}
    /\ \/ /\ library = "open"
          /\ doc' = [doc EXCEPT ![d] = "live"]
          /\ UNCHANGED <<objects, orphans, libraryFaults>>
       \/ /\ IF library = "open" THEN LibraryFault ELSE UNCHANGED libraryFaults
          /\ objects' = objects \ {d}
          /\ UNCHANGED <<doc, orphans>>
    /\ UNCHANGED <<library, threads, deletes, latest, refresh>>

UploadDies(d) ==
    /\ d \in stored
    /\ LibraryFault
    /\ stored' = stored \ {d}
    /\ orphans' = orphans \cup {d}
    /\ UNCHANGED <<library, threads, doc, objects, deletes, latest, refresh>>

-----------------------------------------------------------------------------
(***************************************************************************)
(* refreshLibraryCounts follows a command that changed a document of an    *)
(* open library (a delete request, a cancelled job, a new version): one    *)
(* statement reads the status, a later one writes it.                      *)
(***************************************************************************)
Follows(f) == refresh[f] = "unused" /\ refresh' = [refresh EXCEPT ![f] = "called"]

CommandDone(f) ==
    /\ library = "open" /\ WithStatus("live") # {}
    /\ Follows(f)
    /\ UNCHANGED <<library, threads, doc, stored, objects, deletes, latest, orphans, libraryFaults>>

RefreshReads(f) ==
    /\ refresh[f] = "called"
    /\ refresh' = [refresh EXCEPT ![f] = IF library \in {"open", "deleting"} THEN library ELSE "over"]
    /\ UNCHANGED <<library, threads, doc, stored, objects, deletes, latest, orphans, libraryFaults>>

RefreshWrites(f) ==
    /\ refresh[f] \in {"open", "deleting"}
    /\ library' = IF library = "gone" THEN library ELSE refresh[f]
    /\ refresh' = [refresh EXCEPT ![f] = "over"]
    /\ UNCHANGED <<threads, doc, stored, objects, deletes, latest, orphans, libraryFaults>>

-----------------------------------------------------------------------------
(***************************************************************************)
(* DELETE of a document: enqueueDocumentDelete finds the first job by its  *)
(* key and makes it the latest again, or creates it.                       *)
(***************************************************************************)
RequestDocumentDelete(d) ==
    /\ library = "open"
    /\ d \in Remaining
    /\ doc' = [doc EXCEPT ![d] = "deleting"]
    /\ deletes' = [deletes EXCEPT ![d] = IF @ = <<>> THEN <<NewDelete(FALSE)>> ELSE @]
    /\ latest' = [latest EXCEPT ![d] = 1]
    /\ (\E f \in Refreshers : Follows(f)) \/ UNCHANGED refresh
    /\ UNCHANGED <<library, threads, stored, objects, orphans, libraryFaults>>

(***************************************************************************)
(* DELETE of the library: the row at once when every document is a         *)
(* tombstone (its foreign keys take those along, and forbid it while       *)
(* archived threads name the library), else a tombstone and a delete job   *)
(* for each live document.                                                 *)
(***************************************************************************)
RequestLibraryDelete ==
    /\ library = "open"
    /\ \/ /\ Remaining = {}
          /\ ~threads
          /\ library' = "gone"
          /\ doc' = [d \in Docs |-> IF doc[d] = "deleted" THEN "gone" ELSE doc[d]]
          /\ UNCHANGED <<deletes, latest>>
       \/ /\ Remaining # {}
          /\ library' = "deleting"
          /\ doc' = [d \in Docs |-> IF doc[d] = "live" THEN "deleting" ELSE doc[d]]
          /\ deletes' = [d \in Docs |-> IF doc[d] = "live" THEN <<NewDelete(TRUE)>> ELSE deletes[d]]
          /\ latest' = [d \in Docs |-> IF doc[d] = "live" THEN 1 ELSE latest[d]]
    /\ UNCHANGED <<threads, stored, objects, refresh, orphans, libraryFaults>>

\* An operator retries the failed job the document names.
RetryDelete(d) ==
    /\ doc[d] = "deleting"
    /\ deletes[d][latest[d]].status = "failed"
    /\ Len(deletes[d]) < MaxDeletes
    /\ deletes' = [deletes EXCEPT ![d] = Append(@, NewDelete(library = "deleting" \/ @[latest[d]].byLibrary))]
    /\ latest' = [latest EXCEPT ![d] = Len(deletes'[d])]
    /\ UNCHANGED <<library, threads, doc, stored, objects, refresh, orphans, libraryFaults>>

-----------------------------------------------------------------------------
(***************************************************************************)
(* The delete workflow.  Without the rows of its scope, which a purge may  *)
(* have taken, each of its transactions fails it.                          *)
(***************************************************************************)
Scope(d) == doc[d] # "gone"

Becomes(d, i, status) == deletes' = [deletes EXCEPT ![d][i].status = status]

StartDelete(d, i) ==
    /\ deletes[d][i].status = "queued"
    /\ Becomes(d, i, CASE ~Scope(d) -> "failed"
                       [] doc[d] = "deleted" -> "erased"
                       [] OTHER -> "running")
    /\ UNCHANGED <<library, threads, doc, stored, objects, latest, refresh, orphans, libraryFaults>>

EraseObject(d, i) ==
    /\ deletes[d][i].status = "running"
    /\ Becomes(d, i, "erased")
    /\ objects' = objects \ {d}
    /\ UNCHANGED <<library, threads, doc, stored, latest, refresh, orphans, libraryFaults>>

\* refreshLibrary keeps a deleting library deleting, and opens any other.
Refreshed == IF library = "deleting" THEN "deleting" ELSE "open"

\* Only the jobs of the library's own delete end it.
MutantFinalized(d, i) == deletes[d][i].byLibrary /\ Remaining \ {d} = {} /\ Refreshed = "deleting"

Finalized(d, i) ==
    /\ library = "deleting" \/ deletes[d][i].byLibrary
    /\ Remaining \ {d} = {}
    /\ Refreshed = "deleting"

CompleteDelete(d, i) ==
    /\ deletes[d][i].status = "erased"
    /\ Scope(d)
    /\ Becomes(d, i, "completed")
    /\ doc' = [doc EXCEPT ![d] = "deleted"]
    /\ library' = IF Finalized(d, i) THEN "deleted" ELSE Refreshed
    /\ UNCHANGED <<threads, stored, objects, latest, refresh, orphans, libraryFaults>>

FailDelete(d, i) ==
    /\ deletes[d][i].status \in {"running", "erased"}
    /\ IF Scope(d) THEN LibraryFault ELSE UNCHANGED libraryFaults
    /\ Becomes(d, i, "failed")
    /\ UNCHANGED <<library, threads, doc, stored, objects, latest, refresh, orphans>>

DeleteStep(d) == \E i \in DOMAIN deletes[d] :
    StartDelete(d, i) \/ EraseObject(d, i) \/ CompleteDelete(d, i)

-----------------------------------------------------------------------------
(***************************************************************************)
(* The hourly purge of old tombstones: documents, then libraries that      *)
(* nothing names any more.  How old they are is not measured.              *)
(***************************************************************************)
PurgeDocument(d) ==
    /\ doc[d] = "deleted"
    /\ doc' = [doc EXCEPT ![d] = "gone"]
    /\ UNCHANGED <<library, threads, stored, objects, deletes, latest, refresh, orphans, libraryFaults>>

PurgeLibrary ==
    /\ library = "deleted"
    /\ ~threads
    /\ \A d \in Docs : doc[d] \in {"none", "gone"}
    /\ library' = "gone"
    /\ UNCHANGED <<threads, doc, stored, objects, deletes, latest, refresh, orphans, libraryFaults>>

LibraryNext ==
    \/ RequestLibraryDelete \/ PurgeLibrary
    \/ \E f \in Refreshers : CommandDone(f) \/ RefreshReads(f) \/ RefreshWrites(f)
    \/ \E d \in Docs :
          \/ StoreObject(d) \/ CommitUpload(d) \/ UploadDies(d)
          \/ RequestDocumentDelete(d) \/ RetryDelete(d) \/ PurgeDocument(d)
          \/ DeleteStep(d)
          \/ \E i \in DOMAIN deletes[d] : FailDelete(d, i)

(***************************************************************************)
(* DBOS runs every delete job to its end.  Nobody has to retry one.        *)
(***************************************************************************)
LibraryFairness == \A d \in Docs : WF_libraryVars(DeleteStep(d))

LibrarySpec == LibraryInit /\ [][LibraryNext]_libraryVars /\ LibraryFairness

-----------------------------------------------------------------------------
(***************************************************************************)
(* A library is deleted only when all its documents are: no upload that    *)
(* was under way when the delete came in, no refresh from before it, and   *)
(* no second delete of a document leaves a live document behind the        *)
(* tombstone.                                                              *)
(***************************************************************************)
TombstoneLast == library \in {"deleted", "gone"} => Remaining = {}

(***************************************************************************)
(* Every original in the storage belongs to a document that is not deleted *)
(* or to an upload under way, so that nothing outlives the rows that would *)
(* lead to it; unless the process died between the object and its row.     *)
(***************************************************************************)
ObjectsAccounted == objects \subseteq stored \cup Remaining \cup orphans

\* Neither a document nor an original outlives its library's delete.
NothingOutlives == TombstoneLast /\ ObjectsAccounted

(***************************************************************************)
(* A library delete ends, or waits for a document whose delete failed and  *)
(* can be retried, unless a refreshLibraryCounts was called, which may put *)
(* the tombstone back after the end.                                       *)
(***************************************************************************)
Retryable(d) == doc[d] = "deleting" /\ deletes[d][latest[d]].status = "failed"

LibraryDeleteEnds ==
    library = "deleting" ~>
        \/ library # "deleting"
        \/ \E d \in Docs : Retryable(d)
        \/ \E f \in Refreshers : refresh[f] # "unused"

(***************************************************************************)
(* What tests/ts-core/document-delete-postgres.test.ts:887 says of the     *)
(* tombstone, of every writer: a library that is being deleted, or is      *)
(* deleted, does not accept writes again.                                  *)
(***************************************************************************)
DeletionWins ==
    [][(library \in {"deleting", "deleted"} => library' # "open")]_libraryVars
=============================================================================
