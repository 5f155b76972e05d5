---------------------------- MODULE SourceObjects ----------------------------
(***************************************************************************)
(* The originals of one document in the object storage, and the requests   *)
(* that store, reuse, look for and send them while the document may be     *)
(* deleted (src/src/app/api/libraries/[libraryId]/documents/[documentId]/  *)
(* versions and reindex, src/src/app/api/jobs/[jobId]/retry,               *)
(* src/src/server/http/document, src/src/lib/server/                       *)
(* document-version-command.ts, src/src/core/object-storage).              *)
(*                                                                         *)
(* A key names the request whose upload it holds, "first" the one that     *)
(* created the document; a reindex gives a second version the same key.    *)
(* Every access to the storage and every transaction is a step.  What an   *)
(* ingest does is IngestWorkflow's: here it ends, and publishes or not.    *)
(***************************************************************************)
EXTENDS Naturals, Sequences, FiniteSets

CONSTANTS
    Requests,       \* the requests that may arrive
    MaxVersions,    \* bound: versions of the document
    MaxSourceFaults \* bound: dead processes, lost answers, failed calls

VARIABLES
    driver,         \* the storage, "local" or "cos"
    original,       \* documents.status: "live", "deleting", "deleted"
    versions,       \* the keys of its versions, in their order
    indexing,       \* the ingest of the newest version has not ended
    published,      \* the published version, 0 if there is none
    sources,        \* keys with an object
    parts,          \* requests with a temporary file
    requests,       \* each request: what it wants, where it is, the version it saw
    toErase,        \* keys the delete has listed and not yet erased
    inDoubt,        \* history variable: uploads committed without an answer
    lost,           \* history variable: objects nobody took back
    sourceFaults

sourceVars == <<driver, original, versions, indexing, published, sources, parts,
                requests, toErase, inDoubt, lost, sourceFaults>>

FirstKey == "first"

ASSUME SourceAssumption == FirstKey \notin Requests

NotYet == [wants |-> "nothing", at |-> "idle", seen |-> 0]
Wishes == {"replace", "reindex", "retry", "download"}

SourceInit ==
    /\ driver \in {"local", "cos"}
    /\ original = "live" /\ versions = <<FirstKey>> /\ indexing = TRUE
    /\ published = 0 /\ sources = {FirstKey} /\ parts = {}
    /\ requests = [r \in Requests |-> NotYet]
    /\ toErase = {} /\ inDoubt = {} /\ lost = {}
    /\ sourceFaults = 0

Keys == {versions[i] : i \in DOMAIN versions}
At(r, place) == requests[r].at = place
Wants(r, wish) == requests[r].wants = wish
MoveTo(r, place) == requests' = [requests EXCEPT ![r].at = place]
SourceFault == sourceFaults < MaxSourceFaults /\ sourceFaults' = sourceFaults + 1

-----------------------------------------------------------------------------
(***************************************************************************)
(* The look of a route before it does anything: a reindex sees a document  *)
(* that is not deleted, a replacement one that is not being deleted        *)
(* either, a retry one whose newest ingest has failed, a download the      *)
(* published version.                                                      *)
(***************************************************************************)
SeenBy(wish) ==
    CASE wish = "replace" -> original = "live"
      [] wish = "reindex" -> original # "deleted"
      [] wish = "retry" -> original # "deleted" /\ ~indexing
      [] wish = "download" -> original = "live" /\ published > 0

LookAt(r, wish) ==
    /\ At(r, "idle")
    /\ SeenBy(wish)
    /\ requests' = [requests EXCEPT ![r] =
          [wants |-> wish, at |-> "looked",
           seen |-> IF wish = "download" THEN published ELSE Len(versions)]]
    /\ UNCHANGED <<driver, original, versions, indexing, published, sources, parts, toErase,
                   inDoubt, lost, sourceFaults>>

(***************************************************************************)
(* putFile.  The local storage writes beside the key, looks at the content *)
(* and renames; COS has the object before its content is looked at, and    *)
(* takes it back, if it can.                                               *)
(***************************************************************************)
BeginPut(r) ==
    /\ At(r, "looked") /\ Wants(r, "replace")
    /\ MoveTo(r, "writing")
    /\ parts' = IF driver = "local" THEN parts \cup {r} ELSE parts
    /\ UNCHANGED <<driver, original, versions, indexing, published, sources, toErase,
                   inDoubt, lost, sourceFaults>>

\* The caller went away, the file is too long, or it is not what its name says.
PutRefused(r) ==
    /\ At(r, "writing")
    /\ MoveTo(r, "failed")
    /\ parts' = parts \ {r}
    /\ UNCHANGED <<driver, original, versions, indexing, published, sources, toErase,
                   inDoubt, lost, sourceFaults>>

PutDone(r) ==
    /\ At(r, "writing")
    /\ MoveTo(r, IF driver = "local" THEN "stored" ELSE "uploaded")
    /\ parts' = parts \ {r}
    /\ sources' = sources \cup {r}
    /\ UNCHANGED <<driver, original, versions, indexing, published, toErase, inDoubt, lost,
                   sourceFaults>>

\* An object that has to go goes, or the failed call is ignored.
TakenBack(r) ==
    \/ sources' = sources \ {r} /\ UNCHANGED <<lost, sourceFaults>>
    \/ SourceFault /\ lost' = lost \cup {r} /\ UNCHANGED sources

CheckContent(r) ==
    /\ At(r, "uploaded")
    /\ \/ MoveTo(r, "stored") /\ UNCHANGED <<sources, lost, sourceFaults>>
       \/ MoveTo(r, "failed") /\ TakenBack(r)
    /\ UNCHANGED <<driver, original, versions, indexing, published, parts, toErase, inDoubt>>

-----------------------------------------------------------------------------
(***************************************************************************)
(* createDocumentVersion: under the locks of library and document it looks *)
(* at the document again; a reindex also wants it settled, and takes the   *)
(* key of the newest version.  A commit whose answer is lost looks like a  *)
(* failure to the route.                                                   *)
(***************************************************************************)
\* The look of the route is taken for enough (a mutant).
MutantTakesVersion(r) == TRUE

TakesVersion(r) ==
    /\ original = "live"
    /\ Wants(r, "reindex") => ~indexing

SourceOf(r) == IF Wants(r, "reindex") THEN versions[Len(versions)] ELSE r

Ready(r) == At(r, "stored") \/ (At(r, "looked") /\ Wants(r, "reindex"))

AfterFailure(r) == IF Wants(r, "replace") THEN "undo" ELSE "failed"

CreateVersion(r) ==
    /\ Ready(r) /\ TakesVersion(r)
    /\ Len(versions) < MaxVersions
    /\ versions' = Append(versions, SourceOf(r))
    /\ indexing' = TRUE
    /\ \/ MoveTo(r, "created") /\ UNCHANGED <<inDoubt, sourceFaults>>
       \/ SourceFault /\ MoveTo(r, AfterFailure(r)) /\ inDoubt' = inDoubt \cup {r}
    /\ UNCHANGED <<driver, original, published, sources, parts, toErase, lost>>

VersionRefused(r) ==
    /\ Ready(r)
    /\ IF TakesVersion(r) THEN SourceFault ELSE UNCHANGED sourceFaults
    /\ MoveTo(r, AfterFailure(r))
    /\ UNCHANGED <<driver, original, versions, indexing, published, sources, parts, toErase,
                   inDoubt, lost>>

\* The route takes back what it stored.
Undo(r) ==
    /\ At(r, "undo")
    /\ MoveTo(r, "failed")
    /\ TakenBack(r)
    /\ UNCHANGED <<driver, original, versions, indexing, published, parts, toErase, inDoubt>>

RequestDies(r) ==
    /\ requests[r].at \in {"writing", "uploaded", "stored", "undo"}
    /\ SourceFault
    /\ MoveTo(r, "dead")
    /\ lost' = IF r \in sources THEN lost \cup {r} ELSE lost
    /\ UNCHANGED <<driver, original, versions, indexing, published, sources, parts, toErase, inDoubt>>

-----------------------------------------------------------------------------
(***************************************************************************)
(* Retry of a failed ingest: it looks for the object before its            *)
(* transaction, which wants the document to be as it was seen.             *)
(***************************************************************************)
RetryLooksForSource(r) ==
    /\ At(r, "looked") /\ Wants(r, "retry")
    /\ MoveTo(r, IF versions[requests[r].seen] \in sources THEN "present" ELSE "failed")
    /\ UNCHANGED <<driver, original, versions, indexing, published, sources, parts, toErase,
                   inDoubt, lost, sourceFaults>>

RetryCommits(r) ==
    /\ At(r, "present") /\ Wants(r, "retry")
    /\ IF original = "live" /\ requests[r].seen = Len(versions) /\ ~indexing
       THEN MoveTo(r, "created") /\ indexing' = TRUE
       ELSE MoveTo(r, "failed") /\ UNCHANGED indexing
    /\ UNCHANGED <<driver, original, versions, published, sources, parts, toErase, inDoubt, lost,
                   sourceFaults>>

(***************************************************************************)
(* A download: is there an object, how long is it, and the stream.  Each   *)
(* asks the storage again, with the key read at first.                     *)
(***************************************************************************)
DownloadNext == [looked |-> "present", present |-> "measured", measured |-> "sent"]

DownloadStep(r) ==
    /\ Wants(r, "download") /\ requests[r].at \in DOMAIN DownloadNext
    /\ MoveTo(r, IF versions[requests[r].seen] \in sources
                 THEN DownloadNext[requests[r].at] ELSE "failed")
    /\ UNCHANGED <<driver, original, versions, indexing, published, sources, parts, toErase,
                   inDoubt, lost, sourceFaults>>

\* The ingest of the newest version loads its source, and publishes it or fails.
IngestEnds ==
    /\ original = "live" /\ indexing
    /\ indexing' = FALSE
    /\ \/ published' = Len(versions) /\ versions[Len(versions)] \in sources
       \/ UNCHANGED published
    /\ UNCHANGED <<driver, original, versions, sources, parts, requests, toErase, inDoubt,
                   lost, sourceFaults>>

-----------------------------------------------------------------------------
(***************************************************************************)
(* The delete of the document: closed first, then drained and its keys     *)
(* listed, each erased, and the tombstone.                                 *)
(***************************************************************************)
CloseDocument ==
    /\ original = "live"
    /\ original' = "deleting"
    /\ UNCHANGED <<driver, versions, indexing, published, sources, parts, requests, toErase,
                   inDoubt, lost, sourceFaults>>

ListSources ==
    /\ original = "deleting" /\ (indexing \/ published > 0 \/ toErase = {})
    /\ indexing' = FALSE /\ published' = 0
    /\ toErase' = Keys
    /\ UNCHANGED <<driver, original, versions, sources, parts, requests, inDoubt, lost,
                   sourceFaults>>

EraseSource(key) ==
    /\ original = "deleting" /\ key \in toErase
    /\ sources' = sources \ {key}
    /\ toErase' = toErase \ {key}
    /\ original' = IF toErase' = {} THEN "deleted" ELSE original
    /\ UNCHANGED <<driver, versions, indexing, published, parts, requests, inDoubt, lost, sourceFaults>>

SourceNext ==
    \/ \E r \in Requests :
          \/ \E wish \in Wishes : LookAt(r, wish)
          \/ BeginPut(r) \/ PutRefused(r) \/ PutDone(r) \/ CheckContent(r)
          \/ CreateVersion(r) \/ VersionRefused(r) \/ Undo(r) \/ RequestDies(r)
          \/ RetryLooksForSource(r) \/ RetryCommits(r) \/ DownloadStep(r)
    \/ IngestEnds
    \/ CloseDocument \/ ListSources
    \/ \E key \in toErase : EraseSource(key)

SourceSpec == SourceInit /\ [][SourceNext]_sourceVars

-----------------------------------------------------------------------------
SourceTypeOK ==
    /\ original \in {"live", "deleting", "deleted"}
    /\ Keys \subseteq Requests \cup {FirstKey} /\ sources \subseteq Requests \cup {FirstKey}
    /\ published \in 0..Len(versions) /\ indexing \in BOOLEAN
    /\ parts \cup inDoubt \cup lost \subseteq Requests

\* Requests between their object and the answer of the transaction.
Holding == {r \in Requests : requests[r].at \in {"uploaded", "stored", "undo"}}

\* Every version of a live document has its original, whoever reuses or takes
\* back objects; only an upload whose commit was not answered is erased under
\* its version (the routes' catch).
OriginalsKept ==
    original = "live" => Keys \subseteq sources \cup inDoubt

\* Every object in the storage is the original of a version, in the hands of a
\* request, or one a dead process or a failed call has left; a deleted document
\* leaves none of its versions' (the delete lists the keys of a closed document).
ObjectsAreOwned ==
    /\ sources \subseteq Keys \cup Holding \cup lost
    /\ original = "deleted" => sources \cap Keys = {}
    /\ \A r \in parts : requests[r].at \in {"writing", "dead"}

\* A download that has begun ends with the file as long as the document lives.
DownloadsEndWell ==
    \A r \in Requests :
        (Wants(r, "download") /\ At(r, "failed") /\ original = "live") => inDoubt # {}

\* Originals are kept as long as a version needs them and no longer, under
\* replacements, reindexes, retries, downloads and the delete of the document.
SourcesKept == SourceTypeOK /\ OriginalsKept /\ ObjectsAreOwned /\ DownloadsEndWell
=============================================================================
