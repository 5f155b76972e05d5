--------------------------- MODULE Requests_proofs ---------------------------
(***************************************************************************)
(* What overlapping requests leave behind, for any number of them, of      *)
(* users' passwords and of faults: the originals of a document, the calls  *)
(* of the Knowledge API, and the account of a user.                        *)
(***************************************************************************)
EXTENDS SourceObjects, KnowledgeApi, Accounts, FiniteSetTheorems, TLAPS

(***************************************************************************)
(* The originals.  That a version keeps its object rests on whose object   *)
(* it is: a request has one from its upload on, and its key belongs to a   *)
(* version only once it is created, or when the answer of the transaction  *)
(* was lost, and only then may it be taken back beside a row that wants it.*)
(***************************************************************************)
Places == {"idle", "looked", "writing", "uploaded", "stored", "undo", "created", "failed",
           "dead", "present", "measured", "sent"}

SourceRows ==
    /\ original \in {"live", "deleting", "deleted"} /\ indexing \in BOOLEAN
    /\ versions \in Seq(Requests \cup {FirstKey}) /\ Len(versions) > 0
    /\ published \in 0..Len(versions)
    /\ sources \subseteq Requests \cup {FirstKey}
    /\ parts \subseteq Requests /\ inDoubt \subseteq Requests /\ lost \subseteq Requests
    /\ requests \in [Requests -> [wants : Wishes \cup {"nothing"}, at : Places, seen : Nat]]

\* Where a request stands tells what it wants, and a download knows a version.
WishesByPlace ==
    \A r \in Requests :
        /\ requests[r].at \in {"writing", "uploaded", "stored", "undo"} => Wants(r, "replace")
        /\ requests[r].at = "present" => requests[r].wants \in {"retry", "download"}
        /\ requests[r].at = "measured" => Wants(r, "download")
        /\ Wants(r, "download") => requests[r].seen \in 1..Len(versions)

\* A request has its object from the upload on; its key is a version's once it
\* is created, or when the answer of the transaction was lost.
KeysByPlace ==
    \A r \in Requests :
        /\ requests[r].at \in {"uploaded", "stored"} => r \in sources
        /\ r \in Keys => \/ requests[r].at = "created"
                         \/ requests[r].at \in {"undo", "failed", "dead"} /\ r \in inDoubt

\* The delete has listed every original that is still there.
ListedAll ==
    /\ toErase \subseteq Keys
    /\ original = "live" => toErase = {}
    /\ (original = "deleting" /\ toErase # {}) => Keys \cap sources \subseteq toErase

SourceInv ==
    /\ SourceRows /\ WishesByPlace /\ KeysByPlace /\ ListedAll
    /\ OriginalsKept /\ ObjectsAreOwned /\ DownloadsEndWell

USE DEF At, Wants

\* MoveTo changes where one request is and nothing else of it or of the others.
LEMMA Moved ==
    ASSUME SourceRows, NEW r \in Requests, NEW p \in Places, MoveTo(r, p)
    PROVE  /\ requests' \in [Requests -> [wants : Wishes \cup {"nothing"}, at : Places, seen : Nat]]
           /\ requests'[r].at = p
           /\ requests'[r].wants = requests[r].wants /\ requests'[r].seen = requests[r].seen
           /\ \A q \in Requests \ {r} : requests'[q] = requests[q]
BY DEF SourceRows, MoveTo

\* The keys of a document with one more version.
LEMMA KeysAfterVersion ==
    ASSUME SourceRows, NEW k \in Requests \cup {FirstKey}, versions' = Append(versions, k)
    PROVE  /\ Keys' = Keys \cup {k}
           /\ versions' \in Seq(Requests \cup {FirstKey}) /\ Len(versions') = Len(versions) + 1
<1>1. /\ versions' \in Seq(Requests \cup {FirstKey}) /\ Len(versions') = Len(versions) + 1
      /\ \A i \in 1..Len(versions) : versions'[i] = versions[i]
      /\ versions'[Len(versions) + 1] = k
      /\ DOMAIN versions' = 1..Len(versions) + 1 /\ DOMAIN versions = 1..Len(versions)
      /\ Len(versions) \in Nat
  BY DEF SourceRows
<1>2. \A i \in DOMAIN versions' : i \in DOMAIN versions \/ i = Len(versions) + 1
  BY <1>1
<1>3. Len(versions) + 1 \in DOMAIN versions' /\ \A i \in DOMAIN versions : i \in DOMAIN versions'
  BY <1>1
<1>4. Keys' \subseteq Keys \cup {k}  BY <1>1, <1>2 DEF Keys
<1>5. Keys \cup {k} \subseteq Keys'
  <2> SUFFICES ASSUME NEW x \in Keys \cup {k} PROVE \E i \in DOMAIN versions' : x = versions'[i]
    BY DEF Keys
  <2>1. CASE x = k  BY <1>1, <1>3, <2>1
  <2>2. CASE x \in Keys  BY <1>1, <1>3, <2>2 DEF Keys
  <2> QED  BY <2>1, <2>2
<1> QED  BY <1>1, <1>4, <1>5

LEMMA SomeVersion == SourceRows => Len(versions) \in Nat \ {0}
BY DEF SourceRows

LEMMA KeyOfVersion ==
    ASSUME SourceRows
    PROVE  /\ Keys \subseteq Requests \cup {FirstKey} /\ Keys # {}
           /\ \A i \in 1..Len(versions) : versions[i] \in Keys
<1>1. DOMAIN versions = 1..Len(versions) /\ 1 \in DOMAIN versions
      /\ \A i \in DOMAIN versions : versions[i] \in Requests \cup {FirstKey}
  BY DEF SourceRows
<1> QED  BY <1>1 DEF Keys

\* Initially.
LEMMA SourceInitInv == SourceInit => SourceInv
<1> SUFFICES ASSUME SourceInit PROVE SourceInv  OBVIOUS
<1> USE DEF SourceInit
<1>1. SourceRows  BY DEF SourceRows, NotYet, Places
<1>2. Keys = {FirstKey}  BY DEF Keys
<1>3. WishesByPlace  BY DEF WishesByPlace, NotYet
<1>4. KeysByPlace /\ ListedAll  BY <1>2, SourceAssumption DEF KeysByPlace, ListedAll, NotYet
<1>5. OriginalsKept /\ ObjectsAreOwned /\ DownloadsEndWell
  BY <1>2 DEF OriginalsKept, ObjectsAreOwned, DownloadsEndWell, NotYet, Holding
<1> QED  BY <1>1, <1>3, <1>4, <1>5 DEF SourceInv

LEMMA LookInv ==
    ASSUME SourceInv, NEW r \in Requests, NEW wish \in Wishes, LookAt(r, wish)
    PROVE  SourceInv'
<1> USE DEF SourceInv, LookAt
<1>1. Keys' = Keys  BY DEF Keys
<1>2. /\ requests' \in [Requests -> [wants : Wishes \cup {"nothing"}, at : Places, seen : Nat]]
      /\ requests'[r].at = "looked" /\ requests[r].at = "idle" /\ requests'[r].wants = wish
      /\ wish = "download" => requests'[r].seen \in 1..Len(versions)
      /\ \A q \in Requests \ {r} : requests'[q] = requests[q]
  <2> DEFINE v == IF wish = "download" THEN published ELSE Len(versions)
  <2>1. v \in Nat /\ (wish = "download" => v \in 1..Len(versions))
    <3>1. Len(versions) \in Nat \ {0} /\ published \in 0..Len(versions)
      BY SomeVersion DEF SourceRows
    <3>2. wish = "download" => published > 0  BY DEF SeenBy
    <3> QED  BY <3>1, <3>2
  <2>2. requests' = [requests EXCEPT ![r] = [wants |-> wish, at |-> "looked", seen |-> v]]
    OBVIOUS
  <2> HIDE DEF v
  <2> QED  BY <2>1, <2>2 DEF SourceRows, Places
<1>3. SourceRows'  BY <1>2 DEF SourceRows
<1>4. WishesByPlace'  BY <1>2 DEF WishesByPlace
<1>5. KeysByPlace' /\ ListedAll'  BY <1>1, <1>2 DEF KeysByPlace, ListedAll
<1>6. Holding' = Holding  BY <1>2 DEF Holding
<1>7. OriginalsKept' /\ ObjectsAreOwned' /\ DownloadsEndWell'
  BY <1>1, <1>2, <1>6 DEF OriginalsKept, ObjectsAreOwned, DownloadsEndWell
<1> QED  BY <1>3, <1>4, <1>5, <1>7

LEMMA PutInv ==
    ASSUME SourceInv, NEW r \in Requests,
           BeginPut(r) \/ PutRefused(r) \/ PutDone(r) \/ CheckContent(r)
    PROVE  SourceInv'
<1> USE DEF SourceInv
<1>1. Keys' = Keys  BY DEF Keys, BeginPut, PutRefused, PutDone, CheckContent
<1>2. CASE BeginPut(r)
  <2> USE <1>2 DEF BeginPut
  <2>1. MoveTo(r, "writing") /\ "writing" \in Places  BY DEF Places
  <2>2. SourceRows'  BY <2>1, Moved DEF SourceRows
  <2>3. WishesByPlace'  BY <2>1, Moved DEF WishesByPlace
  <2>4. KeysByPlace' /\ ListedAll'  BY <1>1, <2>1, Moved DEF KeysByPlace, ListedAll
  <2>5. Holding' = Holding  BY <2>1, Moved DEF Holding
  <2>6. \A q \in parts' : requests'[q].at \in {"writing", "dead"}
    <3>1. parts' \subseteq parts \cup {r} /\ parts' \subseteq Requests  BY DEF SourceRows
    <3> QED  BY <2>1, <3>1, Moved DEF ObjectsAreOwned
  <2>7. ObjectsAreOwned'  BY <1>1, <2>5, <2>6 DEF ObjectsAreOwned
  <2>8. OriginalsKept' /\ DownloadsEndWell'
    BY <1>1, <2>1, Moved DEF OriginalsKept, DownloadsEndWell
  <2> QED  BY <2>2, <2>3, <2>4, <2>7, <2>8
<1>3. CASE PutRefused(r)
  <2> USE <1>3 DEF PutRefused
  <2>1. MoveTo(r, "failed") /\ "failed" \in Places  BY DEF Places
  <2>2. SourceRows'  BY <2>1, Moved DEF SourceRows
  <2>3. WishesByPlace'  BY <2>1, Moved DEF WishesByPlace
  <2>4. KeysByPlace' /\ ListedAll'  BY <1>1, <2>1, Moved DEF KeysByPlace, ListedAll
  <2>5. Holding' = Holding  BY <2>1, Moved DEF Holding
  <2>6. OriginalsKept' /\ ObjectsAreOwned' /\ DownloadsEndWell'
    BY <1>1, <2>1, <2>5, Moved
      DEF SourceRows, OriginalsKept, ObjectsAreOwned, DownloadsEndWell, WishesByPlace
  <2> QED  BY <2>2, <2>3, <2>4, <2>6
<1>4. CASE PutDone(r)
  <2> USE <1>4 DEF PutDone
  <2> DEFINE p == IF driver = "local" THEN "stored" ELSE "uploaded"
  <2>1. MoveTo(r, p) /\ p \in Places /\ p \in {"stored", "uploaded"}  BY DEF Places
  <2> HIDE DEF p
  <2>2. SourceRows'  BY <2>1, Moved DEF SourceRows
  <2>3. WishesByPlace'  BY <2>1, Moved DEF WishesByPlace
  <2>4. r \notin Keys  BY DEF KeysByPlace
  <2>5. KeysByPlace' /\ ListedAll'  BY <1>1, <2>1, <2>4, Moved DEF KeysByPlace, ListedAll
  <2>6. Holding' = Holding \cup {r}  BY <2>1, Moved DEF Holding
  <2>7. OriginalsKept' /\ ObjectsAreOwned' /\ DownloadsEndWell'
    BY <1>1, <2>1, <2>4, <2>6, Moved
      DEF SourceRows, OriginalsKept, ObjectsAreOwned, DownloadsEndWell
  <2> QED  BY <2>2, <2>3, <2>5, <2>7
<1>5. CASE CheckContent(r)
  <2> USE <1>5 DEF CheckContent
  <2>1. PICK p \in {"stored", "failed"} :
           /\ MoveTo(r, p)
           /\ p = "stored" => UNCHANGED <<sources, lost>>
           /\ p = "failed" => TakenBack(r)
    OBVIOUS
  <2>2. p \in Places  BY DEF Places
  <2>3. r \notin Keys  BY DEF KeysByPlace
  <2>4. \/ p = "stored" /\ sources' = sources /\ lost' = lost
        \/ p = "failed" /\ sources' = sources \ {r} /\ lost' = lost
        \/ p = "failed" /\ sources' = sources /\ lost' = lost \cup {r}
    BY <2>1 DEF TakenBack
  <2>5. SourceRows'  BY <2>1, <2>2, <2>4, Moved DEF SourceRows
  <2>6. WishesByPlace'  BY <2>1, <2>2, Moved DEF WishesByPlace
  <2>7. KeysByPlace' /\ ListedAll'
    BY <1>1, <2>1, <2>2, <2>3, <2>4, Moved DEF KeysByPlace, ListedAll
  <2>8. Holding' = IF p = "stored" THEN Holding ELSE Holding \ {r}
    BY <2>1, <2>2, Moved DEF Holding
  <2>9. ObjectsAreOwned'
    BY <1>1, <2>1, <2>2, <2>3, <2>4, <2>8, Moved DEF ObjectsAreOwned, SourceRows
  <2>10. OriginalsKept' /\ DownloadsEndWell'
    BY <1>1, <2>1, <2>2, <2>3, <2>4, Moved DEF OriginalsKept, DownloadsEndWell, WishesByPlace
  <2> QED  BY <2>5, <2>6, <2>7, <2>9, <2>10
<1> QED  BY <1>2, <1>3, <1>4, <1>5

LEMMA VersionInv ==
    ASSUME SourceInv, NEW r \in Requests, CreateVersion(r)
    PROVE  SourceInv'
<1> USE DEF SourceInv, CreateVersion
<1>1. SourceOf(r) \in Requests \cup {FirstKey}
  BY KeyOfVersion DEF SourceOf, SourceRows
<1>2. /\ Keys' = Keys \cup {SourceOf(r)} /\ Len(versions') = Len(versions) + 1
      /\ versions' \in Seq(Requests \cup {FirstKey})
  BY <1>1, KeysAfterVersion
<1>3. PICK p \in {"created", "undo", "failed"} :
         /\ MoveTo(r, p)
         /\ p = "undo" => Wants(r, "replace")
         /\ p = "failed" => ~Wants(r, "replace")
         /\ p = "created" => inDoubt' = inDoubt
         /\ p # "created" => inDoubt' = inDoubt \cup {r}
  BY DEF AfterFailure
<1>4. p \in Places  BY DEF Places
<1>5. \/ SourceOf(r) = r /\ r \in sources /\ r \notin Keys /\ Wants(r, "replace")
      \/ SourceOf(r) \in Keys /\ Wants(r, "reindex") /\ requests[r].at = "looked"
  <2>1. versions[Len(versions)] \in Keys  BY KeyOfVersion, SomeVersion
  <2>2. Wants(r, "reindex") => requests[r].at = "looked"  BY DEF Ready, WishesByPlace
  <2>3. ~Wants(r, "reindex") => requests[r].at = "stored" /\ Wants(r, "replace")
    BY DEF Ready, WishesByPlace
  <2> QED  BY <2>1, <2>2, <2>3 DEF SourceOf, KeysByPlace
<1>6. SourceRows'  BY <1>2, <1>3, <1>4, Moved DEF SourceRows
<1>7. WishesByPlace'  BY <1>2, <1>3, <1>4, Moved DEF WishesByPlace, SourceRows
<1>8. r \in Keys' => \/ requests'[r].at = "created"
                     \/ requests'[r].at \in {"undo", "failed", "dead"} /\ r \in inDoubt'
  BY <1>3, <1>4, Moved
<1>9. KeysByPlace'
  BY <1>2, <1>3, <1>4, <1>5, <1>8, Moved DEF KeysByPlace
<1>10. ListedAll'  BY DEF ListedAll, TakesVersion
<1>11. Holding \subseteq Holding' \cup {r} /\ (p = "undo" => r \in Holding')
  BY <1>3, <1>4, Moved DEF Holding
<1>12. ObjectsAreOwned'
  <2>1. sources' \subseteq Keys' \cup Holding' \cup lost'
    <3>1. CASE Wants(r, "replace")
      BY <1>2, <1>5, <1>11, <3>1 DEF ObjectsAreOwned, SourceOf
    <3>2. CASE requests[r].at = "looked"
      BY <1>2, <1>11, <3>2 DEF ObjectsAreOwned, Holding
    <3> QED  BY <1>5, <3>1, <3>2
  <2>2. \A q \in parts' : requests'[q].at \in {"writing", "dead"}
    BY <1>3, <1>4, Moved DEF ObjectsAreOwned, Ready, SourceRows
  <2> QED  BY <2>1, <2>2 DEF ObjectsAreOwned, TakesVersion
<1>13. OriginalsKept'
  BY <1>2, <1>3, <1>5 DEF OriginalsKept
<1>14. DownloadsEndWell'
  BY <1>3, <1>4, Moved DEF DownloadsEndWell, Ready, WishesByPlace
<1> QED  BY <1>6, <1>7, <1>9, <1>10, <1>12, <1>13, <1>14

\* A refused version, the cleaning after it, and a process that dies.
LEMMA SettleInv ==
    ASSUME SourceInv, NEW r \in Requests, VersionRefused(r) \/ Undo(r) \/ RequestDies(r)
    PROVE  SourceInv'
<1> USE DEF SourceInv
<1>1. Keys' = Keys  BY DEF Keys, VersionRefused, Undo, RequestDies
<1>2. CASE VersionRefused(r)
  <2> USE <1>2 DEF VersionRefused
  <2>1. MoveTo(r, AfterFailure(r)) /\ AfterFailure(r) \in Places  BY DEF Places, AfterFailure
  <2>2. /\ requests[r].at = "stored" => AfterFailure(r) = "undo"
        /\ AfterFailure(r) = "undo" => requests[r].at = "stored"
        /\ AfterFailure(r) \in {"undo", "failed"}
        /\ AfterFailure(r) = "undo" => requests[r].wants = "replace"
        /\ AfterFailure(r) = "failed" => requests[r].wants # "download"
        /\ requests[r].at \in {"stored", "looked"}
    BY DEF AfterFailure, Ready, WishesByPlace
  <2>3. SourceRows'  BY <2>1, Moved DEF SourceRows
  <2>4. WishesByPlace'  BY <2>1, <2>2, Moved DEF WishesByPlace
  <2>5. KeysByPlace' /\ ListedAll'  BY <1>1, <2>1, <2>2, Moved DEF KeysByPlace, ListedAll
  <2>6. Holding' = Holding  BY <2>1, <2>2, Moved DEF Holding
  <2>7. OriginalsKept' /\ ObjectsAreOwned' /\ DownloadsEndWell'
    BY <1>1, <2>1, <2>2, <2>6, Moved
      DEF SourceRows, OriginalsKept, ObjectsAreOwned, DownloadsEndWell
  <2> QED  BY <2>3, <2>4, <2>5, <2>7
<1>3. CASE Undo(r)
  <2> USE <1>3 DEF Undo
  <2>1. MoveTo(r, "failed") /\ "failed" \in Places  BY DEF Places
  <2>2. \/ sources' = sources \ {r} /\ lost' = lost
        \/ sources' = sources /\ lost' = lost \cup {r}
    BY DEF TakenBack
  <2>3. SourceRows'  BY <2>1, <2>2, Moved DEF SourceRows
  <2>4. WishesByPlace'  BY <2>1, Moved DEF WishesByPlace
  <2>5. KeysByPlace'  BY <1>1, <2>1, <2>2, Moved DEF KeysByPlace
  <2>6. ListedAll'  BY <1>1, <2>2 DEF ListedAll
  <2>7. Holding' = Holding \ {r}  BY <2>1, Moved DEF Holding
  <2>8. ObjectsAreOwned'
    BY <1>1, <2>1, <2>2, <2>7, Moved DEF ObjectsAreOwned, SourceRows
  <2>9. OriginalsKept'
    BY <1>1, <2>2 DEF OriginalsKept, KeysByPlace
  <2>10. DownloadsEndWell'
    BY <2>1, Moved DEF DownloadsEndWell, WishesByPlace
  <2> QED  BY <2>3, <2>4, <2>5, <2>6, <2>8, <2>9, <2>10
<1>4. CASE RequestDies(r)
  <2> USE <1>4 DEF RequestDies
  <2>1. MoveTo(r, "dead") /\ "dead" \in Places  BY DEF Places
  <2>2. lost' = IF r \in sources THEN lost \cup {r} ELSE lost  OBVIOUS
  <2>3. SourceRows'  BY <2>1, <2>2, Moved DEF SourceRows
  <2>4. WishesByPlace'  BY <2>1, Moved DEF WishesByPlace
  <2>5. KeysByPlace' /\ ListedAll'  BY <1>1, <2>1, Moved DEF KeysByPlace, ListedAll
  <2>6. Holding' = Holding \ {r}  BY <2>1, Moved DEF Holding
  <2>7. ObjectsAreOwned'
    BY <1>1, <2>1, <2>2, <2>6, Moved DEF ObjectsAreOwned, SourceRows
  <2>8. OriginalsKept' /\ DownloadsEndWell'
    BY <1>1, <2>1, Moved DEF OriginalsKept, DownloadsEndWell
  <2> QED  BY <2>3, <2>4, <2>5, <2>7, <2>8
<1> QED  BY <1>2, <1>3, <1>4

LEMMA ReadersInv ==
    ASSUME SourceInv, NEW r \in Requests,
           RetryLooksForSource(r) \/ RetryCommits(r) \/ DownloadStep(r)
    PROVE  SourceInv'
<1> USE DEF SourceInv
<1>1. Keys' = Keys  BY DEF Keys, RetryLooksForSource, RetryCommits, DownloadStep
<1>2. PICK p \in {"present", "created", "measured", "sent", "failed"} :
         /\ MoveTo(r, p)
         /\ p = "present" => requests[r].wants \in {"retry", "download"}
         /\ p \in {"measured", "sent"} => Wants(r, "download")
         /\ (p = "failed" /\ Wants(r, "download")) => versions[requests[r].seen] \notin sources
  BY DEF RetryLooksForSource, RetryCommits, DownloadStep, DownloadNext
<1>3. p \in Places /\ requests[r].at \in {"looked", "present", "measured"}
  BY DEF Places, RetryLooksForSource, RetryCommits, DownloadStep, DownloadNext
<1>4. indexing' \in BOOLEAN /\ UNCHANGED <<original, versions, published, sources, parts, toErase,
                                           inDoubt, lost>>
  BY DEF RetryLooksForSource, RetryCommits, DownloadStep, SourceRows
<1>5. SourceRows'  BY <1>2, <1>3, <1>4, Moved DEF SourceRows
<1>6. WishesByPlace'  BY <1>2, <1>3, <1>4, Moved DEF WishesByPlace
<1>7. KeysByPlace' /\ ListedAll'  BY <1>1, <1>2, <1>3, <1>4, Moved DEF KeysByPlace, ListedAll
<1>8. Holding' = Holding  BY <1>2, <1>3, Moved DEF Holding
<1>9. OriginalsKept' /\ ObjectsAreOwned'
  BY <1>1, <1>2, <1>3, <1>4, <1>8, Moved DEF OriginalsKept, ObjectsAreOwned, SourceRows
<1>10. DownloadsEndWell'
  <2>1. (p = "failed" /\ Wants(r, "download") /\ original = "live") => inDoubt # {}
    BY <1>2, KeyOfVersion DEF WishesByPlace, OriginalsKept
  <2> QED  BY <1>2, <1>3, <1>4, <2>1, Moved DEF DownloadsEndWell
<1> QED  BY <1>5, <1>6, <1>7, <1>9, <1>10

\* The ingest, and the delete of the document.
LEMMA DocumentInv ==
    ASSUME SourceInv,
           \/ IngestEnds \/ CloseDocument \/ ListSources
           \/ \E key \in toErase : EraseSource(key)
    PROVE  SourceInv'
<1> USE DEF SourceInv
<1>1. Keys' = Keys /\ Holding' = Holding
  BY DEF Keys, Holding, IngestEnds, CloseDocument, ListSources, EraseSource
<1>2. CASE IngestEnds
  <2> USE <1>2 DEF IngestEnds
  <2>1. SourceRows'
    <3>1. published' \in 0..Len(versions)  BY SomeVersion DEF SourceRows
    <3> QED  BY <3>1 DEF SourceRows
  <2>2. WishesByPlace' /\ KeysByPlace' /\ ListedAll'
    BY <1>1 DEF WishesByPlace, KeysByPlace, ListedAll
  <2>3. OriginalsKept' /\ ObjectsAreOwned' /\ DownloadsEndWell'
    BY <1>1 DEF OriginalsKept, ObjectsAreOwned, DownloadsEndWell
  <2> QED  BY <2>1, <2>2, <2>3
<1>3. CASE CloseDocument
  <2> USE <1>3 DEF CloseDocument
  <2>1. SourceRows'  BY DEF SourceRows
  <2>2. WishesByPlace' /\ KeysByPlace' /\ ListedAll'
    BY <1>1 DEF WishesByPlace, KeysByPlace, ListedAll
  <2>3. OriginalsKept' /\ ObjectsAreOwned' /\ DownloadsEndWell'
    BY <1>1 DEF OriginalsKept, ObjectsAreOwned, DownloadsEndWell
  <2> QED  BY <2>1, <2>2, <2>3
<1>4. CASE ListSources
  <2> USE <1>4 DEF ListSources
  <2>1. SourceRows'
    <3>1. published' \in 0..Len(versions)  BY SomeVersion DEF SourceRows
    <3> QED  BY <3>1 DEF SourceRows
  <2>2. WishesByPlace' /\ KeysByPlace' /\ ListedAll'
    BY <1>1 DEF WishesByPlace, KeysByPlace, ListedAll
  <2>3. OriginalsKept' /\ ObjectsAreOwned' /\ DownloadsEndWell'
    BY <1>1 DEF OriginalsKept, ObjectsAreOwned, DownloadsEndWell
  <2> QED  BY <2>1, <2>2, <2>3
<1>5. ASSUME NEW key \in toErase, EraseSource(key) PROVE SourceInv'
  <2> USE <1>5 DEF EraseSource
  <2>1. sources' = sources \ {key} /\ toErase' = toErase \ {key} /\ original = "deleting"
        /\ original' \in {"deleting", "deleted"} /\ (original' = "deleted" => toErase' = {})
    OBVIOUS
  <2>2. SourceRows'  BY <2>1 DEF SourceRows
  <2>3. KeysByPlace'  BY <1>1, <2>1 DEF KeysByPlace, ListedAll
  <2>4. WishesByPlace' /\ ListedAll'  BY <1>1, <2>1 DEF WishesByPlace, ListedAll
  <2>5. OriginalsKept' /\ ObjectsAreOwned' /\ DownloadsEndWell'
    BY <1>1, <2>1 DEF OriginalsKept, ObjectsAreOwned, DownloadsEndWell, ListedAll
  <2> QED  BY <2>2, <2>3, <2>4, <2>5
<1> QED  BY <1>2, <1>3, <1>4, <1>5

\* The originals are kept as long as they are needed and no longer, for any
\* number of requests, versions and faults.
THEOREM SourcesAreKept == SourceSpec => []SourcesKept
<1>1. SourceInv /\ [SourceNext]_sourceVars => SourceInv'
  <2> SUFFICES ASSUME SourceInv, [SourceNext]_sourceVars PROVE SourceInv'  OBVIOUS
  <2>1. ASSUME NEW r \in Requests,
               \/ \E wish \in Wishes : LookAt(r, wish)
               \/ BeginPut(r) \/ PutRefused(r) \/ PutDone(r) \/ CheckContent(r)
               \/ CreateVersion(r) \/ VersionRefused(r) \/ Undo(r) \/ RequestDies(r)
               \/ RetryLooksForSource(r) \/ RetryCommits(r) \/ DownloadStep(r)
        PROVE  SourceInv'
    BY <2>1, LookInv, PutInv, VersionInv, SettleInv, ReadersInv
  <2>2. ASSUME IngestEnds \/ CloseDocument \/ ListSources \/ \E key \in toErase : EraseSource(key)
        PROVE  SourceInv'
    BY <2>2, DocumentInv
  <2>3. ASSUME UNCHANGED sourceVars PROVE SourceInv'
    BY <2>3 DEF SourceInv, SourceRows, WishesByPlace, KeysByPlace, ListedAll, OriginalsKept,
                ObjectsAreOwned, DownloadsEndWell, Keys, Holding, sourceVars
  <2> QED  BY <2>1, <2>2, <2>3 DEF SourceNext
<1>2. SourceInv => SourcesKept
  BY KeyOfVersion DEF SourceInv, SourcesKept, SourceTypeOK, SourceRows
<1> QED  BY <1>1, <1>2, SourceInitInv, PTL DEF SourceSpec

HIDE DEF At, Wants

-----------------------------------------------------------------------------
(***************************************************************************)
(* The Knowledge API.  Where a call stands tells whether its limit is      *)
(* behind it, under whose overrides it works and whether it was counted;   *)
(* the window of a key and its audits do not look at the calls at all.     *)
(***************************************************************************)
ApiPlaces == {"idle", "key", "limit", "body", "session", "library", "policy", "running",
              "checked", "denied", "answered"}

Codes == WorthRetrying \cup
    {"none", "authentication_required", "authentication_failed", "insufficient_scope",
     "payload_too_large", "invalid_request", "unsupported_media_type", "library_access_denied"}

Call == [target : {"none", "ask", "retrieve", "proxy"}, at : ApiPlaces, status : Nat, code : Codes,
         overrides : {"none", "client", "server"}, limited : BOOLEAN, timedOut : BOOLEAN,
         metrics : Nat, audit : {"none", "sent", "written"}]

\* Which way a request has come tells where it stands, and whether its limit
\* has been asked.
CallOnItsWay(c) ==
    /\ c.target = "none" <=> c.at = "idle"
    /\ c.at \in {"key", "limit", "body"} => c.target \in {"ask", "retrieve"}
    /\ c.at = "session" => c.target = "proxy"
    /\ c.at = "policy" => c.target \in {"ask", "proxy"}
    /\ c.at \in {"checked", "denied"} => c.target = "ask"
    /\ c.at \in {"idle", "key", "limit"} => c.limited
    /\ (c.target \in {"ask", "retrieve"} /\ c.at \notin {"key", "limit", "answered"}) => ~c.limited

\* What it would work under, until it works.
CallOverrides(c) ==
    /\ c.at \in {"key", "limit", "body", "session", "library", "policy"} => c.overrides # "server"
    /\ (c.target \in {"ask", "retrieve"} /\ c.at \in {"library", "policy"}) => c.overrides = "none"
    /\ c.at \in {"running", "checked", "denied"} =>
          c.overrides = IF c.target = "retrieve" THEN "none" ELSE "server"

\* How it is counted, and what it is told.
CallCounted(c) ==
    /\ c.metrics = IF /\ c.at = "answered"
                      /\ IF c.target \in {"ask", "retrieve"} THEN ~c.limited
                         ELSE c.overrides = "server"
                   THEN 1 ELSE 0
    /\ c.audit # "none" => c.at = "answered" /\ c.target \in {"ask", "retrieve"}
    /\ (c.at = "answered" /\ c.target \in {"ask", "retrieve"}) =>
          /\ c.status # 404
          /\ (c.code \in WorthRetrying) <=> (c.status \in {429, 502, 503, 504})

CallInv(c) == CallOnItsWay(c) /\ CallOverrides(c) /\ CallCounted(c)

\* The window of the key: what it lets through is counted in it.
Window ==
    /\ minute \in 0..PerMinute + 1 /\ through \in Nat
    /\ through <= minute /\ through <= PerMinute

Key ==
    /\ keyRevoked \in BOOLEAN /\ libraryThere \in BOOLEAN
    /\ keyAudits = IF keyRevoked THEN 1 ELSE 0

ApiInv ==
    /\ api \in [ApiCalls -> Call]
    /\ \A r \in ApiCalls : CallInv(api[r])
    /\ Window /\ Key

\* The others are as they were.
OnlyCall(r) ==
    /\ api' \in [ApiCalls -> Call]
    /\ \A q \in ApiCalls \ {r} : api'[q] = api[q]

LEMMA Becoming ==
    ASSUME ApiInv, NEW r \in ApiCalls, NEW c, c \in Call, CallInv(c), CallBecomes(r, c)
    PROVE  OnlyCall(r) /\ CallInv(api'[r])
BY DEF ApiInv, CallBecomes, OnlyCall

LEMMA CallNow ==
    ASSUME ApiInv, NEW r \in ApiCalls
    PROVE  api[r] \in Call /\ CallInv(api[r])
BY DEF ApiInv

\* What a caller of the API may be told.
ToldApart(s, k) ==
    /\ s \in Nat /\ k \in Codes
    /\ s # 404 /\ (k \in WorthRetrying <=> s \in {429, 502, 503, 504})

LEMMA FinishedCall ==
    ASSUME NEW x \in Call, NEW m \in Nat, NEW a \in {"none", "sent", "written"},
           NEW p \in ApiPlaces, NEW s \in Nat, NEW k \in Codes
    PROVE  [x EXCEPT !.metrics = m, !.audit = a, !.at = p, !.status = s, !.code = k] \in Call
BY DEF Call

\* A caller of the API whose limit is behind it, and the answers it can get.
LEMMA FinishInv ==
    ASSUME ApiInv, NEW r \in ApiCalls, OnApi(r), ~api[r].limited, api[r].at # "answered",
           NEW s, NEW k, ToldApart(s, k), NEW a \in {"none", "sent"},
           Finish(r, <<s, k>>, a)
    PROVE  OnlyCall(r) /\ CallInv(api'[r])
<1>1. CallInv(api[r]) /\ api[r] \in Call  BY CallNow
<1> DEFINE p == "answered"
           m == api[r].metrics + 1
           c == [api[r] EXCEPT !.metrics = m, !.audit = a, !.at = p, !.status = s, !.code = k]
<1>2. p = "answered" /\ p \in ApiPlaces /\ m = api[r].metrics + 1 /\ m \in Nat
  BY <1>1 DEF ApiPlaces, Call
<1>3. CallBecomes(r, c)  BY DEF Finish
<1> HIDE DEF p, m
<1>4. a \in {"none", "sent", "written"} /\ s \in Nat /\ k \in Codes  BY DEF ToldApart
<1>5. c \in Call  BY <1>4, <1>1, <1>2, FinishedCall
<1>6. /\ c.target = api[r].target /\ c.at = p /\ c.status = s /\ c.code = k
      /\ c.overrides = api[r].overrides /\ c.limited = api[r].limited
      /\ c.timedOut = api[r].timedOut /\ c.metrics = m /\ c.audit = a
  BY <1>4, <1>1, <1>2 DEF Call
<1> HIDE DEF c
<1>7. CallInv(c)
  BY <1>1, <1>2, <1>5, <1>6
    DEF CallInv, CallOnItsWay, CallOverrides, CallCounted, OnApi, ToldApart
<1> QED  BY <1>3, <1>5, <1>7, Becoming

LEMMA AnswerEarlyInv ==
    ASSUME ApiInv, NEW r \in ApiCalls, api[r].at # "answered", api[r].at # "idle",
           NEW s, NEW k, OnApi(r) => api[r].limited /\ ToldApart(s, k),
           ~OnApi(r) => s \in Nat /\ k \in Codes /\ api[r].overrides # "server",
           AnswerEarly(r, <<s, k>>)
    PROVE  OnlyCall(r) /\ CallInv(api'[r])
<1>1. CallInv(api[r]) /\ api[r] \in Call  BY CallNow
<1> DEFINE p == "answered"
           c == [api[r] EXCEPT !.at = p, !.status = s, !.code = k]
<1>2. p = "answered" /\ p \in ApiPlaces
  BY <1>1 DEF ApiPlaces, Call
<1>3. CallBecomes(r, c)  BY DEF AnswerEarly
<1> HIDE DEF p
<1>4. s \in Nat /\ k \in Codes  BY DEF ToldApart
<1>5. /\ c \in Call
      /\ c.target = api[r].target /\ c.at = p
      /\ c.status = s /\ c.code = k
      /\ c.overrides = api[r].overrides /\ c.limited = api[r].limited
      /\ c.timedOut = api[r].timedOut /\ c.metrics = api[r].metrics /\ c.audit = api[r].audit
  BY <1>4, <1>1, <1>2 DEF Call
<1> HIDE DEF c
<1>6. CallInv(c)
  BY <1>1, <1>2, <1>5 DEF CallInv, CallOnItsWay, CallOverrides, CallCounted, OnApi, ToldApart
<1> QED  BY <1>3, <1>5, <1>6, Becoming

\* Before the limit.
LEMMA EntryInv ==
    ASSUME ApiInv, NEW r \in ApiCalls,
           \/ \E target \in {"ask", "retrieve", "proxy"} : Arrive(r, target)
           \/ CheckKey(r) \/ CheckLimit(r) \/ CheckSession(r)
    PROVE  OnlyCall(r) /\ CallInv(api'[r])
<1>1. CallInv(api[r]) /\ api[r] \in Call  BY CallNow
<1>2. ASSUME NEW target \in {"ask", "retrieve", "proxy"}, Arrive(r, target)
      PROVE  OnlyCall(r) /\ CallInv(api'[r])
  <2>1. PICK o \in {"none", "client"} :
           CallBecomes(r, [api[r] EXCEPT !.at = IF target = "proxy" THEN "session" ELSE "key",
                                         !.target = target, !.overrides = o])
    BY <1>2 DEF Arrive
  <2>2. api[r].at = "idle"  BY <1>2 DEF Arrive, IsNow
    <2> DEFINE p == IF target = "proxy" THEN "session" ELSE "key"
               c == [api[r] EXCEPT !.at = p, !.target = target, !.overrides = o]
    <2>3. p = (IF target = "proxy" THEN "session" ELSE "key") /\ p \in ApiPlaces
      BY <1>1, <2>2 DEF ApiPlaces, Call
    <2>4. CallBecomes(r, c)  BY <2>1
    <2> HIDE DEF p
    <2>5. /\ c \in Call
          /\ c.target = target /\ c.at = p
          /\ c.status = api[r].status /\ c.code = api[r].code
          /\ c.overrides = o /\ c.limited = api[r].limited
          /\ c.timedOut = api[r].timedOut /\ c.metrics = api[r].metrics /\ c.audit = api[r].audit
      BY <1>1, <2>2, <2>3 DEF Call
    <2> HIDE DEF c
    <2>6. CallInv(c)
      BY <1>1, <2>2, <2>3, <2>5 DEF CallInv, CallOnItsWay, CallOverrides, CallCounted, OnApi
    <2> QED  BY <2>4, <2>5, <2>6, Becoming
<1>3. CASE CheckKey(r)
  <2>1. api[r].at = "key" /\ api[r].limited /\ OnApi(r)
    BY <1>1, <1>3 DEF CheckKey, IsNow, CallInv, CallOnItsWay, OnApi
  <2>2. CASE Advance(r, "limit")
    <3> DEFINE c == [api[r] EXCEPT !.at = "limit"]
    <3>1. c \in Call /\ CallInv(c)
      BY <1>1, <2>1
        DEF CallInv, CallOnItsWay, CallOverrides, CallCounted, Call, ApiPlaces, OnApi
    <3> QED  BY <2>2, <3>1, Becoming DEF Advance
  <2>3. CASE AnswerEarly(r, <<401, "authentication_required">>)
    <3>1. ToldApart(401, "authentication_required")  BY DEF ToldApart, Codes, WorthRetrying
    <3> QED  BY <2>1, <2>3, <3>1, AnswerEarlyInv
  <2>4. CASE AnswerEarly(r, <<503, "authentication_backend_unavailable">>)
    <3>1. ToldApart(503, "authentication_backend_unavailable")
      BY DEF ToldApart, Codes, WorthRetrying
    <3> QED  BY <2>1, <2>4, <3>1, AnswerEarlyInv
  <2>5. CASE AnswerEarly(r, <<401, "authentication_failed">>)
    <3>1. ToldApart(401, "authentication_failed")  BY DEF ToldApart, Codes, WorthRetrying
    <3> QED  BY <2>1, <2>5, <3>1, AnswerEarlyInv
  <2>6. CASE AnswerEarly(r, <<403, "insufficient_scope">>)
    <3>1. ToldApart(403, "insufficient_scope")  BY DEF ToldApart, Codes, WorthRetrying
    <3> QED  BY <2>1, <2>6, <3>1, AnswerEarlyInv
  <2> QED  BY <1>3, <2>2, <2>3, <2>4, <2>5, <2>6 DEF CheckKey
<1>4. CASE CheckLimit(r)
  <2>1. api[r].at = "limit" /\ api[r].limited /\ OnApi(r)
    BY <1>1, <1>4 DEF CheckLimit, IsNow, CallInv, CallOnItsWay, OnApi
  <2>2. CASE CallBecomes(r, [api[r] EXCEPT !.at = "body", !.limited = FALSE])
      <3> DEFINE p == "body"
                 l == FALSE
                 c == [api[r] EXCEPT !.at = p, !.limited = l]
      <3>1. p = "body" /\ p \in ApiPlaces /\ l = FALSE /\ l \in BOOLEAN
        BY <1>1, <2>1 DEF ApiPlaces, Call
      <3>2. CallBecomes(r, c)  BY <2>2
      <3> HIDE DEF p, l
      <3>3. /\ c \in Call
            /\ c.target = api[r].target /\ c.at = p
            /\ c.status = api[r].status /\ c.code = api[r].code
            /\ c.overrides = api[r].overrides /\ c.limited = l
            /\ c.timedOut = api[r].timedOut /\ c.metrics = api[r].metrics /\ c.audit = api[r].audit
        BY <1>1, <2>1, <3>1 DEF Call
      <3> HIDE DEF c
      <3>4. CallInv(c)
        BY <1>1, <2>1, <3>1, <3>3 DEF CallInv, CallOnItsWay, CallOverrides, CallCounted, OnApi
      <3> QED  BY <3>2, <3>3, <3>4, Becoming
  <2>3. CASE AnswerEarly(r, <<503, "service_unavailable">>)
    <3>1. ToldApart(503, "service_unavailable")  BY DEF ToldApart, Codes, WorthRetrying
    <3> QED  BY <2>1, <2>3, <3>1, AnswerEarlyInv
  <2>4. CASE AnswerEarly(r, <<429, "rate_limit_exceeded">>)
    <3>1. ToldApart(429, "rate_limit_exceeded")  BY DEF ToldApart, Codes, WorthRetrying
    <3> QED  BY <2>1, <2>4, <3>1, AnswerEarlyInv
  <2> QED  BY <1>4, <2>2, <2>3, <2>4 DEF CheckLimit
<1>5. CASE CheckSession(r)
  <2>1. api[r].at = "session" /\ ~OnApi(r) /\ api[r].overrides # "server"
    BY <1>1, <1>5 DEF CheckSession, IsNow, CallInv, CallOnItsWay, CallOverrides, OnApi
  <2>2. CASE Advance(r, "library")
    <3> DEFINE c == [api[r] EXCEPT !.at = "library"]
    <3>1. c \in Call /\ CallInv(c)
      BY <1>1, <2>1
        DEF CallInv, CallOnItsWay, CallOverrides, CallCounted, Call, ApiPlaces, OnApi
    <3> QED  BY <2>2, <3>1, Becoming DEF Advance
  <2>3. ASSUME NEW s \in {400, 401, 403, 404}, AnswerEarly(r, <<s, "none">>)
        PROVE  OnlyCall(r) /\ CallInv(api'[r])
    <3>1. "none" \in Codes /\ s \in Nat  BY DEF Codes
    <3> QED  BY <2>1, <2>3, <3>1, AnswerEarlyInv
  <2> QED  BY <1>5, <2>2, <2>3 DEF CheckSession
<1> QED  BY <1>2, <1>3, <1>4, <1>5

\* The body, the library and the policy.
LEMMA AdmissionInv ==
    ASSUME ApiInv, NEW r \in ApiCalls,
           ReadBody(r) \/ CheckKeyLibrary(r) \/ FindLibrary(r) \/ InjectOverrides(r)
    PROVE  OnlyCall(r) /\ CallInv(api'[r])
<1>1. CallInv(api[r]) /\ api[r] \in Call  BY CallNow
<1>2. CASE ReadBody(r)
  <2>1. api[r].at = "body" /\ ~api[r].limited /\ OnApi(r)
    BY <1>1, <1>2 DEF ReadBody, IsNow, CallInv, CallOnItsWay, OnApi
  <2>2. CASE api[r].overrides = "none" /\ Advance(r, "library")
    <3> DEFINE c == [api[r] EXCEPT !.at = "library"]
    <3>1. c \in Call /\ CallInv(c)
      BY <1>1, <2>1, <2>2
        DEF CallInv, CallOnItsWay, CallOverrides, CallCounted, Call, ApiPlaces, OnApi
    <3> QED  BY <2>2, <3>1, Becoming DEF Advance
  <2>3. CASE Finish(r, <<415, "unsupported_media_type">>, "none")
    <3>1. ToldApart(415, "unsupported_media_type")  BY DEF ToldApart, Codes, WorthRetrying
    <3> QED  BY <2>1, <2>3, <3>1, FinishInv
  <2>4. CASE Finish(r, <<413, "payload_too_large">>, "none")
    <3>1. ToldApart(413, "payload_too_large")  BY DEF ToldApart, Codes, WorthRetrying
    <3> QED  BY <2>1, <2>4, <3>1, FinishInv
  <2>5. ASSUME NEW audit \in {"none", "sent"}, Finish(r, <<400, "invalid_request">>, audit)
        PROVE  OnlyCall(r) /\ CallInv(api'[r])
    <3>1. ToldApart(400, "invalid_request")  BY DEF ToldApart, Codes, WorthRetrying
    <3> QED  BY <2>1, <2>5, <3>1, FinishInv
  <2> QED  BY <1>2, <2>2, <2>3, <2>4, <2>5 DEF ReadBody, BodyRefused, RequestRefused
<1>3. CASE CheckKeyLibrary(r)
  <2>1. api[r].at = "library" /\ ~api[r].limited /\ OnApi(r)
    BY <1>1, <1>3 DEF CheckKeyLibrary, IsNow, CallInv, CallOnItsWay, OnApi
  <2>2. CASE Advance(r, IF api[r].target = "ask" THEN "policy" ELSE "running")
    <3> DEFINE c == [api[r] EXCEPT !.at = IF api[r].target = "ask" THEN "policy" ELSE "running"]
    <3>1. c \in Call /\ CallInv(c)
      BY <1>1, <2>1
        DEF CallInv, CallOnItsWay, CallOverrides, CallCounted, Call, ApiPlaces, OnApi
    <3> QED  BY <2>2, <3>1, Becoming DEF Advance
  <2>3. CASE Finish(r, <<403, "library_access_denied">>, "sent")
    <3>1. ToldApart(403, "library_access_denied")  BY DEF ToldApart, Codes, WorthRetrying
    <3> QED  BY <2>1, <2>3, <3>1, FinishInv
  <2> QED  BY <1>3, <2>2, <2>3 DEF CheckKeyLibrary
<1>4. CASE FindLibrary(r)
  <2>1. api[r].at = "library" /\ api[r].overrides # "server" /\ api[r].target = "proxy"
    BY <1>1, <1>4 DEF FindLibrary, IsNow, CallInv, CallOnItsWay, CallOverrides, OnApi, Call
  <2>2. CASE Advance(r, "policy")
    <3> DEFINE c == [api[r] EXCEPT !.at = "policy"]
    <3>1. c \in Call /\ CallInv(c)
      BY <1>1, <2>1
        DEF CallInv, CallOnItsWay, CallOverrides, CallCounted, Call, ApiPlaces, OnApi
    <3> QED  BY <2>2, <3>1, Becoming DEF Advance
  <2>3. CASE AnswerEarly(r, <<404, "none">>)
    <3>1. "none" \in Codes  BY DEF Codes
    <3> QED  BY <2>1, <2>3, <3>1, AnswerEarlyInv DEF OnApi
  <2> QED  BY <1>4, <2>2, <2>3 DEF FindLibrary
<1>5. CASE InjectOverrides(r)
  <2>1. api[r].at = "policy" /\ api[r].target \in {"ask", "proxy"} /\ api[r].overrides # "server"
        /\ (OnApi(r) => ~api[r].limited)
    BY <1>1, <1>5 DEF InjectOverrides, IsNow, CallInv, CallOnItsWay, CallOverrides, OnApi
  <2>2. CASE CallBecomes(r, [api[r] EXCEPT !.overrides = "server", !.at = "running"])
      <3> DEFINE o == "server"
                 p == "running"
                 c == [api[r] EXCEPT !.overrides = o, !.at = p]
      <3>1. o = "server" /\ o \in {"none", "client", "server"} /\ p = "running" /\ p \in ApiPlaces
        BY <1>1, <2>1 DEF ApiPlaces, Call
      <3>2. CallBecomes(r, c)  BY <2>2
      <3> HIDE DEF o, p
      <3>3. /\ c \in Call
            /\ c.target = api[r].target /\ c.at = p
            /\ c.status = api[r].status /\ c.code = api[r].code
            /\ c.overrides = o /\ c.limited = api[r].limited
            /\ c.timedOut = api[r].timedOut /\ c.metrics = api[r].metrics /\ c.audit = api[r].audit
        BY <1>1, <2>1, <3>1 DEF Call
      <3> HIDE DEF c
      <3>4. CallInv(c)
        BY <1>1, <2>1, <3>1, <3>3 DEF CallInv, CallOnItsWay, CallOverrides, CallCounted, OnApi
      <3> QED  BY <3>2, <3>3, <3>4, Becoming
  <2>3. CASE OnApi(r) /\ Finish(r, <<503, "policy_unavailable">>, "sent")
    <3>1. ToldApart(503, "policy_unavailable")  BY DEF ToldApart, Codes, WorthRetrying
    <3> QED  BY <2>1, <2>3, <3>1, FinishInv
  <2>4. ASSUME ~OnApi(r), NEW s \in {400, 503}, AnswerEarly(r, <<s, "none">>)
        PROVE  OnlyCall(r) /\ CallInv(api'[r])
    <3>1. "none" \in Codes /\ s \in Nat  BY DEF Codes
    <3>2. api[r].at # "answered" /\ api[r].at # "idle" /\ api[r].overrides # "server"  BY <2>1
    <3> QED  BY <2>4, <3>1, <3>2, AnswerEarlyInv
  <2> QED  BY <1>5, <2>2, <2>3, <2>4 DEF InjectOverrides
<1> QED  BY <1>2, <1>3, <1>4, <1>5

\* What a caller can be told of an error of the data plane.
LEMMA AnswerOfIs ==
    ASSUME NEW r \in ApiCalls, NEW status \in Nat
    PROVE  \E s \in {400, 401, 403, 413, 415, 429, 502, 503, 504}, k \in Codes :
              /\ AnswerOf(r, status) = <<s, k>>
              /\ k \in WorthRetrying <=> s \in {429, 502, 503, 504}
<1>1. Normalized(status) \in {<<400, "invalid_request">>, <<401, "authentication_failed">>,
          <<403, "library_access_denied">>, <<413, "payload_too_large">>,
          <<415, "unsupported_media_type">>, <<429, "rate_limit_exceeded">>,
          <<503, "service_unavailable">>, <<504, "upstream_timeout">>,
          <<502, "upstream_unavailable">>}
  BY DEF Normalized
<1>2. Normalized(503) = <<503, "service_unavailable">>  BY DEF Normalized
<1>3. AnswerOf(r, status) \in {<<400, "invalid_request">>, <<401, "authentication_failed">>,
          <<403, "library_access_denied">>, <<413, "payload_too_large">>,
          <<415, "unsupported_media_type">>, <<429, "rate_limit_exceeded">>,
          <<503, "service_unavailable">>, <<504, "upstream_timeout">>,
          <<502, "upstream_unavailable">>}
  BY <1>1, <1>2 DEF AnswerOf
<1> QED  BY <1>3 DEF Codes, WorthRetrying

\* The data plane at work, and what follows an answer.
LEMMA WorkInv ==
    ASSUME ApiInv, NEW r \in ApiCalls,
           RefreshIdentity(r) \/ NativeFails(r) \/ NativeAnswers(r) \/ ProxyEnds(r)
             \/ AuditWritten(r) \/ TimeRunsOut(r)
    PROVE  OnlyCall(r) /\ CallInv(api'[r])
<1>1. CallInv(api[r]) /\ api[r] \in Call  BY CallNow
<1>2. CASE RefreshIdentity(r)
  <2>1. PICK p \in {"checked", "denied"} : CallBecomes(r, [api[r] EXCEPT !.at = p])
    BY <1>2 DEF RefreshIdentity, Advance
  <2>2. api[r].at = "running" /\ api[r].target = "ask"  BY <1>2 DEF RefreshIdentity, IsNow
  <2> DEFINE c == [api[r] EXCEPT !.at = p]
  <2>3. c \in Call /\ CallInv(c)
    BY <1>1, <2>2 DEF CallInv, CallOnItsWay, CallOverrides, CallCounted, Call, ApiPlaces, OnApi
  <2> QED  BY <2>1, <2>3, Becoming
<1>3. CASE NativeFails(r)
  <2>1. OnApi(r) /\ ~api[r].limited /\ api[r].at # "answered"
    BY <1>1, <1>3 DEF NativeFails, CallInv, CallOnItsWay, OnApi
  <2>2. ASSUME NEW status \in NativeStatuses \cup {0}, Finish(r, AnswerOf(r, status), "sent")
        PROVE  OnlyCall(r) /\ CallInv(api'[r])
    <3>1. PICK s \in {400, 401, 403, 413, 415, 429, 502, 503, 504}, k \in Codes :
              /\ AnswerOf(r, status) = <<s, k>>
              /\ k \in WorthRetrying <=> s \in {429, 502, 503, 504}
      BY AnswerOfIs, ApiAssumption
    <3>2. Finish(r, <<s, k>>, "sent")  BY <2>2, <3>1
    <3>3. ToldApart(s, k)  BY <3>1 DEF ToldApart
    <3> QED  BY <2>1, <3>1, <3>2, <3>3, FinishInv
  <2>3. CASE Finish(r, <<502, "invalid_upstream_response">>, "sent")
    <3>1. ToldApart(502, "invalid_upstream_response")  BY DEF ToldApart, Codes, WorthRetrying
    <3> QED  BY <2>1, <2>3, <3>1, FinishInv
  <2> QED  BY <1>3, <2>2, <2>3 DEF NativeFails
<1>4. CASE NativeAnswers(r)
  <2>1. OnApi(r) /\ ~api[r].limited /\ api[r].at # "answered"
    BY <1>1, <1>4 DEF NativeAnswers, CallInv, CallOnItsWay, OnApi, IsNow
  <2>2. ToldApart(200, "none")  BY DEF ToldApart, Codes, WorthRetrying
  <2> QED  BY <1>4, <2>1, <2>2, FinishInv DEF NativeAnswers
<1>5. CASE ProxyEnds(r)
  <2>1. PICK s \in NativeStatuses \cup {200} :
           CallBecomes(r, [api[r] EXCEPT !.at = "answered", !.status = s, !.metrics = @ + 1])
    BY <1>5 DEF ProxyEnds
  <2>2. s \in Nat  BY ApiAssumption
  <2>3. api[r].at = "running" /\ api[r].target = "proxy"
    BY <1>1, <1>5 DEF ProxyEnds, IsNow, OnApi, CallInv, CallOnItsWay, Call
    <2> DEFINE p == "answered"
               m == api[r].metrics + 1
               c == [api[r] EXCEPT !.at = p, !.status = s, !.metrics = m]
    <2>4. p = "answered" /\ p \in ApiPlaces /\ m = api[r].metrics + 1 /\ m \in Nat
      BY <1>1, <2>2, <2>3 DEF ApiPlaces, Call
    <2>5. CallBecomes(r, c)  BY <2>1
    <2> HIDE DEF p, m
    <2>6. /\ c \in Call
          /\ c.target = api[r].target /\ c.at = p
          /\ c.status = s /\ c.code = api[r].code
          /\ c.overrides = api[r].overrides /\ c.limited = api[r].limited
          /\ c.timedOut = api[r].timedOut /\ c.metrics = m /\ c.audit = api[r].audit
      BY <1>1, <2>2, <2>3, <2>4 DEF Call
    <2> HIDE DEF c
    <2>7. CallInv(c)
      BY <1>1, <2>2, <2>3, <2>4, <2>6 DEF CallInv, CallOnItsWay, CallOverrides, CallCounted, OnApi
    <2> QED  BY <2>5, <2>6, <2>7, Becoming
<1>6. CASE AuditWritten(r)
  <2> DEFINE c == [api[r] EXCEPT !.audit = "written"]
  <2>1. CallBecomes(r, c) /\ api[r].audit = "sent"  BY <1>6 DEF AuditWritten
  <2>2. c \in Call /\ CallInv(c)
    BY <1>1, <2>1 DEF CallInv, CallOnItsWay, CallOverrides, CallCounted, Call, ApiPlaces, OnApi
  <2> QED  BY <2>1, <2>2, Becoming
<1>7. CASE TimeRunsOut(r)
  <2> DEFINE d == TRUE
             c == [api[r] EXCEPT !.timedOut = d]
    <2>1. d = TRUE /\ d \in BOOLEAN
      BY <1>1 DEF ApiPlaces, Call
    <2>2. CallBecomes(r, c)  BY <1>7 DEF TimeRunsOut
    <2> HIDE DEF d
    <2>3. /\ c \in Call
          /\ c.target = api[r].target /\ c.at = api[r].at
          /\ c.status = api[r].status /\ c.code = api[r].code
          /\ c.overrides = api[r].overrides /\ c.limited = api[r].limited
          /\ c.timedOut = d /\ c.metrics = api[r].metrics /\ c.audit = api[r].audit
      BY <1>1, <2>1 DEF Call
    <2> HIDE DEF c
    <2>4. CallInv(c)
      BY <1>1, <2>1, <2>3 DEF CallInv, CallOnItsWay, CallOverrides, CallCounted, OnApi
    <2> QED  BY <2>2, <2>3, <2>4, Becoming
<1> QED  BY <1>2, <1>3, <1>4, <1>5, <1>6, <1>7

LEMMA WindowInv ==
    ASSUME ApiInv, [ApiNext]_apiVars
    PROVE  Window' /\ Key'
<1>1. Window /\ Key  BY DEF ApiInv
<1>2. CASE /\ keyRevoked' = keyRevoked /\ keyAudits' = keyAudits
           /\ libraryThere' = libraryThere /\ minute' = minute /\ through' = through
  <2>1. Window'  BY <1>1, <1>2 DEF Window
  <2>2. Key'  BY <1>1, <1>2 DEF Key
  <2> QED  BY <2>1, <2>2
<1>3. ASSUME NEW r \in ApiCalls, CheckLimit(r) PROVE Window' /\ Key'
  <2>1. Key'  BY <1>1, <1>3 DEF CheckLimit, Key
  <2>2. CASE minute' = minute /\ through' = through  BY <1>1, <2>1, <2>2 DEF Window
  <2>3. CASE /\ minute' = IF minute > PerMinute THEN minute ELSE minute + 1
             /\ IF minute' > PerMinute THEN through' = through ELSE through' = through + 1
    BY <1>1, <2>1, <2>3, ApiAssumption DEF Window
  <2> QED  BY <1>3, <2>2, <2>3 DEF CheckLimit
<1>4. CASE MinuteEnds
  <2>1. Window'  BY <1>4, ApiAssumption DEF MinuteEnds, Window
  <2>2. Key'  BY <1>1, <1>4 DEF MinuteEnds, Key
  <2> QED  BY <2>1, <2>2
<1>5. CASE RevokeKey \/ LibraryGoes
  <2>1. Window'  BY <1>1, <1>5 DEF RevokeKey, LibraryGoes, Window
  <2>2. CASE RevokeKey
    <3>1. keyRevoked' = TRUE /\ keyRevoked' \in BOOLEAN /\ libraryThere' = libraryThere
      BY <2>2 DEF RevokeKey
    <3>2. keyAudits' = 1  BY <1>1, <2>2 DEF RevokeKey, Key
    <3> QED  BY <1>1, <2>1, <3>1, <3>2 DEF Key
  <2>3. CASE LibraryGoes
    <3>1. libraryThere' = FALSE /\ libraryThere' \in BOOLEAN /\ keyRevoked' = keyRevoked
          /\ keyAudits' = keyAudits
      BY <2>3 DEF LibraryGoes
    <3> QED  BY <1>1, <2>1, <3>1 DEF Key
  <2> QED  BY <1>5, <2>2, <2>3
<1>6. \/ /\ keyRevoked' = keyRevoked /\ keyAudits' = keyAudits
         /\ libraryThere' = libraryThere /\ minute' = minute /\ through' = through
      \/ \E r \in ApiCalls : CheckLimit(r)
      \/ MinuteEnds \/ RevokeKey \/ LibraryGoes
  <2>1. CASE UNCHANGED apiVars  BY <2>1 DEF apiVars
  <2>2. ASSUME NEW r \in ApiCalls,
               \/ \E target \in {"ask", "retrieve", "proxy"} : Arrive(r, target)
               \/ CheckKey(r) \/ ReadBody(r) \/ CheckKeyLibrary(r)
               \/ InjectOverrides(r) \/ RefreshIdentity(r) \/ NativeFails(r) \/ NativeAnswers(r)
               \/ AuditWritten(r) \/ CheckSession(r) \/ FindLibrary(r) \/ ProxyEnds(r)
               \/ TimeRunsOut(r)
        PROVE  /\ keyRevoked' = keyRevoked /\ keyAudits' = keyAudits
               /\ libraryThere' = libraryThere /\ minute' = minute /\ through' = through
    BY <2>2 DEF Arrive, CheckKey, ReadBody, CheckKeyLibrary, InjectOverrides,
         RefreshIdentity, NativeFails, NativeAnswers, AuditWritten, CheckSession, FindLibrary,
         ProxyEnds, TimeRunsOut
  <2> QED  BY <2>1, <2>2 DEF ApiNext
<1> QED  BY <1>2, <1>3, <1>4, <1>5, <1>6

\* The promises of the gateway, for any number of callers and any limit.
THEOREM ApiPromises == ApiSpec => []ApiHolds
<1>1. ApiInit => ApiInv
  <2> SUFFICES ASSUME ApiInit PROVE ApiInv  OBVIOUS
  <2>1. Window  BY ApiAssumption DEF ApiInit, Window
  <2>2. Key  BY DEF ApiInit, Key
  <2>3. Fresh \in Call  BY DEF Fresh, Call, ApiPlaces, Codes
  <2>4. CallInv(Fresh)  BY DEF Fresh, CallInv, CallOnItsWay, CallOverrides, CallCounted
  <2> QED  BY <2>1, <2>2, <2>3, <2>4 DEF ApiInit, ApiInv
<1>2. ApiInv /\ [ApiNext]_apiVars => ApiInv'
  <2> SUFFICES ASSUME ApiInv, [ApiNext]_apiVars PROVE ApiInv'  OBVIOUS
  <2>1. ASSUME NEW r \in ApiCalls,
               \/ \E target \in {"ask", "retrieve", "proxy"} : Arrive(r, target)
               \/ CheckKey(r) \/ CheckLimit(r) \/ ReadBody(r) \/ CheckKeyLibrary(r)
               \/ InjectOverrides(r) \/ RefreshIdentity(r) \/ NativeFails(r) \/ NativeAnswers(r)
               \/ AuditWritten(r) \/ CheckSession(r) \/ FindLibrary(r) \/ ProxyEnds(r)
               \/ TimeRunsOut(r)
        PROVE  api' \in [ApiCalls -> Call] /\ \A q \in ApiCalls : CallInv(api'[q])
    <3>1. OnlyCall(r) /\ CallInv(api'[r])  BY <2>1, EntryInv, AdmissionInv, WorkInv
    <3> QED  BY <3>1 DEF OnlyCall, ApiInv
  <2>2. CASE UNCHANGED api
    BY <2>2, WindowInv DEF ApiInv
  <2> QED  BY <2>1, <2>2, WindowInv DEF ApiNext, MinuteEnds, RevokeKey, LibraryGoes, apiVars, ApiInv
<1>3. ApiInv => ApiHolds
  <2> SUFFICES ASSUME ApiInv PROVE ApiHolds  OBVIOUS
  <2>1. \A r \in ApiCalls : CallInv(api[r]) /\ api[r] \in Call  BY DEF ApiInv
  <2>2. ApiTypeOK /\ LimitsAndKeys  BY <2>1 DEF ApiInv, ApiTypeOK, LimitsAndKeys, Call, Window, Key
  <2>3. CountedOnce  BY <2>1 DEF CountedOnce, CallInv, CallCounted, HasAnswer, IsNow, OnApi
  <2>4. PolicyIsTheWorkspaces  BY <2>1 DEF PolicyIsTheWorkspaces, CallInv, CallOverrides
  <2>5. AnswersAreUniform
    BY <2>1 DEF AnswersAreUniform, CallInv, CallCounted, HasAnswer, IsNow, OnApi
  <2> QED  BY <2>2, <2>3, <2>4, <2>5 DEF ApiHolds
<1> QED  BY <1>1, <1>2, <1>3, PTL DEF ApiSpec

-----------------------------------------------------------------------------
(***************************************************************************)
(* The account.  What a request has seen stays right while it is under     *)
(* way: the hash it replaced, the session it signed, the member that is no *)
(* owner, the workspace there is; the limit, the sessions and the members  *)
(* keep invariants of their own beside it.                                 *)
(***************************************************************************)
CallsShape ==
    /\ calls = [c \in Calls |-> calls[c]]
    /\ \A c \in Calls :
          calls[c] = [does |-> calls[c].does, at |-> calls[c].at, saw |-> calls[c].saw]

\* What a request that does dd and is at p may have seen: the hash it replaced,
\* the session it signed, a member that is no owner, the workspace there is.
Settled(c, dd, p, v) ==
    /\ (dd = "change" /\ p \in {"known", "hydrated", "signed", "done"}) => v.verified = v.replaced
    /\ p = "signed" => c \in DOMAIN sessions
    /\ (dd \in {"role", "remove"} /\ p = "read") => v = "user"
    /\ (dd = "create" /\ p \in {"made", "same", "taken"}) => space # "none"
    /\ (dd = "create" /\ p \in {"made", "same"}) => v = space

Made(c) == calls[c].does = "create" /\ calls[c].at = "made"

CallsInv ==
    /\ \A c \in Calls : Settled(c, calls[c].does, calls[c].at, calls[c].saw)
    /\ \A c, d \in Calls : Made(c) /\ Made(d) => c = d

LoginInv ==
    /\ failed \in 0..MaxFailed /\ locked \in BOOLEAN
    /\ locked => failed = MaxFailed
    /\ window \in 0..PerAccount + 1 /\ admitted \in Nat
    /\ admitted <= window /\ admitted <= PerAccount

\* Salt and version are of the same clock, in the row and in every session.
SessionInv ==
    /\ credential.password \in Passwords /\ credential.salt = credential.version
    /\ DOMAIN sessions \subseteq Calls \cup {OldSid}
    /\ \A s \in DOMAIN sessions : sessions[s].salt = sessions[s].version
    /\ live \subseteq DOMAIN sessions /\ live \subseteq index

Accepted == {i \in 1..MaxInvites : invites[i] = "accepted"}
Roles == {"none", "viewer", "editor", "admin", "owner"}
Statuses == {"none", "pending", "accepted", "revoked", "expired"}

MemberInv ==
    /\ role \in [People -> Roles] /\ role["owner"] = "owner"
    /\ invites \in [1..MaxInvites -> Statuses]
    /\ joins \in Nat /\ Cardinality(Accepted) <= joins

AccountInv == CallsShape /\ CallsInv /\ LoginInv /\ SessionInv /\ MemberInv

-----------------------------------------------------------------------------
\* One request has moved on.
Turned(c, dd, p, v) ==
    /\ CallsShape'
    /\ calls'[c].does = dd /\ calls'[c].at = p /\ calls'[c].saw = v
    /\ \A d \in Calls \ {c} : calls'[d] = calls[d]

LEMMA GoesIs ==
    ASSUME CallsShape, NEW c \in Calls, NEW p, GoesTo(c, p)
    PROVE  Turned(c, calls[c].does, p, calls[c].saw)
<1>1. calls' = [d \in Calls |->
          IF d = c THEN [does |-> calls[c].does, at |-> p, saw |-> calls[c].saw] ELSE calls[d]]
  BY DEF GoesTo, CallsShape
<1> QED  BY <1>1 DEF Turned, CallsShape

LEMMA GoesWithIs ==
    ASSUME CallsShape, NEW c \in Calls, NEW p, NEW v, GoesWith(c, p, v)
    PROVE  Turned(c, calls[c].does, p, v)
<1>1. calls' = [d \in Calls |->
          IF d = c THEN [does |-> calls[c].does, at |-> p, saw |-> v] ELSE calls[d]]
  BY DEF GoesWith, CallsShape
<1> QED  BY <1>1 DEF Turned, CallsShape

LEMMA BeginsIs ==
    ASSUME CallsShape, NEW c \in Calls, NEW dd, NEW p, NEW v, Begins(c, dd, p, v)
    PROVE  Turned(c, dd, p, v)
<1>1. calls' = [d \in Calls |-> IF d = c THEN [does |-> dd, at |-> p, saw |-> v] ELSE calls[d]]
  BY DEF Begins, CallsShape
<1> QED  BY <1>1 DEF Turned, CallsShape

\* If what it has seen then is right, nothing else can be wrong.

\* What one has seen stays right when sessions and the workspace only appear.
LEMMA StaysSettled ==
    ASSUME NEW d \in Calls, NEW dd, NEW p, NEW v, Settled(d, dd, p, v),
           DOMAIN sessions \subseteq DOMAIN sessions', space' = space \/ space = "none"
    PROVE  Settled(d, dd, p, v)'
<1>1. p = "signed" => d \in DOMAIN sessions'  BY DEF Settled
<1>2. dd = "create" /\ p \in {"made", "same", "taken"} => space' # "none"  BY DEF Settled
<1>3. dd = "create" /\ p \in {"made", "same"} => v = space'  BY DEF Settled
<1> QED  BY <1>1, <1>2, <1>3 DEF Settled

\* If what it has seen then is right, nothing else can be wrong.
LEMMA TurnInv ==
    ASSUME CallsInv, NEW c \in Calls, NEW dd, NEW p, NEW v, Turned(c, dd, p, v),
           Settled(c, dd, p, v)', DOMAIN sessions \subseteq DOMAIN sessions',
           space' = space \/ space = "none",
           (dd = "create" /\ p = "made") => space = "none"
    PROVE  CallsShape' /\ CallsInv'
<1>1. CallsShape'  BY DEF Turned
<1>2. ASSUME NEW d \in Calls
      PROVE  Settled(d, calls[d].does, calls[d].at, calls[d].saw)'
  <2>1. CASE d = c  
    <3>1. calls'[d].does = dd /\ calls'[d].at = p /\ calls'[d].saw = v  BY <2>1 DEF Turned
    <3> QED  BY <2>1, <3>1 DEF Settled
  <2>2. CASE d # c
    <3>1. calls'[d] = calls[d]  BY <2>2 DEF Turned
    <3>2. Settled(d, calls[d].does, calls[d].at, calls[d].saw)  BY DEF CallsInv
    <3> DEFINE e == calls[d].does  f == calls[d].at  g == calls[d].saw
    <3>3. calls'[d].does = e /\ calls'[d].at = f /\ calls'[d].saw = g  BY <3>1
    <3> QED  BY <3>1, <3>2, StaysSettled DEF Settled
  <2> QED  BY <2>1, <2>2
<1>3. ASSUME NEW d \in Calls, NEW e \in Calls, Made(d)', Made(e)' PROVE d = e
  <2>1. \A x \in Calls : Made(x) => space # "none"  BY DEF CallsInv, Settled, Made
  <2>2. \A x \in Calls \ {c} : Made(x)' => Made(x)  BY DEF Turned, Made
  <2>3. Made(c)' => dd = "create" /\ p = "made"  BY DEF Turned, Made
  <2> QED  BY <1>3, <2>1, <2>2, <2>3 DEF CallsInv
<1> HIDE DEF Made
<1> QED  BY <1>1, <1>2, <1>3 DEF CallsInv

LEMMA SettledNow ==
    ASSUME CallsInv, NEW c \in Calls
    PROVE  Settled(c, calls[c].does, calls[c].at, calls[c].saw)
BY DEF CallsInv

Turnable == CallsShape /\ CallsInv
SameSpaces == space' = space /\ DOMAIN sessions \subseteq DOMAIN sessions'

LEMMA GoesInv ==
    ASSUME Turnable, NEW c \in Calls, NEW dd, NEW p, NEW v, GoesTo(c, p), SameSpaces,
           calls[c].does = dd, calls[c].saw = v,
           Settled(c, dd, p, v)', dd = "create" => p # "made"
    PROVE  Turnable'
<1>1. Turned(c, dd, p, v)  BY GoesIs DEF Turnable
<1> QED  BY <1>1, TurnInv DEF Turnable, SameSpaces

LEMMA EndsInv ==
    ASSUME Turnable, NEW c \in Calls, NEW p \in {"refused", "issued", "unavailable"},
           GoesTo(c, p), SameSpaces
    PROVE  Turnable'
<1> DEFINE dd == calls[c].does  v == calls[c].saw
<1>1. calls[c].does = dd /\ calls[c].saw = v  OBVIOUS
<1> HIDE DEF dd, v
<1>2. PICK d, w : d = dd /\ w = v  OBVIOUS
<1>3. Settled(c, d, p, w)'  BY DEF Settled
<1> QED  BY <1>1, <1>2, <1>3, GoesInv

LEMMA BeginsInv ==
    ASSUME Turnable, NEW c \in Calls, NEW dd, NEW p, NEW v, Begins(c, dd, p, v),
           DOMAIN sessions \subseteq DOMAIN sessions', space' = space \/ space = "none",
           dd = "create" /\ p = "made" => space = "none", Settled(c, dd, p, v)'
    PROVE  Turnable'
BY BeginsIs, TurnInv DEF Turnable

\* A request that moves on keeps what it does and has seen.
LEMMA AtNow ==
    ASSUME Turnable, NEW c \in Calls
    PROVE  \E d, p, v : /\ calls[c].does = d /\ calls[c].at = p /\ calls[c].saw = v
                        /\ Settled(c, d, p, v)
BY SettledNow DEF Turnable

LEMMA LoginCalls ==
    ASSUME Turnable, NEW c \in Calls,
           \/ \E p \in Passwords : AskForLogin(c, p)
           \/ ReadForLogin(c) \/ WrongPassword(c) \/ RightPassword(c) \/ ResetLimit(c)
    PROVE  Turnable'
<1> PICK d, q, v : /\ calls[c].does = d /\ calls[c].at = q /\ calls[c].saw = v
                   /\ Settled(c, d, q, v)
  BY AtNow
<1>1. ASSUME NEW p \in Passwords, AskForLogin(c, p) PROVE Turnable'
  <2>1. SameSpaces  BY <1>1 DEF AskForLogin, SameSpaces, redisVars
  <2>2. PICK x \in {"admitted", "refused"} : Begins(c, "login", x, p)
    BY <1>1 DEF AskForLogin
  <2>3. Settled(c, "login", x, p)'  BY DEF Settled
  <2> QED  BY <2>1, <2>2, <2>3, BeginsInv DEF SameSpaces
<1>2. ASSUME ReadForLogin(c) PROVE Turnable'
  <2>1. SameSpaces  BY <1>2 DEF ReadForLogin, SameSpaces, redisVars
  <2>2. PICK x \in {"right", "wrong", "refused"} : GoesTo(c, x)  BY <1>2 DEF ReadForLogin
  <2>3. Settled(c, d, x, v)'  BY DEF Settled
  <2> QED  BY <2>1, <2>2, <2>3, GoesInv
<1>3. ASSUME WrongPassword(c) PROVE Turnable'
  BY <1>3, EndsInv DEF WrongPassword, SameSpaces, redisVars
<1>4. ASSUME RightPassword(c) PROVE Turnable'
  <2>1. SameSpaces /\ GoesTo(c, "known") /\ d = "login"
    BY <1>4 DEF RightPassword, SameSpaces, redisVars, IsAt
  <2>2. Settled(c, d, "known", v)'  BY <2>1 DEF Settled
  <2> QED  BY <2>1, <2>2, GoesInv
<1>5. ASSUME ResetLimit(c) PROVE Turnable'
  <2>1. SameSpaces /\ GoesTo(c, "done") /\ d = "login"
    BY <1>5 DEF ResetLimit, SameSpaces, redisVars, IsAt
  <2>2. Settled(c, d, "done", v)'  BY <2>1 DEF Settled
  <2> QED  BY <2>1, <2>2, GoesInv
<1> QED  BY <1>1, <1>2, <1>3, <1>4, <1>5

LEMMA SessionCalls ==
    ASSUME Turnable, NEW c \in Calls,
           Hydrate(c) \/ SignSession(c) \/ IssueSession(c) \/ SwitchWorkspace(c) \/ Logout(c)
    PROVE  Turnable'
<1> PICK d, q, v : /\ calls[c].does = d /\ calls[c].at = q /\ calls[c].saw = v
                   /\ Settled(c, d, q, v)
  BY AtNow
<1>1. ASSUME Hydrate(c) PROVE Turnable'
  <2>1. SameSpaces /\ q = "known"  BY <1>1 DEF Hydrate, SameSpaces, redisVars
  <2>2. PICK x \in {"hydrated", "refused"} : GoesTo(c, x)  BY <1>1 DEF Hydrate
  <2>3. Settled(c, d, x, v)'  BY <2>1 DEF Settled
  <2> QED  BY <2>1, <2>2, <2>3, GoesInv
<1>2. ASSUME SignSession(c) PROVE Turnable'
  <2>1. q = "hydrated" /\ GoesTo(c, "signed")  BY <1>2 DEF SignSession
  <2>2. DOMAIN sessions' = DOMAIN sessions \cup {c}  BY <1>2 DEF SignSession
  <2>3. SameSpaces  BY <1>2, <2>2 DEF SignSession, SameSpaces
  <2>4. Settled(c, d, "signed", v)'  BY <2>1, <2>2 DEF Settled
  <2> QED  BY <2>1, <2>3, <2>4, GoesInv
<1>3. ASSUME IssueSession(c) PROVE Turnable'
  <2>1. SameSpaces /\ q = "signed"  BY <1>3 DEF IssueSession, SameSpaces
  <2>2. PICK x \in {"issued", "done", "unavailable"} : GoesTo(c, x)  BY <1>3 DEF IssueSession
  <2>3. Settled(c, d, x, v)'  BY <2>1 DEF Settled
  <2> QED  BY <2>1, <2>2, <2>3, GoesInv
<1>4. ASSUME SwitchWorkspace(c) PROVE Turnable'
  <2>1. SameSpaces /\ Begins(c, "switch", "hydrated", 0)
    BY <1>4 DEF SwitchWorkspace, SameSpaces, redisVars
  <2>2. Settled(c, "switch", "hydrated", 0)'  BY DEF Settled
  <2> QED  BY <2>1, <2>2, BeginsInv DEF SameSpaces
<1>5. ASSUME Logout(c) PROVE Turnable'
  <2>1. SameSpaces /\ Begins(c, "logout", "done", 0)  BY <1>5 DEF Logout, SameSpaces
  <2>2. Settled(c, "logout", "done", 0)'  BY DEF Settled
  <2> QED  BY <2>1, <2>2, BeginsInv DEF SameSpaces
<1> QED  BY <1>1, <1>2, <1>3, <1>4, <1>5

LEMMA ChangeCalls ==
    ASSUME Turnable, NEW c \in Calls,
           \/ \E p \in Passwords : AskForChange(c, p) \/ AcceptInvite(c, p)
           \/ ReadClock(c) \/ ChangePassword(c)
    PROVE  Turnable'
<1> PICK d, q, v : /\ calls[c].does = d /\ calls[c].at = q /\ calls[c].saw = v
                   /\ Settled(c, d, q, v)
  BY AtNow
<1>1. ASSUME NEW p \in Passwords, AskForChange(c, p) PROVE Turnable'
  <2>1. SameSpaces  BY <1>1 DEF AskForChange, SameSpaces, redisVars
  <2>2. PICK w : \E y \in {"verified", "refused"} : Begins(c, "change", y, w)
    BY <1>1 DEF AskForChange
  <2> PICK x \in {"verified", "refused"} : Begins(c, "change", x, w)  BY <2>2
  <2>3. Settled(c, "change", x, w)'  BY DEF Settled
  <2> QED  BY <2>1, <2>3, BeginsInv DEF SameSpaces
<1>2. ASSUME NEW p \in Passwords, AcceptInvite(c, p) PROVE Turnable'
  <2>1. SameSpaces /\ d = "accept"  BY <1>2 DEF AcceptInvite, SameSpaces, redisVars, IsAt
  <2>2. PICK x \in {"known", "refused"} : GoesTo(c, x)  BY <1>2 DEF AcceptInvite
  <2>3. Settled(c, d, x, v)'  BY <2>1 DEF Settled
  <2> QED  BY <2>1, <2>2, <2>3, GoesInv
<1>3. ASSUME ReadClock(c) PROVE Turnable'
  <2>1. SameSpaces /\ d = "change"  BY <1>3 DEF ReadClock, SameSpaces, redisVars, IsAt
  <2>2. PICK w : GoesWith(c, "hashed", w)  BY <1>3 DEF ReadClock
  <2>3. Turned(c, d, "hashed", w)  BY <2>2, GoesWithIs DEF Turnable
  <2>4. Settled(c, d, "hashed", w)'  BY <2>1 DEF Settled
  <2> QED  BY <2>1, <2>3, <2>4, TurnInv DEF Turnable, SameSpaces
<1>4. ASSUME ChangePassword(c) PROVE Turnable'
  <2>1. SameSpaces /\ d = "change"  BY <1>4 DEF ChangePassword, SameSpaces, redisVars, IsAt
  <2>2. CASE StillVerified(c)
    <3> DEFINE w == [verified |-> v.verified, replaced |-> credential.salt]
    <3>1. GoesWith(c, "known", w)  BY <1>4, <2>2 DEF ChangePassword
    <3>2. w.verified = w.replaced  BY <2>2 DEF StillVerified
    <3> HIDE DEF w
    <3>3. PICK x : x = w  OBVIOUS
    <3>4. Turned(c, d, "known", x)  BY <3>1, <3>3, GoesWithIs DEF Turnable
    <3>5. Settled(c, d, "known", x)'  BY <2>1, <3>2, <3>3 DEF Settled
    <3> QED  BY <2>1, <3>4, <3>5, TurnInv DEF Turnable, SameSpaces
  <2>3. CASE ~StillVerified(c)
    <3>1. GoesTo(c, "refused")  BY <1>4, <2>3 DEF ChangePassword
    <3> QED  BY <2>1, <3>1, EndsInv
  <2> QED  BY <2>2, <2>3
<1> QED  BY <1>1, <1>2, <1>3, <1>4

LEMMA InviteCalls ==
    ASSUME Turnable, NEW c \in Calls,
           \/ CreateInvite(c) \/ RevokePending(c) \/ InsertInvite(c) \/ WriteRevoked(c)
           \/ \E i \in DOMAIN invites :
                 RevokeInvite(c, i) \/ ReadInvite(c, i) \/ InviteExpired(c, i)
    PROVE  Turnable'
<1> PICK d, q, v : /\ calls[c].does = d /\ calls[c].at = q /\ calls[c].saw = v
                   /\ Settled(c, d, q, v)
  BY AtNow
<1>1. SameSpaces
  BY DEF SameSpaces, redisVars, CreateInvite, RevokePending, InsertInvite, WriteRevoked,
         RevokeInvite, ReadInvite, InviteExpired
<1>2. ASSUME NEW e \in {"invite", "revoke", "accept"}, NEW x \in {"checked", "read", "refused"},
             NEW w, Begins(c, e, x, w)
      PROVE  Turnable'
  <2>1. Settled(c, e, x, w)'  BY DEF Settled
  <2> QED  BY <1>1, <1>2, <2>1, BeginsInv DEF SameSpaces
<1>3. ASSUME d \in {"invite", "revoke"}, NEW x \in {"inserting", "done"}, GoesTo(c, x)
      PROVE  Turnable'
  <2>1. Settled(c, d, x, v)'  BY <1>3 DEF Settled
  <2> QED  BY <1>1, <1>3, <2>1, GoesInv
<1>4. CASE CreateInvite(c)  BY <1>2, <1>4 DEF CreateInvite
<1>5. CASE RevokePending(c)  BY <1>3, <1>5 DEF RevokePending, IsAt
<1>6. CASE InsertInvite(c)  BY <1>3, <1>6 DEF InsertInvite, IsAt
<1>7. CASE WriteRevoked(c)  BY <1>3, <1>7 DEF WriteRevoked, IsAt
<1>8. CASE \E i \in DOMAIN invites : RevokeInvite(c, i) \/ ReadInvite(c, i) \/ InviteExpired(c, i)
  <2>1. PICK w : \E e \in {"revoke", "accept"}, x \in {"read", "refused"} : Begins(c, e, x, w)
    BY <1>8 DEF RevokeInvite, ReadInvite, InviteExpired
  <2> QED  BY <1>2, <2>1
<1> QED  BY <1>4, <1>5, <1>6, <1>7, <1>8

\* MayManage lets through no owner, and only the owner is one.
LEMMA MemberCalls ==
    ASSUME Turnable, role["owner"] = "owner", NEW c \in Calls,
           \/ \E who \in People : ManageMember(c, "role", who) \/ ManageMember(c, "remove", who)
           \/ \E r \in {"editor", "admin"} : ChangeRole(c, r)
           \/ RemoveMember(c)
    PROVE  Turnable'
<1> PICK d, q, v : /\ calls[c].does = d /\ calls[c].at = q /\ calls[c].saw = v
                   /\ Settled(c, d, q, v)
  BY AtNow
<1>1. SameSpaces  BY DEF SameSpaces, redisVars, ManageMember, ChangeRole, RemoveMember
<1>2. ASSUME NEW who \in People, NEW e \in {"role", "remove"}, ManageMember(c, e, who)
      PROVE  Turnable'
  <2>1. who = "user"  BY <1>2 DEF ManageMember, MayManage, People
  <2>2. Begins(c, e, "read", who)  BY <1>2 DEF ManageMember
  <2>3. Settled(c, e, "read", who)'  BY <2>1 DEF Settled
  <2> QED  BY <1>1, <2>2, <2>3, BeginsInv DEF SameSpaces
<1>3. ASSUME NEW r \in {"editor", "admin"}, ChangeRole(c, r) PROVE Turnable'
  <2>1. GoesTo(c, "done") /\ d = "role"  BY <1>3 DEF ChangeRole, IsAt
  <2>2. Settled(c, d, "done", v)'  BY <2>1 DEF Settled
  <2> QED  BY <1>1, <2>1, <2>2, GoesInv
<1>4. ASSUME RemoveMember(c) PROVE Turnable'
  <2>1. GoesTo(c, "done") /\ d = "remove"  BY <1>4 DEF RemoveMember, IsAt
  <2>2. Settled(c, d, "done", v)'  BY <2>1 DEF Settled
  <2> QED  BY <1>1, <2>1, <2>2, GoesInv
<1> QED  BY <1>2, <1>3, <1>4

\* The one who makes the workspace finds none.
LEMMA WorkspaceCalls ==
    ASSUME Turnable, NEW c \in Calls,
           (\E name \in Names : CreateWorkspace(c, name)) \/ LookAtWorkspace(c)
    PROVE  Turnable'
<1> PICK d, q, v : /\ calls[c].does = d /\ calls[c].at = q /\ calls[c].saw = v
                   /\ Settled(c, d, q, v)
  BY AtNow
<1>1. DOMAIN sessions' = DOMAIN sessions
  BY DEF CreateWorkspace, LookAtWorkspace, redisVars
<1>2. ASSUME NEW name \in Names, CreateWorkspace(c, name) PROVE Turnable'
  <2>1. CASE space = "none"
    <3>1. Begins(c, "create", "made", name) /\ space' = name
      BY <1>2, <2>1 DEF CreateWorkspace
    <3>2. Settled(c, "create", "made", name)'  BY <3>1 DEF Settled, Names
    <3> QED  BY <1>1, <2>1, <3>1, <3>2, BeginsInv
  <2>2. CASE space # "none"
    <3>1. Begins(c, "create", "taken", name) /\ space' = space
      BY <1>2, <2>2 DEF CreateWorkspace
    <3>2. Settled(c, "create", "taken", name)'  BY <2>2, <3>1 DEF Settled
    <3> QED  BY <1>1, <2>2, <3>1, <3>2, BeginsInv
  <2> QED  BY <2>1, <2>2
<1>3. ASSUME LookAtWorkspace(c) PROVE Turnable'
  <2>1. SameSpaces /\ d = "create" /\ q = "taken"
    BY <1>1, <1>3 DEF LookAtWorkspace, SameSpaces, IsAt
  <2>2. CASE space = v
    <3>1. GoesTo(c, "same")  BY <1>3, <2>2 DEF LookAtWorkspace
    <3>2. Settled(c, d, "same", v)'  BY <2>1, <2>2 DEF Settled, SameSpaces
    <3> QED  BY <2>1, <3>1, <3>2, GoesInv
  <2>3. CASE space # v
    <3>1. GoesTo(c, "refused")  BY <1>3, <2>3 DEF LookAtWorkspace
    <3> QED  BY <2>1, <3>1, EndsInv
  <2> QED  BY <2>2, <2>3
<1> QED  BY <1>2, <1>3

-----------------------------------------------------------------------------
(***************************************************************************)
(* The limit and the lock of the account.                                  *)
(***************************************************************************)
LEMMA LoginStep ==
    ASSUME LoginInv, AccountNext
    PROVE  LoginInv'
<1> USE AccountAssumption
<1>1. CASE UNCHANGED loginVars  BY <1>1 DEF LoginInv, loginVars
<1>2. ASSUME NEW c \in Calls, NEW p \in Passwords, AskForLogin(c, p) PROVE LoginInv'
  <2>1. window' = IF window > PerAccount THEN window ELSE window + 1  BY <1>2 DEF AskForLogin
  <2>2. \/ window' <= PerAccount /\ admitted' = admitted + 1
        \/ admitted' = admitted
    BY <1>2 DEF AskForLogin
  <2>3. failed' = failed /\ locked' = locked  BY <1>2 DEF AskForLogin
  <2> QED  BY <2>1, <2>2, <2>3 DEF LoginInv
<1>3. ASSUME NEW c \in Calls, WrongPassword(c) PROVE LoginInv'
  <2>1. CASE locked  BY <1>3, <2>1 DEF WrongPassword, LoginInv
  <2>2. CASE ~locked
    <3>1. /\ failed' = (IF failed < MaxFailed THEN failed + 1 ELSE failed)
          /\ locked' = (failed + 1 >= MaxFailed)
          /\ window' = window /\ admitted' = admitted
      BY <1>3, <2>2 DEF WrongPassword
    <3>2. failed \in 0..MaxFailed  BY DEF LoginInv
    <3>3. failed' \in 0..MaxFailed  BY <3>1, <3>2
    <3>4. locked' => failed + 1 >= MaxFailed  BY <3>1
    <3>5. locked' => failed' = MaxFailed  BY <3>1, <3>2, <3>4
    <3>6. locked' \in BOOLEAN  BY <3>1
    <3> QED  BY <3>1, <3>3, <3>5, <3>6 DEF LoginInv
  <2> QED  BY <2>1, <2>2
<1>4. ASSUME failed' = 0, locked' = FALSE, UNCHANGED <<window, admitted>> PROVE LoginInv'
  <2>1. failed' \in 0..MaxFailed  BY <1>4
  <2>2. locked' \in BOOLEAN /\ ~locked'  BY <1>4
  <2>3. /\ window' \in 0..PerAccount + 1 /\ admitted' \in Nat
        /\ admitted' <= window' /\ admitted' <= PerAccount
    BY <1>4 DEF LoginInv
  <2> QED  BY <2>1, <2>2, <2>3 DEF LoginInv
<1>5. ASSUME window' = 0, admitted' = 0, UNCHANGED <<failed, locked>> PROVE LoginInv'
  BY <1>5 DEF LoginInv
<1>6. CASE LockEnds  BY <1>6 DEF LockEnds, LoginInv
<1>7. CASE WindowEnds  BY <1>5, <1>7 DEF WindowEnds
<1>8. ASSUME NEW sid, SessionExpires(sid) PROVE LoginInv'
  BY <1>1, <1>8 DEF SessionExpires
<1>9. ASSUME NEW c \in Calls,
             \/ \E p \in Passwords : AskForChange(c, p)
             \/ ReadForLogin(c)
             \/ Hydrate(c) \/ SignSession(c) \/ IssueSession(c) \/ SwitchWorkspace(c) \/ Logout(c)
             \/ ReadClock(c)
             \/ CreateInvite(c) \/ RevokePending(c) \/ InsertInvite(c) \/ WriteRevoked(c)
             \/ \E i \in DOMAIN invites :
                   RevokeInvite(c, i) \/ ReadInvite(c, i) \/ InviteExpired(c, i)
             \/ \E who \in People : ManageMember(c, "role", who) \/ ManageMember(c, "remove", who)
             \/ \E r \in {"editor", "admin"} : ChangeRole(c, r)
             \/ RemoveMember(c)
             \/ \E name \in Names : CreateWorkspace(c, name)
             \/ LookAtWorkspace(c)
      PROVE  LoginInv'
  <2>1. UNCHANGED loginVars
    BY <1>9 DEF AskForChange, ReadForLogin, Hydrate, SignSession, IssueSession, SwitchWorkspace,
           Logout, ReadClock, CreateInvite, RevokePending, InsertInvite, WriteRevoked,
           RevokeInvite, ReadInvite, InviteExpired, ManageMember, ChangeRole, RemoveMember,
           CreateWorkspace, LookAtWorkspace
  <2> QED  BY <1>1, <2>1
<1>10. ASSUME NEW c \in Calls, NEW p \in Passwords, AcceptInvite(c, p) PROVE LoginInv'
  BY <1>4, <1>10 DEF AcceptInvite
<1>11. ASSUME NEW c \in Calls, ChangePassword(c) PROVE LoginInv'
  <2>1. \/ failed' = 0 /\ locked' = FALSE /\ UNCHANGED <<window, admitted>>
        \/ UNCHANGED loginVars
    BY <1>11 DEF ChangePassword, loginVars
  <2> QED  BY <1>1, <1>4, <2>1
<1>12. ASSUME NEW c \in Calls, RightPassword(c) PROVE LoginInv'
  BY <1>4, <1>12 DEF RightPassword
<1>13. ASSUME NEW c \in Calls, ResetLimit(c) PROVE LoginInv'
  BY <1>5, <1>13 DEF ResetLimit
<1> QED
  BY <1>2, <1>3, <1>6, <1>7, <1>8, <1>9, <1>10, <1>11, <1>12, <1>13 DEF AccountNext

-----------------------------------------------------------------------------
(***************************************************************************)
(* The credential and the sessions signed with it.                         *)
(***************************************************************************)
LEMMA SessionStep ==
    ASSUME CallsInv, SessionInv, AccountNext
    PROVE  SessionInv'
<1>1. ASSUME UNCHANGED <<credential, sessions>>, live' \subseteq live,
             live' \subseteq index'
      PROVE  SessionInv'
  BY <1>1 DEF SessionInv
<1>2. ASSUME UNCHANGED redisVars,
             credential'.password \in Passwords, credential'.salt = credential'.version
      PROVE  SessionInv'
  BY <1>2 DEF SessionInv, redisVars
<1>3. ASSUME NEW c \in Calls, SignSession(c) PROVE SessionInv'
  <2>1. DOMAIN sessions' = DOMAIN sessions \cup {c}  BY <1>3 DEF SignSession
  <2>2. \A s \in DOMAIN sessions' : sessions'[s].salt = sessions'[s].version
    BY <1>3 DEF SignSession, SessionInv
  <2>3. UNCHANGED <<credential, live, index>>  BY <1>3 DEF SignSession
  <2> QED  BY <2>1, <2>2, <2>3 DEF SessionInv
<1>4. ASSUME NEW c \in Calls, IssueSession(c) PROVE SessionInv'
  <2>1. UNCHANGED <<credential, sessions>>  BY <1>4 DEF IssueSession
  <2>2. c \in DOMAIN sessions
    <3>1. calls[c].at = "signed"  BY <1>4 DEF IssueSession
    <3> QED  BY <3>1 DEF CallsInv, Settled
  <2>3. CASE UNCHANGED <<live, index>>  BY <1>1, <2>1, <2>3 DEF SessionInv
  <2>4. CASE /\ live' = (live \ Replaced(c)) \cup {c}
             /\ index' = ((index \cap live) \ Replaced(c)) \cup {c}
    <3> DEFINE gone == Replaced(c)
    <3> HIDE DEF gone
    <3>1. live' = (live \ gone) \cup {c} /\ index' = ((index \cap live) \ gone) \cup {c}
      BY <2>4 DEF gone
    <3>2. live' \subseteq index'  BY <3>1 DEF SessionInv
    <3>3. live' \subseteq DOMAIN sessions'  BY <2>1, <2>2, <3>1 DEF SessionInv
    <3> QED  BY <2>1, <3>2, <3>3 DEF SessionInv
  <2> QED  BY <1>4, <2>3, <2>4 DEF IssueSession
<1>5. ASSUME NEW sid, SessionExpires(sid) PROVE SessionInv'
  BY <1>1, <1>5 DEF SessionExpires, SessionInv
<1>6. ASSUME NEW c \in Calls, Logout(c) PROVE SessionInv'
  BY <1>1, <1>6 DEF Logout, SessionInv
<1>7. ASSUME NEW c \in Calls, ChangePassword(c) PROVE SessionInv'
  <2>1. UNCHANGED redisVars  BY <1>7 DEF ChangePassword
  <2>2. \/ UNCHANGED credential
        \/ \E q \in Passwords : credential' = [password |-> q, salt |-> calls[c].saw.now,
                                               version |-> calls[c].saw.now]
    BY <1>7 DEF ChangePassword
  <2> QED  BY <1>2, <2>1, <2>2 DEF SessionInv
<1>8. ASSUME NEW c \in Calls, NEW p \in Passwords, AcceptInvite(c, p) PROVE SessionInv'
  <2>1. UNCHANGED redisVars  BY <1>8 DEF AcceptInvite
  <2>2. credential' = [password |-> p, salt |-> calls[c].saw.now, version |-> calls[c].saw.now]
    BY <1>8 DEF AcceptInvite
  <2> QED  BY <1>2, <2>1, <2>2
<1>9. ASSUME UNCHANGED <<credential, redisVars>> PROVE SessionInv'
  BY <1>9 DEF SessionInv, redisVars
<1>10. ASSUME \/ WindowEnds \/ LockEnds
              \/ \E c \in Calls :
                    \/ \E p \in Passwords : AskForLogin(c, p) \/ AskForChange(c, p)
                    \/ ReadForLogin(c) \/ WrongPassword(c) \/ RightPassword(c) \/ ResetLimit(c)
                    \/ Hydrate(c) \/ SwitchWorkspace(c) \/ ReadClock(c)
                    \/ CreateInvite(c) \/ RevokePending(c) \/ InsertInvite(c) \/ WriteRevoked(c)
                    \/ \E i \in DOMAIN invites :
                          RevokeInvite(c, i) \/ ReadInvite(c, i) \/ InviteExpired(c, i)
                    \/ \E who \in People :
                          ManageMember(c, "role", who) \/ ManageMember(c, "remove", who)
                    \/ \E r \in {"editor", "admin"} : ChangeRole(c, r)
                    \/ RemoveMember(c)
                    \/ \E name \in Names : CreateWorkspace(c, name)
                    \/ LookAtWorkspace(c)
       PROVE  SessionInv'
  <2>1. UNCHANGED <<credential, redisVars>>
    BY <1>10 DEF WindowEnds, LockEnds, AskForLogin, AskForChange, ReadForLogin, WrongPassword,
           RightPassword, ResetLimit, Hydrate, SwitchWorkspace, ReadClock, CreateInvite,
           RevokePending, InsertInvite, WriteRevoked, RevokeInvite, ReadInvite, InviteExpired,
           ManageMember, ChangeRole, RemoveMember, CreateWorkspace, LookAtWorkspace
  <2> QED  BY <1>9, <2>1
<1> QED
  BY <1>3, <1>4, <1>5, <1>6, <1>7, <1>8, <1>10 DEF AccountNext

-----------------------------------------------------------------------------
(***************************************************************************)
(* Members and invites.                                                    *)
(***************************************************************************)
LEMMA AcceptedFinite ==
    /\ IsFiniteSet(Accepted) /\ Cardinality(Accepted) \in Nat
    /\ \A S : S \subseteq Accepted => IsFiniteSet(S) /\ Cardinality(S) <= Cardinality(Accepted)
<1>1. IsFiniteSet(1..MaxInvites)  BY AccountAssumption, FS_Interval
<1>2. Accepted \subseteq 1..MaxInvites  BY DEF Accepted
<1>3. IsFiniteSet(Accepted)  BY <1>1, <1>2, FS_Subset
<1> QED  BY <1>3, FS_CardinalityType, FS_Subset

\* Fewer invites may be accepted, or one more by the membership it made.
LEMMA MembersKept ==
    ASSUME MemberInv, role' \in [People -> Roles], role'["owner"] = "owner",
           invites' \in [1..MaxInvites -> Statuses],
           \/ Accepted' \subseteq Accepted /\ joins' = joins
           \/ \E i : Accepted' \subseteq Accepted \cup {i} /\ joins' = joins + 1
    PROVE  MemberInv'
<1>1. CASE Accepted' \subseteq Accepted /\ joins' = joins
  <2>1. Cardinality(Accepted') <= Cardinality(Accepted)  BY <1>1, AcceptedFinite
  <2>2. IsFiniteSet(Accepted')  BY <1>1, AcceptedFinite
  <2>3. Cardinality(Accepted') \in Nat  BY <2>2, FS_CardinalityType
  <2> QED  BY <1>1, <2>1, <2>3, AcceptedFinite DEF MemberInv
<1>2. ASSUME NEW i, Accepted' \subseteq Accepted \cup {i}, joins' = joins + 1
      PROVE  MemberInv'
  <2>1. /\ IsFiniteSet(Accepted \cup {i})
        /\ Cardinality(Accepted \cup {i}) <= Cardinality(Accepted) + 1
        /\ Cardinality(Accepted \cup {i}) \in Nat
    BY AcceptedFinite, FS_AddElement, FS_CardinalityType
  <2>2. /\ IsFiniteSet(Accepted')
        /\ Cardinality(Accepted') <= Cardinality(Accepted \cup {i})
    BY <1>2, <2>1, FS_Subset
  <2>3. Cardinality(Accepted') \in Nat  BY <2>2, FS_CardinalityType
  <2> QED  BY <1>2, <2>1, <2>2, <2>3, AcceptedFinite DEF MemberInv
<1> QED  BY <1>1, <1>2

LEMMA MemberStep ==
    ASSUME CallsInv, MemberInv, AccountNext
    PROVE  MemberInv'
<1>1. ASSUME UNCHANGED memberVars PROVE MemberInv'
  BY <1>1 DEF MemberInv, memberVars, Accepted
<1>2. RevokedPending \in [1..MaxInvites -> Statuses]
  BY DEF MemberInv, RevokedPending, Statuses
<1>3. \A i \in 1..MaxInvites : RevokedPending[i] = "accepted" => invites[i] = "accepted"
  BY DEF MemberInv, RevokedPending
<1>4. ASSUME UNCHANGED role, joins' = joins, NEW x \in 1..MaxInvites,
             NEW s \in {"pending", "revoked", "expired"}, invites' = [invites EXCEPT ![x] = s]
      PROVE  MemberInv'
  <2>1. invites' \in [1..MaxInvites -> Statuses]  BY <1>4 DEF MemberInv, Statuses
  <2>2. Accepted' \subseteq Accepted  BY <1>4 DEF MemberInv, Accepted
  <2> QED  BY <1>4, <2>1, <2>2, MembersKept DEF MemberInv
<1>5. ASSUME invites' = RevokedPending, joins' = joins, role' \in [People -> Roles],
             role'["owner"] = "owner"
      PROVE  MemberInv'
  <2>1. Accepted' \subseteq Accepted  BY <1>3, <1>5 DEF Accepted
  <2> QED  BY <1>2, <1>5, <2>1, MembersKept
<1>6. ASSUME NEW c \in Calls, RevokePending(c) PROVE MemberInv'
  BY <1>5, <1>6 DEF RevokePending, MemberInv
<1>7. ASSUME NEW c \in Calls, InsertInvite(c) PROVE MemberInv'
  <2>1. PICK i \in 1..MaxInvites : invites' = [invites EXCEPT ![i] = "pending"]
    BY <1>7 DEF InsertInvite, MemberInv
  <2> QED  BY <1>4, <1>7, <2>1 DEF InsertInvite
<1>8. ASSUME NEW c \in Calls, WriteRevoked(c) PROVE MemberInv'
  <2> DEFINE x == calls[c].saw
  <2>1. invites' = [invites EXCEPT ![x] = "revoked"] /\ UNCHANGED <<role, joins>>
    BY <1>8 DEF WriteRevoked
  <2> HIDE DEF x
  <2>2. CASE x \in 1..MaxInvites  BY <1>4, <2>1, <2>2
  <2>3. CASE x \notin 1..MaxInvites
    <3>1. invites' = invites  BY <2>1, <2>3 DEF MemberInv
    <3> QED  BY <1>1, <2>1, <3>1 DEF memberVars
  <2> QED  BY <2>2, <2>3
<1>9. ASSUME NEW c \in Calls, NEW i \in DOMAIN invites, InviteExpired(c, i) PROVE MemberInv'
  BY <1>4, <1>9 DEF InviteExpired, MemberInv
<1>10. ASSUME NEW c \in Calls, NEW p \in Passwords, AcceptInvite(c, p) PROVE MemberInv'
  <2>1. CASE Hydrates  BY <1>1, <1>10, <2>1 DEF AcceptInvite
  <2>2. CASE ~Hydrates
    <3> DEFINE x == calls[c].saw.invite
    <3>1. /\ role' = [role EXCEPT !["user"] = "viewer"]
          /\ invites' = [invites EXCEPT ![x] = "accepted"]
          /\ joins' = joins + 1
      BY <1>10, <2>2 DEF AcceptInvite
    <3> HIDE DEF x
    <3>2. role' \in [People -> Roles] /\ role'["owner"] = "owner"
      BY <3>1 DEF MemberInv, Roles, People
    <3>3. invites' \in [1..MaxInvites -> Statuses]  BY <3>1 DEF MemberInv, Statuses
    <3>4. Accepted' \subseteq Accepted \cup {x}  BY <3>1 DEF MemberInv, Accepted
    <3>5. \E i : Accepted' \subseteq Accepted \cup {i}  BY <3>4
    <3> QED  BY <3>1, <3>2, <3>3, <3>5, MembersKept
  <2> QED  BY <2>1, <2>2
<1>11. ASSUME NEW c \in Calls, NEW r \in {"editor", "admin"}, ChangeRole(c, r) PROVE MemberInv'
  <2> DEFINE x == calls[c].saw
  <2>1. x = "user"  BY <1>11 DEF ChangeRole, IsAt, CallsInv, Settled
  <2>2. /\ role' = role \/ role' = [role EXCEPT ![x] = r]
        /\ UNCHANGED <<invites, joins>>
    BY <1>11 DEF ChangeRole
  <2> HIDE DEF x
  <2>3. role' \in [People -> Roles] /\ role'["owner"] = "owner"
    BY <2>1, <2>2 DEF MemberInv, Roles, People
  <2>4. Accepted' = Accepted  BY <2>2 DEF Accepted
  <2> QED  BY <2>2, <2>3, <2>4, MembersKept DEF MemberInv
<1>12. ASSUME NEW c \in Calls, RemoveMember(c) PROVE MemberInv'
  <2> DEFINE x == calls[c].saw
  <2>1. x = "user"  BY <1>12 DEF RemoveMember, IsAt, CallsInv, Settled
  <2>2. role' = [role EXCEPT ![x] = "none"] /\ invites' = RevokedPending /\ joins' = joins
    BY <1>12 DEF RemoveMember
  <2> HIDE DEF x
  <2>3. role' \in [People -> Roles] /\ role'["owner"] = "owner"
    BY <2>1, <2>2 DEF MemberInv, Roles, People
  <2> QED  BY <1>5, <2>2, <2>3
<1>13. ASSUME \/ WindowEnds \/ LockEnds \/ \E sid \in live : SessionExpires(sid)
              \/ \E c \in Calls :
                    \/ \E p \in Passwords : AskForLogin(c, p) \/ AskForChange(c, p)
                    \/ ReadForLogin(c) \/ WrongPassword(c) \/ RightPassword(c) \/ ResetLimit(c)
                    \/ Hydrate(c) \/ SignSession(c) \/ IssueSession(c)
                    \/ SwitchWorkspace(c) \/ Logout(c) \/ ReadClock(c) \/ ChangePassword(c)
                    \/ CreateInvite(c)
                    \/ \E i \in DOMAIN invites : RevokeInvite(c, i) \/ ReadInvite(c, i)
                    \/ \E who \in People :
                          ManageMember(c, "role", who) \/ ManageMember(c, "remove", who)
                    \/ \E name \in Names : CreateWorkspace(c, name)
                    \/ LookAtWorkspace(c)
       PROVE  MemberInv'
  <2>1. UNCHANGED memberVars
    BY <1>13 DEF WindowEnds, LockEnds, SessionExpires, AskForLogin, AskForChange, ReadForLogin,
           WrongPassword, RightPassword, ResetLimit, Hydrate, SignSession, IssueSession,
           SwitchWorkspace, Logout, ReadClock, ChangePassword, CreateInvite, RevokeInvite,
           ReadInvite, ManageMember, CreateWorkspace, LookAtWorkspace
  <2> QED  BY <1>1, <2>1
<1> QED
  BY <1>6, <1>7, <1>8, <1>9, <1>10, <1>11, <1>12, <1>13 DEF AccountNext

-----------------------------------------------------------------------------
LEMMA AccountInvInit == AccountInit => AccountInv
<1> SUFFICES ASSUME AccountInit PROVE AccountInv  OBVIOUS
<1>1. calls = [c \in Calls |-> NoCall]  BY DEF AccountInit
<1>2. CallsShape  BY <1>1 DEF CallsShape, NoCall
<1>3. CallsInv  BY <1>1 DEF CallsInv, Settled, Made, NoCall
<1>4. LoginInv
  <2>1. failed \in 0..MaxFailed /\ locked \in BOOLEAN /\ (locked => failed = MaxFailed)
    BY DEF AccountInit
  <2>2. window = 0 /\ admitted = 0  BY DEF AccountInit
  <2> QED  BY <2>1, <2>2, AccountAssumption DEF LoginInv
<1>5. SessionInv  BY DEF AccountInit, SessionInv
<1>6. MemberInv
  <2>1. role \in [People -> Roles] /\ role["owner"] = "owner"
    BY DEF AccountInit, People, Roles
  <2>2. invites \in [1..MaxInvites -> Statuses]  BY DEF AccountInit, Statuses
  <2>3. Accepted = {}  BY DEF AccountInit, Accepted
  <2>4. Cardinality(Accepted) = 0  BY <2>3, FS_EmptySet
  <2> QED  BY <2>1, <2>2, <2>4 DEF MemberInv, AccountInit
<1> QED  BY <1>2, <1>3, <1>4, <1>5, <1>6 DEF AccountInv

LEMMA AccountInvStep == AccountInv /\ [AccountNext]_accountVars => AccountInv'
<1> SUFFICES ASSUME AccountInv, [AccountNext]_accountVars PROVE AccountInv'  OBVIOUS
<1> USE DEF AccountInv
<1>1. CASE AccountNext
  <2>1. Turnable'
    <3>1. Turnable /\ role["owner"] = "owner"  BY DEF Turnable, MemberInv
    <3>2. ASSUME UNCHANGED <<calls, sessions, space>> PROVE Turnable'
      BY <3>1, <3>2 DEF Turnable, CallsShape, CallsInv, Settled, Made
    <3>3. CASE WindowEnds \/ LockEnds \/ \E sid \in live : SessionExpires(sid)
      BY <3>2, <3>3 DEF WindowEnds, LockEnds, SessionExpires, redisVars
    <3>4. CASE \E c \in Calls : \E p \in Passwords :
                  AskForLogin(c, p) \/ AskForChange(c, p) \/ AcceptInvite(c, p)
      BY <3>1, <3>4, LoginCalls, ChangeCalls
    <3>5. CASE \E c \in Calls : \/ ReadForLogin(c) \/ WrongPassword(c)
                                \/ RightPassword(c) \/ ResetLimit(c)
      BY <3>1, <3>5, LoginCalls
    <3>6. CASE \E c \in Calls : \/ Hydrate(c) \/ SignSession(c) \/ IssueSession(c)
                                \/ SwitchWorkspace(c) \/ Logout(c)
      BY <3>1, <3>6, SessionCalls
    <3>7. CASE \E c \in Calls : ReadClock(c) \/ ChangePassword(c)  BY <3>1, <3>7, ChangeCalls
    <3>8. CASE \E c \in Calls :
                  \/ CreateInvite(c) \/ RevokePending(c) \/ InsertInvite(c) \/ WriteRevoked(c)
                  \/ \E i \in DOMAIN invites :
                        RevokeInvite(c, i) \/ ReadInvite(c, i) \/ InviteExpired(c, i)
      BY <3>1, <3>8, InviteCalls
    <3>9. CASE \E c \in Calls :
                  \/ \E who \in People :
                        ManageMember(c, "role", who) \/ ManageMember(c, "remove", who)
                  \/ \E r \in {"editor", "admin"} : ChangeRole(c, r)
                  \/ RemoveMember(c)
      BY <3>1, <3>9, MemberCalls
    <3>10. CASE \E c \in Calls :
                  (\E name \in Names : CreateWorkspace(c, name)) \/ LookAtWorkspace(c)
      BY <3>1, <3>10, WorkspaceCalls
    <3> QED
      BY <1>1, <3>3, <3>4, <3>5, <3>6, <3>7, <3>8, <3>9, <3>10 DEF AccountNext
  <2> QED  BY <1>1, <2>1, LoginStep, SessionStep, MemberStep DEF Turnable
<1>2. CASE UNCHANGED accountVars
  BY <1>2 DEF accountVars, CallsShape, CallsInv, Settled, Made, LoginInv, SessionInv,
              MemberInv, Accepted
<1> QED  BY <1>1, <1>2

\* The invariant says what the run checks.
LEMMA AccountInvHolds == AccountInv => AccountsHold
<1> SUFFICES ASSUME AccountInv PROVE AccountsHold  OBVIOUS
<1> USE DEF AccountInv
<1>1. AccountTypeOK
  BY DEF AccountTypeOK, LoginInv, SessionInv, MemberInv, Roles, Statuses
<1>2. ChangesWereVerified  BY DEF ChangesWereVerified, CallsInv, Settled
<1>3. SessionsFollowPassword  BY DEF SessionsFollowPassword, Resolves, SessionInv
<1>4. LoginsAreCounted  BY AccountAssumption DEF LoginsAreCounted, LoginInv
<1>5. MembershipsAccounted
  <2>1. {i \in DOMAIN invites : invites[i] = "accepted"} = Accepted  BY DEF Accepted, MemberInv
  <2> QED  BY <2>1 DEF MembershipsAccounted, MemberInv
<1>6. OneWorkspacePerRequest
  <2> DEFINE answered == {c \in Calls : /\ calls[c].does = "create"
                                        /\ calls[c].at \in {"made", "same"}}
             makers == {c \in answered : calls[c].at = "made"}
  <2>1. \A c \in answered : calls[c].saw = space  BY DEF CallsInv, Settled
  <2>2. \A c, d \in makers : c = d  BY DEF CallsInv, Made
  <2> HIDE DEF makers
  <2>3. Cardinality(makers) <= 1
    <3>1. CASE makers = {}  BY <3>1, FS_EmptySet
    <3>2. CASE makers # {}
      <4>1. PICK c : makers = {c}  BY <2>2, <3>2
      <4> QED  BY <4>1, FS_Singleton
    <3> QED  BY <3>1, <3>2
  <2> QED  BY <2>1, <2>3 DEF OneWorkspacePerRequest, makers
<1> QED  BY <1>1, <1>2, <1>3, <1>4, <1>5, <1>6 DEF AccountsHold

THEOREM AccountsAreSound == AccountSpec => []AccountsHold
<1>1. AccountInit => AccountInv  BY AccountInvInit
<1>2. AccountInv /\ [AccountNext]_accountVars => AccountInv'  BY AccountInvStep
<1>3. AccountInv => AccountsHold  BY AccountInvHolds
<1> QED  BY <1>1, <1>2, <1>3, PTL DEF AccountSpec
=============================================================================
