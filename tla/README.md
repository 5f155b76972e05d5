# UnoRAG in TLA+

A verification development of this repository: TLA+ modules translated from the source, TLC runs on small
instances, and theorems whose proofs TLAPS checks. Paths below are relative to the repository root
(`src/worker/...` is the worker, `docs/...` the documentation). In this directory,
`tlc -config Publish.cfg MCLifecycle` makes a run (see the table of runs for the others) and
`tlapm DocumentLifecycle_proofs.tla` checks the proofs of a module.

## The system

UnoRAG answers questions over documents. A Next.js process serves the API and the interface and answers the asks, a
DBOS worker runs durable workflows, a control process dispatches jobs, reconciles them and sends alerts, PostgreSQL holds the
business truth, Qdrant the derived vectors, Redis the session memory, and an object store the uploaded files.

| Component | State it keeps | Operations | What makes it correct | Here |
|---|---|---|---|---|
| Document commands (upload, replace, reindex, cancel, retry, ACL, delete) | rows of `documents`, `document_versions`, `jobs`, `document_acl` | one transaction each, under the library and document locks | at most one ingest may still activate; statuses are truthful | modelled |
| `document.ingest` workflow | its job and version, a generation of Qdrant points | begin, stage, prepare, expose, activate, deactivate the previous generation, error | only the desired version is published, in one step; its points are visible; nothing staged is forgotten | modelled |
| `document.acl.project` workflow | its job, `projected_acl_fingerprint`, the points' ACL | one transaction around a Qdrant write, error | points that are retrieved carry the current ACL | modelled |
| `generation.cleanup` workflow | `generation_cleanup_queue`, its job, the points | materialise, sweep, delete, finish, error, operator retry | never hits what is served; done means erased; no row waits for ever | modelled |
| `document.delete` workflow | its job, the document's tombstone, points, objects | start, drain, freeze targets, delete points and objects, finish, error, retry | nothing is left and nothing can come back; it ends | modelled |
| Active generation resolver | none (reads) | resolve | as above: the properties about readers are stated on it | modelled |
| Dispatcher, reconciler, control loop, quarantine | `dispatched_at`, job statuses | list and enqueue, quarantine, project dead workflows | every job is dispatched and ends; batches do not starve | modelled |
| Qdrant write store | points of a generation, its manifest | stage in batches, verify, visibility, ACL, delete | a staged generation is one manifest, whatever lands late | modelled |
| Library delete, tombstone purge | `libraries`, tombstones, originals | upload, cascade, completion, retry, purge, recount | a library is deleted after its documents; nothing outlives its row | modelled; of the counters only the status they write |
| PDF parse and local provider (LiteParse) | a task table by idempotency key, a semaphore and its line, in memory | analyze, submit, poll, cancel, time out, run, release | native work within the limit, no permit lost, no waiter forgotten; every parse ends | modelled |
| Readers, chunking, index records | none (functions of the file) | parse text, Word, LiteParse and MinerU output, cut, pack, overlap, slice | no text and no table row lost or repeated; no two records share a point | partly |
| AI concurrency gate | leases and a FIFO queue in memory | acquire, release, abort, time out | never over the limit, no lost wake-up | modelled |
| Ask handler, answer stream, ask runs | the ask's evidence, its row in `ask_runs` | retrieve, rewrite, judge, answer, check access, settle, sweep | no answer from sources out of reach; a finished run stays finished | modelled |
| Session memory and archived threads | a Redis list, rows of turns, with sources | append, trim, archive, reuse | a memory names every source it draws on | what asks append and reuse |
| Ask client | streams, turns, session and thread of the page | ask, stop, retry, archive, open, navigate | late callbacks are dropped; the page shows one conversation | modelled |
| Alerting | alerts, transitions, deliveries | evaluate, claim, send, retry | every change of an alert is announced; a delivery ends once | modelled |
| Retrieval, embedding provider | none (one request's) | resolve, search, list, fuse, rerank, cite; ask, read, pause, retry | cites only what is in scope and was visible; nothing dropped but for a better one; retries are due, bodies closed | modelled; naming a document left out |
| Ask graph, table answers | the state of one question | route, rewrite, retrieve, probe, plan, execute, judge, retry, answer, refuse | answers rest on evidence, the question ends; an aggregate is of the whole table | modelled; parsing of numbers abstracted |
| Object storage and its routes | originals by key | put, take back, reuse, look for, stream, erase | an original lives as long as a version needs it | modelled |
| Accounts: login, sessions, password, invites, members, workspaces | credentials, Redis sessions and counters, members, invites | statements, transactions, Redis scripts that overlap | a replaced password admits nobody; an account is locked and limited; one owner | modelled |
| Knowledge API and proxy | service keys, a window per key | authenticate, limit, read, inject, call, answer, audit | each request counted once, errors uniform, the workspace's policy in force | modelled |
| UI but for the page of an ask, operations queries, evaluation scripts | none the system relies on | render, aggregate, measure | | left out |

How they interact: a command writes a job row in its own transaction; the control process lists queued jobs
and enqueues a DBOS workflow whose id is the job id; each workflow step is one PostgreSQL transaction or one external call, and
DBOS checkpoints its result afterwards. Workflows and commands meet only in PostgreSQL rows and in Qdrant points, and
PostgreSQL and Qdrant are never updated atomically together. The stage
step of an ingest parses a file in the worker's own process, and all parses there share one semaphore; what the parse yields becomes nodes,
chunks, records, and the points that the write store stages. An ask resolves a scope, retrieves, and calls models through the gate; it checks
the access of its identity again and again, writes its exchange to the memory, and ends its row.

What is hard: every step of a workflow may see what commands have done since the last one; a step may run twice around a
crash; a call to Qdrant acts on what was read before it, and may land after its client gave up; DBOS may give up on a workflow, which only the reconciler then sees; a
listing is stale when it is used; two delete workflows of one document may run; access may change between any two awaits of an ask; the handler of an
ask, its stream's cancel callback and the maintenance all end one row; a page gets answers to what its user has left. `PROJECT.json` lists each hazard at its line.

## Modules

    LifecycleState           the persistent state, Init (the first upload), TypeOK
      IngestWorkflow         document.ingest
      CleanupWorkflow        generation.cleanup and its queue
      AclProjection          document.acl.project
      DocumentCommands       replace, cancel, retry, ACL edit
      DocumentDelete         document.delete and its requests
        DocumentLifecycle    all of them together: Next, fairness, Served, the properties
          MCLifecycle        symmetry and bounds of the safety runs
          MCLiveness         fixed first ids for the liveness run
          DocumentLifecycle_proofs   invariants, action property and refinement, proved
    PublishedDocument        the abstract specification: what a reader of one document is promised

    AskGate                  the AI concurrency gate                          AskRequest_proofs
    AskAccess, AskMemory     what an identity may draw on; session memory and thread
      AskRequest             an ask's way through gate, access and memory     AskRequest_proofs
    AskRuns                  the rows of asks and their maintenance
      AskSettlement          how a handler ends its row                       AskOutcome_proofs
    AskClient                the ask page                                     AskOutcome_proofs
    AskGraph                 one question on its way through the graph        AskGraph_proofs
    Orders                   sequences put in order, for tables and retrieval
      TableAnswers           what is computed from tables                     Retrieval_proofs
    KnowledgeApi             requests on their way through gateway and proxy  Requests_proofs
      MCAsk                  these on small instances, one part each

    ControlPlane             the control loop over many jobs
    LibraryDeletion          a library's row, its documents, its originals    Services_proofs
    Alerting                 one alert and its deliveries                     Services_proofs
    SourceObjects            the originals of one document                    Requests_proofs
    Accounts                 one user's account under overlapping requests    Requests_proofs
      MCServices             these and the gate on small instances, one part each

    LocalParser              the PDF parse, the local provider, its semaphore StageStep_proofs
    ContentNodes             MinerU's content list to nodes                   StageStep_proofs
      TextNodes              lines, Word elements, LiteParse pages to nodes
        DocumentChunks       nodes to sections and chunks
          IndexRecords       chunks to records
    StagedGeneration         records to points                                StageStep_proofs
    ProviderCall             texts to vectors, by a provider that fails       StageStep_proofs
    Retrieval                points to citations                              Retrieval_proofs
      MCContent              these on small instances, one part each

The three MC modules in the second half hold independent parts: `part` is chosen at the start, and a behaviour is one of that
part, with the variables of the others kept. Nothing interacts across parts, so a run over them is what separate runs would be.

### The document's lifecycle

**State.** One document of a live library. A generation id stands for the ingest job created with it, for that job's workflow and for the
Qdrant points it writes, because the code makes the three together and never reuses one; `genVer`, `jobStatus`,
`jobPrev`, `wf`, `wfAcl`, `pointVis`, `pointAcl`, `sweep`, `cleanJob` and `cleanWf` are indexed by it.
`verGen[v]` is the version row's current generation, which a retry replaces. The points of a generation are one value: absent, `staging`,
`active` or `inactive`, with the ACL fingerprint they carry.

**Actions.** One action per transaction or external call. `Checkpoint` gives each step that commits two outcomes: DBOS has its
result, or the process dies in between and the step runs again. An external call that reads the database first is two
actions (`IngestLoadAcl`, then `IngestExpose`), and so are the last cancellation check before an upsert and the upsert. The ACL projection holds the document's lock
over its Qdrant write and is one action, with a second one for a write whose transaction rolls back.

**Abstractions, and why they are sound here.**
- `cancel_requested_at` is set exactly when a job becomes `cancelling` or `cancelled`, and is folded into these. The
  statuses `retry` (jobs) and `indexed` (versions) are accepted by guards but never written, and are left out.
- A reindex is `createDocumentVersion` with one more guard, hence a replacement.
- The transactions `requireIngestContinuation` and `markProgress` change only progress columns and stop the workflow when its job
  is not running; a workflow stopped there is `IngestFails`.
- A cancelled DBOS workflow and a failed one are both `lost`; the reconciler treats them alike but for the job status
  (`cancelled` or `dead`, both retryable).
- The reconciler also re-lists ended jobs whose dispatch was not recorded; projecting these again repeats what their own
  last transaction did, so only open jobs are projected here. `ControlPlane` lists them.
- `cancelPendingCleanup`'s branch for a row with a job cannot be reached by a generation that is activating, and is a guard here.
- The retention of superseded generations is not measured: the dispatcher may find a row due at any moment.
- Retries inside a step that change nothing are stuttering; exhausted retries, crashes between commit and checkpoint, and
  dead workflows are counted by `faults` and bounded by `MaxFaults`. Failures of the ingest's own external steps are not counted.

### The control loop, libraries, alerts

`ControlPlane` has jobs that are queued, run and end, and the loop with its two lists: what each lists, in which order and up to which limit,
what it writes per candidate, and what moves on while it waits. Time is two predicates per job, `old` (its dispatch is older than the
redispatch age) and `stale` (its row is older than the reconciler's age), both five minutes by default; `TimePasses` ages rows between
two batches. What a job does is the workflows' business.

`LibraryDeletion` has one library, its documents and their delete jobs, uploads between their object and their row, and originals. A transaction under the row's lock is one action;
`refreshLibraryCounts` works without the lock and is two. `Alerting` has one alert with its transitions and deliveries, and workers that claim, send and write back
under a lease, told by its attempt as the code tells it by token.

`SourceObjects` has the originals of one document. A key names the request whose upload it holds; a reindex gives a second version the key of the newest. The routes that store (replace), reuse
(reindex), look for (retry) and send (download) an original, and the delete that lists and erases them, are taken one access to the storage or one transaction at a time; a commit whose answer is lost is a
failure to the route, which takes its object back. The local storage writes beside the key and renames; COS has the object before its content is looked at.

`Accounts` has one user. A hash is named by its salt and a credential version by the tick of the clock it was taken at, so that a session is told from another by what it was signed with. The login is five
steps (limit, row, password, session, reset of the limit), the change of a password four, an invite's acceptance two and its session. `KnowledgeApi` moves a request from one await to the next; between two, its
key may be revoked, its library go, its time run out. What the ask or the retrieval behind it does is a status here.

### Asks

`AskRequest` is the handler and the runtime it drives, one action between two awaits: the checks of access with what each compares, every model
call with its permit, retries and timeouts, the history that is reused and the exchange that is stored. A source is one published
version of one document. `reach` is a history variable: the sources readable at some time since the ask began, and, once its text is complete, since then; `drawn` says
what an answer draws on, through memory as well. `AskSettlement` is the same handler seen from its row: every way out of it, the nested generators of a stream, the cancel
callback, writes that fail soft, an insert that commits while its answer is lost, a crash, and the maintenance. `AskClient` is the page; one action is one callback, and only navigation of the router takes its time.

`AskGraph` is one question in the graph, one action per node and edge. What a search brings, what a model says and how the question is worded are inputs: of a record only what decides the way of the question is
known. `TableAnswers` is what the table nodes compute for it over tables given in records of some rows each: coverage, a lookup, an aggregate, a comparison, and the evidence for what is shown.

`Retrieval` is one retrieval, one action per call to Qdrant or to a model, while points appear and disappear between the calls. `ProviderCall` is the embedding of texts in batches on a clock: a timer fires at
its time or later, a request that was given up may still be answered, and its answer must be discarded.

### The stage step

**The local parser.** To the ingest workflow a parse is an outcome or an error (`IngestUpsert`, `IngestFails`), and
nothing but `ended`, that the job no longer runs, comes from there. A parse is an ingest job and its idempotency key; its task and the
analysis of each attempt are the holders of permits. `call` is where `PdfDocumentParser.parse` stands, `status` and `run` the provider's task and its
`runTask`, `native` the native work that nothing can stop. One action is what the event loop runs between two awaits.
- A check that passed may be stale when the call after it is made. Only the parse itself reads `ended`, so a check and its call are one action, and a
  stale check is the job ending right after it.
- Loading the source and starting the native work are one action, as nothing tells the two apart but a cancel, which `RunStops` allows while the permit is held.
- The backoff between retries of a provider call is not measured; they end in the answer, the deadline, or a failed check.
- A parse routed to MinerU ends as `elsewhere`. Two inputs for one key cannot occur, as the key is the job's.
- The table and the semaphore are in memory: a restart of the process is `Init` again.

**The pipeline.** `ContentNodes`, `TextNodes`, `DocumentChunks` and `IndexRecords` are functions of a document, taken in the steps of the code's loops. A text is a
sequence of separators and of letters that each occur once in the document, so that a lost, repeated or moved letter shows; a row of a table is one letter. Lengths
are scaled down. Titles, preambles, digests and the formatting of a record's text are left out. The semantic split is left out too: the worker gives the chunker no embedder.

**The generation.** `StagedGeneration` runs the step up to `MaxStages` times, each with another output of the parser, on a Qdrant that applies a write late but in the order
that `ordering: "strong"` asks for.

## Properties

- `ServedPointsVisible`, `ServedAclKept` (`DocumentLifecycle`): what the resolver returns can be found in Qdrant, and keeps the right ACL unless an edit gives back the ACL
  PostgreSQL has as projected; as long as it is wrong, a projection of the present ACL has not completed (`StaleAclHasJob`). `ServedAclCurrent`, without exception, is what **aclaba** refutes.
- `LifecycleInv`: `OnlyDesiredIngestRuns`, `NoStrandedVersions`, `StatusTruthful`, `PointerSound` and what carries them: relations between jobs, versions, document and active pointer that
  the commands' unguarded updates rely on.
- `PointsAccounted`, `DeletedLeavesNothing`: no points are forgotten, a completed cleanup has erased its own, a deleted document leaves nothing.
- `PublishedOnlyByDesired`, `ImplementsPublished`: release invariants 3 to 5 of `docs/adr/0005-typescript-core-runtime.md`, as an action property
  and as a refinement.
- `IngestEnds`, `DeleteEnds`: liveness of the workflows; as in `JobsEnd`, a job that is queued while its workflow is over is exempt (`StrandedIngest`, `StrandedDelete`).
- `JobsEnd` (`ControlPlane`): no failure, malformed payload or early cancel keeps the other jobs out of the batches.
- `NothingOutlives`, `LibraryDeleteEnds` (`LibraryDeletion`): a tombstone follows its documents, originals are accounted for, the delete ends.
- `AlertAnnounced`, `DeliveriesEndOnce`, `DeliveriesEnd` (`Alerting`): no change of an alert is swallowed; deliveries end, once.
- `SourcesKept` (`SourceObjects`): every version of a live document has its original, every object an owner, and a download that has begun ends well. An upload whose commit was not answered is erased under its version: the
  property names this exception (`inDoubt`).
- `AccountsHold` (`Accounts`): the sessions of a replaced password do not resolve, the limits of the login hold, an account joins once per invite, a workspace has its owner.
- `ApiHolds` (`KnowledgeApi`): a request is counted once whichever way it leaves, works under the workspace's policy, and is answered alike for a library that is gone and one that is not allowed.
- `GateInv`, `WaitingEnds` (`AskGate`), `PermitsAtWork` (`AskRequest`): permits are counted, handed on and given back by every exit of an ask.
- `AnswersStayWithinReach`, `NoLaundering` (`AskRequest`): no answer is stored that draws on what was out of reach all along, through however many memories.
- `RowsAccount`, `RowsEndOnce` (`AskSettlement`): the row tells what became of the ask, no exit forgets it; its first end stays.
- `TurnsFollowAttempts`, `ConversationKept` (`AskClient`): late frames, ends and responses change nothing they should not.
- `GraphAnswersFromEvidence` (`AskGraph`): what is answered has its evidence, the question ends within its attempts and supersteps.
- `AggregatesAreOfTheTable`, `LookupsShowTheEntity`, `ShownRowsAreCited` (`TableAnswers`): an aggregate is of every row once; a lookup, planned by spelling and executed by number, shows every row of its entity,
  and another one only for the same number; what is shown is cited, the two rows of a pair alike.
- `RetrievalHolds` (`Retrieval`), `ProviderCallHolds` (`ProviderCall`): what is cited was visible and in scope and nothing better is dropped; retries are due, ends are truthful, bodies are closed.
- `PermitsMatchWork`, `CancelledNeverStarts`, `ParseEnds`, `PermitsReturn` (`LocalParser`): the semaphore neither doubles nor loses a permit or a waiter, and what the parser
  makes of it under timeouts, cancels and retries (`docs/OPERATIONS.md:176`).
- `JoinedInSequence`, `RecordsComplete`, `OneManifest`: what is indexed is what was read.

## Runs

| Run | Config, module | Bounds | What it shows |
|---|---|---|---|
| publish | `Publish.cfg`, `MCLifecycle` | 3 versions, 3 generations, no faults | concurrent replacements, cancels and retries; a third version is needed for a superseded version whose replacement is superseded in turn |
| faults | `Faults.cfg`, `MCLifecycle` | 2 versions, 2 generations, 2 ACL edits over 2 ACLs, 2 faults, at most four of these versions, edits and faults in one behaviour (`FaultsApart`) | a crash at every checkpoint, a second fault during the recovery, an edit between any two steps, an ACL given back beside a fault |
| deletes | `Deletes.cfg`, `MCLifecycle` | 3 delete jobs, 2 versions, 1 fault, at most four of these in one behaviour (`AtMostThree`) | a failed first job, its retry, a second request and another retry: two delete workflows overlap, which takes three jobs |
| liveness | `Liveness.cfg`, `MCLiveness` | 1 version, 2 generations, 1 delete job, 1 fault | ingest and delete end, or are stranded |
| ask | `Ask.cfg`, `MCAsk` | 2 asks and 1 other caller on 1 permit, 2 sources, memory of 1 exchange; `ChangesOrAborts`; 4 records, 2 retrievals; 2 tables of 2 and 1 rows of 7 kinds, in any records, limits of 1 row planned, 1 shown, 2 cited; 2 requests to the gateway, 1 a window | the asks, their rows, the page, the graph, tables, the gateway |
| services | `Services.cfg`, `MCServices` | 3 jobs in batches of 1 and 2; 2 documents; 3 transitions, 2 workers; 3 callers; 2 requests each for the originals (3 versions, 2 faults) and the account (2 passwords, 2 invites, locked after 2) | control loop, library, alerts, gate: safety and liveness; originals, account: safety |
| content | `Content.cfg`, `MCContent` | 2 parses, 2 attempts, 1 permit; documents of up to 4 items, texts of up to 8 characters; 3 runs of the step; 3 points of 2 documents, 1 change, and one chain of replacements; 3 texts in batches of 2, 2 retries | parser, pipeline, generation, retrieval, provider |
| aclaba | `AclAba.cfg`, `MCLifecycle` | 1 version, 2 ACL edits over 2 ACLs, 1 fault | violation of `ServedAclCurrent` |
| hidden | `Hidden.cfg`, `MCLifecycle` | no faults | violation of `FailedReplacementKeepsServing` |
| stranded | `Stranded.cfg`, `ControlPlane` | 1 job, 1 lost workflow | violation of `LostIsRepaired` |
| revived | `Revived.cfg`, `LibraryDeletion` | 1 document, 1 recount | violation of `DeletionWins` |
| refused | `Refused.cfg`, `LocalParser` | 1 parse, 2 attempts, 1 permit | violation of `RefusedOnlyIfEnded` |

The bounds suffice for the cases named. In the lifecycle a property relates at most the active version, the desired one and one in
between; every protocol is per generation, and two generations are what a race of an old and a new one takes. One permit is the hardest limit for the
parser and for the gate, and two attempts of two parses already form lines of inspections nobody waits for
any more, tasks and new analyses. Two asks are what it takes to reuse a memory, a third caller makes them wait. Three jobs with a dispatch batch of one and a reconcile
batch of two let one job fill a batch while another waits. A page with two libraries, a thread and two attempts has every pair of callbacks that may cross.
A request that overlaps another is two requests, for the originals, the account and the gateway alike; two faults let an upload be lost and its cleaning fail. `ChangesOrAborts` keeps the asks to two changes of access, or one client
that leaves. Three transitions are an alert, its end and its return; that each is told, for any number, is proved. Documents of three or four items have every pair
of neighbours with something between them; a text of eight characters is cut, packed and overlapped at the scaled-down lengths (target 4, maximum 5, overlap 2). Deadlock is not checked:
a run ends when its ids are used up and everything is over. The safety runs are symmetric in ids, which are only
compared for equality; the liveness run is not, and fixes the first upload's ids instead.

**Fairness.** `FairSpec` of the lifecycle: the control process dispatches and reconciles in a loop, and DBOS recovers the workflows of a process that
died, so each workflow's next step, its dispatch when its job is queued, and its reconciliation when it is not are weakly fair. Commands,
operator retries, faults, and the dispatch of a job cancelled after its listing are not. Nothing is assumed of the reconciler where a job is queued: each round of the dispatcher
touches the row (`dispatcher.ts:329`), so it need never be old enough for the reconciler. A queued job whose workflow was lost may stay as it is, which **stranded** shows and the liveness properties exempt.
In `ControlPlane` the loop goes on, time passes, and workflows that DBOS has begin and end. In `LibraryDeletion` the steps of delete workflows are taken (their
dispatch and repair are the control loop's). In `Alerting` some worker delivers what is due, and a lease expires in time. In `AskGate` a caller with a
permit gives it back, which is what `AskRequest` shows of asks, whose model calls have timeouts.
In `LocalParser` the event loop runs what is ready, native work settles, and a parse whose job has ended gets its check answered;
timers, cancels and database errors need not happen. That native work settles is an assumption the code makes too: it can only wait.

## What the violations show

- **aclaba**: the resolver compares `acl_fingerprint` with `projected_acl_fingerprint` in PostgreSQL. A projection that has written Qdrant
  and then rolls back leaves the points with the new ACL; editing the ACL back makes the fingerprints equal at once.
- **hidden**: `createDocumentVersion` cancels the queued jobs of the document's versions without regard to their type. A queued ACL projection
  goes with them; if the replacement fails, the version that is still active is not resolved until the next ACL edit or activation. The same statement cancels a queued cleanup job,
  whose row then keeps the job's id and a status that neither the dispatcher's materialisation nor the operator's retry accepts: that is why no liveness of cleanups is claimed.
- **stranded**: the dispatcher takes a queued job again five minutes after its last dispatch, enqueues nothing new as the workflow's id exists, and marks the row; the reconciler, next in the same tick,
  wants a row that has not changed for the same five minutes.
- **revived**: `refreshLibraryCounts` reads the library's status without its lock and writes it back later by id alone; a delete of the library in between is undone. A second delete job of a
  document that completes after the library's end does the same through the worker's `refreshLibrary`, which spares deleting libraries only.
- **refused**: an error of the database in a check between two polls has no `retryable` mark, so the parser cancels its task as it does for a cancelled job. The
  worker classifies the same error as transient and runs the step again; the same key finds the cancelled task, and the ingest fails for good.

## Proofs

All theorems are for every value of the constants that satisfies the assumptions of their module: ids of different kinds differ, limits are positive, sets of
callers, documents and workers are finite. That of `AskGraph` says that records are finite, that the record of a whole document has no table, and that the limit of supersteps is at least
six per attempt and three: the code's 25 against 15. That of `TableAnswers` says that every spelling of a cell has a key and reads as a number or not, that tables have rows, and that an answer shows at most half as many
rows as it cites, as a pair counts twice (the code's 50, `PREVIEW_LIMIT`, against 200); that of `ContentNodes`, that an item has room for the header, rows and letters it is given. `ContentSpec` starts from any sequence of well-formed items.

| Module | Theorems | Invariant and argument |
|---|---|---|
| `DocumentLifecycle_proofs` | `LifecycleInvariant`, `TypeCorrect`, `OneIngestRuns`, `StatusIsTruthful`, `NoneStranded`, `PointerIsSound`, `PublicationByDesired`, `LifecycleRefinesPublished`; `PointsAreKept`, `ServedIsVisible`, `PointsAreAccounted`, `NothingIsLeft`, `ServedAclIsKept` | `LifecycleInv`; with it `PointsInv`: see below |
| `StageStep_proofs` | `ParserInvariant`, `PermitsMatchNativeWork`, `CancelledNeverStart`; `CallsAreTruthful`; `StagedIsOneManifest`; `TablesJoinInSequence` | `ParserInv` and `ContentInv`, see below. A request was made in time and when it was allowed, a pause ends no sooner, and a request is given up only by who ends the call. Writes of earlier runs stand before those of the present one in the server's order |
| `AskRequest_proofs` | `GateInvariant`, `WithinReach`, `MemoryNamesItsSources`, `NoPermitLeaks` | the gate: one lemma per operation, which the asks use again. What an ask draws on is in what it has cited or been admitted, at every place of the handler; a stored exchange names at least that, or nothing |
| `AskOutcome_proofs` | `RowsAreAccounted`, `FirstEndStays`, `TurnsFollow`, `ConversationStays` | a row: at each place of the handler, whether it still owes its row an end and what it may be writing. The page: while an attempt streams, its turn has an id no other turn has; a request to archive that is of this epoch is of what the page shows |
| `AskGraph_proofs` | `AnswersRestOnEvidence` | where a question stands tells what it has in hand and how many supersteps it took; an upgrade is set only with rows that ground the question, and does not return to the judge; contradictions stand beside no table result |
| `Services_proofs` | `NothingOutlivesItsLibrary`, `AlertsAnnounced`, `EndedDeliveriesStay` | delete jobs of one document follow one another, a completed one has emptied it. Transitions are ordered by generation, and what is new conflicts with none on record; a worker's attempt is at most the delivery's |
| `Requests_proofs` | `SourcesAreKept`, `ApiPromises`, `AccountsAreSound` | a request has its object from the upload on, and its key is a version's once that is created, or its answer lost. Where a call stands tells what was counted, injected and limited. What an overlapping request has seen of an account stays true, or its write is refused |
| `Retrieval_proofs` | `RetrievalsHold`; `AggregatesHold`, `LookupsHold`, `ShownRowsHold` | `RetrievalInv` and `TableInv`, see below |

**The lifecycle.** `OnlyDesiredIngestRuns` cannot be preserved alone: a retry makes a fresh job run for the version of the job it retries, which is
the desired one only because the latest ingest job is the one of the desired version (`LatestIsDesired`); an activation
needs that the version's row names the job's generation and back (`VersionsOwnGenerations`); the active
pointer stays with the completed job because a retry, which alone changes a row's generation, takes a job that has not completed
(`CompletedKeepGeneration`); and nothing may revive a document under deletion (`DeletesAreFinal`). `LifecycleInv` is the
conjunction of these with the properties and is inductive. Most actions leave the rows it speaks of alone (`CoreVars`): one lemma covers them, and
the others have a lemma each. The refinement reads `published` as the active pointer and `retired` as the versions of completed jobs but the active one; an
activation is `Publish`, a delete request `Close`, a delete's completion `Withdraw`, and the rest stutters.

**Its points.** What is served is visible only because the steps between PostgreSQL and Qdrant come in the right order, so `PointsInv` ties each place of a
workflow to its generation's points and queue row (`GenerationInv`): who writes does so for a job that is not completed (`WritesForItsJob`);
a generation whose job is over has its row in the queue before its points lose their writer (`QueuedWhenOver`, `Accounted`); and points are exposed
before the activation commits and the replaced ones hidden after it (`Exposed`). Each generation is kept by itself: of the others it needs only which is active and
that completed jobs stay so (`Steady`), hence one lemma for every action that leaves that alone, and one each for
activation, sweep and projection. `DeletionInv` says of each place of a delete what it has done: ingests stopped, points erased, originals gone; these stay so,
as nothing starts on a document under deletion. For the ACL, an edit may give any value, also one given before. The activation leaves no generation active whose points have another ACL than its job's fingerprint,
and the projected ACL moves together with the points of the active generation (`ServedAclNextIsActive`); so the ACL of what is served is lost only to an edit to the projected value, and that edit has queued
a projection, which can only end the debt by completing with that ACL (`ProjectionDue`, `ProjectionStaysDue`).

**The local parser.** `SemaphoreInv` knows only holders: the counter is the
cardinality of those with a permit, and the line is injective and holds those that wait; three lemmas show that acquiring, releasing and leaving the line keep it. `UserInv` says where each holder stands
when it has a permit: native work runs only under a permit, so the bound on native work follows from the count; who is about to ask for a permit has none, and
attempts to come have none either, so nobody asks twice; and a cancelled task has its signal set, so it does not start.

**Retrieval.** Two thirds of this proof are about the operators. A stable sort is a permutation of places in which nothing better stands behind (`SortedIs`): the rank
of each place is counted, and a lemma about finite sets (`Ranked`) says that counting those below numbers a strict order from 1 without a gap. From it follow the search, the lexical
hits, the fusion (`FusedIs`, where the sums of reciprocal ranks are compared as fractions: `BetterContributesMore`) and the reranking. What deduplication keeps is a recursive function; its invariant (`KeptOf`: every entry is a hit of the list,
none twice, what is missing repeats one, the first entry is the best hit or a more specific record of its document) is carried along the list by the least counterexample (`NatMin`).
`RetrievalInv` itself is short: both lists hold each point once and only what the filter lets through at some moment of the retrieval; the corpus is before
the listing's offset, which is why a point that comes back between two pages is not listed twice; the candidates are the fusion of the lists or, where the lexical side failed, the dense one; the answer is computed from
them alone.

The proof corrected the property. The text of a section may lie within that of a chunk and give its place to it, and the chunk give it to a table within it that the section has nothing in common with: the record that opens an answer need not overlap the best
candidate, only stand in the same document and be more specific. `BestComesFirst` says that now, and `Chain` of `MCContent` is the case.

**Table answers.** `TableInv` ties the result to the plan: what is answered is what executing the plan on the records at hand answers, as no search follows. The rest is about the operators. If a
table is covered its rows at hand are its rows, so an aggregate of these is one of the whole; the rows of a `topN` are a prefix of the sorted ones, by the lemma on sorting that the retrieval uses (`SortedIs`), so nothing left out is before
one shown. A lookup is planned only from a match that grounds it, hence its row exists and holds all other matches (`GroundedLookups`); its values are the spellings of the rows that match, and each equals itself, as a number or as text, so the execution, which compares numbers first (`Holds`), finds every such row, and another one only where a value reads as a number. What is cited is the record of a row at hand; the preview is within the rows cited because its limit is.

**The nodes of a content list.** That a table's parts are in sequence cannot be carried alone. `ContentInv` adds that nodes hold only items that were read (`ItemsRead`), and that a table still open has
nothing after its parts but what may be passed over, up to the item read last (`OpenToNext`): joining the next item then keeps the property, and anything else closes the table. The letters of an item are told from
another's by division (`LetterIs`).

**Only model-checked.** Liveness, which is out of the prover's reach, and `RecordsComplete`: the way from nodes to records is written with RECURSIVE operators, in whose modules the provers have no arithmetic, and what such functions
compute for every document needs induction over data. Where one recursion sufficed, in the retrieval, it is a function over the naturals and the induction is by the least counterexample.

## Not modelled

- The counters of a library and of a workspace, audit rows, metrics, diagnostics: written beside what is modelled, read by nobody it depends on.
- Two executors that run one workflow at the same time: DBOS gives a workflow to one.
- A Qdrant request of the visibility, ACL or delete steps applied after its client's timeout; the write store's stage has it.
- The routing between parsers and the transport to MinerU's services.
- Of accounts, what the code does not promise: the login and the refresh of a session read the credential version after the password was verified; two
  invites at once may both stay pending; a revocation and an acceptance may overwrite each other's status; concurrent settings overwrite one another.
- Of retrieval, looking a document or its outline up by name.
- The interface but the ask page, deployment and evaluation scripts, generated SQL and vendored code.
