-------------------------- MODULE StagedGeneration --------------------------
(***************************************************************************)
(* QdrantIngestWriteStore.stage, run by the stage step of an ingest and by *)
(* its retries.  A retry parses again, and what it gets may differ.  The   *)
(* client of Qdrant gives up on a write that takes too long; the server    *)
(* applies it all the same, later, but before the writes sent after it:    *)
(* every write of the store asks for the ordering "strong".                *)
(***************************************************************************)
EXTENDS Integers, Sequences, FiniteSets

CONSTANTS
    Manifests,      \* the outputs a parse may have: each the numbers of its points
    BatchSize,      \* batchSize
    MaxStages       \* bound: how often the step is run

ASSUME StageAssumption ==
    /\ BatchSize \in Nat \ {0} /\ MaxStages \in Nat
    /\ \A m \in Manifests : m # {} /\ m \subseteq Nat /\ IsFiniteSet(m)

VARIABLES
    stored,     \* for each point the manifest it is of, or {}
    sent,       \* the writes the server has not applied: [run, manifest, points]
    manifest,   \* the records of this run
    left,       \* those it has not written
    stages,     \* how often the step has been run
    step        \* "parse", "verify", "upsert", "wait", "check", "staged" or "failed"

stageVars == <<stored, sent, manifest, left, stages, step>>

Ids == UNION Manifests

StageInit ==
    /\ stored = [id \in Ids |-> {}] /\ sent = <<>>
    /\ manifest = {} /\ left = {} /\ stages = 0 /\ step = "parse"

-----------------------------------------------------------------------------

\* The client's timeout and the death of the process are followed by another
\* run; what stage itself finds wrong ends the ingest.
StageFails ==
    /\ step \in {"verify", "upsert", "wait", "check"}
    /\ step' = IF stages < MaxStages THEN "parse" ELSE "failed"
    /\ UNCHANGED <<stored, sent, manifest, left, stages>>

Parse ==
    /\ step = "parse" /\ stages < MaxStages
    /\ manifest' \in Manifests /\ left' = manifest'
    /\ stages' = stages + 1 /\ step' = "verify"
    /\ UNCHANGED <<stored, sent>>

\* verifyManifest: no point of the generation is of another manifest.
Verify ==
    /\ step = "verify"
    /\ step' = IF \A id \in Ids : stored[id] \in {{}, manifest} THEN "upsert" ELSE "failed"
    /\ UNCHANGED <<stored, sent, manifest, left, stages>>

\* The next BatchSize records.
Batch == {id \in left : Cardinality({other \in left : other < id}) < BatchSize}

Upsert ==
    /\ step = "upsert"
    /\ sent' = Append(sent, [run |-> stages, manifest |-> manifest, points |-> Batch])
    /\ left' = left \ Batch
    /\ step' = "wait"
    /\ UNCHANGED <<stored, manifest, stages>>

With(w) == [id \in Ids |-> IF id \in w.points THEN w.manifest ELSE stored[id]]

\* The server applies the oldest write it has.
MutantApply ==   \* mutant: without "strong" another write may be applied before it
    \E k \in DOMAIN sent :
        /\ stored' = With(sent[k])
        /\ sent' = SubSeq(sent, 1, k - 1) \o SubSeq(sent, k + 1, Len(sent))
        /\ UNCHANGED <<manifest, left, stages, step>>
Apply ==
    /\ sent # <<>>
    /\ stored' = With(Head(sent))
    /\ sent' = Tail(sent)
    /\ UNCHANGED <<manifest, left, stages, step>>

\* wait: true, the answer comes when the write has been applied.
Written ==
    /\ step = "wait" /\ \A k \in DOMAIN sent : sent[k].run # stages
    /\ step' = IF left # {} THEN "upsert" ELSE "check"
    /\ UNCHANGED <<stored, sent, manifest, left, stages>>

\* The count of the generation's points, and verifyManifest for all of them.
Complete == \A id \in Ids : stored[id] = IF id \in manifest THEN manifest ELSE {}

Check ==
    /\ step = "check"
    /\ step' = IF Complete THEN "staged" ELSE "failed"
    /\ UNCHANGED <<stored, sent, manifest, left, stages>>

StageNext == StageFails \/ Parse \/ Verify \/ Upsert \/ Apply \/ Written \/ Check

StageSpec == StageInit /\ [][StageNext]_stageVars

-----------------------------------------------------------------------------

\* Once stage has returned, the generation is one manifest's points, all of
\* them and no other's, and no write of an earlier run is still to come (stage,
\* "must not mix parser outputs").
OneManifest ==
    step = "staged" =>
        /\ sent = <<>>
        /\ \A id \in Ids : stored[id] = IF id \in manifest THEN manifest ELSE {}
=============================================================================
