------------------------------ MODULE AskGraph ------------------------------
(***************************************************************************)
(* One question on its way through the graph of an ask: routing, rewriting,*)
(* retrieval with its probe for a table, the table path, the judge's        *)
(* verdict, one retry, and the answer or the refusal                        *)
(* (src/core/ask-graph, and the ports native-runtime.ts gives it).          *)
(*                                                                         *)
(* What a search finds, what a model says and how a question is worded are  *)
(* inputs.  A record is a member of a small set; only what decides the way  *)
(* of a question is known of it: whether its score reaches the threshold,   *)
(* whether it belongs to a table or holds rows of one, and its lineage.     *)
(***************************************************************************)
EXTENDS Naturals, FiniteSets

CONSTANTS
    Records,        \* what searches may bring
    Strong,         \* those whose score reaches evidenceThreshold
    Labelled,       \* those with a table_id, TableRows among them
    TableRows,      \* those of record_type "table", with rows
    Attachable,     \* those of record_type "table", "table_summary" or "figure"
    Outlines,       \* the records of whole documents
    Kin,            \* pairs that sharesEvidenceLineage
    NoRecord,
    MaxRetrievals,  \* 2
    MaxEvidence,    \* 6
    RecursionLimit  \* the supersteps LangGraph grants a run

\* Of its parameters: a record of a whole document has no table_id, and
\* LangGraph grants more supersteps than two searches can take (25 and 15).
ASSUME GraphAssumption ==
    /\ IsFiniteSet(Records) /\ NoRecord \notin Records
    /\ Outlines \cap Labelled = {}
    /\ MaxRetrievals \in Nat \ {0} /\ MaxEvidence \in Nat
    /\ RecursionLimit \in Nat /\ RecursionLimit >= 6 * MaxRetrievals + 3

VARIABLES
    node,           \* where the question is; "answered", "ended", "failed" when it is through
    type,           \* query_type
    named,          \* what the question names: "nothing", "document" or "outline"
    grounded,       \* the sets of table rows in which it names one entity
    retrievals,     \* retrieval_attempts
    citations,
    found,          \* what the search behind the citations brought
    status,         \* documentConstraintStatus
    outline,        \* the citation of outlineAnswer
    upgrade,        \* upgrade_reason is "grounded_table_lookup"
    plan,           \* table_query_plan
    execution,      \* table_execution: "none", "rows" or "aggregate"
    judgement,
    answer,         \* who answers: "none", "conflict", "outline", "table" or "model"
    steps           \* supersteps so far

graphVars == <<node, type, named, grounded, retrievals, citations, found, status, outline, upgrade,
               plan, execution, judgement, answer, steps>>

\* What the search for a document that a question names may end with.
Unusable == {"unavailable", "ambiguous", "outline_unavailable"}
Resolutions ==
    CASE named = "nothing" -> {"none"}
      [] named = "document" -> {"resolved", "unavailable", "ambiguous"}
      [] named = "outline" -> {"outline", "unavailable", "ambiguous", "outline_unavailable"}

NoJudgement == [action |-> "none", canRetry |-> FALSE, conflicts |-> {}]

Question == <<type, named, grounded>>
TablePath == <<upgrade, plan, execution>>
Evidence == <<citations, found, status, outline>>

GraphInit ==
    /\ node = "query_router" /\ type = "unknown"
    /\ named \in {"nothing", "document", "outline"}
    /\ grounded = {} /\ retrievals = 0 /\ steps = 0
    /\ citations = {} /\ found = {} /\ status = "none" /\ outline = NoRecord
    /\ upgrade = FALSE /\ plan = "none" /\ execution = "none"
    /\ judgement = NoJudgement /\ answer = "none"

At(n) == node = n /\ steps < RecursionLimit + 1 /\ steps' = steps + 1

-----------------------------------------------------------------------------
(* Routing.  The rules of fallbackQueryRoute and executionQueryType are     *)
(* read as sets of cues, that there is a history among them; a form field or *)
(* a list in prose counts as none.                                          *)

\* fallbackQueryRoute: a table's words first, then those of a follow-up,
\* then the length of the question.
FallbackQueryRoute(cues) ==
    CASE "table" \in cues -> "table"
      [] "table" \notin cues /\ {"history", "followUp"} \subseteq cues -> "follow_up"
      [] OTHER -> IF "long" \in cues THEN "fact" ELSE "ambiguous"

\* executionQueryType: a fact that asks for the most or the least of
\* something is a comparison, and a table question without a table's explicit
\* words is a fact.
ExecutionQueryType(raw, cues) ==
    IF raw = "fact" /\ "superlative" \in cues /\ "explicit" \notin cues THEN "compare"
    ELSE IF raw = "table" /\ "explicit" \notin cues THEN "fact"
    ELSE raw

Cues == {"table", "history", "followUp", "long", "superlative", "explicit"}

\* deriveGroundedTableLookup does not take a question for the most or the
\* least, and needs rows.
Groundings(cues) ==
    IF "superlative" \in cues THEN {{}} ELSE SUBSET ((SUBSET TableRows) \ {{}})

QueryRouter ==
    /\ At("query_router")
    /\ \E cues \in SUBSET Cues :
          /\ type' = ExecutionQueryType(FallbackQueryRoute(cues), cues)
          /\ grounded' \in Groundings(cues)
    /\ node' = "build_retrieval_plan"
    /\ UNCHANGED <<named, retrievals, Evidence, TablePath, judgement, answer>>

\* buildPlan and routeAfterPlan.
BuildPlan ==
    /\ At("build_retrieval_plan")
    /\ node' = IF type = "ambiguous" THEN "clarify" ELSE "rewrite"
    /\ UNCHANGED <<Question, retrievals, Evidence, TablePath, judgement, answer>>

Clarify ==
    /\ At("clarify")
    /\ node' = "ended" /\ citations' = {}
    /\ judgement' = [NoJudgement EXCEPT !.action = "clarify"]
    /\ UNCHANGED <<Question, retrievals, found, status, outline, TablePath, answer>>

\* rewrite and routeAfterRewrite.  A rewrite that fails keeps the question.
Rewrite ==
    /\ At("rewrite")
    /\ node' = IF type = "table" THEN "table_retrieve" ELSE "retrieve"
    /\ retrievals' = 0
    /\ UNCHANGED <<Question, Evidence, TablePath, judgement, answer>>

-----------------------------------------------------------------------------
(* Retrieval.                                                              *)

\* retrieve of the runtime: what it brings, from which records, once it has
\* forgotten the documents and the outline of the search before.
SearchEvidence(s, S, pool) ==
    /\ s \in Resolutions
    /\ status' = IF s = "outline" THEN "resolved" ELSE s
    /\ IF s = "outline" THEN outline' \in Outlines /\ S = {outline'}
       ELSE outline' = NoRecord /\ S \subseteq pool /\ (s \in Unusable => S = {})

\* What a search brings is not held against the threshold (a mutant).
MutantAdjudicated(S, o) == S

\* adjudicate.
Adjudicated(S, o) == {c \in S : c \in Strong \/ c = o}

\* deriveGroundedTableLookup over the candidates in C.
Grounded(C) == C \cap TableRows \in grounded

\* The port retrieve.  Records that belong to a table are not its rows: when
\* they ground nothing, the rows are searched for first (node "probe").
Retrieve ==
    /\ At("retrieve")
    /\ \E s \in Resolutions, S \in SUBSET Records :
          /\ SearchEvidence(s, S, Records)
          /\ LET kept == Adjudicated(S, outline')
                 probes == ~Grounded(kept) /\ kept \cap Labelled # {}
             IN /\ citations' = kept /\ found' = S
                /\ upgrade' = (upgrade \/ Grounded(kept))
                /\ retrievals' = IF probes THEN retrievals ELSE retrievals + 1
                /\ node' = IF probes THEN "probe"
                           ELSE IF upgrade' THEN "table_retrieve" ELSE "judge"
    /\ UNCHANGED <<Question, plan, execution, judgement, answer>>

\* The second search of the port.  It is the same superstep.
ProbeTables ==
    /\ node = "probe" /\ UNCHANGED steps
    /\ \E s \in Resolutions, S \in SUBSET Records :
          /\ SearchEvidence(s, S, TableRows)
          /\ LET precise == Adjudicated(S, outline')
             IN IF Grounded(precise)
                THEN citations' = precise /\ found' = S /\ upgrade' = TRUE
                ELSE UNCHANGED <<citations, found, upgrade>>
    /\ retrievals' = retrievals + 1
    /\ node' = IF upgrade' THEN "table_retrieve" ELSE "judge"
    /\ UNCHANGED <<Question, plan, execution, judgement, answer>>

\* tableRetrieve: the rows in hand when they ground the question, else a
\* search of rows, which no threshold filters.
TableRetrieve ==
    /\ At("table_retrieve")
    /\ \/ upgrade /\ UNCHANGED <<retrievals, Evidence>>
       \/ /\ ~upgrade /\ retrievals' = retrievals + 1
          /\ \E s \in Resolutions, S \in SUBSET Records :
                SearchEvidence(s, S, TableRows) /\ citations' = S /\ found' = S
    /\ node' = "build_table_plan"
    /\ UNCHANGED <<Question, TablePath, judgement, answer>>

-----------------------------------------------------------------------------
(* The table path.                                                         *)

\* buildTablePlan: a lookup of the entity, a plan from the words, or a model's.
BuildTablePlan ==
    /\ At("build_table_plan")
    /\ plan' \in IF citations \cap TableRows = {} \/ (upgrade /\ ~Grounded(citations))
                 THEN {"invalid"}
                 ELSE IF Grounded(citations) THEN {"lookup"} ELSE {"lookup", "aggregate"}
    /\ node' = "table_execute"
    /\ UNCHANGED <<Question, retrievals, Evidence, upgrade, execution, judgement, answer>>

\* tableExecute without a plan, without the table, or without a result.
TableRefuses ==
    /\ At("table_execute")
    /\ citations' = {} /\ node' = "ended"
    /\ \E action \in {"refuse", "clarify"} :
          judgement' = [NoJudgement EXCEPT !.action = action]
    /\ UNCHANGED <<Question, retrievals, found, status, outline, TablePath, answer>>

\* tableExecute with a result, and routeAfterTableExecute.  The evidence is
\* the records its rows come from; a grounded lookup finds its entity.
TableSucceeds ==
    /\ At("table_execute") /\ plan # "invalid"
    /\ \E rows \in SUBSET (citations \cap TableRows) :
          /\ Grounded(citations) => rows # {}
          /\ citations' = rows
          /\ node' = IF rows # {} \/ plan = "aggregate" THEN "generate" ELSE "judge"
    /\ execution' = IF plan = "aggregate" THEN "aggregate" ELSE "rows"
    /\ UNCHANGED <<Question, retrievals, found, status, outline, upgrade, plan, judgement, answer>>

-----------------------------------------------------------------------------
(* The judge and the decision.                                             *)

Refusal == [NoJudgement EXCEPT !.action = "refuse"]

\* The verdicts that need no model.
NamedDocumentMissing == status \in Unusable
OutlineCited == outline \in citations
NothingFound == citations = {} /\ execution = "none"

\* A verdict of the model (JudgeOutputSchema).
Verdicts == [action : {"generate", "retry", "refuse"}, sufficient : BOOLEAN,
             ids : {S \in SUBSET Records : Cardinality(S) <= MaxEvidence}, canRetry : BOOLEAN]

\* assessEvidenceWithMetadata: which quotes a second model may call
\* contradictory.  Only an answer to a fact or a follow-up is checked.
Checked(v) == v.action = "generate" /\ v.sufficient /\ type \in {"fact", "follow_up"}
Conflicts(v) == IF Checked(v) THEN SUBSET citations ELSE {{}}

\* It throws on evidence that is not there or too much of it, and the judge
\* becomes unavailable.
Assessable(v, conflicts) ==
    Checked(v) => /\ v.ids # {} /\ v.ids \subseteq citations
                  /\ Cardinality(v.ids \cup conflicts) <= MaxEvidence

\* sharesEvidenceLineage, for the records that may join the selected ones.
Lineage(direct) ==
    {c \in (citations \ direct) \cap Attachable : \E d \in direct : <<d, c>> \in Kin}

\* selectedEvidence: the selected records, what shares their lineage as far as
\* there is room, and the whole context of a comparison.
Selections(ids) ==
    IF ids = {} \/ Cardinality(ids) > MaxEvidence \/ ~(ids \subseteq citations) THEN {}
    ELSE IF type = "compare"
    THEN IF Cardinality(citations) > MaxEvidence THEN {} ELSE {citations}
    ELSE LET room == MaxEvidence - Cardinality(ids)
             kin == Lineage(ids)
         IN {ids \cup L : L \in {L \in SUBSET kin :
                Cardinality(L) = IF Cardinality(kin) < room THEN Cardinality(kin) ELSE room}}

\* routeAfterJudge.
AfterJudge(j) ==
    CASE j.action = "retry" -> IF j.canRetry /\ retrievals < MaxRetrievals THEN "retry" ELSE "refuse"
      [] j.action = "generate" -> "generate"
      [] OTHER -> "refuse"

Decide(j) == judgement' = j /\ node' = AfterJudge(j)

JudgeKeeps == UNCHANGED <<Question, retrievals, found, status, outline, TablePath, answer>>

\* The judge without its model.
JudgeByRule ==
    /\ At("judge")
    /\ \/ NamedDocumentMissing /\ Decide(Refusal) /\ UNCHANGED citations
       \/ /\ ~NamedDocumentMissing /\ OutlineCited
          /\ Decide([NoJudgement EXCEPT !.action = "generate"])
          /\ citations' \in Selections({outline})
       \/ /\ ~NamedDocumentMissing /\ ~OutlineCited /\ NothingFound
          /\ Decide([NoJudgement EXCEPT !.action = "retry", !.canRetry = retrievals < MaxRetrievals])
          /\ UNCHANGED citations
    /\ JudgeKeeps

\* The judge's model and the check of contradictions: a verdict that cannot
\* be used is a refusal (failClosedJudgement, selectedEvidence).
JudgeByModel ==
    /\ At("judge") /\ ~NamedDocumentMissing /\ ~OutlineCited /\ ~NothingFound
    /\ \E v \in Verdicts : \E conflicts \in Conflicts(v) :
          LET usable == /\ Assessable(v, conflicts)
                        /\ v.action = "generate" => /\ v.sufficient
                                                    /\ Selections(v.ids \cup conflicts) # {}
                        /\ v.action # "generate" => v.ids = {}
          IN IF usable
             THEN /\ Decide([action |-> v.action, canRetry |-> v.canRetry,
                             conflicts |-> conflicts])
                  /\ IF v.action = "generate"
                     THEN citations' \in Selections(v.ids \cup conflicts)
                     ELSE UNCHANGED citations
             ELSE Decide(Refusal) /\ UNCHANGED citations
    /\ JudgeKeeps

\* retryNode and routeAfterRetry.
RetryRetrieval ==
    /\ At("retry")
    /\ node' = IF type = "table" \/ upgrade THEN "table_retrieve" ELSE "retrieve"
    /\ UNCHANGED <<Question, retrievals, Evidence, TablePath, judgement, answer>>

Refuse ==
    /\ At("refuse")
    /\ citations' = {} /\ node' = "ended"
    /\ UNCHANGED <<Question, retrievals, found, status, outline, TablePath, judgement, answer>>

Generate ==
    /\ At("generate")
    /\ node' = "stream"
    /\ UNCHANGED <<Question, retrievals, Evidence, TablePath, judgement, answer>>

\* streamAnswer: the contradiction, the outline, the table's result, or a model.
StreamAnswer ==
    /\ node = "stream" /\ UNCHANGED steps
    /\ answer' = IF judgement.conflicts # {} THEN "conflict"
                 ELSE IF OutlineCited THEN "outline"
                 ELSE IF execution # "none" THEN "table"
                 ELSE "model"
    /\ node' = "answered"
    /\ UNCHANGED <<Question, retrievals, Evidence, TablePath, judgement>>

\* A port throws: access is gone, the caller left, a gate is full, a search
\* or the planning model failed.
PortThrows ==
    /\ node \in {"rewrite", "retrieve", "probe", "table_retrieve", "build_table_plan", "judge",
                 "stream"}
    /\ node' = "failed"
    /\ UNCHANGED <<Question, retrievals, Evidence, TablePath, judgement, answer, steps>>

GraphNext ==
    \/ QueryRouter \/ BuildPlan \/ Clarify \/ Rewrite
    \/ Retrieve \/ ProbeTables \/ TableRetrieve
    \/ BuildTablePlan \/ TableRefuses \/ TableSucceeds
    \/ JudgeByRule \/ JudgeByModel \/ RetryRetrieval \/ Refuse \/ Generate \/ StreamAnswer \/ PortThrows

GraphSpec == GraphInit /\ [][GraphNext]_graphVars

-----------------------------------------------------------------------------
\* Every quote of an answer about a contradiction is of a cited record, an
\* outline is answered from the record it was read from, a table's result
\* from rows of the search in hand, and a model never answers without
\* evidence or beside a table's result (streamAnswer).
AnswerHasItsEvidence ==
    node = "answered" =>
        CASE answer = "conflict" -> judgement.conflicts \subseteq citations /\ execution = "none"
          [] answer = "outline" -> outline \in citations
          [] answer = "table" -> /\ citations \subseteq TableRows
                                 /\ citations # {} \/ execution = "aggregate"
          [] OTHER -> citations # {} /\ execution = "none"

\* What an answer cites was brought by one search, which found the document
\* that the question names; outside the table path each of its records
\* reaches the threshold or is the outline, and there are no more than the
\* answer's model may cite; a question without an answer cites nothing
\* (adjudicate, selectedEvidence, documentConstraintStatus).
CitationsAreEvidence ==
    /\ node = "answered" =>
          /\ citations \subseteq found
          /\ status \notin Unusable
          /\ type # "table" => citations \subseteq Strong \cup {outline}
          /\ answer \in {"conflict", "model"} => Cardinality(citations) <= MaxEvidence
    /\ node = "ended" => citations = {}

\* A question is searched for twice at most, and is through before LangGraph
\* stops its run (retrieval_attempts, routeAfterJudge).
QuestionEndsInTime ==
    /\ retrievals <= MaxRetrievals
    /\ steps <= RecursionLimit

\* The graph keeps to what it found, and comes to an end.
GraphAnswersFromEvidence == AnswerHasItsEvidence /\ CitationsAreEvidence /\ QuestionEndsInTime
=============================================================================
