--------------------------- MODULE AskGraph_proofs ---------------------------
(***************************************************************************)
(* What an answer rests on, for any records with any scores, tables and    *)
(* lineages, any limits on searches and evidence, and whatever searches    *)
(* bring and models say.                                                   *)
(*                                                                         *)
(* Where the question stands tells what it may have in hand and how many   *)
(* supersteps it has taken.  An upgrade is the delicate part: it is kept   *)
(* for good, so it must only be set when rows in hand ground the question, *)
(* and such a question never comes back to the judge.  Contradictions are  *)
(* only ever found beside no table's result, since the types of question   *)
(* that are checked for them reach a table by an upgrade alone.            *)
(***************************************************************************)
EXTENDS AskGraph, FiniteSetTheorems, TLAPS

Nodes == {"query_router", "build_retrieval_plan", "clarify", "rewrite", "retrieve", "probe",
          "table_retrieve", "build_table_plan", "table_execute", "judge", "retry", "refuse",
          "generate", "stream", "answered", "ended", "failed"}
Through == {"answered", "ended", "failed"}
OnTables == {"table_retrieve", "build_table_plan", "table_execute"}
Answering == {"generate", "stream", "answered"}

GraphTypeOK ==
    /\ node \in Nodes /\ retrievals \in Nat /\ steps \in Nat /\ upgrade \in BOOLEAN
    /\ {} \notin grounded /\ found \subseteq Records
    /\ plan \in {"none", "invalid", "lookup", "aggregate"}
    /\ execution \in {"none", "rows", "aggregate"}

\* What it has in hand: of one search, and strong enough but on the table
\* path; a probe has no outline to lose.
Cited ==
    /\ citations \subseteq found
    /\ type # "table" => citations \subseteq Strong \cup {outline}
    /\ node = "query_router" => citations = {}
    /\ node = "probe" => citations \subseteq Strong
    /\ node = "ended" => citations = {}

\* A question that was upgraded has rows in hand that ground it, and does not
\* come back; without, there are no table results but of a table question.
Upgraded ==
    /\ upgrade => /\ node \in OnTables \cup Answering \cup {"ended", "failed"}
                  /\ node \in OnTables => Grounded(citations)
    /\ node \in OnTables => upgrade \/ type = "table"
    /\ node \in {"retrieve", "probe"} => type # "table"
    /\ execution # "none" => upgrade \/ type = "table"
    /\ execution # "none" /\ node = "judge" => citations = {}
    /\ node \in {"query_router", "build_retrieval_plan", "clarify", "rewrite"} =>
          execution = "none" /\ retrievals = 0
    /\ node = "table_execute" /\ plan # "invalid" => citations \cap TableRows # {}

\* A search that could not use the named document brought nothing.
Constrained ==
    /\ node \in {"build_table_plan", "table_execute"} \/ (node = "table_retrieve" /\ upgrade) =>
          (status \in Unusable => citations = {})
    /\ node \in Answering => status \notin Unusable

\* An answer on its way has what it needs.
Backed ==
    node \in Answering =>
        IF execution = "none" THEN citations # {} /\ Cardinality(citations) <= MaxEvidence
        ELSE citations \subseteq TableRows /\ (citations # {} \/ execution = "aggregate")

Contradicted ==
    judgement.conflicts # {} =>
        /\ node \in Answering \cup {"failed"}
        /\ execution = "none" /\ judgement.conflicts \subseteq citations

Answered ==
    node = "answered" =>
        answer = IF judgement.conflicts # {} THEN "conflict"
                 ELSE IF OutlineCited THEN "outline"
                 ELSE IF execution # "none" THEN "table"
                 ELSE "model"

\* How long it may have taken to where it is, after so many searches.
InTime ==
    /\ retrievals <= MaxRetrievals /\ steps <= 6 * MaxRetrievals + 3
    /\ node = "query_router" => steps = 0
    /\ node = "build_retrieval_plan" => steps <= 1
    /\ node \in {"clarify", "rewrite"} => steps <= 2
    /\ node \in {"retrieve", "retry"} => retrievals < MaxRetrievals
    /\ node = "retry" => steps <= 6 * retrievals + 2
    /\ node = "retrieve" => steps <= 6 * retrievals + 3
    /\ node = "probe" => retrievals < MaxRetrievals /\ steps <= 6 * retrievals + 4
    /\ node = "table_retrieve" =>
          IF upgrade THEN steps <= 6 * retrievals - 2
          ELSE retrievals < MaxRetrievals /\ steps <= 6 * retrievals + 3
    /\ node = "build_table_plan" => steps <= 6 * retrievals - 1
    /\ node = "table_execute" => steps <= 6 * retrievals
    /\ node = "judge" => steps <= 6 * retrievals + 1
    /\ node \in {"refuse", "generate"} => steps <= 6 * retrievals + 2
    /\ node = "stream" => steps <= 6 * retrievals + 3

GraphInv ==
    /\ GraphTypeOK /\ Cited /\ Upgraded /\ Constrained /\ Backed /\ Contradicted
    /\ Answered /\ InTime

\* What is selected holds the chosen records, all of them cited, and no more
\* than may be.
LEMMA SelectionIs ==
    ASSUME citations \subseteq Records, NEW ids, NEW T \in Selections(ids)
    PROVE  ids \subseteq T /\ T \subseteq citations /\ T # {} /\ Cardinality(T) <= MaxEvidence
<1>1. IsFiniteSet(citations)  BY FS_Subset, GraphAssumption
<1>2. ids # {} /\ Cardinality(ids) <= MaxEvidence /\ ids \subseteq citations
  <2>1. IsFiniteSet(ids) \/ ~(ids \subseteq citations)  BY <1>1, FS_Subset
  <2>2. ids \subseteq citations /\ ids # {} /\ ~(Cardinality(ids) > MaxEvidence)
    BY DEF Selections
  <2>3. Cardinality(ids) \in Nat  BY <2>1, <2>2, FS_CardinalityType
  <2> QED  BY <2>2, <2>3, GraphAssumption
<1>3. CASE type = "compare"
  <2>1. T = citations /\ ~(Cardinality(citations) > MaxEvidence)  BY <1>2, <1>3 DEF Selections
  <2>2. Cardinality(citations) \in Nat  BY <1>1, FS_CardinalityType
  <2> QED  BY <1>2, <2>1, <2>2, GraphAssumption
<1>4. CASE type # "compare"
  <2> DEFINE room == MaxEvidence - Cardinality(ids)
             kin == Lineage(ids)
  <2>1. PICK L \in SUBSET kin :
           /\ T = ids \cup L
           /\ Cardinality(L) = IF Cardinality(kin) < room THEN Cardinality(kin) ELSE room
    BY <1>2, <1>4 DEF Selections
  <2>2. kin \subseteq citations  BY DEF Lineage
  <2>3. IsFiniteSet(ids) /\ IsFiniteSet(L) /\ IsFiniteSet(kin)
    BY <1>1, <1>2, <2>2, FS_Subset
  <2>4. /\ Cardinality(ids) \in Nat /\ Cardinality(L) \in Nat /\ Cardinality(kin) \in Nat
        /\ Cardinality(ids \cap L) \in Nat /\ IsFiniteSet(ids \cap L)
    BY <2>3, FS_CardinalityType, FS_Intersection
  <2>5. Cardinality(T) = Cardinality(ids) + Cardinality(L) - Cardinality(ids \cap L)
    BY <2>1, <2>3, FS_Union
  <2> HIDE DEF kin
  <2>6. Cardinality(L) <= room  BY <2>1, <2>4, GraphAssumption
  <2>7. Cardinality(T) <= MaxEvidence  BY <2>4, <2>5, <2>6, GraphAssumption
  <2> QED  BY <1>2, <2>1, <2>2, <2>7
<1> QED  BY <1>3, <1>4

\* A search brings records, and none when the named document is of no use.
LEMMA SearchBrings ==
    ASSUME NEW s \in Resolutions, NEW S \in SUBSET Records, NEW pool,
           SearchEvidence(s, S, pool)
    PROVE  /\ status' \in Unusable => S = {}
           /\ \/ outline' \in Outlines /\ S = {outline'}
              \/ outline' = NoRecord
BY DEF SearchEvidence, Unusable

\* Nothing grounds nothing.
LEMMA GroundedHasRows ==
    ASSUME {} \notin grounded, NEW C, Grounded(C)
    PROVE  C \cap TableRows # {}
BY DEF Grounded

\* The router's groundings are sets of rows.
LEMMA RouterGrounds ==
    ASSUME QueryRouter
    PROVE  {} \notin grounded'
<1>1. PICK cues \in SUBSET Cues : grounded' \in Groundings(cues)  BY DEF QueryRouter
<1>2. \A G \in SUBSET ((SUBSET TableRows) \ {{}}) : {} \notin G  OBVIOUS
<1>3. grounded' = {} \/ grounded' \in SUBSET ((SUBSET TableRows) \ {{}})
  BY <1>1 DEF Groundings
<1> QED  BY <1>2, <1>3

\* What grounds a question stays so with it.
LEMMA GroundedStays ==
    ASSUME grounded' = grounded, NEW C, citations' = C, Grounded(C)
    PROVE  Grounded(citations)'
BY DEF Grounded

LEMMA GraphInitInv == GraphInit => GraphInv
<1> SUFFICES ASSUME GraphInit PROVE GraphInv  OBVIOUS
<1> USE DEF GraphInit
<1>1. GraphTypeOK  BY DEF GraphTypeOK, Nodes
<1>2. Cited /\ Upgraded /\ Constrained /\ Backed /\ Answered
  BY DEF Cited, Upgraded, Constrained, Backed, Answered, OnTables, Answering
<1>3. Contradicted  BY DEF Contradicted, NoJudgement
<1>4. InTime  BY GraphAssumption DEF InTime
<1> QED  BY <1>1, <1>2, <1>3, <1>4 DEF GraphInv

\* Before the first search.
LEMMA RoutingInv ==
    ASSUME GraphInv, QueryRouter \/ BuildPlan \/ Clarify \/ Rewrite
    PROVE  GraphInv'
<1> USE DEF GraphInv, At
<1>1. UNCHANGED <<upgrade, plan, execution, found, status, outline, answer>>
  BY DEF QueryRouter, BuildPlan, Clarify, Rewrite, Evidence, TablePath
<1>2. CASE QueryRouter
  <2> USE <1>2 DEF QueryRouter
  <2>1. {} \notin grounded'  BY RouterGrounds
  <2>2. GraphTypeOK'  BY <1>1, <2>1 DEF GraphTypeOK, Nodes
  <2>3. UNCHANGED <<citations, judgement, retrievals>>  BY DEF Evidence
  <2>4. Cited'  BY <1>1, <2>3 DEF Cited
  <2>5. Upgraded'  BY <1>1, <2>3 DEF Upgraded, OnTables, Answering
  <2>6. Constrained' /\ Backed' /\ Answered'
    BY DEF Constrained, Backed, Answered, Answering, OnTables
  <2>7. Contradicted'  BY <2>3 DEF Contradicted, Answering
  <2>8. InTime'  BY <2>3, GraphAssumption DEF InTime, GraphTypeOK
  <2> QED  BY <2>2, <2>4, <2>5, <2>6, <2>7, <2>8
<1>3. CASE BuildPlan
  <2> USE <1>3 DEF BuildPlan
  <2>1. UNCHANGED <<type, grounded, retrievals, citations, judgement>>  BY DEF Question, Evidence
  <2>2. node' \in {"clarify", "rewrite"}  OBVIOUS
  <2>3. GraphTypeOK'  BY <1>1, <2>1, <2>2 DEF GraphTypeOK, Nodes
  <2>4. Cited'  BY <1>1, <2>1, <2>2 DEF Cited
  <2>5. Upgraded'  BY <1>1, <2>1, <2>2 DEF Upgraded, OnTables, Answering
  <2>6. Constrained' /\ Backed' /\ Answered'
    BY <2>2 DEF Constrained, Backed, Answered, Answering, OnTables
  <2>7. Contradicted'  BY <2>1 DEF Contradicted, Answering
  <2>8. InTime'  BY <2>1, <2>2, GraphAssumption DEF InTime, GraphTypeOK
  <2> QED  BY <2>3, <2>4, <2>5, <2>6, <2>7, <2>8
<1>4. CASE Clarify
  <2> USE <1>4 DEF Clarify
  <2>1. UNCHANGED <<type, grounded, retrievals>>  BY DEF Question
  <2>2. node' = "ended" /\ citations' = {} /\ judgement'.conflicts = {}  BY DEF NoJudgement
  <2>3. GraphTypeOK'  BY <1>1, <2>1, <2>2 DEF GraphTypeOK, Nodes
  <2>4. Cited'  BY <1>1, <2>1, <2>2 DEF Cited
  <2>5. Upgraded'  BY <1>1, <2>1, <2>2 DEF Upgraded, OnTables, Answering
  <2>6. Constrained' /\ Backed' /\ Answered'
    BY <2>2 DEF Constrained, Backed, Answered, Answering, OnTables
  <2>7. Contradicted'  BY <2>2 DEF Contradicted
  <2>8. InTime'  BY <2>1, <2>2, GraphAssumption DEF InTime, GraphTypeOK
  <2> QED  BY <2>3, <2>4, <2>5, <2>6, <2>7, <2>8
<1>5. CASE Rewrite
  <2> USE <1>5 DEF Rewrite
  <2>1. UNCHANGED <<type, grounded, citations, judgement>> /\ retrievals' = 0
    BY DEF Question, Evidence
  <2>2. /\ node' \in {"retrieve", "table_retrieve"} /\ ~upgrade
        /\ node' = "table_retrieve" <=> type = "table"
    BY DEF Upgraded, OnTables, Answering
  <2>3. GraphTypeOK'  BY <1>1, <2>1, <2>2 DEF GraphTypeOK, Nodes
  <2>4. Cited'  BY <1>1, <2>1, <2>2 DEF Cited
  <2>5. Upgraded'  BY <1>1, <2>1, <2>2 DEF Upgraded, OnTables, Answering
  <2>6. Constrained' /\ Backed' /\ Answered'
    BY <1>1, <2>2 DEF Constrained, Backed, Answered, Answering, OnTables
  <2>7. Contradicted'  BY <2>1 DEF Contradicted, Answering
  <2>8. InTime'  BY <1>1, <2>1, <2>2, GraphAssumption DEF InTime, GraphTypeOK
  <2> QED  BY <2>3, <2>4, <2>5, <2>6, <2>7, <2>8
<1> QED  BY <1>2, <1>3, <1>4, <1>5

LEMMA RetrieveInv ==
    ASSUME GraphInv, Retrieve
    PROVE  GraphInv'
<1> USE DEF GraphInv, At, Retrieve
<1>1. PICK s \in Resolutions, S \in SUBSET Records :
         /\ SearchEvidence(s, S, Records)
         /\ LET kept == Adjudicated(S, outline')
                probes == ~Grounded(kept) /\ kept \cap Labelled # {}
            IN /\ citations' = kept /\ found' = S
               /\ upgrade' = (upgrade \/ Grounded(kept))
               /\ retrievals' = IF probes THEN retrievals ELSE retrievals + 1
               /\ node' = IF probes THEN "probe"
                          ELSE IF upgrade' THEN "table_retrieve" ELSE "judge"
  OBVIOUS
<1>2. UNCHANGED <<type, grounded, plan, execution, judgement, answer>>  BY DEF Question
<1>3. citations' \subseteq S /\ citations' \subseteq Strong \cup {outline'} /\ found' = S
  BY <1>1 DEF Adjudicated
<1>4. ~upgrade  BY DEF Upgraded, OnTables, Answering
<1>5. /\ upgrade' \in BOOLEAN
      /\ upgrade' => Grounded(citations')
      /\ ~upgrade' => ~Grounded(citations')
  BY <1>1, <1>4
<1>6. /\ node' \in {"probe", "table_retrieve", "judge"}
      /\ node' = "probe" => ~upgrade' /\ retrievals' = retrievals /\ citations' \cap Labelled # {}
      /\ node' = "table_retrieve" => upgrade' /\ retrievals' = retrievals + 1
      /\ node' = "judge" => ~upgrade' /\ retrievals' = retrievals + 1
  BY <1>1, <1>4
<1>7. upgrade' => citations' # {}
  BY <1>5, GroundedHasRows DEF GraphTypeOK
<1>8. status' \in Unusable => S = {}  BY <1>1, SearchBrings
<1>9. node' = "probe" => citations' \subseteq Strong
  <2>1. (outline' \in Outlines /\ S = {outline'}) \/ outline' = NoRecord  BY <1>1, SearchBrings
  <2> QED  BY <1>3, <1>6, <2>1, GraphAssumption
<1>10. GraphTypeOK'  BY <1>2, <1>3, <1>5, <1>6 DEF GraphTypeOK, Nodes
<1>11. Cited'  BY <1>3, <1>6, <1>9 DEF Cited
<1>12. Upgraded'
  <2>1. upgrade' => Grounded(citations)'
    <3>1. grounded' = grounded  BY <1>2
    <3> HIDE DEF Retrieve, GraphInv, At
    <3>2. upgrade' => citations' \cap TableRows \in grounded  BY <1>5, Zenon DEF Grounded
    <3>3. upgrade' => citations' \cap TableRows \in grounded'  BY <3>1, <3>2, Zenon
    <3> QED  BY <3>3, Zenon DEF Grounded
  <2>2. upgrade' => node' \in {"table_retrieve"}  BY <1>6
  <2>3. execution' = execution /\ plan' = plan /\ type' = type  BY <1>2
  <2>4. node' = "table_retrieve" => upgrade'  BY <1>6
  <2>5. execution' = "none" /\ type' # "table"  BY <1>4, <2>3 DEF Upgraded
  <2>6. node' # "table_execute"  BY <1>6
  <2> HIDE DEF GraphInv, At, Retrieve
  <2> QED  BY <2>1, <2>2, <2>4, <2>5, <2>6, <1>6 DEF Upgraded, OnTables, Answering
<1>13. Constrained' /\ Backed' /\ Answered'
  BY <1>3, <1>6, <1>7, <1>8 DEF Constrained, Backed, Answered, Answering, OnTables
<1>14. Contradicted'  BY <1>2 DEF Contradicted, Answering
<1>15. InTime'  BY <1>6, GraphAssumption DEF InTime, GraphTypeOK
<1> QED  BY <1>10, <1>11, <1>12, <1>13, <1>14, <1>15

\* What a search for rows finds instead.
LEMMA ProbeInv ==
    ASSUME GraphInv, ProbeTables
    PROVE  GraphInv'
<1> USE DEF GraphInv
<1>1. PICK s \in Resolutions, S \in SUBSET Records :
         /\ SearchEvidence(s, S, TableRows)
         /\ LET precise == Adjudicated(S, outline')
            IN IF Grounded(precise)
               THEN citations' = precise /\ found' = S /\ upgrade' = TRUE
               ELSE UNCHANGED <<citations, found, upgrade>>
  BY DEF ProbeTables
<1>2. /\ UNCHANGED <<type, grounded, plan, execution, judgement, answer, steps>>
      /\ node = "probe" /\ retrievals' = retrievals + 1
      /\ node' = IF upgrade' THEN "table_retrieve" ELSE "judge"
  BY DEF ProbeTables, Question
<1>3. /\ ~upgrade /\ execution = "none" /\ type # "table" /\ citations \subseteq Strong
      /\ retrievals < MaxRetrievals /\ steps <= 6 * retrievals + 4 /\ citations \subseteq found
  BY <1>2 DEF Upgraded, OnTables, Answering, Cited, InTime
<1>4. status' \in Unusable => S = {}  BY <1>1, SearchBrings
<1>5. /\ judgement.conflicts = {}
      /\ {} \notin grounded' /\ node' \in {"table_retrieve", "judge"}
      /\ plan' \in {"none", "invalid", "lookup", "aggregate"} /\ execution' = "none"
      /\ type' # "table" /\ retrievals \in Nat /\ steps \in Nat
      /\ retrievals' \in Nat /\ steps' \in Nat
  BY <1>2, <1>3 DEF Contradicted, Answering, GraphTypeOK
<1>6. CASE Grounded(Adjudicated(S, outline'))
  <2> DEFINE kept == Adjudicated(S, outline')
  <2>1. citations' = kept /\ found' = S /\ upgrade' = TRUE /\ node' = "table_retrieve"
    BY <1>1, <1>2, <1>6
  <2>2. kept \subseteq S /\ kept \subseteq Strong \cup {outline'}  BY DEF Adjudicated
  <2>3. Grounded(citations)'  BY <1>2, <1>6, <2>1, GroundedStays
  <2>4. kept # {}  BY <1>6, GroundedHasRows DEF GraphTypeOK
  <2> HIDE DEF kept, GraphInv
  <2>5. GraphTypeOK'  BY <1>5, <2>1, <2>2 DEF GraphTypeOK, Nodes
  <2>6. Cited'  BY <2>1, <2>2 DEF Cited
  <2>7. Upgraded'  BY <1>5, <2>1, <2>3 DEF Upgraded, OnTables
  <2>8. Constrained' /\ Backed' /\ Answered'
    BY <1>4, <2>1, <2>2, <2>4 DEF Constrained, Backed, Answered, Answering
  <2>9. Contradicted'  BY <1>2, <1>5 DEF Contradicted
  <2>10. InTime'  BY <1>2, <1>3, <1>5, <2>1, GraphAssumption DEF InTime, GraphTypeOK
  <2> QED  BY <2>5, <2>6, <2>7, <2>8, <2>9, <2>10 DEF GraphInv
<1>7. CASE ~Grounded(Adjudicated(S, outline'))
  <2>1. citations' = citations /\ found' = found /\ upgrade' = FALSE /\ node' = "judge"
    BY <1>1, <1>2, <1>3, <1>7 DEF GraphTypeOK
  <2>2. found' \subseteq Records  BY <2>1 DEF GraphTypeOK
  <2> HIDE DEF GraphInv
  <2>5. GraphTypeOK'  BY <1>5, <2>1, <2>2 DEF GraphTypeOK, Nodes
  <2>6. Cited'  BY <1>3, <2>1 DEF Cited
  <2>7. Upgraded'  BY <1>5, <2>1 DEF Upgraded, OnTables
  <2>8. Constrained' /\ Backed' /\ Answered'
    BY <2>1 DEF Constrained, Backed, Answered, Answering
  <2>9. Contradicted'  BY <1>2, <1>5 DEF Contradicted
  <2>10. InTime'  BY <1>2, <1>3, <1>5, <2>1, GraphAssumption DEF InTime, GraphTypeOK
  <2> QED  BY <2>5, <2>6, <2>7, <2>8, <2>9, <2>10 DEF GraphInv
<1> QED  BY <1>6, <1>7

\* The rows in hand, or those that a search brings.
LEMMA TableRetrieveInv ==
    ASSUME GraphInv, TableRetrieve
    PROVE  GraphInv'
<1>1. /\ UNCHANGED <<type, grounded, upgrade, plan, execution, judgement, answer>>
      /\ node = "table_retrieve" /\ node' = "build_table_plan" /\ steps' = steps + 1
  BY DEF TableRetrieve, Question, TablePath, At
<1>2. /\ judgement'.conflicts = {} /\ {} \notin grounded' /\ upgrade' \in BOOLEAN
      /\ plan' \in {"none", "invalid", "lookup", "aggregate"}
      /\ execution' \in {"none", "rows", "aggregate"}
      /\ execution' # "none" => upgrade' \/ type' = "table"
      /\ (upgrade' \/ type' = "table") /\ retrievals \in Nat /\ steps' \in Nat
  BY <1>1 DEF GraphInv, Contradicted, Answering, GraphTypeOK, Upgraded, OnTables
<1>3. CASE upgrade /\ UNCHANGED <<retrievals, Evidence>>
  <2>1. UNCHANGED <<retrievals, citations, found, status, outline>>  BY <1>3 DEF Evidence
  <2>2. /\ citations \subseteq found /\ found \subseteq Records /\ Grounded(citations)
        /\ type # "table" => citations \subseteq Strong \cup {outline}
        /\ status \in Unusable => citations = {}
        /\ steps <= 6 * retrievals - 2 /\ retrievals <= MaxRetrievals
    BY <1>1, <1>3 DEF GraphInv, GraphTypeOK, Cited, Upgraded, Constrained, InTime, OnTables
  <2>3. Grounded(citations)'  BY <1>1, <2>1, <2>2, GroundedStays
  <2>4. GraphTypeOK'  BY <1>1, <1>2, <2>1, <2>2 DEF GraphTypeOK, Nodes
  <2>5. Cited'  BY <1>1, <2>1, <2>2 DEF Cited
  <2>6. Upgraded'  BY <1>1, <1>2, <2>3 DEF Upgraded, OnTables
  <2>7. Constrained' /\ Backed' /\ Answered'
    BY <1>1, <2>1, <2>2 DEF Constrained, Backed, Answered, Answering
  <2>8. Contradicted'  BY <1>2 DEF Contradicted
  <2>9. InTime'  BY <1>1, <1>2, <2>1, <2>2, GraphAssumption DEF InTime, GraphInv, GraphTypeOK
  <2> QED  BY <2>4, <2>5, <2>6, <2>7, <2>8, <2>9 DEF GraphInv
<1>4. CASE /\ ~upgrade /\ retrievals' = retrievals + 1
           /\ \E s \in Resolutions, S \in SUBSET Records :
                 SearchEvidence(s, S, TableRows) /\ citations' = S /\ found' = S
  <2>1. PICK s \in Resolutions, S \in SUBSET Records :
           SearchEvidence(s, S, TableRows) /\ citations' = S /\ found' = S
    BY <1>4
  <2>2. status' \in Unusable => citations' = {}  BY <2>1, SearchBrings
  <2>3. /\ upgrade' = FALSE /\ type' = "table" /\ retrievals < MaxRetrievals
        /\ steps <= 6 * retrievals + 3 /\ retrievals' = retrievals + 1
    BY <1>1, <1>4 DEF GraphInv, GraphTypeOK, Upgraded, InTime, OnTables
  <2>4. GraphTypeOK'  BY <1>1, <1>2, <2>1, <2>3 DEF GraphTypeOK, Nodes
  <2>5. Cited'  BY <1>1, <2>1, <2>3 DEF Cited
  <2>6. Upgraded'  BY <1>1, <2>3 DEF Upgraded, OnTables
  <2>7. Constrained' /\ Backed' /\ Answered'
    BY <1>1, <2>2 DEF Constrained, Backed, Answered, Answering
  <2>8. Contradicted'  BY <1>2 DEF Contradicted
  <2>9. InTime'  BY <1>1, <1>2, <2>3, GraphAssumption DEF InTime, GraphInv, GraphTypeOK
  <2> QED  BY <2>4, <2>5, <2>6, <2>7, <2>8, <2>9 DEF GraphInv
<1> QED  BY <1>3, <1>4 DEF TableRetrieve

\* A plan is for rows in hand.
LEMMA TablePlanInv ==
    ASSUME GraphInv, BuildTablePlan
    PROVE  GraphInv'
<1>1. /\ UNCHANGED <<type, grounded, retrievals, citations, found, status, outline, upgrade,
                     execution, judgement, answer>>
      /\ node = "build_table_plan" /\ node' = "table_execute" /\ steps' = steps + 1
      /\ plan' \in {"invalid", "lookup", "aggregate"}
      /\ plan' # "invalid" => citations \cap TableRows # {}
  BY DEF BuildTablePlan, Question, Evidence, At
<1>2. /\ judgement'.conflicts = {} /\ {} \notin grounded' /\ upgrade' \in BOOLEAN
      /\ execution' \in {"none", "rows", "aggregate"} /\ found' \subseteq Records
      /\ execution' # "none" => upgrade' \/ type' = "table"
      /\ (upgrade' \/ type' = "table") /\ retrievals \in Nat /\ steps' \in Nat
      /\ upgrade => Grounded(citations)
  BY <1>1 DEF GraphInv, Contradicted, Answering, GraphTypeOK, Upgraded, OnTables
<1>3. upgrade' => Grounded(citations)'
  <2>1. CASE upgrade  BY <1>1, <1>2, <2>1, GroundedStays
  <2>2. CASE ~upgrade  BY <1>1, <2>2
  <2> QED  BY <2>1, <2>2
<1>4. GraphTypeOK'  BY <1>1, <1>2 DEF GraphTypeOK, Nodes
<1>5. Cited'  BY <1>1 DEF GraphInv, Cited
<1>6. Upgraded'  BY <1>1, <1>2, <1>3 DEF Upgraded, OnTables
<1>7. Constrained' /\ Backed' /\ Answered'
  BY <1>1 DEF GraphInv, Constrained, Backed, Answered, Answering
<1>8. Contradicted'  BY <1>2 DEF Contradicted
<1>9. InTime'  BY <1>1, <1>2, GraphAssumption DEF InTime, GraphInv, GraphTypeOK
<1> QED  BY <1>4, <1>5, <1>6, <1>7, <1>8, <1>9 DEF GraphInv

\* A plan without a result ends the question.
LEMMA TableRefusesInv ==
    ASSUME GraphInv, TableRefuses \/ Refuse
    PROVE  GraphInv'
<1>1. /\ UNCHANGED <<type, grounded, retrievals, found, status, outline, upgrade, plan, execution,
                     answer>>
      /\ node \in {"table_execute", "refuse"} /\ node' = "ended" /\ citations' = {}
      /\ steps' = steps + 1
  BY DEF TableRefuses, Refuse, Question, TablePath, At
<1>2. judgement'.conflicts = {}
  <2>1. CASE TableRefuses  BY <2>1 DEF TableRefuses, NoJudgement
  <2>2. CASE Refuse
    <3>1. judgement' = judgement /\ node = "refuse"  BY <2>2 DEF Refuse, At
    <3> QED  BY <3>1 DEF GraphInv, Contradicted, Answering
  <2> QED  BY <2>1, <2>2
<1>3. /\ {} \notin grounded' /\ upgrade' \in BOOLEAN /\ retrievals \in Nat /\ steps \in Nat
      /\ execution' \in {"none", "rows", "aggregate"} /\ found' \subseteq Records
      /\ plan' \in {"none", "invalid", "lookup", "aggregate"}
      /\ execution' # "none" => upgrade' \/ type' = "table"
  BY <1>1 DEF GraphInv, GraphTypeOK, Upgraded
<1>4. GraphTypeOK'  BY <1>1, <1>3 DEF GraphTypeOK, Nodes
<1>5. Cited'  BY <1>1 DEF GraphInv, Cited
<1>6. Upgraded'  BY <1>1, <1>3 DEF Upgraded, OnTables
<1>7. Constrained' /\ Backed' /\ Answered'
  BY <1>1 DEF Constrained, Backed, Answered, Answering
<1>8. Contradicted'  BY <1>2 DEF Contradicted
<1>9. InTime'  BY <1>1, <1>3, GraphAssumption DEF InTime, GraphInv
<1> QED  BY <1>4, <1>5, <1>6, <1>7, <1>8, <1>9 DEF GraphInv

\* A result of the table, from rows in hand.
LEMMA TableSucceedsInv ==
    ASSUME GraphInv, TableSucceeds
    PROVE  GraphInv'
<1>1. PICK rows \in SUBSET (citations \cap TableRows) :
         /\ Grounded(citations) => rows # {}
         /\ citations' = rows
         /\ node' = IF rows # {} \/ plan = "aggregate" THEN "generate" ELSE "judge"
  BY DEF TableSucceeds
<1>2. /\ UNCHANGED <<type, grounded, retrievals, found, status, outline, upgrade, plan, judgement,
                     answer>>
      /\ node = "table_execute" /\ steps' = steps + 1 /\ plan # "invalid"
      /\ execution' = IF plan = "aggregate" THEN "aggregate" ELSE "rows"
  BY DEF TableSucceeds, Question, At
<1>3. /\ judgement'.conflicts = {} /\ {} \notin grounded' /\ upgrade' \in BOOLEAN
      /\ found' \subseteq Records /\ retrievals \in Nat /\ steps \in Nat
      /\ plan' \in {"none", "invalid", "lookup", "aggregate"}
      /\ (upgrade' \/ type' = "table")
      /\ citations \cap TableRows # {} /\ status \notin Unusable
  BY <1>2 DEF GraphInv, Contradicted, Answering, GraphTypeOK, Upgraded, OnTables, Constrained
<1>4. upgrade => Grounded(citations)  BY <1>2 DEF GraphInv, Upgraded, OnTables
<1>5. /\ node' \in {"generate", "judge"} /\ execution' \in {"rows", "aggregate"}
      /\ citations' \subseteq TableRows /\ citations' \subseteq citations
      /\ node' = "judge" => citations' = {}
      /\ node' = "generate" => citations' # {} \/ execution' = "aggregate"
      /\ upgrade' => node' = "generate"
  BY <1>1, <1>2, <1>4
<1>6. GraphTypeOK'  BY <1>2, <1>3, <1>5 DEF GraphTypeOK, Nodes
<1>7. Cited'  BY <1>2, <1>5 DEF GraphInv, Cited
<1>8. Upgraded'  BY <1>3, <1>5 DEF Upgraded, OnTables, Answering
<1>9. Constrained' /\ Backed' /\ Answered'
  BY <1>2, <1>3, <1>5 DEF Constrained, Backed, Answered, Answering
<1>10. Contradicted'  BY <1>3 DEF Contradicted
<1>11. InTime'  BY <1>2, <1>3, <1>5, GraphAssumption DEF InTime, GraphInv
<1> QED  BY <1>6, <1>7, <1>8, <1>9, <1>10, <1>11 DEF GraphInv

\* What a verdict leads to, and what it must then leave behind.
LEMMA JudgedInv ==
    ASSUME GraphInv, node = "judge", steps' = steps + 1, JudgeKeeps,
           node' \in {"generate", "retry", "refuse"},
           node' = "retry" => retrievals < MaxRetrievals,
           node' # "generate" => citations' = citations /\ judgement'.conflicts = {},
           node' = "generate" =>
              /\ citations' \subseteq citations /\ citations' # {}
              /\ Cardinality(citations') <= MaxEvidence
              /\ status \notin Unusable /\ judgement'.conflicts \subseteq citations'
    PROVE  GraphInv'
<1>1. UNCHANGED <<type, grounded, retrievals, found, status, outline, upgrade, plan, execution,
                  answer>>
  BY DEF JudgeKeeps, Question, TablePath
<1>2. /\ upgrade' = FALSE /\ {} \notin grounded' /\ retrievals \in Nat /\ steps \in Nat
      /\ retrievals' \in Nat /\ steps' \in Nat
      /\ execution' \in {"none", "rows", "aggregate"} /\ found' \subseteq Records
      /\ plan' \in {"none", "invalid", "lookup", "aggregate"}
      /\ execution' # "none" => type' = "table" /\ citations = {}
  BY <1>1 DEF GraphInv, GraphTypeOK, Upgraded, OnTables, Answering
<1>3. citations' \subseteq citations
  <2>1. CASE node' = "generate"  BY <2>1
  <2>2. CASE node' # "generate"  BY <2>2
  <2> QED  BY <2>1, <2>2
<1>4. GraphTypeOK'  BY <1>2 DEF GraphTypeOK, Nodes
<1>5. Cited'  BY <1>1, <1>3 DEF GraphInv, Cited
<1>6. Upgraded'  BY <1>2 DEF Upgraded, OnTables, Answering
<1>7. Constrained' /\ Backed' /\ Answered'
  BY <1>1, <1>2, <1>3 DEF Constrained, Backed, Answered, Answering
<1>8. Contradicted'  BY <1>2, <1>3 DEF Contradicted, Answering
<1>9. InTime'  BY <1>1, <1>2, GraphAssumption DEF InTime, GraphInv
<1> QED  BY <1>4, <1>5, <1>6, <1>7, <1>8, <1>9 DEF GraphInv

\* The last steps, and a port that throws.
LEMMA LastStepsInv ==
    ASSUME GraphInv, RetryRetrieval \/ Generate \/ StreamAnswer \/ PortThrows
    PROVE  GraphInv'
<1>1. UNCHANGED <<type, grounded, retrievals, citations, found, status, outline, upgrade, plan,
                  execution, judgement>>
  BY DEF RetryRetrieval, Generate, StreamAnswer, PortThrows, Question, Evidence, TablePath
<1>2. /\ {} \notin grounded' /\ retrievals \in Nat /\ steps \in Nat /\ upgrade' \in BOOLEAN
      /\ execution' \in {"none", "rows", "aggregate"} /\ found' \subseteq Records
      /\ plan' \in {"none", "invalid", "lookup", "aggregate"}
  BY <1>1 DEF GraphInv, GraphTypeOK
<1>3. CASE RetryRetrieval
  <2>1. /\ node = "retry" /\ steps' = steps + 1 /\ node' \in {"retrieve", "table_retrieve"}
        /\ node' = IF type = "table" \/ upgrade THEN "table_retrieve" ELSE "retrieve"
    BY <1>3 DEF RetryRetrieval, At
  <2>2. /\ upgrade' = FALSE /\ judgement'.conflicts = {}
        /\ execution' # "none" => type' = "table"
        /\ node' = "table_retrieve" <=> type' = "table"
    BY <1>1, <2>1 DEF GraphInv, GraphTypeOK, Upgraded, OnTables, Answering, Contradicted
  <2>3. GraphTypeOK'  BY <1>1, <1>2, <2>1 DEF GraphTypeOK, Nodes
  <2>4. Cited'  BY <1>1, <2>1 DEF GraphInv, Cited
  <2>5. Upgraded'  BY <2>1, <2>2 DEF Upgraded, OnTables
  <2>6. Constrained' /\ Backed' /\ Answered'
    BY <2>1, <2>2 DEF Constrained, Backed, Answered, Answering
  <2>7. Contradicted'  BY <2>2 DEF Contradicted
  <2>8. InTime'  BY <1>1, <1>2, <2>1, <2>2, GraphAssumption DEF InTime, GraphInv
  <2> QED  BY <2>3, <2>4, <2>5, <2>6, <2>7, <2>8 DEF GraphInv
<1>4. CASE Generate
  <2>1. node = "generate" /\ steps' = steps + 1 /\ node' = "stream"
    BY <1>4 DEF Generate, At
  <2>3. GraphTypeOK'  BY <1>1, <1>2, <2>1 DEF GraphTypeOK, Nodes
  <2>4. Cited'  BY <1>1, <2>1 DEF GraphInv, Cited
  <2>5. Upgraded'  BY <1>1, <2>1 DEF GraphInv, Upgraded, OnTables, Answering
  <2>6. Constrained' /\ Backed' /\ Answered'
    BY <1>1, <2>1 DEF GraphInv, Constrained, Backed, Answered, Answering
  <2>7. Contradicted'  BY <1>1, <2>1 DEF GraphInv, Contradicted, Answering
  <2>8. InTime'  BY <1>1, <1>2, <2>1, GraphAssumption DEF InTime, GraphInv
  <2> QED  BY <2>3, <2>4, <2>5, <2>6, <2>7, <2>8 DEF GraphInv
<1>5. CASE StreamAnswer
  <2>1. node = "stream" /\ steps' = steps /\ node' = "answered"  BY <1>5 DEF StreamAnswer
  <2>2. Answered'  BY <1>1, <1>5 DEF StreamAnswer, Answered, OutlineCited
  <2>3. GraphTypeOK'  BY <1>1, <1>2, <2>1 DEF GraphTypeOK, Nodes
  <2>4. Cited'  BY <1>1, <2>1 DEF GraphInv, Cited
  <2>5. Upgraded'  BY <1>1, <2>1 DEF GraphInv, Upgraded, OnTables, Answering
  <2>6. Constrained' /\ Backed'
    BY <1>1, <2>1 DEF GraphInv, Constrained, Backed, Answering
  <2>7. Contradicted'  BY <1>1, <2>1 DEF GraphInv, Contradicted, Answering
  <2>8. InTime'  BY <1>1, <1>2, <2>1, GraphAssumption DEF InTime, GraphInv
  <2> QED  BY <2>2, <2>3, <2>4, <2>5, <2>6, <2>7, <2>8 DEF GraphInv
<1>6. CASE PortThrows
  <2>1. steps' = steps /\ node' = "failed"  BY <1>6 DEF PortThrows
  <2>3. GraphTypeOK'  BY <1>1, <1>2, <2>1 DEF GraphTypeOK, Nodes
  <2>4. Cited'  BY <1>1, <2>1 DEF GraphInv, Cited
  <2>5. Upgraded'  BY <1>1, <2>1 DEF GraphInv, Upgraded, OnTables, Answering
  <2>6. Constrained' /\ Backed' /\ Answered'
    BY <2>1 DEF Constrained, Backed, Answered, Answering
  <2>7. Contradicted'  BY <1>1, <2>1 DEF GraphInv, Contradicted, Answering
  <2>8. InTime'  BY <1>1, <1>2, <2>1, GraphAssumption DEF InTime, GraphInv
  <2> QED  BY <2>3, <2>4, <2>5, <2>6, <2>7, <2>8 DEF GraphInv
<1> QED  BY <1>3, <1>4, <1>5, <1>6

\* The judge by its rules.
LEMMA JudgeByRuleInv ==
    ASSUME GraphInv, JudgeByRule
    PROVE  GraphInv'
<1>1. /\ node = "judge" /\ steps' = steps + 1 /\ JudgeKeeps
      /\ citations \subseteq Records
  BY DEF JudgeByRule, At, GraphInv, GraphTypeOK, Cited
<1>2. CASE NamedDocumentMissing /\ Decide(Refusal) /\ UNCHANGED citations
  <2>1. node' = "refuse" /\ citations' = citations /\ judgement'.conflicts = {}
    BY <1>2 DEF Decide, AfterJudge, Refusal, NoJudgement
  <2> QED  BY <1>1, <2>1, JudgedInv
<1>3. CASE /\ ~NamedDocumentMissing /\ OutlineCited
           /\ Decide([NoJudgement EXCEPT !.action = "generate"])
           /\ citations' \in Selections({outline})
  <2>1. node' = "generate" /\ judgement'.conflicts = {} /\ status \notin Unusable
    BY <1>3 DEF Decide, AfterJudge, NoJudgement, NamedDocumentMissing
  <2>2. /\ citations' \subseteq citations /\ citations' # {}
        /\ Cardinality(citations') <= MaxEvidence
    BY <1>1, <1>3, SelectionIs
  <2> QED  BY <1>1, <2>1, <2>2, JudgedInv
<1>4. CASE /\ ~NamedDocumentMissing /\ ~OutlineCited /\ NothingFound
           /\ Decide([NoJudgement EXCEPT !.action = "retry", !.canRetry = retrievals < MaxRetrievals])
           /\ UNCHANGED citations
  <2>1. /\ node' \in {"retry", "refuse"} /\ citations' = citations
        /\ node' = "retry" => retrievals < MaxRetrievals
        /\ judgement'.conflicts = {}
    BY <1>4 DEF Decide, AfterJudge, NoJudgement
  <2> QED  BY <1>1, <2>1, JudgedInv
<1> QED  BY <1>2, <1>3, <1>4 DEF JudgeByRule

\* Where a verdict leads.
LEMMA AfterJudgeIs ==
    ASSUME NEW j, j.action \in {"generate", "retry", "refuse"}
    PROVE  /\ AfterJudge(j) \in {"generate", "retry", "refuse"}
           /\ AfterJudge(j) = "generate" <=> j.action = "generate"
           /\ AfterJudge(j) = "retry" => retrievals < MaxRetrievals
BY DEF AfterJudge

\* The judge by its model.
LEMMA JudgeByModelInv ==
    ASSUME GraphInv, JudgeByModel
    PROVE  GraphInv'
<1>1. /\ node = "judge" /\ steps' = steps + 1 /\ JudgeKeeps
      /\ citations \subseteq Records /\ status \notin Unusable
  BY DEF JudgeByModel, At, GraphInv, GraphTypeOK, Cited, NamedDocumentMissing
<1>2. PICK v \in Verdicts : \E conflicts \in Conflicts(v) :
         LET usable == /\ Assessable(v, conflicts)
                       /\ v.action = "generate" => /\ v.sufficient
                                                   /\ Selections(v.ids \cup conflicts) # {}
                       /\ v.action # "generate" => v.ids = {}
         IN IF usable
            THEN /\ Decide([action |-> v.action, canRetry |-> v.canRetry,
                            conflicts |-> conflicts])
                 /\ IF v.action = "generate"
                    THEN citations' \in Selections(v.ids \cup conflicts)
                    ELSE UNCHANGED citations
            ELSE Decide(Refusal) /\ UNCHANGED citations
  BY DEF JudgeByModel
<1>3. PICK conflicts \in Conflicts(v) :
         \/ /\ Decide([action |-> v.action, canRetry |-> v.canRetry, conflicts |-> conflicts])
            /\ IF v.action = "generate"
               THEN citations' \in Selections(v.ids \cup conflicts)
               ELSE citations' = citations
         \/ Decide(Refusal) /\ citations' = citations
  BY <1>2
<1>4. CASE Decide(Refusal) /\ citations' = citations
  <2>1. node' = "refuse" /\ judgement'.conflicts = {}
    BY <1>4 DEF Decide, AfterJudge, Refusal, NoJudgement
  <2> QED  BY <1>1, <1>4, <2>1, JudgedInv
<1>5. CASE /\ Decide([action |-> v.action, canRetry |-> v.canRetry, conflicts |-> conflicts])
           /\ IF v.action = "generate"
              THEN citations' \in Selections(v.ids \cup conflicts)
              ELSE citations' = citations
  <2> DEFINE j == [action |-> v.action, canRetry |-> v.canRetry, conflicts |-> conflicts]
  <2>1. v.action \in {"generate", "retry", "refuse"}  BY DEF Verdicts
  <2>2. j.action = v.action /\ j.conflicts = conflicts  OBVIOUS
  <2>3. judgement' = j /\ node' = AfterJudge(j)  BY <1>5 DEF Decide
  <2> HIDE DEF j
  <2>4. /\ node' \in {"generate", "retry", "refuse"}
        /\ node' = "generate" <=> v.action = "generate"
        /\ node' = "retry" => retrievals < MaxRetrievals
    BY <2>1, <2>2, <2>3, AfterJudgeIs
  <2>5. judgement'.conflicts = conflicts  BY <2>2, <2>3
  <2>6. node' # "generate" => citations' = citations /\ conflicts = {}
    BY <1>5, <2>4 DEF Conflicts, Checked
  <2>7. node' = "generate" => /\ citations' \subseteq citations /\ citations' # {}
                              /\ Cardinality(citations') <= MaxEvidence
                              /\ conflicts \subseteq citations'
    <3> SUFFICES ASSUME node' = "generate"
                 PROVE  /\ citations' \subseteq citations /\ citations' # {}
                        /\ Cardinality(citations') <= MaxEvidence
                        /\ conflicts \subseteq citations'
      OBVIOUS
    <3>1. citations' \in Selections(v.ids \cup conflicts)  BY <1>5, <2>4
    <3> QED  BY <1>1, <3>1, SelectionIs
  <2> QED  BY <1>1, <2>4, <2>5, <2>6, <2>7, JudgedInv
<1> QED  BY <1>3, <1>4, <1>5

LEMMA GraphNextInv == GraphInv /\ [GraphNext]_graphVars => GraphInv'
<1> SUFFICES ASSUME GraphInv, [GraphNext]_graphVars PROVE GraphInv'
  OBVIOUS
<1>1. CASE UNCHANGED graphVars
  <2> USE <1>1 DEF graphVars
  <2>1. GraphTypeOK' /\ Cited' /\ Constrained' /\ Backed' /\ Contradicted' /\ InTime'
    BY DEF GraphInv, GraphTypeOK, Cited, Constrained, Backed, Contradicted, InTime
  <2>2. Upgraded' /\ Answered'
    BY DEF GraphInv, Upgraded, Grounded, Answered, OutlineCited
  <2> QED  BY <2>1, <2>2 DEF GraphInv
<1>2. CASE GraphNext
  BY <1>2, RoutingInv, RetrieveInv, ProbeInv, TableRetrieveInv, TablePlanInv, TableRefusesInv,
     TableSucceedsInv, JudgeByRuleInv, JudgeByModelInv, LastStepsInv
  DEF GraphNext
<1> QED  BY <1>1, <1>2

\* What a reader of the answer may rely on follows.
LEMMA GraphInvShows == GraphInv => GraphAnswersFromEvidence
<1> SUFFICES ASSUME GraphInv PROVE GraphAnswersFromEvidence  OBVIOUS
<1>1. AnswerHasItsEvidence
  BY DEF AnswerHasItsEvidence, GraphInv, Answered, Backed, Contradicted, OutlineCited, Answering
<1>2. CitationsAreEvidence
  BY DEF CitationsAreEvidence, GraphInv, Cited, Constrained, Backed, Contradicted, Answered,
         Answering
<1>3. QuestionEndsInTime
  BY GraphAssumption DEF QuestionEndsInTime, GraphInv, InTime, GraphTypeOK
<1> QED  BY <1>1, <1>2, <1>3 DEF GraphAnswersFromEvidence

\* For any records, thresholds and lineages, any cues, verdicts and search
\* results, any limits on searches and on evidence: an answer has the evidence
\* it claims, cites one search that found the document the question names, and
\* comes before LangGraph stops its run.
THEOREM AnswersRestOnEvidence == GraphSpec => []GraphAnswersFromEvidence
<1>1. GraphInit => GraphInv  BY GraphInitInv
<1>2. GraphInv /\ [GraphNext]_graphVars => GraphInv'  BY GraphNextInv
<1>3. GraphInv => GraphAnswersFromEvidence  BY GraphInvShows
<1> QED  BY <1>1, <1>2, <1>3, PTL DEF GraphSpec
=============================================================================
