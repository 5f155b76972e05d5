------------------------------ MODULE MCContent ------------------------------
(***************************************************************************)
(* The stage step of an ingest on small instances: the parse of a PDF      *)
(* (LocalParser), every small document through reader, chunks and records  *)
(* (IndexRecords), and a generation through the runs of the step           *)
(* (StagedGeneration); the embedding of some texts (ProviderCall), and one *)
(* retrieval over what is stored (Retrieval).  A behaviour belongs to one  *)
(* part; the variables of the others keep their values.                    *)
(***************************************************************************)
EXTENDS LocalParser, IndexRecords, StagedGeneration, Retrieval, ProviderCall

VARIABLE part

MCVars == <<part, vars, pipelineVars, stageVars, retrievalVars, providerVars>>

-----------------------------------------------------------------------------
(* The documents looked at                                                   *)

Item0(kind) ==
    [kind |-> kind, page |-> 0, label |-> 0, level |-> 0, text |-> <<>>,
     rows |-> 0, head |-> 0, first |-> 0, explicit |-> FALSE, total |-> FALSE,
     width |-> 1, source |-> 0, caption |-> 0, continued |-> FALSE, paged |-> FALSE]

OnPageN(i, page) == [i EXCEPT !.page = page]
Says(kind, text) == [Item0(kind) EXCEPT !.text = text]

\* Texts without a separator at an end, which a reader takes off.
SmallTexts(n) == {t \in UNION {[1 .. k -> {0, Stop, Gap}] : k \in 1 .. n} : t[1] # Gap /\ t[Len(t)] # Gap}
LongTexts == {t \in [1 .. 8 -> {0, Gap, Par}] : t[1] = 0 /\ t[8] = 0}

\* Tables: with names or without, numbered from one or on, one that is the
\* rest of another by its source, its caption, a mark or its numbers alone.
Tables ==
    {[Item0("table") EXCEPT !.rows = r, !.head = h, !.explicit = h # 0 /\ e, !.first = f,
                            !.source = s, !.continued = c, !.total = r = 3] :
        r \in {2, 3}, h \in {0, 1}, e \in BOOLEAN, f \in {1, 3}, s \in {0, 1}, c \in BOOLEAN}
    \cup {[Item0("table") EXCEPT !.rows = 1, !.first = 2, !.caption = c, !.paged = p, !.source = s] :
             c \in {0, 1}, p \in BOOLEAN, s \in {0, 2}}

Between ==
    {Item0("page_number"), Item0("table"), [Item0("table") EXCEPT !.source = 1],
     [Item0("header") EXCEPT !.label = 1, !.text = <<0>>], Item0("image"), Says("text", <<>>),
     Says("text", <<0>>), [Says("text", <<0>>) EXCEPT !.level = 1], Says("code", <<0>>)}

\* What marks the rest of a table, and where it starts, says nothing of a first part.
FirstParts == {t \in Tables : ~t.continued /\ ~t.paged /\ t.first # 3}

ContentLists ==
    {<<OnPageN(a, 1), OnPageN(m, p), OnPageN(b, p + 1)>> :
        a \in FirstParts, m \in Between, b \in Tables, p \in {1, 2}}
    \cup {<<OnPageN(a, 1), OnPageN(b, 1), OnPageN(c, 1)>> : a, b, c \in Between}

Heading(kind, level, label) == [Says(kind, <<0>>) EXCEPT !.level = level, !.label = label]

TextLines ==
    {Heading("heading_line", l, t) : l \in 1 .. 3, t \in {1, 2}}
    \cup {Item0("blank_line"), Says("list_line", <<0>>), Says("text_line", <<0, Stop, 0>>)}

Elements ==
    {Heading("h", l, t) : l \in 1 .. 2, t \in {1, 2}}
    \cup {Says("p", <<0, Stop, 0, Gap, 0, Gap, 0>>), Says("p", <<>>), Says("list", <<0, Line, 0>>),
          Item0("table_element"), [Item0("table_element") EXCEPT !.rows = 3, !.first = 1]}

Pages(n) == {OnPageN(Says(k, t), 1) : k \in {"page", "item"}, t \in SmallTexts(n) \cup {<<>>}}

Documents ==
    ContentLists
    \cup UNION {[1 .. n -> TextLines] : n \in 1 .. 4}
    \cup UNION {[1 .. n -> Elements] : n \in 1 .. 3}
    \cup {<<a, OnPageN(b, 2)>> : a \in Pages(6), b \in Pages(1)}
    \cup {<<Says("p", t)>> : t \in SmallTexts(7) \cup LongTexts}

-----------------------------------------------------------------------------
(* The points retrieved from                                                 *)

Stored ==
    [doc |-> 1, gen |-> 1, acl |-> "workspace", kind |-> "chunk", from |-> 0, to |-> 2,
     well |-> TRUE, figure |-> 0, nodes |-> {}, near |-> 2, words |-> 1]

\* A text, one that contains another, one that a figure shows.
FirstPoints ==
    {Stored, [Stored EXCEPT !.kind = "section", !.to = 4, !.near = 1, !.words = 0],
     [Stored EXCEPT !.figure = 1, !.near = 1]}

\* The same text more specifically, the figure, and what the check of the hits refuses.
SecondPoints ==
    {[Stored EXCEPT !.kind = "table", !.near = 1, !.acl = "mine"],
     [Stored EXCEPT !.kind = "figure", !.from = 4, !.to = 6, !.figure = 1, !.near = 1, !.words = 0],
     [Stored EXCEPT !.acl = "unset"]}

\* Another document's, the caller's or not, and a payload that cannot be parsed.
ThirdPoints ==
    {[Stored EXCEPT !.doc = 2, !.gen = 2, !.words = 2, !.acl = a] : a \in {"workspace", "others"}}
    \cup {[Stored EXCEPT !.well = FALSE, !.words = 2]}

\* The most specific record takes the place of one that has taken it from the best hit,
\* which it does not overlap.
Chain ==
    <<[Stored EXCEPT !.kind = "section"],
      [Stored EXCEPT !.to = 4, !.near = 1],
      [Stored EXCEPT !.kind = "table", !.from = 2, !.to = 4, !.near = 0]>>

\* A figure built from a node of the best text, behind what fills the answer.
ByNode ==
    <<[Stored EXCEPT !.nodes = {1, 2}],
      [Stored EXCEPT !.doc = 2, !.gen = 2],
      [Stored EXCEPT !.kind = "figure", !.from = 4, !.to = 6, !.nodes = {2, 3}, !.near = 1, !.words = 0]>>

\* The pauses before the retries of a call.
TwoRetries == <<1, 2>>

Requests ==
    {w \in [hybrid : BOOLEAN, rerank : BOOLEAN, lineage : BOOLEAN, kinds : {Kinds, Kinds \ {"figure"}}] :
        w.lineage => w.kinds = Kinds}

-----------------------------------------------------------------------------

\* Where the parse is not looked at, another provider has done it.
NothingToParse ==
    /\ call = [p \in Parses |-> "elsewhere"] /\ attempt = [p \in Parses |-> 1]
    /\ active = 0 /\ waiters = <<>>
    /\ permit = [h \in Holders |-> "none"] /\ native = [h \in Holders |-> "none"]
    /\ status = [p \in Parses |-> "none"] /\ run = [p \in Parses |-> "none"]
    /\ aborted = [p \in Parses |-> FALSE] /\ again = [p \in Parses |-> FALSE]
    /\ ended = [p \in Parses |-> FALSE]

MCInit ==
    /\ part \in {"parse", "pipeline", "stage", "retrieval", "provider"}
    /\ IF part = "pipeline" THEN content \in Documents ELSE content = <<>>
    /\ IF part = "parse" THEN Init ELSE NothingToParse
    /\ ContentInit /\ TextInit /\ ChunkInit /\ IndexInit /\ StageInit
    /\ IF part = "retrieval"
       THEN payload \in {<<a, b, c>> : a \in FirstPoints, b \in SecondPoints, c \in ThirdPoints} \cup {Chain, ByNode}
            /\ wanted \in Requests
       ELSE payload = [p \in Points |-> Stored] /\ wanted = CHOOSE w \in Requests : TRUE
    /\ visible = IF wanted.rerank THEN Points ELSE {1, 2}
    /\ RetrievalInit /\ ProviderInit

Pipeline ==
    \/ ContentNext /\ UNCHANGED <<textVars, chunkVars, records>>
    \/ TextNext /\ UNCHANGED <<open, chunkVars, records>>
    \/ ChunkNext /\ UNCHANGED <<contentVars, textVars, records>>
    \/ BuildRecords /\ UNCHANGED <<contentVars, textVars, chunkVars>>

MCNext ==
    /\ UNCHANGED part
    /\ \/ part = "parse" /\ Next /\ UNCHANGED <<pipelineVars, stageVars, retrievalVars, providerVars>>
       \/ part = "pipeline" /\ Pipeline /\ UNCHANGED <<vars, stageVars, retrievalVars, providerVars>>
       \/ part = "stage" /\ StageNext /\ UNCHANGED <<vars, pipelineVars, retrievalVars, providerVars>>
       \/ part = "retrieval" /\ RetrievalNext /\ UNCHANGED <<vars, pipelineVars, stageVars, providerVars>>
       \/ part = "provider" /\ ProviderNext /\ UNCHANGED <<vars, pipelineVars, stageVars, retrievalVars>>

MCSpec == MCInit /\ [][MCNext]_MCVars /\ Fairness
=============================================================================
