---------------------------- MODULE IndexRecords ----------------------------
(***************************************************************************)
(* buildIndexPayloads: the records of a generation's points, one for each  *)
(* chunk, one for the document, and those of its sections and tables.  A   *)
(* point's id is the digest of its record's id, so that two records with   *)
(* one id would be one point: the write store refuses them.                *)
(***************************************************************************)
EXTENDS DocumentChunks

CONSTANTS
    SectionLength,          \* maxChars of buildSectionRecords
    MaxRows, MaxTokens      \* table_rows_per_record, table_tokens_per_record

VARIABLE records   \* the records, <<>> until they are built

pipelineVars == <<contentVars, textVars, chunkVars, records>>

IndexInit == records = <<>>

-----------------------------------------------------------------------------
(* Sections                                                                  *)

\* splitLongText: cut after the last separator of a window, if not too early.
RECURSIVE SplitLong(_)
SplitLong(text) ==
    IF Len(text) <= SectionLength THEN NonBlank(text)
    ELSE LET cuts == {k \in 1 .. SectionLength :
                         text[k] \in {Par, Line, Stop} /\ k > SectionLength \div 3}
             end == IF cuts = {} THEN SectionLength ELSE Max(cuts)
         IN  NonBlank(SubSeq(text, 1, end)) \o SplitLong(SubSeq(text, end + 1, Len(text)))

\* Chunks in a row that have one path.
Runs ==
    FoldLeft(LAMBDA runs, c : IF runs # <<>> /\ Last(runs)[1].path = c.path
                              THEN Front(runs) \o <<Append(Last(runs), c)>>
                              ELSE Append(runs, <<c>>),
             <<>>, [k \in DOMAIN chunks |-> [chunks[k] EXCEPT !.node = k]])

Closed(pack) == pack.done \o (IF pack.open = <<>> THEN <<>> ELSE <<pack.open>>)

\* The chunks of a run, packed; one that is too long is cut by itself.  The
\* separator is counted before a part is closed, so the next part has it too.
Parts(run) ==
    LET Step(pack, c) ==
            LET separator == IF pack.open = <<>> THEN 0 ELSE 1
                full == pack.open # <<>> /\ pack.size + separator + Len(c.body) > SectionLength
                cut == SplitLong(c.body)
            IN  IF Len(c.body) > SectionLength
                THEN [done |-> Closed(pack) \o [k \in DOMAIN cut |-> <<[c EXCEPT !.body = cut[k]]>>],
                      open |-> <<>>, size |-> 0]
                ELSE [done |-> IF full THEN Closed(pack) ELSE pack.done,
                      open |-> IF full THEN <<c>> ELSE Append(pack.open, c),
                      size |-> (IF full THEN 0 ELSE pack.size) + separator + Len(c.body)]
    IN  Closed(FoldLeft(Step, [done |-> <<>>, open |-> <<>>, size |-> 0], run))

Occurrence(k) == Cardinality({j \in 1 .. k - 1 : Runs[j][1].path = Runs[k][1].path})

SectionRecord(run, part, members) ==
    [id |-> <<"sec", members[1].path, Occurrence(run), part>>,
     text |-> Join([k \in DOMAIN members |-> members[k].body]),
     sources |-> {members[k].node : k \in DOMAIN members}, rows |-> <<>>]

SectionRecords ==
    FlattenSeq([k \in DOMAIN Runs |->
        LET parts == Parts(Runs[k])
        IN  [p \in DOMAIN parts |-> SectionRecord(k, p - 1, parts[p])]])

-----------------------------------------------------------------------------
(* Tables                                                                    *)

\* estimateTokens: rows differ, and the names of the columns count too.
RowTokens(row) == 1 + (row.letter % 2)
HeaderTokens == 1

\* sliceTableRows.  A slice has at least one row, however long it is.
Slices(rows) ==
    LET Step(cut, row) ==
            IF cut.open # <<>> /\ (Len(cut.open) >= MaxRows \/ cut.tokens + RowTokens(row) > MaxTokens)
            THEN [done |-> Append(cut.done, cut.open), open |-> <<row>>,
                  tokens |-> HeaderTokens + RowTokens(row)]
            ELSE [cut EXCEPT !.open = Append(@, row), !.tokens = @ + RowTokens(row)]
        cut == FoldLeft(Step, [done |-> <<>>, open |-> <<>>, tokens |-> HeaderTokens], rows)
    IN  Append(cut.done, cut.open)

Before(slices, k) == FoldLeft(LAMBDA n, s : n + Len(s), 0, SubSeq(slices, 1, k - 1))

TableChunks ==
    SelectSeq([k \in DOMAIN chunks |-> k], LAMBDA k : chunks[k].node.type = "table")

TableRecordsOf(k) ==
    LET table == chunks[k].node.table
        slices == Slices(table.rows)
    IN  [s \in DOMAIN slices |->
            [id |-> <<"tbl", chunks[k].node.id, Before(slices, s), Before(slices, s + 1) - 1>>,
             text |-> Letters(slices[s]), sources |-> {k}, rows |-> slices[s]]]

SummaryRecord(k) ==
    [id |-> <<"sum", chunks[k].node.id>>, text |-> Letters(chunks[k].node.table.summary),
     sources |-> {k}, rows |-> <<>>]

-----------------------------------------------------------------------------
(* All records                                                               *)

ChunkRecord(k) ==
    [id |-> <<"chk", k - 1>>, text |-> chunks[k].body, sources |-> {}, rows |-> <<>>]

\* Headings without a text of their own are still in the document's outline.
DocumentRecord ==
    [id |-> <<"doc">>, sources |-> {}, rows |-> <<>>,
     text |-> FlattenSeq([n \in DOMAIN nodes |->
                  IF nodes[n].type = "heading" THEN nodes[n].text ELSE <<>>])]

AllRecords ==
    [k \in DOMAIN chunks |-> ChunkRecord(k)]
    \o <<DocumentRecord>> \o SectionRecords
    \o FlattenSeq([t \in DOMAIN TableChunks |-> TableRecordsOf(TableChunks[t])])
    \o [t \in DOMAIN TableChunks |-> SummaryRecord(TableChunks[t])]

\* An ingest without chunks ends as document_ingest_empty.
BuildRecords ==
    /\ chunks # <<>> /\ records = <<>>
    /\ records' = AllRecords

Built == records # <<>>

-----------------------------------------------------------------------------
(* Properties                                                                *)

\* The letters of a text, each where it comes first.
Once(text) ==
    FoldLeft(LAMBDA seen, ch : IF IsLetter(ch) /\ \A k \in DOMAIN seen : seen[k] # ch
                               THEN Append(seen, ch) ELSE seen, <<>>, text)

Texts(seq, type) ==   \* the texts of the records of one type
    FlattenSeq([k \in DOMAIN seq |-> IF seq[k].id[1] = type THEN seq[k].text ELSE <<>>])

\* The items whose text is said: headings up to the level are names of sections.
Said == {"text", "text_line", "list_line", "heading_line", "p", "list", "h", "page", "item"}
TextOf(i) ==
    IF content[i].kind \in Said /\ content[i].level \in {0} \cup (BoundaryLevel + 1 .. 6)
    THEN Text(i) ELSE <<>>

\* Reading, cutting, packing and overlapping lose no letter of a text and keep
\* their order: what the chunks say is what was read, once the overlaps are
\* taken out, and the sections say the same as the chunks (recursiveSplit).
TextKept ==
    Built =>
        /\ Once(FlattenSeq([k \in DOMAIN chunks |->
                    IF chunks[k].node.type = "text" THEN chunks[k].body ELSE <<>>]))
           = Once(FlattenSeq([i \in DOMAIN content |-> TextOf(i)]))
        /\ Once(Texts(records, "sec")) = Once(Texts(records, "chk"))

\* A row of a table's body is in the rows of exactly one record, unless it
\* names the columns of its table: joining tables over pages and slicing them
\* neither loses nor repeats one.
RowsIndexed ==
    Built =>
        \A i \in DOMAIN content : content[i].kind \in {"table", "table_element"} =>
            \A row \in ToSet(Table(i).rows)
                       \cup (IF Columns(i) >= ItemSize THEN ToSet(Table(i).header) ELSE {}) :
                \/ Cardinality({r \in DOMAIN records : row \in ToSet(records[r].rows)}) = 1
                \/ \E n \in DOMAIN nodes :
                      nodes[n].type = "table" /\ row.letter = nodes[n].table.columns

\* No two records of a generation have one id, hence one point (stage refuses them).
IdsDistinct ==
    \A r, s \in DOMAIN records : records[r].id = records[s].id => r = s

\* The records of a generation say what the document says: each of its texts
\* and rows once, under ids of their own.
RecordsComplete == TextKept /\ RowsIndexed /\ IdsDistinct
=============================================================================
