---------------------------- MODULE TableAnswers ----------------------------
(***************************************************************************)
(* What a question about tables is answered from the records a search has   *)
(* brought of them (src/core/ask-graph/table): the lookup grounded in the   *)
(* cells the question names, the rows the records give together, the test   *)
(* that no row is missing, and the execution of a plan.                     *)
(*                                                                         *)
(* A table is a sequence of rows; its records are consecutive slices of it, *)
(* and a search brings any of them.  Cells are members of a small set: what *)
(* matters of one is its spelling, the key its spelling is reduced to, and  *)
(* the number it reads as (0: none).                                        *)
(***************************************************************************)
EXTENDS Orders, SequencesExt

CONSTANTS
    t1, t2,         \* the tables of the search
    name, amount,   \* their columns
    RowKinds,       \* the rows they may have: data, blank lines and sums
    RowCount,       \* how many rows each has
    Key,            \* normalized: the key of a cell
    KeyLength,      \* how long the keys are that may name an entity
    Num,            \* parseTableNumber: the number of a cell, or 0
    Empty,          \* a cell without text
    RowLimit,       \* the limit of a plan
    PreviewLimit,   \* the rows an answer's text shows
    MaxEvidenceRows \* the rows it cites

ASSUME TableAssumption ==
    /\ \A row \in RowKinds : row.cell \in [{name, amount} -> DOMAIN Num]
    /\ Num \in [DOMAIN Num -> Nat] /\ DOMAIN Key = DOMAIN Num
    /\ RowCount \in [{t1, t2} -> Nat \ {0}]
    /\ {RowLimit, PreviewLimit, MaxEvidenceRows} \subseteq Nat \ {0}
    /\ 2 * PreviewLimit <= MaxEvidenceRows

Tables == {t1, t2}
Columns == {name, amount}
Aggregates == {"count", "sum", "avg", "min", "max", "minMax"}

VARIABLES
    rows,           \* the rows of each table
    cuts,           \* after which rows a record of the table ends
    brought,        \* the records the search has brought, by their first rows
    tablePlan,
    result

tableVars == <<rows, cuts, brought, tablePlan, result>>

NoPlan == [mode |-> "none"]
NoResult == [status |-> "none"]

Positions(t) == 1..RowCount[t]

TableInit ==
    /\ rows \in {r \in [Tables -> UNION {[Positions(t) -> RowKinds] : t \in Tables}] :
                   \A t \in Tables : DOMAIN r[t] = Positions(t)}
    /\ cuts \in {c \in [Tables -> SUBSET UNION {Positions(t) : t \in Tables}] :
                   \A t \in Tables : c[t] \subseteq Positions(t) \ {RowCount[t]}}
    /\ brought = [t \in Tables |-> {}]
    /\ tablePlan = NoPlan /\ result = NoResult

-----------------------------------------------------------------------------
(* The records of a table, and what they give together.                    *)

\* row_start of the record that holds row p.
RecordOf(t, p) == Max({q \in 1..p : q = 1 \/ q - 1 \in cuts[t]})

RecordsOf(t) == {RecordOf(t, p) : p \in Positions(t)}

\* The rows that the brought records hold.
Held(t) == {p \in Positions(t) : RecordOf(t, p) \in brought[t]}

\* normalizeTable, among the rows S: those with data, and the sums of the
\* table when they are asked for.
NormalizedRows(t, S, sums) ==
    {p \in S : rows[t][p].kind = "data" \/ (sums /\ rows[t][p].kind = "summary")}

Cell(t, p, c) == rows[t][p].cell[c]

\* A record of a table is taken for all of it (a mutant).
MutantCovered(t) == brought[t] # {}

\* assessTableCoverage: every row of the table is in a record at hand.
Covered(t) == Held(t) = Positions(t)

\* tableCandidates.
Candidates == {t \in Tables : brought[t] # {}}

\* The search, which takes what is near the question.
SearchTables ==
    /\ Candidates = {}
    /\ \E found \in [Tables -> SUBSET UNION {RecordsOf(t) : t \in Tables}] :
          /\ \A t \in Tables : found[t] \subseteq RecordsOf(t)
          /\ brought' = found /\ brought' # brought
    /\ UNCHANGED <<rows, cuts, tablePlan, result>>

-----------------------------------------------------------------------------
(* deriveGroundedTableLookup.  The question is the keys it contains.       *)

HeldData(t) == NormalizedRows(t, Held(t), FALSE)

\* The cells at hand that the question names.
Matches(t, words) ==
    {m \in [column : Columns, value : DOMAIN Key] :
        Key[m.value] \in words /\ \E p \in HeldData(t) : Cell(t, p, m.column) = m.value}

SameEntity(m, n) == m.column = n.column /\ Key[m.value] = Key[n.value]

\* What else the question names is left unread (a mutant).
MutantGrounds(t, words) ==
    {m \in Matches(t, words) : \A n \in Matches(t, words) : KeyLength[Key[n.value]] <= KeyLength[Key[m.value]]}

\* The longest match, of the first column if there are several, provided that
\* each row with it holds whatever else the question names of the table.
Grounds(t, words) ==
    {m \in Matches(t, words) :
        \A n \in Matches(t, words) :
           /\ \/ KeyLength[Key[n.value]] < KeyLength[Key[m.value]]
              \/ /\ KeyLength[Key[n.value]] = KeyLength[Key[m.value]]
                 /\ n.column = name => m.column = name
           /\ SameEntity(m, n) \/ \A p \in HeldData(t) :
                 Key[Cell(t, p, m.column)] = Key[m.value] => Cell(t, p, n.column) = n.value}

GroundedTables(words) == {t \in Candidates : Grounds(t, words) # {}}

\* The lookup of an entity in all its spellings, if one table grounds it.
GroundedLookups(words) ==
    IF Cardinality(GroundedTables(words)) # 1 THEN {}
    ELSE LET t == CHOOSE t \in GroundedTables(words) : TRUE
         IN {[mode |-> "single", table |-> t, operation |-> "lookup", sums |-> FALSE,
              where |-> {}, column |-> m.column, words |-> words,
              values |-> {n.value : n \in {n \in Matches(t, words) : SameEntity(m, n)}}] :
                m \in Grounds(t, words)}

-----------------------------------------------------------------------------
(* Plans, from the question's words or from a model (contracts.ts).        *)

\* where: the rows of which a cell equals another, or is at least as much.
Predicates ==
    {{}} \cup {{[column |-> name, operator |-> "==", value |-> Cell(t1, 1, name)]},
               {[column |-> amount, operator |-> ">=", value |-> Cell(t1, 1, amount)]}}

SinglePlans ==
    [mode : {"single"}, table : {t1}, operation : Aggregates \cup {"topN", "filter"},
     sums : BOOLEAN, where : Predicates, column : {amount}]

DualPlans == [mode : {"dual"}, operation : {"join", "compare"}]

\* What buildTablePlan may plan.
Plans ==
    SinglePlans \cup DualPlans \cup UNION {GroundedLookups(words) : words \in SUBSET DOMAIN KeyLength}

-----------------------------------------------------------------------------
(* The execution of a plan over one table.                                 *)

Refused(reason) == [status |-> "refuse", reason |-> reason]
Unclear(reason) == [status |-> "clarify", reason |-> reason]

\* compareScalar, which compares numbers where both sides are one, and where it
\* has no answer.
Holds(t, p, w) ==
    LET cell == Cell(t, p, w.column)
        numbers == Num[cell] > 0 /\ Num[w.value] > 0
    IN IF w.operator = "==" THEN IF numbers THEN Num[cell] = Num[w.value] ELSE cell = w.value
       ELSE numbers /\ Num[cell] >= Num[w.value]

Incomparable(t, p, w) ==
    w.operator = ">=" /\ (Num[Cell(t, p, w.column)] = 0 \/ Num[w.value] = 0)

\* applyPredicate.
Filtered(t, S, where) == {p \in S : \A w \in where : Holds(t, p, w)}

PredicateUnclear(t, S, where) ==
    Filtered(t, S, where) = {} /\ \E w \in where, p \in S : Incomparable(t, p, w)

\* The rows a lookup finds: those equal to one of its entity's spellings.
LookedUp(t, S, c, values) ==
    {p \in S : \E v \in values : Holds(t, p, [column |-> c, operator |-> "==", value |-> v])}

Numeric(t, S, c) == {p \in S : Num[Cell(t, p, c)] > 0}
Number(t, p, c) == Num[Cell(t, p, c)]

\* The row with the least or the greatest number; the first of them.
Least(t, S, c) ==
    CHOOSE p \in Numeric(t, S, c) : \A q \in Numeric(t, S, c) :
        Number(t, p, c) < Number(t, q, c) \/ (Number(t, p, c) = Number(t, q, c) /\ p <= q)
Greatest(t, S, c) ==
    CHOOSE p \in Numeric(t, S, c) : \A q \in Numeric(t, S, c) :
        Number(t, p, c) > Number(t, q, c) \/ (Number(t, p, c) = Number(t, q, c) /\ p <= q)

Total(t, S, c) == SumFunction([p \in Numeric(t, S, c) |-> Number(t, p, c)])

\* The rows of topN, the greatest first; equals keep their order.
Descending(t, S, c) ==
    LET listed == InOrder(Numeric(t, S, c))
    IN  Sorted(listed, Higher([i \in DOMAIN listed |-> Number(t, listed[i], c)]))

\* What an operation answers of the rows S; an average is a sum and a count.
Answer(op, t, S, c) ==
    CASE op = "count" -> <<Cardinality(S)>>
      [] op = "sum" -> <<Total(t, S, c)>>
      [] op = "avg" -> <<Total(t, S, c), Cardinality(Numeric(t, S, c))>>
      [] op = "min" -> <<Number(t, Least(t, S, c), c)>>
      [] op = "max" -> <<Number(t, Greatest(t, S, c), c)>>
      [] op = "minMax" -> <<Number(t, Least(t, S, c), c), Number(t, Greatest(t, S, c), c)>>
      [] OTHER -> <<>>

\* The rows it shows and cites.
Rows(op, t, S, c) ==
    CASE op \in {"count", "filter", "lookup"} -> InOrder(S)
      [] op \in {"sum", "avg"} -> InOrder(Numeric(t, S, c))
      [] op = "min" -> <<Least(t, S, c)>>
      [] op = "max" -> <<Greatest(t, S, c)>>
      [] op = "minMax" -> IF Least(t, S, c) = Greatest(t, S, c) THEN <<Least(t, S, c)>>
                          ELSE <<Least(t, S, c), Greatest(t, S, c)>>
      [] op = "topN" -> Prefix(Descending(t, S, c), RowLimit)

\* A row is cited by its own number instead of its record's (a mutant).
MutantEvidenceOf(t, s) == {<<t, p>> : p \in Range(Prefix(s, MaxEvidenceRows))}

\* buildTableEvidence: the records of the first rows.
EvidenceOf(t, s) == {<<t, RecordOf(t, p)>> : p \in Range(Prefix(s, MaxEvidenceRows))}

Succeeded(op, t, S, c) ==
    [status |-> "success", value |-> Answer(op, t, S, c), rows |-> Rows(op, t, S, c),
     evidence |-> EvidenceOf(t, Rows(op, t, S, c))]

\* executeSingle.
ExecuteSingle(p) ==
    LET t == p.table
        base == NormalizedRows(t, Held(t), p.sums)
        S == Filtered(t, base, p.where)
    IN IF p.operation \in Aggregates \cup {"topN"} /\ ~Covered(t) THEN Refused("coverage")
       ELSE IF brought[t] = {} THEN Refused("table_unavailable")
       ELSE IF PredicateUnclear(t, base, p.where) THEN Unclear("non_numeric_comparison")
       ELSE IF p.operation = "lookup"
       THEN Succeeded("lookup", t, LookedUp(t, S, p.column, p.values), p.column)
       ELSE IF p.operation \notin {"count", "filter"} /\ Numeric(t, S, p.column) = {}
       THEN Unclear("no_numeric_values")
       ELSE Succeeded(p.operation, t, S, p.column)

-----------------------------------------------------------------------------
(* The execution of a plan over two tables, joined by their names.         *)

Joinable(S1, S2) ==
    {pq \in S1 \X S2 : /\ Cell(t1, pq[1], name) = Cell(t2, pq[2], name)
                       /\ Cell(t1, pq[1], name) # Empty}

\* In the order of the left rows, and for each of them of the right ones.
Joined ==
    LET pairs == Joinable(HeldData(t1), HeldData(t2))
    IN  OrderedBy(pairs, {ab \in pairs \X pairs :
                           \/ ab[1][1] < ab[2][1]
                           \/ ab[1][1] = ab[2][1] /\ ab[1][2] < ab[2][2]})

\* The pairs whose amounts can be compared.
Comparable(pairs) ==
    {pq \in pairs : Number(t1, pq[1], amount) > 0 /\ Number(t2, pq[2], amount) > 0}

\* buildTableEvidence for pairs, where each counts as two rows, the left one first.
PairEvidence(pairs) ==
    {<<t1, RecordOf(t1, pairs[i][1])>> : i \in {i \in DOMAIN pairs : 2 * i - 1 <= MaxEvidenceRows}}
    \cup {<<t2, RecordOf(t2, pairs[i][2])>> : i \in {i \in DOMAIN pairs : 2 * i <= MaxEvidenceRows}}

\* executeDual.
ExecuteDual(p) ==
    LET chosen == Prefix(Joined, RowLimit)
    IN IF \E t \in Tables : brought[t] = {} THEN Refused("dual_table_unavailable")
       ELSE IF p.operation = "compare" /\ ~(Covered(t1) /\ Covered(t2)) THEN Refused("coverage")
       ELSE IF p.operation = "compare" /\ Joined # <<>> /\ Comparable(Range(chosen)) = {}
       THEN Unclear("no_numeric_compare_values")
       ELSE [status |-> "success", rows |-> chosen,
             value |-> IF p.operation = "compare" THEN Comparable(Range(chosen)) ELSE {},
             evidence |-> PairEvidence(chosen)]

\* buildTablePlan, once the search has brought a table, and executePlannedTableQuery.
ExecutePlan ==
    /\ tablePlan = NoPlan /\ Candidates # {}
    /\ \E p \in Plans :
          /\ tablePlan' = p
          /\ result' = IF p.mode = "single" THEN ExecuteSingle(p) ELSE ExecuteDual(p)
    /\ UNCHANGED <<rows, cuts, brought>>

TableNext == SearchTables \/ ExecutePlan

TableSpec == TableInit /\ [][TableNext]_tableVars

-----------------------------------------------------------------------------
\* The rows of the whole table that a plan is about.
AllRows(p) == Filtered(p.table, NormalizedRows(p.table, Positions(p.table), p.sums), p.where)

\* A count, a sum, an average and an extreme are those of the whole table,
\* whatever part of it the search brought, and no row of the table that a
\* topN leaves out is before one that it shows (assessTableCoverage).
AggregatesAreOfTheTable ==
    tablePlan # NoPlan /\ tablePlan.mode = "single" /\ result # NoResult
        /\ result.status = "success" =>
        LET op == tablePlan.operation
            t == tablePlan.table
        IN /\ op \in Aggregates => result.value = Answer(op, t, AllRows(tablePlan), amount)
           /\ op = "topN" =>
                 \A p \in AllRows(tablePlan) \ Range(result.rows), q \in Range(result.rows) :
                    Number(t, p, amount) <= Number(t, q, amount)

\* The rows at hand with the entity of a lookup, in whatever spelling.
EntityRows(p) ==
    {q \in HeldData(p.table) : \E v \in p.values : Key[Cell(p.table, q, p.column)] = Key[v]}

\* A grounded lookup shows every row at hand with its entity, there is such a
\* row, each of them holds everything that the question names of the table, and
\* no other table at hand grounds the question.  Another row is shown only where
\* the entity reads as a number, and the row as the same (deriveGroundedTableLookup,
\* compareScalar).
LookupsShowTheEntity ==
    tablePlan # NoPlan /\ tablePlan.mode = "single" /\ tablePlan.operation = "lookup"
        /\ result # NoResult =>
        LET t == tablePlan.table
        IN /\ result.status = "success"
           /\ GroundedTables(tablePlan.words) = {t}
           /\ EntityRows(tablePlan) # {} /\ EntityRows(tablePlan) \subseteq Range(result.rows)
           /\ \A p \in EntityRows(tablePlan), m \in Matches(t, tablePlan.words) :
                 Key[Cell(t, p, m.column)] = Key[m.value]
           /\ \A p \in Range(result.rows) \ EntityRows(tablePlan) : \E v \in tablePlan.values :
                 Num[v] > 0 /\ Number(t, p, tablePlan.column) = Num[v]

\* A comparison that its limit does not cut pairs everything the two tables
\* have to compare, and a row that an answer shows is cited from a record at
\* hand, the two rows of a pair alike (executeDual, buildTableEvidence, PREVIEW_LIMIT).
ShownRowsAreCited ==
    tablePlan # NoPlan /\ result # NoResult /\ result.status = "success" =>
        /\ tablePlan.mode = "dual" /\ tablePlan.operation = "compare" /\ Len(Joined) <= RowLimit =>
              result.value = Comparable(Joinable(NormalizedRows(t1, Positions(t1), FALSE),
                                                 NormalizedRows(t2, Positions(t2), FALSE)))
        /\ \A e \in result.evidence : e[2] \in brought[e[1]]
        /\ tablePlan.mode = "single" =>
              \A p \in Range(Prefix(result.rows, PreviewLimit)) :
                 <<tablePlan.table, RecordOf(tablePlan.table, p)>> \in result.evidence
        /\ tablePlan.mode = "dual" =>
              \A pq \in Range(Prefix(result.rows, PreviewLimit)) :
                 {<<t1, RecordOf(t1, pq[1])>>, <<t2, RecordOf(t2, pq[2])>>} \subseteq result.evidence
=============================================================================
