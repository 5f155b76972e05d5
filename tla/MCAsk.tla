-------------------------------- MODULE MCAsk --------------------------------
(***************************************************************************)
(* The asks on small instances, one module after another: the way of asks  *)
(* through gate, access and memory (AskRequest), the end of their rows     *)
(* (AskSettlement), the page that shows them (AskClient), the graph that   *)
(* answers one (AskGraph), what it computes from tables (TableAnswers) and *)
(* the questions that come through the gateway (KnowledgeApi).  A          *)
(* behaviour belongs to one part; the variables of the others keep their   *)
(* values.                                                                 *)
(***************************************************************************)
EXTENDS AskRequest, AskSettlement, AskClient, AskGraph, TableAnswers, KnowledgeApi, TLC

CONSTANTS
    l1, h1,         \* a library of the page, an archived thread
    near, far       \* records of the graph's searches

VARIABLE part

\* The thread is about one of the two libraries of the page.
ThreadOfLibrary == h1 :> l1

\* A search may bring a row and a record of another table that are strong or
\* weak, a passage without a table, and the record of a whole document.
NearAndFar == {<<near, far>>}

\* Two spellings of one entity, another that shares a cell with an amount, a
\* blank line, a row without an entity and a sum; amounts that differ, are
\* equal but for the spelling, with its unit, or are no number.
Data(entity, value) == [kind |-> "data", cell |-> (name :> entity @@ amount :> value)]
Cells == {"A-1", "A1", "B", "1", "1u", "2", "sum", Empty}

SmallRows ==
    {Data("A-1", "1"), Data("A1", "2"), Data("B", "1u"), Data("B", "A1"), Data(Empty, "1"),
     [Data(Empty, Empty) EXCEPT !.kind = "blank"], [Data("sum", "2") EXCEPT !.kind = "summary"]}
TwoAndOne == t1 :> 2 @@ t2 :> 1

KeyOf == [c \in Cells |-> CASE c \in {"A-1", "A1"} -> "a1" [] c = "B" -> "b" [] OTHER -> c]
LengthOf == "a1" :> 2 @@ "b" :> 1 @@ "1u" :> 2
NumberOf == [c \in Cells |-> CASE c \in {"1", "1u"} -> 1 [] c = "2" -> 2 [] OTHER -> 0]

MCVars == <<part, vars, settlementVars, clientVars, graphVars, tableVars, apiVars>>

MCInit ==
    /\ part \in {"request", "settlement", "client", "graph", "tables", "api"}
    /\ Init /\ SettlementInit /\ ClientInit /\ GraphInit /\ TableInit /\ ApiInit
    /\ part # "client" => library = l1
    /\ part # "tables" =>
          cuts = [t \in Tables |-> {}] /\ rows = [t \in Tables |-> [p \in Positions(t) |-> Data("A-1", "1")]]
    /\ part # "graph" => named = "nothing"

MCNext ==
    /\ UNCHANGED part
    /\ \/ /\ part = "request" /\ Next
          /\ UNCHANGED <<settlementVars, clientVars, graphVars, tableVars, apiVars>>
       \/ /\ part = "settlement" /\ SettlementNext
          /\ UNCHANGED <<vars, clientVars, graphVars, tableVars, apiVars>>
       \/ /\ part = "client" /\ ClientNext
          /\ UNCHANGED <<vars, settlementVars, graphVars, tableVars, apiVars>>
       \/ /\ part = "graph" /\ GraphNext
          /\ UNCHANGED <<vars, settlementVars, clientVars, tableVars, apiVars>>
       \/ /\ part = "tables" /\ TableNext
          /\ UNCHANGED <<vars, settlementVars, clientVars, graphVars, apiVars>>
       \/ /\ part = "api" /\ ApiNext
          /\ UNCHANGED <<vars, settlementVars, clientVars, graphVars, tableVars>>

MCSpec == MCInit /\ [][MCNext]_MCVars

\* The asks are interchangeable, and so are the sources and the requests to
\* the gateway.
Symmetry == Permutations(Asks) \cup Permutations(Sources) \cup Permutations(ApiCalls)

\* A bound for the requests: two changes of access, or one ask whose client
\* leaves.  The theorems of AskRequest_proofs have no such bound.
ChangesOrAborts == changes + 2 * Cardinality(aborted) <= 2
=============================================================================
