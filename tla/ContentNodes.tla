---------------------------- MODULE ContentNodes ----------------------------
(***************************************************************************)
(* normalizeMinerUResult: the items of MinerU's content list become, in    *)
(* reading order, the nodes of a document.  A table that goes on on the    *)
(* next page is joined to its node, and so are two lines of one heading.   *)
(*                                                                         *)
(* A text is a sequence of separators and letters, numbers that occur once *)
(* in the list.  A row of a table is one letter, with the number in its    *)
(* first column.                                                           *)
(***************************************************************************)
EXTENDS Integers, SequencesExt

CONSTANT ItemSize   \* more than an item has letters, so that those of two differ

ASSUME ContentAssumption == ItemSize \in Nat /\ ItemSize > 4

VARIABLES
    content,   \* content_list
    read,      \* how many of its items have been read
    nodes,     \* the nodes so far
    open       \* previousTable: the node a next table may go on with, or 0

contentVars == <<content, read, nodes, open>>

NoTable == [width |-> 0]

ContentInit == read = 0 /\ nodes = <<>> /\ open = 0   \* content is any list

-----------------------------------------------------------------------------
(* The items                                                                 *)

\* Characters that separate; every other one is a letter, 0 in an item's text.
Stop == 1
Gap == 2
Line == 3
Par == 4
IsLetter(ch) == ch > Par

Letter(i, k) == ItemSize * i + k
ItemOf(letter) == letter \div ItemSize
Text(i) == [k \in DOMAIN content[i].text |->
               IF content[i].text[k] = 0 THEN Letter(i, k) ELSE content[i].text[k]]

Decorations == {"header", "page_number"}

\* shouldPromoteDocumentHeader: a header of the first page that is on no other.
Promoted(i) ==
    /\ content[i].kind = "header" /\ content[i].page = 1
    /\ \A j \in DOMAIN content \ {i} :
          content[j].kind = "header" => content[j].label # content[i].label

\* normalizeHtmlTable: a first row of th cells is the header; without one the
\* first of several rows is taken for it, whatever it is.  head is the text of
\* the first row (0: it is a row of data), first the number the data starts with.
Row(i, k) ==
    LET s == content[i]
        data == IF s.head = 0 THEN k ELSE k - 1
    IN  [letter |-> Letter(i, k),
         number |-> IF s.first = 0 \/ data = 0 \/ (s.total /\ k = s.rows)
                    THEN 0 ELSE s.first + data - 1]

HeaderRows(i) == IF content[i].explicit \/ content[i].rows > 1 THEN 1 ELSE 0

Columns(i) ==   \* the names of the columns, as one number
    CASE HeaderRows(i) = 0 -> 0                      \* Column 1, Column 2
      [] content[i].head # 0 -> content[i].head
      [] OTHER -> Letter(i, 1)

Table(i) ==
    LET s == content[i]
        last == IF s.total /\ s.rows > HeaderRows(i) THEN s.rows - 1 ELSE s.rows
    IN  [columns  |-> Columns(i),
         explicit |-> s.explicit,
         inferred |-> ~s.explicit /\ HeaderRows(i) = 1,
         header   |-> [k \in 1 .. HeaderRows(i) |-> Row(i, k)],
         rows     |-> [k \in 1 .. last - HeaderRows(i) |-> Row(i, k + HeaderRows(i))],
         summary  |-> [k \in 1 .. s.rows - last |-> Row(i, k + last)],
         width    |-> s.width, source |-> s.source, caption |-> s.caption]

Letters(rows) == [k \in DOMAIN rows |-> rows[k].letter]

Node(i, type, level, text, table) ==
    [type |-> type, level |-> level, path |-> <<>>, id |-> i, order |-> i,
     first |-> content[i].page, last |-> content[i].page, text |-> text, table |-> table]

TableNode(i) ==
    LET t == Table(i)
        names == IF t.inferred THEN Letters(t.header) ELSE <<>>
    IN  Node(i, "table", 0, names \o Letters(t.rows) \o Letters(t.summary), t)

-----------------------------------------------------------------------------
(* A table that goes on                                                      *)

\* A first row taken for the header although the table has its names: data.
InferredHeaderIsData(p, t) == t.inferred /\ t.columns # p.columns

FirstRow(p, t) == IF InferredHeaderIsData(p, t) THEN t.header ELSE t.rows

NumberedOn(p, t) ==   \* hasSequentialLeadingNumber
    /\ p.rows # <<>> /\ FirstRow(p, t) # <<>>
    /\ Last(p.rows).number # 0
    /\ Head(FirstRow(p, t)).number = Last(p.rows).number + 1

Continues(node, i) ==   \* isTableContinuation
    LET p == node.table
        t == Table(i)
        s == content[i]
        same == p.columns = t.columns
        oneCaption == p.caption # 0 /\ p.caption = t.caption
    IN  /\ s.page = node.last + 1
        /\ p.width = t.width
        /\ p.explicit /\ t.explicit => same
        /\ p.source # 0 /\ t.source # 0 /\ p.source # t.source => same /\ NumberedOn(p, t)
        /\ \/ p.source # 0 /\ t.source # 0
           \/ /\ p.caption # 0 /\ t.caption # 0 => oneCaption
              /\ \/ s.continued                        \* a flag or a mark in the caption
                 \/ ~s.paged /\ \/ same /\ NumberedOn(p, t)
                                \/ ~t.explicit /\ (oneCaption \/ NumberedOn(p, t))
                                \/ p.explicit /\ t.explicit /\ same

Joined(node, i) ==   \* mergeTableContinuation
    LET p == node.table
        t == Table(i)
        incoming == (IF InferredHeaderIsData(p, t) THEN t.header ELSE <<>>) \o t.rows
    IN  [node EXCEPT !.last = content[i].page,
                     !.table = [p EXCEPT !.rows = @ \o incoming, !.summary = @ \o t.summary],
                     !.text = @ \o Letters(incoming) \o Letters(t.summary)]

MayExtend(node, i) ==   \* canExtendEmptyContinuation
    /\ content[i].page = node.last + 1
    /\ node.table.source # 0 /\ content[i].source # 0 => node.table.source = content[i].source

-----------------------------------------------------------------------------
(* contentListToNodes, one item after another                                *)

Item == read + 1
At(kinds) == read < Len(content) /\ content[Item].kind \in kinds
Unread == UNCHANGED content /\ read' = Item

SkipDecoration ==
    /\ At(Decorations) /\ ~Promoted(Item)
    /\ Unread /\ UNCHANGED <<nodes, open>>

JoinTable ==
    /\ At({"table"}) /\ content[Item].rows > 0
    /\ open # 0 /\ Continues(nodes[open], Item)
    /\ nodes' = [nodes EXCEPT ![open] = Joined(@, Item)]
    /\ Unread /\ UNCHANGED open

NewTable ==
    /\ At({"table"}) /\ content[Item].rows > 0
    /\ open # 0 => ~Continues(nodes[open], Item)
    /\ nodes' = Append(nodes, TableNode(Item))
    /\ open' = Len(nodes')
    /\ Unread

EmptyTable ==   \* no table body that can be read
    /\ At({"table"}) /\ content[Item].rows = 0
    /\ IF open # 0 /\ MayExtend(nodes[open], Item)
       THEN nodes' = [nodes EXCEPT ![open].last = content[Item].page] /\ UNCHANGED open
       ELSE open' = 0 /\ UNCHANGED nodes
    /\ Unread

\* Any other content closes the table.
MutantCloses == UNCHANGED open   \* mutant: the table stays open
Closes == open' = 0

TypeOf(i) ==
    CASE Promoted(i) -> "heading"
      [] content[i].kind = "image" -> "figure"
      [] content[i].level # 0 -> "heading"
      [] content[i].kind = "code" -> "code"
      [] OTHER -> "paragraph"

OneHeading(p, n) ==   \* canMergeAdjacentHeadings
    /\ p.type = "heading" /\ n.type = "heading"
    /\ p.level = n.level /\ p.first = n.first /\ p.order + 1 = n.order

TakeContent ==
    /\ \/ At({"text", "code", "image"})
       \/ At({"header"}) /\ Promoted(Item)
    /\ LET type == TypeOf(Item)
           level == IF type # "heading" THEN 0
                    ELSE IF content[Item].level = 0 THEN 1 ELSE content[Item].level
           node == Node(Item, type, level, Text(Item), NoTable)
       IN  nodes' = CASE node.text = <<>> /\ type # "figure" -> nodes
                      [] nodes # <<>> /\ OneHeading(Last(nodes), node) ->
                           [nodes EXCEPT ![Len(nodes)].text = @ \o node.text]
                      [] OTHER -> Append(nodes, node)
    /\ Closes /\ Unread

ContentNext == SkipDecoration \/ JoinTable \/ NewTable \/ EmptyTable \/ TakeContent

AllRead == read = Len(content)

-----------------------------------------------------------------------------
(* Properties                                                                *)

TableItems(node) == {ItemOf(node.text[k]) : k \in DOMAIN node.text}

\* Two parts of one table have nothing but page decorations and tables without
\* a body between them, and each starts on the page after the last: a table
\* that ends cannot be taken up again (contentListToNodes, "A -> B -> A").
JoinedInSequence ==
    \A n \in DOMAIN nodes : nodes[n].type = "table" =>
        \A i, j \in TableItems(nodes[n]) : i < j =>
            /\ content[i].page < content[j].page
            /\ \A k \in i + 1 .. j - 1 :
                  \/ content[k].kind \in Decorations /\ ~Promoted(k)
                  \/ /\ content[k].kind = "table"
                     /\ \A m \in DOMAIN nodes \ {n} : k \notin TableItems(nodes[m])
=============================================================================
