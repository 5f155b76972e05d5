------------------------------ MODULE TextNodes ------------------------------
(***************************************************************************)
(* The readers without an external service: parseTextDocument reads lines, *)
(* parseDocxDocument elements, and normalizeLiteParseResult pages or their *)
(* items.  Headings give the nodes under them a path.                      *)
(***************************************************************************)
EXTENDS ContentNodes

VARIABLES
    headings,   \* the titles above, 0 for a level that was left out
    pending     \* the lines of a node that may go on

textVars == <<headings, pending>>

NoLines == [type |-> "none", path |-> <<>>, text |-> <<>>]

TextInit == headings = <<>> /\ pending = NoLines

-----------------------------------------------------------------------------

\* headings.splice(level - 1); headings[level - 1] = title
Under(i) ==
    [k \in 1 .. content[i].level |->
        IF k = content[i].level THEN content[i].label
        ELSE IF k \in DOMAIN headings THEN headings[k] ELSE 0]

Path(titles) == SelectSeq(titles, LAMBDA t : t # 0)

TextNode(before, type, level, path, page, text, table) ==
    [type |-> type, level |-> level, path |-> path, id |-> Len(before) + 1,
     order |-> Len(before) + 1, first |-> page, last |-> page, text |-> text, table |-> table]

Add(before, type, level, path, page, text) ==
    Append(before, TextNode(before, type, level, path, page, text, NoTable))

\* flush; a level that was left out keeps its place in the path of the lines.
Ended == IF pending = NoLines THEN nodes
         ELSE Add(nodes, pending.type, 0, pending.path, 0, pending.text)

HeadingLine ==
    /\ At({"heading_line"})
    /\ nodes' = Add(Ended, "heading", content[Item].level, Path(Under(Item)), 0, Text(Item))
    /\ headings' = Under(Item) /\ pending' = NoLines
    /\ Unread

BlankLine ==
    /\ At({"blank_line"})
    /\ nodes' = Ended /\ pending' = NoLines
    /\ Unread /\ UNCHANGED headings

\* Lines of one kind under one heading are one node.
TextLine ==
    /\ At({"text_line", "list_line"})
    /\ LET type == IF content[Item].kind = "list_line" THEN "list" ELSE "paragraph"
           goesOn == pending.type = type /\ pending.path = headings
       IN  /\ nodes' = IF goesOn THEN nodes ELSE Ended
           /\ pending' = [type |-> type, path |-> headings,
                          text |-> IF goesOn THEN pending.text \o <<Line>> \o Text(Item)
                                   ELSE Text(Item)]
    /\ Unread /\ UNCHANGED headings

EndOfText ==
    /\ read = Len(content) /\ pending # NoLines
    /\ nodes' = Ended /\ pending' = NoLines
    /\ UNCHANGED <<content, read, headings>>

-----------------------------------------------------------------------------
(* Elements and pages                                                        *)

Element ==
    /\ At({"h", "p", "list"})
    /\ LET type == CASE content[Item].kind = "h" -> "heading"
                     [] content[Item].kind = "p" -> "paragraph"
                     [] OTHER -> "list"
           under == IF type = "heading" THEN Under(Item) ELSE headings
       IN  IF Text(Item) = <<>> THEN UNCHANGED <<nodes, headings>>
           ELSE /\ headings' = under
                /\ nodes' = Add(nodes, type, content[Item].level, Path(under), 0, Text(Item))
    /\ Unread /\ UNCHANGED pending

TableElement ==
    /\ At({"table_element"})
    /\ nodes' = IF content[Item].rows = 0 THEN nodes
                ELSE Append(nodes, TextNode(nodes, "table", 0, Path(headings), 0,
                                            TableNode(Item).text, Table(Item)))
    /\ Unread /\ UNCHANGED <<headings, pending>>

\* A page is one node only if it has no items.
PageOrItem ==
    /\ At({"page", "item"})
    /\ LET type == IF content[Item].kind = "page" THEN "page" ELSE "paragraph"
       IN  nodes' = IF Text(Item) = <<>> THEN nodes
                    ELSE Add(nodes, type, 0, <<>>, content[Item].page, Text(Item))
    /\ Unread /\ UNCHANGED <<headings, pending>>

TextNext ==
    \/ HeadingLine \/ BlankLine \/ TextLine \/ EndOfText
    \/ Element \/ TableElement \/ PageOrItem

\* Every item is in a node.
Gathered == AllRead /\ pending = NoLines
=============================================================================
