--------------------------- MODULE DocumentChunks ---------------------------
(***************************************************************************)
(* chunkDocument: the nodes of a document are gathered in sections, and    *)
(* the text of a section is cut into pieces with an overlap.  Tables, code *)
(* and figures are chunks of their own, before the text of their section.  *)
(* The worker gives no embedder, so no text is split semantically.         *)
(*                                                                         *)
(* Lengths are in letters and scaled down; 0 is null for a page or a path. *)
(***************************************************************************)
EXTENDS TextNodes

CONSTANTS
    Target, Maximum, Overlap,   \* targetChars, maxChars, overlapChars
    BoundaryLevel               \* headingBoundaryLevel

ASSUME ChunkAssumption ==
    /\ {Target, Maximum, Overlap, BoundaryLevel} \subseteq Nat
    /\ 0 < Target /\ Target <= Maximum /\ Overlap < Target

VARIABLES
    at,         \* how many nodes have been gathered
    section,    \* the section being gathered
    sections,   \* the sections done
    chunks      \* the chunks, <<>> until every section is there

chunkVars == <<at, section, sections, chunks>>

Separators == <<Par, Line, Stop, Gap>>

NoSection == [path |-> <<>>, parts |-> <<>>, ids |-> <<>>, special |-> <<>>,
              first |-> 0, last |-> 0, page |-> FALSE]

ChunkInit ==
    /\ at = 0 /\ section = NoSection
    /\ sections = <<>> /\ chunks = <<>>

-----------------------------------------------------------------------------
(* Text                                                                      *)

Spaces == {Gap, Line, Par}
Blank(text) == \A k \in DOMAIN text : text[k] \in Spaces
Trim(text) ==
    IF Blank(text) THEN <<>>
    ELSE LET kept == {k \in DOMAIN text : text[k] \notin Spaces}
         IN  SubSeq(text, Min(kept), Max(kept))

Join(texts) == FoldLeft(LAMBDA all, t : IF all = <<>> THEN t ELSE all \o <<Par>> \o t, <<>>, texts)

Least(a, b) == IF a = 0 \/ b < a THEN b ELSE a
Most(a, b) == IF b > a THEN b ELSE a

\* The text cut after each separator; a separator on its own is dropped.
CutAfter(text, separator) ==
    LET Step(cut, ch) == IF ch = separator
                         THEN [done |-> Append(cut.done, Append(cut.rest, ch)), rest |-> <<>>]
                         ELSE [cut EXCEPT !.rest = Append(@, ch)]
        cut == FoldLeft(Step, [done |-> <<>>, rest |-> <<>>], text)
    IN  SelectSeq(cut.done, LAMBDA p : Len(p) > 1) \o <<cut.rest>>

RECURSIVE SplitBySeparators(_, _)
SplitBySeparators(text, separators) ==
    IF separators = <<>> THEN <<text>>
    ELSE IF \A k \in DOMAIN text : text[k] # Head(separators)
    THEN SplitBySeparators(text, Tail(separators))
    ELSE LET pieces == CutAfter(text, Head(separators))
         IN  FlattenSeq([k \in DOMAIN pieces |->
                 IF Len(pieces[k]) > Target THEN SplitBySeparators(pieces[k], Tail(separators))
                 ELSE IF Blank(pieces[k]) THEN <<>> ELSE <<pieces[k]>>])

CharWindow(text) ==
    LET step == Most(1, Target - Overlap)
        windows == 1 + Most(0, (Len(text) - Target + step - 1) \div step)
        window == [w \in 1 .. windows |->
                      Trim(SubSeq(text, (w - 1) * step + 1,
                                  Len(text) - Most(0, Len(text) - (w - 1) * step - Target)))]
    IN  SelectSeq(window, LAMBDA p : p # <<>>)

NonBlank(text) == IF Blank(text) THEN <<>> ELSE <<Trim(text)>>

\* recursiveSplit without its overlap: parts are packed as long as they fit.
MutantPacked(parts) ==   \* mutant: a part that is too long pushes out the buffer
    LET Step(pack, part) ==
            IF Len(pack.buffer \o part) <= Target THEN [pack EXCEPT !.buffer = @ \o part]
            ELSE IF Len(part) <= Target
                 THEN [done |-> pack.done \o NonBlank(pack.buffer), buffer |-> part]
                 ELSE [done |-> pack.done \o CharWindow(part), buffer |-> <<>>]
        pack == FoldLeft(Step, [done |-> <<>>, buffer |-> <<>>], parts)
    IN  pack.done \o NonBlank(pack.buffer)
Packed(parts) ==
    LET Step(pack, part) ==
            IF Len(pack.buffer \o part) <= Target THEN [pack EXCEPT !.buffer = @ \o part]
            ELSE LET done == pack.done \o NonBlank(pack.buffer)
                 IN  IF Len(part) <= Target THEN [done |-> done, buffer |-> part]
                     ELSE [done |-> done \o CharWindow(part), buffer |-> <<>>]
        pack == FoldLeft(Step, [done |-> <<>>, buffer |-> <<>>], parts)
    IN  pack.done \o NonBlank(pack.buffer)

\* Each piece starts with the end of the one before it.
Overlapped(pieces) ==
    [k \in DOMAIN pieces |->
        IF k = 1 THEN pieces[k]
        ELSE LET before == pieces[k - 1]
                 prefix == SubSeq(before, Most(0, Len(before) - Overlap) + 1, Len(before))
                 whole == IF IsPrefix(prefix, pieces[k]) THEN pieces[k] ELSE prefix \o pieces[k]
                 piece == Trim(SubSeq(whole, 1, Len(whole) - Most(0, Len(whole) - Target - Overlap)))
             IN  IF piece = <<>> THEN pieces[k] ELSE piece]

RecursiveSplit(text) ==
    IF Len(text) <= Target THEN <<text>>
    ELSE LET merged == Packed(SplitBySeparators(text, Separators))
         IN  IF Len(merged) <= 1 \/ Overlap = 0 THEN merged ELSE Overlapped(merged)

-----------------------------------------------------------------------------
(* splitIntoSections                                                         *)

IsEmpty(s) == s.parts = <<>> /\ s.special = <<>>

\* flush: a section without text and special nodes is not closed, and what it
\* has gathered stays with the next one.
Flushed ==
    IF IsEmpty(section) THEN [sections |-> sections, section |-> section]
    ELSE [sections |-> Append(sections, section),
          section |-> [NoSection EXCEPT !.path = section.path]]

Gathering(types) == Gathered /\ at < Len(nodes) /\ nodes[at + 1].type \in types
Gather(s) == section' = s /\ at' = at + 1 /\ UNCHANGED chunks

Starting(node) ==   \* a heading or a page starts a section
    [Flushed.section EXCEPT !.path = node.path, !.ids = Append(@, node.id),
                            !.first = node.first, !.last = node.last]

OnHeading ==
    /\ Gathering({"heading"})
    /\ LET node == nodes[at + 1]
       IN  Gather([Starting(node) EXCEPT
                      !.parts = IF node.level > BoundaryLevel /\ node.text # <<>>
                                THEN Append(@, node.text) ELSE @])
    /\ sections' = Flushed.sections

OnPage ==
    /\ Gathering({"page"})
    /\ LET node == nodes[at + 1]
       IN  Gather([Starting(node) EXCEPT !.page = TRUE, !.parts = @ \o NonBlank(node.text)])
    /\ sections' = Flushed.sections

Extended(s, node) ==   \* extendPages
    IF node.first = 0 THEN s
    ELSE [s EXCEPT !.first = Least(@, node.first), !.last = Most(@, node.last)]

OnSpecial ==
    /\ Gathering({"table", "code", "figure"})
    /\ LET node == nodes[at + 1]
       IN  Gather(Extended([section EXCEPT !.special = Append(@, node),
                                           !.ids = Append(@, node.id)], node))
    /\ UNCHANGED sections

OnText ==
    /\ Gathering({"paragraph", "list"})
    /\ LET node == nodes[at + 1]
       IN  Gather(IF Blank(node.text) THEN section
                  ELSE Extended([section EXCEPT !.parts = Append(@, Trim(node.text)),
                                                !.ids = Append(@, node.id)], node))
    /\ UNCHANGED sections

-----------------------------------------------------------------------------
(* The chunks                                                                *)

Body(s) == Trim(Join(s.parts))

Pieces(s) ==
    IF s.page /\ Len(Body(s)) <= Maximum THEN <<Body(s)>>
    ELSE LET split == RecursiveSplit(Body(s))
         IN  IF split = <<>> THEN CharWindow(Body(s)) ELSE split   \* only separators

Chunk(s, body, ids, first, last, node) ==
    [body |-> body, path |-> s.path, ids |-> ids,
     first |-> first, last |-> last, node |-> node]

NoNode == [type |-> "text", table |-> NoTable]

ChunksOf(s) ==
    LET special == SelectSeq(s.special, LAMBDA n : ~Blank(n.text))
        pieces == IF Blank(Body(s)) THEN <<>> ELSE Pieces(s)
    IN  [k \in DOMAIN special |->
            LET n == special[k]
            IN  Chunk(s, Trim(n.text), <<n.id>>, IF n.first = 0 THEN s.first ELSE n.first,
                      IF n.first = 0 THEN s.last ELSE n.last, n)]
        \o [k \in DOMAIN pieces |-> Chunk(s, pieces[k], s.ids, s.first, s.last, NoNode)]

EndOfNodes ==
    /\ Gathered /\ at = Len(nodes) /\ nodes # <<>>
    /\ sections' = Flushed.sections
    /\ chunks' = FlattenSeq([k \in DOMAIN sections' |-> ChunksOf(sections'[k])])
    /\ at' = at + 1
    /\ UNCHANGED section

ChunkNext == OnHeading \/ OnPage \/ OnSpecial \/ OnText \/ EndOfNodes
=============================================================================
