------------------------------- MODULE Orders -------------------------------
(***************************************************************************)
(* Sequences put in order, as the sorts of JavaScript do it.  A place in a *)
(* sequence is the number of those before it, so that what a sort returns  *)
(* can be reasoned about without an induction over the sort's own steps.   *)
(***************************************************************************)
EXTENDS Integers, Sequences, FiniteSets

\* The members of a set, any two of which `before` puts in an order.
OrderedBy(S, before) ==
    [n \in 1 .. Cardinality(S) |->
        CHOOSE x \in S : Cardinality({y \in S : <<y, x>> \in before}) = n - 1]

\* The numbers of a set, and the members of a sequence at some places, in their order.
InOrder(S) == OrderedBy(S, {pair \in S \X S : pair[1] < pair[2]})
Picked(s, places) == [n \in 1 .. Cardinality(places) |-> s[InOrder(places)[n]]]

\* The pairs of places of which the first has the greater key.
Higher(key) == {pair \in (DOMAIN key) \X (DOMAIN key) : key[pair[1]] > key[pair[2]]}

\* Array.prototype.sort, which keeps the order of what it finds equal.
Sorted(s, above) ==
    LET Rank(i) == 1 + Cardinality({j \in DOMAIN s : <<j, i>> \in above \/ (j < i /\ <<i, j>> \notin above)})
    IN  [n \in DOMAIN s |-> s[CHOOSE i \in DOMAIN s : Rank(i) = n]]

\* slice(0, n)
Prefix(s, n) == SubSeq(s, 1, IF n < Len(s) THEN n ELSE Len(s))
=============================================================================
