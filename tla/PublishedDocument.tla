-------------------------- MODULE PublishedDocument --------------------------
(***************************************************************************)
(* What the lifecycle promises a reader of one document: at any moment at  *)
(* most one version is published; a publication replaces it in one step;   *)
(* a version that was replaced never comes back; and once the document is  *)
(* closed for deletion nothing is published any more, only withdrawn.      *)
(***************************************************************************)
CONSTANTS Versions, None

VARIABLES
    published,      \* the version readers are given, or None
    retired,        \* the versions that were published before
    open            \* FALSE from the acceptance of a delete on

vars == <<published, retired, open>>

Init ==
    /\ published = None
    /\ retired = {}
    /\ open = TRUE

Publish(v) ==
    /\ open
    /\ v \notin retired \cup {published}
    /\ published' = v
    /\ retired' = retired \cup ({published} \ {None})
    /\ UNCHANGED open

Close ==
    /\ open' = FALSE
    /\ UNCHANGED <<published, retired>>

Withdraw ==
    /\ ~open
    /\ published' = None
    /\ retired' = retired \cup ({published} \ {None})
    /\ UNCHANGED open

Next == (\E v \in Versions : Publish(v)) \/ Close \/ Withdraw

Spec == Init /\ [][Next]_vars
=============================================================================
