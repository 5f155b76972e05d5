------------------------------ MODULE AskAccess ------------------------------
(***************************************************************************)
(* What the asking identity may draw on while its ask runs, and the check  *)
(* that every ask repeats (src/src/server/http/ask/                        *)
(* authorization-checkpoint.ts; DrizzleHistoricalCitationAuthorizer of     *)
(* conversation-handler.ts).  A source is one published version of one     *)
(* document: publishing the next version makes it superseded, an ACL       *)
(* change or a delete takes it out of reach.                               *)
(***************************************************************************)
EXTENDS Naturals, FiniteSets

CONSTANTS
    Sources,        \* the document versions an answer may cite
    MaxChanges      \* bound: the changes of access in a behaviour

VARIABLES
    granted,        \* sources the identity may read
    current,        \* sources that are their document's active version
    member,         \* the identity is unchanged and resolves the library
    changes         \* how many changes happened

accessVars == <<granted, current, member, changes>>

AccessInit ==
    /\ granted = Sources
    /\ current = Sources
    /\ member = TRUE
    /\ changes = 0

Change == changes < MaxChanges /\ changes' = changes + 1

Revoke(s) ==
    /\ Change
    /\ s \in granted
    /\ granted' = granted \ {s}
    /\ UNCHANGED <<current, member>>

Grant(s) ==
    /\ Change
    /\ s \notin granted
    /\ granted' = granted \cup {s}
    /\ UNCHANGED <<current, member>>

Supersede(s) ==
    /\ Change
    /\ s \in current
    /\ current' = current \ {s}
    /\ UNCHANGED <<granted, member>>

LeaveLibrary ==
    /\ Change
    /\ member
    /\ member' = FALSE
    /\ UNCHANGED <<granted, current>>

(***************************************************************************)
(* The two policies of filterAuthorized, and check(citations): sources met *)
(* for the first time must be active, those this ask was admitted with     *)
(* before may have been superseded since.                                  *)
(***************************************************************************)
Active == granted \cap current

\* What was admitted once is not looked at again.
MutantPermitted(cited, admitted) == member /\ cited \ admitted \subseteq Active

Permitted(cited, admitted) ==
    /\ member
    /\ cited \ admitted \subseteq Active
    /\ cited \cap admitted \subseteq granted
=============================================================================
