------------------------------ MODULE MCServices ------------------------------
(***************************************************************************)
(* The services around the document's lifecycle on small instances, one    *)
(* after another: the loop of the control worker, the life of a library,   *)
(* the alerts of a workspace, the gate with nobody but its callers, the    *)
(* originals of a document, and the account of a user.                     *)
(* A behaviour belongs to one part; the variables of the others keep their *)
(* values, and the fairness of a module counts in its own part only.       *)
(***************************************************************************)
EXTENDS ControlPlane, LibraryDeletion, Alerting, SourceObjects, Accounts, TLC

CONSTANTS
    c1, c2, c3,     \* the callers of the gate
    pw1             \* a password

VARIABLES
    part,
    active, waiting, holding, aborted

Gate == INSTANCE AskGate WITH Callers <- {c1, c2, c3}, Limit <- 1, MaxQueue <- 2

lineVars == <<active, waiting, holding, aborted>>

serviceVars == <<controlVars, libraryVars, alertVars, lineVars>>
requestVars == <<sourceVars, accountVars>>

MCVars == <<part, serviceVars, requestVars>>

\* Where the loop is not looked at, its jobs are over.
AllDone ==
    /\ status = [j \in Jobs |-> "completed"] /\ workflow = [j \in Jobs |-> "over"]
    /\ order = [j \in Jobs |-> j] /\ batch = <<>> /\ at = "look"
    /\ dispatched = Jobs /\ old = {} /\ stale = {}
    /\ cancels = 0 /\ controlFaults = 0

MCInit ==
    /\ part \in {"control", "library", "alerts", "gate", "sources", "account"}
    /\ LibraryInit /\ AlertInit /\ Gate!GateInit
    /\ part # "library" => threads
    /\ IF part = "control" THEN ControlInit ELSE AllDone
    /\ SourceInit /\ AccountInit
    /\ part # "sources" => driver = "local"
    /\ part # "account" => failed = 0 /\ role["user"] = "none" /\ credential.password = pw1

MCNext ==
    /\ UNCHANGED part
    /\ \/ /\ \/ part = "control" /\ ControlNext /\ UNCHANGED <<libraryVars, alertVars, lineVars>>
             \/ part = "library" /\ LibraryNext /\ UNCHANGED <<controlVars, alertVars, lineVars>>
             \/ part = "alerts" /\ AlertNext /\ UNCHANGED <<controlVars, libraryVars, lineVars>>
             \/ part = "gate" /\ Gate!GateNext /\ UNCHANGED <<controlVars, libraryVars, alertVars>>
          /\ UNCHANGED requestVars
       \/ /\ \/ part = "sources" /\ SourceNext /\ UNCHANGED accountVars
             \/ part = "account" /\ AccountNext /\ UNCHANGED sourceVars
          /\ UNCHANGED serviceVars

\* The fairness of each module, in its part.
MCSpec ==
    /\ MCInit /\ [][MCNext]_MCVars
    /\ WF_controlVars(part = "control" /\ Loop)
    /\ WF_controlVars(part = "control" /\ TimePasses)
    /\ \A j \in Jobs :
          WF_controlVars(part = "control" /\ (WorkflowStarts(j) \/ WorkflowEnds(j)))
    /\ \A d \in Docs : WF_libraryVars(part = "library" /\ DeleteStep(d))
    /\ WF_alertVars(part = "alerts" /\ Deliver)
    /\ WF_alertVars(part = "alerts" /\ \E i \in DOMAIN deliveries : LeaseExpires(i))
    /\ \A c \in {c1, c2, c3} : WF_lineVars(part = "gate" /\ Gate!Release(c))

\* WaitEnds of AskGate, for one of three callers that are alike.
WaitingEnds == Gate!WaitEnds(c1)
=============================================================================
