------------------------------- MODULE Alerting -------------------------------
(***************************************************************************)
(* One alert of a workspace, its transitions and their deliveries          *)
(* (src/src/server/observability/alerting.ts, control-cycle.ts).  The      *)
(* evaluation of a workspace is one transaction over its locked rows; the  *)
(* deliveries are claimed one by one, by any number of control workers,    *)
(* sent without a transaction, and written back under the lease of the     *)
(* claim.  One destination.  A lease is told by its attempt, which every   *)
(* claim counts up.  Backoff times are not measured.                       *)
(***************************************************************************)
EXTENDS Naturals, FiniteSets, Sequences

CONSTANTS
    Workers,            \* the control workers
    RecoveryCycles,     \* policy.recoveryCycles
    MaxAttempts,        \* max_attempts of a delivery
    MaxTransitions,     \* bound: transitions of the alert
    MaxLate             \* bound: workers that die or outlive their lease

ASSUME AlertAssumption == RecoveryCycles \in Nat \ {0} /\ MaxAttempts \in Nat \ {0}

VARIABLES
    alert,              \* the row: status, severity, generation, healthy cycles
    transitions,        \* the transition rows, in order
    deliveries,         \* their deliveries: status, attempt, expired lease
    sending,            \* what a worker has claimed, and the outcome if it is known
    late                \* how often a worker was late so far

alertVars == <<alert, transitions, deliveries, sending, late>>

Nothing == [delivery |-> 0, attempt |-> 0, outcome |-> "none"]
DeliveryEnded == {"sent", "dead"}

AlertInit ==
    /\ alert = [status |-> "none", severity |-> "warning", generation |-> 0, healthy |-> 0]
    /\ transitions = <<>> /\ deliveries = <<>>
    /\ sending = [w \in Workers |-> Nothing]
    /\ late = 0

-----------------------------------------------------------------------------
(***************************************************************************)
(* createTransition: ON CONFLICT (alert, generation, transition) DO        *)
(* NOTHING; a transition that is there already is not delivered again.     *)
(***************************************************************************)
CreateTransition(kind, severity, generation) ==
    IF \E i \in DOMAIN transitions :
           transitions[i].kind = kind /\ transitions[i].generation = generation
    THEN UNCHANGED <<transitions, deliveries>>
    ELSE /\ transitions' = Append(transitions,
                [kind |-> kind, severity |-> severity, generation |-> generation])
         /\ deliveries' = Append(deliveries,
                [status |-> "pending", attempt |-> 0, expired |-> FALSE])

\* An alert that comes back keeps its generation.
MutantOpens(severity) ==
    /\ alert.status # "active"
    /\ alert' = [status |-> "active", severity |-> severity, generation |-> 1, healthy |-> 0]
    /\ CreateTransition("opened", severity, 1)

\* The alert opens for the first time, or again in a generation of its own.
Opens(severity) ==
    /\ alert.status # "active"
    /\ alert' = [status |-> "active", severity |-> severity,
                 generation |-> alert.generation + 1, healthy |-> 0]
    /\ CreateTransition(IF alert.status = "none" THEN "opened" ELSE "reopened",
                        severity, alert.generation + 1)

\* The signal of an active alert: its severity only rises.
Observes(severity) ==
    /\ alert.status = "active"
    /\ LET escalated == severity = "critical" /\ alert.severity = "warning"
       IN /\ alert' = [alert EXCEPT !.severity = IF escalated THEN severity ELSE @, !.healthy = 0]
          /\ IF escalated THEN CreateTransition("escalated", severity, alert.generation)
                          ELSE UNCHANGED <<transitions, deliveries>>

\* A cycle without the signal; the last of enough in a row resolves the alert.
Recovers ==
    /\ alert.status = "active"
    /\ IF alert.healthy + 1 < RecoveryCycles
       THEN /\ alert' = [alert EXCEPT !.healthy = @ + 1]
            /\ UNCHANGED <<transitions, deliveries>>
       ELSE /\ alert' = [alert EXCEPT !.healthy = @ + 1, !.status = "resolved"]
            /\ CreateTransition("resolved", alert.severity, alert.generation)

Evaluate ==
    /\ Len(transitions) < MaxTransitions
    /\ \/ \E severity \in {"warning", "critical"} : Opens(severity) \/ Observes(severity)
       \/ Recovers
    /\ UNCHANGED <<sending, late>>

-----------------------------------------------------------------------------
(***************************************************************************)
(* claimAlertDeliveries: what is due, and what another worker has claimed  *)
(* and not written back before its lease expired.                          *)
(***************************************************************************)
\* Expired leases are left out.
MutantClaimable(i) == deliveries[i].status \in {"pending", "retry"}

Claimable(i) ==
    \/ deliveries[i].status \in {"pending", "retry"}
    \/ deliveries[i].status = "sending" /\ deliveries[i].expired

Claim(w) ==
    /\ sending[w] = Nothing
    /\ \E i \in DOMAIN deliveries :
          /\ Claimable(i)
          /\ deliveries' = [deliveries EXCEPT ![i] =
                [status |-> "sending", attempt |-> @.attempt + 1, expired |-> FALSE]]
          /\ sending' = [sending EXCEPT ![w] =
                [delivery |-> i, attempt |-> deliveries[i].attempt + 1, outcome |-> "none"]]
    /\ UNCHANGED <<alert, transitions, late>>

\* The receiver answers, or does not in time.
Answered(w) ==
    /\ sending[w] # Nothing /\ sending[w].outcome = "none"
    /\ \E outcome \in {"ok", "retryable", "permanent"} :
          sending' = [sending EXCEPT ![w].outcome = outcome]
    /\ UNCHANGED <<alert, transitions, deliveries, late>>

(***************************************************************************)
(* The write back counts only under the lease of the claim.                *)
(***************************************************************************)
Outcome(s) ==
    CASE s.outcome = "ok" -> "sent"
      [] s.outcome = "retryable" /\ s.attempt < MaxAttempts -> "retry"
      [] OTHER -> "dead"

\* The write back goes by the id of the delivery alone.
MutantLeased(s) == TRUE

Leased(s) ==
    /\ deliveries[s.delivery].status = "sending"
    /\ deliveries[s.delivery].attempt = s.attempt

Record(w) ==
    /\ sending[w].outcome # "none"
    /\ deliveries' = IF Leased(sending[w])
                     THEN [deliveries EXCEPT ![sending[w].delivery] =
                              [@ EXCEPT !.status = Outcome(sending[w]), !.expired = FALSE]]
                     ELSE deliveries
    /\ sending' = [sending EXCEPT ![w] = Nothing]
    /\ UNCHANGED <<alert, transitions, late>>

(***************************************************************************)
(* A lease expires: of a worker that died, or of one that is too slow.     *)
(***************************************************************************)
WorkerDies(w) ==
    /\ sending[w] # Nothing
    /\ late < MaxLate /\ late' = late + 1
    /\ sending' = [sending EXCEPT ![w] = Nothing]
    /\ UNCHANGED <<alert, transitions, deliveries>>

LeaseExpires(i) ==
    /\ deliveries[i].status = "sending" /\ ~deliveries[i].expired
    /\ IF \E w \in Workers : sending[w].delivery = i /\ Leased(sending[w])
       THEN late < MaxLate /\ late' = late + 1
       ELSE UNCHANGED late
    /\ deliveries' = [deliveries EXCEPT ![i].expired = TRUE]
    /\ UNCHANGED <<alert, transitions, sending>>

AlertNext ==
    \/ Evaluate
    \/ \E w \in Workers : Claim(w) \/ Answered(w) \/ Record(w) \/ WorkerDies(w)
    \/ \E i \in DOMAIN deliveries : LeaseExpires(i)

(***************************************************************************)
(* The control loop claims and delivers on; a request has its deadline.    *)
(***************************************************************************)
Deliver == \E w \in Workers : Claim(w) \/ Answered(w) \/ Record(w)

AlertFairness ==
    /\ WF_alertVars(Deliver)
    /\ WF_alertVars(\E i \in DOMAIN deliveries : LeaseExpires(i))

AlertSpec == AlertInit /\ [][AlertNext]_alertVars /\ AlertFairness

-----------------------------------------------------------------------------
(***************************************************************************)
(* The last transition on record, which the receivers are told, is what    *)
(* the alert is now: its generation, its severity, whether it is over.  No *)
(* opening, escalation or end is swallowed as one already recorded.        *)
(***************************************************************************)
AlertAnnounced ==
    alert.status # "none" =>
        LET last == transitions[Len(transitions)]
        IN  /\ last.generation = alert.generation
            /\ last.severity = alert.severity
            /\ last.kind = "resolved" <=> alert.status = "resolved"

(***************************************************************************)
(* A delivery that ended stays as it ended: a worker that comes back after *)
(* its lease does not undo or repeat what another one has settled.         *)
(***************************************************************************)
DeliveriesEndOnce ==
    [][\A i \in DOMAIN deliveries :
          deliveries[i].status \in DeliveryEnded => deliveries'[i] = deliveries[i]]_alertVars

(***************************************************************************)
(* Every transition is delivered or given up, although the worker that     *)
(* claims it may die or answer late.                                       *)
(***************************************************************************)
DeliveriesEnd ==
    \A i \in 1 .. MaxTransitions :
        i \in DOMAIN deliveries ~>
            i \in DOMAIN deliveries /\ deliveries[i].status \in DeliveryEnded
=============================================================================
