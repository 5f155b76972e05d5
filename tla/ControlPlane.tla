----------------------------- MODULE ControlPlane -----------------------------
(***************************************************************************)
(* The loop of the control worker over many jobs: the dispatcher's batch,  *)
(* the quarantine of payloads that do not parse, the reconciler's batch    *)
(* (src/src/worker/dispatcher.ts, job-quarantine.ts, reconciler.ts,        *)
(* control-entry.ts).  What a job does is in the workflow modules; here it *)
(* is queued, runs and ends.  Lists are read once per batch and every      *)
(* candidate then has its awaits, during which jobs move on.  Both ages    *)
(* the loop waits for are five minutes by default.                         *)
(***************************************************************************)
EXTENDS Naturals, FiniteSets, Sequences, SequencesExt

CONSTANTS
    MaxJobs,        \* bound: the jobs, all created before
    DispatchLimit, ReconcileLimit,  \* LIMIT of the two lists
    MaxCancels,     \* bound: jobs cancelled by a command while queued
    Malformed,      \* the jobs whose payload does not parse
    MaxFaults       \* bound: lost workflows, failed calls, dead control workers

ASSUME ControlAssumption ==
    /\ DispatchLimit \in Nat \ {0}
    /\ ReconcileLimit \in Nat \ {0}

VARIABLES
    status,         \* jobs.status
    order,          \* the jobs by coalesce(dispatched_at, created_at)
    dispatched,     \* dispatched_at is set
    old,            \* dispatched_at is older than redispatchAfterMs
    stale,          \* updated_at is older than staleAfterMs
    workflow,       \* the DBOS workflow with the job's id
    at,             \* where the loop is
    batch,          \* candidates left, and whether each was open when listed
    cancels,
    controlFaults

Jobs == 1 .. MaxJobs      \* by created_at

controlVars == <<status, order, dispatched, old, stale, workflow, at, batch,
                 cancels, controlFaults>>

Open == {"queued", "running"}

ControlInit ==
    /\ status = [j \in Jobs |-> "queued"]
    /\ workflow = [j \in Jobs |-> "none"]
    /\ order = [j \in Jobs |-> j] /\ batch = <<>>
    /\ dispatched = {} /\ old = {} /\ stale = {}
    /\ at = "look"
    /\ cancels = 0 /\ controlFaults = 0

Fault == controlFaults < MaxFaults /\ controlFaults' = controlFaults + 1

-----------------------------------------------------------------------------
\* A command, and the passage of time.
CancelQueued(j) ==
    /\ status[j] = "queued"
    /\ cancels < MaxCancels
    /\ cancels' = cancels + 1
    /\ status' = [status EXCEPT ![j] = "cancelled"]
    /\ stale' = stale \ {j}
    /\ UNCHANGED <<order, dispatched, old, workflow, at, batch, controlFaults>>

\* Five minutes without a word on any job that is not touched after.
TimePasses ==
    /\ stale' = {j \in Jobs : status[j] \in Open}
    /\ old' = stale' \cap dispatched
    /\ <<old, stale>>' # <<old, stale>>
    /\ UNCHANGED <<status, order, dispatched, workflow, at, batch, cancels,
                   controlFaults>>

\* DBOS: a workflow starts its job, ends with it, or is given up before.
WorkflowStarts(j) ==
    /\ workflow[j] = "active" /\ status[j] = "queued"
    /\ status' = [status EXCEPT ![j] = "running"]
    /\ stale' = stale \ {j}
    /\ UNCHANGED <<order, dispatched, old, workflow, at, batch, cancels,
                   controlFaults>>

WorkflowEnds(j) ==
    /\ workflow[j] = "active" /\ status[j] # "queued"
    /\ workflow' = [workflow EXCEPT ![j] = "over"]
    /\ status' = [status EXCEPT ![j] = IF @ = "running" THEN "completed" ELSE @]
    /\ stale' = stale \ {j}
    /\ UNCHANGED <<order, dispatched, old, at, batch, cancels, controlFaults>>

WorkflowLost(j) ==
    /\ workflow[j] = "active"
    /\ Fault
    /\ workflow' = [workflow EXCEPT ![j] = "over"]
    /\ UNCHANGED <<status, order, dispatched, old, stale, at, batch, cancels>>

-----------------------------------------------------------------------------
(***************************************************************************)
(* The lists.  A candidate that does not parse is taken out of both for    *)
(* good, by an end and a dispatch time.                                    *)
(***************************************************************************)
Dispatchable(j) == status[j] = "queued" /\ (j \notin dispatched \/ j \in old)

\* Only what was never dispatched is reconciled.
MutantUnreconciled(j) == j \notin dispatched

Unreconciled(j) == j \notin dispatched \/ (status[j] \in Open /\ j \in stale)

First(n, s) == SubSeq(s, 1, IF Len(s) < n THEN Len(s) ELSE n)

Later(js) == SelectSeq(order, LAMBDA j : j \notin js) \o SelectSeq(order, LAMBDA j : j \in js)

Quarantine(js) ==
    /\ status' = [j \in Jobs |-> IF j \in js /\ status[j] # "completed" THEN "dead" ELSE status[j]]
    /\ order' = Later({j \in js \ dispatched : status[j] # "completed"})
    /\ dispatched' = dispatched \cup {j \in js : status[j] # "completed"}

List(candidates, next) ==
    /\ Quarantine(Range(candidates) \cap Malformed)
    /\ batch' = [i \in DOMAIN SelectSeq(candidates, LAMBDA j : j \notin Malformed) |->
                    LET j == SelectSeq(candidates, LAMBDA k : k \notin Malformed)[i]
                    IN  [job |-> j, open |-> status[j] \in Open]]
    /\ at' = next
    /\ UNCHANGED <<old, stale, workflow, cancels, controlFaults>>

DispatchList ==
    /\ at = "look" /\ batch = <<>>
    /\ List(First(DispatchLimit, SelectSeq([j \in Jobs |-> j], Dispatchable)), "enqueue")

ReconcileList ==
    /\ at = "enqueue" /\ batch = <<>>
    /\ List(First(ReconcileLimit, SelectSeq(order, Unreconciled)), "look")

\* dispatchDbosJobs throws, or the process dies: the next tick starts over.
TickFails ==
    /\ Fault
    /\ at' = "look" /\ batch' = <<>>
    /\ UNCHANGED <<status, order, dispatched, old, stale, workflow, cancels>>

-----------------------------------------------------------------------------
Head1 == Head(batch).job
Enqueued(j) == workflow' = [workflow EXCEPT ![j] = IF @ = "none" THEN "active" ELSE @]
NextCandidate(label) == batch' = Tail(batch) /\ at' = label

\* enqueue, then markDispatched; a failure of either leaves the job for later.
Enqueue ==
    /\ at = "enqueue" /\ batch # <<>>
    /\ \/ Enqueued(Head1) /\ at' = "mark" /\ UNCHANGED <<batch, controlFaults>>
       \/ Fault /\ NextCandidate("enqueue") /\ UNCHANGED workflow
    /\ UNCHANGED <<status, order, dispatched, old, stale, cancels>>

MarkDispatched ==
    /\ at = "mark" /\ batch # <<>>
    /\ dispatched' = dispatched \cup {Head1}
    /\ order' = Later({Head1})
    /\ old' = old \ {Head1} /\ stale' = stale \ {Head1}
    /\ NextCandidate("enqueue")
    /\ UNCHANGED <<status, workflow, cancels, controlFaults>>

(***************************************************************************)
(* A candidate of the reconciler: getWorkflowStatus, then markObserved.  A *)
(* job DBOS does not know is started if it was open when listed; one that  *)
(* had ended stays as it is, and a candidate.  If the workflow is over,    *)
(* applyTerminal projects that on a job still open.  The awaits in between *)
(* change nothing: a workflow that is over stays over, and one that is     *)
(* missing is started by this loop only.                                   *)
(***************************************************************************)
Observed ==
    /\ dispatched' = dispatched \cup {Head1}
    /\ order' = IF Head1 \in dispatched THEN order ELSE Later({Head1})
    /\ stale' = stale \ {Head1}

Look ==
    /\ at = "look" /\ batch # <<>>
    /\ NextCandidate("look")
    /\ \/ /\ workflow[Head1] = "none" /\ ~Head(batch).open
          /\ UNCHANGED <<workflow, status, dispatched, order, stale, controlFaults>>
       \/ /\ workflow[Head1] = "none" => Head(batch).open
          /\ workflow[Head1] # "over"
          /\ Enqueued(Head1)
          /\ Observed
          /\ UNCHANGED <<status, controlFaults>>
       \/ /\ workflow[Head1] = "over"
          /\ Observed
          /\ \/ /\ status' = [status EXCEPT ![Head1] = IF @ \in Open THEN "dead" ELSE @]
                /\ UNCHANGED controlFaults
             \/ Fault /\ UNCHANGED status
          /\ UNCHANGED workflow
    /\ UNCHANGED <<old, cancels>>

Loop ==
    \/ DispatchList \/ Enqueue \/ MarkDispatched
    \/ ReconcileList \/ Look

JobMoves(j) ==
    \/ CancelQueued(j)
    \/ WorkflowStarts(j) \/ WorkflowEnds(j) \/ WorkflowLost(j)

ControlNext == Loop \/ TickFails \/ TimePasses \/ \E j \in Jobs : JobMoves(j)

(***************************************************************************)
(* The control worker ticks on, time passes, and DBOS runs what it has.    *)
(***************************************************************************)
ControlFairness ==
    /\ WF_controlVars(Loop)
    /\ WF_controlVars(TimePasses)
    /\ \A j \in Jobs : WF_controlVars(WorkflowStarts(j) \/ WorkflowEnds(j))

ControlSpec == ControlInit /\ [][ControlNext]_controlVars /\ ControlFairness

-----------------------------------------------------------------------------
(***************************************************************************)
(* Every job ends, unless DBOS gives up its workflow before it has begun:  *)
(* whatever fails between an enqueue and its marker, whichever workflow is *)
(* lost while it runs, no payload that does not parse and no job cancelled *)
(* too early keeps the others out of the batches, as long as fewer jobs    *)
(* than the reconciler's LIMIT were cancelled before their dispatch.       *)
(***************************************************************************)
JobsEnd ==
    <>(\A j \in Jobs : status[j] \notin Open \/ (status[j] = "queued" /\ workflow[j] = "over"))

(***************************************************************************)
(* What docs/adr/0005-typescript-core-runtime.md:473 says of every job, a  *)
(* queued one included: no terminal workflow is missing in its job.        *)
(***************************************************************************)
LostIsRepaired ==
    \A j \in Jobs : workflow[j] = "over" /\ status[j] \in Open ~> status[j] \notin Open
=============================================================================
