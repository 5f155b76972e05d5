------------------------------- MODULE AskRuns -------------------------------
(***************************************************************************)
(* The ask_runs rows: one per ask, written by the handler that serves it   *)
(* and, when that handler is gone, by the maintenance of the control       *)
(* worker (src/src/server/observability/ask-runs-repository.ts,            *)
(* ask-runs-maintenance.ts).  Every write fails soft: the ask goes on and  *)
(* the row keeps its value.                                                *)
(***************************************************************************)
EXTENDS Naturals, FiniteSets

CONSTANTS
    Runs,           \* the asks, one row each
    StaleStatus,    \* what maintenance makes of a stale row (staleStatus)
    SweepLimit      \* rows per maintenance batch (limit)

ASSUME RunsAssumption ==
    /\ StaleStatus \in {"failed", "cancelled"}
    /\ SweepLimit \in Nat \ {0}

VARIABLES
    run,            \* the row of an ask
    swept           \* history variable: the rows maintenance ended

runVars == <<run, swept>>

EndedStatus == {"completed", "refused", "failed", "cancelled"}

RunsInit ==
    /\ run = [r \in Runs |-> "none"]
    /\ swept = {}

InsertRun(r) == run' = [run EXCEPT ![r] = "running"]

(***************************************************************************)
(* UPDATE ... WHERE status = 'running': a row that ended keeps its status. *)
(***************************************************************************)
\* The row is updated by its id alone.
MutantFinalizeRun(r, status) == run' = [run EXCEPT ![r] = status]

FinalizeRun(r, status) ==
    run' = [run EXCEPT ![r] = IF @ = "running" THEN status ELSE @]

(***************************************************************************)
(* Maintenance: a batch of running rows that started longer ago than       *)
(* staleAfterMinutes, which a slow ask may have as well as a lost one,     *)
(* those another transaction has locked left out (SKIP LOCKED); and the    *)
(* deletion of ended rows past their retention.                            *)
(***************************************************************************)
SweepStale ==
    \E batch \in SUBSET {r \in Runs : run[r] = "running"} :
        /\ batch # {}
        /\ Cardinality(batch) <= SweepLimit
        /\ run' = [r \in Runs |-> IF r \in batch THEN StaleStatus ELSE run[r]]
        /\ swept' = swept \cup batch

DeleteExpired ==
    /\ \E batch \in SUBSET {r \in Runs : run[r] \in EndedStatus} :
          /\ batch # {}
          /\ Cardinality(batch) <= SweepLimit
          /\ run' = [r \in Runs |-> IF r \in batch THEN "none" ELSE run[r]]
    /\ UNCHANGED swept

Maintenance == SweepStale \/ DeleteExpired
=============================================================================
