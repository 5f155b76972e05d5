---------------------------- MODULE AskSettlement ----------------------------
(***************************************************************************)
(* How an ask ends, and who writes it down: the handler of                 *)
(* src/src/server/http/ask/native-handler.ts with its catch, its finally   *)
(* blocks, the two nested generators of a streamed answer and the cancel   *)
(* callback of its Response, over the rows of AskRuns.  What the runtime   *)
(* does in between is AskRequest's; here it succeeds or fails.             *)
(***************************************************************************)
EXTENDS AskRuns

CONSTANTS
    MaxCrashes      \* bound: the crashes of the web process

VARIABLES
    at,             \* where the handler of an ask is
    streaming,      \* the path ends in /stream
    refused,        \* state.refused
    gone,           \* request.signal is aborted: the client left
    activeRun,      \* the handler still owes its row an end
    writing,        \* the status on its way to the row, or "none"
    answered,       \* history variable: asks whose answer passed its last check
    lostWrites,     \* history variable: rows of which a write, or its answer, was lost
    crashes         \* crashes of the process so far

settleVars == <<at, streaming, refused, gone, activeRun, writing, answered, lostWrites, crashes>>
settlementVars == <<runVars, settleVars>>

SettlementInit ==
    /\ RunsInit
    /\ at = [r \in Runs |-> "idle"]
    /\ streaming = [r \in Runs |-> FALSE]
    /\ refused = [r \in Runs |-> FALSE]
    /\ gone = {}
    /\ activeRun = {}
    /\ writing = [r \in Runs |-> "none"]
    /\ answered = {}
    /\ lostWrites = {}
    /\ crashes = 0

GoesTo(r, label) == at' = [at EXCEPT ![r] = label]

(***************************************************************************)
(* settleActiveRun: activeRun is taken before the await, so that of all    *)
(* the ends of a handler one writes.  The write itself comes later, ends a *)
(* running row, and may fail soft.                                         *)
(***************************************************************************)
SettleActiveRun(r, status) ==
    /\ activeRun' = activeRun \ {r}
    /\ writing' = IF r \in activeRun THEN [writing EXCEPT ![r] = status] ELSE writing

WriteRow(r) ==
    /\ writing[r] # "none"
    /\ writing' = [writing EXCEPT ![r] = "none"]
    /\ \/ FinalizeRun(r, writing[r]) /\ UNCHANGED lostWrites
       \/ lostWrites' = lostWrites \cup {r} /\ UNCHANGED run
    /\ UNCHANGED <<swept, at, streaming, refused, gone, activeRun, answered, crashes>>

\* Every error of an ask is taken for the client's abort.
MutantFailure(r) == "cancelled"

Failure(r) == IF r \in gone THEN "cancelled" ELSE "failed"

(***************************************************************************)
(* The first check and the history fail without a row.  startAskRun fails  *)
(* soft: the ask goes on without a row of its own, or with one that it     *)
(* does not know of, when the insert has committed and its answer is lost. *)
(***************************************************************************)
StartAsk(r) ==
    /\ at[r] = "idle"
    /\ \E s \in BOOLEAN : streaming' = [streaming EXCEPT ![r] = s]
    /\ \/ /\ InsertRun(r) /\ activeRun' = activeRun \cup {r} /\ GoesTo(r, "graph")
          /\ UNCHANGED lostWrites
       \/ /\ InsertRun(r) /\ lostWrites' = lostWrites \cup {r} /\ GoesTo(r, "graph")
          /\ UNCHANGED activeRun
       \/ /\ UNCHANGED <<run, activeRun, lostWrites>>
          /\ \E label \in {"graph", "done"} : GoesTo(r, label)
    /\ UNCHANGED <<swept, refused, gone, writing, answered, crashes>>

(***************************************************************************)
(* runtime.invoke and the check after it: the Response of a stream is      *)
(* returned here, its frames come when the client pulls.                   *)
(***************************************************************************)
GraphReturns(r) ==
    /\ at[r] = "graph"
    /\ \/ /\ \E f \in BOOLEAN : refused' = [refused EXCEPT ![r] = f]
          /\ GoesTo(r, IF streaming[r] THEN "frames" ELSE "tokens")
          /\ UNCHANGED <<activeRun, writing>>
       \/ SettleActiveRun(r, Failure(r)) /\ GoesTo(r, "done") /\ UNCHANGED refused
    /\ UNCHANGED <<runVars, streaming, gone, answered, lostWrites, crashes>>

\* The check before the first frame; its failure is an error frame.
FirstFrame(r) ==
    /\ at[r] = "frames"
    /\ \/ GoesTo(r, "tokens") /\ UNCHANGED <<activeRun, writing>>
       \/ SettleActiveRun(r, "failed") /\ GoesTo(r, "done")
    /\ UNCHANGED <<runVars, streaming, refused, gone, answered, lostWrites, crashes>>

\* The last token and the last check, or an error on the way: the catch.
TokensEnd(r) ==
    /\ at[r] = "tokens"
    /\ \/ /\ GoesTo(r, "persist")
          /\ answered' = answered \cup {r}
          /\ UNCHANGED <<activeRun, writing>>
       \/ SettleActiveRun(r, Failure(r)) /\ GoesTo(r, "done") /\ UNCHANGED answered
    /\ UNCHANGED <<runVars, streaming, refused, gone, lostWrites, crashes>>

\* The exchange is stored or not, without an error; then the row.
PersistEnds(r) ==
    /\ at[r] = "persist"
    /\ \/ SettleActiveRun(r, IF refused[r] THEN "refused" ELSE "completed")
       \/ refused[r] /\ SettleActiveRun(r, "failed")        \* judge_unavailable
    /\ GoesTo(r, "done")
    /\ UNCHANGED <<runVars, streaming, refused, gone, answered, lostWrites, crashes>>

(***************************************************************************)
(* The client leaves.  The signal is aborted; a stream is also cancelled,  *)
(* which settles at once.  The iterator then returns: parked at a yield,   *)
(* its finally blocks run; inside an await, it first runs on to its next   *)
(* yield, through the persist when the tokens are over.                    *)
(***************************************************************************)
ClientLeaves(r) ==
    /\ at[r] \notin {"idle", "done", "lost"}
    /\ r \notin gone
    /\ gone' = gone \cup {r}
    /\ \/ UNCHANGED <<at, activeRun, writing>>
       \/ /\ streaming[r]
          /\ at[r] \in {"frames", "tokens", "persist"}
          /\ SettleActiveRun(r, "cancelled")
          /\ \/ UNCHANGED at
             \/ at[r] = "tokens" /\ GoesTo(r, "done")
    /\ UNCHANGED <<runVars, streaming, refused, answered, lostWrites, crashes>>

ProcessDies ==
    /\ crashes < MaxCrashes
    /\ crashes' = crashes + 1
    /\ at' = [r \in Runs |-> IF at[r] \in {"idle", "done"} THEN at[r] ELSE "lost"]
    /\ lostWrites' = lostWrites \cup {r \in Runs : writing[r] # "none"}
    /\ writing' = [r \in Runs |-> "none"]
    /\ activeRun' = {}
    /\ UNCHANGED <<runVars, streaming, refused, gone, answered>>

HandlerStep(r) ==
    \/ StartAsk(r) \/ GraphReturns(r) \/ FirstFrame(r) \/ TokensEnd(r) \/ PersistEnds(r)
    \/ ClientLeaves(r) \/ WriteRow(r)

SettlementNext ==
    \/ \E r \in Runs : HandlerStep(r)
    \/ ProcessDies
    \/ Maintenance /\ UNCHANGED settleVars

SettlementSpec == SettlementInit /\ [][SettlementNext]_settlementVars

-----------------------------------------------------------------------------
(***************************************************************************)
(* A row tells what became of its ask: completed or refused only when the  *)
(* answer passed its last check, cancelled only when the client left or    *)
(* maintenance gave the row up.                                            *)
(***************************************************************************)
RowsTruthful ==
    \A r \in Runs :
        /\ run[r] \in {"completed", "refused"} => r \in answered
        /\ run[r] = "cancelled" => r \in gone \cup swept

(***************************************************************************)
(* No exit of the handler forgets its row: once it is done and its write   *)
(* is through, the row is running only if that very write failed, or the   *)
(* handler was never told of the row.                                      *)
(***************************************************************************)
NoRowForgotten ==
    \A r \in Runs :
        at[r] = "done" /\ writing[r] = "none" /\ run[r] = "running" => r \in lostWrites

\* What the row of an ask says is so, and it says something in the end.
RowsAccount == RowsTruthful /\ NoRowForgotten

(***************************************************************************)
(* A row that ended keeps its status until retention deletes it, although  *)
(* the handler, the cancel callback and maintenance race to end it.        *)
(***************************************************************************)
RowsEndOnce ==
    [][\A r \in Runs : run[r] \in EndedStatus => run'[r] \in {run[r], "none"}]_settlementVars
=============================================================================
