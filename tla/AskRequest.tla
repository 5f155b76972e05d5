----------------------------- MODULE AskRequest -----------------------------
(***************************************************************************)
(* The ask handler of the web process and the runtime it drives            *)
(* (src/src/server/http/ask/native-handler.ts, native-runtime.ts;          *)
(* src/src/core/ai/answer-stream.ts, structured-output.ts), over the gate, *)
(* the access of the identity and the conversation memory.  The row that   *)
(* reports the ask is a module of its own, AskSettlement.                  *)
(*                                                                         *)
(* An ask is a sequence of awaits, one action each: between two of them    *)
(* other asks, access changes and the disconnect of its own client         *)
(* happen.  The callers of the gate that are no ask of this module  *)
(* stand for the other users of the process.                               *)
(***************************************************************************)
EXTENDS AskGate, AskAccess, AskMemory

CONSTANTS
    Asks            \* the asks

ASSUME AskAssumption == Asks \subseteq Callers

VARIABLES
    pc,             \* where the handler of an ask is
    phase,          \* of a model call: want, wait (for its permit), run
    attempts,       \* retrieval_attempts of the graph state
    tries,          \* attempts of the structured call under way
    inThread,       \* the ask names the thread, not the session
    scope,          \* sources of the retrieval scope resolved last
    cited,          \* history.sourceReferences and retrievedEvidence
    admitted,       \* admittedEvidence of the checkpoint
    drawn,          \* history variable: sources the answer draws on
    reach,          \* history variable: sources readable at some time since
                    \* the ask began, then since its answer ended
    saved           \* history variable: asks whose exchange was stored

askVars == <<pc, phase, attempts, tries, inThread, scope, cited, admitted,
             drawn, reach, saved>>
vars == <<gateVars, accessVars, memoryVars, askVars>>

ModelCalls == {"rewrite", "judge", "answer"}
Ended == {"idle", "over"}

Init ==
    /\ GateInit /\ AccessInit /\ MemoryInit
    /\ pc = [r \in Asks |-> "idle"]
    /\ phase = [r \in Asks |-> "want"]
    /\ attempts = [r \in Asks |-> 0]
    /\ tries = [r \in Asks |-> 0]
    /\ inThread = [r \in Asks |-> FALSE]
    /\ scope = [r \in Asks |-> {}]
    /\ cited = [r \in Asks |-> {}]
    /\ admitted = [r \in Asks |-> {}]
    /\ drawn = [r \in Asks |-> {}]
    /\ reach = [r \in Asks |-> {}]
    /\ saved = {}

\* The handler is done, its local state gone; its exchange may be stored.
Leave(r, stored) ==
    /\ saved' = IF stored THEN saved \cup {r} ELSE saved
    /\ pc' = [pc EXCEPT ![r] = "over"]
    /\ phase' = [phase EXCEPT ![r] = "want"]
    /\ attempts' = [attempts EXCEPT ![r] = 0]
    /\ tries' = [tries EXCEPT ![r] = 0]
    /\ inThread' = [inThread EXCEPT ![r] = FALSE]
    /\ scope' = [scope EXCEPT ![r] = {}]
    /\ cited' = [cited EXCEPT ![r] = {}]
    /\ admitted' = [admitted EXCEPT ![r] = {}]
    /\ drawn' = [drawn EXCEPT ![r] = IF stored THEN @ ELSE {}]
    /\ reach' = [reach EXCEPT ![r] = {}]

\* The catch and the finally of the handler.
Fails(r) == Leave(r, FALSE)

Goto(r, label) ==
    /\ pc' = [pc EXCEPT ![r] = label]
    /\ phase' = [phase EXCEPT ![r] = "want"]
    /\ tries' = [tries EXCEPT ![r] = 0]

\* The text of the answer is complete; what is left is to check and store it.
AnswerOver(r) ==
    /\ Goto(r, "confirm")
    /\ reach' = [reach EXCEPT ![r] = granted]

Check(r) == Permitted(cited[r], admitted[r])

Admits(r) == admitted' = [admitted EXCEPT ![r] = @ \cup cited[r]]

-----------------------------------------------------------------------------
(***************************************************************************)
(* The way in: the first check, the history, and the router, which may end *)
(* the ask at once with a question back or a refusal.                      *)
(***************************************************************************)
Begin(r) ==
    /\ pc[r] = "idle"
    /\ \/ /\ member
          /\ pc' = [pc EXCEPT ![r] = "load"]
          /\ reach' = [reach EXCEPT ![r] = granted]
          /\ \E t \in {FALSE, archived} : inThread' = [inThread EXCEPT ![r] = t]
       \/ /\ ~member
          /\ pc' = [pc EXCEPT ![r] = "over"]
          /\ UNCHANGED <<reach, inThread>>
    /\ UNCHANGED <<gateVars, accessVars, memoryVars, phase, attempts, tries, scope,
                   cited, admitted, drawn, saved>>

\* The sources of the history are left out of what the answer is based on.
MutantLoadHistory(r) ==
    /\ pc[r] = "load"
    /\ drawn' = [drawn EXCEPT ![r] = UNION {drawn[e.by] :
                    e \in AuthorizedHistory(IF inThread[r] THEN thread ELSE session, Active)}]
    /\ Goto(r, "retrieve")
    /\ UNCHANGED <<gateVars, accessVars, memoryVars, reach, attempts, inThread, scope, cited,
                   admitted, saved>>

LoadHistory(r) ==
    /\ pc[r] = "load"
    /\ \/ LET history == AuthorizedHistory(IF inThread[r] THEN thread ELSE session, Active)
          IN /\ cited' = [cited EXCEPT ![r] = UNION {e.sources : e \in history}]
             /\ drawn' = [drawn EXCEPT ![r] = UNION {drawn[e.by] : e \in history}]
             /\ \/ /\ Goto(r, IF history = {} THEN "retrieve" ELSE "rewrite")
                   /\ UNCHANGED reach
                \/ AnswerOver(r)
             /\ UNCHANGED <<attempts, inThread, scope, admitted, saved>>
       \/ Fails(r)
    /\ UNCHANGED <<gateVars, accessVars, memoryVars>>

-----------------------------------------------------------------------------
(***************************************************************************)
(* Retrieval: a check, the scope read from PostgreSQL, then the search in  *)
(* Qdrant under that scope.                                                *)
(***************************************************************************)
ResolveScope(r) ==
    /\ pc[r] = "retrieve"
    /\ \/ /\ r \notin aborted
          /\ Check(r)
          /\ Admits(r)
          /\ scope' = [scope EXCEPT ![r] = Active]
          /\ pc' = [pc EXCEPT ![r] = "search"]
          /\ UNCHANGED <<phase, attempts, tries, inThread, cited,
                         drawn, reach, saved>>
       \/ Fails(r)
    /\ UNCHANGED <<gateVars, accessVars, memoryVars>>

Search(r) ==
    /\ pc[r] = "search"
    /\ \/ /\ \E found \in SUBSET scope[r] :
                /\ cited' = [cited EXCEPT ![r] = @ \cup found]
                /\ drawn' = [drawn EXCEPT ![r] = @ \cup found]
          /\ scope' = [scope EXCEPT ![r] = {}]
          /\ attempts' = [attempts EXCEPT ![r] = @ + 1]
          /\ Goto(r, "judge")
          /\ UNCHANGED <<inThread, admitted, reach, saved>>
       \/ Fails(r)
    /\ UNCHANGED <<gateVars, accessVars, memoryVars>>

-----------------------------------------------------------------------------
(***************************************************************************)
(* A model call: a check before its first attempt, a permit of the gate, a *)
(* check again once it has the permit, the provider's work, the permit     *)
(* back.  The waiting call is rejected by its timer, by the abort, or by   *)
(* the gate that found it aborted.                                         *)
(***************************************************************************)
Acquire(r) ==
    /\ pc[r] \in ModelCalls
    /\ phase[r] = "want"
    /\ \/ /\ IF tries[r] = 0 THEN Check(r) /\ Admits(r) ELSE UNCHANGED admitted
          /\ AcquirePermit(r) \/ AcquireQueued(r)
          /\ phase' = [phase EXCEPT ![r] = "wait"]
          /\ tries' = [tries EXCEPT ![r] = @ + 1]
          /\ UNCHANGED <<pc, attempts, inThread, scope, cited,
                         drawn, reach, saved>>
       \/ /\ \/ tries[r] = 0 /\ UNCHANGED gateVars
             \/ AcquireAborted(r)
             \/ AcquireOverloaded(r)
          /\ Fails(r)
    /\ UNCHANGED <<accessVars, memoryVars>>

\* The check after the permit fails without the finally that returns it.
MutantStartCall(r) ==
    /\ phase[r] = "wait"
    /\ r \in holding
    /\ \/ /\ Check(r)
          /\ phase' = [phase EXCEPT ![r] = "run"]
          /\ UNCHANGED <<pc, attempts, tries, inThread, scope, cited, admitted, drawn, reach, saved>>
       \/ Fails(r)
    /\ UNCHANGED <<gateVars, accessVars, memoryVars>>

StartCall(r) ==
    /\ phase[r] = "wait"
    /\ r \in holding
    /\ \/ /\ r \notin aborted
          /\ Check(r)
          /\ Admits(r)
          /\ phase' = [phase EXCEPT ![r] = "run"]
          /\ UNCHANGED <<gateVars, pc, attempts, tries, inThread, scope, cited,
                         drawn, reach, saved>>
       \/ Release(r) /\ Fails(r)
    /\ UNCHANGED <<accessVars, memoryVars>>

WaitFails(r) ==
    /\ phase[r] = "wait"
    /\ \/ LeaveQueue(r)
       \/ r \notin holding \cup Waiting /\ UNCHANGED gateVars
    /\ Fails(r)
    /\ UNCHANGED <<accessVars, memoryVars>>

(***************************************************************************)
(* What the call returns with.  A rewrite that fails leaves the question   *)
(* as it is, a judge that fails refuses; an answer that fails, is aborted, *)
(* or whose tokens meet a failed check, fails the ask.                     *)
(***************************************************************************)
CallReturns(r) ==
    /\ phase[r] = "run"
    /\ Release(r)
    /\ \/ /\ r \notin aborted
          /\ \/ /\ pc[r] # "answer"
                /\ tries[r] < 2
                /\ phase' = [phase EXCEPT ![r] = "want"]
                /\ UNCHANGED <<pc, tries, reach>>
             \/ /\ pc[r] = "rewrite"
                /\ Goto(r, "retrieve")
                /\ UNCHANGED <<reach>>
             \/ /\ pc[r] = "judge"
                /\ \E next \in {"judge", "answer"} \cup {"retrieve" : n \in attempts[r] .. 1} :
                      Goto(r, next)
                /\ UNCHANGED <<reach>>
             \/ pc[r] = "judge" /\ AnswerOver(r)
             \/ pc[r] = "answer" /\ AnswerOver(r)
          /\ UNCHANGED <<attempts, inThread, scope, cited, admitted, drawn,
                         saved>>
       \/ Fails(r)
    /\ UNCHANGED <<accessVars, memoryVars>>

\* Without citations the judge asks no model; an outline, a conflict or a
\* table row is an answer without one.
NoCall(r) ==
    /\ pc[r] \in {"judge", "answer"}
    /\ phase[r] = "want"
    /\ tries[r] = 0
    /\ \/ /\ pc[r] = "judge"
          /\ attempts[r] < 2
          /\ Goto(r, "retrieve")
          /\ UNCHANGED <<reach, admitted>>
       \/ /\ pc[r] = "judge"
          /\ AnswerOver(r)
          /\ UNCHANGED admitted
       \/ /\ pc[r] = "answer"
          /\ Check(r)
          /\ Admits(r)
          /\ AnswerOver(r)
    /\ UNCHANGED <<gateVars, accessVars, memoryVars, attempts, inThread, scope, cited,
                   drawn, saved>>

-----------------------------------------------------------------------------
(***************************************************************************)
(* The way out: the last check and the exchange stored, or its write fails *)
(* soft.  The abort of the client is looked at by neither.                 *)
(***************************************************************************)
Confirm(r) ==
    /\ pc[r] = "confirm"
    /\ \/ /\ Check(r)
          /\ Admits(r)
          /\ Goto(r, "save")
          /\ UNCHANGED <<attempts, inThread, scope, cited, drawn, reach, saved>>
       \/ Fails(r)
    /\ UNCHANGED <<gateVars, accessVars, memoryVars>>

Save(r) ==
    /\ pc[r] = "save"
    /\ \/ /\ IF inThread[r] THEN AppendThread(Exchange(r, cited[r]))
                            ELSE AppendSession(Exchange(r, cited[r]))
          /\ Leave(r, TRUE)
       \/ Leave(r, FALSE) /\ UNCHANGED memoryVars
    /\ UNCHANGED <<gateVars, accessVars>>

-----------------------------------------------------------------------------
(***************************************************************************)
(* The client goes away: the signal of its ask is aborted.                 *)
(***************************************************************************)
Disconnect(r) ==
    /\ pc[r] \notin Ended
    /\ r \notin aborted
    /\ SignalAborted(r)
    /\ UNCHANGED <<accessVars, memoryVars, askVars>>

AccessChanges ==
    /\ \/ \E s \in Sources : Revoke(s) \/ Grant(s) \/ Supersede(s)
       \/ LeaveLibrary
    /\ reach' = [r \in Asks |-> IF pc[r] \in Ended THEN reach[r] ELSE reach[r] \cup granted']
    /\ UNCHANGED <<gateVars, memoryVars, pc, phase, attempts, tries, inThread, scope,
                   cited, admitted, drawn, saved>>

MemoryChanges ==
    /\ SessionExpired \/ Archive
    /\ UNCHANGED <<gateVars, accessVars, askVars>>

\* The calls of the other users of the process.
OtherCalls ==
    /\ \E c \in Callers \ Asks :
          \/ Idle(c) /\ (AcquirePermit(c) \/ AcquireQueued(c))
          \/ LeaveQueue(c)
          \/ Release(c)
    /\ UNCHANGED <<accessVars, memoryVars, askVars>>

AskStep(r) ==
    \/ Begin(r) \/ LoadHistory(r)
    \/ ResolveScope(r) \/ Search(r)
    \/ Acquire(r) \/ StartCall(r) \/ WaitFails(r) \/ CallReturns(r) \/ NoCall(r)
    \/ Confirm(r) \/ Save(r)

Next ==
    \/ \E r \in Asks : AskStep(r) \/ Disconnect(r)
    \/ AccessChanges \/ MemoryChanges \/ OtherCalls

Spec == Init /\ [][Next]_vars

-----------------------------------------------------------------------------
(***************************************************************************)
(* An answer that is about to be stored draws on nothing that  *)
(* was out of the identity's reach ever since its ask began, nor since its *)
(* text was complete: not by retrieval, not through the session memory,    *)
(* not through the thread, however many exchanges lie between.             *)
(***************************************************************************)
AnswersStayWithinReach ==
    \A r \in Asks : pc[r] \notin Ended \cup {"confirm"} => drawn[r] \subseteq reach[r]

(***************************************************************************)
(* An exchange that later asks may reuse names every source its answer     *)
(* draws on, those of the exchanges it was itself built on included: a     *)
(* revocation of any of them keeps it out of every later history.          *)
(***************************************************************************)
NoLaundering ==
    \A store \in {session, thread} : \A i \in 1 .. Len(store) :
        store[i].sources # {} => drawn[store[i].by] \subseteq store[i].sources

(***************************************************************************)
(* A permit is held only by a live handler inside a model call: no exit    *)
(* of the handler, early or late, leaves with a permit or with a place in  *)
(* the queue.                                                              *)
(***************************************************************************)
PermitsAtWork ==
    \A r \in Asks : r \in holding \cup Waiting =>
        pc[r] \in ModelCalls /\ phase[r] \in {"wait", "run"}

TypeOK ==
    /\ GateTypeOK
    /\ granted \in SUBSET Sources /\ current \in SUBSET Sources
    /\ member \in BOOLEAN /\ changes \in Nat
    /\ session \in Seq([by : Asks, sources : SUBSET Sources])
    /\ thread \in Seq([by : Asks, sources : SUBSET Sources])
    /\ archived \in BOOLEAN
    /\ pc \in [Asks -> Ended \cup ModelCalls \cup
                  {"load", "retrieve", "search", "confirm", "save"}]
    /\ phase \in [Asks -> {"want", "wait", "run"}]
    /\ attempts \in [Asks -> Nat] /\ tries \in [Asks -> Nat]
    /\ inThread \in [Asks -> BOOLEAN]
    /\ scope \in [Asks -> SUBSET Sources] /\ cited \in [Asks -> SUBSET Sources]
    /\ admitted \in [Asks -> SUBSET Sources]
    /\ drawn \in [Asks -> SUBSET Sources] /\ reach \in [Asks -> SUBSET Sources]
    /\ saved \in SUBSET Asks
=============================================================================
