------------------------------ MODULE AskMemory ------------------------------
(***************************************************************************)
(* What an ask remembers of earlier ones: the session memory in Redis and  *)
(* the archived thread in PostgreSQL, both with the sources each exchange  *)
(* was drawn from (src/src/server/conversations/session-memory.ts,         *)
(* repository.ts; src/src/server/http/ask/authorized-history.ts).          *)
(*                                                                         *)
(* An exchange is the ask it came from and the sources of its provenance;  *)
(* without sources (no provenance, an invalid one, or more sources than    *)
(* the budget) it is kept for display and never reused.  One session, and  *)
(* one thread archived from it.                                            *)
(***************************************************************************)
EXTENDS Naturals, FiniteSets, Sequences

CONSTANTS
    MaxTurns,       \* session_memory_max_turns
    MaxReferences   \* MAX_MEMORY_SOURCE_REFERENCES

ASSUME MemoryAssumption == MaxTurns \in Nat \ {0} /\ MaxReferences \in Nat \ {0}

VARIABLES
    session,        \* the Redis list, oldest exchange first
    thread,         \* the turns of the archived thread, by sequence
    archived        \* the thread exists

memoryVars == <<session, thread, archived>>

MemoryInit ==
    /\ session = <<>>
    /\ thread = <<>>
    /\ archived = FALSE

(***************************************************************************)
(* createMemoryProvenance: all the sources, or none when over the budget.  *)
(***************************************************************************)
Provenance(sources) ==
    IF Cardinality(sources) <= MaxReferences THEN sources ELSE {}

Exchange(r, sources) == [by |-> r, sources |-> Provenance(sources)]

(***************************************************************************)
(* append: rPush and lTrim in one MULTI.  appendExchange: the two turns    *)
(* after the latest, under the lock of the thread.                         *)
(***************************************************************************)
Latest(seq) ==
    IF Len(seq) <= MaxTurns THEN seq
    ELSE SubSeq(seq, Len(seq) - MaxTurns + 1, Len(seq))

AppendSession(e) == session' = Latest(Append(session, e)) /\ UNCHANGED <<thread, archived>>

AppendThread(e) == thread' = Append(thread, e) /\ UNCHANGED <<session, archived>>

SessionExpired ==
    /\ session # <<>>
    /\ session' = <<>>
    /\ UNCHANGED <<thread, archived>>

(***************************************************************************)
(* Archiving the browser's transcript: an exchange still in the session    *)
(* memory keeps its sources (recoverArchiveProvenance), any other gets     *)
(* none, and never being reused it is left out here.                       *)
(***************************************************************************)
Archive ==
    /\ ~archived
    /\ session # <<>>
    /\ thread' = session
    /\ archived' = TRUE
    /\ UNCHANGED session

(***************************************************************************)
(* authorizeCandidates: from the newest back, whole exchanges whose        *)
(* sources still fit the budget; of those, the ones whose every source is  *)
(* allowed now.                                                            *)
(***************************************************************************)
Budgeted(seq) ==
    LET n == Len(seq)
        \* the sources selected from the k newest exchanges
        dependencies[k \in 0 .. n] ==
            IF k = 0 THEN {}
            ELSE LET all == dependencies[k - 1] \cup seq[n - k + 1].sources
                 IN IF Cardinality(all) <= MaxReferences THEN all ELSE dependencies[k - 1]
    IN {i \in 1 .. n :
          /\ seq[i].sources # {}
          /\ Cardinality(dependencies[n - i] \cup seq[i].sources) <= MaxReferences}

AuthorizedHistory(seq, allowed) ==
    {seq[i] : i \in {j \in Budgeted(seq) : seq[j].sources \subseteq allowed}}
=============================================================================
