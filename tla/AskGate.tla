------------------------------- MODULE AskGate -------------------------------
(***************************************************************************)
(* The concurrency gate in front of the model providers, shared by every   *)
(* ask of a web process (src/src/core/ai/concurrency-gate.ts).  A caller   *)
(* takes a permit, waits in a bounded queue, or is refused; a permit that  *)
(* comes back is handed to the longest waiting caller that still wants it. *)
(*                                                                         *)
(* JavaScript runs a callback to its end, so each action is one callback:  *)
(* the loop of release() is one step.  An abort is two: the signal is      *)
(* aborted before its listeners run, and a listener that runs before the   *)
(* gate's own may return a permit.                                         *)
(***************************************************************************)
EXTENDS Naturals, FiniteSets, Sequences

CONSTANTS
    Callers,    \* the model calls that may ask for a permit
    Limit,      \* AI_CONCURRENCY_LIMIT
    MaxQueue    \* the longest queue, limit * 8 by default

ASSUME GateAssumption ==
    /\ IsFiniteSet(Callers)
    /\ Limit \in Nat \ {0}
    /\ MaxQueue \in Nat \ {0}

VARIABLES
    active,     \* permits handed out, the gate's own counter
    waiting,    \* the queue of entries, oldest first
    holding,    \* the callers with a lease not yet released
    aborted     \* the callers whose signal is aborted

gateVars == <<active, waiting, holding, aborted>>

Waiting == {waiting[i] : i \in 1 .. Len(waiting)}

GateInit ==
    /\ active = 0
    /\ waiting = <<>>
    /\ holding = {}
    /\ aborted = {}

(***************************************************************************)
(* acquire(signal): a lease at once, a place in the queue, or a refusal.   *)
(***************************************************************************)
AcquireAborted(c) ==
    /\ c \in aborted
    /\ UNCHANGED gateVars

AcquirePermit(c) ==
    /\ c \notin aborted
    /\ active < Limit
    /\ active' = active + 1
    /\ holding' = holding \cup {c}
    /\ UNCHANGED <<waiting, aborted>>

\* The newest caller goes to the head of the queue.
MutantAcquireQueued(c) ==
    /\ c \notin aborted
    /\ active >= Limit
    /\ Len(waiting) < MaxQueue
    /\ waiting' = <<c>> \o waiting
    /\ UNCHANGED <<active, holding, aborted>>

AcquireQueued(c) ==
    /\ c \notin aborted
    /\ active >= Limit
    /\ Len(waiting) < MaxQueue
    /\ waiting' = Append(waiting, c)
    /\ UNCHANGED <<active, holding, aborted>>

AcquireOverloaded(c) ==
    /\ c \notin aborted
    /\ active >= Limit
    /\ Len(waiting) >= MaxQueue
    /\ UNCHANGED gateVars

(***************************************************************************)
(* A waiting entry leaves the queue when its timer fires or when the abort *)
(* listener runs.                                                          *)
(***************************************************************************)
LeaveQueue(c) ==
    /\ \E i \in 1 .. Len(waiting) :
          /\ waiting[i] = c
          /\ waiting' = [j \in 1 .. (Len(waiting) - 1) |->
                            waiting[IF j < i THEN j ELSE j + 1]]
    /\ UNCHANGED <<active, holding, aborted>>

SignalAborted(c) ==
    /\ aborted' = aborted \cup {c}
    /\ UNCHANGED <<active, waiting, holding>>

(***************************************************************************)
(* release(): the permit comes back once, then the queue is emptied from   *)
(* its head until a permit was handed out again; entries whose signal is   *)
(* aborted are dropped on the way.  A single permit is free here (waiting  *)
(* callers mean that every other one is taken, NoIdlePermit), so the loop  *)
(* hands out at most one.                                                  *)
(***************************************************************************)
Live(i) == i \in 1 .. Len(waiting) /\ waiting[i] \notin aborted

FirstLive(i) == Live(i) /\ \A j \in 1 .. (i - 1) : ~Live(j)

\* The permit goes back to the counter, and nobody is woken.
MutantRelease(c) ==
    /\ c \in holding
    /\ active' = active - 1
    /\ holding' = holding \ {c}
    /\ UNCHANGED <<waiting, aborted>>

Release(c) ==
    /\ c \in holding
    /\ active > 0
    /\ \/ \E i \in 1 .. Len(waiting) :
             /\ FirstLive(i)
             /\ waiting' = SubSeq(waiting, i + 1, Len(waiting))
             /\ active' = active
             /\ holding' = (holding \ {c}) \cup {waiting[i]}
       \/ /\ \A i \in 1 .. Len(waiting) : ~Live(i)
          /\ waiting' = <<>>
          /\ active' = active - 1
          /\ holding' = holding \ {c}
    /\ UNCHANGED aborted

(***************************************************************************)
(* The gate by itself, under callers that ask at any time, one call each   *)
(* at a time, that abort at any time, and that return what they were given.*)
(***************************************************************************)
Idle(c) == c \notin holding \cup Waiting

GateStep(c) ==
    \/ Idle(c) /\ (\/ AcquireAborted(c)
                   \/ AcquirePermit(c)
                   \/ AcquireQueued(c)
                   \/ AcquireOverloaded(c))
    \/ LeaveQueue(c)
    \/ SignalAborted(c)
    \/ Release(c)

GateNext == \E c \in Callers : GateStep(c)

(***************************************************************************)
(* A call ends: the provider answers, fails, or is cut by its timeout or   *)
(* by the abort, and the finally of its caller releases the lease.  Nobody *)
(* has to ask, and no waiting entry is helped by its timer.                *)
(***************************************************************************)
GateFairness == \A c \in Callers : WF_gateVars(Release(c))

GateSpec == GateInit /\ [][GateNext]_gateVars /\ GateFairness

-----------------------------------------------------------------------------
(***************************************************************************)
(* The counter of the gate is the number of leases that are out, and never *)
(* more than the limit: no lease is counted twice, none is lost when it is *)
(* handed on, and release() never finds the counter at zero.               *)
(***************************************************************************)
PermitsCounted ==
    /\ active = Cardinality(holding)
    /\ active <= Limit

(***************************************************************************)
(* The queue holds each waiting call once, no call that already has its    *)
(* lease, and no more calls than its bound.                                *)
(***************************************************************************)
QueueSound ==
    /\ Len(waiting) <= MaxQueue
    /\ Waiting \cap holding = {}
    /\ \A i, j \in 1 .. Len(waiting) : waiting[i] = waiting[j] => i = j

(***************************************************************************)
(* Nobody waits while a permit is free: whatever the order of releases,    *)
(* timers and aborts, a permit that comes back goes to a caller that still *)
(* wants it.  A gate that loses a wake-up leaves callers to their timeout. *)
(***************************************************************************)
NoIdlePermit == waiting # <<>> => active = Limit

(***************************************************************************)
(* A caller that waits gets its permit or leaves, without the help of the  *)
(* timers, as long as every call in front of it ends: the queue is first   *)
(* come, first served.                                                     *)
(***************************************************************************)
WaitEnds(c) == c \in Waiting ~> c \notin Waiting

GateTypeOK ==
    /\ active \in Nat
    /\ waiting \in Seq(Callers)
    /\ holding \in SUBSET Callers
    /\ aborted \in SUBSET Callers

GateInv == GateTypeOK /\ PermitsCounted /\ QueueSound /\ NoIdlePermit
=============================================================================
