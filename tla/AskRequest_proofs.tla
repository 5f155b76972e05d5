-------------------------- MODULE AskRequest_proofs --------------------------
(***************************************************************************)
(* What an ask may draw on, and what it may keep, for any finite set of    *)
(* callers, any sources, limits and budgets, and any number of changes of  *)
(* access.                                                                 *)
(*                                                                         *)
(* The argument is one of provenance.  What an answer draws on is always   *)
(* among the sources the handler names (cited), because search adds to     *)
(* both and the history is taken with its sources.  The check before the   *)
(* exchange is stored looks at what is named, so it covers what is drawn   *)
(* on; and what is stored names it again for the next ask.  The exchanges  *)
(* in the memory are those of asks that are over, which nothing changes.   *)
(***************************************************************************)
EXTENDS AskRequest, FiniteSetTheorems, TLAPS

(***************************************************************************)
(* The gate: permits are neither lost nor doubled, and nobody waits while  *)
(* one is free.  Each operation has its lemma, which also tells whom it    *)
(* gives a permit or a place; the asks rest on them.                       *)
(***************************************************************************)
\* Those the gate knows: with a permit or with a place in the queue.
Served == holding \cup Waiting

LEMMA HoldingFinite ==
    ASSUME GateInv
    PROVE  IsFiniteSet(holding) /\ Cardinality(holding) \in Nat
PROOF
    BY GateAssumption, FS_Subset, FS_CardinalityType DEF GateInv, GateTypeOK

-----------------------------------------------------------------------------
(* The operations                                                            *)

\* A permit at once, for a caller without one: nobody was waiting.
LEMMA AcquirePermitKeeps ==
    ASSUME GateInv, NEW c \in Callers, Idle(c), AcquirePermit(c)
    PROVE  GateInv' /\ Served' = Served \cup {c}
PROOF
<1>1. /\ active' = active + 1 /\ holding' = holding \cup {c}
      /\ UNCHANGED <<waiting, aborted>> /\ active < Limit /\ c \notin holding
    BY DEF AcquirePermit, Idle
<1>2. waiting = <<>>
    BY <1>1, GateAssumption DEF GateInv, GateTypeOK, NoIdlePermit
<1>3. Cardinality(holding') = Cardinality(holding) + 1
    BY <1>1, HoldingFinite, FS_AddElement
<1>4. PermitsCounted' /\ GateTypeOK'
    BY <1>1, <1>3, GateAssumption DEF GateInv, GateTypeOK, PermitsCounted
<1>5. QueueSound' /\ NoIdlePermit'
    BY <1>1, <1>2 DEF GateInv, QueueSound, NoIdlePermit, Waiting
<1> QED
    BY <1>1, <1>4, <1>5 DEF GateInv, Served, Waiting

\* A place at the end of the queue.
LEMMA AcquireQueuedKeeps ==
    ASSUME GateInv, NEW c \in Callers, Idle(c), AcquireQueued(c)
    PROVE  GateInv' /\ Served' = Served \cup {c}
PROOF
<1>1. /\ waiting' = Append(waiting, c) /\ UNCHANGED <<active, holding, aborted>>
      /\ active >= Limit /\ Len(waiting) < MaxQueue /\ c \notin Served
    BY DEF AcquireQueued, Idle, Served
<1>2. /\ waiting' \in Seq(Callers) /\ Len(waiting') = Len(waiting) + 1
      /\ waiting'[Len(waiting) + 1] = c
      /\ \A i \in 1 .. Len(waiting) : waiting'[i] = waiting[i]
    BY <1>1 DEF GateInv, GateTypeOK
<1>3. Waiting' = Waiting \cup {c}
    BY <1>1, <1>2 DEF Waiting, GateInv, GateTypeOK
<1>4. \A i, j \in 1 .. Len(waiting') : waiting'[i] = waiting'[j] => i = j
    <2>1. \A i \in 1 .. Len(waiting) : waiting[i] # c
        BY <1>1 DEF Served, Waiting
    <2> QED
        BY <1>1, <1>2, <2>1 DEF GateInv, QueueSound, GateTypeOK
<1>5. QueueSound'
    BY <1>1, <1>2, <1>3, <1>4, GateAssumption DEF GateInv, GateTypeOK, QueueSound, Served
<1>6. NoIdlePermit' /\ PermitsCounted' /\ GateTypeOK'
    BY <1>1, <1>2, GateAssumption DEF GateInv, GateTypeOK, NoIdlePermit, PermitsCounted
<1> QED
    BY <1>1, <1>3, <1>5, <1>6 DEF GateInv, Served

\* A waiting entry leaves: its timer, or its abort.
LEMMA LeaveQueueKeeps ==
    ASSUME GateInv, NEW c \in Callers, LeaveQueue(c)
    PROVE  GateInv' /\ Served' = Served \ {c}
PROOF
<1>1. PICK k \in 1 .. Len(waiting) :
          /\ waiting[k] = c
          /\ waiting' = [j \in 1 .. (Len(waiting) - 1) |-> waiting[IF j < k THEN j ELSE j + 1]]
    BY DEF LeaveQueue
<1>2. UNCHANGED <<active, holding, aborted>> /\ waiting \in Seq(Callers) /\ Len(waiting) \in Nat
    BY DEF LeaveQueue, GateInv, GateTypeOK
<1>3. \A i, j \in 1 .. Len(waiting) : waiting[i] = waiting[j] => i = j
    BY DEF GateInv, QueueSound
<1>4. waiting' \in Seq(Callers) /\ Len(waiting') = Len(waiting) - 1
    BY <1>1, <1>2
<1>5. \A i, j \in 1 .. Len(waiting') : waiting'[i] = waiting'[j] => i = j
    BY <1>1, <1>2, <1>3, <1>4
<1>6. Waiting' = Waiting \ {c}
    <2>1. ASSUME NEW x \in Waiting'
          PROVE  x \in Waiting /\ x # c
        BY <1>1, <1>2, <1>3, <1>4 DEF Waiting
    <2>2. ASSUME NEW x \in Waiting, x # c
          PROVE  x \in Waiting'
        <3>1. PICK i \in 1 .. Len(waiting) : waiting[i] = x
            BY DEF Waiting
        <3>2. CASE i < k
            <4>1. i \in 1 .. Len(waiting') /\ waiting'[i] = waiting[i]
                BY <1>1, <1>2, <1>4, <3>2
            <4> QED
                BY <3>1, <4>1 DEF Waiting
        <3>3. CASE i > k
            <4>1. i - 1 \in 1 .. Len(waiting') /\ waiting'[i - 1] = waiting[i]
                BY <1>1, <1>2, <1>4, <3>3
            <4> QED
                BY <3>1, <4>1 DEF Waiting
        <3> QED
            BY <1>1, <1>2, <2>2, <3>1, <3>2, <3>3
    <2> QED
        BY <2>1, <2>2
<1>7. QueueSound'
    BY <1>2, <1>4, <1>5, <1>6, GateAssumption DEF GateInv, QueueSound
<1>8. NoIdlePermit' /\ PermitsCounted' /\ GateTypeOK'
    <2>1. waiting # <<>>
        BY <1>1, <1>2
    <2> QED
        BY <1>2, <1>4, <2>1 DEF GateInv, GateTypeOK, NoIdlePermit, PermitsCounted
<1>9. c \notin holding
    BY <1>1 DEF GateInv, QueueSound, Waiting
<1> QED
    BY <1>2, <1>6, <1>7, <1>8, <1>9 DEF GateInv, Served

\* A lease comes back; the oldest waiting caller that still wants it gets it.
LEMMA ReleaseKeeps ==
    ASSUME GateInv, NEW c \in Callers, Release(c)
    PROVE  GateInv' /\ Served' \subseteq Served \ {c}
PROOF
<1>1. /\ c \in holding /\ active > 0 /\ aborted' = aborted
      /\ waiting \in Seq(Callers) /\ Len(waiting) \in Nat /\ active \in Nat
      /\ holding \subseteq Callers /\ aborted \subseteq Callers
    BY DEF Release, GateInv, GateTypeOK
<1>2. c \notin Waiting
    BY <1>1 DEF GateInv, QueueSound
<1>3. Cardinality(holding \ {c}) = Cardinality(holding) - 1 /\ IsFiniteSet(holding \ {c})
    BY <1>1, HoldingFinite, FS_RemoveElement
<1>4. CASE \E i \in 1 .. Len(waiting) :
              /\ FirstLive(i)
              /\ waiting' = SubSeq(waiting, i + 1, Len(waiting))
              /\ active' = active
              /\ holding' = (holding \ {c}) \cup {waiting[i]}
    <2>1. PICK i \in 1 .. Len(waiting) :
              /\ waiting' = SubSeq(waiting, i + 1, Len(waiting))
              /\ active' = active
              /\ holding' = (holding \ {c}) \cup {waiting[i]}
        BY <1>4
    <2>2. /\ waiting' \in Seq(Callers) /\ Len(waiting') = Len(waiting) - i
          /\ \A j \in 1 .. Len(waiting') : waiting'[j] = waiting[j + i]
        BY <1>1, <2>1
    <2>3. waiting[i] \in Waiting /\ waiting[i] \in Callers /\ waiting[i] \notin holding
        BY <1>1 DEF Waiting, GateInv, QueueSound
    <2>4. Cardinality(holding') = Cardinality(holding)
        <3>1. Cardinality(holding') = Cardinality(holding \ {c}) + 1
            BY <1>3, <2>1, <2>3, FS_AddElement
        <3> QED
            BY <1>3, <3>1, HoldingFinite
    <2>5. \A j, k \in 1 .. Len(waiting) : waiting[j] = waiting[k] => j = k
        BY DEF GateInv, QueueSound
    <2>6. /\ \A j, k \in 1 .. Len(waiting') : waiting'[j] = waiting'[k] => j = k
          /\ \A j \in 1 .. Len(waiting') : waiting'[j] \in Waiting /\ waiting'[j] # waiting[i]
        <3>1. /\ i \in Nat /\ Len(waiting) \in Nat
              /\ \A j \in 1 .. Len(waiting') : j \in Nat /\ j + i \in 1 .. Len(waiting) /\ j + i # i
            BY <1>1, <2>2
        <3>2. ASSUME NEW j \in 1 .. Len(waiting')
              PROVE  waiting'[j] \in Waiting /\ waiting'[j] # waiting[i]
            <4>1. waiting'[j] = waiting[j + i] /\ j + i \in 1 .. Len(waiting) /\ j + i # i
                BY <2>2, <3>1
            <4> QED
                BY <2>5, <4>1 DEF Waiting
        <3>3. ASSUME NEW j \in 1 .. Len(waiting'), NEW k \in 1 .. Len(waiting'),
                     waiting'[j] = waiting'[k]
              PROVE  j = k
            <4>1. waiting[j + i] = waiting[k + i]
                BY <2>2, <3>3
            <4>2. j + i = k + i
                BY <2>5, <3>1, <4>1
            <4> QED
                BY <3>1, <4>2
        <3> QED
            BY <3>2, <3>3
    <2>7. Waiting' \subseteq Waiting \ {waiting[i]}
        BY <2>6 DEF Waiting
    <2>8. QueueSound'
        <3>1. Len(waiting') <= MaxQueue
            BY <1>1, <2>2, GateAssumption DEF GateInv, QueueSound
        <3>2. Waiting' \cap holding' = {}
            BY <2>1, <2>7 DEF GateInv, QueueSound
        <3> QED
            BY <2>6, <3>1, <3>2 DEF QueueSound
    <2>9. GateTypeOK' /\ PermitsCounted'
        BY <1>1, <2>1, <2>2, <2>3, <2>4 DEF GateInv, GateTypeOK, PermitsCounted
    <2>10. NoIdlePermit'
        <3>1. waiting # <<>>
            BY <1>1
        <3> QED
            BY <2>1, <3>1 DEF GateInv, NoIdlePermit
    <2> QED
        BY <1>1, <1>2, <2>1, <2>3, <2>7, <2>8, <2>9, <2>10 DEF GateInv, Served
<1>5. CASE /\ waiting' = <<>>
           /\ active' = active - 1
           /\ holding' = holding \ {c}
    <2>1. GateTypeOK' /\ NoIdlePermit' /\ PermitsCounted'
        BY <1>1, <1>3, <1>5, HoldingFinite, GateAssumption
        DEF GateInv, GateTypeOK, NoIdlePermit, PermitsCounted
    <2>2. QueueSound' /\ Waiting' = {}
        BY <1>5, GateAssumption DEF QueueSound, Waiting
    <2> QED
        BY <1>2, <1>5, <2>1, <2>2 DEF GateInv, Served
<1> QED
    BY <1>4, <1>5 DEF Release

\* The signal alone moves nobody.
LEMMA SignalAbortedKeeps ==
    ASSUME GateInv, NEW c \in Callers, SignalAborted(c)
    PROVE  GateInv' /\ Served' = Served
PROOF
<1>1. aborted' = aborted \cup {c} /\ UNCHANGED <<active, waiting, holding>>
    BY DEF SignalAborted
<1> QED
    BY <1>1 DEF GateInv, GateTypeOK, PermitsCounted, QueueSound, NoIdlePermit, Waiting, Served

\* A step that leaves the gate alone.
LEMMA GateUnchanged ==
    ASSUME GateInv, UNCHANGED gateVars
    PROVE  GateInv' /\ Served' = Served
PROOF
    BY DEF GateInv, GateTypeOK, PermitsCounted, QueueSound, NoIdlePermit, Waiting, Served, gateVars

LEMMA GateInvInit ==
    ASSUME GateInit
    PROVE  GateInv
PROOF
<1>1. active = 0 /\ waiting = <<>> /\ holding = {} /\ aborted = {}
    BY DEF GateInit
<1>2. Cardinality(holding) = 0
    BY <1>1, FS_EmptySet
<1> QED
    BY <1>1, <1>2, GateAssumption
    DEF GateInv, GateTypeOK, PermitsCounted, QueueSound, NoIdlePermit, Waiting

-----------------------------------------------------------------------------
(***************************************************************************)
(* The gate hands out no more permits than its limit, counts each of them  *)
(* once, keeps its queue sound, and lets nobody wait beside a free permit, *)
(* whatever the order of calls, releases, timers and aborts.               *)
(***************************************************************************)
THEOREM GateInvariant == GateSpec => []GateInv
PROOF
<1>1. GateInit => GateInv
    BY GateInvInit
<1>2. GateInv /\ [GateNext]_gateVars => GateInv'
    <2> SUFFICES ASSUME GateInv, [GateNext]_gateVars
                 PROVE  GateInv'
        OBVIOUS
    <2>1. CASE UNCHANGED gateVars
        BY <2>1, GateUnchanged
    <2>2. CASE GateNext
        <3>1. PICK c \in Callers : GateStep(c)
            BY <2>2 DEF GateNext
        <3>2. CASE Idle(c) /\ (AcquireAborted(c) \/ AcquireOverloaded(c))
            BY <3>2, GateUnchanged DEF AcquireAborted, AcquireOverloaded
        <3>3. CASE Idle(c) /\ AcquirePermit(c)
            BY <3>3, AcquirePermitKeeps
        <3>4. CASE Idle(c) /\ AcquireQueued(c)
            BY <3>4, AcquireQueuedKeeps
        <3>5. CASE LeaveQueue(c)
            BY <3>5, LeaveQueueKeeps
        <3>6. CASE SignalAborted(c)
            BY <3>6, SignalAbortedKeeps
        <3>7. CASE Release(c)
            BY <3>7, ReleaseKeeps
        <3> QED
            BY <3>1, <3>2, <3>3, <3>4, <3>5, <3>6, <3>7 DEF GateStep
    <2> QED
        BY <2>1, <2>2
<1> QED
    BY <1>1, <1>2, PTL DEF GateSpec

-----------------------------------------------------------------------------
(* The asks                                                                  *)


Labels == Ended \cup ModelCalls \cup {"load", "retrieve", "search", "confirm", "save"}
Entry == [by : Asks, sources : SUBSET Sources]
AtWork == {"wait", "run"}

AskTypeOK ==
    /\ granted \subseteq Sources /\ current \subseteq Sources
    /\ session \in Seq(Entry) /\ thread \in Seq(Entry)
    /\ pc \in [Asks -> Labels]
    /\ phase \in [Asks -> {"want"} \cup AtWork]
    /\ scope \in [Asks -> SUBSET Sources] /\ cited \in [Asks -> SUBSET Sources]
    /\ drawn \in [Asks -> SUBSET Sources] /\ reach \in [Asks -> SUBSET Sources]

\* An ask that waits or works is in a model call; what it draws on is named,
\* and within its reach.
AskOK(r) ==
    /\ phase[r] # "want" => pc[r] \in ModelCalls
    /\ pc[r] = "idle" => cited[r] = {}
    /\ pc[r] # "over" => drawn[r] \subseteq cited[r]
    /\ pc[r] \notin Ended => granted \subseteq reach[r]
    /\ pc[r] = "search" => scope[r] \subseteq reach[r]
    /\ pc[r] \notin Ended \cup {"confirm"} => cited[r] \subseteq reach[r]

\* An exchange in the memory is that of an ask that is over.
Kept(seq) ==
    \A i \in 1 .. Len(seq) :
        /\ pc[seq[i].by] = "over"
        /\ seq[i].sources # {} => drawn[seq[i].by] \subseteq seq[i].sources

IInv ==
    /\ GateInv
    /\ PermitsAtWork
    /\ AskTypeOK
    /\ \A r \in Asks : AskOK(r)
    /\ Kept(session) /\ Kept(thread)

\* The step is one of r: the other asks keep what they have.
OnlyAsk(r) ==
    \A q \in Asks \ {r} :
        /\ pc'[q] = pc[q] /\ phase'[q] = phase[q]
        /\ scope'[q] = scope[q] /\ cited'[q] = cited[q]
        /\ drawn'[q] = drawn[q] /\ reach'[q] = reach[q]

-----------------------------------------------------------------------------
(* Lemmas                                                                    *)

\* The history of an ask is of exchanges whose every source is allowed.
LEMMA HistorySound ==
    ASSUME NEW seq, NEW allowed, NEW e \in AuthorizedHistory(seq, allowed)
    PROVE  /\ e.sources # {} /\ e.sources \subseteq allowed
           /\ \E i \in 1 .. Len(seq) : e = seq[i]
PROOF
<1>1. PICK i \in Budgeted(seq) : e = seq[i] /\ seq[i].sources \subseteq allowed
    BY DEF AuthorizedHistory
<1>2. i \in 1 .. Len(seq) /\ seq[i].sources # {}
    BY DEF Budgeted
<1> QED
    BY <1>1, <1>2

\* What one ask does keeps the invariant if the ask itself is left in order.
LEMMA OneAsk ==
    ASSUME IInv, NEW r \in Asks, pc[r] # "over", OnlyAsk(r),
           UNCHANGED <<granted, current, session, thread>>,
           AskTypeOK', GateInv', AskOK(r)',
           Served' \subseteq Served \cup {r},
           r \in Served' => pc'[r] \in ModelCalls /\ phase'[r] \in AtWork
    PROVE  IInv'
PROOF
<1>1. ASSUME NEW q \in Asks, q # r
      PROVE  AskOK(q)'
    BY <1>1 DEF OnlyAsk, AskOK, IInv
<1>2. PermitsAtWork'
    BY DEF PermitsAtWork, OnlyAsk, IInv, Served, AtWork
<1>3. ASSUME NEW e \in Entry, pc[e.by] = "over"
      PROVE  pc'[e.by] = "over" /\ drawn'[e.by] = drawn[e.by]
    BY <1>3 DEF OnlyAsk, Entry
<1>4. Kept(session)' /\ Kept(thread)'
    <2>1. /\ session' = session /\ \A i \in 1 .. Len(session) : session[i] \in Entry
          /\ thread' = thread /\ \A i \in 1 .. Len(thread) : thread[i] \in Entry
        BY DEF IInv, AskTypeOK
    <2>2. Kept(session) /\ Kept(thread)
        BY DEF IInv
    <2>3. Kept(session)'
        BY <1>3, <2>1, <2>2 DEF Kept
    <2>4. Kept(thread)'
        BY <1>3, <2>1, <2>2 DEF Kept
    <2> QED
        BY <2>3, <2>4
<1> QED
    BY <1>1, <1>2, <1>4 DEF IInv

\* An ask outside of a model call has nothing of the gate.
LEMMA NotServed ==
    ASSUME IInv, NEW r \in Asks, pc[r] \notin ModelCalls \/ phase[r] = "want"
    PROVE  r \notin Served
PROOF
    BY DEF IInv, PermitsAtWork, Served, AtWork

\* The handler ends without an exchange.
LEMMA FailsKeeps ==
    ASSUME IInv, NEW r \in Asks, pc[r] # "over", Fails(r),
           UNCHANGED <<granted, current, session, thread>>,
           GateInv', Served' \subseteq Served \ {r}
    PROVE  IInv'
PROOF
<1>1. /\ pc' = [pc EXCEPT ![r] = "over"]
      /\ phase' = [phase EXCEPT ![r] = "want"]
      /\ scope' = [scope EXCEPT ![r] = {}]
      /\ cited' = [cited EXCEPT ![r] = {}]
      /\ drawn' = [drawn EXCEPT ![r] = {}]
      /\ reach' = [reach EXCEPT ![r] = {}]
    BY DEF Fails, Leave, IInv, AskTypeOK
<1>2. OnlyAsk(r)
    BY <1>1 DEF OnlyAsk, IInv, AskTypeOK
<1>3. AskTypeOK'
    BY <1>1 DEF IInv, AskTypeOK, Labels, Ended
<1>4. AskOK(r)'
    BY <1>1 DEF AskOK, Ended, ModelCalls, IInv, AskTypeOK
<1> QED
    BY <1>2, <1>3, <1>4, OneAsk

\* It goes on to another await, naming what it named before.
LEMMA GotoKeeps ==
    ASSUME IInv, NEW r \in Asks, pc[r] \notin Ended \cup {"confirm"},
           NEW label \in ModelCalls \cup {"retrieve"}, Goto(r, label),
           UNCHANGED <<granted, current, session, thread, scope, cited, drawn, reach>>,
           GateInv', Served' \subseteq Served \ {r}
    PROVE  IInv'
PROOF
<1>1. pc' = [pc EXCEPT ![r] = label] /\ phase' = [phase EXCEPT ![r] = "want"]
    BY DEF Goto
<1>2. OnlyAsk(r) /\ AskTypeOK'
    BY <1>1 DEF OnlyAsk, IInv, AskTypeOK, Labels, ModelCalls
<1>3. AskOK(r)'
    BY <1>1 DEF IInv, AskTypeOK, AskOK, Ended, ModelCalls
<1> QED
    BY <1>2, <1>3, OneAsk DEF Ended

LEMMA AnswerOverKeeps ==
    ASSUME IInv, NEW r \in Asks, pc[r] \notin Ended, AnswerOver(r),
           UNCHANGED <<granted, current, session, thread, scope, cited, drawn>>,
           GateInv', Served' \subseteq Served \ {r}
    PROVE  IInv'
PROOF
<1>1. /\ pc' = [pc EXCEPT ![r] = "confirm"] /\ phase' = [phase EXCEPT ![r] = "want"]
      /\ reach' = [reach EXCEPT ![r] = granted]
    BY DEF AnswerOver, Goto
<1>2. OnlyAsk(r) /\ AskTypeOK'
    BY <1>1 DEF OnlyAsk, IInv, AskTypeOK, Labels
<1>3. AskOK(r)'
    BY <1>1 DEF IInv, AskTypeOK, AskOK, Ended, ModelCalls
<1> QED
    BY <1>2, <1>3, OneAsk DEF Ended

-----------------------------------------------------------------------------
(* The steps of an ask                                                       *)

LEMMA BeginKeeps ==
    ASSUME IInv, NEW r \in Asks, Begin(r)
    PROVE  IInv'
PROOF
<1>1. /\ pc[r] = "idle"
      /\ UNCHANGED <<gateVars, accessVars, memoryVars, phase, scope, cited, drawn>>
    BY DEF Begin
<1>2. /\ UNCHANGED <<granted, current, session, thread>>
      /\ GateInv' /\ Served' = Served
    BY <1>1, GateUnchanged DEF IInv, accessVars, memoryVars
<1>3. r \notin Served
    BY <1>1, NotServed DEF ModelCalls
<1>4. CASE pc' = [pc EXCEPT ![r] = "load"] /\ reach' = [reach EXCEPT ![r] = granted]
    <2>1. OnlyAsk(r) /\ AskTypeOK'
        BY <1>1, <1>2, <1>4 DEF OnlyAsk, IInv, AskTypeOK, Labels
    <2>2. AskOK(r)'
        BY <1>1, <1>2, <1>4 DEF IInv, AskTypeOK, AskOK, Ended, ModelCalls
    <2> QED
        BY <1>1, <1>2, <1>3, <2>1, <2>2, OneAsk
<1>5. CASE pc' = [pc EXCEPT ![r] = "over"] /\ UNCHANGED reach
    <2>1. OnlyAsk(r) /\ AskTypeOK'
        BY <1>1, <1>2, <1>5 DEF OnlyAsk, IInv, AskTypeOK, Labels, Ended
    <2>2. AskOK(r)'
        BY <1>1, <1>2, <1>5 DEF IInv, AskTypeOK, AskOK, Ended, ModelCalls
    <2> QED
        BY <1>1, <1>2, <1>3, <2>1, <2>2, OneAsk
<1> QED
    BY <1>4, <1>5 DEF Begin

\* The history comes with the sources of its exchanges, all of them allowed.
LEMMA LoadHistoryKeeps ==
    ASSUME IInv, NEW r \in Asks, LoadHistory(r)
    PROVE  IInv'
PROOF
<1>1. pc[r] = "load" /\ UNCHANGED <<gateVars, accessVars, memoryVars>>
    BY DEF LoadHistory
<1>2. /\ UNCHANGED <<granted, current, session, thread>>
      /\ GateInv' /\ Served' = Served
    BY <1>1, GateUnchanged DEF IInv, accessVars, memoryVars
<1>3. r \notin Served
    BY <1>1, NotServed DEF ModelCalls
<1>4. CASE Fails(r)
    BY <1>1, <1>2, <1>3, <1>4, FailsKeeps
<1>5. CASE ~Fails(r)
    <2> DEFINE memory == IF inThread[r] THEN thread ELSE session
               history == AuthorizedHistory(memory, Active)
    <2>1. /\ cited' = [cited EXCEPT ![r] = UNION {e.sources : e \in history}]
          /\ drawn' = [drawn EXCEPT ![r] = UNION {drawn[e.by] : e \in history}]
          /\ \/ Goto(r, IF history = {} THEN "retrieve" ELSE "rewrite") /\ UNCHANGED reach
             \/ AnswerOver(r)
          /\ UNCHANGED scope
        BY <1>5 DEF LoadHistory
    <2>2. memory \in Seq(Entry) /\ Kept(memory)
        BY DEF IInv, AskTypeOK
    <2>3. ASSUME NEW e \in history
          PROVE  /\ e.sources \subseteq granted
                 /\ drawn[e.by] \subseteq e.sources
        <3>1. e.sources # {} /\ e.sources \subseteq Active
            BY <2>3, HistorySound
        <3>2. PICK i \in 1 .. Len(memory) : e = memory[i]
            BY <2>3, HistorySound
        <3> QED
            BY <2>2, <3>1, <3>2 DEF Kept, Active
    <2> HIDE DEF history
    <2>4. /\ cited'[r] \subseteq granted /\ drawn'[r] \subseteq cited'[r]
          /\ cited'[r] = UNION {e.sources : e \in history}
        <3>1. /\ cited'[r] = UNION {e.sources : e \in history}
              /\ drawn'[r] = UNION {drawn[e.by] : e \in history}
            BY <2>1 DEF IInv, AskTypeOK
        <3>2. UNION {e.sources : e \in history} \subseteq granted
            BY <2>3
        <3>3. UNION {drawn[e.by] : e \in history} \subseteq UNION {e.sources : e \in history}
            BY <2>3
        <3> QED
            BY <3>1, <3>2, <3>3
    <2>5. /\ \A q \in Asks \ {r} : cited'[q] = cited[q] /\ drawn'[q] = drawn[q]
          /\ cited' \in [Asks -> SUBSET Sources] /\ drawn' \in [Asks -> SUBSET Sources]
        BY <2>1, <2>4 DEF IInv, AskTypeOK
    <2>6. PICK label \in {"retrieve", "rewrite", "confirm"} :
              /\ pc' = [pc EXCEPT ![r] = label] /\ phase' = [phase EXCEPT ![r] = "want"]
              /\ IF label = "confirm" THEN reach' = [reach EXCEPT ![r] = granted] ELSE reach' = reach
        BY <2>1 DEF Goto, AnswerOver
    <2>7. OnlyAsk(r) /\ AskTypeOK'
        BY <1>2, <2>1, <2>5, <2>6 DEF OnlyAsk, IInv, AskTypeOK, Labels, ModelCalls
    <2>8. AskOK(r)'
        <3>1. granted \subseteq reach[r]
            BY <1>1 DEF IInv, AskOK, Ended, ModelCalls
        <3> QED
            BY <1>2, <2>4, <2>6, <3>1 DEF IInv, AskTypeOK, AskOK, Ended, ModelCalls
    <2> QED
        BY <1>1, <1>2, <1>3, <2>7, <2>8, OneAsk
<1> QED
    BY <1>4, <1>5

LEMMA ResolveScopeKeeps ==
    ASSUME IInv, NEW r \in Asks, ResolveScope(r)
    PROVE  IInv'
PROOF
<1>1. pc[r] = "retrieve" /\ UNCHANGED <<gateVars, accessVars, memoryVars>>
    BY DEF ResolveScope
<1>2. /\ UNCHANGED <<granted, current, session, thread>>
      /\ GateInv' /\ Served' = Served
    BY <1>1, GateUnchanged DEF IInv, accessVars, memoryVars
<1>3. r \notin Served
    BY <1>1, NotServed DEF ModelCalls
<1>4. CASE Fails(r)
    BY <1>1, <1>2, <1>3, <1>4, FailsKeeps
<1>5. CASE /\ scope' = [scope EXCEPT ![r] = Active]
           /\ pc' = [pc EXCEPT ![r] = "search"]
           /\ UNCHANGED <<phase, cited, drawn, reach>>
    <2>1. OnlyAsk(r) /\ AskTypeOK'
        BY <1>2, <1>5 DEF OnlyAsk, IInv, AskTypeOK, Labels, Active
    <2>2. AskOK(r)'
        BY <1>1, <1>2, <1>5 DEF IInv, AskTypeOK, AskOK, Ended, ModelCalls, Active
    <2> QED
        BY <1>1, <1>2, <1>3, <2>1, <2>2, OneAsk
<1> QED
    BY <1>4, <1>5 DEF ResolveScope

LEMMA SearchKeeps ==
    ASSUME IInv, NEW r \in Asks, Search(r)
    PROVE  IInv'
PROOF
<1>1. pc[r] = "search" /\ UNCHANGED <<gateVars, accessVars, memoryVars>>
    BY DEF Search
<1>2. /\ UNCHANGED <<granted, current, session, thread>>
      /\ GateInv' /\ Served' = Served
    BY <1>1, GateUnchanged DEF IInv, accessVars, memoryVars
<1>3. r \notin Served
    BY <1>1, NotServed DEF ModelCalls
<1>4. CASE Fails(r)
    BY <1>1, <1>2, <1>3, <1>4, FailsKeeps
<1>5. CASE ~Fails(r)
    <2>1. PICK found \in SUBSET scope[r] :
              /\ cited' = [cited EXCEPT ![r] = @ \cup found]
              /\ drawn' = [drawn EXCEPT ![r] = @ \cup found]
        BY <1>5 DEF Search
    <2>2. /\ scope' = [scope EXCEPT ![r] = {}]
          /\ pc' = [pc EXCEPT ![r] = "judge"] /\ phase' = [phase EXCEPT ![r] = "want"]
          /\ reach' = reach
        BY <1>5 DEF Search, Goto
    <2>3. found \subseteq Sources
        BY DEF IInv, AskTypeOK
    <2>4. OnlyAsk(r) /\ AskTypeOK'
        BY <1>2, <2>1, <2>2, <2>3 DEF OnlyAsk, IInv, AskTypeOK, Labels, ModelCalls
    <2>5. AskOK(r)'
        BY <1>1, <1>2, <2>1, <2>2 DEF IInv, AskTypeOK, AskOK, Ended, ModelCalls
    <2> QED
        BY <1>1, <1>2, <1>3, <2>4, <2>5, OneAsk
<1> QED
    BY <1>4, <1>5

LEMMA AcquireKeeps ==
    ASSUME IInv, NEW r \in Asks, Acquire(r)
    PROVE  IInv'
PROOF
<1>1. /\ pc[r] \in ModelCalls /\ phase[r] = "want"
      /\ UNCHANGED <<granted, current, session, thread>>
    BY DEF Acquire, accessVars, memoryVars
<1>2. r \in Callers /\ r \notin Served /\ GateInv
    BY <1>1, AskAssumption, NotServed DEF IInv
<1>3. CASE /\ AcquirePermit(r) \/ AcquireQueued(r)
           /\ phase' = [phase EXCEPT ![r] = "wait"]
           /\ UNCHANGED <<pc, scope, cited, drawn, reach>>
    <2>1. GateInv' /\ Served' = Served \cup {r}
        BY <1>2, <1>3, AcquirePermitKeeps, AcquireQueuedKeeps DEF Idle, Served
    <2>2. OnlyAsk(r) /\ AskTypeOK'
        BY <1>1, <1>3 DEF OnlyAsk, IInv, AskTypeOK, AtWork
    <2>3. AskOK(r)'
        BY <1>1, <1>3 DEF IInv, AskOK
    <2>4. pc[r] # "over" /\ pc'[r] \in ModelCalls /\ phase'[r] \in AtWork
        BY <1>1, <1>3 DEF ModelCalls, AtWork, IInv, AskTypeOK
    <2> QED
        BY <1>1, <2>1, <2>2, <2>3, <2>4, OneAsk
<1>4. CASE Fails(r) /\ UNCHANGED gateVars
    <2>1. GateInv' /\ Served' = Served
        BY <1>2, <1>4, GateUnchanged
    <2> QED
        BY <1>1, <1>2, <1>4, <2>1, FailsKeeps DEF ModelCalls
<1> QED
    BY <1>3, <1>4 DEF Acquire, AcquireAborted, AcquireOverloaded

LEMMA StartCallKeeps ==
    ASSUME IInv, NEW r \in Asks, StartCall(r)
    PROVE  IInv'
PROOF
<1>1. /\ phase[r] = "wait" /\ r \in holding
      /\ UNCHANGED <<granted, current, session, thread>>
    BY DEF StartCall, accessVars, memoryVars
<1>2. r \in Callers /\ r \in Served /\ GateInv /\ pc[r] \in ModelCalls
    BY <1>1, AskAssumption DEF IInv, PermitsAtWork, Served
<1>3. CASE /\ phase' = [phase EXCEPT ![r] = "run"]
           /\ UNCHANGED <<gateVars, pc, scope, cited, drawn, reach>>
    <2>1. GateInv' /\ Served' = Served
        BY <1>2, <1>3, GateUnchanged
    <2>2. OnlyAsk(r) /\ AskTypeOK'
        BY <1>1, <1>3 DEF OnlyAsk, IInv, AskTypeOK, AtWork
    <2>3. AskOK(r)'
        BY <1>1, <1>3 DEF IInv, AskOK
    <2>4. pc[r] # "over" /\ pc'[r] \in ModelCalls /\ phase'[r] \in AtWork
        BY <1>2, <1>3 DEF ModelCalls, AtWork, IInv, AskTypeOK
    <2> QED
        BY <1>1, <2>1, <2>2, <2>3, <2>4, OneAsk
<1>4. CASE Release(r) /\ Fails(r)
    <2>1. GateInv' /\ Served' \subseteq Served \ {r}
        BY <1>2, <1>4, ReleaseKeeps
    <2> QED
        BY <1>1, <1>2, <1>4, <2>1, FailsKeeps DEF ModelCalls
<1> QED
    BY <1>3, <1>4 DEF StartCall

LEMMA WaitFailsKeeps ==
    ASSUME IInv, NEW r \in Asks, WaitFails(r), pc[r] # "over"
    PROVE  IInv'
PROOF
<1>1. Fails(r) /\ UNCHANGED <<granted, current, session, thread>>
    BY DEF WaitFails, accessVars, memoryVars
<1>2. r \in Callers /\ GateInv
    BY AskAssumption DEF IInv
<1>3. GateInv' /\ Served' \subseteq Served \ {r}
    BY <1>2, LeaveQueueKeeps, GateUnchanged DEF WaitFails, Served
<1> QED
    BY <1>1, <1>3, FailsKeeps

LEMMA CallReturnsKeeps ==
    ASSUME IInv, NEW r \in Asks, CallReturns(r)
    PROVE  IInv'
PROOF
<1>1. /\ phase[r] = "run" /\ Release(r)
      /\ UNCHANGED <<granted, current, session, thread>>
    BY DEF CallReturns, accessVars, memoryVars
<1>2. r \in Callers /\ r \in holding
    BY <1>1, AskAssumption DEF Release
<1>3. pc[r] \in ModelCalls
    BY <1>2 DEF IInv, PermitsAtWork
<1>4. GateInv' /\ Served' \subseteq Served \ {r}
    BY <1>1, <1>2, ReleaseKeeps DEF IInv
<1>5. CASE Fails(r)
    BY <1>1, <1>3, <1>4, <1>5, FailsKeeps DEF ModelCalls
<1>6. CASE ~Fails(r)
    <2>1. UNCHANGED <<scope, cited, drawn>>
        BY <1>6 DEF CallReturns
    <2>2. CASE phase' = [phase EXCEPT ![r] = "want"] /\ UNCHANGED <<pc, reach>>
        <3>1. OnlyAsk(r) /\ AskTypeOK'
            BY <1>1, <2>1, <2>2 DEF OnlyAsk, IInv, AskTypeOK
        <3>2. AskOK(r)'
            BY <1>1, <2>1, <2>2 DEF IInv, AskOK
        <3> QED
            BY <1>1, <1>3, <1>4, <3>1, <3>2, OneAsk DEF ModelCalls
    <2>3. CASE AnswerOver(r)
        BY <1>1, <1>3, <1>4, <2>1, <2>3, AnswerOverKeeps DEF ModelCalls, Ended
    <2>4. CASE UNCHANGED reach /\ \E label \in ModelCalls \cup {"retrieve"} : Goto(r, label)
        BY <1>1, <1>3, <1>4, <2>1, <2>4, GotoKeeps DEF ModelCalls, Ended
    <2> QED
        BY <1>6, <2>2, <2>3, <2>4 DEF CallReturns, ModelCalls
<1> QED
    BY <1>5, <1>6

LEMMA NoCallKeeps ==
    ASSUME IInv, NEW r \in Asks, NoCall(r)
    PROVE  IInv'
PROOF
<1>1. /\ pc[r] \in {"judge", "answer"} /\ phase[r] = "want"
      /\ UNCHANGED <<gateVars, scope, cited, drawn>>
      /\ UNCHANGED <<granted, current, session, thread>>
    BY DEF NoCall, accessVars, memoryVars
<1>2. GateInv' /\ Served' = Served /\ r \notin Served
    BY <1>1, GateUnchanged, NotServed DEF IInv
<1>3. CASE Goto(r, "retrieve") /\ UNCHANGED reach
    BY <1>1, <1>2, <1>3, GotoKeeps DEF Ended
<1>4. CASE AnswerOver(r)
    BY <1>1, <1>2, <1>4, AnswerOverKeeps DEF Ended
<1> QED
    BY <1>3, <1>4 DEF NoCall

\* The last check covers what is named, and with it what is drawn on.
LEMMA ConfirmKeeps ==
    ASSUME IInv, NEW r \in Asks, Confirm(r)
    PROVE  IInv'
PROOF
<1>1. pc[r] = "confirm" /\ UNCHANGED <<gateVars, granted, current, session, thread>>
    BY DEF Confirm, accessVars, memoryVars
<1>2. GateInv' /\ Served' = Served /\ r \notin Served
    BY <1>1, GateUnchanged, NotServed DEF IInv, ModelCalls
<1>3. CASE Fails(r)
    BY <1>1, <1>2, <1>3, FailsKeeps
<1>4. CASE /\ Check(r) /\ Goto(r, "save")
           /\ UNCHANGED <<scope, cited, drawn, reach>>
    <2>1. pc' = [pc EXCEPT ![r] = "save"] /\ phase' = [phase EXCEPT ![r] = "want"]
        BY <1>4 DEF Goto
    <2>2. cited[r] \subseteq granted
        BY <1>4 DEF Check, Permitted, Active
    <2>3. OnlyAsk(r) /\ AskTypeOK'
        BY <1>1, <1>4, <2>1 DEF OnlyAsk, IInv, AskTypeOK, Labels
    <2>4. AskOK(r)'
        BY <1>1, <1>4, <2>1, <2>2 DEF IInv, AskTypeOK, AskOK, Ended, ModelCalls
    <2> QED
        BY <1>1, <1>2, <2>3, <2>4, OneAsk
<1> QED
    BY <1>3, <1>4 DEF Confirm

-----------------------------------------------------------------------------
(* What is stored                                                            *)

\* An ask ends with its exchange at the end of one memory, which may have
\* dropped exchanges from its head.
LEMMA StoredKept ==
    ASSUME IInv, NEW r \in Asks, pc[r] = "save", Leave(r, TRUE),
           NEW seq \in Seq(Entry), Kept(seq)
    PROVE  /\ \A i \in 1 .. Len(seq) :
                 /\ pc'[seq[i].by] = "over"
                 /\ seq[i].sources # {} => drawn'[seq[i].by] \subseteq seq[i].sources
           /\ pc'[r] = "over" /\ drawn'[r] \subseteq cited[r]
PROOF
<1>1. pc' = [pc EXCEPT ![r] = "over"] /\ drawn' = [drawn EXCEPT ![r] = drawn[r]]
    BY DEF Leave, IInv, AskTypeOK
<1>2. drawn' = drawn /\ drawn[r] \subseteq cited[r]
    BY <1>1 DEF IInv, AskTypeOK, AskOK
<1>3. ASSUME NEW i \in 1 .. Len(seq)
      PROVE  seq[i].by \in Asks
    <2>1. seq[i] \in Entry
        OBVIOUS
    <2> QED
        BY <2>1 DEF Entry
<1> QED
    BY <1>1, <1>2, <1>3 DEF Kept, IInv, AskTypeOK

LEMMA LatestOf ==
    ASSUME NEW seq \in Seq(Entry)
    PROVE  /\ Latest(seq) \in Seq(Entry)
           /\ \A i \in 1 .. Len(Latest(seq)) : \E j \in 1 .. Len(seq) : Latest(seq)[i] = seq[j]
PROOF
<1>1. CASE Len(seq) <= MaxTurns
    BY <1>1 DEF Latest
<1>2. CASE ~(Len(seq) <= MaxTurns)
    <2> DEFINE k == Len(seq) - MaxTurns + 1
    <2>1. k \in 1 .. Len(seq) /\ Latest(seq) = SubSeq(seq, k, Len(seq))
        BY <1>2, MemoryAssumption DEF Latest
    <2> HIDE DEF k
    <2>2. /\ Latest(seq) \in Seq(Entry) /\ Len(Latest(seq)) = Len(seq) - k + 1
          /\ \A i \in 1 .. Len(Latest(seq)) : Latest(seq)[i] = seq[k + i - 1]
        BY <2>1
    <2>3. ASSUME NEW i \in 1 .. Len(Latest(seq))
          PROVE  k + i - 1 \in 1 .. Len(seq)
        BY <2>1, <2>2, <2>3
    <2> QED
        BY <2>2, <2>3
<1> QED
    BY <1>1, <1>2

LEMMA SaveKeeps ==
    ASSUME IInv, NEW r \in Asks, Save(r)
    PROVE  IInv'
PROOF
<1>1. pc[r] = "save" /\ UNCHANGED <<gateVars, granted, current>>
    BY DEF Save, accessVars
<1>2. GateInv' /\ Served' = Served /\ r \notin Served
    BY <1>1, GateUnchanged, NotServed DEF IInv, ModelCalls
<1>3. CASE Leave(r, FALSE) /\ UNCHANGED memoryVars
    BY <1>1, <1>2, <1>3, FailsKeeps DEF Fails, memoryVars
<1>4. CASE /\ Leave(r, TRUE)
           /\ IF inThread[r] THEN AppendThread(Exchange(r, cited[r]))
                             ELSE AppendSession(Exchange(r, cited[r]))
    <2> DEFINE e == Exchange(r, cited[r])
    <2>1. /\ e \in Entry /\ e.by = r
          /\ e.sources # {} => e.sources = cited[r]
        BY DEF Exchange, Provenance, Entry, IInv, AskTypeOK
    <2> HIDE DEF e
    <2>2. /\ pc' = [pc EXCEPT ![r] = "over"]
          /\ phase' = [phase EXCEPT ![r] = "want"]
          /\ scope' = [scope EXCEPT ![r] = {}]
          /\ cited' = [cited EXCEPT ![r] = {}]
          /\ drawn' = drawn
          /\ reach' = [reach EXCEPT ![r] = {}]
        BY <1>4 DEF Leave, IInv, AskTypeOK
    <2>3. session \in Seq(Entry) /\ thread \in Seq(Entry) /\ Kept(session) /\ Kept(thread)
        BY DEF IInv, AskTypeOK
    <2>4. ASSUME NEW seq \in Seq(Entry), Kept(seq)
          PROVE  /\ Append(seq, e) \in Seq(Entry)
                 /\ \A i \in 1 .. Len(Append(seq, e)) :
                       LET x == Append(seq, e)[i]
                       IN  pc'[x.by] = "over" /\ (x.sources # {} => drawn'[x.by] \subseteq x.sources)
        <3>1. /\ \A i \in 1 .. Len(seq) :
                    /\ pc'[seq[i].by] = "over"
                    /\ seq[i].sources # {} => drawn'[seq[i].by] \subseteq seq[i].sources
              /\ pc'[r] = "over" /\ drawn'[r] \subseteq cited[r]
            BY <1>1, <1>4, <2>4, StoredKept
        <3>2. /\ Append(seq, e) \in Seq(Entry) /\ Len(Append(seq, e)) = Len(seq) + 1
              /\ Append(seq, e)[Len(seq) + 1] = e
              /\ \A i \in 1 .. Len(seq) : Append(seq, e)[i] = seq[i]
            BY <2>1
        <3> QED
            BY <2>1, <3>1, <3>2
    <2>5. /\ session' \in Seq(Entry) /\ Kept(session)'
          /\ thread' \in Seq(Entry) /\ Kept(thread)'
        <3>1. CASE session' = Latest(Append(session, e)) /\ thread' = thread
            <4>1. session' \in Seq(Entry)
                BY <2>3, <2>4, <3>1, LatestOf
            <4>2. Kept(session)'
                <5> DEFINE all == Append(session, e)
                <5>1. /\ all \in Seq(Entry)
                      /\ \A i \in 1 .. Len(all) :
                            /\ pc'[all[i].by] = "over"
                            /\ all[i].sources # {} => drawn'[all[i].by] \subseteq all[i].sources
                    BY <2>3, <2>4
                <5> HIDE DEF all
                <5>2. \A i \in 1 .. Len(Latest(all)) : \E j \in 1 .. Len(all) : Latest(all)[i] = all[j]
                    BY <5>1, LatestOf
                <5>3. session' = Latest(all)
                    BY <3>1 DEF all
                <5>4. \A i \in 1 .. Len(session') :
                          /\ pc'[session'[i].by] = "over"
                          /\ session'[i].sources # {} =>
                                drawn'[session'[i].by] \subseteq session'[i].sources
                    BY <5>1, <5>2, <5>3
                <5> QED
                    BY <5>4 DEF Kept
            <4>3. Kept(thread)'
                BY <1>1, <1>4, <2>3, <3>1, StoredKept DEF Kept
            <4> QED
                BY <2>3, <3>1, <4>1, <4>2, <4>3
        <3>2. CASE thread' = Append(thread, e) /\ session' = session
            <4>1. Kept(thread)'
                BY <2>3, <2>4, <3>2 DEF Kept
            <4>2. Kept(session)'
                BY <1>1, <1>4, <2>3, <3>2, StoredKept DEF Kept
            <4> QED
                BY <2>3, <2>4, <3>2, <4>1, <4>2
        <3> QED
            BY <1>4, <3>1, <3>2 DEF AppendThread, AppendSession, e
    <2>6. AskTypeOK'
        BY <1>1, <2>2, <2>5 DEF IInv, AskTypeOK, Labels, Ended
    <2>7. PermitsAtWork'
        BY <1>2, <2>2 DEF PermitsAtWork, IInv, AskTypeOK, Served
    <2>8. ASSUME NEW q \in Asks
          PROVE  AskOK(q)'
        BY <1>1, <2>2 DEF IInv, AskTypeOK, AskOK, Ended, ModelCalls
    <2> QED
        BY <1>2, <2>5, <2>6, <2>7, <2>8 DEF IInv
<1> QED
    BY <1>3, <1>4 DEF Save

-----------------------------------------------------------------------------
(* The steps of the others                                                   *)

LEMMA AccessKeeps ==
    ASSUME IInv, AccessChanges
    PROVE  IInv'
PROOF
<1>1. /\ reach' = [r \in Asks |-> IF pc[r] \in Ended THEN reach[r] ELSE reach[r] \cup granted']
      /\ UNCHANGED <<gateVars, session, thread, pc, phase, scope, cited, drawn>>
    BY DEF AccessChanges, memoryVars
<1>2. granted' \subseteq Sources /\ current' \subseteq Sources
    BY DEF AccessChanges, Revoke, Grant, Supersede, LeaveLibrary, IInv, AskTypeOK
<1>3. GateInv' /\ Served' = Served
    BY <1>1, GateUnchanged DEF IInv
<1>4. AskTypeOK'
    BY <1>1, <1>2 DEF IInv, AskTypeOK
<1>5. ASSUME NEW r \in Asks
      PROVE  AskOK(r)'
    BY <1>1 DEF IInv, AskOK, Ended, ModelCalls
<1>6. PermitsAtWork' /\ Kept(session)' /\ Kept(thread)'
    BY <1>1, <1>3 DEF IInv, PermitsAtWork, Kept, Served
<1> QED
    BY <1>3, <1>4, <1>5, <1>6 DEF IInv

LEMMA MemoryKeeps ==
    ASSUME IInv, MemoryChanges
    PROVE  IInv'
PROOF
<1>1. UNCHANGED <<gateVars, granted, current, pc, phase, scope, cited, drawn, reach>>
    BY DEF MemoryChanges, accessVars, askVars
<1>2. GateInv' /\ Served' = Served
    BY <1>1, GateUnchanged DEF IInv
<1>3. \/ session' = <<>> /\ thread' = thread
      \/ thread' = session /\ session' = session
    BY DEF MemoryChanges, SessionExpired, Archive
<1>4. AskTypeOK'
    <2>1. session' \in Seq(Entry) /\ thread' \in Seq(Entry)
        <3>1. session \in Seq(Entry) /\ thread \in Seq(Entry) /\ <<>> \in Seq(Entry)
            BY DEF IInv, AskTypeOK
        <3> QED
            BY <1>3, <3>1
    <2> QED
        BY <1>1, <2>1 DEF IInv, AskTypeOK
<1>5. Kept(session)' /\ Kept(thread)'
    BY <1>1, <1>3 DEF IInv, Kept
<1>6. ASSUME NEW r \in Asks
      PROVE  AskOK(r)'
    BY <1>1 DEF IInv, AskOK
<1>7. PermitsAtWork'
    BY <1>1, <1>2 DEF IInv, PermitsAtWork, Served
<1> QED
    BY <1>2, <1>4, <1>5, <1>6, <1>7 DEF IInv

\* The gate moves for others than the asks, or because a client left.
LEMMA GateMovesKeeps ==
    ASSUME IInv, UNCHANGED <<accessVars, memoryVars, askVars>>, GateInv',
           \A r \in Asks : r \in Served' => r \in Served
    PROVE  IInv'
PROOF
<1>1. UNCHANGED <<granted, current, session, thread, pc, phase, scope, cited, drawn, reach>>
    BY DEF accessVars, memoryVars, askVars
<1>2. AskTypeOK' /\ Kept(session)' /\ Kept(thread)'
    BY <1>1 DEF IInv, AskTypeOK, Kept
<1>3. ASSUME NEW r \in Asks
      PROVE  AskOK(r)'
    BY <1>1 DEF IInv, AskOK
<1>4. PermitsAtWork'
    BY <1>1 DEF IInv, PermitsAtWork, Served
<1> QED
    BY <1>2, <1>3, <1>4 DEF IInv

LEMMA OthersKeep ==
    ASSUME IInv, OtherCalls \/ \E r \in Asks : Disconnect(r)
    PROVE  IInv'
PROOF
<1>1. CASE OtherCalls
    <2>1. PICK c \in Callers \ Asks :
              \/ Idle(c) /\ (AcquirePermit(c) \/ AcquireQueued(c))
              \/ LeaveQueue(c)
              \/ Release(c)
        BY <1>1 DEF OtherCalls
    <2>2. GateInv' /\ Served' \subseteq Served \cup {c}
        BY <2>1, AcquirePermitKeeps, AcquireQueuedKeeps, LeaveQueueKeeps, ReleaseKeeps DEF IInv
    <2> QED
        BY <1>1, <2>1, <2>2, GateMovesKeeps DEF OtherCalls
<1>2. ASSUME NEW r \in Asks, Disconnect(r)
      PROVE  IInv'
    <2>1. GateInv' /\ Served' = Served
        BY <1>2, AskAssumption, SignalAbortedKeeps DEF Disconnect, IInv
    <2> QED
        BY <1>2, <2>1, GateMovesKeeps DEF Disconnect
<1> QED
    BY <1>1, <1>2

-----------------------------------------------------------------------------
LEMMA AskInvariant == Spec => []IInv
PROOF
<1>1. Init => IInv
    <2> SUFFICES ASSUME Init PROVE IInv
        OBVIOUS
    <2>1. GateInv /\ holding = {} /\ Waiting = {}
        BY GateInvInit DEF Init, GateInit, Waiting
    <2> QED
        BY <2>1 DEF Init, AccessInit, MemoryInit, IInv, PermitsAtWork, AskTypeOK, Labels, Ended, AskOK, Kept
<1>2. IInv /\ [Next]_vars => IInv'
    <2> SUFFICES ASSUME IInv, [Next]_vars
                 PROVE  IInv'
        OBVIOUS
    <2>1. CASE UNCHANGED vars
        <3>1. GateInv' /\ Served' = Served
            BY <2>1, GateUnchanged DEF vars, IInv
        <3> QED
            BY <2>1, <3>1, GateMovesKeeps DEF vars
    <2>2. CASE Next
        <3>1. ASSUME NEW r \in Asks, AskStep(r)
              PROVE  IInv'
            <4>1. CASE WaitFails(r)
                <5>1. pc[r] # "over"
                    BY <4>1 DEF WaitFails, IInv, AskOK, ModelCalls
                <5> QED
                    BY <4>1, <5>1, WaitFailsKeeps
            <4> QED
                BY <3>1, <4>1, BeginKeeps, LoadHistoryKeeps, ResolveScopeKeeps, SearchKeeps, AcquireKeeps,
                   StartCallKeeps, CallReturnsKeeps, NoCallKeeps, ConfirmKeeps, SaveKeeps DEF AskStep
        <3> QED
            BY <2>2, <3>1, AccessKeeps, MemoryKeeps, OthersKeep DEF Next
    <2> QED
        BY <2>1, <2>2
<1> QED
    BY <1>1, <1>2, PTL DEF Spec

(***************************************************************************)
(* An answer that is about to be stored draws on nothing that was out of   *)
(* reach ever since its ask began, nor since its text was complete.        *)
(***************************************************************************)
THEOREM WithinReach == Spec => []AnswersStayWithinReach
PROOF
<1>1. IInv => AnswersStayWithinReach
    BY DEF IInv, AskOK, AnswersStayWithinReach, Ended
<1> QED
    BY <1>1, AskInvariant, PTL

(***************************************************************************)
(* What the memory keeps for reuse names every source it draws on, however *)
(* many exchanges one was built on.                                        *)
(***************************************************************************)
THEOREM MemoryNamesItsSources == Spec => []NoLaundering
PROOF
<1>1. IInv => NoLaundering
    BY DEF IInv, Kept, NoLaundering
<1> QED
    BY <1>1, AskInvariant, PTL

(***************************************************************************)
(* Every way out of the handler gives back its permit or its place in the  *)
(* queue, and the gate stays as GateInv has it under the asks.             *)
(***************************************************************************)
THEOREM NoPermitLeaks == Spec => [](GateInv /\ PermitsAtWork)
PROOF
<1>1. IInv => GateInv /\ PermitsAtWork
    BY DEF IInv
<1> QED
    BY <1>1, AskInvariant, PTL
=============================================================================
