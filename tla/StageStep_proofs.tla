-------------------------- MODULE StageStep_proofs --------------------------
(***************************************************************************)
(* The calls of an ingest's stage step: the parse of the document, for any  *)
(* number of parses, permits and attempts; the nodes of what MinerU has     *)
(* parsed, for any list of its content; the embeddings a provider is        *)
(* asked for, for any batches, attempts and limits of time; the points      *)
(* written, for any manifests, size of the batches and number of retries.   *)
(***************************************************************************)
EXTENDS LocalParser, ContentNodes, ProviderCall, StagedGeneration,
        FiniteSetTheorems, SequenceTheorems, TLAPS

(***************************************************************************)
(* The parse: the semaphore counts right, forgets nobody, and bounds the    *)
(* native work.                                                             *)
(***************************************************************************)

\* The semaphore by itself.
SemaphoreInv ==
    /\ active \in Nat
    /\ waiters \in Seq(Holders)
    /\ permit \in [Holders -> {"none", "waiting", "held"}]
    /\ IsFiniteSet(Held)
    /\ PermitsCounted
    /\ NobodyForgotten

\* Its users: native work has a permit, who asks for one has none yet, and a
\* cancelled task knows it.
UserInv ==
    /\ \A h \in Holders : native[h] = "running" => permit[h] = "held"
    /\ \A p \in Parses :
        /\ run[p] \in {"parsing", "draining"} => native[Task(p)] = "running"
        /\ call[p] = "inspecting" => native[Analysis(p)] = "running"
        /\ run[p] = "acquiring" => native[Task(p)] # "running"
        /\ call[p] = "loading" => native[Analysis(p)] # "running"
        /\ call[p] = "idle" => permit[Analysis(p)] = "none"
        /\ \A k \in 1 .. MaxAttempts : k > attempt[p] => permit[<<p, k>>] = "none"
        /\ status[p] = "none" => permit[Task(p)] = "none"
        /\ status[p] = "cancelled" => aborted[p]

ParserInv == TypeOK /\ SemaphoreInv /\ UserInv

-----------------------------------------------------------------------------
(* The semaphore's operations                                                *)

\* Who a semaphore operation of h may change: h itself, and one that waited.
OthersKeep(h) ==
    \A g \in Holders \ {h} : permit'[g] = permit[g] \/ (permit[g] = "waiting" /\ permit'[g] = "held")

\* acquire, by someone without a permit.
LEMMA AcquireKeeps ==
    ASSUME SemaphoreInv, NEW h \in Holders, permit[h] = "none", Acquire(h)
    PROVE  SemaphoreInv' /\ OthersKeep(h) /\ permit'[h] # "none"
PROOF
<1>1. CASE /\ active < Slots
           /\ active' = active + 1
           /\ permit' = [permit EXCEPT ![h] = "held"]
           /\ UNCHANGED waiters
    <2>1. Held' = Held \cup {h} /\ h \notin Held
        BY <1>1 DEF SemaphoreInv, Held
    <2>2. IsFiniteSet(Held') /\ Cardinality(Held') = Cardinality(Held) + 1
        BY <2>1, FS_AddElement DEF SemaphoreInv
    <2>3. PermitsCounted'
        BY <1>1, <2>2, ParserAssumption DEF SemaphoreInv, PermitsCounted
    <2>4. waiters = <<>>
        BY <1>1, ParserAssumption DEF SemaphoreInv, NobodyForgotten
    <2>5. NobodyForgotten'
        BY <1>1, <2>4 DEF SemaphoreInv, NobodyForgotten
    <2> QED
        BY <1>1, <2>2, <2>3, <2>5 DEF SemaphoreInv, OthersKeep
<1>2. CASE /\ active >= Slots
           /\ waiters' = Append(waiters, h)
           /\ permit' = [permit EXCEPT ![h] = "waiting"]
           /\ UNCHANGED active
    <2>1. Held' = Held
        BY <1>2 DEF SemaphoreInv, Held
    <2>2. PermitsCounted'
        BY <1>2, <2>1 DEF SemaphoreInv, PermitsCounted
    <2>3. waiters' \in Seq(Holders) /\ Len(waiters') = Len(waiters) + 1
        BY <1>2 DEF SemaphoreInv
    <2>4. /\ waiters'[Len(waiters) + 1] = h
          /\ \A i \in DOMAIN waiters : waiters'[i] = waiters[i]
          /\ DOMAIN waiters' = DOMAIN waiters \cup {Len(waiters) + 1}
        BY <1>2 DEF SemaphoreInv
    <2>5. \A i \in DOMAIN waiters : waiters[i] # h /\ waiters[i] \in Holders
        BY DEF SemaphoreInv, NobodyForgotten
    <2>6. active' = Slots
        BY <1>2, ParserAssumption DEF SemaphoreInv, PermitsCounted
    <2>7. \A g \in Holders : permit'[g] = "waiting" <=> \E i \in DOMAIN waiters' : waiters'[i] = g
        BY <1>2, <2>4, <2>5 DEF SemaphoreInv, NobodyForgotten
    <2>8. \A i, j \in DOMAIN waiters' : waiters'[i] = waiters'[j] => i = j
        BY <2>4, <2>5 DEF SemaphoreInv, NobodyForgotten
    <2>9. NobodyForgotten'
        BY <2>6, <2>7, <2>8 DEF NobodyForgotten
    <2> QED
        BY <1>2, <2>1, <2>2, <2>3, <2>9 DEF SemaphoreInv, OthersKeep
<1> QED
    BY <1>1, <1>2 DEF Acquire

\* release, by someone who has a permit.
LEMMA ReleaseKeeps ==
    ASSUME SemaphoreInv, NEW h \in Holders, permit[h] = "held", Release(h)
    PROVE  SemaphoreInv' /\ OthersKeep(h) /\ permit'[h] = "none"
PROOF
<1>1. h \in Held /\ Cardinality(Held \ {h}) = Cardinality(Held) - 1 /\ IsFiniteSet(Held \ {h})
    BY FS_RemoveElement DEF SemaphoreInv, Held
<1>2. CASE /\ waiters = <<>>
           /\ active' = active - 1
           /\ permit' = [permit EXCEPT ![h] = "none"]
           /\ UNCHANGED waiters
    <2>1. Held' = Held \ {h}
        BY <1>2 DEF SemaphoreInv, Held
    <2>2. PermitsCounted' /\ active' \in Nat
        <3>1. Cardinality(Held') = active - 1 /\ Cardinality(Held') \in Nat
            BY <1>1, <2>1, FS_CardinalityType DEF SemaphoreInv, PermitsCounted
        <3> QED
            BY <1>2, <3>1, ParserAssumption DEF SemaphoreInv, PermitsCounted
    <2>3. NobodyForgotten'
        BY <1>2 DEF SemaphoreInv, NobodyForgotten
    <2> QED
        BY <1>1, <1>2, <2>1, <2>2, <2>3 DEF SemaphoreInv, OthersKeep
<1>3. CASE /\ waiters # <<>>
           /\ permit' = [permit EXCEPT ![h] = "none", ![Head(waiters)] = "held"]
           /\ waiters' = Tail(waiters)
           /\ UNCHANGED active
    <2> DEFINE w == Head(waiters)
    <2>1. /\ w = waiters[1] /\ 1 \in DOMAIN waiters
          /\ waiters' \in Seq(Holders)
          /\ DOMAIN waiters' = 1 .. Len(waiters) - 1
          /\ \A i \in DOMAIN waiters' : waiters'[i] = waiters[i + 1] /\ i + 1 \in DOMAIN waiters
        BY <1>3 DEF SemaphoreInv
    <2>2. w \in Holders /\ permit[w] = "waiting" /\ w # h
        BY <2>1 DEF SemaphoreInv, NobodyForgotten
    <2>3. /\ permit' \in [Holders -> {"none", "waiting", "held"}]
          /\ permit'[h] = "none" /\ permit'[w] = "held"
          /\ \A g \in Holders \ {h, w} : permit'[g] = permit[g]
        BY <1>3, <2>2 DEF SemaphoreInv
    <2>4. Held' = (Held \ {h}) \cup {w} /\ w \notin Held \ {h}
        BY <2>2, <2>3 DEF Held
    <2>5. IsFiniteSet(Held') /\ Cardinality(Held') = Cardinality(Held)
        <3>1. Cardinality(Held') = Cardinality(Held \ {h}) + 1 /\ IsFiniteSet(Held')
            BY <1>1, <2>4, FS_AddElement
        <3> QED
            BY <1>1, <3>1, FS_CardinalityType DEF SemaphoreInv
    <2>6. PermitsCounted'
        BY <1>3, <2>5 DEF SemaphoreInv, PermitsCounted
    <2>7. waiters' # <<>> => active' = Slots
        BY <1>3 DEF SemaphoreInv, NobodyForgotten
    <2>8. \A i, j \in DOMAIN waiters' : waiters'[i] = waiters'[j] => i = j
        BY <2>1 DEF SemaphoreInv, NobodyForgotten
    <2>9. ASSUME NEW g \in Holders
          PROVE  permit'[g] = "waiting" <=> \E i \in DOMAIN waiters' : waiters'[i] = g
        <3>1. ASSUME permit'[g] = "waiting" PROVE \E i \in DOMAIN waiters' : waiters'[i] = g
            <4>1. permit[g] = "waiting" /\ g # w
                BY <2>3, <3>1
            <4>2. PICK j \in DOMAIN waiters : waiters[j] = g
                BY <4>1 DEF SemaphoreInv, NobodyForgotten
            <4>3. j # 1 /\ j \in 1 .. Len(waiters)
                BY <2>1, <4>1, <4>2 DEF SemaphoreInv
            <4>4. j - 1 \in DOMAIN waiters' /\ waiters'[j - 1] = waiters[j]
                BY <2>1, <4>3 DEF SemaphoreInv
            <4> QED
                BY <4>2, <4>4
        <3>2. ASSUME NEW i \in DOMAIN waiters', waiters'[i] = g PROVE permit'[g] = "waiting"
            <4>1. waiters[i + 1] = g /\ i + 1 \in DOMAIN waiters /\ i + 1 # 1
                BY <2>1, <3>2
            <4>2. permit[g] = "waiting" /\ g # w
                BY <2>1, <4>1 DEF SemaphoreInv, NobodyForgotten
            <4> QED
                BY <2>3, <4>2
        <3> QED
            BY <3>1, <3>2
    <2> QED
        BY <1>3, <2>1, <2>2, <2>3, <2>5, <2>6, <2>7, <2>8, <2>9
        DEF SemaphoreInv, NobodyForgotten, OthersKeep
<1> QED
    BY <1>2, <1>3 DEF Release

\* What RemoveAt of the community modules returns.
LEMMA RemoveAtProperties ==
    ASSUME NEW S, NEW s \in Seq(S), NEW i \in DOMAIN s
    PROVE  /\ RemoveAt(s, i) \in Seq(S)
           /\ DOMAIN RemoveAt(s, i) = 1 .. Len(s) - 1
           /\ \A j \in 1 .. Len(s) - 1 : RemoveAt(s, i)[j] = IF j < i THEN s[j] ELSE s[j + 1]
PROOF
<1> DEFINE front == SubSeq(s, 1, i - 1)
           rest == SubSeq(s, i + 1, Len(s))
<1>1. i \in 1 .. Len(s) /\ Len(s) \in Nat /\ s \in [1 .. Len(s) -> S]
    OBVIOUS
<1>2. /\ front \in Seq(S) /\ Len(front) = i - 1
      /\ \A j \in 1 .. i - 1 : front[j] = s[j]
    <2>1. \A j \in 1 .. i - 1 : s[j] \in S
        BY <1>1
    <2>2. /\ front \in Seq(S) /\ Len(front) = IF 1 <= i - 1 THEN i - 1 - 1 + 1 ELSE 0
          /\ \A j \in 1 .. i - 1 - 1 + 1 : front[j] = s[1 + j - 1]
        BY <1>1, <2>1, SubSeqProperties
    <2> QED
        BY <1>1, <2>2
<1>3. /\ rest \in Seq(S) /\ Len(rest) = Len(s) - i
      /\ \A j \in 1 .. Len(s) - i : rest[j] = s[i + j]
    <2>1. \A j \in i + 1 .. Len(s) : s[j] \in S
        BY <1>1
    <2>2. /\ rest \in Seq(S)
          /\ Len(rest) = IF i + 1 <= Len(s) THEN Len(s) - (i + 1) + 1 ELSE 0
          /\ \A j \in 1 .. Len(s) - (i + 1) + 1 : rest[j] = s[i + 1 + j - 1]
        BY <1>1, <2>1, SubSeqProperties
    <2> QED
        BY <1>1, <2>2
<1>4. /\ front \o rest \in Seq(S)
      /\ Len(front \o rest) = Len(s) - 1
      /\ \A j \in 1 .. Len(s) - 1 : (front \o rest)[j] = IF j < i THEN front[j] ELSE rest[j - (i - 1)]
    <2>1. /\ front \o rest \in Seq(S)
          /\ Len(front \o rest) = Len(front) + Len(rest)
          /\ \A j \in 1 .. Len(front) + Len(rest) :
                (front \o rest)[j] = IF j <= Len(front) THEN front[j] ELSE rest[j - Len(front)]
        BY <1>2, <1>3, ConcatProperties
    <2>2. Len(front) = i - 1 /\ Len(front) + Len(rest) = Len(s) - 1
        BY <1>1, <1>2, <1>3
    <2>3. \A j \in 1 .. Len(s) - 1 : j <= i - 1 <=> j < i
        BY <1>1
    <2> HIDE DEF front, rest
    <2> QED
        BY <2>1, <2>2, <2>3
<1>5. \A j \in 1 .. Len(s) - 1 : ~(j < i) => j - (i - 1) \in 1 .. Len(s) - i /\ i + (j - (i - 1)) = j + 1
    BY <1>1
<1>6. \A j \in 1 .. Len(s) - 1 : (front \o rest)[j] = IF j < i THEN s[j] ELSE s[j + 1]
    <2> HIDE DEF front, rest
    <2> SUFFICES ASSUME NEW j \in 1 .. Len(s) - 1
                 PROVE  (front \o rest)[j] = IF j < i THEN s[j] ELSE s[j + 1]
        OBVIOUS
    <2>1. CASE j < i
        BY <1>1, <1>2, <1>4, <2>1
    <2>2. CASE ~(j < i)
        BY <1>1, <1>3, <1>4, <1>5, <2>2
    <2> QED
        BY <2>1, <2>2
<1>7. RemoveAt(s, i) = front \o rest
    BY DEF RemoveAt
<1> HIDE DEF front, rest
<1>8. DOMAIN (front \o rest) = 1 .. Len(front \o rest)
    BY <1>4
<1> QED
    BY <1>4, <1>6, <1>7, <1>8

\* A waiting holder leaves the line.
LEMMA LeaveLineKeeps ==
    ASSUME SemaphoreInv, NEW h \in Holders, permit[h] = "waiting", LeaveLine(h)
    PROVE  SemaphoreInv' /\ OthersKeep(h) /\ permit'[h] = "none"
PROOF
<1>1. PICK i \in DOMAIN waiters : waiters[i] = h /\ waiters' = RemoveAt(waiters, i)
    BY DEF LeaveLine
<1>2. /\ waiters' \in Seq(Holders)
      /\ DOMAIN waiters' = 1 .. Len(waiters) - 1
      /\ \A j \in DOMAIN waiters' : waiters'[j] = IF j < i THEN waiters[j] ELSE waiters[j + 1]
    BY <1>1, RemoveAtProperties DEF SemaphoreInv
<1>3. permit' = [permit EXCEPT ![h] = "none"] /\ active' = active
    BY DEF LeaveLine
<1>4. Held' = Held
    BY <1>3 DEF SemaphoreInv, Held
<1>5. i \in 1 .. Len(waiters) /\ Len(waiters) \in Nat /\ DOMAIN waiters = 1 .. Len(waiters)
    BY <1>1 DEF SemaphoreInv
<1>6. waiters # <<>> /\ active' = Slots
    BY <1>3, <1>5 DEF SemaphoreInv, NobodyForgotten
<1>7. \A j, k \in DOMAIN waiters' : waiters'[j] = waiters'[k] => j = k
    <2> SUFFICES ASSUME NEW j \in DOMAIN waiters', NEW k \in DOMAIN waiters',
                        waiters'[j] = waiters'[k]
                 PROVE  j = k
        OBVIOUS
    <2>1. /\ waiters[IF j < i THEN j ELSE j + 1] = waiters[IF k < i THEN k ELSE k + 1]
          /\ (IF j < i THEN j ELSE j + 1) \in DOMAIN waiters
          /\ (IF k < i THEN k ELSE k + 1) \in DOMAIN waiters
        BY <1>2, <1>5
    <2>2. (IF j < i THEN j ELSE j + 1) = (IF k < i THEN k ELSE k + 1)
        BY <2>1 DEF SemaphoreInv, NobodyForgotten
    <2> QED
        BY <1>2, <1>5, <2>2
<1>8. ASSUME NEW g \in Holders
      PROVE  permit'[g] = "waiting" <=> \E j \in DOMAIN waiters' : waiters'[j] = g
    <2>1. ASSUME permit'[g] = "waiting" PROVE \E j \in DOMAIN waiters' : waiters'[j] = g
        <3>1. permit[g] = "waiting" /\ g # h
            BY <1>3, <2>1 DEF SemaphoreInv
        <3>2. PICK j \in DOMAIN waiters : waiters[j] = g
            BY <3>1 DEF SemaphoreInv, NobodyForgotten
        <3>3. j # i /\ j \in 1 .. Len(waiters)
            BY <1>1, <1>5, <3>1, <3>2
        <3>4. CASE j < i
            BY <1>2, <1>5, <3>2, <3>3, <3>4
        <3>5. CASE j > i
            <4>1. j - 1 \in DOMAIN waiters' /\ ~(j - 1 < i) /\ (j - 1) + 1 = j
                BY <1>2, <1>5, <3>3, <3>5
            <4>2. waiters'[j - 1] = waiters[j]
                BY <1>2, <4>1
            <4> QED
                BY <3>2, <4>1, <4>2
        <3> QED
            BY <1>5, <3>3, <3>4, <3>5
    <2>2. ASSUME NEW j \in DOMAIN waiters', waiters'[j] = g PROVE permit'[g] = "waiting"
        <3>1. PICK k \in DOMAIN waiters : waiters[k] = g /\ k # i
            BY <1>2, <1>5, <2>2
        <3>2. g # h
            BY <1>1, <3>1 DEF SemaphoreInv, NobodyForgotten
        <3>3. permit[g] = "waiting"
            BY <3>1 DEF SemaphoreInv, NobodyForgotten
        <3> QED
            BY <1>3, <3>2, <3>3 DEF SemaphoreInv
    <2> QED
        BY <2>1, <2>2
<1>9. NobodyForgotten'
    BY <1>6, <1>7, <1>8 DEF NobodyForgotten
<1>10. PermitsCounted'
    BY <1>3, <1>4 DEF SemaphoreInv, PermitsCounted
<1> QED
    BY <1>2, <1>3, <1>4, <1>9, <1>10 DEF SemaphoreInv, OthersKeep
-----------------------------------------------------------------------------
(* Each action keeps the invariant                                           *)

\* Tasks and analyses are holders of their own.
LEMMA HolderFacts ==
    ASSUME attempt \in [Parses -> 1 .. MaxAttempts]
    PROVE  /\ \A p \in Parses : Task(p) \in Holders /\ Analysis(p) \in Holders
           /\ \A p, q \in Parses : Task(p) # Analysis(q)
           /\ \A p, q \in Parses : (Task(p) = Task(q) \/ Analysis(p) = Analysis(q)) => p = q
           /\ \A p, q \in Parses, k \in 1 .. MaxAttempts :
                /\ <<p, k>> \in Holders
                /\ Task(q) # <<p, k>>
                /\ Analysis(q) = <<p, k>> => p = q /\ k = attempt[q]
    BY ParserAssumption DEF Holders, Task, Analysis

\* Where the permits stay as they are, the semaphore does.
LEMMA SemaphoreUnchanged == SemaphoreInv /\ UNCHANGED semVars => SemaphoreInv'
    BY DEF SemaphoreInv, semVars, Held, PermitsCounted, NobodyForgotten

\* The actions of a call that leave semaphore and native work alone.
LEMMA QuietCallKeeps ==
    ASSUME ParserInv, NEW p \in Parses,
           AnalyzeTimesOut(p) \/ SubmitKnown(p) \/ Poll(p) \/ DeadlinePasses(p)
           \/ StepAgain(p) \/ JobEnds(p)
    PROVE  ParserInv'
PROOF
<1>1. SemaphoreInv'
    BY SemaphoreUnchanged DEF ParserInv, AnalyzeTimesOut, SubmitKnown, Poll, DeadlinePasses, StepAgain,
       JobEnds
<1>2. /\ UNCHANGED <<semVars, native, taskVars>>
      /\ call' \in [Parses -> {"idle", "loading", "inspecting", "submitting", "polling", "retry"}
                           \cup CallEnds]
      /\ \/ attempt' = attempt /\ \A q \in Parses : call'[q] \in {call[q], "retry", "failed", "refused",
                                                                 "polling", "parsed"}
         \/ /\ attempt[p] < MaxAttempts
            /\ attempt' = [attempt EXCEPT ![p] = @ + 1]
            /\ call' = [call EXCEPT ![p] = "idle"]
      /\ ended' \in [Parses -> BOOLEAN]
    BY ParserAssumption DEF ParserInv, TypeOK, CallEnds, AnalyzeTimesOut, SubmitKnown, Poll, DeadlinePasses,
       StepAgain, JobEnds, GoTo, semVars, callVars, taskVars
<1>3. attempt' \in [Parses -> 1 .. MaxAttempts]
    <2>1. attempt \in [Parses -> 1 .. MaxAttempts] /\ attempt[p] \in 1 .. MaxAttempts
        BY DEF ParserInv, TypeOK
    <2>2. attempt[p] < MaxAttempts => attempt[p] + 1 \in 1 .. MaxAttempts
        BY <2>1, ParserAssumption
    <2> QED
        BY <1>2, <2>1, <2>2
<1>4. TypeOK'
    BY <1>2, <1>3 DEF ParserInv, TypeOK, semVars, taskVars
<1>5. CASE attempt' = attempt /\ \A q \in Parses : call'[q] \in {call[q], "retry", "failed", "refused",
                                                                 "polling", "parsed"}
    <2>1. UserInv'
        BY <1>2, <1>5 DEF ParserInv, UserInv, semVars, taskVars, Task, Analysis
    <2> QED
        BY <1>1, <1>4, <2>1 DEF ParserInv
<1>6. CASE /\ attempt[p] < MaxAttempts
           /\ attempt' = [attempt EXCEPT ![p] = @ + 1]
           /\ call' = [call EXCEPT ![p] = "idle"]
    <2>1. attempt'[p] = attempt[p] + 1 /\ attempt'[p] \in 1 .. MaxAttempts /\ attempt[p] \in Int
        BY <1>3, <1>6 DEF ParserInv, TypeOK
    <2>2. permit[<<p, attempt'[p]>>] = "none"
        BY <2>1 DEF ParserInv, UserInv
    <2>3. UserInv'
        BY <1>2, <1>6, <2>1, <2>2 DEF ParserInv, TypeOK, UserInv, semVars, taskVars, Task, Analysis
    <2> QED
        BY <1>1, <1>4, <2>3 DEF ParserInv
<1> QED
    BY <1>2, <1>5, <1>6

\* The actions of a call that take or give back a permit.
LEMMA AnalyzeKeeps ==
    ASSUME ParserInv, NEW p \in Parses, Analyze(p)
    PROVE  ParserInv'
PROOF
<1> SUFFICES ASSUME NEW h, h = Analysis(p) PROVE ParserInv'
    OBVIOUS
<1>1. attempt \in [Parses -> 1 .. MaxAttempts] /\ h \in Holders /\ permit[h] = "none"
    BY HolderFacts DEF ParserInv, TypeOK, UserInv, Analyze
<1>2. SemaphoreInv' /\ OthersKeep(h) /\ permit'[h] # "none"
    BY <1>1, AcquireKeeps DEF ParserInv, Analyze
<1>3. call' = [call EXCEPT ![p] = "loading"] /\ UNCHANGED <<attempt, native, taskVars, ended>>
    BY DEF Analyze, GoTo
<1>4. TypeOK'
    BY <1>2, <1>3 DEF ParserInv, TypeOK, SemaphoreInv, taskVars
<1>5. \A g \in Holders : native'[g] = "running" => permit'[g] = "held"
    BY <1>1, <1>2, <1>3 DEF ParserInv, UserInv, OthersKeep
<1>6. ASSUME NEW q \in Parses, call'[q] = "idle" PROVE permit'[Analysis(q)'] = "none"
    <2>1. q # p /\ call[q] = "idle" /\ Analysis(q)' = Analysis(q) /\ Analysis(q) # h
        BY <1>1, <1>3, <1>6, HolderFacts DEF ParserInv, TypeOK, Analysis
    <2> QED
        BY <1>1, <1>2, <2>1, HolderFacts DEF ParserInv, UserInv, OthersKeep
<1>7. ASSUME NEW q \in Parses, NEW k \in 1 .. MaxAttempts, k > attempt[q]
      PROVE  permit'[<<q, k>>] = "none"
    <2>1. <<q, k>> \in Holders /\ <<q, k>> # h
        BY <1>1, <1>7, HolderFacts, ParserAssumption
    <2> QED
        BY <1>2, <1>7, <2>1 DEF ParserInv, UserInv, OthersKeep
<1>8. ASSUME NEW q \in Parses, status[q] = "none" PROVE permit'[Task(q)] = "none"
    <2>1. Task(q) \in Holders /\ Task(q) # h
        BY <1>1, HolderFacts
    <2> QED
        BY <1>2, <1>8, <2>1 DEF ParserInv, UserInv, OthersKeep
<1>9. \A q \in Parses : call'[q] = IF q = p THEN "loading" ELSE call[q]
    BY <1>3 DEF ParserInv, TypeOK
<1>10. \A q \in Parses : Analysis(q)' = Analysis(q) /\ Task(q)' = Task(q)
    BY <1>3 DEF Analysis, Task
<1>11. native'[h] # "running"
    BY <1>1, <1>3 DEF ParserInv, UserInv
<1>12. UserInv'
    BY <1>3, <1>5, <1>6, <1>7, <1>8, <1>9, <1>10, <1>11 DEF ParserInv, UserInv, taskVars
<1> QED
    BY <1>2, <1>4, <1>12 DEF ParserInv

\* With its permit, a holder starts native work: the analysis or the task.
LEMMA StartsKeep ==
    ASSUME ParserInv, NEW p \in Parses, AnalyzeLoads(p) \/ RunStarts(p)
    PROVE  ParserInv'
PROOF
<1>1. /\ attempt \in [Parses -> 1 .. MaxAttempts]
      /\ \A q \in Parses : Task(q) \in Holders /\ Analysis(q) \in Holders
      /\ \A q \in Parses : Task(q) # Analysis(p) /\ Analysis(q) # Task(p)
      /\ \A q \in Parses \ {p} : Task(q) # Task(p) /\ Analysis(q) # Analysis(p)
      /\ \A q \in Parses, k \in 1 .. MaxAttempts : <<q, k>> \in Holders
    BY HolderFacts DEF ParserInv, TypeOK
<1>2. SemaphoreInv' /\ permit' = permit /\ attempt' = attempt /\ aborted' = aborted
    BY SemaphoreUnchanged DEF ParserInv, AnalyzeLoads, RunStarts, GoTo, semVars, callVars, taskVars
<1>3. \A q \in Parses : Analysis(q)' = Analysis(q) /\ Task(q)' = Task(q)
    BY <1>2 DEF Analysis, Task
<1>4. CASE AnalyzeLoads(p)
    <2>1. /\ call' = [call EXCEPT ![p] = "inspecting"]
          /\ native' = [native EXCEPT ![Analysis(p)] = "running"]
          /\ permit[Analysis(p)] = "held"
          /\ UNCHANGED taskVars
        BY <1>4 DEF AnalyzeLoads, GoTo
    <2>2. TypeOK'
        BY <1>1, <1>2, <1>4, <2>1 DEF ParserInv, TypeOK, AnalyzeLoads, semVars, taskVars
    <2>3. \A g \in Holders : native'[g] = IF g = Analysis(p) THEN "running" ELSE native[g]
        BY <1>1, <2>1 DEF ParserInv, TypeOK
    <2>4. UserInv'
        BY <1>1, <1>2, <1>3, <2>1, <2>3 DEF ParserInv, TypeOK, UserInv, taskVars
    <2> QED
        BY <1>2, <2>2, <2>4 DEF ParserInv
<1>5. CASE RunStarts(p)
    <2>1. /\ run' = [run EXCEPT ![p] = "parsing"]
          /\ status' = [status EXCEPT ![p] = "running"]
          /\ native' = [native EXCEPT ![Task(p)] = "running"]
          /\ permit[Task(p)] = "held"
          /\ UNCHANGED callVars
        BY <1>5 DEF RunStarts
    <2>2. TypeOK'
        BY <1>1, <1>2, <1>5, <2>1 DEF ParserInv, TypeOK, RunStarts, semVars, callVars
    <2>3. \A g \in Holders : native'[g] = IF g = Task(p) THEN "running" ELSE native[g]
        BY <1>1, <2>1 DEF ParserInv, TypeOK
    <2>4. UserInv'
        BY <1>1, <1>2, <1>3, <2>1, <2>3 DEF ParserInv, TypeOK, UserInv, callVars
    <2> QED
        BY <1>2, <2>2, <2>4 DEF ParserInv
<1> QED
    BY <1>4, <1>5

\* A release, by a holder whose native work has settled or never began.
LEMMA ReleaseKeepsUsers ==
    ASSUME ParserInv, NEW h \in Holders, permit[h] = "held", Release(h),
           native' = [native EXCEPT ![h] = "settled"] \/ (native' = native /\ native[h] # "running")
    PROVE  /\ SemaphoreInv'
           /\ native' \in [Holders -> {"none", "running", "settled"}]
           /\ \A g \in Holders : native'[g] = "running" => permit'[g] = "held"
           /\ \A g \in Holders \ {h} : native'[g] = native[g]
           /\ \A g \in Holders : permit[g] = "none" => permit'[g] = "none"
PROOF
<1>1. SemaphoreInv' /\ OthersKeep(h) /\ permit'[h] = "none"
    BY ReleaseKeeps DEF ParserInv
<1>2. /\ native' \in [Holders -> {"none", "running", "settled"}]
      /\ native'[h] # "running"
      /\ \A g \in Holders \ {h} : native'[g] = native[g]
    BY DEF ParserInv, TypeOK
<1> QED
    BY <1>1, <1>2 DEF ParserInv, UserInv, OthersKeep

\* The actions that end with a release.
LEMMA AnalyzeEndKeeps ==
    ASSUME ParserInv, NEW p \in Parses, AnalyzeLoadFails(p) \/ AnalyzeDone(p)
    PROVE  ParserInv'
PROOF
<1> SUFFICES ASSUME NEW h, h = Analysis(p) PROVE ParserInv'
    OBVIOUS
<1>1. /\ attempt \in [Parses -> 1 .. MaxAttempts]
      /\ \A q \in Parses : Task(q) \in Holders /\ Analysis(q) \in Holders /\ Task(q) # h
      /\ \A q \in Parses \ {p} : Analysis(q) # h
      /\ \A q \in Parses, k \in 1 .. MaxAttempts : <<q, k>> \in Holders
    BY HolderFacts DEF ParserInv, TypeOK
<1>2. /\ Release(h)
      /\ permit[h] = "held"
      /\ native' = [native EXCEPT ![h] = "settled"] \/ (native' = native /\ native[h] # "running")
      /\ call[p] \in {"loading", "inspecting"}
      /\ \E place \in {"retry", "failed", "submitting", "elsewhere"} :
            call' = [call EXCEPT ![p] = place]
      /\ UNCHANGED <<attempt, taskVars, ended>>
    <2>1. CASE AnalyzeDone(p)
        BY <1>1, <2>1 DEF ParserInv, UserInv, AnalyzeDone, GoTo
    <2>2. CASE AnalyzeLoadFails(p)
        <3>1. native[h] # "running"
            BY <2>2, <1>1 DEF ParserInv, UserInv, AnalyzeLoadFails
        <3> QED
            BY <2>2, <3>1 DEF AnalyzeLoadFails, GoTo
    <2> QED
        BY <2>1, <2>2
<1>3. /\ SemaphoreInv'
      /\ native' \in [Holders -> {"none", "running", "settled"}]
      /\ \A g \in Holders : native'[g] = "running" => permit'[g] = "held"
      /\ \A g \in Holders \ {h} : native'[g] = native[g]
      /\ \A g \in Holders : permit[g] = "none" => permit'[g] = "none"
    BY <1>1, <1>2, ReleaseKeepsUsers
<1>4. \A q \in Parses : Analysis(q)' = Analysis(q) /\ Task(q)' = Task(q)
    BY <1>2 DEF Analysis, Task
<1>5. TypeOK'
    BY <1>2, <1>3 DEF ParserInv, TypeOK, SemaphoreInv, taskVars, CallEnds
<1>6. UserInv'
    BY <1>1, <1>2, <1>3, <1>4 DEF ParserInv, TypeOK, UserInv, taskVars
<1> QED
    BY <1>3, <1>5, <1>6 DEF ParserInv

\* An inspection that outlived its caller settles.
LEMMA InspectionSettlesKeeps ==
    ASSUME ParserInv, NEW h \in Holders, InspectionSettles(h)
    PROVE  ParserInv'
PROOF
<1>1. /\ attempt \in [Parses -> 1 .. MaxAttempts]
      /\ \A q \in Parses : Task(q) \in Holders /\ Analysis(q) \in Holders
      /\ \A q \in Parses, k \in 1 .. MaxAttempts : <<q, k>> \in Holders
    BY HolderFacts DEF ParserInv, TypeOK
<1>2. /\ \A q \in Parses : Task(q) # h
      /\ \A q \in Parses : call[q] = "inspecting" => Analysis(q) # h
    BY DEF InspectionSettles, Task, Analysis
<1>3. /\ Release(h) /\ permit[h] = "held"
      /\ native' = [native EXCEPT ![h] = "settled"]
      /\ UNCHANGED <<callVars, taskVars, ended>>
    BY DEF ParserInv, UserInv, InspectionSettles
<1>4. /\ SemaphoreInv'
      /\ native' \in [Holders -> {"none", "running", "settled"}]
      /\ \A g \in Holders : native'[g] = "running" => permit'[g] = "held"
      /\ \A g \in Holders \ {h} : native'[g] = native[g]
      /\ \A g \in Holders : permit[g] = "none" => permit'[g] = "none"
    BY <1>3, ReleaseKeepsUsers
<1>5. native'[h] # "running"
    BY <1>3 DEF ParserInv, TypeOK
<1>6. \A q \in Parses : Analysis(q)' = Analysis(q) /\ Task(q)' = Task(q)
    BY <1>3 DEF Analysis, Task, callVars
<1>7. TypeOK'
    BY <1>3, <1>4 DEF ParserInv, TypeOK, SemaphoreInv, callVars, taskVars
<1>8. UserInv'
    BY <1>1, <1>2, <1>3, <1>4, <1>5, <1>6 DEF ParserInv, TypeOK, UserInv, callVars, taskVars
<1> QED
    BY <1>4, <1>7, <1>8 DEF ParserInv

\* runTask ends, with or without native work.
LEMMA RunEndKeeps ==
    ASSUME ParserInv, NEW p \in Parses, RunStops(p) \/ RunDone(p) \/ RunDrains(p)
    PROVE  ParserInv'
PROOF
<1> SUFFICES ASSUME NEW h, h = Task(p) PROVE ParserInv'
    OBVIOUS
<1>1. /\ attempt \in [Parses -> 1 .. MaxAttempts]
      /\ \A q \in Parses : Task(q) \in Holders /\ Analysis(q) \in Holders /\ Analysis(q) # h
      /\ \A q \in Parses \ {p} : Task(q) # h
      /\ \A q \in Parses, k \in 1 .. MaxAttempts : <<q, k>> \in Holders
    BY HolderFacts DEF ParserInv, TypeOK
<1>2. /\ Release(h)
      /\ permit[h] = "held"
      /\ native' = [native EXCEPT ![h] = "settled"] \/ (native' = native /\ native[h] # "running")
      /\ run' = [run EXCEPT ![p] = "over"]
      /\ status' = status \/ \E end \in {"completed", "failed"} : status' = [status EXCEPT ![p] = end]
      /\ again' \in [Parses -> BOOLEAN]
      /\ UNCHANGED <<callVars, aborted, ended>>
    <2>1. CASE RunStops(p)
        BY <1>1, <2>1 DEF ParserInv, TypeOK, UserInv, RunStops
    <2>2. CASE RunDone(p)
        BY <1>1, <2>2 DEF ParserInv, TypeOK, UserInv, RunDone
    <2>3. CASE RunDrains(p)
        BY <1>1, <2>3 DEF ParserInv, TypeOK, UserInv, RunDrains
    <2> QED
        BY <2>1, <2>2, <2>3
<1>3. /\ SemaphoreInv'
      /\ native' \in [Holders -> {"none", "running", "settled"}]
      /\ \A g \in Holders : native'[g] = "running" => permit'[g] = "held"
      /\ \A g \in Holders \ {h} : native'[g] = native[g]
      /\ \A g \in Holders : permit[g] = "none" => permit'[g] = "none"
    BY <1>1, <1>2, ReleaseKeepsUsers
<1>4. \A q \in Parses : Analysis(q)' = Analysis(q) /\ Task(q)' = Task(q)
    BY <1>2 DEF Analysis, Task, callVars
<1>5. TypeOK'
    <2>1. status' \in [Parses -> {"none", "pending", "running"} \cup TaskEnds]
        BY <1>2 DEF ParserInv, TypeOK, TaskEnds
    <2>2. run' \in [Parses -> {"none", "acquiring", "parsing", "draining", "over"}]
        BY <1>2 DEF ParserInv, TypeOK
    <2> QED
        BY <1>2, <1>3, <2>1, <2>2 DEF ParserInv, TypeOK, SemaphoreInv, callVars
<1>6. UserInv'
    BY <1>1, <1>2, <1>3, <1>4 DEF ParserInv, TypeOK, UserInv, callVars
<1> QED
    BY <1>3, <1>5, <1>6 DEF ParserInv

\* A timeout leaves permit and native work to runTask.
LEMMA RunTimesOutKeeps ==
    ASSUME ParserInv, NEW p \in Parses, RunTimesOut(p)
    PROVE  ParserInv'
PROOF
<1>1. SemaphoreInv'
    BY SemaphoreUnchanged DEF ParserInv, RunTimesOut
<1>2. TypeOK'
    BY DEF ParserInv, TypeOK, RunTimesOut, TaskEnds, semVars, callVars
<1>3. UserInv'
    BY DEF ParserInv, TypeOK, UserInv, RunTimesOut, semVars, callVars, Analysis, Task
<1> QED
    BY <1>1, <1>2, <1>3 DEF ParserInv

\* A new task asks for a permit.
LEMMA SubmitNewKeeps ==
    ASSUME ParserInv, NEW p \in Parses, SubmitNew(p)
    PROVE  ParserInv'
PROOF
<1> SUFFICES ASSUME NEW h, h = Task(p) PROVE ParserInv'
    OBVIOUS
<1>1. /\ attempt \in [Parses -> 1 .. MaxAttempts]
      /\ \A q \in Parses : Task(q) \in Holders /\ Analysis(q) \in Holders /\ Analysis(q) # h
      /\ \A q \in Parses \ {p} : Task(q) # h
      /\ \A q \in Parses, k \in 1 .. MaxAttempts : <<q, k>> \in Holders /\ <<q, k>> # h
    BY HolderFacts DEF ParserInv, TypeOK
<1>2. permit[h] = "none" /\ native[h] # "running"
    BY <1>1 DEF ParserInv, UserInv, SubmitNew
<1>3. SemaphoreInv' /\ OthersKeep(h)
    BY <1>1, <1>2, AcquireKeeps DEF ParserInv, SubmitNew
<1>4. /\ call' = [call EXCEPT ![p] = "polling"]
      /\ status' = [status EXCEPT ![p] = "pending"]
      /\ run' = [run EXCEPT ![p] = "acquiring"]
      /\ UNCHANGED <<attempt, native, aborted, again, ended>>
    BY DEF SubmitNew, GoTo
<1>5. \A q \in Parses : Analysis(q)' = Analysis(q) /\ Task(q)' = Task(q)
    BY <1>4 DEF Analysis, Task
<1>6. TypeOK'
    BY <1>3, <1>4 DEF ParserInv, TypeOK, SemaphoreInv
<1>7. \A g \in Holders : native[g] = "running" => permit'[g] = "held"
    BY <1>2, <1>3 DEF ParserInv, UserInv, OthersKeep
<1>8. \A g \in Holders \ {h} : permit[g] = "none" => permit'[g] = "none"
    BY <1>3 DEF OthersKeep
<1>9. UserInv'
    <2>1. \A q \in Parses : /\ call'[q] = IF q = p THEN "polling" ELSE call[q]
                            /\ status'[q] = IF q = p THEN "pending" ELSE status[q]
                            /\ run'[q] = IF q = p THEN "acquiring" ELSE run[q]
        BY <1>4 DEF ParserInv, TypeOK
    <2>2. ASSUME NEW q \in Parses, q # p, status[q] = "none" PROVE permit'[Task(q)] = "none"
        BY <1>1, <1>8, <2>2 DEF ParserInv, UserInv
    <2> QED
        BY <1>1, <1>2, <1>4, <1>5, <1>7, <1>8, <2>1, <2>2 DEF ParserInv, UserInv
<1> QED
    BY <1>3, <1>6, <1>9 DEF ParserInv

\* cancel may take the task out of the line.
LEMMA CheckFailsKeeps ==
    ASSUME ParserInv, NEW p \in Parses, CheckFails(p)
    PROVE  ParserInv'
PROOF
<1> SUFFICES ASSUME NEW h, h = Task(p) PROVE ParserInv'
    OBVIOUS
<1>1. /\ attempt \in [Parses -> 1 .. MaxAttempts]
      /\ \A q \in Parses : Task(q) \in Holders /\ Analysis(q) \in Holders /\ Analysis(q) # h
      /\ \A q \in Parses \ {p} : Task(q) # h
      /\ \A q \in Parses, k \in 1 .. MaxAttempts : <<q, k>> \in Holders /\ <<q, k>> # h
    BY HolderFacts DEF ParserInv, TypeOK
<1>2. /\ call' = [call EXCEPT ![p] = "stopped"] \/ call' = [call EXCEPT ![p] = "retry"]
      /\ UNCHANGED <<attempt, native, ended>>
    BY DEF CheckFails, GoTo
<1>3. \A q \in Parses : Analysis(q)' = Analysis(q) /\ Task(q)' = Task(q)
    BY <1>2 DEF Analysis, Task
<1>4. call' \in [Parses -> {"idle", "loading", "inspecting", "submitting", "polling", "retry"}
                           \cup CallEnds]
    BY <1>2 DEF ParserInv, TypeOK, CallEnds
<1>5. CASE UNCHANGED <<semVars, taskVars>>
    <2>1. SemaphoreInv'
        BY <1>5, SemaphoreUnchanged DEF ParserInv
    <2>2. TypeOK'
        BY <1>2, <1>4, <1>5 DEF ParserInv, TypeOK, semVars, taskVars
    <2>3. UserInv'
        BY <1>1, <1>2, <1>3, <1>5 DEF ParserInv, TypeOK, UserInv, semVars, taskVars
    <2> QED
        BY <2>1, <2>2, <2>3 DEF ParserInv
<1>6. CASE /\ status[p] \in {"pending", "running"}
           /\ status' = [status EXCEPT ![p] = "cancelled"]
           /\ aborted' = [aborted EXCEPT ![p] = TRUE]
           /\ IF permit[Task(p)] = "waiting"
              THEN run' = [run EXCEPT ![p] = "over"] /\ LeaveLine(Task(p))
              ELSE UNCHANGED <<semVars, run>>
           /\ UNCHANGED again
    <2>1. /\ SemaphoreInv'
          /\ \A g \in Holders : permit[g] = "none" => permit'[g] = "none"
          /\ \A g \in Holders : permit[g] = "held" => permit'[g] = "held"
          /\ run' = run \/ run' = [run EXCEPT ![p] = "over"]
        <3>1. CASE permit[h] = "waiting"
            <4>1. SemaphoreInv' /\ OthersKeep(h) /\ permit'[h] = "none"
                BY <1>1, <1>6, <3>1, LeaveLineKeeps DEF ParserInv
            <4> QED
                BY <1>6, <3>1, <4>1 DEF OthersKeep
        <3>2. CASE permit[h] # "waiting"
            BY <1>6, <3>2, SemaphoreUnchanged DEF ParserInv, semVars
        <3> QED
            BY <3>1, <3>2
    <2>2. TypeOK'
        <3>1. run' \in [Parses -> {"none", "acquiring", "parsing", "draining", "over"}]
            BY <2>1 DEF ParserInv, TypeOK
        <3>2. status' \in [Parses -> {"none", "pending", "running"} \cup TaskEnds]
            BY <1>6 DEF ParserInv, TypeOK, TaskEnds
        <3> QED
            BY <1>2, <1>4, <1>6, <2>1, <3>1, <3>2 DEF ParserInv, TypeOK, SemaphoreInv
    <2>3. UserInv'
        BY <1>1, <1>2, <1>3, <1>6, <2>1 DEF ParserInv, TypeOK, UserInv
    <2> QED
        BY <2>1, <2>2, <2>3 DEF ParserInv
<1> QED
    BY <1>5, <1>6 DEF CheckFails, Cancel

-----------------------------------------------------------------------------
LEMMA InitHolds == Init => ParserInv
PROOF
<1> SUFFICES ASSUME Init PROVE ParserInv
    OBVIOUS
<1>1. TypeOK
    BY ParserAssumption DEF Init, TypeOK
<1>2. Held = {}
    BY DEF Init, Held
<1>3. SemaphoreInv
    <2>1. IsFiniteSet(Held) /\ Cardinality(Held) = 0
        BY <1>2, FS_EmptySet
    <2> QED
        BY <1>1, <2>1, ParserAssumption DEF Init, TypeOK, SemaphoreInv, PermitsCounted, NobodyForgotten
<1>4. UserInv
    <2>1. attempt \in [Parses -> 1 .. MaxAttempts]
        BY <1>1 DEF TypeOK
    <2> QED
        BY <2>1, HolderFacts DEF Init, UserInv
<1> QED
    BY <1>1, <1>3, <1>4 DEF ParserInv

LEMMA StepKeeps == ParserInv /\ [Next]_vars => ParserInv'
PROOF
<1> SUFFICES ASSUME ParserInv, [Next]_vars PROVE ParserInv'
    OBVIOUS
<1>1. CASE UNCHANGED vars
    <2>1. SemaphoreInv'
        BY <1>1, SemaphoreUnchanged DEF ParserInv, vars
    <2>2. TypeOK' /\ UserInv'
        BY <1>1 DEF ParserInv, TypeOK, UserInv, vars, semVars, callVars, taskVars, Task, Analysis
    <2> QED
        BY <2>1, <2>2 DEF ParserInv
<1>2. ASSUME NEW h \in Holders, InspectionSettles(h) PROVE ParserInv'
    BY <1>2, InspectionSettlesKeeps
<1>3. ASSUME NEW p \in Parses,
             \/ Analyze(p) \/ AnalyzeLoads(p) \/ AnalyzeLoadFails(p) \/ AnalyzeDone(p)
             \/ AnalyzeTimesOut(p)
             \/ SubmitNew(p) \/ SubmitKnown(p) \/ Poll(p)
             \/ DeadlinePasses(p) \/ CheckFails(p) \/ StepAgain(p) \/ JobEnds(p)
             \/ RunStarts(p) \/ RunStops(p) \/ RunDone(p) \/ RunTimesOut(p) \/ RunDrains(p)
      PROVE  ParserInv'
    BY <1>3, QuietCallKeeps, AnalyzeKeeps, StartsKeep, AnalyzeEndKeeps, RunEndKeeps,
       RunTimesOutKeeps, SubmitNewKeeps, CheckFailsKeeps
<1> QED
    BY <1>1, <1>2, <1>3 DEF Next

\* The invariant the others follow from.
THEOREM ParserInvariant == Spec => []ParserInv
PROOF
<1> QED
    BY InitHolds, StepKeeps, PTL DEF Spec

\* Permits are counted right, for any number of parses and attempts.
THEOREM PermitsAreCounted == Spec => []PermitsCounted
PROOF
<1>1. ParserInv => PermitsCounted
    BY DEF ParserInv, SemaphoreInv
<1> QED
    BY <1>1, ParserInvariant, PTL

\* Nobody waits while a permit is free, or is lost from the line.
THEOREM NobodyIsForgotten == Spec => []NobodyForgotten
PROOF
<1>1. ParserInv => NobodyForgotten
    BY DEF ParserInv, SemaphoreInv
<1> QED
    BY <1>1, ParserInvariant, PTL

\* The semaphore is sound, whatever its users do.
THEOREM SemaphoreIsSound == Spec => []SemaphoreSound
PROOF
<1> QED
    BY PermitsAreCounted, NobodyIsForgotten, PTL DEF SemaphoreSound

\* The bound on native work, which no timeout, cancel or retry gets around.
THEOREM NativeWorkIsBounded == Spec => []NativeWorkBounded
PROOF
<1>1. ASSUME ParserInv PROVE NativeWorkBounded
    <2>1. Running \subseteq Held /\ IsFiniteSet(Held)
        BY <1>1 DEF ParserInv, SemaphoreInv, UserInv, Running, Held
    <2>2. Cardinality(Running) <= Cardinality(Held) /\ IsFiniteSet(Running)
        BY <2>1, FS_Subset
    <2>3. Cardinality(Held) <= Slots /\ Cardinality(Held) \in Nat /\ Cardinality(Running) \in Nat
        BY <1>1, <2>1, <2>2, FS_CardinalityType DEF ParserInv, SemaphoreInv, PermitsCounted
    <2> QED
        BY <2>2, <2>3, ParserAssumption DEF NativeWorkBounded
<1> QED
    BY <1>1, ParserInvariant, PTL

\* The semaphore and the native work it guards, together.
THEOREM PermitsMatchNativeWork == Spec => []PermitsMatchWork
PROOF
<1> QED
    BY SemaphoreIsSound, NativeWorkIsBounded, PTL DEF PermitsMatchWork

\* A cancelled task starts no native work, wherever the cancel found it.
THEOREM CancelledNeverStart == Spec => CancelledNeverStarts
PROOF
<1> DEFINE Quiet == \A p \in Parses : status[p] = "cancelled" /\ native[Task(p)] = "none"
                                        => native'[Task(p)] = "none"
<1>1. ASSUME ParserInv, [Next]_vars PROVE Quiet
    <2> SUFFICES ASSUME NEW p \in Parses, status[p] = "cancelled", native[Task(p)] = "none"
                 PROVE  native'[Task(p)] = "none"
        OBVIOUS
    <2>1. aborted[p] /\ ~(run[p] \in {"parsing", "draining"})
        BY <1>1 DEF ParserInv, UserInv
    <2>2. /\ attempt \in [Parses -> 1 .. MaxAttempts] /\ native \in [Holders -> {"none", "running", "settled"}]
          /\ \A q \in Parses : Task(q) \in Holders /\ Analysis(q) \in Holders /\ Task(p) # Analysis(q)
          /\ \A q \in Parses : Task(p) = Task(q) => p = q
        BY <1>1, HolderFacts DEF ParserInv, TypeOK
    <2>3. CASE native' = native
        BY <2>3
    <2>4. ASSUME NEW q \in Parses, AnalyzeLoads(q) \/ AnalyzeDone(q) PROVE native'[Task(p)] = "none"
        BY <2>2, <2>4 DEF AnalyzeLoads, AnalyzeDone
    <2>5. ASSUME NEW q \in Parses, RunStarts(q) \/ RunDone(q) \/ RunDrains(q) PROVE native'[Task(p)] = "none"
        BY <2>1, <2>2, <2>5 DEF RunStarts, RunDone, RunDrains
    <2>6. ASSUME NEW h \in Holders, InspectionSettles(h) PROVE native'[Task(p)] = "none"
        BY <2>2, <2>6 DEF InspectionSettles
    <2> QED
        BY <1>1, <2>3, <2>4, <2>5, <2>6
        DEF Next, vars, Analyze, AnalyzeLoadFails, AnalyzeTimesOut, SubmitNew, SubmitKnown, Poll,
            DeadlinePasses, CheckFails, StepAgain, JobEnds, RunStops, RunTimesOut
<1> QED
    BY <1>1, ParserInvariant, PTL DEF Spec, CancelledNeverStarts

(***************************************************************************)
(* The points: a stage that has returned has left those of one manifest.    *)
(* The proof shows what the ordering "strong" is for: the write a run waits *)
(* for is the last one sent, so its answer says that every late write of an *)
(* earlier run has been applied too, and the checks after it see all there  *)
(* will ever be.                                                            *)
(***************************************************************************)

Writes == [run : Nat, manifest : SUBSET Ids, points : SUBSET Ids]

\* The types the proof needs.
StageTypes ==
    /\ sent \in Seq(Writes)
    /\ manifest \in SUBSET Ids /\ left \in SUBSET Ids
    /\ stages \in Nat

\* What is awaited is the last write, and after the answers none is left.
LastIsAwaited == step = "wait" /\ sent # <<>> => sent[Len(sent)].run = stages
NoneLate == step \in {"check", "staged"} => sent = <<>>

StageInv == StageTypes /\ LastIsAwaited /\ NoneLate /\ OneManifest

\* A step keeps the types.
LEMMA StageKeepsTypes ==
    ASSUME StageTypes, [StageNext]_stageVars PROVE StageTypes'
<1> USE DEF StageTypes
<1>1. CASE StageFails BY <1>1 DEF StageFails
<1>2. CASE Parse
  <2>1. manifest' \in SUBSET Ids BY <1>2 DEF Parse, Ids
  <2> QED BY <1>2, <2>1 DEF Parse
<1>3. CASE Verify BY <1>3 DEF Verify
<1>4. CASE Upsert
  <2>1. Batch \in SUBSET Ids BY DEF Batch
  <2>2. [run |-> stages, manifest |-> manifest, points |-> Batch] \in Writes BY <2>1 DEF Writes
  <2>3. sent' \in Seq(Writes) BY <1>4, <2>2 DEF Upsert
  <2> QED BY <1>4, <2>3 DEF Upsert
<1>5. CASE Apply BY <1>5 DEF Apply
<1>6. CASE Written BY <1>6 DEF Written
<1>7. CASE Check BY <1>7 DEF Check
<1>8. CASE UNCHANGED stageVars BY <1>8 DEF stageVars
<1> QED BY <1>1, <1>2, <1>3, <1>4, <1>5, <1>6, <1>7, <1>8 DEF StageNext

\* The answer to a write comes after every write that was sent before it.
LEMMA AnswerIsLast ==
    ASSUME StageInv, Written PROVE sent = <<>>
<1> SUFFICES ASSUME sent # <<>> PROVE FALSE OBVIOUS
<1>1. sent[Len(sent)].run = stages BY DEF StageInv, LastIsAwaited, Written
<1>2. Len(sent) \in DOMAIN sent BY DEF StageInv, StageTypes
<1> QED BY <1>1, <1>2 DEF Written

\* A step keeps the invariant.
LEMMA StageKeepsInv ==
    ASSUME StageInv, [StageNext]_stageVars PROVE StageInv'
<1>0. StageTypes' BY StageKeepsTypes DEF StageInv
<1> USE DEF LastIsAwaited, NoneLate, OneManifest
<1>1. CASE StageFails BY <1>0, <1>1 DEF StageInv, StageFails
<1>2. CASE Parse BY <1>0, <1>2 DEF StageInv, Parse
<1>3. CASE Verify BY <1>0, <1>3 DEF StageInv, Verify
<1>4. CASE Upsert
  <2> DEFINE w == [run |-> stages, manifest |-> manifest, points |-> Batch]
  <2>1. sent' = Append(sent, w) /\ step' = "wait" /\ stages' = stages BY <1>4 DEF Upsert
  <2>2. sent'[Len(sent')] = w BY <2>1 DEF StageInv, StageTypes
  <2> QED BY <1>0, <2>1, <2>2 DEF StageInv
<1>5. CASE Apply
  <2>1. sent # <<>> /\ sent' = Tail(sent) /\ step' = step /\ stages' = stages BY <1>5 DEF Apply
  <2>2. ~(step \in {"check", "staged"}) BY <2>1 DEF StageInv
  <2>3. sent' # <<>> => sent'[Len(sent')] = sent[Len(sent)] BY <2>1 DEF StageInv, StageTypes
  <2> QED BY <1>0, <2>1, <2>2, <2>3 DEF StageInv
<1>6. CASE Written
  <2>1. sent = <<>> BY <1>6, AnswerIsLast
  <2> QED BY <1>0, <1>6, <2>1 DEF StageInv, Written
<1>7. CASE Check BY <1>0, <1>7 DEF StageInv, Check, Complete
<1>8. CASE UNCHANGED stageVars BY <1>0, <1>8 DEF StageInv, stageVars
<1> QED BY <1>1, <1>2, <1>3, <1>4, <1>5, <1>6, <1>7, <1>8 DEF StageNext

\* However often the step was run, and whatever its late writes did, a stage that has
\* returned has left one manifest's points, and nothing is still to come.
THEOREM StagedIsOneManifest == StageSpec => []OneManifest
<1>1. StageInit => StageInv
  BY DEF StageInit, StageInv, StageTypes, LastIsAwaited, NoneLate, OneManifest
<1>2. StageInv /\ [StageNext]_stageVars => StageInv' BY StageKeepsInv
<1>3. StageInv => OneManifest BY DEF StageInv
<1> QED BY <1>1, <1>2, <1>3, PTL DEF StageSpec

(***************************************************************************)
(* The embeddings: requests are asked for one after the other, each answer  *)
(* is put where it belongs, and what ends a call early is seen in time.     *)
(***************************************************************************)

\* What is asked for at once starts behind what is there, and is something.
DueEnd == IF Len(vectors) + BatchInputs < Inputs THEN Len(vectors) + BatchInputs ELSE Inputs

LEMMA DueIs ==
    ASSUME vectors \in Seq(1 .. Inputs), Len(vectors) < Inputs
    PROVE  /\ Due = (Len(vectors) + 1) .. DueEnd
           /\ DueEnd \in Nat /\ Len(vectors) < DueEnd /\ DueEnd <= Inputs
           /\ IsFiniteSet(Due) /\ Cardinality(Due) = DueEnd - Len(vectors)
<1>1. Due = (Len(vectors) + 1) .. DueEnd  BY ProviderAssumption DEF Due, DueEnd
<1>2. DueEnd \in Nat /\ Len(vectors) < DueEnd /\ DueEnd <= Inputs  BY ProviderAssumption DEF DueEnd
<1> QED  BY <1>1, <1>2, FS_Interval

\* An order of what was asked for names each of it at one place.
LEMMA OrderIsOnto ==
    ASSUME vectors \in Seq(1 .. Inputs), Len(vectors) < Inputs, NEW order \in SetToSeqs(Due)
    PROVE  /\ order \in [1 .. DueEnd - Len(vectors) -> Due]
           /\ \A i, j \in 1 .. DueEnd - Len(vectors) : i # j => order[i] # order[j]
           /\ \A text \in Due : \E i \in 1 .. DueEnd - Len(vectors) : order[i] = text
<1> DEFINE n == DueEnd - Len(vectors)
<1>1. n \in Nat /\ Cardinality(Due) = n /\ IsFiniteSet(Due)  BY DueIs
<1>2. order \in [1 .. n -> Due] /\ \A i, j \in 1 .. n : i # j => order[i] # order[j]
  BY <1>1 DEF SetToSeqs
<1>3. order \in Injection(1 .. n, Due)  BY <1>2 DEF Injection, IsInjective
<1>4. Cardinality(1 .. n) = n  BY <1>1, FS_Interval
<1>5. order \in Surjection(1 .. n, Due)  BY <1>1, <1>3, <1>4, FS_Injection
<1> QED  BY <1>2, <1>5 DEF Surjection

\* So many stand before a text as there are texts with a smaller number.
LEMMA RankOfText ==
    ASSUME vectors \in Seq(1 .. Inputs), Len(vectors) < Inputs, NEW order \in SetToSeqs(Due),
           NEW i \in 1 .. DueEnd - Len(vectors)
    PROVE  Cardinality({j \in 1 .. DueEnd - Len(vectors) : order[j] < order[i]})
               = order[i] - Len(vectors) - 1
<1> DEFINE n == DueEnd - Len(vectors)
           Before == {j \in 1 .. n : order[j] < order[i]}
           Smaller == (Len(vectors) + 1) .. (order[i] - 1)
           f == [j \in Before |-> order[j]]
<1>1. n \in Nat /\ Due = (Len(vectors) + 1) .. DueEnd /\ DueEnd \in Nat  BY DueIs
<1>2. /\ order \in [1 .. n -> Due]
      /\ \A k, j \in 1 .. n : k # j => order[k] # order[j]
      /\ \A text \in Due : \E k \in 1 .. n : order[k] = text
  BY OrderIsOnto
<1>3. order[i] \in (Len(vectors) + 1) .. DueEnd  BY <1>1, <1>2
<1>4. f \in [Before -> Smaller]  BY <1>1, <1>2, <1>3
<1>5. f \in Injection(Before, Smaller)  BY <1>2, <1>4 DEF Injection, IsInjective
<1>6. \A text \in Smaller : \E j \in Before : f[j] = text
  <2> TAKE text \in Smaller
  <2>1. text \in Due  BY <1>1, <1>3
  <2>2. PICK k \in 1 .. n : order[k] = text  BY <1>2, <2>1
  <2>3. k \in Before  BY <1>3, <2>2
  <2> QED  BY <2>2, <2>3
<1>7. f \in Surjection(Before, Smaller)  BY <1>4, <1>6 DEF Surjection
<1>8. IsFiniteSet(Smaller) /\ Cardinality(Smaller) = order[i] - Len(vectors) - 1
  <2>1. Len(vectors) + 1 \in Int /\ order[i] - 1 \in Int  BY <1>1, <1>3
  <2>2. /\ IsFiniteSet(Smaller)
        /\ Cardinality(Smaller) = IF Len(vectors) + 1 > order[i] - 1 THEN 0
                                  ELSE order[i] - 1 - (Len(vectors) + 1) + 1
    BY <2>1, FS_Interval
  <2> QED  BY <1>3, <2>1, <2>2
<1>9. Cardinality(Before) = Cardinality(Smaller)  BY <1>5, <1>7, <1>8, FS_Injection
<1> QED  BY <1>8, <1>9

\* In whatever order the provider names the vectors, they are put into that of the texts.
LEMMA OrderRestored ==
    ASSUME vectors \in Seq(1 .. Inputs), Len(vectors) < Inputs, NEW order \in SetToSeqs(Due),
           NEW items, items = [i \in DOMAIN order |-> Indexed(order[i])]
    PROVE  Ordered(items) = [k \in 1 .. DueEnd - Len(vectors) |-> Len(vectors) + k]
<1> DEFINE n == DueEnd - Len(vectors)
           Rank(i) == Cardinality({j \in DOMAIN items : items[j].index < items[i].index})
           Nth(k) == CHOOSE i \in DOMAIN items : Rank(i) = k - 1
<1>1. n \in Nat /\ Due = (Len(vectors) + 1) .. DueEnd /\ DueEnd \in Nat /\ Len(vectors) \in Nat
  BY DueIs
<1>2. /\ order \in [1 .. n -> Due]
      /\ \A text \in Due : \E k \in 1 .. n : order[k] = text
  BY OrderIsOnto
<1>3. DOMAIN items = 1 .. n
      /\ \A i \in 1 .. n : items[i].index = order[i] - Len(vectors) - 1 /\ items[i].of = order[i]
  BY <1>2 DEF Indexed
<1>4. ASSUME NEW i \in 1 .. n PROVE Rank(i) = order[i] - Len(vectors) - 1
  <2>1. \A j \in 1 .. n : items[j].index < items[i].index <=> order[j] < order[i]
    <3>1. \A j \in 1 .. n : order[j] \in Int  BY <1>1, <1>2
    <3> QED  BY <1>1, <1>3, <3>1
  <2>2. {j \in DOMAIN items : items[j].index < items[i].index} = {j \in 1 .. n : order[j] < order[i]}
    BY <1>3, <2>1
  <2> QED  BY <2>2, RankOfText
<1> HIDE DEF Rank
<1>5. ASSUME NEW k \in 1 .. n PROVE items[Nth(k)].of = Len(vectors) + k
  <2>1. \E i \in 1 .. n : order[i] = Len(vectors) + k
    <3>1. Len(vectors) + k \in Due  BY <1>1
    <3> QED  BY <1>2, <3>1
  <2>2. PICK i \in 1 .. n : order[i] = Len(vectors) + k  BY <2>1
  <2>3. Rank(i) = k - 1  BY <1>1, <1>4, <2>2
  <2>4. Nth(k) \in 1 .. n /\ Rank(Nth(k)) = k - 1  BY <1>3, <2>3
  <2> HIDE DEF Nth
  <2>5. order[Nth(k)] \in Due  BY <1>2, <2>4
  <2>6. Rank(Nth(k)) = order[Nth(k)] - Len(vectors) - 1  BY <1>4, <2>4
  <2>7. order[Nth(k)] = Len(vectors) + k  BY <1>1, <2>4, <2>5, <2>6
  <2> QED  BY <1>3, <2>4, <2>7
<1>6. Ordered(items) = [k \in DOMAIN items |-> items[Nth(k)].of]  BY DEF Ordered, Rank
<1> QED  BY <1>3, <1>5, <1>6

-----------------------------------------------------------------------------

\* A request goes out when the provider allows it and before the deadline; the pause
\* before it ends no earlier.
RequestsInTime ==
    /\ begun <= clock
    /\ doing \in {"asking", "reading"} => earliest <= begun /\ begun < deadline
    /\ doing = "pausing" => earliest <= resume /\ tries <= Len(Backoff)
    /\ 1 <= tries /\ tries <= Len(Backoff) + 1

\* Whoever ends a call says so, and a request is given up only then.
SignalsSeen ==
    /\ expired => doing = "timeout" /\ clock >= deadline
    /\ doing = "timeout" => expired
    /\ doing = "aborted" <=> cancelled
    /\ given > 0 => expired \/ cancelled

\* The texts that have their vectors are the first ones.
InOrder ==
    /\ vectors = [i \in 1 .. Len(vectors) |-> i]
    /\ doing \in Underway => Len(vectors) < Inputs
    /\ doing = "answered" => Len(vectors) = Inputs /\ ~cancelled /\ clock < deadline

ProviderInv == ProviderTypeOK /\ RequestsInTime /\ SignalsSeen /\ InOrder /\ BodiesClosed

\* The pauses are natural numbers, none shorter than what was asked for.
LEMMA PausesWait ==
    ASSUME NEW try \in 1 .. Len(Backoff), NEW after \in Nat, NEW d \in Pauses(try, after)
    PROVE  d \in Nat /\ after <= d
<1>1. Backoff[try] \in Nat /\ MaxPause \in Nat  BY ProviderAssumption
<1> DEFINE capped == IF Backoff[try] < MaxPause THEN Backoff[try] ELSE MaxPause
<1>2. capped \in Nat  BY <1>1
<1>3. PICK e \in (capped + 1) \div 2 .. capped : d = IF e < after THEN after ELSE e  BY DEF Pauses
<1>4. e \in Nat  BY <1>2, <1>3
<1> QED  BY <1>3, <1>4

LEMMA ProviderStarts == ProviderInit => ProviderInv
<1>1. SUFFICES ASSUME ProviderInit PROVE ProviderInv  OBVIOUS
<1>2. vectors \in Seq(Int) /\ vectors \in Seq(1 .. Inputs) /\ Len(vectors) = 0
  BY <1>1 DEF ProviderInit
<1>3. vectors \in [1 .. Len(vectors) -> Int] /\ \A i \in 1 .. Len(vectors) : vectors[i] = i  BY <1>2
<1>4. vectors = [i \in 1 .. Len(vectors) |-> i]  BY <1>3
<1> USE ProviderAssumption DEF ProviderInit, Underway, Failures
<1>5. ProviderTypeOK
  <2>1. clock \in 0 .. MaxClock /\ deadline \in Nat /\ tries \in Nat /\ resume \in Nat  BY <1>1
  <2>2. earliest \in Nat /\ begun \in Nat /\ bodies \in Nat /\ given \in Nat  BY <1>1
  <2>3. doing \in Underway \cup Failures \cup {"answered"} /\ expired \in BOOLEAN /\ cancelled \in BOOLEAN
    BY <1>1
  <2> HIDE ProviderAssumption DEF ProviderInit, Underway, Failures
  <2> QED  BY <1>2, <2>1, <2>2, <2>3 DEF ProviderTypeOK
<1>6. Len(vectors) < Inputs /\ doing = "asking"  BY <1>1, <1>2
<1>7. InOrder  BY <1>4, <1>6 DEF InOrder
<1> QED  BY <1>1, <1>5, <1>7 DEF ProviderInv, RequestsInTime, SignalsSeen, BodiesClosed

\* The vectors of a batch are put behind those of the batches before it.
LEMMA ReadAppends ==
    ASSUME vectors \in Seq(1 .. Inputs), Len(vectors) < Inputs, InOrder, NEW order \in SetToSeqs(Due)
    PROVE  vectors' = vectors \o Ordered([i \in DOMAIN order |-> Indexed(order[i])]) =>
           /\ vectors' \in Seq(1 .. Inputs) /\ vectors' = [i \in 1 .. Len(vectors') |-> i]
           /\ Len(vectors') = DueEnd
<1> DEFINE n == DueEnd - Len(vectors)
           new == [k \in 1 .. n |-> Len(vectors) + k]
<1>0. SUFFICES ASSUME vectors' = vectors \o Ordered([i \in DOMAIN order |-> Indexed(order[i])])
               PROVE  /\ vectors' \in Seq(1 .. Inputs) /\ vectors' = [i \in 1 .. Len(vectors') |-> i]
                      /\ Len(vectors') = DueEnd
  OBVIOUS
<1>1. n \in Nat /\ DueEnd \in Nat /\ DueEnd <= Inputs /\ Len(vectors) \in Nat /\ Inputs \in Nat
  BY DueIs, ProviderAssumption
<1>2. Ordered([i \in DOMAIN order |-> Indexed(order[i])]) = new  BY OrderRestored
<1>3. new \in Seq(1 .. Inputs) /\ Len(new) = n  BY <1>1
<1> HIDE DEF new
<1>4. vectors' \in Seq(1 .. Inputs) /\ Len(vectors') = Len(vectors) + n
  BY <1>0, <1>1, <1>2, <1>3
<1>5. \A i \in 1 .. Len(vectors') : vectors'[i] = i
  <2> TAKE i \in 1 .. Len(vectors')
  <2>1. CASE i <= Len(vectors)
    <3>1. i \in 1 .. Len(vectors)  BY <1>1, <1>4, <2>1
    <3>2. vectors'[i] = vectors[i]  BY <1>0, <1>2, <1>3, <3>1
    <3>3. vectors[i] = i  BY <3>1 DEF InOrder
    <3> QED  BY <3>2, <3>3
  <2>2. CASE i > Len(vectors)
    <3>1. vectors'[i] = new[i - Len(vectors)]  BY <1>0, <1>1, <1>2, <1>3, <1>4, <2>2
    <3>2. i - Len(vectors) \in 1 .. n  BY <1>1, <1>4, <2>2
    <3> QED  BY <1>1, <3>1, <3>2 DEF new
  <2> QED  BY <1>1, <1>4, <2>1, <2>2
<1>6. vectors' \in Seq(Int)  BY <1>1, <1>4
<1>7. vectors' \in [1 .. Len(vectors') -> Int]  BY <1>6
<1>8. vectors' = [i \in 1 .. Len(vectors') |-> i]  BY <1>5, <1>7
<1> QED  BY <1>1, <1>4, <1>8

\* A request that is made, or not, keeps what is known of requests and signals.
LEMMA AskingKeeps ==
    ASSUME ProviderInv, doing \in Underway, UNCHANGED <<clock, cancelled, given>>, Asks,
           tries <= Len(Backoff), earliest' <= clock, earliest' \in Nat, resume' \in Nat,
           bodies' = 0
    PROVE  ProviderInv'
<1> USE ProviderAssumption DEF ProviderInv, ProviderTypeOK, Underway, Failures
<1>1. ~expired /\ ~cancelled /\ given = 0  BY DEF SignalsSeen
<1>2. CASE Overdue
  <2>1. doing' = "timeout" /\ expired' = TRUE /\ UNCHANGED <<deadline, tries, begun, vectors>>
    BY <1>2 DEF Asks
  <2>2. clock >= deadline  BY <1>1, <1>2 DEF Overdue
  <2> QED  BY <1>1, <2>1, <2>2 DEF RequestsInTime, SignalsSeen, InOrder, BodiesClosed
<1>3. CASE ~Overdue
  <2>1. /\ doing' = "asking" /\ tries' = tries + 1 /\ begun' = clock
        /\ UNCHANGED <<deadline, expired, vectors>>
    BY <1>3 DEF Asks
  <2>2. clock < deadline  BY <1>3 DEF Overdue
  <2>3. RequestsInTime'  BY <2>1, <2>2 DEF RequestsInTime
  <2>4. SignalsSeen'  BY <1>1, <2>1 DEF SignalsSeen
  <2>5. InOrder'  BY <2>1 DEF InOrder
  <2> QED  BY <2>1, <2>3, <2>4, <2>5 DEF BodiesClosed
<1> QED  BY <1>2, <1>3

\* So does the pause before it.
LEMMA PausingKeeps ==
    ASSUME ProviderInv, doing = "asking", NEW d \in Nat, Pause(d),
           UNCHANGED <<clock, cancelled, given, bodies>>,
           tries <= Len(Backoff), earliest' \in Nat, earliest' <= clock + d
    PROVE  ProviderInv'
<1> USE ProviderAssumption DEF ProviderInv, ProviderTypeOK, Underway, Failures
<1>1. bodies = 0 /\ ~expired /\ ~cancelled /\ given = 0  BY DEF BodiesClosed, SignalsSeen
<1>2. CASE d = 0  BY <1>1, <1>2, AskingKeeps DEF Pause
<1>3. CASE d # 0
  <2>1. doing' = "pausing" /\ resume' = clock + d /\ UNCHANGED <<deadline, expired, tries, begun, vectors>>
    BY <1>3 DEF Pause
  <2> QED  BY <1>1, <2>1 DEF RequestsInTime, SignalsSeen, InOrder, BodiesClosed
<1> QED  BY <1>2, <1>3

\* A call that ends with a failure, without a signal.
LEMMA SettlingKeeps ==
    ASSUME ProviderInv, doing \in {"asking", "reading"}, NEW how \in Failures \ {"aborted", "timeout"},
           Settles(how), bodies' = 0, UNCHANGED <<expired, given>>
    PROVE  ProviderInv'
BY ProviderAssumption DEF ProviderInv, ProviderTypeOK, Underway, Failures, Settles, RequestsInTime, SignalsSeen,
  InOrder, BodiesClosed

\* A call that a signal ends.
LEMMA InterruptionKeeps ==
    ASSUME ProviderInv, TimerFires \/ CallerCancels
    PROVE  ProviderInv'
<1> USE ProviderAssumption DEF ProviderInv, ProviderTypeOK, Underway, Failures
<1>1. ~expired /\ ~cancelled /\ given = 0  BY DEF SignalsSeen, TimerFires, CallerCancels, Interrupted
<1>2. PICK how \in {"timeout", "aborted"} :
         /\ Interrupted(how)
         /\ \/ how = "timeout" /\ clock >= deadline /\ expired' = TRUE /\ UNCHANGED cancelled
            \/ how = "aborted" /\ cancelled' = TRUE /\ UNCHANGED expired
  BY DEF TimerFires, CallerCancels
<1>3. /\ doing \in Underway /\ bodies' = 0 /\ given' \in Nat /\ doing' = how
      /\ UNCHANGED <<clock, deadline, tries, resume, earliest, begun, vectors>>
      /\ expired' \in BOOLEAN /\ cancelled' \in BOOLEAN
  <2>1. doing \in Underway /\ doing' = how
        /\ UNCHANGED <<clock, deadline, tries, resume, earliest, begun, vectors>>
    BY <1>2 DEF Interrupted
  <2>2. bodies' = 0 /\ given' \in Nat  BY <1>2 DEF Interrupted, BodiesClosed
  <2>3. expired' \in BOOLEAN /\ cancelled' \in BOOLEAN  BY <1>2
  <2> QED  BY <2>1, <2>2, <2>3
<1>4. SignalsSeen'  BY <1>1, <1>2, <1>3 DEF SignalsSeen
<1>5. RequestsInTime'  BY <1>2, <1>3 DEF RequestsInTime
<1>6. InOrder'  BY <1>2, <1>3 DEF InOrder
<1> QED  BY <1>2, <1>3, <1>4, <1>5, <1>6 DEF BodiesClosed

LEMMA ReadKeeps ==
    ASSUME ProviderInv, Read
    PROVE  ProviderInv'
<1> USE ProviderAssumption DEF ProviderInv, ProviderTypeOK, Underway, Failures
<1>1. /\ doing = "reading" /\ bodies' = 0 /\ UNCHANGED <<clock, cancelled, given>>
      /\ ~expired /\ ~cancelled /\ given = 0
  BY DEF Read, BodiesClosed, SignalsSeen
<1>2. CASE Overdue
  <2>1. doing' = "timeout" /\ expired' = TRUE /\ UNCHANGED <<deadline, tries, resume, earliest, begun, vectors>>
    BY <1>2 DEF Read
  <2>2. clock >= deadline  BY <1>1, <1>2 DEF Overdue
  <2> QED  BY <1>1, <2>1, <2>2 DEF RequestsInTime, SignalsSeen, InOrder, BodiesClosed
<1>3. CASE ~Overdue
  <2>1. Len(vectors) < Inputs /\ clock < deadline /\ UNCHANGED <<expired, resume>>
    BY <1>1, <1>3 DEF InOrder, Overdue, Read
  <2>2. /\ vectors' \in Seq(1 .. Inputs) /\ vectors' = [i \in 1 .. Len(vectors') |-> i]
        /\ Len(vectors') = DueEnd
    BY <1>3, <2>1, ReadAppends DEF Read
  <2>3. Len(vectors') \in Nat /\ Len(vectors') <= Inputs  BY <2>1, <2>2, DueIs
  <2>4. CASE Len(vectors') = Inputs
    <3>1. doing' = "answered" /\ UNCHANGED <<deadline, tries, earliest, begun>>  BY <1>3, <2>4 DEF Read
    <3> QED  BY <1>1, <2>1, <2>2, <2>4, <3>1 DEF RequestsInTime, SignalsSeen, InOrder, BodiesClosed
  <2>5. CASE Len(vectors') # Inputs
    <3>1. /\ doing' = "asking" /\ deadline' = clock + Timeout
          /\ tries' = 1 /\ earliest' = 0 /\ begun' = clock
      BY <1>3, <2>5 DEF Read
    <3> QED  BY <1>1, <2>1, <2>2, <2>3, <2>5, <3>1 DEF RequestsInTime, SignalsSeen, InOrder, BodiesClosed
  <2> QED  BY <2>4, <2>5
<1> QED  BY <1>2, <1>3

\* Every step keeps the invariant.
LEMMA ProviderKeeps ==
    ASSUME ProviderInv, [ProviderNext]_providerVars
    PROVE  ProviderInv'
<1> USE DEF ProviderInv
<1>1. doing \in {"asking", "pausing"} => bodies = 0  BY DEF BodiesClosed
<1>2. CASE Accepted
  BY <1>1, <1>2, ProviderAssumption DEF Accepted, ProviderTypeOK, RequestsInTime, SignalsSeen, InOrder, BodiesClosed,
    Underway, Failures
<1>3. CASE Refused \/ Breaks  BY <1>1, <1>3, SettlingKeeps DEF Refused, Breaks, Failures
<1>4. CASE Overloaded
  <2>1. CASE Settles("http") /\ UNCHANGED expired
    BY <1>1, <1>4, <2>1, SettlingKeeps DEF Overloaded, Failures
  <2>2. ASSUME tries <= Len(Backoff), NEW after \in RetryAfters, NEW d \in Pauses(tries, after),
               Pause(d), earliest' = clock + after, UNCHANGED <<clock, cancelled>>
        PROVE  ProviderInv'
    <3>1. after \in Nat /\ tries \in 1 .. Len(Backoff) /\ clock \in Nat
      BY <2>2, ProviderAssumption DEF ProviderTypeOK, RequestsInTime
    <3>2. d \in Nat /\ after <= d  BY <3>1, PausesWait
    <3>3. earliest' \in Nat /\ earliest' <= clock + d  BY <2>2, <3>1, <3>2
    <3> QED  BY <1>4, <2>2, <3>2, <3>3, PausingKeeps DEF Overloaded
  <2> QED  BY <1>4, <2>1, <2>2 DEF Overloaded
<1>5. CASE Disconnected
  <2>1. CASE Settles("transport") /\ UNCHANGED expired
    BY <1>1, <1>5, <2>1, SettlingKeeps DEF Disconnected, Failures
  <2>2. ASSUME tries <= Len(Backoff), NEW d \in Pauses(tries, 0),
               Pause(d), UNCHANGED <<clock, cancelled, earliest>>
        PROVE  ProviderInv'
    <3>1. tries \in 1 .. Len(Backoff) /\ clock \in Nat /\ earliest \in Nat /\ earliest <= clock
      BY <1>5, <2>2, ProviderAssumption DEF Disconnected, ProviderTypeOK, RequestsInTime
    <3>2. d \in Nat  BY <3>1, PausesWait
    <3>3. earliest' \in Nat /\ earliest' <= clock + d  BY <2>2, <3>1, <3>2
    <3> QED  BY <1>5, <2>2, <3>2, <3>3, PausingKeeps DEF Disconnected
  <2> QED  BY <1>5, <2>1, <2>2 DEF Disconnected
<1>6. CASE Read  BY <1>6, ReadKeeps
<1>7. CASE Unreadable
  <2>1. doing = "reading" /\ bodies' = 0 /\ UNCHANGED given /\ ~expired /\ given = 0 /\ ~cancelled
    BY <1>7 DEF Unreadable, BodiesClosed, SignalsSeen, ProviderTypeOK
  <2>2. CASE UNCHANGED expired /\ \E how \in {"transport", "invalid_response", "unexpected"} : Settles(how)
    BY <2>1, <2>2, SettlingKeeps DEF Failures
  <2>3. CASE Overdue /\ Settles("timeout") /\ expired' = TRUE
    BY <2>1, <2>3, ProviderAssumption DEF Overdue, Settles, ProviderTypeOK, RequestsInTime, SignalsSeen, InOrder,
      BodiesClosed, Underway, Failures
  <2> QED  BY <1>7, <2>2, <2>3 DEF Unreadable
<1>8. CASE PauseEnds
  <2>1. doing = "pausing" /\ clock >= resume /\ Asks /\ UNCHANGED <<clock, cancelled, resume, earliest, bodies, given>>
    BY <1>8 DEF PauseEnds
  <2>2. earliest \in Nat /\ resume \in Nat /\ clock \in Nat /\ earliest <= clock /\ tries <= Len(Backoff)
    BY <2>1, ProviderAssumption DEF ProviderTypeOK, RequestsInTime
  <2> QED  BY <1>1, <2>1, <2>2, AskingKeeps DEF Underway
<1>9. CASE TimerFires \/ CallerCancels  BY <1>9, InterruptionKeeps
<1>10. CASE AnsweredLate
  <2>1. /\ given' \in Nat /\ (given' > 0 => given > 0) /\ (expired \/ cancelled) /\ bodies' = bodies
        /\ UNCHANGED <<clock, doing, deadline, expired, cancelled, tries, resume, earliest, begun, vectors>>
    BY <1>10 DEF AnsweredLate, ProviderTypeOK, SignalsSeen
  <2> QED  BY <2>1 DEF ProviderTypeOK, RequestsInTime, SignalsSeen, InOrder, BodiesClosed
<1>11. CASE Tick
  <2>1. /\ doing \in Underway /\ clock' = clock + 1 /\ clock' \in 0 .. MaxClock
        /\ UNCHANGED <<doing, deadline, expired, cancelled, tries, resume, earliest, begun, bodies, given, vectors>>
    BY <1>11, ProviderAssumption DEF Tick, ProviderTypeOK
  <2>2. clock \in Nat /\ ~expired  BY <2>1, ProviderAssumption DEF ProviderTypeOK, SignalsSeen, Underway
  <2> QED  BY <2>1, <2>2 DEF ProviderTypeOK, RequestsInTime, SignalsSeen, InOrder, BodiesClosed, Underway
<1>12. CASE UNCHANGED providerVars
  BY <1>12 DEF providerVars, ProviderTypeOK, RequestsInTime, SignalsSeen, InOrder, BodiesClosed
<1> QED  BY <1>2, <1>3, <1>4, <1>5, <1>6, <1>7, <1>8, <1>9, <1>10, <1>11, <1>12 DEF ProviderNext

\* A call to the provider asks no sooner, no later and no more often than it may, ends with
\* the vectors of its texts in their order or says truthfully why not, and closes every
\* body: for any number of texts, any retries and any deadline.
THEOREM CallsAreTruthful == ProviderSpec => []ProviderCallHolds
<1>1. ProviderInv => ProviderCallHolds
  BY DEF ProviderInv, ProviderCallHolds, RetriesAreDue, EndsTruthfully, RequestsInTime, SignalsSeen, InOrder
<1> QED  BY <1>1, ProviderStarts, ProviderKeeps, PTL DEF ProviderSpec

(***************************************************************************)
(* The nodes of a content list                                             *)
(***************************************************************************)

\* What an item of a content list may be; a field that its kind has not is any.
ContentItem ==
    [kind : {"text", "code", "image", "table"} \cup Decorations, page : Nat, label : Nat, level : Nat,
     text : {s \in Seq(0 .. Par) : Len(s) < ItemSize}, rows : 0 .. ItemSize - 1,
     head : Nat, first : Nat, explicit : BOOLEAN, total : BOOLEAN,
     width : Nat, source : Nat, caption : Nat, continued : BOOLEAN, paged : BOOLEAN]

TableRow == [letter : Nat, number : Nat]

TableRecord ==
    [columns : Nat, explicit : BOOLEAN, inferred : BOOLEAN, header : Seq(TableRow),
     rows : Seq(TableRow), summary : Seq(TableRow), width : Nat, source : Nat, caption : Nat]

NodeTypes == {"table", "heading", "figure", "code", "paragraph"}

NodeRecord ==
    [type : NodeTypes, level : Nat, path : {<<>>}, id : Nat, order : Nat, first : Nat, last : Nat,
     text : Seq(Nat), table : TableRecord \cup {NoTable}]

ContentTypes ==
    /\ content \in Seq(ContentItem)
    /\ read \in 0 .. Len(content)
    /\ nodes \in Seq(NodeRecord)
    /\ \A n \in 1 .. Len(nodes) : nodes[n].type = "table" => nodes[n].table \in TableRecord
    /\ open \in 0 .. Len(nodes)
    /\ open # 0 => nodes[open].type = "table"

\* Item k does not part what is before it from what is after it, in node n.
Passed(k, n) ==
    \/ content[k].kind \in Decorations /\ ~Promoted(k)
    \/ content[k].kind = "table" /\ \A m \in DOMAIN nodes \ {n} : k \notin TableItems(nodes[m])

\* Texts are of items that have been read, and a table's of nothing else.
ItemsRead ==
    \A n \in DOMAIN nodes :
        /\ TableItems(nodes[n]) \subseteq 0 .. read
        /\ nodes[n].type = "table" => 0 \notin TableItems(nodes[n])

\* All that has been read since the last part of an open table may be passed over.
OpenToNext ==
    open # 0 =>
        \A i \in TableItems(nodes[open]) :
            /\ content[i].page <= nodes[open].last
            /\ \A k \in i + 1 .. read : Passed(k, open)

ContentInv == ContentTypes /\ ItemsRead /\ OpenToNext /\ JoinedInSequence

\* The letters of an item are told from those of another.
LEMMA LetterIs ==
    ASSUME NEW i \in Nat, NEW k \in 1 .. ItemSize - 1
    PROVE  Letter(i, k) \in Nat /\ ItemOf(Letter(i, k)) = i
<1> DEFINE a == ItemSize * i + k
           q == a \div ItemSize
<1>1. ItemSize \in Nat /\ ItemSize > 4  BY ContentAssumption
<1>2. a \in Nat /\ q \in Int  BY <1>1
<1>3. ItemSize * q <= a /\ a < ItemSize * q + ItemSize  BY <1>1, <1>2
<1>4. q = i  BY <1>1, <1>2, <1>3
<1> QED  BY <1>2, <1>4 DEF Letter, ItemOf

LettersOf(i) == {Letter(i, k) : k \in 1 .. ItemSize - 1}
ItemsIn(s) == {ItemOf(s[k]) : k \in DOMAIN s}

LEMMA ItemsOfItem ==
    ASSUME NEW i \in Nat, NEW s \in Seq(LettersOf(i))
    PROVE  s \in Seq(Nat) /\ ItemsIn(s) \subseteq {i}
<1>1. LettersOf(i) \in SUBSET Nat /\ \A x \in LettersOf(i) : ItemOf(x) = i  BY LetterIs DEF LettersOf
<1>2. s \in Seq(Nat)  BY <1>1
<1>3. \A k \in DOMAIN s : s[k] \in LettersOf(i)  OBVIOUS
<1> QED  BY <1>1, <1>2, <1>3 DEF ItemsIn

LEMMA ItemsOfBoth ==
    ASSUME NEW s \in Seq(Nat), NEW t \in Seq(Nat)
    PROVE  s \o t \in Seq(Nat) /\ ItemsIn(s \o t) \subseteq ItemsIn(s) \cup ItemsIn(t)
<1>1. s \o t \in Seq(Nat) /\ DOMAIN (s \o t) = 1 .. Len(s) + Len(t)  OBVIOUS
<1>2. ASSUME NEW k \in 1 .. Len(s) + Len(t) PROVE ItemOf((s \o t)[k]) \in ItemsIn(s) \cup ItemsIn(t)
  <2>1. CASE k <= Len(s)
    <3>1. k \in DOMAIN s /\ (s \o t)[k] = s[k]  BY <2>1
    <3> QED  BY <3>1 DEF ItemsIn
  <2>2. CASE k > Len(s)
    <3>1. k - Len(s) \in DOMAIN t /\ (s \o t)[k] = t[k - Len(s)]  BY <2>2
    <3> QED  BY <3>1 DEF ItemsIn
  <2> QED  BY <2>1, <2>2
<1> QED  BY <1>1, <1>2 DEF ItemsIn

\* A text has the letters of its item, and separators, which are of none.
LEMMA TextIs ==
    ASSUME content \in Seq(ContentItem), NEW i \in DOMAIN content
    PROVE  Text(i) \in Seq(Nat) /\ ItemsIn(Text(i)) \subseteq {0, i}
<1> DEFINE s == content[i].text
<1>1. i \in Nat /\ s \in Seq(0 .. Par) /\ Len(s) < ItemSize
  <2>1. i \in Nat /\ content[i] \in ContentItem  OBVIOUS
  <2>2. s \in {r \in Seq(0 .. Par) : Len(r) < ItemSize}  BY <2>1 DEF ContentItem
  <2> QED  BY <2>1, <2>2
<1>2. ItemSize \in Nat /\ ItemSize > Par /\ Par \in Nat  BY ContentAssumption DEF Par
<1>3. Text(i) = [k \in DOMAIN s |-> IF s[k] = 0 THEN Letter(i, k) ELSE s[k]]  BY DEF Text
<1> HIDE DEF s
<1>4. ASSUME NEW k \in DOMAIN s
      PROVE  (IF s[k] = 0 THEN Letter(i, k) ELSE s[k]) \in Nat
             /\ ItemOf(IF s[k] = 0 THEN Letter(i, k) ELSE s[k]) \in {0, i}
  <2>1. k \in 1 .. ItemSize - 1 /\ s[k] \in 0 .. Par  BY <1>1, <1>2
  <2>2. CASE s[k] = 0  BY <1>1, <2>1, <2>2, LetterIs
  <2>3. CASE s[k] # 0
    <3>1. s[k] \in Nat /\ s[k] < ItemSize  BY <1>2, <2>1
    <3>2. s[k] \div ItemSize = 0  BY <1>2, <3>1
    <3> QED  BY <2>3, <3>1, <3>2 DEF ItemOf
  <2> QED  BY <2>2, <2>3
<1>5. DOMAIN s = 1 .. Len(s) /\ Len(s) \in Nat  BY <1>1
<1>6. Text(i) \in Seq(Nat)  BY <1>3, <1>4, <1>5
<1>7. DOMAIN Text(i) = DOMAIN s
      /\ \A k \in DOMAIN s : Text(i)[k] = IF s[k] = 0 THEN Letter(i, k) ELSE s[k]
  BY <1>3
<1> QED  BY <1>4, <1>6, <1>7 DEF ItemsIn

\* The rows of a table are those of its item.
LEMMA TableIs ==
    ASSUME content \in Seq(ContentItem), NEW i \in DOMAIN content, content[i].rows > 0
    PROVE  /\ Table(i) \in TableRecord
           /\ Letters(Table(i).header) \in Seq(LettersOf(i))
           /\ Letters(Table(i).rows) \in Seq(LettersOf(i))
           /\ Letters(Table(i).summary) \in Seq(LettersOf(i))
<1> DEFINE s == content[i]
           h == HeaderRows(i)
           last == IF s.total /\ s.rows > h THEN s.rows - 1 ELSE s.rows
           RowsOf == {Row(i, k) : k \in 1 .. s.rows}
<1>1. i \in Nat /\ s \in ContentItem  OBVIOUS
<1>2. /\ s.rows \in Nat /\ s.rows > 0 /\ s.rows < ItemSize
      /\ s.head \in Nat /\ s.first \in Nat /\ s.explicit \in BOOLEAN /\ s.total \in BOOLEAN
      /\ s.width \in Nat /\ s.source \in Nat /\ s.caption \in Nat
  BY <1>1, ContentAssumption DEF ContentItem
<1>3. h \in 0 .. 1 /\ h <= s.rows  BY <1>2 DEF HeaderRows
<1>4. ASSUME NEW k \in 1 .. s.rows
      PROVE  Row(i, k) \in TableRow /\ Row(i, k).letter = Letter(i, k) /\ Letter(i, k) \in LettersOf(i)
  <2>1. k \in 1 .. ItemSize - 1  BY <1>2, ContentAssumption
  <2>2. Letter(i, k) \in Nat /\ Letter(i, k) \in LettersOf(i)  BY <1>1, <2>1, LetterIs DEF LettersOf
  <2> DEFINE data == IF s.head = 0 THEN k ELSE k - 1
             number == IF s.first = 0 \/ data = 0 \/ (s.total /\ k = s.rows) THEN 0 ELSE s.first + data - 1
  <2>3. number \in Nat
    <3>1. data \in Nat  BY <2>1
    <3> HIDE DEF data
    <3>2. CASE data = 0  BY <3>2
    <3>3. CASE data # 0  BY <1>2, <3>1, <3>3
    <3> QED  BY <3>2, <3>3
  <2>4. Row(i, k) = [letter |-> Letter(i, k), number |-> number]  BY DEF Row
  <2> QED  BY <2>2, <2>3, <2>4 DEF TableRow
<1>5. last \in Nat /\ h <= last /\ last <= s.rows  BY <1>2, <1>3
<1>6. Columns(i) \in Nat
  <2>1. 1 \in 1 .. ItemSize - 1  BY ContentAssumption
  <2>2. Letter(i, 1) \in Nat  BY <1>1, <2>1, LetterIs
  <2> QED  BY <1>2, <2>2 DEF Columns
<1> DEFINE header == [k \in 1 .. h |-> Row(i, k)]
           body == [k \in 1 .. last - h |-> Row(i, k + h)]
           summary == [k \in 1 .. s.rows - last |-> Row(i, k + last)]
<1>7. Table(i) = [columns |-> Columns(i), explicit |-> s.explicit, inferred |-> ~s.explicit /\ h = 1,
                  header |-> header, rows |-> body, summary |-> summary,
                  width |-> s.width, source |-> s.source, caption |-> s.caption]
  BY DEF Table
<1> HIDE DEF h, last, s, RowsOf
<1>8. \A k \in 1 .. s.rows : Row(i, k) \in RowsOf  BY DEF RowsOf
<1>9. header \in Seq(RowsOf) /\ body \in Seq(RowsOf) /\ summary \in Seq(RowsOf)
  <2>1. \A k \in 1 .. h : k \in 1 .. s.rows  BY <1>2, <1>3
  <2>2. \A k \in 1 .. last - h : k + h \in 1 .. s.rows  BY <1>2, <1>3, <1>5
  <2>3. \A k \in 1 .. s.rows - last : k + last \in 1 .. s.rows  BY <1>2, <1>5
  <2>4. h \in Nat /\ last - h \in Nat /\ s.rows - last \in Nat  BY <1>2, <1>3, <1>5
  <2>5. header \in [1 .. h -> RowsOf]  BY <1>8, <2>1
  <2>6. body \in [1 .. last - h -> RowsOf]  BY <1>8, <2>2
  <2>7. summary \in [1 .. s.rows - last -> RowsOf]  BY <1>8, <2>3
  <2> HIDE DEF header, body, summary
  <2>8. \A n \in Nat : [1 .. n -> RowsOf] \subseteq Seq(RowsOf)  OBVIOUS
  <2> QED  BY <2>4, <2>5, <2>6, <2>7, <2>8
<1>10. RowsOf \in SUBSET TableRow /\ \A r \in RowsOf : r.letter \in LettersOf(i)  BY <1>4 DEF RowsOf
<1> HIDE DEF header, body, summary
<1>11. Table(i) \in TableRecord
  <2>1. header \in Seq(TableRow) /\ body \in Seq(TableRow) /\ summary \in Seq(TableRow)  BY <1>9, <1>10
  <2> QED  BY <1>2, <1>6, <1>7, <2>1 DEF TableRecord
<1>12. ASSUME NEW rows \in Seq(RowsOf) PROVE Letters(rows) \in Seq(LettersOf(i))
  <2>1. Letters(rows) = [k \in DOMAIN rows |-> rows[k].letter]  BY DEF Letters
  <2>2. DOMAIN rows = 1 .. Len(rows) /\ Len(rows) \in Nat /\ \A k \in DOMAIN rows : rows[k] \in RowsOf  OBVIOUS
  <2> QED  BY <1>10, <2>1, <2>2
<1> QED  BY <1>7, <1>9, <1>11, <1>12

\* What joins a table is of its item alone.
LEMMA JoinedHas ==
    ASSUME content \in Seq(ContentItem), NEW i \in DOMAIN content, content[i].rows > 0,
           NEW node \in NodeRecord, node.table \in TableRecord
    PROVE  /\ Joined(node, i) \in NodeRecord
           /\ Joined(node, i).type = node.type /\ Joined(node, i).table \in TableRecord
           /\ Joined(node, i).last = content[i].page
           /\ TableItems(Joined(node, i)) \subseteq TableItems(node) \cup {i}
<1> DEFINE p == node.table
           t == Table(i)
           more == InferredHeaderIsData(p, t)
           incoming == (IF more THEN t.header ELSE <<>>) \o t.rows
           text == (node.text \o Letters(incoming)) \o Letters(t.summary)
           table == [p EXCEPT !.rows = @ \o incoming, !.summary = @ \o t.summary]
<1>1. i \in Nat /\ content[i] \in ContentItem  OBVIOUS
<1>2. content[i].page \in Nat  BY <1>1 DEF ContentItem
<1>3. /\ t \in TableRecord
      /\ Letters(t.header) \in Seq(LettersOf(i)) /\ Letters(t.rows) \in Seq(LettersOf(i))
      /\ Letters(t.summary) \in Seq(LettersOf(i))
  BY TableIs
<1>4. Joined(node, i) = [node EXCEPT !.last = content[i].page, !.table = table, !.text = text]
  BY DEF Joined
<1> HIDE DEF t, more
<1>5. t.header \in Seq(TableRow) /\ t.rows \in Seq(TableRow) /\ t.summary \in Seq(TableRow)
  BY <1>3 DEF TableRecord
<1>6. incoming \in Seq(TableRow)  BY <1>5
<1>7. Letters(incoming) \in Seq(LettersOf(i))
  <2> DEFINE front == IF more THEN t.header ELSE <<>>
  <2>1. front \in Seq(TableRow)  BY <1>5
  <2>2. \A k \in DOMAIN t.header : t.header[k].letter \in LettersOf(i)  BY <1>3, <1>5 DEF Letters
  <2>3. \A k \in DOMAIN t.rows : t.rows[k].letter \in LettersOf(i)  BY <1>3, <1>5 DEF Letters
  <2>4. \A k \in DOMAIN front : front[k].letter \in LettersOf(i)  BY <2>2
  <2>5. incoming = front \o t.rows  OBVIOUS
  <2> HIDE DEF front, incoming
  <2>6. incoming \in Seq(TableRow) /\ DOMAIN incoming = 1 .. Len(front) + Len(t.rows)  BY <1>5, <2>1, <2>5
  <2>7. ASSUME NEW k \in 1 .. Len(front) + Len(t.rows) PROVE incoming[k].letter \in LettersOf(i)
    <3>1. CASE k <= Len(front)
      <4>1. k \in DOMAIN front /\ incoming[k] = front[k]  BY <1>5, <2>1, <2>5, <3>1
      <4> QED  BY <2>4, <4>1
    <3>2. CASE k > Len(front)
      <4>1. k - Len(front) \in DOMAIN t.rows /\ incoming[k] = t.rows[k - Len(front)]
        BY <1>5, <2>1, <2>5, <3>2
      <4> QED  BY <2>3, <4>1
    <3> QED  BY <1>5, <2>1, <3>1, <3>2
  <2>8. Letters(incoming) = [k \in 1 .. Len(front) + Len(t.rows) |-> incoming[k].letter]  BY <2>6 DEF Letters
  <2>9. Len(front) + Len(t.rows) \in Nat  BY <1>5, <2>1
  <2> QED  BY <2>7, <2>8, <2>9
<1> HIDE DEF incoming
<1>8. table \in TableRecord
  <2>1. p.rows \o incoming \in Seq(TableRow) /\ p.summary \o t.summary \in Seq(TableRow)
    BY <1>5, <1>6 DEF TableRecord
  <2> QED  BY <2>1 DEF TableRecord
<1>9. node.text \in Seq(Nat)  BY DEF NodeRecord
<1>10. /\ Letters(incoming) \in Seq(Nat) /\ ItemsIn(Letters(incoming)) \subseteq {i}
       /\ Letters(t.summary) \in Seq(Nat) /\ ItemsIn(Letters(t.summary)) \subseteq {i}
  BY <1>1, <1>3, <1>7, ItemsOfItem
<1>11. /\ node.text \o Letters(incoming) \in Seq(Nat)
       /\ ItemsIn(node.text \o Letters(incoming)) \subseteq ItemsIn(node.text) \cup {i}
  BY <1>9, <1>10, ItemsOfBoth
<1>12. text \in Seq(Nat) /\ ItemsIn(text) \subseteq ItemsIn(node.text) \cup {i}
  BY <1>10, <1>11, ItemsOfBoth
<1> HIDE DEF text, table
<1>13. Joined(node, i) \in NodeRecord  BY <1>2, <1>4, <1>8, <1>12 DEF NodeRecord
<1>14. /\ Joined(node, i).type = node.type /\ Joined(node, i).table = table
       /\ Joined(node, i).last = content[i].page /\ Joined(node, i).text = text
  BY <1>4 DEF NodeRecord
<1>15. TableItems(Joined(node, i)) = ItemsIn(text) /\ TableItems(node) = ItemsIn(node.text)
  BY <1>14 DEF TableItems, ItemsIn
<1> QED  BY <1>8, <1>12, <1>13, <1>14, <1>15

\* Nodes gain letters of the item that is read, and no others but separators.
Grown ==
    \A m \in DOMAIN nodes' : \A x \in TableItems(nodes'[m]) :
        x = Item \/ x = 0 \/ (m \in DOMAIN nodes /\ x \in TableItems(nodes[m]))

\* A table gains it if it is new, or open and goes on with it.
TablesGrown ==
    \A m \in DOMAIN nodes' : nodes'[m].type = "table" =>
        /\ 0 \notin TableItems(nodes'[m])
        /\ m \in DOMAIN nodes => nodes[m].type = "table"
        /\ Item \in TableItems(nodes'[m]) =>
              m \notin DOMAIN nodes \/ (m = open /\ content[Item].page = nodes[open].last + 1)

LEMMA PassedStays ==
    ASSUME content' = content, Grown, NEW n, NEW k \in 1 .. read, read \in Nat, Passed(k, n)
    PROVE  Passed(k, n)'
<1>1. Promoted(k)' = Promoted(k)  BY DEF Promoted
<1>2. k # Item /\ k # 0  BY DEF Item
<1>3. ASSUME NEW m \in DOMAIN nodes' \ {n}, \A o \in DOMAIN nodes \ {n} : k \notin TableItems(nodes[o])
      PROVE  k \notin TableItems(nodes'[m])
  BY <1>2, <1>3 DEF Grown
<1> QED  BY <1>1, <1>3 DEF Passed

LEMMA PagesAre ==
    ASSUME ContentTypes
    PROVE  /\ read \in Nat /\ DOMAIN nodes = 1 .. Len(nodes) /\ DOMAIN content = 1 .. Len(content)
           /\ \A i \in DOMAIN content : content[i].page \in Nat
           /\ \A n \in DOMAIN nodes : nodes[n].last \in Nat
<1>1. /\ content \in Seq(ContentItem) /\ nodes \in Seq(NodeRecord) /\ read \in 0 .. Len(content)
  BY DEF ContentTypes
<1>2. \A i \in DOMAIN content : content[i] \in ContentItem  BY <1>1
<1>3. \A n \in DOMAIN nodes : nodes[n] \in NodeRecord  BY <1>1
<1>4. \A x \in ContentItem : x.page \in Nat  BY DEF ContentItem
<1>5. \A x \in NodeRecord : x.last \in Nat  BY DEF NodeRecord
<1> QED  BY <1>1, <1>2, <1>3, <1>4, <1>5

LEMMA SequenceKeeps ==
    ASSUME ContentInv, content' = content, read' = Item, Item \in DOMAIN content, ContentTypes',
           Grown, TablesGrown
    PROVE  ItemsRead' /\ JoinedInSequence'
<1>1. /\ read \in Nat /\ DOMAIN nodes = 1 .. Len(nodes) /\ DOMAIN content = 1 .. Len(content)
      /\ \A i \in DOMAIN content : content[i].page \in Nat
      /\ \A n \in DOMAIN nodes : nodes[n].last \in Nat
  BY PagesAre DEF ContentInv
<1>2. ItemsRead'
  <2> SUFFICES ASSUME NEW n \in DOMAIN nodes'
               PROVE  /\ TableItems(nodes'[n]) \subseteq 0 .. Item
                      /\ nodes'[n].type = "table" => 0 \notin TableItems(nodes'[n])
    BY DEF ItemsRead
  <2>1. nodes'[n].type = "table" => 0 \notin TableItems(nodes'[n])  BY DEF TablesGrown
  <2>2. Item = read + 1  BY DEF Item
  <2>3. ASSUME NEW x \in TableItems(nodes'[n]) PROVE x \in 0 .. Item
    <3>1. x = Item \/ x = 0 \/ (n \in DOMAIN nodes /\ x \in TableItems(nodes[n]))  BY DEF Grown
    <3>2. n \in DOMAIN nodes /\ x \in TableItems(nodes[n]) => x \in 0 .. read  BY DEF ContentInv, ItemsRead
    <3> QED  BY <1>1, <2>2, <3>1, <3>2
  <2> QED  BY <2>1, <2>3
<1>3. JoinedInSequence'
  <2> SUFFICES ASSUME NEW n \in DOMAIN nodes', nodes'[n].type = "table",
                      NEW i \in TableItems(nodes'[n]), NEW j \in TableItems(nodes'[n]), i < j
               PROVE  /\ content[i].page < content[j].page
                      /\ \A k \in i + 1 .. j - 1 : Passed(k, n)'
    BY DEF JoinedInSequence, Passed
  <2>1. 0 \notin TableItems(nodes'[n]) /\ TableItems(nodes'[n]) \subseteq 0 .. Item /\ Item = read + 1
    BY <1>2 DEF TablesGrown, ItemsRead, Item
  <2>2. i \in 1 .. read + 1 /\ j \in 1 .. read + 1 /\ i \in 1 .. read  BY <1>1, <2>1
  <2>3. n \in DOMAIN nodes /\ i \in TableItems(nodes[n]) /\ nodes[n].type = "table"
    BY <2>1, <2>2 DEF Grown, TablesGrown
  <2>4. CASE j = Item
    <3>1. n = open /\ content[j].page = nodes[open].last + 1  BY <2>3, <2>4 DEF TablesGrown
    <3>2. open # 0  BY <1>1, <2>3, <3>1
    <3>3. /\ content[i].page <= nodes[open].last
          /\ \A k \in i + 1 .. read : Passed(k, open)
      BY <2>3, <3>1, <3>2 DEF ContentInv, OpenToNext
    <3>4. i \in DOMAIN content  BY <1>1, <2>1, <2>2
    <3>5. content[i].page < content[j].page  BY <1>1, <2>3, <3>1, <3>3, <3>4
    <3>6. ASSUME NEW k \in i + 1 .. j - 1 PROVE Passed(k, n)'
      <4>1. k \in 1 .. read /\ k \in i + 1 .. read  BY <1>1, <2>1, <2>2, <2>4
      <4> QED  BY <1>1, <3>1, <3>3, <4>1, PassedStays
    <3> QED  BY <3>5, <3>6
  <2>5. CASE j # Item
    <3>1. j \in 1 .. read  BY <1>1, <2>1, <2>2, <2>5
    <3>2. j \in TableItems(nodes[n])  BY <2>5, <3>1 DEF Grown
    <3>3. /\ content[i].page < content[j].page
          /\ \A k \in i + 1 .. j - 1 : Passed(k, n)
      BY <2>3, <3>2 DEF ContentInv, JoinedInSequence, Passed
    <3>4. ASSUME NEW k \in i + 1 .. j - 1 PROVE Passed(k, n)'
      <4>1. k \in 1 .. read  BY <1>1, <2>2, <3>1
      <4> QED  BY <1>1, <3>3, <4>1, PassedStays
    <3> QED  BY <3>3, <3>4
  <2> QED  BY <2>4, <2>5
<1> QED  BY <1>2, <1>3

\* The open table stays open over an item that may be passed over.
LEMMA OpenKeeps ==
    ASSUME ContentInv, content' = content, read' = Item, Item \in DOMAIN content, Grown,
           open' = open, open # 0 => /\ open \in DOMAIN nodes'
                                     /\ 0 \notin TableItems(nodes'[open])
                                     /\ nodes'[open].last \in Nat
                                     /\ nodes[open].last <= nodes'[open].last
                                     /\ Item \in TableItems(nodes'[open]) => content[Item].page <= nodes'[open].last
                                     /\ \A k \in {Item} : Passed(k, open)'
    PROVE  OpenToNext'
<1> SUFFICES ASSUME open # 0, NEW i \in TableItems(nodes'[open])
             PROVE  /\ content[i].page <= nodes'[open].last
                    /\ \A k \in i + 1 .. Item : Passed(k, open)'
  BY DEF OpenToNext
<1>1. /\ read \in Nat /\ DOMAIN nodes = 1 .. Len(nodes) /\ open \in DOMAIN nodes /\ nodes[open].last \in Nat
      /\ DOMAIN content = 1 .. Len(content) /\ \A x \in DOMAIN content : content[x].page \in Nat
  <2>1. open \in DOMAIN nodes  BY DEF ContentInv, ContentTypes
  <2> QED  BY <2>1, PagesAre DEF ContentInv
<1>2. Item = read + 1  BY DEF Item
<1>3. CASE i = Item  BY <1>1, <1>2, <1>3
<1>4. CASE i # Item
  <2>1. i \in TableItems(nodes[open])  BY <1>4 DEF Grown
  <2>2. i \in 0 .. read /\ i # 0  BY <1>1, <2>1 DEF ContentInv, ItemsRead
  <2>3. /\ content[i].page <= nodes[open].last
        /\ \A k \in i + 1 .. read : Passed(k, open)
    BY <2>1 DEF ContentInv, OpenToNext
  <2>4. i \in DOMAIN content /\ Item \in Nat  BY <1>1, <1>2, <2>2
  <2>5. content[i].page <= nodes'[open].last  BY <1>1, <2>3, <2>4
  <2>6. ASSUME NEW k \in i + 1 .. Item PROVE Passed(k, open)'
    <3>1. CASE k = Item  BY <3>1
    <3>2. CASE k # Item
      <4>1. k \in 1 .. read /\ k \in i + 1 .. read  BY <1>1, <1>2, <2>2, <3>2
      <4> QED  BY <1>1, <2>3, <4>1, PassedStays
    <3> QED  BY <3>1, <3>2
  <2> QED  BY <2>5, <2>6
<1> QED  BY <1>3, <1>4

LEMMA ItemIs ==
    ASSUME ContentTypes, read < Len(content)
    PROVE  /\ Item \in DOMAIN content /\ Item \in Nat /\ Item \in 0 .. Len(content)
           /\ content[Item] \in ContentItem
<1>1. content \in Seq(ContentItem) /\ read \in 0 .. Len(content)  BY DEF ContentTypes
<1>2. Item \in 1 .. Len(content)  BY <1>1 DEF Item
<1> QED  BY <1>1, <1>2

LEMMA NodeIs ==
    ASSUME content \in Seq(ContentItem), NEW i \in DOMAIN content, NEW type \in NodeTypes, NEW level \in Nat,
           NEW text \in Seq(Nat), NEW table \in TableRecord \cup {NoTable}
    PROVE  /\ Node(i, type, level, text, table) \in NodeRecord
           /\ Node(i, type, level, text, table).type = type
           /\ Node(i, type, level, text, table).table = table
           /\ Node(i, type, level, text, table).last = content[i].page
           /\ TableItems(Node(i, type, level, text, table)) = ItemsIn(text)
<1>1. i \in Nat /\ content[i] \in ContentItem  OBVIOUS
<1>2. content[i].page \in Nat  BY <1>1 DEF ContentItem
<1> DEFINE n == Node(i, type, level, text, table)
<1>3. n = [type |-> type, level |-> level, path |-> <<>>, id |-> i, order |-> i,
           first |-> content[i].page, last |-> content[i].page, text |-> text, table |-> table]
  BY DEF Node
<1>4. n \in NodeRecord  BY <1>1, <1>2, <1>3 DEF NodeRecord
<1>5. n.type = type /\ n.table = table /\ n.last = content[i].page /\ n.text = text  BY <1>3
<1> HIDE DEF n
<1>6. TableItems(n) = ItemsIn(text)  BY <1>5 DEF TableItems, ItemsIn
<1> QED  BY <1>4, <1>5, <1>6 DEF n

\* A new node is of the item that is read, and closes what was open or is itself open.
LEMMA NewNodeKeeps ==
    ASSUME ContentInv, read < Len(content), content' = content, read' = Item, NEW node \in NodeRecord,
           nodes' = Append(nodes, node), TableItems(node) \subseteq {0, Item},
           node.type = "table" => /\ node.table \in TableRecord /\ 0 \notin TableItems(node)
                                  /\ node.last = content[Item].page,
           open' = 0 \/ (node.type = "table" /\ open' = Len(nodes'))
    PROVE  ContentInv'
<1>1. /\ content \in Seq(ContentItem) /\ nodes \in Seq(NodeRecord) /\ ContentTypes
      /\ \A n \in 1 .. Len(nodes) : nodes[n].type = "table" => nodes[n].table \in TableRecord
  BY DEF ContentInv, ContentTypes
<1>2. Item \in DOMAIN content /\ Item \in 0 .. Len(content) /\ Item \in Nat  BY <1>1, ItemIs
<1>3. /\ nodes' \in Seq(NodeRecord) /\ Len(nodes') = Len(nodes) + 1
      /\ \A n \in 1 .. Len(nodes) : nodes'[n] = nodes[n]
      /\ nodes'[Len(nodes) + 1] = node
      /\ Len(nodes) \in Nat /\ DOMAIN nodes = 1 .. Len(nodes) /\ DOMAIN nodes' = 1 .. Len(nodes) + 1
  BY <1>1
<1>4. \A n \in DOMAIN nodes' : n \in DOMAIN nodes \/ n = Len(nodes) + 1  BY <1>3
<1>5. ContentTypes'
  <2>1. \A n \in 1 .. Len(nodes) + 1 : nodes'[n].type = "table" => nodes'[n].table \in TableRecord
    BY <1>1, <1>3, <1>4
  <2>2. open' \in 0 .. Len(nodes') /\ (open' # 0 => nodes'[open'].type = "table")  BY <1>3
  <2> QED  BY <1>1, <1>2, <1>3, <2>1, <2>2 DEF ContentTypes
<1>6. Grown
  <2> SUFFICES ASSUME NEW n \in DOMAIN nodes', NEW x \in TableItems(nodes'[n])
               PROVE  x = Item \/ x = 0 \/ (n \in DOMAIN nodes /\ x \in TableItems(nodes[n]))
    BY DEF Grown
  <2>1. CASE n \in DOMAIN nodes  BY <1>3, <2>1
  <2>2. CASE n = Len(nodes) + 1  BY <1>3, <2>2
  <2> QED  BY <1>4, <2>1, <2>2
<1>7. TablesGrown
  <2> SUFFICES ASSUME NEW n \in DOMAIN nodes', nodes'[n].type = "table"
               PROVE  /\ 0 \notin TableItems(nodes'[n])
                      /\ n \in DOMAIN nodes => nodes[n].type = "table"
                      /\ Item \in TableItems(nodes'[n]) =>
                           n \notin DOMAIN nodes \/ (n = open /\ content[Item].page = nodes[open].last + 1)
    BY DEF TablesGrown
  <2>1. CASE n \in DOMAIN nodes
    <3>1. nodes'[n] = nodes[n]  BY <1>3, <2>1
    <3>2. TableItems(nodes[n]) \subseteq 0 .. read /\ 0 \notin TableItems(nodes[n])
      BY <2>1, <3>1 DEF ContentInv, ItemsRead
    <3>3. Item \notin 0 .. read  BY <1>1, PagesAre DEF Item
    <3> QED  BY <2>1, <3>1, <3>2, <3>3
  <2>2. CASE n = Len(nodes) + 1  BY <1>3, <2>2
  <2> QED  BY <1>4, <2>1, <2>2
<1>8. ItemsRead' /\ JoinedInSequence'  BY <1>2, <1>5, <1>6, <1>7, SequenceKeeps
<1>9. OpenToNext'
  <2> SUFFICES ASSUME open' # 0, NEW i \in TableItems(nodes'[open'])
               PROVE  /\ content[i].page <= nodes'[open'].last
                      /\ \A k \in i + 1 .. Item : Passed(k, open)'
    BY DEF OpenToNext
  <2>1. nodes'[open'] = node /\ node.type = "table"  BY <1>3
  <2>2. i = Item  BY <2>1
  <2>3. content[Item].page \in Nat  BY <1>1, <1>2, PagesAre
  <2> QED  BY <1>2, <2>1, <2>2, <2>3
<1> QED  BY <1>5, <1>8, <1>9 DEF ContentInv

LEMMA SkipDecorationKeeps == ASSUME ContentInv, SkipDecoration PROVE ContentInv'
<1>1. /\ content' = content /\ read' = Item /\ nodes' = nodes /\ open' = open /\ read < Len(content)
      /\ content[Item].kind \in Decorations /\ ~Promoted(Item)
  BY DEF SkipDecoration, At, Unread
<1>2. ContentTypes  BY DEF ContentInv
<1>3. Item \in DOMAIN content /\ Item \in 0 .. Len(content) /\ Item \in Nat  BY <1>1, <1>2, ItemIs
<1>4. ContentTypes'  BY <1>1, <1>2, <1>3 DEF ContentTypes
<1>5. Grown  BY <1>1 DEF Grown
<1>6. Item \notin 0 .. read  BY <1>2, PagesAre DEF Item
<1>7. TablesGrown  BY <1>1, <1>6 DEF TablesGrown, ContentInv, ItemsRead
<1>8. ItemsRead' /\ JoinedInSequence'  BY <1>1, <1>3, <1>4, <1>5, <1>7, SequenceKeeps
<1>9. OpenToNext'
  <2>1. \A k \in {Item} : Passed(k, open)'
    <3> SUFFICES ASSUME NEW k \in {Item} PROVE Passed(k, open)'  OBVIOUS
    <3>1. Promoted(k)' = Promoted(k)  BY <1>1 DEF Promoted
    <3> QED  BY <1>1, <3>1 DEF Passed
  <2>2. open # 0 => open \in DOMAIN nodes /\ nodes[open].last \in Nat /\ nodes[open].type = "table"
    BY <1>2, PagesAre DEF ContentTypes
  <2>3. open # 0 => 0 \notin TableItems(nodes[open]) /\ Item \notin TableItems(nodes[open])
    BY <1>6, <2>2 DEF ContentInv, ItemsRead
  <2> QED  BY <1>1, <1>3, <1>5, <2>1, <2>2, <2>3, OpenKeeps
<1> QED  BY <1>4, <1>8, <1>9 DEF ContentInv

LEMMA NewTableKeeps == ASSUME ContentInv, NewTable PROVE ContentInv'
<1>1. /\ content' = content /\ read' = Item /\ nodes' = Append(nodes, TableNode(Item))
      /\ open' = Len(nodes') /\ read < Len(content) /\ content[Item].rows > 0
  BY DEF NewTable, At, Unread
<1>2. ContentTypes /\ content \in Seq(ContentItem)  BY DEF ContentInv, ContentTypes
<1>3. Item \in DOMAIN content /\ Item \in Nat  BY <1>1, <1>2, ItemIs
<1> DEFINE t == Table(Item)
           names == IF t.inferred THEN Letters(t.header) ELSE <<>>
           text == (names \o Letters(t.rows)) \o Letters(t.summary)
           node == Node(Item, "table", 0, text, t)
<1>4. /\ t \in TableRecord
      /\ Letters(t.header) \in Seq(LettersOf(Item)) /\ Letters(t.rows) \in Seq(LettersOf(Item))
      /\ Letters(t.summary) \in Seq(LettersOf(Item))
  BY <1>1, <1>2, <1>3, TableIs
<1>5. TableNode(Item) = node  BY DEF TableNode
<1> HIDE DEF t
<1>6. names \in Seq(LettersOf(Item))  BY <1>4
<1>7. text \in Seq(LettersOf(Item))  BY <1>4, <1>6
<1> HIDE DEF text
<1>8. text \in Seq(Nat) /\ ItemsIn(text) \subseteq {Item}  BY <1>3, <1>7, ItemsOfItem
<1>9. /\ node \in NodeRecord /\ node.type = "table" /\ node.table = t /\ node.last = content[Item].page
      /\ TableItems(node) = ItemsIn(text)
  <2>1. t \in TableRecord \cup {NoTable}  BY <1>4
  <2>3. "table" \in NodeTypes  BY DEF NodeTypes
  <2> HIDE DEF node
  <2>2. \A type \in NodeTypes, level \in Nat, words \in Seq(Nat), table \in TableRecord \cup {NoTable} :
           LET n == Node(Item, type, level, words, table)
           IN  n \in NodeRecord /\ n.type = type /\ n.table = table /\ n.last = content[Item].page
               /\ TableItems(n) = ItemsIn(words)
    BY <1>2, <1>3, NodeIs
  <2> QED  BY <1>8, <2>1, <2>2, <2>3 DEF node
<1> HIDE DEF node
<1>10. 0 \notin TableItems(node) /\ TableItems(node) \subseteq {0, Item}  BY <1>3, <1>8, <1>9 DEF Item, ContentTypes
<1> QED  BY <1>1, <1>4, <1>5, <1>9, <1>10, NewNodeKeeps

\* A node changes in place.
LEMMA NodeChanges ==
    ASSUME nodes \in Seq(NodeRecord), NEW n \in DOMAIN nodes, NEW node \in NodeRecord,
           nodes' = [nodes EXCEPT ![n] = node]
    PROVE  /\ nodes' \in Seq(NodeRecord) /\ Len(nodes') = Len(nodes) /\ DOMAIN nodes' = DOMAIN nodes
           /\ nodes'[n] = node /\ \A m \in DOMAIN nodes \ {n} : nodes'[m] = nodes[m]
OBVIOUS

LEMMA JoinTableKeeps == ASSUME ContentInv, JoinTable PROVE ContentInv'
<1> DEFINE node == Joined(nodes[open], Item)
<1>1. /\ content' = content /\ read' = Item /\ open' = open /\ read < Len(content)
      /\ nodes' = [nodes EXCEPT ![open] = node]
      /\ content[Item].kind = "table" /\ content[Item].rows > 0
      /\ open # 0 /\ content[Item].page = nodes[open].last + 1
  BY DEF JoinTable, At, Unread, Continues
<1>2. /\ ContentTypes /\ content \in Seq(ContentItem) /\ nodes \in Seq(NodeRecord)
      /\ \A n \in 1 .. Len(nodes) : nodes[n].type = "table" => nodes[n].table \in TableRecord
      /\ open \in 1 .. Len(nodes) /\ nodes[open].type = "table"
  BY <1>1 DEF ContentInv, ContentTypes
<1>3. Item \in DOMAIN content /\ Item \in 0 .. Len(content) /\ Item \in Nat  BY <1>1, <1>2, ItemIs
<1>4. open \in DOMAIN nodes /\ nodes[open] \in NodeRecord /\ nodes[open].table \in TableRecord  BY <1>2
<1>5. /\ node \in NodeRecord /\ node.type = "table" /\ node.table \in TableRecord
      /\ node.last = content[Item].page /\ TableItems(node) \subseteq TableItems(nodes[open]) \cup {Item}
  BY <1>1, <1>2, <1>3, <1>4, JoinedHas
<1> HIDE DEF node
<1>6. /\ nodes' \in Seq(NodeRecord) /\ Len(nodes') = Len(nodes) /\ DOMAIN nodes' = DOMAIN nodes
      /\ nodes'[open] = node /\ \A m \in DOMAIN nodes \ {open} : nodes'[m] = nodes[m]
  BY <1>1, <1>2, <1>4, <1>5, NodeChanges
<1>7. DOMAIN nodes = 1 .. Len(nodes)  BY <1>2
<1>8. ContentTypes'
  <2>1. \A n \in 1 .. Len(nodes) : nodes'[n].type = "table" => nodes'[n].table \in TableRecord
    BY <1>2, <1>5, <1>6, <1>7
  <2> QED  BY <1>1, <1>2, <1>3, <1>5, <1>6, <2>1 DEF ContentTypes
<1>9. Item \notin 0 .. read /\ Item # 0  BY <1>2, PagesAre DEF Item
<1>10. /\ 0 \notin TableItems(nodes[open]) /\ 0 \notin TableItems(node)
       /\ \A n \in DOMAIN nodes : Item \notin TableItems(nodes[n])
  BY <1>2, <1>4, <1>5, <1>9 DEF ContentInv, ItemsRead
<1>11. Grown  BY <1>5, <1>6 DEF Grown
<1>12. TablesGrown
  <2> SUFFICES ASSUME NEW n \in DOMAIN nodes, nodes'[n].type = "table"
               PROVE  /\ 0 \notin TableItems(nodes'[n]) /\ nodes[n].type = "table"
                      /\ Item \in TableItems(nodes'[n]) => n = open
    BY <1>1, <1>6 DEF TablesGrown
  <2>1. CASE n = open  BY <1>2, <1>6, <1>10, <2>1
  <2>2. CASE n # open  BY <1>6, <1>10, <2>2 DEF ContentInv, ItemsRead
  <2> QED  BY <2>1, <2>2
<1>13. ItemsRead' /\ JoinedInSequence'  BY <1>1, <1>3, <1>8, <1>11, <1>12, SequenceKeeps
<1>14. OpenToNext'
  <2>1. \A k \in {Item} : Passed(k, open)'
    <3> SUFFICES ASSUME NEW k \in {Item} PROVE Passed(k, open)'  OBVIOUS
    <3>1. \A m \in DOMAIN nodes' \ {open} : k \notin TableItems(nodes'[m])  BY <1>6, <1>10
    <3>2. content'[k].kind = "table" /\ open' = open  BY <1>1
    <3> QED  BY <3>1, <3>2 DEF Passed
  <2>2. nodes[open].last \in Nat /\ content[Item].page \in Nat  BY <1>2, <1>3, <1>4, PagesAre
  <2> QED  BY <1>1, <1>3, <1>4, <1>5, <1>6, <1>10, <1>11, <2>1, <2>2, OpenKeeps
<1> QED  BY <1>8, <1>13, <1>14 DEF ContentInv

LEMMA EmptyTableKeeps == ASSUME ContentInv, EmptyTable PROVE ContentInv'
<1>1. /\ content' = content /\ read' = Item /\ read < Len(content) /\ content[Item].kind = "table"
  BY DEF EmptyTable, At, Unread
<1>2. /\ ContentTypes /\ content \in Seq(ContentItem) /\ nodes \in Seq(NodeRecord)
      /\ \A n \in 1 .. Len(nodes) : nodes[n].type = "table" => nodes[n].table \in TableRecord
      /\ open \in 0 .. Len(nodes) /\ (open # 0 => nodes[open].type = "table")
      /\ DOMAIN nodes = 1 .. Len(nodes)
  BY <1>1 DEF ContentInv, ContentTypes
<1>3. Item \in DOMAIN content /\ Item \in 0 .. Len(content) /\ Item \in Nat  BY <1>1, <1>2, ItemIs
<1>4. Item \notin 0 .. read  BY <1>2, PagesAre DEF Item
<1>5. /\ \A n \in DOMAIN nodes : Item \notin TableItems(nodes[n])
      /\ \A n \in DOMAIN nodes : nodes[n].type = "table" => 0 \notin TableItems(nodes[n])
  BY <1>4 DEF ContentInv, ItemsRead
<1>6. CASE open' = 0 /\ nodes' = nodes
  <2>1. ContentTypes'  BY <1>1, <1>2, <1>3, <1>6 DEF ContentTypes
  <2>2. Grown /\ TablesGrown  BY <1>5, <1>6 DEF Grown, TablesGrown
  <2>3. ItemsRead' /\ JoinedInSequence'  BY <1>1, <1>3, <2>1, <2>2, SequenceKeeps
  <2>4. OpenToNext'  BY <1>6 DEF OpenToNext
  <2> QED  BY <2>1, <2>3, <2>4 DEF ContentInv
<1>7. CASE /\ open # 0 /\ open' = open /\ content[Item].page = nodes[open].last + 1
           /\ nodes' = [nodes EXCEPT ![open].last = content[Item].page]
  <2> DEFINE node == [nodes[open] EXCEPT !.last = content[Item].page]
  <2>1. open \in DOMAIN nodes /\ nodes[open] \in NodeRecord  BY <1>2, <1>7
  <2>2. content[Item].page \in Nat /\ nodes[open].last \in Nat  BY <1>2, <1>3, <2>1, PagesAre
  <2>3. /\ node \in NodeRecord /\ node.type = nodes[open].type /\ node.table = nodes[open].table
        /\ node.text = nodes[open].text /\ node.last = content[Item].page
    BY <2>1, <2>2 DEF NodeRecord
  <2>4. nodes' = [nodes EXCEPT ![open] = node]  BY <1>7
  <2> HIDE DEF node
  <2>5. /\ nodes' \in Seq(NodeRecord) /\ Len(nodes') = Len(nodes) /\ DOMAIN nodes' = DOMAIN nodes
        /\ nodes'[open] = node /\ \A m \in DOMAIN nodes \ {open} : nodes'[m] = nodes[m]
    BY <1>2, <2>1, <2>3, <2>4, NodeChanges
  <2>6. TableItems(node) = TableItems(nodes[open])  BY <2>3 DEF TableItems
  <2>7. \A n \in DOMAIN nodes : /\ TableItems(nodes'[n]) = TableItems(nodes[n])
                                /\ nodes'[n].type = nodes[n].type /\ nodes'[n].table = nodes[n].table
    BY <2>3, <2>5, <2>6
  <2>8. ContentTypes'
    <3>1. \A n \in 1 .. Len(nodes) : nodes'[n].type = "table" => nodes'[n].table \in TableRecord
      BY <1>2, <2>7
    <3>2. nodes'[open].type = "table"  BY <1>2, <1>7, <2>1, <2>7
    <3> QED  BY <1>1, <1>2, <1>3, <1>7, <2>5, <3>1, <3>2 DEF ContentTypes
  <2>9. Grown /\ TablesGrown  BY <1>5, <2>5, <2>7 DEF Grown, TablesGrown
  <2>10. ItemsRead' /\ JoinedInSequence'  BY <1>1, <1>3, <2>8, <2>9, SequenceKeeps
  <2>11. OpenToNext'
    <3>1. \A k \in {Item} : Passed(k, open)'
      <4> SUFFICES ASSUME NEW k \in {Item} PROVE Passed(k, open)'  OBVIOUS
      <4>1. \A m \in DOMAIN nodes' \ {open} : k \notin TableItems(nodes'[m])  BY <1>5, <2>5, <2>7
      <4>2. content'[k].kind = "table" /\ open' = open  BY <1>1, <1>7
      <4> QED  BY <4>1, <4>2 DEF Passed
    <3>2. 0 \notin TableItems(nodes'[open]) /\ Item \notin TableItems(nodes'[open])
      BY <1>2, <1>5, <1>7, <2>1, <2>7
    <3>3. nodes'[open].last \in Nat /\ nodes[open].last <= nodes'[open].last  BY <1>7, <2>2, <2>3, <2>5
    <3> QED  BY <1>1, <1>3, <1>7, <2>1, <2>5, <2>9, <3>1, <3>2, <3>3, OpenKeeps
  <2> QED  BY <2>8, <2>10, <2>11 DEF ContentInv
<1> QED  BY <1>6, <1>7 DEF EmptyTable, MayExtend

LEMMA TakeContentKeeps == ASSUME ContentInv, TakeContent PROVE ContentInv'
<1> DEFINE type == TypeOf(Item)
           level == IF type # "heading" THEN 0
                    ELSE IF content[Item].level = 0 THEN 1 ELSE content[Item].level
           node == Node(Item, type, level, Text(Item), NoTable)
<1>1. content' = content /\ read' = Item /\ open' = 0 /\ read < Len(content)
  BY DEF TakeContent, At, Unread, Closes
<1>0. nodes' = CASE node.text = <<>> /\ type # "figure" -> nodes
                 [] nodes # <<>> /\ OneHeading(Last(nodes), node) ->
                      [nodes EXCEPT ![Len(nodes)].text = @ \o node.text]
                 [] OTHER -> Append(nodes, node)
  BY DEF TakeContent
<1>2. /\ ContentTypes /\ content \in Seq(ContentItem) /\ nodes \in Seq(NodeRecord)
      /\ \A n \in 1 .. Len(nodes) : nodes[n].type = "table" => nodes[n].table \in TableRecord
      /\ DOMAIN nodes = 1 .. Len(nodes)
  BY <1>1 DEF ContentInv, ContentTypes
<1>3. Item \in DOMAIN content /\ Item \in 0 .. Len(content) /\ Item \in Nat /\ content[Item] \in ContentItem
  BY <1>1, <1>2, ItemIs
<1>4. Item \notin 0 .. read  BY <1>2, PagesAre DEF Item
<1>5. /\ \A n \in DOMAIN nodes : Item \notin TableItems(nodes[n])
      /\ \A n \in DOMAIN nodes : nodes[n].type = "table" => 0 \notin TableItems(nodes[n])
  BY <1>4 DEF ContentInv, ItemsRead
<1>6. type \in NodeTypes /\ type # "table"  BY DEF TypeOf, NodeTypes
<1>7. level \in Nat
  <2>1. content[Item].level \in Nat  BY <1>3 DEF ContentItem
  <2> HIDE DEF type
  <2> QED  BY <2>1
<1>8. Text(Item) \in Seq(Nat) /\ ItemsIn(Text(Item)) \subseteq {0, Item}  BY <1>2, <1>3, TextIs
<1> HIDE DEF type, level
<1>9. /\ node \in NodeRecord /\ node.type = type /\ node.text = Text(Item)
      /\ TableItems(node) \subseteq {0, Item}
  <2>1. NoTable \in TableRecord \cup {NoTable}  OBVIOUS
  <2>2. \A level0 \in Nat, words \in Seq(Nat), table \in TableRecord \cup {NoTable} :
           LET n == Node(Item, type, level0, words, table)
           IN  n \in NodeRecord /\ n.type = type /\ TableItems(n) = ItemsIn(words)
    BY <1>2, <1>3, <1>6, NodeIs
  <2>3. node.text = Text(Item)  BY DEF Node
  <2> HIDE DEF node
  <2> QED  BY <1>7, <1>8, <2>1, <2>2, <2>3 DEF node
<1> HIDE DEF node
<1>10. CASE nodes' = nodes
  <2>1. ContentTypes'  BY <1>1, <1>2, <1>3, <1>10 DEF ContentTypes
  <2>2. Grown /\ TablesGrown  BY <1>5, <1>10 DEF Grown, TablesGrown
  <2>3. ItemsRead' /\ JoinedInSequence'  BY <1>1, <1>3, <2>1, <2>2, SequenceKeeps
  <2>4. OpenToNext'  BY <1>1 DEF OpenToNext
  <2> QED  BY <2>1, <2>3, <2>4 DEF ContentInv
<1>11. CASE /\ nodes # <<>> /\ OneHeading(Last(nodes), node)
            /\ nodes' = [nodes EXCEPT ![Len(nodes)].text = @ \o node.text]
  <2> DEFINE n == Len(nodes)
             long == [nodes[n] EXCEPT !.text = @ \o node.text]
  <2>1. n \in DOMAIN nodes /\ nodes[n] \in NodeRecord  BY <1>2, <1>11
  <2>2. nodes[n].type = "heading"  BY <1>11 DEF OneHeading, Last
  <2>3. nodes[n].text \in Seq(Nat) /\ node.text \in Seq(Nat)  BY <1>8, <1>9, <2>1 DEF NodeRecord
  <2>4. /\ nodes[n].text \o node.text \in Seq(Nat)
        /\ ItemsIn(nodes[n].text \o node.text) \subseteq ItemsIn(nodes[n].text) \cup ItemsIn(node.text)
    BY <2>3, ItemsOfBoth
  <2>5. long \in NodeRecord /\ long.type = "heading" /\ long.text = nodes[n].text \o node.text
    BY <2>1, <2>2, <2>4 DEF NodeRecord
  <2>6. nodes' = [nodes EXCEPT ![n] = long]  BY <1>11
  <2>7. TableItems(long) \subseteq TableItems(nodes[n]) \cup {0, Item}
    BY <1>8, <1>9, <2>4, <2>5 DEF TableItems, ItemsIn
  <2> HIDE DEF n, long
  <2>8. /\ nodes' \in Seq(NodeRecord) /\ Len(nodes') = Len(nodes) /\ DOMAIN nodes' = DOMAIN nodes
        /\ nodes'[n] = long /\ \A m \in DOMAIN nodes \ {n} : nodes'[m] = nodes[m]
    BY <1>2, <2>1, <2>5, <2>6, NodeChanges
  <2>9. ContentTypes'
    <3>1. \A m \in 1 .. Len(nodes) : nodes'[m].type = "table" => nodes'[m].table \in TableRecord
      <4> TAKE m \in 1 .. Len(nodes)
      <4>1. CASE m = n  BY <2>5, <2>8, <4>1
      <4>2. CASE m # n  BY <1>2, <2>8, <4>2
      <4> QED  BY <4>1, <4>2
    <3> QED  BY <1>1, <1>2, <1>3, <2>8, <3>1 DEF ContentTypes
  <2>10. Grown
    <3> SUFFICES ASSUME NEW m \in DOMAIN nodes, NEW x \in TableItems(nodes'[m])
                 PROVE  x = Item \/ x = 0 \/ x \in TableItems(nodes[m])
      BY <2>8 DEF Grown
    <3>1. CASE m = n  BY <2>7, <2>8, <3>1
    <3>2. CASE m # n  BY <2>8, <3>2
    <3> QED  BY <3>1, <3>2
  <2>11. TablesGrown
    <3> SUFFICES ASSUME NEW m \in DOMAIN nodes, nodes'[m].type = "table"
                 PROVE  nodes'[m] = nodes[m]
      BY <1>5, <2>8 DEF TablesGrown
    <3>1. m # n  BY <2>5, <2>8
    <3> QED  BY <2>8, <3>1
  <2>12. ItemsRead' /\ JoinedInSequence'  BY <1>1, <1>3, <2>9, <2>10, <2>11, SequenceKeeps
  <2>13. OpenToNext'  BY <1>1 DEF OpenToNext
  <2> QED  BY <2>9, <2>12, <2>13 DEF ContentInv
<1>12. CASE nodes' = Append(nodes, node)
  <2>1. node.type # "table"  BY <1>6, <1>9
  <2> QED  BY <1>1, <1>9, <1>12, <2>1, NewNodeKeeps
<1>14. \/ nodes' = nodes
       \/ /\ nodes # <<>> /\ OneHeading(Last(nodes), node)
          /\ nodes' = [nodes EXCEPT ![Len(nodes)].text = @ \o node.text]
       \/ nodes' = Append(nodes, node)
  <2> DEFINE nothing == node.text = <<>> /\ type # "figure"
             one == nodes # <<>> /\ OneHeading(Last(nodes), node)
             longer == [nodes EXCEPT ![Len(nodes)].text = @ \o node.text]
  <2>1. nodes' = CASE nothing -> nodes [] one -> longer [] OTHER -> Append(nodes, node)  BY <1>0
  <2>2. nothing \in BOOLEAN /\ one \in BOOLEAN  BY DEF OneHeading
  <2> HIDE DEF nothing, one, longer
  <2>3. nodes' = nodes \/ (one /\ nodes' = longer) \/ nodes' = Append(nodes, node)  BY <2>1, <2>2
  <2> QED  BY <2>3 DEF one, longer
<1> QED  BY <1>10, <1>11, <1>12, <1>14

ContentSpec == content \in Seq(ContentItem) /\ ContentInit /\ [][ContentNext]_contentVars

\* Whatever MinerU's content list has, the parts of one table of the document have nothing
\* between them but what may be passed over, each on the page after the last
\* (contentListToNodes, isTableContinuation).
THEOREM TablesJoinInSequence == ContentSpec => []JoinedInSequence
<1>1. content \in Seq(ContentItem) /\ ContentInit => ContentInv
  <2> SUFFICES ASSUME content \in Seq(ContentItem), read = 0, nodes = <<>>, open = 0 PROVE ContentInv
    BY DEF ContentInit
  <2>1. Len(content) \in Nat /\ DOMAIN nodes = {} /\ Len(nodes) = 0 /\ nodes \in Seq(NodeRecord)  OBVIOUS
  <2>2. ContentTypes  BY <2>1 DEF ContentTypes
  <2> QED  BY <2>1, <2>2 DEF ContentInv, ItemsRead, OpenToNext, JoinedInSequence
<1>2. ContentInv /\ [ContentNext]_contentVars => ContentInv'
  <2> SUFFICES ASSUME ContentInv, [ContentNext]_contentVars PROVE ContentInv'  OBVIOUS
  <2>1. CASE SkipDecoration  BY <2>1, SkipDecorationKeeps
  <2>2. CASE JoinTable  BY <2>2, JoinTableKeeps
  <2>3. CASE NewTable  BY <2>3, NewTableKeeps
  <2>4. CASE EmptyTable  BY <2>4, EmptyTableKeeps
  <2>5. CASE TakeContent  BY <2>5, TakeContentKeeps
  <2>6. CASE UNCHANGED contentVars
    <3>1. content' = content /\ read' = read /\ nodes' = nodes /\ open' = open  BY <2>6 DEF contentVars
    <3>2. \A k : Promoted(k)' = Promoted(k)  BY <3>1 DEF Promoted
    <3>3. \A k, n : Passed(k, n)' = Passed(k, n)  BY <3>1, <3>2 DEF Passed
    <3>4. ContentTypes' /\ ItemsRead'  BY <3>1 DEF ContentInv, ContentTypes, ItemsRead
    <3>5. OpenToNext'  BY <3>1, <3>3 DEF ContentInv, OpenToNext
    <3>6. JoinedInSequence'  BY <3>1, <3>2 DEF ContentInv, JoinedInSequence
    <3> QED  BY <3>4, <3>5, <3>6 DEF ContentInv
  <2> QED  BY <2>1, <2>2, <2>3, <2>4, <2>5, <2>6 DEF ContentNext
<1>3. ContentInv => JoinedInSequence  BY DEF ContentInv
<1> QED  BY <1>1, <1>2, <1>3, PTL DEF ContentSpec

==============================================================================
