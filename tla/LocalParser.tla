----------------------------- MODULE LocalParser -----------------------------
(***************************************************************************)
(* The PDF parse of an ingest step and the local provider (LiteParse) it    *)
(* calls: the provider's task table and its semaphore, both in the memory   *)
(* of one worker process.  Native parsing cannot be killed, so a permit is  *)
(* tied to native work and not to whoever asked for it.                     *)
(* A restart of the process is Init again.                                  *)
(***************************************************************************)
EXTENDS Integers, SequencesExt, FiniteSets

CONSTANTS
    Parses,       \* the parse of one ingest job: one idempotency key each
    Slots,        \* maxConcurrency of the semaphore
    MaxAttempts   \* runs of the durable stage step (bound; 5 in workflows.ts)

ASSUME ParserAssumption == Slots \in Nat \ {0} /\ MaxAttempts \in Nat \ {0}

VARIABLES
    active,    \* Semaphore.active: permits given out
    waiters,   \* Semaphore.waiters, first come first served
    permit,    \* per holder: its side of the semaphore
    native,    \* per holder: the native work it started
    call,      \* per parse: where PdfDocumentParser.parse stands
    attempt,   \* per parse: the run of the stage step
    status,    \* per parse: the provider task of its key ("none": not submitted)
    run,       \* per parse: where the task's runTask stands
    aborted,   \* per parse: the task's AbortController has fired
    again,     \* per parse: the error kept in the failed task is retryable
    ended      \* per parse: the ingest job no longer runs (cancelled, replaced)

semVars == <<active, waiters, permit>>
callVars == <<call, attempt>>
taskVars == <<status, run, aborted, again>>
vars == <<semVars, native, callVars, taskVars, ended>>

\* Who can hold a permit: a parse's task (0) and the analysis of each attempt.
Holders == Parses \X (0 .. MaxAttempts)
Task(p) == <<p, 0>>
Analysis(p) == <<p, attempt[p]>>

Held == {h \in Holders : permit[h] = "held"}
Running == {h \in Holders : native[h] = "running"}

CallEnds == {"parsed", "elsewhere", "failed", "refused", "stopped"}
TaskEnds == {"completed", "failed", "cancelled"}

TypeOK ==
    /\ active \in Nat
    /\ waiters \in Seq(Holders)
    /\ permit \in [Holders -> {"none", "waiting", "held"}]
    /\ native \in [Holders -> {"none", "running", "settled"}]
    /\ call \in [Parses -> {"idle", "loading", "inspecting", "submitting", "polling", "retry"}
                           \cup CallEnds]
    /\ attempt \in [Parses -> 1 .. MaxAttempts]
    /\ status \in [Parses -> {"none", "pending", "running"} \cup TaskEnds]
    /\ run \in [Parses -> {"none", "acquiring", "parsing", "draining", "over"}]
    /\ aborted \in [Parses -> BOOLEAN]
    /\ again \in [Parses -> BOOLEAN]
    /\ ended \in [Parses -> BOOLEAN]

Init ==
    /\ active = 0
    /\ waiters = <<>>
    /\ permit = [h \in Holders |-> "none"]
    /\ native = [h \in Holders |-> "none"]
    /\ call = [p \in Parses |-> "idle"]
    /\ attempt = [p \in Parses |-> 1]
    /\ status = [p \in Parses |-> "none"]
    /\ run = [p \in Parses |-> "none"]
    /\ aborted = [p \in Parses |-> FALSE]
    /\ again = [p \in Parses |-> FALSE]
    /\ ended = [p \in Parses |-> FALSE]

-----------------------------------------------------------------------------
(* Semaphore                                                                 *)

\* acquire: a permit at once, or a place at the end of the line.
Acquire(h) ==
    \/ /\ active < Slots
       /\ active' = active + 1
       /\ permit' = [permit EXCEPT ![h] = "held"]
       /\ UNCHANGED waiters
    \/ /\ active >= Slots
       /\ waiters' = Append(waiters, h)
       /\ permit' = [permit EXCEPT ![h] = "waiting"]
       /\ UNCHANGED active

\* release: the permit goes to the head of the line, and only else back.
MutantRelease(h) ==   \* mutant: handed over and counted back
    /\ active' = active - 1
    /\ IF waiters = <<>>
       THEN permit' = [permit EXCEPT ![h] = "none"] /\ UNCHANGED waiters
       ELSE /\ permit' = [permit EXCEPT ![h] = "none", ![Head(waiters)] = "held"]
            /\ waiters' = Tail(waiters)
Release(h) ==
    \/ /\ waiters = <<>>
       /\ active' = active - 1
       /\ permit' = [permit EXCEPT ![h] = "none"]
       /\ UNCHANGED waiters
    \/ /\ waiters # <<>>
       /\ permit' = [permit EXCEPT ![h] = "none", ![Head(waiters)] = "held"]
       /\ waiters' = Tail(waiters)
       /\ UNCHANGED active

\* onAbort of a holder that waits: it leaves the line.
MutantLeaveLine(h) ==   \* mutant: the waiter stays in the line
    permit' = [permit EXCEPT ![h] = "none"] /\ UNCHANGED <<active, waiters>>
LeaveLine(h) ==
    /\ \E i \in DOMAIN waiters : waiters[i] = h /\ waiters' = RemoveAt(waiters, i)
    /\ permit' = [permit EXCEPT ![h] = "none"]
    /\ UNCHANGED active

-----------------------------------------------------------------------------
(* The call: PdfDocumentParser.parse inside the stage step                   *)

GoTo(p, place) ==
    /\ call' = [call EXCEPT ![p] = place]
    /\ UNCHANGED attempt

\* The stage step checks the job and starts the analysis.  Here and below a check
\* that passed may be stale when the call is made; as only the parse itself reads
\* "ended", that is the job ending right after the call.
Analyze(p) ==
    /\ call[p] = "idle" /\ ~ended[p]
    /\ GoTo(p, "loading")
    /\ Acquire(Analysis(p))
    /\ UNCHANGED <<native, taskVars, ended>>

\* With a permit, analyze loads the source and starts the inspection ...
AnalyzeLoads(p) ==
    /\ call[p] = "loading" /\ permit[Analysis(p)] = "held"
    /\ GoTo(p, "inspecting")
    /\ native' = [native EXCEPT ![Analysis(p)] = "running"]
    /\ UNCHANGED <<semVars, taskVars, ended>>

\* ... or the source cannot be loaded, for now or for good.
AnalyzeLoadFails(p) ==
    /\ call[p] = "loading" /\ permit[Analysis(p)] = "held"
    /\ \E place \in {"retry", "failed"} : GoTo(p, place)
    /\ Release(Analysis(p))
    /\ UNCHANGED <<native, taskVars, ended>>

\* The inspection answers in time.  The router picks this provider or MinerU;
\* an unreadable document or a policy ends the parse.
AnalyzeDone(p) ==
    /\ call[p] = "inspecting"
    /\ \E place \in {"submitting", "elsewhere", "failed"} : GoTo(p, place)
    /\ native' = [native EXCEPT ![Analysis(p)] = "settled"]
    /\ Release(Analysis(p))
    /\ UNCHANGED <<taskVars, ended>>

\* timeoutMs passes first: the caller goes, the permit stays with the native work.
MutantAnalyzeTimesOut(p) ==   \* mutant: the finally block releases the permit
    /\ call[p] = "inspecting"
    /\ GoTo(p, "retry")
    /\ Release(Analysis(p))
    /\ UNCHANGED <<native, taskVars, ended>>
AnalyzeTimesOut(p) ==
    /\ call[p] = "inspecting"
    /\ GoTo(p, "retry")
    /\ UNCHANGED <<semVars, native, taskVars, ended>>

\* execution.then(heldRelease, heldRelease)
MutantInspectionSettles(h) ==   \* mutant: nothing waits for the native work
    /\ native[h] = "running" /\ h # Task(h[1])
    /\ h # Analysis(h[1]) \/ call[h[1]] # "inspecting"
    /\ native' = [native EXCEPT ![h] = "settled"]
    /\ UNCHANGED <<semVars, callVars, taskVars, ended>>
InspectionSettles(h) ==
    /\ native[h] = "running" /\ h # Task(h[1])
    /\ h # Analysis(h[1]) \/ call[h[1]] # "inspecting"
    /\ native' = [native EXCEPT ![h] = "settled"]
    /\ Release(h)
    /\ UNCHANGED <<callVars, taskVars, ended>>

\* submit of a key the provider does not know: runTask asks for its permit.
SubmitNew(p) ==
    /\ call[p] = "submitting" /\ ~ended[p] /\ status[p] = "none"
    /\ GoTo(p, "polling")
    /\ status' = [status EXCEPT ![p] = "pending"]
    /\ run' = [run EXCEPT ![p] = "acquiring"]
    /\ Acquire(Task(p))
    /\ UNCHANGED <<native, aborted, again, ended>>

\* submit of a known key joins its task; that of a task that failed or was
\* cancelled throws the error kept, which retries cannot change.
SubmitKnown(p) ==
    /\ call[p] = "submitting" /\ ~ended[p]
    /\ \/ status[p] \in {"pending", "running", "completed"} /\ GoTo(p, "polling")
       \/ status[p] = "failed" /\ GoTo(p, IF again[p] THEN "retry" ELSE "failed")
       \/ status[p] = "cancelled" /\ GoTo(p, "refused")
    /\ UNCHANGED <<semVars, native, taskVars, ended>>

\* poll sees the task's end and, if it completed, fetches the result.  A failure
\* read by poll is never retried; cancelling a task that has ended does nothing.
\* (It cannot see "cancelled": who cancels has stopped polling, and submit refuses.)
Poll(p) ==
    /\ call[p] = "polling"
    /\ \/ status[p] = "completed" /\ ~ended[p] /\ GoTo(p, "parsed")
       \/ status[p] = "failed" /\ GoTo(p, "failed")
    /\ UNCHANGED <<semVars, native, taskVars, ended>>

\* maxWaitMs passes: a retryable error, so the task is left to go on.
DeadlinePasses(p) ==
    /\ call[p] \in {"submitting", "polling"}
    /\ GoTo(p, "retry")
    /\ UNCHANGED <<semVars, native, taskVars, ended>>

\* cancel: the task's status, and its controller; a task in the line leaves it.
Cancel(p) ==
    \/ /\ status[p] \in TaskEnds
       /\ UNCHANGED <<semVars, taskVars>>
    \/ /\ status[p] \in {"pending", "running"}
       /\ status' = [status EXCEPT ![p] = "cancelled"]
       /\ aborted' = [aborted EXCEPT ![p] = TRUE]
       /\ IF permit[Task(p)] = "waiting"
          THEN run' = [run EXCEPT ![p] = "over"] /\ LeaveLine(Task(p))
          ELSE UNCHANGED <<semVars, run>>
       /\ UNCHANGED again

\* assertContinuing throws: the job has ended, or the database did not answer.
\* The worker retries the step in the second case, the parser takes both for
\* final and cancels the task it has submitted.
CheckFails(p) ==
    /\ call[p] \in {"idle", "submitting", "polling"}
    /\ \/ ended[p] /\ GoTo(p, "stopped")
       \/ GoTo(p, "retry")
    /\ IF call[p] = "polling" THEN Cancel(p) ELSE UNCHANGED <<semVars, taskVars>>
    /\ UNCHANGED <<native, ended>>

\* runRetriedStep: the step runs again, or its attempts are used up.
StepAgain(p) ==
    /\ call[p] = "retry"
    /\ \/ /\ attempt[p] < MaxAttempts
          /\ call' = [call EXCEPT ![p] = "idle"]
          /\ attempt' = [attempt EXCEPT ![p] = @ + 1]
       \/ attempt[p] = MaxAttempts /\ GoTo(p, "failed")
    /\ UNCHANGED <<semVars, native, taskVars, ended>>

\* A cancel, a newer version or a delete ends the job.
JobEnds(p) ==
    /\ ~ended[p]
    /\ ended' = [ended EXCEPT ![p] = TRUE]
    /\ UNCHANGED <<semVars, native, callVars, taskVars>>

-----------------------------------------------------------------------------
(* The task: LiteParseProvider.runTask                                       *)

\* With its permit the task loads the source and starts the native parse, if
\* nobody has cancelled it by then.
MutantRunStarts(p) ==   \* mutant: no look at the signal after the wait
    /\ run[p] = "acquiring" /\ permit[Task(p)] = "held"
    /\ run' = [run EXCEPT ![p] = "parsing"]
    /\ status' = [status EXCEPT ![p] = "running"]
    /\ native' = [native EXCEPT ![Task(p)] = "running"]
    /\ UNCHANGED <<semVars, callVars, aborted, again, ended>>
RunStarts(p) ==
    /\ run[p] = "acquiring" /\ permit[Task(p)] = "held" /\ ~aborted[p]
    /\ run' = [run EXCEPT ![p] = "parsing"]
    /\ status' = [status EXCEPT ![p] = "running"]
    /\ native' = [native EXCEPT ![Task(p)] = "running"]
    /\ UNCHANGED <<semVars, callVars, aborted, again, ended>>

\* runTask ends without native work: cancelled, or the source cannot be loaded.
RunStops(p) ==
    /\ run[p] = "acquiring" /\ permit[Task(p)] = "held"
    /\ run' = [run EXCEPT ![p] = "over"]
    /\ \/ aborted[p] /\ UNCHANGED <<status, again>>
       \/ /\ ~aborted[p]
          /\ status' = [status EXCEPT ![p] = "failed"]
          /\ \E retryable \in BOOLEAN : again' = [again EXCEPT ![p] = retryable]
    /\ Release(Task(p))
    /\ UNCHANGED <<native, callVars, aborted, ended>>

\* The native parse settles in time: a result or an error, or neither is wanted.
RunDone(p) ==
    /\ run[p] = "parsing"
    /\ run' = [run EXCEPT ![p] = "over"]
    /\ native' = [native EXCEPT ![Task(p)] = "settled"]
    /\ \/ aborted[p] /\ UNCHANGED status
       \/ /\ ~aborted[p]
          /\ \E end \in {"completed", "failed"} : status' = [status EXCEPT ![p] = end]
    /\ Release(Task(p))
    /\ UNCHANGED <<callVars, aborted, again, ended>>

\* timeoutMs passes first, whether or not the task has been cancelled meanwhile:
\* the task has failed, but runTask goes on waiting with the permit.
RunTimesOut(p) ==
    /\ run[p] = "parsing"
    /\ run' = [run EXCEPT ![p] = "draining"]
    /\ status' = [status EXCEPT ![p] = "failed"]
    /\ again' = [again EXCEPT ![p] = TRUE]
    /\ aborted' = [aborted EXCEPT ![p] = TRUE]
    /\ UNCHANGED <<semVars, native, callVars, ended>>

RunDrains(p) ==
    /\ run[p] = "draining"
    /\ run' = [run EXCEPT ![p] = "over"]
    /\ native' = [native EXCEPT ![Task(p)] = "settled"]
    /\ Release(Task(p))
    /\ UNCHANGED <<callVars, status, aborted, again, ended>>

-----------------------------------------------------------------------------
Next ==
    \/ \E p \in Parses :
        \/ Analyze(p) \/ AnalyzeLoads(p) \/ AnalyzeLoadFails(p) \/ AnalyzeDone(p)
        \/ AnalyzeTimesOut(p)
        \/ SubmitNew(p) \/ SubmitKnown(p) \/ Poll(p)
        \/ DeadlinePasses(p) \/ CheckFails(p) \/ StepAgain(p) \/ JobEnds(p)
        \/ RunStarts(p) \/ RunStops(p) \/ RunDone(p) \/ RunTimesOut(p) \/ RunDrains(p)
    \/ \E h \in Holders : InspectionSettles(h)

Spec == Init /\ [][Next]_vars

\* What the event loop runs for the caller of a parse and for its task.
CallStep(p) ==
    \/ Analyze(p) \/ AnalyzeLoads(p) \/ AnalyzeDone(p)
    \/ SubmitNew(p) \/ SubmitKnown(p) \/ Poll(p) \/ StepAgain(p)
TaskStep(p) == RunStarts(p) \/ RunStops(p) \/ RunDone(p) \/ RunDrains(p)

\* The event loop runs what is ready, native work settles, and the database
\* answers in the end; timers, cancels and failing checks need not happen.
Fairness ==
    /\ \A p \in Parses :
        WF_vars(CallStep(p)) /\ WF_vars(ended[p] /\ CheckFails(p)) /\ WF_vars(TaskStep(p))
    /\ \A h \in Holders : WF_vars(InspectionSettles(h))

FairSpec == Spec /\ Fairness

-----------------------------------------------------------------------------
(* Properties                                                                *)

\* docs/OPERATIONS.md:176: a permit is kept until the native work has really
\* settled.  So whatever timeouts, cancels and retries do, no more native work
\* runs than maxConcurrency allows.
NativeWorkBounded == Cardinality(Running) <= Slots

\* The counter counts what it should: permits held, none twice, none lost, even
\* where a release hands one over or a cancelled task leaves the line.
PermitsCounted ==
    /\ active = Cardinality(Held)
    /\ active <= Slots

\* Nobody waits while a permit is free, and who waits is in the line once.
NobodyForgotten ==
    /\ waiters # <<>> => active = Slots
    /\ \A h \in Holders : permit[h] = "waiting" <=> \E i \in DOMAIN waiters : waiters[i] = h
    /\ \A i, j \in DOMAIN waiters : waiters[i] = waiters[j] => i = j

\* What whoever queues for a permit relies on: permits are counted right, and no
\* free permit passes a waiter by.
SemaphoreSound == PermitsCounted /\ NobodyForgotten

\* Permits and native work agree: none is lost, doubled or outlived.
PermitsMatchWork == SemaphoreSound /\ NativeWorkBounded

\* A task that was cancelled, in the line or just granted its permit, does not
\* start native work any more.
CancelledNeverStarts ==
    [][\A p \in Parses : status[p] = "cancelled" /\ native[Task(p)] = "none"
                            => native'[Task(p)] = "none"]_vars

\* Every parse ends, and every permit comes back for good, if native work settles.
ParseEnds == <>(\A p \in Parses : call[p] \in CallEnds)
PermitsReturn == <>[](Held = {})

\* A parse is refused as cancelled only if its job has ended.
RefusedOnlyIfEnded == \A p \in Parses : call[p] = "refused" => ended[p]
=============================================================================
