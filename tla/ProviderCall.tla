---------------------------- MODULE ProviderCall ----------------------------
(***************************************************************************)
(* The embedding of some texts: one request to the provider per batch,     *)
(* each with its deadline, its retries and the signal of the caller.  The  *)
(* clock moves while a request, the reading of its answer or a pause is    *)
(* under way; a timer fires at its time or later, so an answer may come    *)
(* after the deadline and before its timer.  A request that was given up   *)
(* may still be answered.                                                  *)
(***************************************************************************)
EXTENDS Integers, FiniteSets, SequencesExt

CONSTANTS
    Inputs, BatchInputs,  \* number of texts, and of those asked for at once
    Timeout,              \* of one batch, with all its retries
    Backoff,              \* the pauses before the retries, at most
    MaxPause,             \* a longer one is not made
    RetryAfters,          \* what the provider may ask for, 0 for nothing
    MaxClock              \* bound: the clock

ASSUME ProviderAssumption ==
    /\ Inputs \in Nat \ {0} /\ BatchInputs \in Nat \ {0} /\ Timeout \in Nat \ {0}
    /\ Backoff \in Seq(Nat) /\ MaxPause \in Nat /\ RetryAfters \subseteq Nat /\ MaxClock \in Nat

VARIABLES
    clock,
    doing,       \* "asking", "reading" or "pausing", or how the call ended
    deadline,    \* of the batch under way
    expired,     \* its signal has been aborted
    cancelled,   \* the caller's signal has been aborted
    tries,       \* requests of the batch so far
    resume,      \* when the pause is over
    earliest,    \* the earliest time for the next request the provider has asked for
    begun,       \* when the last request was made
    bodies,      \* answers that are neither read nor discarded
    given,       \* requests given up that may still be answered
    vectors      \* the texts the vectors so far are of

providerVars ==
    <<clock, doing, deadline, expired, cancelled, tries, resume, earliest, begun, bodies, given, vectors>>

Underway == {"asking", "reading", "pausing"}
Failures == {"aborted", "timeout", "http", "transport", "invalid_response", "unknown", "unexpected"}

ProviderInit ==
    /\ clock = 0 /\ doing = "asking" /\ deadline = Timeout /\ expired = FALSE /\ cancelled = FALSE
    /\ tries = 1 /\ resume = 0 /\ earliest = 0 /\ begun = 0 /\ bodies = 0 /\ given = 0 /\ vectors = <<>>

-----------------------------------------------------------------------------

\* The texts of the batch under way; the provider numbers them from 0.
Due == {i \in 1 .. Inputs : Len(vectors) < i /\ i <= Len(vectors) + BatchInputs}
Indexed(text) == [index |-> text - Len(vectors) - 1, of |-> text]

\* The vectors of an answer in the order of their index: before the n-th stand n - 1.
Ordered(items) ==
    LET Nth(n) == CHOOSE i \in DOMAIN items :
                      Cardinality({j \in DOMAIN items : items[j].index < items[i].index}) = n - 1
    IN  [n \in DOMAIN items |-> items[Nth(n)].of]

\* What was asked for is cut to what may be waited (a mutant).
MutantPauses(try, after) ==
    LET capped == IF Backoff[try] < MaxPause THEN Backoff[try] ELSE MaxPause
        cut == IF after < MaxPause THEN after ELSE MaxPause
    IN  {IF d < cut THEN cut ELSE d : d \in (capped + 1) \div 2 .. capped}

\* The pauses before the next request: with jitter, and never less than asked for.
Pauses(try, after) ==
    LET capped == IF Backoff[try] < MaxPause THEN Backoff[try] ELSE MaxPause
    IN  {IF d < after THEN after ELSE d : d \in (capped + 1) \div 2 .. capped}

\* assertActive finds the deadline passed although its timer has not fired.
Overdue == expired \/ clock >= deadline

Settles(how) ==
    /\ doing' = how
    /\ UNCHANGED <<clock, deadline, cancelled, tries, resume, earliest, begun, vectors>>

\* A request, unless the caller or the deadline has ended the call.
Asks ==
    IF Overdue
    THEN doing' = "timeout" /\ expired' = TRUE /\ UNCHANGED <<deadline, tries, begun, vectors>>
    ELSE doing' = "asking" /\ tries' = tries + 1 /\ begun' = clock /\ UNCHANGED <<deadline, expired, vectors>>

\* A pause of no length is none.
Pause(d) ==
    IF d = 0 THEN Asks /\ UNCHANGED resume
    ELSE doing' = "pausing" /\ resume' = clock + d /\ UNCHANGED <<deadline, expired, tries, begun, vectors>>

-----------------------------------------------------------------------------
(* What happens to a request                                                 *)

Accepted ==
    /\ doing = "asking" /\ doing' = "reading" /\ bodies' = bodies + 1
    /\ UNCHANGED <<clock, deadline, expired, cancelled, tries, resume, earliest, begun, given, vectors>>

\* 400 and the like: the answer is discarded and the call fails.
Refused == doing = "asking" /\ Settles("http") /\ UNCHANGED <<expired, bodies, given>>

\* 429, 503 and the like: again after a pause, if there is a try and the time for it.
Overloaded ==
    /\ doing = "asking"
    /\ \/ tries > Len(Backoff) /\ Settles("http") /\ UNCHANGED expired
       \/ /\ tries <= Len(Backoff)
          /\ \E after \in RetryAfters : \E d \in Pauses(tries, after) :
                IF d <= MaxPause /\ d < deadline - clock
                THEN Pause(d) /\ earliest' = clock + after /\ UNCHANGED <<clock, cancelled>>
                ELSE Settles("http") /\ UNCHANGED expired
    /\ UNCHANGED <<bodies, given>>

\* The connection fails: again after a pause, which may outlast the deadline.
Disconnected ==
    /\ doing = "asking"
    /\ \/ tries > Len(Backoff) /\ Settles("transport") /\ UNCHANGED expired
       \/ /\ tries <= Len(Backoff)
          /\ \E d \in Pauses(tries, 0) : Pause(d) /\ UNCHANGED <<clock, cancelled, earliest>>
    /\ UNCHANGED <<bodies, given>>

Breaks == doing = "asking" /\ Settles("unknown") /\ UNCHANGED <<expired, bodies, given>>

\* The answer is read, its vectors in any order; in time, the next batch is asked for.
Read ==
    /\ doing = "reading" /\ bodies' = bodies - 1
    /\ UNCHANGED <<clock, cancelled, given>>
    /\ IF Overdue
       THEN doing' = "timeout" /\ expired' = TRUE
            /\ UNCHANGED <<deadline, tries, resume, earliest, begun, vectors>>
       ELSE /\ UNCHANGED <<expired, resume>>
            /\ \E order \in SetToSeqs(Due) :
                  vectors' = vectors \o Ordered([i \in DOMAIN order |-> Indexed(order[i])])
            /\ IF Len(vectors') = Inputs
               THEN doing' = "answered" /\ UNCHANGED <<deadline, tries, earliest, begun>>
               ELSE /\ doing' = "asking" /\ deadline' = clock + Timeout
                    /\ tries' = 1 /\ earliest' = 0 /\ begun' = clock

\* The answer cannot be read, or has another number or dimension of vectors.
Unreadable ==
    /\ doing = "reading" /\ bodies' = bodies - 1 /\ UNCHANGED given
    /\ \/ Settles("transport") /\ UNCHANGED expired
       \/ Settles("invalid_response") /\ UNCHANGED expired
       \/ IF Overdue THEN Settles("timeout") /\ expired' = TRUE
          ELSE Settles("unexpected") /\ UNCHANGED expired

-----------------------------------------------------------------------------
(* Timers, signals and late answers                                          *)

PauseEnds ==
    /\ doing = "pausing" /\ clock >= resume /\ Asks
    /\ UNCHANGED <<clock, cancelled, resume, earliest, bodies, given>>

\* A signal ends what is awaited; an answer being read is discarded, a request given up.
Interrupted(how) ==
    /\ doing \in Underway /\ doing' = how
    /\ bodies' = IF doing = "reading" THEN bodies - 1 ELSE bodies
    /\ given' = IF doing = "asking" THEN given + 1 ELSE given
    /\ UNCHANGED <<clock, deadline, tries, resume, earliest, begun, vectors>>

TimerFires ==
    clock >= deadline /\ ~expired /\ expired' = TRUE /\ Interrupted("timeout") /\ UNCHANGED cancelled

CallerCancels == ~cancelled /\ cancelled' = TRUE /\ Interrupted("aborted") /\ UNCHANGED expired

\* An answer that comes all the same is discarded.
AnsweredLate ==
    /\ given > 0 /\ given' = given - 1
    /\ bodies' = IF expired \/ cancelled THEN bodies ELSE bodies + 1
    /\ UNCHANGED <<clock, doing, deadline, expired, cancelled, tries, resume, earliest, begun, vectors>>

Tick ==
    /\ doing \in Underway /\ clock < MaxClock /\ clock' = clock + 1
    /\ UNCHANGED <<doing, deadline, expired, cancelled, tries, resume, earliest, begun, bodies, given, vectors>>

ProviderNext ==
    \/ Accepted \/ Refused \/ Overloaded \/ Disconnected \/ Breaks
    \/ Read \/ Unreadable \/ PauseEnds
    \/ TimerFires \/ CallerCancels \/ AnsweredLate \/ Tick

ProviderSpec == ProviderInit /\ [][ProviderNext]_providerVars

-----------------------------------------------------------------------------
(* Properties                                                                *)

ProviderTypeOK ==
    /\ clock \in 0 .. MaxClock /\ doing \in Underway \cup Failures \cup {"answered"}
    /\ deadline \in Nat /\ expired \in BOOLEAN /\ cancelled \in BOOLEAN
    /\ tries \in Nat /\ resume \in Nat /\ earliest \in Nat /\ begun \in Nat
    /\ bodies \in Nat /\ given \in Nat /\ vectors \in Seq(1 .. Inputs)

\* No request goes out before the provider has allowed it, after the deadline, or once more
\* than the retries allow.
RetriesAreDue ==
    /\ tries <= Len(Backoff) + 1
    /\ doing \in {"asking", "reading"} => earliest <= begun /\ begun < deadline

\* The vectors are of the texts in their order, all of them and in time where the call
\* answers; it times out when its time is over, and is aborted when the caller has left.
EndsTruthfully ==
    /\ vectors = [i \in 1 .. Len(vectors) |-> i]
    /\ doing = "answered" => Len(vectors) = Inputs /\ ~cancelled /\ clock < deadline
    /\ doing = "timeout" => clock >= deadline
    /\ doing = "aborted" <=> cancelled

\* A body is open only while it is read.
BodiesClosed == bodies = IF doing = "reading" THEN 1 ELSE 0

\* What a call to the provider does, whatever comes late or not at all.
ProviderCallHolds == ProviderTypeOK /\ RetriesAreDue /\ EndsTruthfully /\ BodiesClosed
=============================================================================
