------------------------------ MODULE AskClient ------------------------------
(***************************************************************************)
(* The ask page of a browser: what it shows while answers stream in, the   *)
(* user stops, retries, archives, changes the library or opens a thread    *)
(* (src/src/components/app/ask/ask-stream-lifecycle.ts, ask-turn-state.ts, *)
(* ask-workspace.tsx; src/src/lib/api.ts).  One action is one callback.    *)
(* Renders and their layout effects follow the update that causes them;    *)
(* only the router's navigation takes its time.  The page stays mounted.   *)
(***************************************************************************)
EXTENDS Naturals, FiniteSets, Sequences

CONSTANTS
    Libraries,          \* the libraries of the list
    Threads,            \* archived threads that exist before
    ThreadLibrary,      \* library_id of each, [Threads -> Libraries]
    Nowhere,            \* no library, no thread, no session
    MaxQuestions,       \* bound: questions asked, retries included
    MaxConversations    \* bound: new conversations begun

ASSUME ClientAssumption == MaxQuestions \in Nat

VARIABLES
    library,        \* libraryId
    requested,      \* the thread parameter of the URL
    urlNext,        \* router.replace under way: the thread it goes to
    shown,          \* history variable: the conversation on the page
    fresh,          \* history variable: new conversations so far
    sessionId,      \* as the conversation it belongs to
    threadId,       \* threadId, likewise
    turns,          \* the turns of the reducer
    asked,          \* the attempts so far: [turn, conv, lib]
    activeAttempt,  \* active of the stream lifecycle, 0 for null
    buffer,         \* whether the active attempt has unflushed tokens
    open,           \* attempts whose stream promise is not settled
    archives,       \* archive requests under way: [conv, lib, stale]
    archiving,      \* the flag of the button
    resuming,       \* the thread continueThread is under way for
    resumed,        \* resumeThreadRef
    overlapped      \* history variable: an archive was begun while a thread
                    \* was being opened

clientVars == <<library, requested, urlNext, shown, fresh, sessionId, threadId, turns, asked,
                activeAttempt, buffer, open, archives, archiving, resuming, resumed, overlapped>>

ClientInit ==
    /\ library \in Libraries
    /\ requested = Nowhere /\ urlNext = {}
    /\ shown = 0 /\ fresh = 0
    /\ sessionId = Nowhere /\ threadId = Nowhere
    /\ turns = {} /\ asked = <<>> /\ activeAttempt = 0 /\ buffer = FALSE /\ open = {}
    /\ archives = {} /\ archiving = FALSE
    /\ resuming = Nowhere /\ resumed = Nowhere /\ overlapped = FALSE

Streaming == \E t \in turns : t.pending

CanAsk == library # Nowhere /\ requested \in {Nowhere, threadId}

(***************************************************************************)
(* The reducer: every patch goes to the turns with the id, whose attempt   *)
(* may be another one by now, since a retry reuses the id of its turn.     *)
(***************************************************************************)
Patch(ts, id, F(_)) == {IF t.id = id THEN F(t) ELSE t : t \in ts}

AddToken(ts, a) ==
    Patch(ts, asked[a].turn, LAMBDA t : [t EXCEPT !.text = @ \cup {a}, !.pending = TRUE])

EndTurn(ts, a) == Patch(ts, asked[a].turn, LAMBDA t : [t EXCEPT !.pending = FALSE])

\* flush() before a terminal: what is buffered still reaches the turn.
Flushed(ts, a) == IF buffer THEN AddToken(ts, a) ELSE ts

\* Any stream that is not settled may still speak.
MutantIsCurrent(a) == a \in open

IsCurrent(a) == activeAttempt = a

(***************************************************************************)
(* cancel(notify): the turns it leaves behind; the active attempt is gone. *)
(***************************************************************************)
CancelledTurns == IF activeAttempt = 0 THEN turns ELSE EndTurn(Flushed(turns, activeAttempt), activeAttempt)

NoActive == activeAttempt' = 0 /\ buffer' = FALSE

NextEpoch == archives' = {[x EXCEPT !.stale = TRUE] : x \in archives}

(***************************************************************************)
(* resetConversation, which cancels without a word to the turns it drops.  *)
(***************************************************************************)
ResetConversation ==
    /\ fresh < MaxConversations
    /\ fresh' = fresh + 1
    /\ shown' = fresh + 1
    /\ sessionId' = Nowhere /\ threadId' = Nowhere
    /\ turns' = {}
    /\ resumed' = Nowhere
    /\ archiving' = FALSE
    /\ NoActive /\ NextEpoch

\* The layout effect after a render with another library or thread parameter.
ContextEffect(lib, req) ==
    /\ library' = lib
    /\ requested' = req
    /\ IF req = Nowhere /\ (requested # Nowhere \/ (library # Nowhere /\ library # lib))
       THEN ResetConversation
       ELSE /\ turns' = CancelledTurns
            /\ NoActive /\ NextEpoch
            /\ UNCHANGED <<shown, fresh, sessionId, threadId, resumed, archiving>>

-----------------------------------------------------------------------------
(***************************************************************************)
(* submitQuestion: a new turn, or a retry in the place of an ended one,    *)
(* which the code allows while another turn is streaming.                  *)
(***************************************************************************)
BeginAttempt(turn, rest) ==
    LET a == Len(asked) + 1
    IN  /\ a <= MaxQuestions
        /\ asked' = Append(asked, [turn |-> turn, conv |-> shown, lib |-> library])
        /\ turns' = rest \cup {[id |-> turn, by |-> a, conv |-> shown, pending |-> TRUE, text |-> {}]}
        /\ activeAttempt' = a /\ buffer' = FALSE
        /\ open' = open \cup {a}
        /\ UNCHANGED <<library, requested, urlNext, shown, fresh, sessionId, threadId, archives,
                       archiving, resuming, resumed, overlapped>>

Submit == CanAsk /\ ~Streaming /\ BeginAttempt(Len(asked) + 1, CancelledTurns)

Retry == \E t \in turns :
    CanAsk /\ ~t.pending /\ BeginAttempt(t.id, {u \in CancelledTurns : u.id # t.id})

Stop ==
    /\ Streaming
    /\ turns' = CancelledTurns
    /\ NoActive
    /\ UNCHANGED <<library, requested, urlNext, shown, fresh, sessionId, threadId, asked, open,
                   archives, archiving, resuming, resumed, overlapped>>

(***************************************************************************)
(* Frames of a stream.  An aborted stream may still deliver the frames of  *)
(* the chunk it is parsing; only the current attempt listens.              *)
(***************************************************************************)
Meta(a) ==
    /\ a \in open /\ IsCurrent(a)
    /\ sessionId' = asked[a].conv
    /\ UNCHANGED <<library, requested, urlNext, shown, fresh, threadId, turns, asked, activeAttempt,
                   buffer, open, archives, archiving, resuming, resumed, overlapped>>

Token(a) ==
    /\ a \in open /\ IsCurrent(a)
    /\ \/ buffer' = TRUE /\ UNCHANGED turns
       \/ buffer' = FALSE /\ turns' = AddToken(turns, a)
    /\ UNCHANGED <<library, requested, urlNext, shown, fresh, sessionId, threadId, asked, activeAttempt,
                   open, archives, archiving, resuming, resumed, overlapped>>

\* The timer of a flush; its ticket belongs to one attempt.
Flush ==
    /\ activeAttempt # 0 /\ buffer
    /\ turns' = AddToken(turns, activeAttempt)
    /\ buffer' = FALSE
    /\ UNCHANGED <<library, requested, urlNext, shown, fresh, sessionId, threadId, asked, activeAttempt,
                   open, archives, archiving, resuming, resumed, overlapped>>

\* onDone: the turn is complete, and gets an id of its own.
Done(a) ==
    /\ a \in open /\ IsCurrent(a)
    /\ sessionId' = asked[a].conv
    /\ turns' = Patch(turns, asked[a].turn, LAMBDA t :
                          [t EXCEPT !.id = MaxQuestions + a, !.pending = FALSE, !.text = {a}])
    /\ NoActive
    /\ UNCHANGED <<library, requested, urlNext, shown, fresh, threadId, asked, open, archives,
                   archiving, resuming, resumed, overlapped>>

\* The promise settles, by an error frame, an early end, a rejection or the
\* abort; a late one finds another attempt active, or none.
Settles(a) ==
    /\ a \in open
    /\ open' = open \ {a}
    /\ IF IsCurrent(a) THEN turns' = CancelledTurns /\ NoActive
                       ELSE UNCHANGED <<turns, activeAttempt, buffer>>
    /\ UNCHANGED <<library, requested, urlNext, shown, fresh, sessionId, threadId, asked, archives,
                   archiving, resuming, resumed, overlapped>>

-----------------------------------------------------------------------------
(***************************************************************************)
(* handleArchive: the response counts only in the epoch it was asked in.   *)
(***************************************************************************)
ArchiveThread ==
    /\ threadId = Nowhere /\ ~Streaming /\ ~archiving /\ turns # {}
    /\ archiving' = TRUE
    /\ archives' = archives \cup {[conv |-> shown, lib |-> library, stale |-> FALSE]}
    /\ overlapped' = (overlapped \/ requested # Nowhere)
    /\ UNCHANGED <<library, requested, urlNext, shown, fresh, sessionId, threadId, turns, asked,
                   activeAttempt, buffer, open, resuming, resumed>>

\* The response of an archive counts whatever the page shows by now.
MutantArchiveReturns(x) ==
    /\ x \in archives
    /\ archives' = archives \ {x}
    /\ threadId' = x.conv /\ sessionId' = x.conv
    /\ urlNext' = {x.conv}
    /\ archiving' = FALSE
    /\ UNCHANGED <<library, requested, shown, fresh, turns, asked, activeAttempt, buffer, open,
                   resuming, resumed, overlapped>>

ArchiveReturns(x) ==
    /\ x \in archives
    /\ archives' = archives \ {x}
    /\ \/ /\ ~x.stale
          /\ threadId' = x.conv /\ sessionId' = x.conv
          /\ urlNext' = {x.conv}
          /\ archiving' = FALSE
       \/ archiving' = (archiving /\ x.stale) /\ UNCHANGED <<threadId, sessionId, urlNext>>
    /\ UNCHANGED <<library, requested, shown, fresh, turns, asked, activeAttempt, buffer, open,
                   resuming, resumed, overlapped>>

\* The effect that resumes, run again when the thread parameter or the list of
\* libraries changes; its cleanup aborts the request before.
Resumes(req) == resuming' = IF req \in {Nowhere, resumed} THEN Nowhere ELSE req

(***************************************************************************)
(* The user chooses a library; its render and the router's navigation      *)
(* follow.  A library may also vanish from the list, and another take its  *)
(* place.                                                                  *)
(***************************************************************************)
ChooseLibrary == \E lib \in Libraries \ {library} :
    /\ ResetConversation
    /\ library' = lib
    /\ urlNext' = IF requested # Nowhere THEN {Nowhere} ELSE urlNext
    /\ UNCHANGED <<requested, asked, open, resuming, overlapped>>

LibraryGone == \E lib \in Libraries \ {library} :
    /\ library # Nowhere
    /\ ContextEffect(lib, requested)
    /\ Resumes(requested)
    /\ UNCHANGED <<urlNext, asked, open, overlapped>>

\* The URL changes, by a link or by the router.
Navigate(req) ==
    /\ requested # req
    /\ ContextEffect(library, req)
    /\ urlNext' = {}
    /\ Resumes(req)
    /\ UNCHANGED <<asked, open, overlapped>>

LinkFollowed == \E req \in Threads \cup {Nowhere} : Navigate(req)
RouterArrives == \E req \in urlNext : Navigate(req)

(***************************************************************************)
(* continueThread answers: the thread replaces what the page shows.        *)
(***************************************************************************)
LibraryOf(t) ==
    IF t \in Threads THEN ThreadLibrary[t]
    ELSE asked[CHOOSE a \in DOMAIN asked : asked[a].conv = t].lib

ResumeReturns ==
    /\ resuming # Nowhere
    /\ resuming' = Nowhere
    /\ \/ /\ resumed' = resuming
          /\ shown' = resuming
          /\ sessionId' = resuming /\ threadId' = resuming
          /\ library' \in {LibraryOf(resuming), Nowhere}
          /\ turns' = {[id |-> 2 * MaxQuestions + 1, by |-> 0, conv |-> resuming,
                        pending |-> FALSE, text |-> {}]}
          /\ NoActive
          /\ IF library' = library THEN UNCHANGED archives ELSE NextEpoch
       \/ UNCHANGED <<resumed, shown, sessionId, threadId, library, turns, activeAttempt, buffer, archives>>
    /\ UNCHANGED <<requested, urlNext, fresh, asked, open, archiving, overlapped>>

ClientNext ==
    \/ Submit \/ Retry \/ Stop \/ Flush
    \/ \E a \in DOMAIN asked : Meta(a) \/ Token(a) \/ Done(a) \/ Settles(a)
    \/ ArchiveThread \/ \E x \in archives : ArchiveReturns(x)
    \/ ChooseLibrary \/ LibraryGone \/ LinkFollowed \/ RouterArrives \/ ResumeReturns

ClientSpec == ClientInit /\ [][ClientNext]_clientVars

-----------------------------------------------------------------------------
(***************************************************************************)
(* The text of a turn comes from one attempt, the last one that was begun  *)
(* for it, although a retry keeps the turn's id while the stream before    *)
(* still has tokens on the way.                                            *)
(***************************************************************************)
TextFromItsAttempt == \A t \in turns : t.text \subseteq {t.by}

(***************************************************************************)
(* A turn that is shown as streaming has the active attempt behind it:     *)
(* whatever was stopped, retried, settled late or navigated away, no turn  *)
(* stays pending with nobody to end it, which would block the composer.    *)
(***************************************************************************)
PendingHasAttempt ==
    /\ \A t \in turns : t.pending => activeAttempt = t.by
    /\ activeAttempt # 0 => \E t \in turns : t.pending

(***************************************************************************)
(* The page shows one conversation: session, thread and turns are of the   *)
(* same, so that no late frame, archive or resume response makes the next  *)
(* question continue another conversation, unless the user began to        *)
(* archive while a thread was being opened.  Outside a thread, the turns   *)
(* are about the library that is selected.                                 *)
(***************************************************************************)
OneConversation ==
    /\ ~overlapped => sessionId \in {Nowhere, shown} /\ threadId \in {Nowhere, shown}
    /\ \A t \in turns :
          /\ t.conv = shown
          /\ requested = Nowhere /\ t.by # 0 => asked[t.by].lib = library

(***************************************************************************)
(* The archive button comes back: it is busy only while an archive of this *)
(* epoch is under way, or while a thread was opened over it.               *)
(***************************************************************************)
ArchiveButtonReturns ==
    archiving /\ requested = Nowhere => \E x \in archives : ~x.stale

\* A turn follows the attempt that was begun for it last.
TurnsFollowAttempts == TextFromItsAttempt /\ PendingHasAttempt

\* The page stays with one conversation and lets it be archived.
ConversationKept == OneConversation /\ ArchiveButtonReturns
=============================================================================
