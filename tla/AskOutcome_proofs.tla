-------------------------- MODULE AskOutcome_proofs --------------------------
(***************************************************************************)
(* What becomes of an ask: in its row, for any set of runs, any sweep and  *)
(* any number of crashes; and on the page, for any number of questions,    *)
(* retries and conversations.                                              *)
(***************************************************************************)
EXTENDS AskSettlement, AskClient, TLAPS

(***************************************************************************)
(* The row.  It is "running" only while someone owes it an end: the        *)
(* handler (activeRun), a write on its way, a write that failed soft, or   *)
(* nobody because the process died.  A status on its way is as true as a   *)
(* status in a row.                                                        *)
(***************************************************************************)

Labels == {"idle", "graph", "frames", "tokens", "persist", "done", "lost"}

SettlementTypeOK ==
    /\ run \in [Runs -> {"none", "running"} \cup EndedStatus]
    /\ at \in [Runs -> Labels]
    /\ writing \in [Runs -> {"none"} \cup EndedStatus]

\* A status that is, or is about to be, in a row.
True(status, r) ==
    /\ status \in {"completed", "refused"} => r \in answered
    /\ status = "cancelled" => r \in gone \cup swept

StatusesTrue ==
    \A r \in Runs :
        /\ True(run[r], r)
        /\ True(writing[r], r)
        /\ at[r] = "persist" => r \in answered

RowsOwed ==
    \A r \in Runs :
        /\ at[r] = "idle" => run[r] = "none"
        /\ at[r] \in {"idle", "done"} => r \notin activeRun
        /\ run[r] = "running" =>
              r \in activeRun \/ writing[r] # "none" \/ r \in lostWrites \/ at[r] = "lost"

IInv == SettlementTypeOK /\ StatusesTrue /\ RowsOwed

\* What no step may do to a row that ended.
EndsKept == \A r \in Runs : run[r] \in EndedStatus => run'[r] \in {run[r], "none"}

-----------------------------------------------------------------------------
(* The steps                                                                 *)

\* What the handler takes from activeRun becomes a write on its way.
LEMMA SettleKeeps ==
    ASSUME IInv, NEW r \in Runs, NEW status \in EndedStatus, NEW label \in Labels \ {"idle", "persist"},
           SettleActiveRun(r, status), GoesTo(r, label), UNCHANGED runVars,
           at[r] \notin {"idle", "lost"},
           lostWrites' = lostWrites, answered' = answered, gone \subseteq gone',
           status \in {"completed", "refused"} => r \in answered,
           status = "cancelled" => r \in gone'
    PROVE  IInv' /\ EndsKept
PROOF
<1>1. /\ run' = run /\ swept' = swept
      /\ at' = [at EXCEPT ![r] = label]
      /\ activeRun' = activeRun \ {r}
      /\ writing' = IF r \in activeRun THEN [writing EXCEPT ![r] = status] ELSE writing
    BY DEF SettleActiveRun, GoesTo, runVars
<1>2. SettlementTypeOK'
    BY <1>1 DEF IInv, SettlementTypeOK
<1>3. StatusesTrue'
    BY <1>1 DEF IInv, SettlementTypeOK, StatusesTrue, True, EndedStatus
<1>4. RowsOwed'
    BY <1>1 DEF IInv, SettlementTypeOK, RowsOwed, EndedStatus
<1> QED
    BY <1>1, <1>2, <1>3, <1>4 DEF IInv, EndsKept

\* The handler goes on: no row and no debt changes.
LEMMA ProceedKeeps ==
    ASSUME IInv, NEW r \in Runs, NEW label \in {"graph", "frames", "tokens", "persist"},
           GoesTo(r, label), UNCHANGED <<runVars, activeRun, writing, gone, lostWrites>>,
           at[r] # "lost",
           answered \subseteq answered', label = "persist" => r \in answered'
    PROVE  IInv' /\ EndsKept
PROOF
<1>1. /\ run' = run /\ swept' = swept /\ activeRun' = activeRun /\ writing' = writing
      /\ gone' = gone /\ lostWrites' = lostWrites
      /\ at' = [at EXCEPT ![r] = label]
    BY DEF GoesTo, runVars
<1>2. SettlementTypeOK'
    BY <1>1 DEF IInv, SettlementTypeOK, Labels
<1>3. StatusesTrue' /\ RowsOwed'
    BY <1>1 DEF IInv, SettlementTypeOK, StatusesTrue, True, RowsOwed
<1> QED
    BY <1>1, <1>2, <1>3 DEF IInv, EndsKept

LEMMA StartAskKeeps ==
    ASSUME IInv, NEW r \in Runs, StartAsk(r)
    PROVE  IInv' /\ EndsKept
PROOF
<1>1. PICK label \in {"graph", "done"} :
          /\ at' = [at EXCEPT ![r] = label]
          /\ at[r] = "idle"
          /\ UNCHANGED <<swept, gone, writing, answered>>
          /\ \/ /\ run' = [run EXCEPT ![r] = "running"] /\ label = "graph"
                /\ activeRun' = activeRun \cup {r} /\ UNCHANGED lostWrites
             \/ /\ run' = [run EXCEPT ![r] = "running"] /\ label = "graph"
                /\ lostWrites' = lostWrites \cup {r} /\ UNCHANGED activeRun
             \/ UNCHANGED <<run, activeRun, lostWrites>>
    BY DEF StartAsk, GoesTo, InsertRun
<1>2. at[r] = "idle" /\ run[r] = "none"
    BY <1>1 DEF IInv, RowsOwed
<1>3. CASE /\ run' = [run EXCEPT ![r] = "running"] /\ label = "graph"
           /\ \/ activeRun' = activeRun \cup {r} /\ UNCHANGED lostWrites
              \/ lostWrites' = lostWrites \cup {r} /\ UNCHANGED activeRun
    <2>1. SettlementTypeOK' /\ StatusesTrue'
        BY <1>1, <1>3 DEF IInv, SettlementTypeOK, Labels, StatusesTrue, True, EndedStatus
    <2>2. RowsOwed'
        BY <1>1, <1>3 DEF IInv, SettlementTypeOK, RowsOwed
    <2>3. EndsKept
        BY <1>2, <1>3 DEF IInv, SettlementTypeOK, EndsKept, EndedStatus
    <2> QED
        BY <2>1, <2>2, <2>3 DEF IInv
<1>4. CASE UNCHANGED <<run, activeRun, lostWrites>>
    <2>1. SettlementTypeOK' /\ StatusesTrue' /\ EndsKept
        BY <1>1, <1>4 DEF IInv, SettlementTypeOK, Labels, StatusesTrue, True, EndsKept
    <2> QED
        BY <1>1, <1>2, <1>4, <2>1 DEF IInv, SettlementTypeOK, RowsOwed, Labels
<1> QED
    BY <1>1, <1>3, <1>4

\* The write of a row, through or not.
LEMMA WriteRowKeeps ==
    ASSUME IInv, NEW r \in Runs, WriteRow(r)
    PROVE  IInv' /\ EndsKept
PROOF
<1>1. /\ writing[r] # "none" /\ writing' = [writing EXCEPT ![r] = "none"]
      /\ UNCHANGED <<swept, at, gone, activeRun, answered>>
    BY DEF WriteRow
<1>2. writing[r] \in EndedStatus
    BY <1>1 DEF IInv, SettlementTypeOK
<1>3. CASE FinalizeRun(r, writing[r]) /\ UNCHANGED lostWrites
    <2>1. run' = [run EXCEPT ![r] = IF @ = "running" THEN writing[r] ELSE @]
        BY <1>3 DEF FinalizeRun
    <2>2. SettlementTypeOK'
        BY <1>1, <1>2, <2>1 DEF IInv, SettlementTypeOK
    <2>3. StatusesTrue'
        BY <1>1, <1>2, <2>1 DEF IInv, SettlementTypeOK, StatusesTrue, True
    <2>4. RowsOwed'
        BY <1>1, <1>2, <1>3, <2>1 DEF IInv, SettlementTypeOK, RowsOwed, EndedStatus
    <2>5. EndsKept
        BY <2>1 DEF IInv, SettlementTypeOK, EndsKept, EndedStatus
    <2> QED
        BY <2>2, <2>3, <2>4, <2>5 DEF IInv
<1>4. CASE lostWrites' = lostWrites \cup {r} /\ UNCHANGED run
    BY <1>1, <1>2, <1>4 DEF IInv, SettlementTypeOK, StatusesTrue, True, RowsOwed, EndsKept
<1> QED
    BY <1>3, <1>4 DEF WriteRow

LEMMA GraphReturnsKeeps ==
    ASSUME IInv, NEW r \in Runs, GraphReturns(r)
    PROVE  IInv' /\ EndsKept
PROOF
<1>1. /\ at[r] = "graph"
      /\ UNCHANGED <<runVars, gone, answered, lostWrites>>
    BY DEF GraphReturns
<1>2. CASE GoesTo(r, IF streaming[r] THEN "frames" ELSE "tokens") /\ UNCHANGED <<activeRun, writing>>
    <2>1. PICK label \in {"frames", "tokens"} : GoesTo(r, label)
        BY <1>2
    <2> QED
        BY <1>1, <1>2, <2>1, ProceedKeeps
<1>3. CASE SettleActiveRun(r, Failure(r)) /\ GoesTo(r, "done")
    BY <1>1, <1>3, SettleKeeps DEF Failure, EndedStatus, Labels
<1> QED
    BY <1>2, <1>3 DEF GraphReturns

LEMMA FirstFrameKeeps ==
    ASSUME IInv, NEW r \in Runs, FirstFrame(r)
    PROVE  IInv' /\ EndsKept
PROOF
<1>1. /\ at[r] = "frames"
      /\ UNCHANGED <<runVars, gone, answered, lostWrites>>
    BY DEF FirstFrame
<1>2. CASE GoesTo(r, "tokens") /\ UNCHANGED <<activeRun, writing>>
    BY <1>1, <1>2, ProceedKeeps
<1>3. CASE SettleActiveRun(r, "failed") /\ GoesTo(r, "done")
    BY <1>1, <1>3, SettleKeeps DEF EndedStatus, Labels
<1> QED
    BY <1>2, <1>3 DEF FirstFrame

LEMMA TokensEndKeeps ==
    ASSUME IInv, NEW r \in Runs, TokensEnd(r)
    PROVE  IInv' /\ EndsKept
PROOF
<1>1. /\ at[r] = "tokens"
      /\ UNCHANGED <<runVars, gone, lostWrites>>
    BY DEF TokensEnd
<1>2. CASE GoesTo(r, "persist") /\ answered' = answered \cup {r} /\ UNCHANGED <<activeRun, writing>>
    BY <1>1, <1>2, ProceedKeeps
<1>3. CASE SettleActiveRun(r, Failure(r)) /\ GoesTo(r, "done") /\ UNCHANGED answered
    BY <1>1, <1>3, SettleKeeps DEF Failure, EndedStatus, Labels
<1> QED
    BY <1>2, <1>3 DEF TokensEnd

LEMMA PersistEndsKeeps ==
    ASSUME IInv, NEW r \in Runs, PersistEnds(r)
    PROVE  IInv' /\ EndsKept
PROOF
<1>1. /\ at[r] = "persist" /\ GoesTo(r, "done")
      /\ UNCHANGED <<runVars, gone, answered, lostWrites>>
    BY DEF PersistEnds
<1>2. PICK status \in {"refused", "completed", "failed"} : SettleActiveRun(r, status)
    BY DEF PersistEnds
<1>3. r \in answered
    BY <1>1 DEF IInv, StatusesTrue
<1> QED
    BY <1>1, <1>2, <1>3, SettleKeeps DEF EndedStatus, Labels

\* The signal alone settles nothing; the cancel callback of a stream does.
LEMMA ClientLeavesKeeps ==
    ASSUME IInv, NEW r \in Runs, ClientLeaves(r)
    PROVE  IInv' /\ EndsKept
PROOF
<1>1. /\ at[r] \notin {"idle", "done", "lost"} /\ gone' = gone \cup {r}
      /\ UNCHANGED <<runVars, answered, lostWrites>>
    BY DEF ClientLeaves
<1>2. CASE UNCHANGED <<at, activeRun, writing>>
    BY <1>1, <1>2 DEF IInv, SettlementTypeOK, StatusesTrue, True, RowsOwed, EndsKept, runVars
<1>3. CASE SettleActiveRun(r, "cancelled") /\ at[r] = "tokens" /\ GoesTo(r, "done")
    BY <1>1, <1>3, SettleKeeps DEF EndedStatus, Labels
<1>4. CASE SettleActiveRun(r, "cancelled") /\ UNCHANGED at
    <2>1. /\ run' = run /\ swept' = swept /\ at' = at
          /\ activeRun' = activeRun \ {r}
          /\ writing' = IF r \in activeRun THEN [writing EXCEPT ![r] = "cancelled"] ELSE writing
        BY <1>1, <1>4 DEF SettleActiveRun, runVars
    <2>2. SettlementTypeOK'
        BY <2>1 DEF IInv, SettlementTypeOK, EndedStatus
    <2>3. StatusesTrue'
        BY <1>1, <2>1 DEF IInv, SettlementTypeOK, StatusesTrue, True
    <2>4. RowsOwed'
        BY <1>1, <2>1 DEF IInv, SettlementTypeOK, RowsOwed
    <2> QED
        BY <2>1, <2>2, <2>3, <2>4 DEF IInv, EndsKept
<1> QED
    BY <1>2, <1>3, <1>4 DEF ClientLeaves

\* A crash takes the handlers, their debts and the writes on their way.
LEMMA ProcessDiesKeeps ==
    ASSUME IInv, ProcessDies, UNCHANGED runVars
    PROVE  IInv' /\ EndsKept
PROOF
<1>1. /\ at' = [r \in Runs |-> IF at[r] \in {"idle", "done"} THEN at[r] ELSE "lost"]
      /\ lostWrites' = lostWrites \cup {r \in Runs : writing[r] # "none"}
      /\ writing' = [r \in Runs |-> "none"]
      /\ activeRun' = {}
      /\ UNCHANGED <<run, swept, gone, answered>>
    BY DEF ProcessDies, runVars
<1>2. SettlementTypeOK' /\ StatusesTrue'
    BY <1>1 DEF IInv, SettlementTypeOK, StatusesTrue, True, Labels
<1>3. RowsOwed'
    BY <1>1 DEF IInv, SettlementTypeOK, RowsOwed
<1> QED
    BY <1>1, <1>2, <1>3 DEF IInv, EndsKept

\* Maintenance ends running rows and deletes ended ones.
LEMMA MaintenanceKeeps ==
    ASSUME IInv, Maintenance, UNCHANGED settleVars
    PROVE  IInv' /\ EndsKept
PROOF
<1>1. UNCHANGED <<at, gone, activeRun, writing, answered, lostWrites>>
    BY DEF settleVars
<1>2. CASE SweepStale
    <2>1. PICK batch \in SUBSET {r \in Runs : run[r] = "running"} :
              /\ run' = [r \in Runs |-> IF r \in batch THEN StaleStatus ELSE run[r]]
              /\ swept' = swept \cup batch
        BY <1>2 DEF SweepStale
    <2>2. StaleStatus \in EndedStatus /\ StaleStatus \notin {"completed", "refused"}
        BY RunsAssumption DEF EndedStatus
    <2>3. SettlementTypeOK' /\ EndsKept
        BY <1>1, <2>1, <2>2 DEF IInv, SettlementTypeOK, EndsKept, EndedStatus
    <2>4. StatusesTrue'
        BY <1>1, <2>1, <2>2 DEF IInv, SettlementTypeOK, StatusesTrue, True
    <2>5. RowsOwed'
        BY <1>1, <2>1, <2>2 DEF IInv, SettlementTypeOK, RowsOwed, EndedStatus
    <2> QED
        BY <2>3, <2>4, <2>5 DEF IInv
<1>3. CASE DeleteExpired
    <2>1. PICK batch \in SUBSET {r \in Runs : run[r] \in EndedStatus} :
              run' = [r \in Runs |-> IF r \in batch THEN "none" ELSE run[r]]
        BY <1>3 DEF DeleteExpired
    <2>2. swept' = swept
        BY <1>3 DEF DeleteExpired
    <2>3. SettlementTypeOK' /\ EndsKept
        BY <1>1, <2>1 DEF IInv, SettlementTypeOK, EndsKept
    <2>4. StatusesTrue' /\ RowsOwed'
        BY <1>1, <2>1, <2>2 DEF IInv, SettlementTypeOK, StatusesTrue, True, RowsOwed, EndedStatus
    <2> QED
        BY <2>3, <2>4 DEF IInv
<1> QED
    BY <1>2, <1>3 DEF Maintenance

-----------------------------------------------------------------------------
LEMMA SettlementStep ==
    ASSUME IInv, [SettlementNext]_settlementVars
    PROVE  IInv' /\ EndsKept
PROOF
<1>1. CASE UNCHANGED settlementVars
    BY <1>1 DEF IInv, SettlementTypeOK, StatusesTrue, True, RowsOwed, EndsKept,
        settlementVars, settleVars, runVars
<1>2. CASE \E r \in Runs : HandlerStep(r)
    BY <1>2, StartAskKeeps, GraphReturnsKeeps, FirstFrameKeeps, TokensEndKeeps, PersistEndsKeeps,
       ClientLeavesKeeps, WriteRowKeeps DEF HandlerStep
<1>3. CASE ProcessDies
    BY <1>3, ProcessDiesKeeps DEF ProcessDies
<1>4. CASE Maintenance /\ UNCHANGED settleVars
    BY <1>4, MaintenanceKeeps
<1> QED
    BY <1>1, <1>2, <1>3, <1>4 DEF SettlementNext

LEMMA SettlementInvariant == SettlementSpec => []IInv
PROOF
<1>1. SettlementInit => IInv
    BY DEF SettlementInit, RunsInit, IInv, SettlementTypeOK, Labels, StatusesTrue, True, RowsOwed
<1>2. IInv /\ [SettlementNext]_settlementVars => IInv'
    BY SettlementStep
<1> QED
    BY <1>1, <1>2, PTL DEF SettlementSpec

(***************************************************************************)
(* A row says completed or refused only of an answer that passed its last  *)
(* check, and cancelled only of a client that left or of a row that        *)
(* maintenance gave up.                                                    *)
(***************************************************************************)
THEOREM RowsTellTheTruth == SettlementSpec => []RowsTruthful
PROOF
<1>1. IInv => RowsTruthful
    BY DEF IInv, StatusesTrue, True, RowsTruthful
<1> QED
    BY <1>1, SettlementInvariant, PTL

(***************************************************************************)
(* Every way out of the handler ends its row, or lost the write.           *)
(***************************************************************************)
THEOREM NoExitForgetsItsRow == SettlementSpec => []NoRowForgotten
PROOF
<1>1. IInv => NoRowForgotten
    BY DEF IInv, RowsOwed, NoRowForgotten
<1> QED
    BY <1>1, SettlementInvariant, PTL

(***************************************************************************)
(* The status of a row is what became of its ask, and no way out of the    *)
(* handler leaves it without one.                                          *)
(***************************************************************************)
THEOREM RowsAreAccounted == SettlementSpec => []RowsAccount
PROOF
<1> QED
    BY RowsTellTheTruth, NoExitForgetsItsRow, PTL DEF RowsAccount

(***************************************************************************)
(* Of the handler, the cancel callback and maintenance, the first to end a *)
(* row has the last word.                                                  *)
(***************************************************************************)
THEOREM FirstEndStays == SettlementSpec => RowsEndOnce
PROOF
<1>1. IInv /\ [SettlementNext]_settlementVars => [EndsKept]_settlementVars
    BY SettlementStep
<1>2. SettlementSpec => [][EndsKept]_settlementVars
    BY <1>1, SettlementInvariant, PTL DEF SettlementSpec
<1> QED
    BY <1>2 DEF RowsEndOnce, EndsKept

-----------------------------------------------------------------------------
(***************************************************************************)
(* The page.  A retry takes over the id of its turn, so that a patch by id *)
(* may find another attempt's turn; what saves it is that only the active  *)
(* attempt is listened to, and that the turn with its id is then its own.  *)
(* A response that comes late belongs to an epoch that is over, but for an *)
(* archive that was begun while a thread was being opened.                 *)
(***************************************************************************)
\* The turns whose text is of attempt b alone.
Turn(b) ==
    [id : Nat, by : 0 .. Len(asked), conv : {shown}, pending : BOOLEAN, text : SUBSET {b}]

AttemptsTyped ==
    /\ asked \in Seq({asked[a] : a \in DOMAIN asked})
    /\ Len(asked) <= MaxQuestions
    /\ activeAttempt \in 0 .. Len(asked)

TurnsTyped == \A t \in turns : t \in Turn(t.by)

ArchivesTyped == \A x \in archives : x \in [conv : {x.conv}, lib : {x.lib}, stale : BOOLEAN]

PageTypeOK == AttemptsTyped /\ TurnsTyped /\ ArchivesTyped

\* The turn of the active attempt streams, and no other; its id is no other's
\* then, although a retry takes over the id of its turn.
ActiveTurn ==
    /\ \A t \in turns :
          /\ t.id \in 1 .. Len(asked) \/ t.id > MaxQuestions
          /\ t.pending => t.by = activeAttempt /\ activeAttempt # 0 /\ t.id = asked[activeAttempt].turn
    /\ activeAttempt # 0 =>
          /\ asked[activeAttempt].conv = shown
          /\ \A t \in turns : t.id = asked[activeAttempt].turn => t.by = activeAttempt
          /\ \E t \in turns : t.pending

\* Outside a thread the turns are about the library that is selected.
AboutLibrary ==
    requested = Nowhere => \A t \in turns : t.by # 0 => asked[t.by].lib = library

\* An archive request of this epoch is of what the page shows, and was made
\* outside a thread, unless one was being opened; a thread is only opened as
\* long as the URL asks for one.
ThisEpoch ==
    /\ resuming # Nowhere => requested # Nowhere
    /\ ~overlapped => \A x \in archives : ~x.stale => x.conv = shown /\ requested = Nowhere

OfThePage ==
    ~overlapped => sessionId \in {Nowhere, shown} /\ threadId \in {Nowhere, shown}

PageInv ==
    /\ PageTypeOK /\ ActiveTurn /\ AboutLibrary /\ ThisEpoch /\ OfThePage
    /\ ArchiveButtonReturns

\* What is left of the turns when nothing streams any more.
Quiet(ts) ==
    \A u \in ts : \E t \in turns :
        /\ u \in Turn(u.by) /\ u.pending = FALSE
        /\ u.id = t.id /\ u.by = t.by /\ u.conv = t.conv

LEMMA WithToken ==
    ASSUME NEW t, t \in Turn(t.by), NEW u, u = [t EXCEPT !.text = @ \cup {t.by}, !.pending = TRUE]
    PROVE  /\ u \in Turn(u.by) /\ u.pending = TRUE
           /\ u.id = t.id /\ u.by = t.by /\ u.conv = t.conv
BY DEF Turn

LEMMA WithoutStream ==
    ASSUME NEW t, t \in Turn(t.by), NEW u, u = [t EXCEPT !.pending = FALSE]
    PROVE  /\ u \in Turn(u.by) /\ u.pending = FALSE
           /\ u.id = t.id /\ u.by = t.by /\ u.conv = t.conv
BY DEF Turn

\* A turn that does not stream is marked so.
LEMMA NotPending ==
    ASSUME NEW t, t \in Turn(t.by), ~t.pending
    PROVE  t.pending = FALSE
BY DEF Turn

\* What a token changes: the turn of the active attempt.
LEMMA TokenAdded ==
    ASSUME PageInv, activeAttempt # 0, NEW u \in AddToken(turns, activeAttempt)
    PROVE  \E t \in turns :
              /\ u \in Turn(u.by) /\ u.id = t.id /\ u.by = t.by /\ u.conv = t.conv
              /\ \/ t.id = asked[activeAttempt].turn /\ u.pending = TRUE
                 \/ t.id # asked[activeAttempt].turn /\ u = t
<1>1. PICK t \in turns :
         u = IF t.id = asked[activeAttempt].turn
             THEN [t EXCEPT !.text = @ \cup {activeAttempt}, !.pending = TRUE] ELSE t
  BY DEF AddToken, Patch
<1>2. t \in Turn(t.by)  BY DEF PageInv, PageTypeOK, TurnsTyped, AttemptsTyped
<1>3. CASE t.id = asked[activeAttempt].turn
  <2>1. t.by = activeAttempt  BY <1>3 DEF PageInv, ActiveTurn
  <2>2. u = [t EXCEPT !.text = @ \cup {t.by}, !.pending = TRUE]  BY <1>1, <1>3, <2>1
  <2> QED  BY <1>2, <1>3, <2>2, WithToken
<1>4. CASE t.id # asked[activeAttempt].turn  BY <1>1, <1>2, <1>4
<1> QED  BY <1>3, <1>4

LEMMA TokenReaches ==
    ASSUME PageInv, activeAttempt # 0
    PROVE  \E u \in AddToken(turns, activeAttempt) : u.pending = TRUE
<1>1. PICK t \in turns : t.pending  BY DEF PageInv, ActiveTurn
<1>2. t \in Turn(t.by) /\ t.by = activeAttempt /\ t.id = asked[activeAttempt].turn
  BY <1>1 DEF PageInv, PageTypeOK, TurnsTyped, ActiveTurn
<1> DEFINE u == [t EXCEPT !.text = @ \cup {t.by}, !.pending = TRUE]
<1>3. u \in AddToken(turns, activeAttempt)  BY <1>2 DEF AddToken, Patch
<1>4. u.pending = TRUE  BY <1>2, WithToken
<1> QED  BY <1>3, <1>4

\* An attempt that is given up leaves no turn streaming.
LEMMA CancelledIs == ASSUME PageInv PROVE Quiet(CancelledTurns)
<1>1. CASE activeAttempt = 0
  <2> SUFFICES ASSUME NEW u \in turns PROVE u \in Turn(u.by) /\ u.pending = FALSE
    BY <1>1 DEF Quiet, CancelledTurns
  <2>1. u \in Turn(u.by)  BY DEF PageInv, PageTypeOK, TurnsTyped, AttemptsTyped
  <2>2. ~u.pending  BY <1>1 DEF PageInv, ActiveTurn
  <2> QED  BY <2>1, <2>2, NotPending
<1>2. CASE activeAttempt # 0
  <2> SUFFICES ASSUME NEW u \in EndTurn(Flushed(turns, activeAttempt), activeAttempt)
               PROVE  \E t \in turns : /\ u \in Turn(u.by) /\ u.pending = FALSE
                                       /\ u.id = t.id /\ u.by = t.by /\ u.conv = t.conv
    BY <1>2 DEF Quiet, CancelledTurns
  <2>1. PICK v \in Flushed(turns, activeAttempt) :
           u = IF v.id = asked[activeAttempt].turn THEN [v EXCEPT !.pending = FALSE] ELSE v
    BY DEF EndTurn, Patch
  <2>2. PICK t \in turns :
           /\ v \in Turn(v.by) /\ v.id = t.id /\ v.by = t.by /\ v.conv = t.conv
           /\ t.id = asked[activeAttempt].turn \/ v = t
    <3>1. CASE v \in turns  BY <3>1 DEF PageInv, PageTypeOK, TurnsTyped
    <3>2. CASE v \in AddToken(turns, activeAttempt)  BY <1>2, <3>2, TokenAdded
    <3> QED  BY <3>1, <3>2 DEF Flushed
  <2>3. CASE v.id = asked[activeAttempt].turn
    <3>1. u = [v EXCEPT !.pending = FALSE]  BY <2>1, <2>3
    <3> QED  BY <2>2, <3>1, WithoutStream
  <2>4. CASE v.id # asked[activeAttempt].turn
    <3>1. u = t /\ u \in Turn(u.by)  BY <2>1, <2>2, <2>4
    <3>2. ~u.pending  BY <2>2, <2>4, <3>1 DEF PageInv, ActiveTurn
    <3> QED  BY <3>1, <3>2, NotPending
  <2> QED  BY <2>3, <2>4
<1> QED  BY <1>1, <1>2

\* One more attempt leaves those before as they are.
LEMMA AttemptAdded ==
    ASSUME PageInv, NEW e, asked' = Append(asked, e)
    PROVE  /\ asked' \in Seq({asked'[a] : a \in DOMAIN asked'})
           /\ Len(asked') = Len(asked) + 1 /\ Len(asked) \in Nat
           /\ asked'[Len(asked) + 1] = e
           /\ \A a \in 1 .. Len(asked) : asked'[a] = asked[a]
<1> DEFINE S == {asked[a] : a \in DOMAIN asked}
           T == S \cup {e}
<1>1. asked \in Seq(S) /\ S \subseteq T  BY DEF PageInv, PageTypeOK, TurnsTyped, AttemptsTyped
<1> HIDE DEF S
<1>2. asked \in Seq(T)  BY <1>1
<1>3. /\ asked' \in Seq(T) /\ Len(asked') = Len(asked) + 1 /\ Len(asked) \in Nat
      /\ DOMAIN asked = 1 .. Len(asked) /\ DOMAIN asked' = 1 .. Len(asked) + 1
      /\ asked'[Len(asked) + 1] = e
      /\ \A a \in 1 .. Len(asked) : asked'[a] = asked[a]
  BY <1>2
<1>4. T = {asked'[a] : a \in DOMAIN asked'}  BY <1>3 DEF S
<1> QED  BY <1>3, <1>4

\* When nothing streams any more.
LEMMA QuietTurns ==
    ASSUME PageInv, Quiet(turns'), activeAttempt' = 0, shown' = shown, asked' = asked
    PROVE  /\ AttemptsTyped' /\ TurnsTyped' /\ ActiveTurn'
           /\ requested' = requested /\ library' = library => AboutLibrary'
<1>1. AttemptsTyped'
  BY DEF PageInv, PageTypeOK, AttemptsTyped
<1>2. TurnsTyped'
  <2> SUFFICES ASSUME NEW u \in turns' PROVE (u \in Turn(u.by))'  BY DEF TurnsTyped
  <2>1. u \in Turn(u.by)  BY DEF Quiet
  <2> QED  BY <2>1 DEF Turn
<1>3. ActiveTurn'
  <2> SUFFICES ASSUME NEW u \in turns'
               PROVE  (u.id \in 1 .. Len(asked) \/ u.id > MaxQuestions) /\ ~u.pending
    BY DEF ActiveTurn
  <2>1. PICK t \in turns : u.id = t.id /\ u.pending = FALSE  BY DEF Quiet
  <2> QED  BY <2>1 DEF PageInv, ActiveTurn
<1>4. ASSUME requested' = requested, library' = library PROVE AboutLibrary'
  <2> SUFFICES ASSUME requested = Nowhere, NEW u \in turns', u.by # 0
               PROVE  asked[u.by].lib = library
    BY <1>4 DEF AboutLibrary
  <2>1. PICK t \in turns : u.by = t.by  BY DEF Quiet
  <2> QED  BY <2>1 DEF PageInv, AboutLibrary
<1> QED  BY <1>1, <1>2, <1>3, <1>4

LEMMA EpochEnds ==
    ASSUME PageInv, NextEpoch
    PROVE  ArchivesTyped' /\ \A x \in archives' : x.stale = TRUE
<1> SUFFICES ASSUME NEW x \in archives'
             PROVE  x \in [conv : {x.conv}, lib : {x.lib}, stale : BOOLEAN] /\ x.stale = TRUE
  BY DEF ArchivesTyped
<1>1. PICK y \in archives : x = [y EXCEPT !.stale = TRUE]  BY DEF NextEpoch
<1>2. y \in [conv : {y.conv}, lib : {y.lib}, stale : BOOLEAN]
  BY DEF PageInv, PageTypeOK, ArchivesTyped
<1> QED  BY <1>1, <1>2

\* A conversation begins.
LEMMA ResetKeeps ==
    ASSUME PageInv, ResetConversation, asked' = asked, overlapped' = overlapped,
           resuming' # Nowhere => requested' # Nowhere
    PROVE  PageInv'
<1>1. /\ turns' = {} /\ activeAttempt' = 0 /\ sessionId' = Nowhere /\ threadId' = Nowhere
      /\ archiving' = FALSE /\ NextEpoch
  BY DEF ResetConversation, NoActive
<1>2. AttemptsTyped' /\ TurnsTyped' /\ ActiveTurn' /\ AboutLibrary'
  BY <1>1 DEF PageInv, PageTypeOK, AttemptsTyped, TurnsTyped, ActiveTurn, AboutLibrary
<1>3. ArchivesTyped' /\ \A x \in archives' : x.stale = TRUE  BY <1>1, EpochEnds
<1>4. ThisEpoch' /\ OfThePage' /\ ArchiveButtonReturns'
  BY <1>1, <1>3 DEF ThisEpoch, OfThePage, ArchiveButtonReturns
<1> QED  BY <1>2, <1>3, <1>4 DEF PageInv, PageTypeOK

\* A render with another library or thread: all that streams is cancelled, and
\* without a thread the conversation is another one.
LEMMA ContextKeeps ==
    ASSUME PageInv, NEW lib, NEW req, ContextEffect(lib, req), asked' = asked,
           overlapped' = overlapped, Resumes(req),
           \/ lib # library /\ library # Nowhere /\ req = requested
           \/ lib = library /\ req # requested
    PROVE  PageInv'
<1>1. requested' = req /\ library' = lib  BY DEF ContextEffect
<1>2. resuming' # Nowhere => requested' # Nowhere  BY <1>1 DEF Resumes
<1>3. CASE ResetConversation  BY <1>2, <1>3, ResetKeeps
<1>4. CASE /\ req # Nowhere /\ turns' = CancelledTurns /\ NoActive /\ NextEpoch
           /\ UNCHANGED <<shown, fresh, sessionId, threadId, resumed, archiving>>
  <2>1. Quiet(turns')  BY <1>4, CancelledIs
  <2>2. AttemptsTyped' /\ TurnsTyped' /\ ActiveTurn'
    BY <1>4, <2>1, QuietTurns DEF NoActive
  <2>3. ArchivesTyped' /\ \A x \in archives' : x.stale = TRUE  BY <1>4, EpochEnds
  <2>4. AboutLibrary' /\ ThisEpoch' /\ ArchiveButtonReturns'
    BY <1>1, <1>4, <2>3 DEF AboutLibrary, ThisEpoch, ArchiveButtonReturns
  <2>5. OfThePage'  BY <1>4 DEF PageInv, OfThePage
  <2> QED  BY <2>2, <2>3, <2>4, <2>5 DEF PageInv, PageTypeOK
<1> QED  BY <1>3, <1>4 DEF ContextEffect

\* A question, in a turn of its own or in the place of one that has ended.
LEMMA BeginKeeps ==
    ASSUME PageInv, NEW turn \in Nat, turn \in 1 .. Len(asked) + 1 \/ turn > MaxQuestions,
           NEW rest, Quiet(rest), \A u \in rest : u.id # turn, BeginAttempt(turn, rest)
    PROVE  PageInv'
<1>0. PICK a : a = Len(asked) + 1  OBVIOUS
<1> DEFINE e == [turn |-> turn, conv |-> shown, lib |-> library]
           new == [id |-> turn, by |-> a, conv |-> shown, pending |-> TRUE, text |-> {}]
<1>1. /\ a <= MaxQuestions /\ asked' = Append(asked, e)
      /\ turns' = rest \cup {new} /\ activeAttempt' = a
      /\ UNCHANGED <<library, requested, shown, sessionId, threadId, archives, archiving, resuming,
                     overlapped>>
  BY <1>0 DEF BeginAttempt
<1>2. /\ asked' \in Seq({asked'[i] : i \in DOMAIN asked'})
      /\ Len(asked') = a /\ Len(asked) \in Nat /\ asked'[a] = e
      /\ \A i \in 1 .. Len(asked) : asked'[i] = asked[i]
  BY <1>0, <1>1, AttemptAdded
<1>3. new.id = turn /\ new.by = a /\ new.pending = TRUE  OBVIOUS
<1>4. e.turn = turn /\ e.conv = shown /\ e.lib = library  OBVIOUS
<1>5. new \in [id : Nat, by : 0 .. Len(asked'), conv : {shown'}, pending : BOOLEAN,
                text : SUBSET {new.by}]
  BY <1>0, <1>1, <1>2
<1> HIDE DEF new, e
<1>6. AttemptsTyped'  BY <1>0, <1>1, <1>2 DEF AttemptsTyped
<1>7. ASSUME NEW u \in rest
      PROVE  /\ (u \in Turn(u.by))' /\ ~u.pending /\ u.id # turn
             /\ u.id \in 1 .. Len(asked) \/ u.id > MaxQuestions
             /\ u.by \in 0 .. Len(asked)
             /\ requested = Nowhere /\ u.by # 0 => asked[u.by].lib = library
  <2>1. PICK t \in turns : /\ u \in Turn(u.by) /\ u.pending = FALSE
                           /\ u.id = t.id /\ u.by = t.by
    BY DEF Quiet
  <2>2. (u \in Turn(u.by))' /\ u.by \in 0 .. Len(asked)  BY <1>0, <1>1, <1>2, <2>1 DEF Turn
  <2>3. u.id \in 1 .. Len(asked) \/ u.id > MaxQuestions  BY <2>1 DEF PageInv, ActiveTurn
  <2>4. requested = Nowhere /\ u.by # 0 => asked[u.by].lib = library
    BY <2>1 DEF PageInv, AboutLibrary
  <2> QED  BY <2>1, <2>2, <2>3, <2>4
<1>8. TurnsTyped'
  <2> SUFFICES ASSUME NEW t \in turns' PROVE (t \in Turn(t.by))'  BY DEF TurnsTyped
  <2>1. CASE t = new  BY <1>5, <2>1 DEF Turn
  <2>2. CASE t \in rest  BY <1>7, <2>2
  <2> QED  BY <1>1, <2>1, <2>2
<1>9. ActiveTurn'
  <2>1. \A t \in turns' :
           /\ t.id \in 1 .. Len(asked') \/ t.id > MaxQuestions
           /\ t.pending => t.by = a /\ t.id = turn
           /\ t.id = turn => t.by = a
    BY <1>0, <1>1, <1>2, <1>3, <1>7
  <2>2. \E t \in turns' : t.pending  BY <1>1, <1>3
  <2> QED  BY <1>0, <1>1, <1>2, <1>4, <2>1, <2>2 DEF ActiveTurn
<1>10. AboutLibrary'
  <2>1. \A t \in turns' : requested = Nowhere /\ t.by # 0 => asked'[t.by].lib = library
    <3>1. asked'[new.by].lib = library  BY <1>2, <1>3, <1>4
    <3>2. ASSUME NEW u \in rest, requested = Nowhere, u.by # 0
          PROVE  asked'[u.by].lib = library
      BY <1>2, <1>7, <3>2
    <3> QED  BY <1>1, <3>1, <3>2
  <2> QED  BY <1>1, <2>1 DEF AboutLibrary
<1>11. ArchivesTyped' /\ ThisEpoch' /\ OfThePage' /\ ArchiveButtonReturns'
  BY <1>1 DEF PageInv, PageTypeOK, ArchivesTyped, ThisEpoch, OfThePage, ArchiveButtonReturns
<1> QED  BY <1>6, <1>8, <1>9, <1>10, <1>11 DEF PageInv, PageTypeOK

pageKept == <<library, requested, shown, sessionId, threadId, asked, archives, archiving, resuming,
              overlapped>>

\* What the page and its requests keep, with the turns as given.
LEMMA OthersKept ==
    ASSUME PageInv, UNCHANGED pageKept
    PROVE  ArchivesTyped' /\ ThisEpoch' /\ OfThePage' /\ ArchiveButtonReturns'
BY DEF PageInv, PageTypeOK, ArchivesTyped, ThisEpoch, OfThePage, ArchiveButtonReturns, pageKept

LEMMA NothingChanges ==
    ASSUME PageInv, UNCHANGED <<pageKept, turns, activeAttempt>>
    PROVE  PageInv'
<1>1. UNCHANGED <<asked, shown, turns, activeAttempt, library, requested>>  BY DEF pageKept
<1>2. AttemptsTyped' /\ TurnsTyped' /\ ActiveTurn' /\ AboutLibrary'
  BY <1>1 DEF PageInv, PageTypeOK, AttemptsTyped, TurnsTyped, Turn, ActiveTurn, AboutLibrary
<1> QED  BY <1>2, OthersKept DEF PageInv, PageTypeOK

\* The active attempt is given up.
LEMMA GivenUp ==
    ASSUME PageInv, turns' = CancelledTurns, NoActive, UNCHANGED pageKept
    PROVE  PageInv'
<1>1. Quiet(turns')  BY CancelledIs
<1>2. AttemptsTyped' /\ TurnsTyped' /\ ActiveTurn' /\ AboutLibrary'
  BY <1>1, QuietTurns DEF NoActive, pageKept
<1> QED  BY <1>2, OthersKept DEF PageInv, PageTypeOK

\* Text reaches the turn of the active attempt.
LEMMA TokenKeeps ==
    ASSUME PageInv, activeAttempt # 0, turns' = AddToken(turns, activeAttempt), activeAttempt' = activeAttempt,
           UNCHANGED pageKept
    PROVE  PageInv'
<1>1. UNCHANGED <<asked, shown, activeAttempt, library, requested>>  BY DEF pageKept
<1>2. ASSUME NEW u \in turns'
      PROVE  /\ u \in Turn(u.by)
             /\ u.id \in 1 .. Len(asked) \/ u.id > MaxQuestions
             /\ u.pending => u.by = activeAttempt /\ u.id = asked[activeAttempt].turn
             /\ u.id = asked[activeAttempt].turn => u.by = activeAttempt
             /\ requested = Nowhere /\ u.by # 0 => asked[u.by].lib = library
  <2>1. PICK t \in turns :
           /\ u \in Turn(u.by) /\ u.id = t.id /\ u.by = t.by /\ u.conv = t.conv
           /\ \/ t.id = asked[activeAttempt].turn /\ u.pending = TRUE
              \/ t.id # asked[activeAttempt].turn /\ u = t
    BY TokenAdded
  <2>2. /\ t.id \in 1 .. Len(asked) \/ t.id > MaxQuestions
        /\ t.pending => t.by = activeAttempt /\ t.id = asked[activeAttempt].turn
        /\ t.id = asked[activeAttempt].turn => t.by = activeAttempt
        /\ requested = Nowhere /\ t.by # 0 => asked[t.by].lib = library
    BY DEF PageInv, ActiveTurn, AboutLibrary
  <2> QED  BY <2>1, <2>2
<1>3. \E u \in turns' : u.pending  BY TokenReaches
<1>4. TurnsTyped'
  <2> SUFFICES ASSUME NEW t \in turns' PROVE (t \in Turn(t.by))'  BY DEF TurnsTyped
  <2> QED  BY <1>1, <1>2 DEF Turn
<1>5. AttemptsTyped'  BY <1>1 DEF PageInv, PageTypeOK, AttemptsTyped
<1>6. ActiveTurn'
  <2>1. activeAttempt # 0 /\ asked[activeAttempt].conv = shown  BY DEF PageInv, ActiveTurn
  <2> QED  BY <1>1, <1>2, <1>3, <2>1 DEF ActiveTurn
<1>7. AboutLibrary'  BY <1>1, <1>2 DEF AboutLibrary
<1> QED  BY <1>4, <1>5, <1>6, <1>7, OthersKept DEF PageInv, PageTypeOK

\* The first frame names the session of the attempt.
LEMMA SessionIs ==
    ASSUME PageInv, NEW a \in DOMAIN asked, IsCurrent(a)
    PROVE  activeAttempt = a /\ a # 0 /\ a \in Nat /\ asked[a].conv = shown
<1>1. DOMAIN asked = 1 .. Len(asked) /\ Len(asked) \in Nat
  BY DEF PageInv, PageTypeOK, AttemptsTyped
<1> QED  BY <1>1 DEF PageInv, ActiveTurn, IsCurrent

LEMMA MetaKeeps ==
    ASSUME PageInv, NEW a \in DOMAIN asked, Meta(a)
    PROVE  PageInv'
<1>1. /\ sessionId' = shown
      /\ UNCHANGED <<library, requested, shown, threadId, turns, asked, activeAttempt, archives,
                     archiving, resuming, overlapped>>
  BY SessionIs DEF Meta
<1>2. AttemptsTyped' /\ TurnsTyped' /\ ActiveTurn' /\ AboutLibrary'
  BY <1>1 DEF PageInv, PageTypeOK, AttemptsTyped, TurnsTyped, Turn, ActiveTurn, AboutLibrary
<1>3. ArchivesTyped' /\ ThisEpoch' /\ OfThePage' /\ ArchiveButtonReturns'
  BY <1>1
  DEF PageInv, PageTypeOK, ArchivesTyped, ThisEpoch, OfThePage, ArchiveButtonReturns
<1> QED  BY <1>2, <1>3 DEF PageInv, PageTypeOK

\* The last frame replaces the text, and gives the turn another id.
LEMMA DoneKeeps ==
    ASSUME PageInv, NEW a \in DOMAIN asked, Done(a)
    PROVE  PageInv'
<1>1. /\ activeAttempt = a /\ a # 0 /\ a \in Nat /\ asked[a].conv = shown
  BY SessionIs DEF Done
<1>2. /\ sessionId' = shown /\ activeAttempt' = 0
      /\ UNCHANGED <<library, requested, shown, threadId, asked, archives, archiving, resuming,
                     overlapped>>
  BY <1>1 DEF Done, NoActive
<1>3. ASSUME NEW u \in turns'
      PROVE  /\ u \in Turn(u.by) /\ u.pending = FALSE
             /\ u.id \in 1 .. Len(asked) \/ u.id > MaxQuestions
             /\ requested = Nowhere /\ u.by # 0 => asked[u.by].lib = library
  <2>1. PICK t \in turns :
           u = IF t.id = asked[a].turn
               THEN [t EXCEPT !.id = MaxQuestions + a, !.pending = FALSE, !.text = {a}]
               ELSE t
    BY DEF Done, Patch
  <2>2. /\ t \in Turn(t.by)
        /\ t.id \in 1 .. Len(asked) \/ t.id > MaxQuestions
        /\ t.pending => t.id = asked[a].turn
        /\ t.id = asked[a].turn => t.by = a
        /\ requested = Nowhere /\ t.by # 0 => asked[t.by].lib = library
    BY <1>1 DEF PageInv, PageTypeOK, TurnsTyped, ActiveTurn, AboutLibrary
  <2>3. CASE t.id = asked[a].turn
    <3>1. u = [t EXCEPT !.id = MaxQuestions + a, !.pending = FALSE, !.text = {a}]
      BY <2>1, <2>3
    <3>2. t.by = a /\ t \in Turn(a) /\ MaxQuestions + a \in Nat
      BY <1>1, <2>2, <2>3, ClientAssumption
    <3> DEFINE i == MaxQuestions + a
    <3>3. /\ u.id = i /\ u.pending = FALSE /\ u.by = t.by /\ u \in Turn(a)
      <4> HIDE DEF i
      <4> QED  BY <3>1, <3>2 DEF Turn, i
    <3> QED  BY <1>1, <2>2, <3>2, <3>3, ClientAssumption
  <2>4. CASE t.id # asked[a].turn
    <3>1. u = t /\ ~t.pending  BY <2>1, <2>2, <2>4
    <3> QED  BY <2>2, <3>1, NotPending
  <2> QED  BY <2>3, <2>4
<1>4. TurnsTyped'
  <2> SUFFICES ASSUME NEW t \in turns' PROVE (t \in Turn(t.by))'  BY DEF TurnsTyped
  <2> QED  BY <1>2, <1>3 DEF Turn
<1>5. AttemptsTyped'  BY <1>2 DEF PageInv, PageTypeOK, AttemptsTyped
<1>6. ActiveTurn'
  <2>1. \A u \in turns' : ~u.pending  BY <1>3
  <2> QED  BY <1>2, <1>3, <2>1 DEF ActiveTurn
<1>7. AboutLibrary'  BY <1>2, <1>3 DEF AboutLibrary
<1>8. ArchivesTyped' /\ ThisEpoch' /\ OfThePage' /\ ArchiveButtonReturns'
  BY <1>2
  DEF PageInv, PageTypeOK, ArchivesTyped, ThisEpoch, OfThePage, ArchiveButtonReturns
<1> QED  BY <1>4, <1>5, <1>6, <1>7, <1>8 DEF PageInv, PageTypeOK

LEMMA FramesKeep ==
    ASSUME PageInv, NEW a \in DOMAIN asked,
           Meta(a) \/ Token(a) \/ Done(a) \/ Settles(a)
    PROVE  PageInv'
<1>1. CASE Token(a)
  <2>1. activeAttempt = a /\ activeAttempt # 0  BY <1>1, SessionIs DEF Token
  <2>2. UNCHANGED pageKept /\ activeAttempt' = activeAttempt  BY <1>1 DEF Token, pageKept
  <2>3. CASE turns' = turns  BY <2>2, <2>3, NothingChanges
  <2>4. CASE turns' = AddToken(turns, a)  BY <2>1, <2>2, <2>4, TokenKeeps
  <2> QED  BY <1>1, <2>3, <2>4 DEF Token
<1>2. CASE Settles(a)
  <2>1. UNCHANGED pageKept  BY <1>2 DEF Settles, pageKept
  <2>2. CASE turns' = CancelledTurns /\ NoActive  BY <2>1, <2>2, GivenUp
  <2>3. CASE UNCHANGED <<turns, activeAttempt>>  BY <2>1, <2>3, NothingChanges
  <2> QED  BY <1>2, <2>2, <2>3 DEF Settles
<1> QED  BY <1>1, <1>2, MetaKeeps, DoneKeeps

\* Asking, in a new turn or again.
LEMMA AskKeeps ==
    ASSUME PageInv, Submit \/ Retry
    PROVE  PageInv'
<1>1. Quiet(CancelledTurns)  BY CancelledIs
<1>2. Len(asked) \in Nat  BY DEF PageInv, PageTypeOK, AttemptsTyped
<1>3. CASE Submit
  <2>1. BeginAttempt(Len(asked) + 1, CancelledTurns) /\ Len(asked) + 1 <= MaxQuestions
    BY <1>3 DEF Submit, BeginAttempt
  <2>2. \A u \in CancelledTurns : u.id # Len(asked) + 1
    <3> SUFFICES ASSUME NEW u \in CancelledTurns PROVE u.id # Len(asked) + 1  OBVIOUS
    <3>1. PICK t \in turns : u.id = t.id  BY <1>1 DEF Quiet
    <3>2. t.id \in 1 .. Len(asked) \/ t.id > MaxQuestions  BY DEF PageInv, ActiveTurn
    <3>3. t.id \in Nat  BY DEF PageInv, PageTypeOK, TurnsTyped, Turn
    <3> QED  BY <1>2, <2>1, <3>1, <3>2, <3>3, ClientAssumption
  <2>3. Len(asked) + 1 \in Nat /\ Len(asked) + 1 \in 1 .. Len(asked) + 1  BY <1>2
  <2> QED  BY <1>1, <2>1, <2>2, <2>3, BeginKeeps
<1>4. CASE Retry
  <2>1. PICK t \in turns : BeginAttempt(t.id, {u \in CancelledTurns : u.id # t.id})
    BY <1>4 DEF Retry
  <2> DEFINE rest == {u \in CancelledTurns : u.id # t.id}
  <2>2. Quiet(rest) /\ \A u \in rest : u.id # t.id  BY <1>1 DEF Quiet
  <2>3. t.id \in Nat /\ (t.id \in 1 .. Len(asked) + 1 \/ t.id > MaxQuestions)
    <3>1. t.id \in 1 .. Len(asked) \/ t.id > MaxQuestions  BY DEF PageInv, ActiveTurn
    <3>2. t.id \in Nat  BY DEF PageInv, PageTypeOK, TurnsTyped, Turn
    <3> QED  BY <1>2, <3>1, <3>2
  <2> HIDE DEF rest
  <2>4. BeginAttempt(t.id, rest)  BY <2>1 DEF rest
  <2> QED  BY <2>2, <2>3, <2>4, BeginKeeps
<1> QED  BY <1>3, <1>4

LEMMA StopKeeps ==
    ASSUME PageInv, Stop \/ Flush
    PROVE  PageInv'
<1>1. UNCHANGED pageKept  BY DEF Stop, Flush, pageKept
<1>2. CASE Stop  BY <1>1, <1>2, GivenUp DEF Stop
<1>3. CASE Flush  BY <1>1, <1>3, TokenKeeps DEF Flush
<1> QED  BY <1>2, <1>3

\* An archive request begins, and ends in its epoch or after it.
LEMMA ArchiveKeeps ==
    ASSUME PageInv, ArchiveThread
    PROVE  PageInv'
<1> DEFINE new == [conv |-> shown, lib |-> library, stale |-> FALSE]
<1>1. /\ archives' = archives \cup {new}
      /\ overlapped' = (overlapped \/ requested # Nowhere)
      /\ UNCHANGED <<library, requested, shown, sessionId, threadId, turns, asked, activeAttempt, resuming>>
  BY DEF ArchiveThread
<1>2. /\ new.conv = shown /\ new.stale = FALSE
      /\ new \in [conv : {new.conv}, lib : {new.lib}, stale : BOOLEAN]
  OBVIOUS
<1> HIDE DEF new
<1>3. AttemptsTyped' /\ TurnsTyped' /\ ActiveTurn' /\ AboutLibrary'
  BY <1>1 DEF PageInv, PageTypeOK, AttemptsTyped, TurnsTyped, Turn, ActiveTurn, AboutLibrary
<1>4. ArchivesTyped'  BY <1>1, <1>2 DEF PageInv, PageTypeOK, ArchivesTyped
<1>5. ASSUME ~overlapped' PROVE ~overlapped /\ requested = Nowhere  BY <1>1, <1>5
<1>6. ThisEpoch'
  <2>1. resuming' # Nowhere => requested' # Nowhere  BY <1>1 DEF PageInv, ThisEpoch
  <2>2. ASSUME ~overlapped', NEW x \in archives', ~x.stale
        PROVE  x.conv = shown /\ requested = Nowhere
    <3>1. CASE x = new  BY <1>2, <1>5, <2>2, <3>1
    <3>2. CASE x \in archives  BY <1>5, <2>2, <3>2 DEF PageInv, ThisEpoch
    <3> QED  BY <1>1, <3>1, <3>2
  <2> QED  BY <1>1, <2>1, <2>2 DEF ThisEpoch
<1>7. OfThePage'  BY <1>1, <1>5 DEF PageInv, OfThePage
<1>8. ArchiveButtonReturns'
  <2>1. new \in archives' /\ ~new.stale  BY <1>1, <1>2
  <2> QED  BY <2>1 DEF ArchiveButtonReturns
<1> QED  BY <1>3, <1>4, <1>6, <1>7, <1>8 DEF PageInv, PageTypeOK

LEMMA ArchiveReturnsKeeps ==
    ASSUME PageInv, NEW x \in archives, ArchiveReturns(x)
    PROVE  PageInv'
<1>1. /\ archives' = archives \ {x}
      /\ UNCHANGED <<library, requested, shown, turns, asked, activeAttempt, resuming, overlapped>>
  BY DEF ArchiveReturns
<1>2. AttemptsTyped' /\ TurnsTyped' /\ ActiveTurn' /\ AboutLibrary'
  BY <1>1 DEF PageInv, PageTypeOK, AttemptsTyped, TurnsTyped, Turn, ActiveTurn, AboutLibrary
<1>3. ArchivesTyped' /\ ThisEpoch'
  BY <1>1 DEF PageInv, PageTypeOK, ArchivesTyped, ThisEpoch
<1>4. CASE /\ ~x.stale /\ threadId' = x.conv /\ sessionId' = x.conv /\ archiving' = FALSE
  <2>1. OfThePage'  BY <1>1, <1>4 DEF PageInv, ThisEpoch, OfThePage
  <2>2. ArchiveButtonReturns'  BY <1>4 DEF ArchiveButtonReturns
  <2> QED  BY <1>2, <1>3, <2>1, <2>2 DEF PageInv, PageTypeOK
<1>5. CASE archiving' = (archiving /\ x.stale) /\ UNCHANGED <<threadId, sessionId>>
  <2>1. OfThePage'  BY <1>1, <1>5 DEF PageInv, OfThePage
  <2>2. ArchiveButtonReturns'
    <3> SUFFICES ASSUME archiving', requested' = Nowhere
                 PROVE  \E y \in archives' : ~y.stale
      BY DEF ArchiveButtonReturns
    <3>1. archiving /\ x.stale /\ requested = Nowhere  BY <1>1, <1>5
    <3>2. PICK y \in archives : ~y.stale  BY <3>1 DEF PageInv, ArchiveButtonReturns
    <3> QED  BY <1>1, <3>1, <3>2
  <2> QED  BY <1>2, <1>3, <2>1, <2>2 DEF PageInv, PageTypeOK
<1> QED  BY <1>4, <1>5 DEF ArchiveReturns

\* The user moves on, or the router does.
LEMMA MovesKeep ==
    ASSUME PageInv, ChooseLibrary \/ LibraryGone \/ LinkFollowed \/ RouterArrives
    PROVE  PageInv'
<1>1. CASE ChooseLibrary
  <2>1. /\ ResetConversation /\ asked' = asked /\ overlapped' = overlapped
        /\ resuming' = resuming /\ requested' = requested
    BY <1>1 DEF ChooseLibrary
  <2>2. resuming' # Nowhere => requested' # Nowhere  BY <2>1 DEF PageInv, ThisEpoch
  <2> QED  BY <2>1, <2>2, ResetKeeps
<1>2. CASE LibraryGone
  <2>1. PICK lib \in Libraries \ {library} :
           /\ library # Nowhere /\ ContextEffect(lib, requested) /\ Resumes(requested)
           /\ asked' = asked /\ overlapped' = overlapped
    BY <1>2 DEF LibraryGone
  <2> QED  BY <2>1, ContextKeeps
<1>3. ASSUME NEW req, Navigate(req) PROVE PageInv'
  <2>1. /\ requested # req /\ ContextEffect(library, req) /\ Resumes(req)
        /\ asked' = asked /\ overlapped' = overlapped
    BY <1>3 DEF Navigate
  <2> QED  BY <2>1, ContextKeeps
<1> QED  BY <1>1, <1>2, <1>3 DEF LinkFollowed, RouterArrives

\* A thread replaces what the page shows.
LEMMA ResumeKeeps ==
    ASSUME PageInv, ResumeReturns
    PROVE  PageInv'
<1>1. /\ resuming # Nowhere /\ requested # Nowhere /\ resuming' = Nowhere
      /\ UNCHANGED <<requested, asked, archiving, overlapped>>
  BY DEF ResumeReturns, PageInv, ThisEpoch
<1>2. ArchiveButtonReturns'  BY <1>1 DEF ArchiveButtonReturns
<1>3. CASE UNCHANGED <<shown, sessionId, threadId, library, turns, activeAttempt, archives>>
  <2>1. AttemptsTyped' /\ TurnsTyped' /\ ActiveTurn' /\ AboutLibrary'
    BY <1>1, <1>3
    DEF PageInv, PageTypeOK, AttemptsTyped, TurnsTyped, Turn, ActiveTurn, AboutLibrary
  <2>2. ArchivesTyped' /\ ThisEpoch' /\ OfThePage'
    BY <1>1, <1>3 DEF PageInv, PageTypeOK, ArchivesTyped, ThisEpoch, OfThePage
  <2> QED  BY <1>2, <2>1, <2>2 DEF PageInv, PageTypeOK
<1>4. CASE /\ shown' = resuming /\ sessionId' = resuming /\ threadId' = resuming
           /\ turns' = {[id |-> 2 * MaxQuestions + 1, by |-> 0, conv |-> resuming,
                         pending |-> FALSE, text |-> {}]}
           /\ NoActive
           /\ archives' = archives \/ NextEpoch
  <2> DEFINE i == 2 * MaxQuestions + 1
             new == [id |-> i, by |-> 0, conv |-> resuming, pending |-> FALSE, text |-> {}]
  <2>1. i \in Nat /\ i > MaxQuestions /\ Len(asked) \in Nat
    BY ClientAssumption DEF PageInv, PageTypeOK, AttemptsTyped
  <2>2. turns' = {new} /\ activeAttempt' = 0  BY <1>4 DEF NoActive
  <2> HIDE DEF i
  <2>3. /\ new \in [id : Nat, by : 0 .. Len(asked), conv : {resuming}, pending : BOOLEAN,
                    text : SUBSET {new.by}]
        /\ new.id = i /\ new.by = 0 /\ ~new.pending
    BY <2>1
  <2> HIDE DEF new
  <2>4. AttemptsTyped'  BY <1>1, <2>2 DEF PageInv, PageTypeOK, AttemptsTyped
  <2>5. TurnsTyped'  BY <1>1, <1>4, <2>2, <2>3 DEF TurnsTyped, Turn
  <2>6. ActiveTurn' /\ AboutLibrary'  BY <2>1, <2>2, <2>3 DEF ActiveTurn, AboutLibrary
  <2>7. ArchivesTyped' /\ ThisEpoch'
    <3>1. ArchivesTyped' /\ (~overlapped => \A x \in archives' : x.stale)
      <4>1. CASE archives' = archives
        BY <1>1, <4>1 DEF PageInv, PageTypeOK, ArchivesTyped, ThisEpoch
      <4>2. CASE NextEpoch  BY <4>2, EpochEnds
      <4> QED  BY <1>4, <4>1, <4>2
    <3> QED  BY <1>1, <3>1 DEF ThisEpoch
  <2>8. OfThePage'  BY <1>4 DEF OfThePage
  <2> QED  BY <1>2, <2>4, <2>5, <2>6, <2>7, <2>8 DEF PageInv, PageTypeOK
<1> QED  BY <1>3, <1>4 DEF ResumeReturns

LEMMA ClientInitInv == ClientInit => PageInv
<1> SUFFICES ASSUME ClientInit PROVE PageInv  OBVIOUS
<1>1. asked = <<>> /\ activeAttempt = 0 /\ turns = {} /\ archives = {}
  BY DEF ClientInit
<1>2. AttemptsTyped /\ TurnsTyped /\ ArchivesTyped
  BY <1>1, ClientAssumption DEF AttemptsTyped, TurnsTyped, ArchivesTyped
<1>3. ActiveTurn /\ AboutLibrary /\ ThisEpoch /\ OfThePage /\ ArchiveButtonReturns
  BY DEF ClientInit, ActiveTurn, AboutLibrary, ThisEpoch, OfThePage, ArchiveButtonReturns
<1> QED  BY <1>2, <1>3 DEF PageInv, PageTypeOK

LEMMA ClientNextInv == PageInv /\ [ClientNext]_clientVars => PageInv'
<1> SUFFICES ASSUME PageInv, [ClientNext]_clientVars PROVE PageInv'
  OBVIOUS
<1>1. CASE UNCHANGED clientVars
  <2>1. UNCHANGED <<pageKept, turns, activeAttempt>>  BY <1>1 DEF clientVars, pageKept
  <2> QED  BY <2>1, NothingChanges
<1>2. CASE ClientNext
  BY <1>2, AskKeeps, StopKeeps, FramesKeep, ArchiveKeeps, ArchiveReturnsKeeps, MovesKeep,
     ResumeKeeps
  DEF ClientNext
<1> QED  BY <1>1, <1>2

LEMMA PageInvariant == ClientSpec => []PageInv
<1>1. ClientInit => PageInv  BY ClientInitInv
<1>2. PageInv /\ [ClientNext]_clientVars => PageInv'  BY ClientNextInv
<1> QED  BY <1>1, <1>2, PTL DEF ClientSpec

\* For any number of questions, retries and conversations, any libraries and
\* threads: text reaches only the turn whose attempt it is of, and a turn
\* streams exactly as long as its attempt is the active one.
THEOREM TurnsFollow == ClientSpec => []TurnsFollowAttempts
<1>1. PageInv => TurnsFollowAttempts
  <2> SUFFICES ASSUME PageInv PROVE TurnsFollowAttempts  OBVIOUS
  <2>1. TextFromItsAttempt
    BY DEF TextFromItsAttempt, PageInv, PageTypeOK, TurnsTyped, Turn
  <2>2. PendingHasAttempt  BY DEF PendingHasAttempt, PageInv, ActiveTurn
  <2> QED  BY <2>1, <2>2 DEF TurnsFollowAttempts
<1> QED  BY <1>1, PageInvariant, PTL

\* Likewise: session, thread and turns are of the conversation that the page
\* shows, outside a thread they are about the library that is selected, and
\* the archive button is not left busy.
THEOREM ConversationStays == ClientSpec => []ConversationKept
<1>1. PageInv => ConversationKept
  <2> SUFFICES ASSUME PageInv PROVE ConversationKept  OBVIOUS
  <2>1. OneConversation
    <3>1. ~overlapped => sessionId \in {Nowhere, shown} /\ threadId \in {Nowhere, shown}
      BY DEF PageInv, OfThePage
    <3>2. ASSUME NEW t \in turns
          PROVE  /\ t.conv = shown
                 /\ requested = Nowhere /\ t.by # 0 => asked[t.by].lib = library
      BY DEF PageInv, PageTypeOK, TurnsTyped, Turn, AboutLibrary
    <3> QED  BY <3>1, <3>2 DEF OneConversation
  <2> QED  BY <2>1 DEF ConversationKept, PageInv
<1> QED  BY <1>1, PageInvariant, PTL
=============================================================================
