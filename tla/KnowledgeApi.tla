----------------------------- MODULE KnowledgeApi -----------------------------
(***************************************************************************)
(* The two ways into the data plane: the Knowledge API, whose callers hold *)
(* a service key, and the proxy of the signed-in user                      *)
(* (src/src/lib/server/integration-rag.ts, public-api-v1-core.mjs,         *)
(* service-keys.ts, rag-proxy.ts, ask-overrides-inject.mjs).               *)
(*                                                                         *)
(* A request moves from one await to the next; in between, its key may be  *)
(* revoked, its library go, its time run out or its caller leave.  What    *)
(* the ask and the retrieval do is AskRequest's and Retrieval's: here they *)
(* answer with a status.  Bodies are what the gateway finds out of them.   *)
(***************************************************************************)
EXTENDS Naturals, FiniteSets

CONSTANTS
    ApiCalls,       \* the requests that may arrive
    PerMinute,      \* requests a key may make in a window
    NativeStatuses  \* the statuses the native handlers answer errors with

ASSUME ApiAssumption == PerMinute \in Nat /\ NativeStatuses \subseteq Nat

VARIABLES
    keyRevoked,     \* workspace_service_keys.revoked_at of the key
    keyAudits,      \* audit rows that say so
    libraryThere,   \* the library the requests name is in the workspace
    minute,         \* requests counted in the window of the key
    through,        \* history variable: those it let through
    api             \* each request

apiVars == <<keyRevoked, keyAudits, libraryThere, minute, through, api>>

Fresh == [target |-> "none", at |-> "idle", status |-> 0, code |-> "none",
          overrides |-> "none", limited |-> TRUE, timedOut |-> FALSE,
          metrics |-> 0, audit |-> "none"]

ApiInit ==
    /\ keyRevoked = FALSE /\ keyAudits = 0 /\ libraryThere = TRUE
    /\ minute = 0 /\ through = 0
    /\ api = [r \in ApiCalls |-> Fresh]

IsNow(r, at) == api[r].at = at
OnApi(r) == api[r].target \in {"ask", "retrieve"}
CallBecomes(r, call) == api' = [api EXCEPT ![r] = call]
Advance(r, at) == CallBecomes(r, [api[r] EXCEPT !.at = at])

\* publicErrorPayload: the codes a caller may try again after.
WorthRetrying ==
    {"authentication_backend_unavailable", "service_unavailable", "rate_limit_exceeded",
     "policy_unavailable", "upstream_timeout", "upstream_unavailable", "invalid_upstream_response"}

\* normalizeUpstreamError, by the status of the data plane.
Normalized(status) ==
    CASE status \in {400, 422} -> <<400, "invalid_request">>
      [] status = 401 -> <<401, "authentication_failed">>
      [] status \in {403, 404} -> <<403, "library_access_denied">>
      [] status = 413 -> <<413, "payload_too_large">>
      [] status = 415 -> <<415, "unsupported_media_type">>
      [] status = 429 -> <<429, "rate_limit_exceeded">>
      [] status = 503 -> <<503, "service_unavailable">>
      [] status = 504 -> <<504, "upstream_timeout">>
      [] OTHER -> <<502, "upstream_unavailable">>

-----------------------------------------------------------------------------
(***************************************************************************)
(* Answers.  One given before the limit leaves no trace; every later one   *)
(* is counted and, if its library is known, written to the audit log by a  *)
(* call nobody waits for.                                                  *)
(***************************************************************************)
AnswerEarly(r, answer) ==
    CallBecomes(r, [api[r] EXCEPT !.at = "answered", !.status = answer[1], !.code = answer[2]])

Finish(r, answer, audit) ==
    CallBecomes(r, [api[r] EXCEPT !.metrics = @ + 1, !.audit = audit,
                                  !.at = "answered", !.status = answer[1], !.code = answer[2]])

\* recordPublicApiAudit; one that fails is never written, and nobody knows.
AuditWritten(r) ==
    /\ api[r].audit = "sent"
    /\ CallBecomes(r, [api[r] EXCEPT !.audit = "written"])
    /\ UNCHANGED <<keyRevoked, keyAudits, libraryThere, minute, through>>

-----------------------------------------------------------------------------
Arrive(r, target) ==
    /\ IsNow(r, "idle")
    /\ \E o \in {"none", "client"} :
          CallBecomes(r, [api[r] EXCEPT !.at = IF target = "proxy" THEN "session" ELSE "key",
                                        !.target = target, !.overrides = o])
    /\ UNCHANGED <<keyRevoked, keyAudits, libraryThere, minute, through>>

\* authenticateServiceKey finds a key that is not revoked.
KeyFound == ~keyRevoked

\* requireIntegrationServiceKey: no key, an unknown or revoked one, one without
\* the scope, or no answer of the database.
CheckKey(r) ==
    /\ IsNow(r, "key")
    /\ \/ AnswerEarly(r, <<401, "authentication_required">>)
       \/ AnswerEarly(r, <<503, "authentication_backend_unavailable">>)
       \/ ~KeyFound /\ AnswerEarly(r, <<401, "authentication_failed">>)
       \/ KeyFound /\ AnswerEarly(r, <<403, "insufficient_scope">>)
       \/ KeyFound /\ Advance(r, "limit")
    /\ UNCHANGED <<keyRevoked, keyAudits, libraryThere, minute, through>>

\* checkPublicApiRateLimit; counts past the limit are not told apart.
CheckLimit(r) ==
    /\ IsNow(r, "limit")
    /\ \/ AnswerEarly(r, <<503, "service_unavailable">>) /\ UNCHANGED <<minute, through>>
       \/ /\ minute' = IF minute > PerMinute THEN minute ELSE minute + 1
          /\ IF minute' > PerMinute
             THEN AnswerEarly(r, <<429, "rate_limit_exceeded">>) /\ UNCHANGED through
             ELSE /\ CallBecomes(r, [api[r] EXCEPT !.at = "body", !.limited = FALSE])
                  /\ through' = through + 1
    /\ UNCHANGED <<keyRevoked, keyAudits, libraryThere>>

MinuteEnds ==
    /\ minute > 0 /\ minute' = 0 /\ through' = 0
    /\ UNCHANGED <<keyRevoked, keyAudits, libraryThere, api>>

\* readBodyWithLimit reads chunk by chunk: too many, or a caller that leaves
\* while it sends.
BodyRefused(r) ==
    \/ Finish(r, <<413, "payload_too_large">>, "none")
    \/ Finish(r, <<400, "invalid_request">>, "none")

\* normalizePublicApiRequest knows no field for overrides; the library of a bad
\* request may be known.
RequestRefused(r) ==
    \E audit \in {"none", "sent"} : Finish(r, <<400, "invalid_request">>, audit)

ReadBody(r) ==
    /\ IsNow(r, "body")
    /\ \/ Finish(r, <<415, "unsupported_media_type">>, "none")
       \/ BodyRefused(r) \/ RequestRefused(r)
       \/ api[r].overrides = "none" /\ Advance(r, "library")
    /\ UNCHANGED <<keyRevoked, keyAudits, libraryThere, minute, through>>

\* serviceKeyAllowsLibrary looks at the key's own list only.
CheckKeyLibrary(r) ==
    /\ IsNow(r, "library") /\ OnApi(r)
    /\ \/ Finish(r, <<403, "library_access_denied">>, "sent")
       \/ Advance(r, IF api[r].target = "ask" THEN "policy" ELSE "running")
    /\ UNCHANGED <<keyRevoked, keyAudits, libraryThere, minute, through>>

\* injectAskOverrides: the caller's go even if the workspace's cannot be loaded.
InjectOverrides(r) ==
    /\ IsNow(r, "policy")
    /\ \/ CallBecomes(r, [api[r] EXCEPT !.overrides = "server", !.at = "running"])
       \/ IF OnApi(r) THEN Finish(r, <<503, "policy_unavailable">>, "sent")
          ELSE \E status \in {400, 503} : AnswerEarly(r, <<status, "none">>)
    /\ UNCHANGED <<keyRevoked, keyAudits, libraryThere, minute, through>>

-----------------------------------------------------------------------------
(***************************************************************************)
(* The data plane at work.  An ask asks for the identity again before it   *)
(* answers, and a library that has gone is not found.                      *)
(***************************************************************************)
RefreshIdentity(r) ==
    /\ IsNow(r, "running") /\ api[r].target = "ask"
    /\ Advance(r, IF KeyFound THEN "checked" ELSE "denied")
    /\ UNCHANGED <<keyRevoked, keyAudits, libraryThere, minute, through>>

\* A status that says the library is not there is passed on (a mutant).
MutantAnswerOf(r, status) ==
    IF status = 404 THEN <<404, "not_found">> ELSE Normalized(status)

\* What a caller is told of an error; 0 stands for a call that threw.
AnswerOf(r, status) ==
    IF api[r].timedOut THEN <<504, "upstream_timeout">>
    ELSE IF status = 0 THEN Normalized(503)
    ELSE Normalized(status)

\* The native call fails, or its body is not what the contract of the API says:
\* an ask answers with a body in any case, a retrieval only when it succeeds.
NativeFails(r) ==
    /\ OnApi(r) /\ api[r].at \in {"running", "checked", "denied"}
    /\ \/ \E status \in NativeStatuses \cup {0} : Finish(r, AnswerOf(r, status), "sent")
       \/ Finish(r, <<502, "invalid_upstream_response">>, "sent")
    /\ UNCHANGED <<keyRevoked, keyAudits, libraryThere, minute, through>>

\* A late answer is an answer, if it is a good one.
NativeAnswers(r) ==
    /\ \/ api[r].target = "ask" /\ IsNow(r, "checked")
       \/ api[r].target = "retrieve" /\ IsNow(r, "running") /\ libraryThere
    /\ Finish(r, <<200, "none">>, "sent")
    /\ UNCHANGED <<keyRevoked, keyAudits, libraryThere, minute, through>>

-----------------------------------------------------------------------------
(***************************************************************************)
(* The proxy: the session, the permission to write, the library, the       *)
(* overrides of an ask, and the native handler, which counts by itself.    *)
(***************************************************************************)
CheckSession(r) ==
    /\ IsNow(r, "session")
    /\ \/ \E status \in {400, 401, 403, 404} : AnswerEarly(r, <<status, "none">>)
       \/ Advance(r, "library")
    /\ UNCHANGED <<keyRevoked, keyAudits, libraryThere, minute, through>>

FindLibrary(r) ==
    /\ IsNow(r, "library") /\ ~OnApi(r)
    /\ IF libraryThere THEN Advance(r, "policy") ELSE AnswerEarly(r, <<404, "none">>)
    /\ UNCHANGED <<keyRevoked, keyAudits, libraryThere, minute, through>>

ProxyEnds(r) ==
    /\ IsNow(r, "running") /\ ~OnApi(r)
    /\ \E status \in NativeStatuses \cup {200} :
          CallBecomes(r, [api[r] EXCEPT !.at = "answered", !.status = status, !.metrics = @ + 1])
    /\ UNCHANGED <<keyRevoked, keyAudits, libraryThere, minute, through>>

-----------------------------------------------------------------------------
\* revokeWorkspaceServiceKey: the mark and its audit row, once.
RevokeKey ==
    /\ ~keyRevoked
    /\ keyRevoked' = TRUE /\ keyAudits' = keyAudits + 1
    /\ UNCHANGED <<libraryThere, minute, through, api>>

LibraryGoes ==
    /\ libraryThere /\ libraryThere' = FALSE
    /\ UNCHANGED <<keyRevoked, keyAudits, minute, through, api>>

\* AbortSignal.timeout while the data plane is at work.
TimeRunsOut(r) ==
    /\ OnApi(r) /\ api[r].at \in {"running", "checked", "denied"}
    /\ ~api[r].timedOut
    /\ CallBecomes(r, [api[r] EXCEPT !.timedOut = TRUE])
    /\ UNCHANGED <<keyRevoked, keyAudits, libraryThere, minute, through>>

ApiNext ==
    \/ \E r \in ApiCalls :
          \/ \E target \in {"ask", "retrieve", "proxy"} : Arrive(r, target)
          \/ CheckKey(r) \/ CheckLimit(r) \/ ReadBody(r) \/ CheckKeyLibrary(r) \/ InjectOverrides(r)
          \/ RefreshIdentity(r) \/ NativeFails(r) \/ NativeAnswers(r) \/ AuditWritten(r)
          \/ CheckSession(r) \/ FindLibrary(r) \/ ProxyEnds(r)
          \/ TimeRunsOut(r)
    \/ MinuteEnds \/ RevokeKey \/ LibraryGoes

ApiSpec == ApiInit /\ [][ApiNext]_apiVars

-----------------------------------------------------------------------------
ApiTypeOK ==
    /\ keyRevoked \in BOOLEAN /\ libraryThere \in BOOLEAN
    /\ minute \in 0..PerMinute + 1
    /\ \A r \in ApiCalls : api[r].audit \in {"none", "sent", "written"}

HasAnswer(r) == IsNow(r, "answered")

\* A request is counted once, whichever of its ways out it takes: by the gateway
\* past the limit, by the handler behind the proxy, and not at all before
\* (finishObservability; the ask is told not to count for the gateway).
CountedOnce ==
    \A r \in ApiCalls :
        /\ api[r].metrics = (IF /\ HasAnswer(r)
                               /\ IF OnApi(r) THEN ~api[r].limited ELSE api[r].overrides = "server"
                            THEN 1 ELSE 0)
        /\ api[r].audit # "none" => HasAnswer(r) /\ OnApi(r)

\* What the data plane works under is the workspace's policy, never the
\* caller's overrides (injectAskOverrides, normalizePublicApiRequest).
PolicyIsTheWorkspaces ==
    \A r \in ApiCalls :
        api[r].at \in {"running", "checked", "denied"} =>
            api[r].overrides = (IF api[r].target = "retrieve" THEN "none" ELSE "server")

\* A library that is not there is denied like one that is not allowed, and a
\* caller is told to try again just where that can help (normalizeUpstreamError).
AnswersAreUniform ==
    \A r \in ApiCalls : (HasAnswer(r) /\ OnApi(r)) =>
        /\ api[r].status # 404
        /\ (api[r].code \in WorthRetrying) <=> (api[r].status \in {429, 502, 503, 504})

\* A window lets no more than its number through, and a revocation is audited once.
LimitsAndKeys ==
    /\ through <= PerMinute
    /\ keyAudits = (IF keyRevoked THEN 1 ELSE 0)

\* The gateway's promises to its callers and to the operators.
ApiHolds == ApiTypeOK /\ CountedOnce /\ PolicyIsTheWorkspaces /\ AnswersAreUniform /\ LimitsAndKeys
=============================================================================
