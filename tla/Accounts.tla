------------------------------ MODULE Accounts ------------------------------
(***************************************************************************)
(* The account of one user: its password, its sessions, its membership of  *)
(* a workspace and the invites that lead to it, under requests that        *)
(* overlap (src/src/lib/server/auth, src/src/lib/server/invites.ts,        *)
(* workspaces.ts and the routes under src/src/app/api/auth, workspace and  *)
(* workspaces).                                                            *)
(*                                                                         *)
(* A statement, a transaction and a Redis script are a step each, as is    *)
(* the hashing of a password.  A hash is named by its salt, a credential   *)
(* version (password_changed_at) by the tick of the clock it was taken at. *)
(* The caller of an administrative request is the owner; cookies, JSON and *)
(* the wording of refusals are left out.                                   *)
(***************************************************************************)
EXTENDS Naturals, FiniteSets

CONSTANTS
    Calls,          \* the requests that may arrive
    Passwords,
    MaxFailed,      \* failed logins that lock the account (5 in the code)
    PerAccount,     \* logins of a window (AUTH_LOGIN_RATE_LIMIT_PER_ACCOUNT)
    MaxInvites      \* bound: invites of the user's address

ASSUME AccountAssumption == MaxFailed \in Nat /\ PerAccount \in Nat /\ MaxInvites \in Nat

VARIABLES
    credential,     \* local_credentials: password, salt and version
    failed, locked, \* its failed_attempts, and locked_until in the future
    window,         \* logins counted in the current window of the limit
    admitted,       \* history variable: those it let through
    sessions,       \* sid -> what the session was signed with
    live, index,    \* Redis: session keys, and the members of the index
    role,           \* workspace_members, "none" without a row
    invites,        \* statuses of the invites
    joins,          \* history variable: memberships made by an invite
    space,          \* the name of the workspace made under one request id
    calls,
    tick

accountVars == <<credential, failed, locked, window, admitted, sessions, live, index,
                 role, invites, joins, space, calls, tick>>

People == {"owner", "user"}
NoCall == [does |-> "nothing", at |-> "idle", saw |-> 0]
Names == {"x", "y"}     \* of new workspaces
OldSid == "old"         \* the session at the beginning

AccountInit ==
    /\ \E p \in Passwords : credential = [password |-> p, salt |-> 0, version |-> 0]
    /\ failed \in 0..MaxFailed /\ locked = (failed = MaxFailed)
    /\ window = 0 /\ admitted = 0
    /\ sessions = [s \in {OldSid} |-> [salt |-> 0, version |-> 0]]
    /\ live = {OldSid} /\ index = {OldSid}
    /\ role \in {[owner |-> "owner", user |-> r] : r \in {"none", "viewer"}}
    /\ invites = [i \in 1..MaxInvites |->
                     IF i = 1 /\ role["user"] = "none" THEN "pending" ELSE "none"]
    /\ joins = 0
    /\ space = "none"
    /\ calls = [c \in Calls |-> NoCall]
    /\ tick = 0

IsAt(c, does, at) == calls[c].does = does /\ calls[c].at = at
GoesTo(c, at) == calls' = [calls EXCEPT ![c].at = at]
GoesWith(c, at, saw) == calls' = [calls EXCEPT ![c] = [does |-> @.does, at |-> at, saw |-> saw]]
Begins(c, does, at, saw) ==
    calls[c].at = "idle" /\ calls' = [calls EXCEPT ![c] = [does |-> does, at |-> at, saw |-> saw]]

loginVars == <<failed, locked, window, admitted>>
redisVars == <<sessions, live, index>>
memberVars == <<role, invites, joins>>

\* hydrateIdentity finds an active member of the workspace.
Hydrates == role["user"] # "none"

\* A cookie resolves: its key is there, and its version is the credential's.
Resolves(sid) ==
    /\ sid \in live /\ Hydrates
    /\ sessions[sid].version = credential.version

-----------------------------------------------------------------------------
(***************************************************************************)
(* A login: the limit, the row, the password and its consequences.         *)
(***************************************************************************)
\* consumeFixedWindow counts in one script, and lets the first ones through;
\* the limit of the address is asked at the same time, and may refuse too.
\* Counts past the limit are not told apart.
AskForLogin(c, p) ==
    /\ window' = IF window > PerAccount THEN window ELSE window + 1
    /\ \/ /\ window' <= PerAccount
          /\ Begins(c, "login", "admitted", p) /\ admitted' = admitted + 1
       \/ Begins(c, "login", "refused", p) /\ UNCHANGED admitted
    /\ UNCHANGED <<credential, failed, locked, redisVars, memberVars, space, tick>>

WindowEnds ==
    /\ window > 0 /\ window' = 0 /\ admitted' = 0
    /\ UNCHANGED <<credential, failed, locked, redisVars, memberVars, space, calls, tick>>

\* The row of a user that is no member, or is locked, is not found.
ReadForLogin(c) ==
    /\ IsAt(c, "login", "admitted")
    /\ IF Hydrates /\ ~locked
       THEN GoesTo(c, IF calls[c].saw = credential.password THEN "right" ELSE "wrong")
       ELSE GoesTo(c, "refused")
    /\ UNCHANGED <<credential, loginVars, redisVars, memberVars, space, tick>>

\* Failures past the limit are not told apart, nor is a lock prolonged.
WrongPassword(c) ==
    /\ IsAt(c, "login", "wrong")
    /\ GoesTo(c, "refused")
    /\ IF locked THEN UNCHANGED <<failed, locked>>
       ELSE failed' = (IF failed < MaxFailed THEN failed + 1 ELSE failed)
            /\ locked' = (failed + 1 >= MaxFailed)
    /\ UNCHANGED <<credential, window, admitted, redisVars, memberVars, space, tick>>

RightPassword(c) ==
    /\ IsAt(c, "login", "right")
    /\ failed' = 0 /\ locked' = FALSE
    /\ GoesTo(c, "known")
    /\ UNCHANGED <<credential, window, admitted, redisVars, memberVars, space, tick>>

LockEnds ==
    /\ locked /\ locked' = FALSE
    /\ UNCHANGED <<credential, failed, window, admitted, redisVars, memberVars, space, calls, tick>>

\* The limit of the account starts anew after its session is issued.
ResetLimit(c) ==
    /\ IsAt(c, "login", "issued")
    /\ GoesTo(c, "done")
    /\ window' = 0 /\ admitted' = 0
    /\ UNCHANGED <<credential, failed, locked, redisVars, memberVars, space, tick>>

-----------------------------------------------------------------------------
(***************************************************************************)
(* Sessions: sessionFor reads the credential's version and signs, and one  *)
(* script registers, rotates or replaces.                                  *)
(***************************************************************************)
Hydrate(c) ==
    /\ calls[c].at = "known"
    /\ GoesTo(c, IF Hydrates THEN "hydrated" ELSE "refused")
    /\ UNCHANGED <<credential, loginVars, redisVars, memberVars, space, tick>>

SignSession(c) ==
    /\ calls[c].at = "hydrated"
    /\ GoesTo(c, "signed")
    /\ sessions' = [s \in DOMAIN sessions \cup {c} |->
          IF s = c THEN [salt |-> credential.salt, version |-> credential.version]
          ELSE sessions[s]]
    /\ UNCHANGED <<credential, loginVars, live, index, memberVars, space, tick>>

\* Keys the script of this request removes; members of the index that have run
\* out go with every script.
Replaced(c) ==
    CASE calls[c].does \in {"login", "accept"} -> {}
      [] calls[c].does = "switch" -> {OldSid}
      [] calls[c].does = "change" -> index

IssueSession(c) ==
    /\ calls[c].at = "signed"
    /\ \/ /\ live' = (live \ Replaced(c)) \cup {c}
          /\ index' = ((index \cap live) \ Replaced(c)) \cup {c}
          /\ GoesTo(c, IF calls[c].does = "login" THEN "issued" ELSE "done")
       \/ GoesTo(c, "unavailable") /\ UNCHANGED <<live, index>>
    /\ UNCHANGED <<credential, loginVars, sessions, memberVars, space, tick>>

\* Switch to another workspace: a session that resolves is rotated.
SwitchWorkspace(c) ==
    /\ Resolves(OldSid)
    /\ Begins(c, "switch", "hydrated", 0)
    /\ UNCHANGED <<credential, loginVars, redisVars, memberVars, space, tick>>

SessionExpires(sid) ==
    /\ sid \in live /\ live' = live \ {sid}
    /\ UNCHANGED <<credential, loginVars, sessions, index, memberVars, space, calls, tick>>

Logout(c) ==
    /\ Begins(c, "logout", "done", 0)
    /\ live' = live \ {OldSid} /\ index' = index \ {OldSid}
    /\ UNCHANGED <<credential, loginVars, sessions, memberVars, space, tick>>

-----------------------------------------------------------------------------
(***************************************************************************)
(* A change of the password: the row, the verification, the clock, and an  *)
(* update that wants the hash it verified.                                 *)
(***************************************************************************)
AskForChange(c, p) ==
    /\ Resolves(OldSid)
    /\ Begins(c, "change", IF p = credential.password THEN "verified" ELSE "refused",
              credential.salt)
    /\ UNCHANGED <<credential, loginVars, redisVars, memberVars, space, tick>>

\* The clock is read, then the new password is hashed.
ReadClock(c) ==
    /\ IsAt(c, "change", "verified")
    /\ tick' = tick + 1
    /\ GoesWith(c, "hashed", [verified |-> calls[c].saw, now |-> tick'])
    /\ UNCHANGED <<credential, loginVars, redisVars, memberVars, space>>

\* The row of the user, whatever its hash is by now (a mutant).
MutantStillVerified(c) == TRUE

StillVerified(c) == credential.salt = calls[c].saw.verified

ChangePassword(c) ==
    /\ IsAt(c, "change", "hashed")
    /\ IF StillVerified(c)
       THEN /\ \E q \in Passwords \ {credential.password} :
                  credential' = [password |-> q, salt |-> calls[c].saw.now,
                                 version |-> calls[c].saw.now]
            /\ failed' = 0 /\ locked' = FALSE
            /\ GoesWith(c, "known", [verified |-> calls[c].saw.verified,
                                     replaced |-> credential.salt])
       ELSE GoesTo(c, "refused") /\ UNCHANGED <<credential, failed, locked>>
    /\ UNCHANGED <<window, admitted, redisVars, memberVars, space, tick>>

-----------------------------------------------------------------------------
(***************************************************************************)
(* Invites.  Creating one looks at the members, revokes what is pending    *)
(* and inserts, in three statements; accepting one reads it before its     *)
(* transaction; revoking one and removing a member read first.             *)
(***************************************************************************)
CreateInvite(c) ==
    /\ Begins(c, "invite", IF Hydrates THEN "refused" ELSE "checked", 0)
    /\ UNCHANGED <<credential, loginVars, redisVars, memberVars, space, tick>>

RevokedPending == [i \in DOMAIN invites |-> IF invites[i] = "pending" THEN "revoked" ELSE invites[i]]

RevokePending(c) ==
    /\ IsAt(c, "invite", "checked")
    /\ GoesTo(c, "inserting")
    /\ invites' = RevokedPending
    /\ UNCHANGED <<credential, loginVars, redisVars, role, joins, space, tick>>

InsertInvite(c) ==
    /\ IsAt(c, "invite", "inserting")
    /\ \E i \in DOMAIN invites :
          /\ invites[i] = "none" /\ \A j \in 1..i-1 : invites[j] # "none"
          /\ invites' = [invites EXCEPT ![i] = "pending"]
    /\ GoesTo(c, "done")
    /\ UNCHANGED <<credential, loginVars, redisVars, role, joins, space, tick>>

RevokeInvite(c, i) ==
    /\ invites[i] = "pending"
    /\ Begins(c, "revoke", "read", i)
    /\ UNCHANGED <<credential, loginVars, redisVars, memberVars, space, tick>>

WriteRevoked(c) ==
    /\ IsAt(c, "revoke", "read")
    /\ GoesTo(c, "done")
    /\ invites' = [invites EXCEPT ![calls[c].saw] = "revoked"]
    /\ UNCHANGED <<credential, loginVars, redisVars, role, joins, space, tick>>

ReadInvite(c, i) ==
    /\ invites[i] = "pending"
    /\ tick' = tick + 1
    /\ Begins(c, "accept", "read", [invite |-> i, now |-> tick'])
    /\ UNCHANGED <<credential, loginVars, redisVars, memberVars, space>>

\* An invite that has run out is marked, whatever has become of it.
InviteExpired(c, i) ==
    /\ invites[i] = "pending"
    /\ Begins(c, "accept", "refused", i)
    /\ invites' = [invites EXCEPT ![i] = "expired"]
    /\ UNCHANGED <<credential, loginVars, redisVars, role, joins, space, tick>>

\* The transaction sets the password in any case; a member stays as it is.
AcceptInvite(c, p) ==
    /\ IsAt(c, "accept", "read")
    /\ credential' = [password |-> p, salt |-> calls[c].saw.now, version |-> calls[c].saw.now]
    /\ failed' = 0 /\ locked' = FALSE
    /\ IF Hydrates
       THEN GoesTo(c, "refused") /\ UNCHANGED memberVars
       ELSE /\ role' = [role EXCEPT !["user"] = "viewer"]
            /\ invites' = [invites EXCEPT ![calls[c].saw.invite] = "accepted"]
            /\ joins' = joins + 1
            /\ GoesTo(c, "known")
    /\ UNCHANGED <<window, admitted, redisVars, space, tick>>

-----------------------------------------------------------------------------
(***************************************************************************)
(* Members: a role is changed and a member removed after one statement has *)
(* looked at the role; nobody becomes owner but by creating a workspace.   *)
(***************************************************************************)
MayManage(who) == role[who] \notin {"none", "owner"}

ManageMember(c, does, who) ==
    /\ MayManage(who)
    /\ Begins(c, does, "read", who)
    /\ UNCHANGED <<credential, loginVars, redisVars, memberVars, space, tick>>

ChangeRole(c, r) ==
    /\ IsAt(c, "role", "read")
    /\ GoesTo(c, "done")
    /\ role' = IF role[calls[c].saw] = "none" THEN role ELSE [role EXCEPT ![calls[c].saw] = r]
    /\ UNCHANGED <<credential, loginVars, redisVars, invites, joins, space, tick>>

RemoveMember(c) ==
    /\ IsAt(c, "remove", "read")
    /\ GoesTo(c, "done")
    /\ role' = [role EXCEPT ![calls[c].saw] = "none"]
    /\ invites' = RevokedPending
    /\ UNCHANGED <<credential, loginVars, redisVars, joins, space, tick>>

(***************************************************************************)
(* A new workspace under the caller's request id: the transaction inserts  *)
(* it with its owner and settings, or finds the id taken, and looks.       *)
(***************************************************************************)
CreateWorkspace(c, name) ==
    /\ IF space = "none"
       THEN space' = name /\ Begins(c, "create", "made", name)
       ELSE UNCHANGED space /\ Begins(c, "create", "taken", name)
    /\ UNCHANGED <<credential, loginVars, redisVars, memberVars, tick>>

LookAtWorkspace(c) ==
    /\ IsAt(c, "create", "taken")
    /\ GoesTo(c, IF space = calls[c].saw THEN "same" ELSE "refused")
    /\ UNCHANGED <<credential, loginVars, redisVars, memberVars, space, tick>>

AccountNext ==
    \/ \E c \in Calls :
          \/ \E p \in Passwords : AskForLogin(c, p) \/ AskForChange(c, p) \/ AcceptInvite(c, p)
          \/ ReadForLogin(c) \/ WrongPassword(c) \/ RightPassword(c) \/ ResetLimit(c)
          \/ Hydrate(c) \/ SignSession(c) \/ IssueSession(c) \/ SwitchWorkspace(c) \/ Logout(c)
          \/ ReadClock(c) \/ ChangePassword(c)
          \/ CreateInvite(c) \/ RevokePending(c) \/ InsertInvite(c) \/ WriteRevoked(c)
          \/ \E i \in DOMAIN invites : RevokeInvite(c, i) \/ ReadInvite(c, i) \/ InviteExpired(c, i)
          \/ \E who \in People : ManageMember(c, "role", who) \/ ManageMember(c, "remove", who)
          \/ \E r \in {"editor", "admin"} : ChangeRole(c, r)
          \/ RemoveMember(c)
          \/ \E name \in Names : CreateWorkspace(c, name)
          \/ LookAtWorkspace(c)
    \/ \E sid \in live : SessionExpires(sid)
    \/ WindowEnds \/ LockEnds

AccountSpec == AccountInit /\ [][AccountNext]_accountVars

-----------------------------------------------------------------------------
AccountTypeOK ==
    /\ credential.password \in Passwords /\ failed \in 0..MaxFailed
    /\ live \subseteq DOMAIN sessions /\ DOMAIN sessions \subseteq Calls \cup {OldSid}
    /\ role \in [People -> {"none", "viewer", "editor", "admin", "owner"}]
    /\ invites \in [1..MaxInvites -> {"none", "pending", "accepted", "revoked", "expired"}]

\* The hash a change of the password replaced is the one it had verified,
\* though it was read before the new one was computed (changeLocalPassword).
ChangesWereVerified ==
    \A c \in Calls :
        (calls[c].does = "change" /\ calls[c].at \in {"known", "hydrated", "signed", "done"})
            => calls[c].saw.verified = calls[c].saw.replaced

\* A cookie that resolves was signed while the password was the one in force
\* now, whoever set it meanwhile, and its key can be found by the script that
\* ends all sessions (hydrateIdentity, the scripts of session-registry).
SessionsFollowPassword ==
    /\ \A sid \in live : Resolves(sid) => sessions[sid].salt = credential.salt
    /\ live \subseteq index

\* A lock has its failures, and a window of the limit lets through what it may.
LoginsAreCounted ==
    /\ locked => failed >= MaxFailed
    /\ admitted <= PerAccount

\* The workspace keeps its owner, and an accepted invite made its user a member
\* in the same transaction.
MembershipsAccounted ==
    /\ role["owner"] = "owner"
    /\ Cardinality({i \in DOMAIN invites : invites[i] = "accepted"}) <= joins

\* One request id makes one workspace: whoever is told it is theirs asked for
\* that very one, and only one call made it (createWorkspaceForIdentity).
OneWorkspacePerRequest ==
    LET answered == {c \in Calls : calls[c].does = "create" /\ calls[c].at \in {"made", "same"}}
    IN  /\ \A c \in answered : calls[c].saw = space
        /\ Cardinality({c \in answered : calls[c].at = "made"}) <= 1

\* The account, its sessions and its memberships under overlapping requests.
AccountsHold ==
    /\ AccountTypeOK /\ ChangesWereVerified /\ SessionsFollowPassword
    /\ LoginsAreCounted /\ MembershipsAccounted /\ OneWorkspacePerRequest
=============================================================================
