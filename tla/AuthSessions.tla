---------------------------- MODULE AuthSessions ----------------------------
(***************************************************************************)
(* The refresh-token sessions of authentication/: login, rotation with      *)
(* reuse detection, logout of all sessions, the nightly purge, and the      *)
(* task that revokes the sessions of a suspended tenant.  Web workers and   *)
(* Celery workers share the LoginSession rows and take no lock: each action *)
(* is one statement.  A session stands for its token: rows are found by the *)
(* hash of the token, and tokens do not repeat.                             *)
(***************************************************************************)
EXTENDS Naturals

CONSTANTS
  Users,        \* users of the tenants
  Tenants,
  TenantOf,     \* User.tenant
  MaxSessions,  \* LoginSession rows that are ever created
  Requests,     \* login and refresh requests in flight at the same time
  MaxQueued,    \* revoke_tenant_sessions messages of one tenant in the broker
  Faults        \* what may fail: "broker", "worker", "registry"

ASSUME SessionsAssumption ==
  /\ TenantOf \in [Users -> Tenants]
  /\ Users # {}
  /\ MaxSessions \in Nat /\ MaxQueued \in Nat

VARIABLES
  suspended,    \* Tenant.status = SUSPENDED, as committed
  suspending,   \* a suspend() transaction has saved and not committed
  queued,       \* revoke_tenant_sessions messages waiting for a worker
  sessions,     \* the LoginSession rows
  request,      \* a login or refresh request
  missed,       \* history: a revocation was not enqueued, or its worker was killed
  troubled      \* history: users who logged out, were suspended or reused a token

sessionVars == <<suspended, suspending, queued, sessions, request, missed, troubled>>

\* Rows in the order they are created; a login has none to rotate.
Sessions == 1..MaxSessions
NoSession == 0

\* History in a row: state "purged", a deleted row whose token somebody still has; rotated,
\* a session was issued in exchange for it; raced, while it is live, that the request that
\* issued it, or one of its ancestors, was in flight while a suspension of the tenant was
\* being carried out.
SessionRow == [state : {"none", "live", "revoked", "purged"}, user : Users,
               expired : BOOLEAN, rotated : BOOLEAN, raced : BOOLEAN]

NoRow == [state |-> "none", user |-> CHOOSE u \in Users : TRUE, expired |-> FALSE,
          rotated |-> FALSE, raced |-> FALSE]

\* before is history: the sessions the user had when a refresh found its token revoked.
SessionRequest ==
  [pc : {"idle", "login", "revoke_all", "revoke", "issue", "invalid"},
   user : Users, session : Sessions \cup {NoSession}, raced : BOOLEAN, before : SUBSET Sessions]

NoRequest == [pc |-> "idle", user |-> CHOOSE u \in Users : TRUE, session |-> NoSession,
              raced |-> FALSE, before |-> {}]

SessionsTypeOK ==
  /\ suspended \in [Tenants -> BOOLEAN] /\ suspending \in [Tenants -> BOOLEAN]
  /\ queued \in [Tenants -> 0..MaxQueued] /\ missed \in [Tenants -> BOOLEAN]
  /\ sessions \in [Sessions -> SessionRow]
  /\ request \in [Requests -> SessionRequest]
  /\ troubled \in SUBSET Users

SessionsInit ==
  /\ suspended = [t \in Tenants |-> FALSE] /\ suspending = [t \in Tenants |-> FALSE]
  /\ queued = [t \in Tenants |-> 0] /\ missed = [t \in Tenants |-> FALSE]
  /\ sessions = [s \in Sessions |-> NoRow]
  /\ request = [r \in Requests |-> NoRequest]
  /\ troubled = {}

Live(s) == sessions[s].state = "live"
SessionsOf(u) == {s \in Sessions : sessions[s].state # "none" /\ sessions[s].user = u}
Members(t) == {u \in Users : TenantOf[u] = t}

\* One UPDATE: filter(user in group, is_revoked=False).update(is_revoked=True).
RevokedOf(group) ==
  [s \in Sessions |-> IF Live(s) /\ sessions[s].user \in group
                      THEN [sessions[s] EXCEPT !.state = "revoked", !.raced = FALSE]
                      ELSE sessions[s]]

\* A suspension is being carried out: not committed, its message not consumed, or lost.
Unsettled(t) == suspending[t] \/ queued[t] > 0 \/ missed[t]

\* The request may still issue a session.
InFlight(r) == request[r].pc \in {"login", "revoke", "issue"}

Jump(r, pc) == request' = [request EXCEPT ![r].pc = pc]

\* The request is answered, and nothing of it remains.
EndRequest(r) == request' = [request EXCEPT ![r] = NoRequest]

-----------------------------------------------------------------------------
(* LoginView, after TenantResolverMiddleware found the tenant READY.  A      *)
(* login whose credentials are refused touches no session (LoginGuard).     *)

Login(r, u) ==
  /\ request[r].pc = "idle"
  /\ ~ suspended[TenantOf[u]]
  /\ request' = [request EXCEPT ![r] =
       [pc |-> "login", user |-> u, session |-> NoSession,
        raced |-> Unsettled(TenantOf[u]), before |-> {}]]
  /\ UNCHANGED <<suspended, suspending, queued, sessions, missed, troubled>>

\* issue_session, of a login or at the end of a rotation.
IssueSession(r) ==
  /\ request[r].pc \in {"login", "issue"}
  /\ \E s \in Sessions :
       /\ sessions[s].state = "none" /\ \A x \in Sessions : x < s => sessions[x].state # "none"
       /\ sessions' = [x \in Sessions |->
            IF x = s THEN [state |-> "live", user |-> request[r].user, expired |-> FALSE,
                           rotated |-> FALSE, raced |-> request[r].raced]
            ELSE IF x = request[r].session /\ sessions[x].state = "revoked"
                 THEN [sessions[x] EXCEPT !.rotated = TRUE]
            ELSE sessions[x]]
  /\ EndRequest(r)
  /\ UNCHANGED <<suspended, suspending, queued, missed, troubled>>

-----------------------------------------------------------------------------
(* RefreshView: the token is sent to the host of any tenant that is READY.   *)

\* A user who sends a token that was rotated, or is being, reuses it.
Reused(s) == sessions[s].state # "live" \/ \E r \in Requests : request[r].session = s

\* A refresh that goes on to pc.
Proceed(r, s, pc, before, raced) ==
  request' = [request EXCEPT ![r] =
    [pc |-> pc, user |-> sessions[s].user, session |-> s, raced |-> raced, before |-> before]]

DetectReuse(r, s) == Proceed(r, s, "revoke_all", SessionsOf(sessions[s].user), FALSE)

Rotate(r, s) ==
  Proceed(r, s, "revoke", {}, sessions[s].raced \/ Unsettled(TenantOf[sessions[s].user]))

\* Without a row the token is refused.  Otherwise its expiry is checked next; a token that
\* expires between the two is one that expired before.  blacklist() belongs to an app that
\* is not installed: for a token that decodes the call raises, nothing catches it, and
\* nothing was changed.
Refresh(r, s) ==
  /\ request[r].pc = "idle"
  /\ sessions[s].state # "none"
  /\ \/ sessions[s].state = "purged"  /\ UNCHANGED request
     \/ sessions[s].state = "revoked" /\ DetectReuse(r, s)
     \/ Live(s) /\ sessions[s].expired   /\ Rotate(r, s)
     \/ Live(s) /\ ~ sessions[s].expired /\ UNCHANGED request
  /\ troubled' = IF Reused(s) THEN troubled \cup {sessions[s].user} ELSE troubled
  /\ UNCHANGED <<suspended, suspending, queued, sessions, missed>>

\* Only the session of the reused token goes.
RevokeReusedOnly(r) ==
  /\ request[r].pc = "revoke_all"
  /\ sessions' = [sessions EXCEPT ![request[r].session].state = "revoked"]
  /\ Jump(r, "invalid")
  /\ UNCHANGED <<suspended, suspending, queued, missed, troubled>>

\* "Reuse of a revoked token": every session of the user goes.
RevokeAllReused(r) ==
  /\ request[r].pc = "revoke_all"
  /\ sessions' = RevokedOf({request[r].user})
  /\ Jump(r, "invalid")
  /\ UNCHANGED <<suspended, suspending, queued, missed, troubled>>

\* LoginSession.revoke saves the copy that was read: revoked since or not, it is written;
\* a row that was purged since cannot be.
RevokeRotated(r) ==
  /\ request[r].pc = "revoke"
  /\ LET s == request[r].session IN
     \/ /\ sessions[s].state = "purged" /\ EndRequest(r) /\ UNCHANGED sessions
     \/ /\ sessions[s].state # "purged" /\ Jump(r, "issue")
        /\ sessions' = [sessions EXCEPT ![s].state = "revoked", ![s].raced = FALSE]
  /\ UNCHANGED <<suspended, suspending, queued, missed, troubled>>

\* TOKEN_INVALID.
RefuseToken(r) ==
  /\ request[r].pc = "invalid"
  /\ EndRequest(r)
  /\ UNCHANGED <<suspended, suspending, queued, sessions, missed, troubled>>

\* The web worker is killed, or the registry refuses the statement.
Abandon(r) ==
  /\ "registry" \in Faults
  /\ request[r].pc \notin {"idle", "invalid"}
  /\ EndRequest(r)
  /\ troubled' = troubled \cup {request[r].user}
  /\ UNCHANGED <<suspended, suspending, queued, sessions, missed>>

-----------------------------------------------------------------------------
(* Everybody else who writes LoginSession rows                              *)

\* LogoutAllView, with the access token of any session the user ever had.
LogoutAll(u) ==
  /\ SessionsOf(u) # {}
  /\ sessions' = RevokedOf({u})
  /\ troubled' = troubled \cup {u}
  /\ UNCHANGED <<suspended, suspending, queued, request, missed>>

\* Seven days: the token and expires_at of its row.
Expire(s) ==
  /\ sessions[s].state \in {"live", "revoked"}
  /\ ~ sessions[s].expired
  /\ sessions' = [sessions EXCEPT ![s].expired = TRUE]
  /\ UNCHANGED <<suspended, suspending, queued, request, missed, troubled>>

\* purge_expired_sessions, nightly.
PurgeExpired ==
  /\ \E s \in Sessions : sessions[s].expired
  /\ sessions' = [s \in Sessions |-> IF sessions[s].expired
                                     THEN [NoRow EXCEPT !.state = "purged",
                                                        !.user = sessions[s].user]
                                     ELSE sessions[s]]
  /\ UNCHANGED <<suspended, suspending, queued, request, missed, troubled>>

\* Both the receiver and suspend() itself send the message.
BeginSuspendSendingTwice(t) ==
  /\ ~ suspending[t]
  /\ suspending' = [suspending EXCEPT ![t] = TRUE]
  /\ queued' = [queued EXCEPT ![t] = @ + 2]
  /\ UNCHANGED <<suspended, sessions, request, missed, troubled>>

\* TenantService.suspend(): the save, inside the transaction, whose receiver enqueues the
\* revocation before the commit, best effort.
BeginSuspend(t) ==
  /\ ~ suspending[t]
  /\ suspending' = [suspending EXCEPT ![t] = TRUE]
  /\ \/ queued[t] < MaxQueued /\ queued' = [queued EXCEPT ![t] = @ + 1] /\ UNCHANGED missed
     \/ "broker" \in Faults /\ missed' = [missed EXCEPT ![t] = TRUE] /\ UNCHANGED queued
  /\ request' = [r \in Requests |->
       IF InFlight(r) /\ TenantOf[request[r].user] = t
       THEN [request[r] EXCEPT !.raced = TRUE] ELSE request[r]]
  /\ troubled' = troubled \cup Members(t)
  /\ UNCHANGED <<suspended, sessions>>

CommitSuspend(t) ==
  /\ suspending[t]
  /\ suspending' = [suspending EXCEPT ![t] = FALSE]
  /\ suspended' = [suspended EXCEPT ![t] = TRUE]
  /\ UNCHANGED <<queued, sessions, request, missed, troubled>>

\* The audit entry or the commit fails; the message stays in the broker.
AbortSuspend(t) ==
  /\ "registry" \in Faults
  /\ suspending[t]
  /\ suspending' = [suspending EXCEPT ![t] = FALSE]
  /\ UNCHANGED <<suspended, queued, sessions, request, missed, troubled>>

\* activate() waits for the row of a suspension that has not committed.
Activate(t) ==
  /\ suspended[t] /\ ~ suspending[t]
  /\ suspended' = [suspended EXCEPT ![t] = FALSE]
  /\ UNCHANGED <<suspending, queued, sessions, request, missed, troubled>>

\* Sessions past expires_at are left to the purge.
RevokeUnexpiredSessions(t) ==
  /\ queued[t] > 0
  /\ queued' = [queued EXCEPT ![t] = @ - 1]
  /\ sessions' = [s \in Sessions |-> IF sessions[s].expired THEN sessions[s]
                                     ELSE RevokedOf(Members(t))[s]]
  /\ missed' = [missed EXCEPT ![t] = FALSE]
  /\ UNCHANGED <<suspended, suspending, request, troubled>>

\* The sessions are not narrowed down to the users of the tenant.
RevokeEverySession(t) ==
  /\ queued[t] > 0
  /\ queued' = [queued EXCEPT ![t] = @ - 1]
  /\ sessions' = RevokedOf(Users)
  /\ missed' = [missed EXCEPT ![t] = FALSE]
  /\ UNCHANGED <<suspended, suspending, request, troubled>>

\* revoke_tenant_sessions: every session of the tenant's users, whatever the tenant's
\* status is by now.
RevokeTenantSessions(t) ==
  /\ queued[t] > 0
  /\ queued' = [queued EXCEPT ![t] = @ - 1]
  /\ sessions' = RevokedOf(Members(t))
  /\ missed' = [missed EXCEPT ![t] = FALSE]
  /\ UNCHANGED <<suspended, suspending, request, troubled>>

\* Celery acknowledges the message first: a worker killed then loses it.
LoseRevocation(t) ==
  /\ "worker" \in Faults
  /\ queued[t] > 0
  /\ queued' = [queued EXCEPT ![t] = @ - 1]
  /\ missed' = [missed EXCEPT ![t] = TRUE]
  /\ UNCHANGED <<suspended, suspending, sessions, request, troubled>>

-----------------------------------------------------------------------------
RequestStep(r) ==
  \/ IssueSession(r) \/ RevokeAllReused(r) \/ RevokeRotated(r)
  \/ RefuseToken(r) \/ Abandon(r)

SuspensionStep(t) ==
  \/ BeginSuspend(t) \/ CommitSuspend(t) \/ AbortSuspend(t) \/ Activate(t)
  \/ RevokeTenantSessions(t) \/ LoseRevocation(t)

SessionsNext ==
  \/ \E r \in Requests, u \in Users : Login(r, u)
  \/ \E r \in Requests, s \in Sessions : Refresh(r, s)
  \/ \E r \in Requests : RequestStep(r)
  \/ \E u \in Users : LogoutAll(u)
  \/ \E s \in Sessions : Expire(s)
  \/ PurgeExpired
  \/ \E t \in Tenants : SuspensionStep(t)

SessionsSpec == SessionsInit /\ [][SessionsNext]_sessionVars

-----------------------------------------------------------------------------
\* The revocation of a suspended tenant is a message sent before the commit, and logins
\* and rotations check before they write.  Once the tenant is suspended and the message
\* was worked off, the only live sessions are those of requests that were in flight, or
\* came in, while the suspension was being carried out, and what was rotated out of them.
SuspensionEndsSessions ==
  \A s \in Sessions :
    LET t == TenantOf[sessions[s].user]
    IN Live(s) /\ suspended[t] /\ ~ Unsettled(t) => sessions[s].raced

\* A refresh that found its token revoked has, when it is answered, ended every session the
\* user had when it looked it up, however many rotations are between their check and their save.
ReuseEndsSessions ==
  \A r \in Requests :
    request[r].pc = "invalid" => \A s \in request[r].before : ~ Live(s)

\* Nobody is logged out by what others do: a user who did not log out, sent no token twice
\* and whose tenant nobody began to suspend has every session he did not rotate himself,
\* until it expires.  Other users' logouts and reuses, other tenants' suspensions, and
\* revocations that come late must not reach it.
KeepsSessions ==
  \A s \in Sessions :
    sessions[s].state = "revoked" /\ sessions[s].user \notin troubled =>
      \/ sessions[s].rotated
      \/ \E r \in Requests : request[r].pc = "issue" /\ request[r].session = s
=============================================================================
