------------------------- MODULE AuthSessionsProofs -------------------------
(***************************************************************************)
(* Proofs about AuthSessions, for any sets of users, tenants and requests,  *)
(* any number of sessions and messages, and any faults.                    *)
(***************************************************************************)
EXTENDS AuthSessions, TLAPS

\* No suspension of the user's tenant has begun that activate() has not ended.
Settled(u) == ~ suspended[TenantOf[u]] /\ ~ suspending[TenantOf[u]]

\* The revocation of the user's tenant is on its way, or lost.
Announced(u) == queued[TenantOf[u]] > 0 \/ missed[TenantOf[u]]

\* A row that escapes a suspension waits for its message, and what may still issue one
\* began before any suspension.
RowsAnnounced ==
  \A s \in Sessions : Live(s) /\ ~ sessions[s].raced =>
    Settled(sessions[s].user) \/ Announced(sessions[s].user)

RequestsSettled ==
  \A r \in Requests : InFlight(r) /\ ~ request[r].raced => Settled(request[r].user)

\* The rows that a request has seen are still those of its user.
BeforeKnown ==
  \A r \in Requests : \A s \in request[r].before :
    sessions[s].state # "none" /\ sessions[s].user = request[r].user

TokensKnown ==
  \A r \in Requests : request[r].pc \in {"revoke_all", "revoke", "issue"} =>
    /\ request[r].session \in Sessions
    /\ sessions[request[r].session].state # "none"
    /\ sessions[request[r].session].user = request[r].user

\* Whoever is about to lose all sessions gave a reason.
ReusersTroubled == \A r \in Requests : request[r].pc = "revoke_all" => request[r].user \in troubled

SuspendedTroubled == \A t \in Tenants : queued[t] > 0 => Members(t) \subseteq troubled

SessionsInv ==
  /\ SessionsTypeOK
  /\ RowsAnnounced /\ RequestsSettled
  /\ BeforeKnown /\ ReuseEndsSessions
  /\ TokensKnown /\ ReusersTroubled /\ SuspendedTroubled /\ KeepsSessions

-----------------------------------------------------------------------------
\* The rows and requests that are written down whole have their types.
LEMMA BlankTypes == NoRow \in SessionRow /\ NoRequest \in SessionRequest
  <1>1. (CHOOSE u \in Users : TRUE) \in Users
    BY SessionsAssumption
  <1>2. QED
    BY <1>1 DEF NoRow, SessionRow, NoRequest, SessionRequest

LEMMA RowTypes ==
  ASSUME NEW row \in SessionRow
  PROVE  /\ [row EXCEPT !.state = "revoked", !.raced = FALSE] \in SessionRow
         /\ [row EXCEPT !.rotated = TRUE] \in SessionRow
         /\ [row EXCEPT !.expired = TRUE] \in SessionRow
  BY DEF SessionRow

LEMMA RequestTypes ==
  ASSUME NEW q \in SessionRequest
  PROVE  /\ [q EXCEPT !.raced = TRUE] \in SessionRequest
         /\ [q EXCEPT !.pc = "issue"] \in SessionRequest
         /\ [q EXCEPT !.pc = "invalid"] \in SessionRequest
  BY DEF SessionRequest

\* NoSession is no row.
LEMMA NoSessionNoRow == NoSession \notin Sessions
  BY SessionsAssumption DEF NoSession, Sessions

-----------------------------------------------------------------------------
(* Three kinds of steps: of one request, of the rows, of a suspension       *)

\* One request moves, and no row.
LEMMA RequestMoves ==
  ASSUME SessionsInv, NEW r \in Requests, NEW n \in SessionRequest,
         request' = [request EXCEPT ![r] = n],
         UNCHANGED <<suspended, suspending, queued, sessions, missed>>,
         troubled' \in SUBSET Users, troubled \subseteq troubled',
         n.pc \in {"login", "revoke", "issue"} /\ ~ n.raced => Settled(n.user),
         \A s \in n.before : sessions[s].state # "none" /\ sessions[s].user = n.user,
         n.pc = "invalid" => \A s \in n.before : ~ Live(s),
         n.pc \in {"revoke_all", "revoke", "issue"} =>
           /\ n.session \in Sessions
           /\ sessions[n.session].state # "none" /\ sessions[n.session].user = n.user,
         n.pc = "revoke_all" => n.user \in troubled',
         request[r].pc = "issue" => request[r].user \in troubled'
  PROVE  SessionsInv'
  <1>0. /\ request'[r] = n
        /\ \A q \in Requests : q # r => request'[q] = request[q]
    BY DEF SessionsInv, SessionsTypeOK
  <1>1. SessionsTypeOK'
    BY DEF SessionsInv, SessionsTypeOK
  <1>2. RowsAnnounced'
    BY DEF SessionsInv, RowsAnnounced, Live, Settled, Announced
  <1>3. RequestsSettled'
    BY <1>0 DEF SessionsInv, RequestsSettled, InFlight, Settled
  <1>4. BeforeKnown'
    BY <1>0 DEF SessionsInv, BeforeKnown
  <1>5. ReuseEndsSessions'
    BY <1>0 DEF SessionsInv, ReuseEndsSessions, Live
  <1>6. TokensKnown'
    BY <1>0 DEF SessionsInv, TokensKnown
  <1>7. ReusersTroubled'
    BY <1>0 DEF SessionsInv, ReusersTroubled
  <1>8. SuspendedTroubled'
    BY DEF SessionsInv, SuspendedTroubled
  <1>9. KeepsSessions'
    <2> SUFFICES ASSUME NEW s \in Sessions, sessions[s].state = "revoked",
                        sessions[s].user \notin troubled', ~ sessions[s].rotated
                 PROVE  \E q \in Requests : request'[q].pc = "issue" /\ request'[q].session = s
      BY DEF KeepsSessions
    <2>1. PICK q \in Requests : request[q].pc = "issue" /\ request[q].session = s
      BY DEF SessionsInv, KeepsSessions
    <2>2. request[q].user = sessions[s].user
      BY <2>1 DEF SessionsInv, TokensKnown
    <2>3. q # r
      BY <2>1, <2>2
    <2>4. QED
      BY <1>0, <2>1, <2>3
  <1>10. QED
    BY <1>1, <1>2, <1>3, <1>4, <1>5, <1>6, <1>7, <1>8, <1>9 DEF SessionsInv

\* A request that revokes goes on; the others stay where they are.
GoesOn(r) ==
  /\ request'[r].user = request[r].user /\ request'[r].session = request[r].session
  /\ request'[r].before = request[r].before /\ request'[r].raced = request[r].raced
  /\ \/ request'[r].pc = request[r].pc
     \/ /\ request[r].pc = "revoke_all" /\ request'[r].pc = "invalid"
        /\ \A s \in request[r].before : ~ Live(s)'
     \/ request[r].pc = "revoke" /\ request'[r].pc = "issue"

\* A row that is there stays its user's, and none becomes live again.
RowFades(s) ==
  /\ sessions'[s].user = sessions[s].user
  /\ sessions[s].state # "none" => sessions'[s].state # "none"
  /\ Live(s)' => /\ Live(s)
                 /\ sessions[s].raced => sessions'[s].raced
                 /\ Announced(sessions[s].user) => Announced(sessions[s].user)'

\* Rows are revoked, aged or deleted, for a reason.
LEMMA RowsMove ==
  ASSUME SessionsInv, UNCHANGED <<suspended, suspending>>, SessionsTypeOK',
         troubled \subseteq troubled',
         \A r \in Requests : GoesOn(r),
         \A s \in Sessions : RowFades(s),
         \A t \in Tenants : queued'[t] > 0 => queued[t] > 0,
         \A s \in Sessions : sessions'[s].state = "revoked" =>
           \/ sessions[s].user \in troubled'
           \/ sessions[s].state = "revoked" /\ (sessions[s].rotated => sessions'[s].rotated)
           \/ \E r \in Requests : request'[r].pc = "issue" /\ request'[r].session = s
  PROVE  SessionsInv'
  <1>1. RowsAnnounced'
    <2> SUFFICES ASSUME NEW s \in Sessions, Live(s)', ~ sessions'[s].raced
                 PROVE  Settled(sessions[s].user)' \/ Announced(sessions[s].user)'
      BY DEF RowsAnnounced, RowFades
    <2>1. Live(s) /\ ~ sessions[s].raced
      BY DEF RowFades
    <2>2. Settled(sessions[s].user) \/ Announced(sessions[s].user)
      BY <2>1 DEF SessionsInv, RowsAnnounced
    <2>3. sessions'[s].user = sessions[s].user
      BY DEF RowFades
    <2>4. CASE Settled(sessions[s].user)
      BY <2>3, <2>4 DEF Settled
    <2>5. CASE Announced(sessions[s].user)
      BY <2>5 DEF RowFades
    <2>6. QED
      BY <2>2, <2>4, <2>5
  <1>2. RequestsSettled'
    BY DEF SessionsInv, RequestsSettled, InFlight, Settled, GoesOn
  <1>3. BeforeKnown'
    <2> SUFFICES ASSUME NEW r \in Requests, NEW s \in request'[r].before
                 PROVE  sessions'[s].state # "none" /\ sessions'[s].user = request'[r].user
      BY DEF BeforeKnown
    <2>1. s \in request[r].before /\ request'[r].user = request[r].user /\ s \in Sessions
      BY DEF GoesOn, SessionsInv, SessionsTypeOK, SessionRequest
    <2>2. QED
      BY <2>1 DEF SessionsInv, BeforeKnown, RowFades
  <1>4. ReuseEndsSessions'
    <2> SUFFICES ASSUME NEW r \in Requests, request'[r].pc = "invalid",
                        NEW s \in request'[r].before
                 PROVE  ~ Live(s)'
      BY DEF ReuseEndsSessions
    <2>1. s \in request[r].before /\ s \in Sessions
      BY DEF GoesOn, SessionsInv, SessionsTypeOK, SessionRequest
    <2>2. CASE request[r].pc = "invalid"
      BY <2>1, <2>2 DEF SessionsInv, ReuseEndsSessions, RowFades
    <2>3. CASE request[r].pc # "invalid"
      BY <2>1, <2>3 DEF GoesOn
    <2>4. QED
      BY <2>2, <2>3
  <1>5. TokensKnown'
    BY DEF SessionsInv, TokensKnown, GoesOn, RowFades
  <1>6. ReusersTroubled'
    BY DEF SessionsInv, ReusersTroubled, GoesOn
  <1>7. SuspendedTroubled'
    BY DEF SessionsInv, SuspendedTroubled
  <1>8. KeepsSessions'
    <2> SUFFICES ASSUME NEW s \in Sessions, sessions'[s].state = "revoked",
                        sessions[s].user \notin troubled', ~ sessions'[s].rotated
                 PROVE  \E q \in Requests : request'[q].pc = "issue" /\ request'[q].session = s
      BY DEF KeepsSessions, RowFades
    <2>1. CASE sessions[s].state = "revoked" /\ (sessions[s].rotated => sessions'[s].rotated)
      <3>1. PICK q \in Requests : request[q].pc = "issue" /\ request[q].session = s
        BY <2>1 DEF SessionsInv, KeepsSessions
      <3>2. QED
        BY <3>1 DEF GoesOn
    <2>2. QED
      BY <2>1
  <1>9. QED
    BY <1>1, <1>2, <1>3, <1>4, <1>5, <1>6, <1>7, <1>8 DEF SessionsInv

\* A suspension moves, and no row; requests may be noted as racing it.
LEMMA SuspensionMoves ==
  ASSUME SessionsInv, sessions' = sessions, SessionsTypeOK', troubled \subseteq troubled',
         \A r \in Requests :
           /\ request'[r].user = request[r].user /\ request'[r].session = request[r].session
           /\ request'[r].before = request[r].before /\ request'[r].pc = request[r].pc
           /\ request[r].raced => request'[r].raced
           /\ InFlight(r) /\ ~ request'[r].raced /\ Settled(request[r].user) =>
                Settled(request[r].user)',
         \A t \in Tenants : queued'[t] > 0 => queued[t] > 0 \/ Members(t) \subseteq troubled',
         \A u \in Users : /\ Announced(u) => Announced(u)'
                          /\ Settled(u) => Settled(u)' \/ Announced(u)'
  PROVE  SessionsInv'
  <1>1. RowsAnnounced'
    <2> SUFFICES ASSUME NEW s \in Sessions, Live(s), ~ sessions[s].raced
                 PROVE  Settled(sessions[s].user)' \/ Announced(sessions[s].user)'
      BY DEF RowsAnnounced, Live
    <2>1. sessions[s].user \in Users
      BY DEF SessionsInv, SessionsTypeOK, SessionRow
    <2>2. QED
      BY <2>1 DEF SessionsInv, RowsAnnounced
  <1>2. RequestsSettled'
    <2> SUFFICES ASSUME NEW r \in Requests, InFlight(r)', ~ request'[r].raced
                 PROVE  Settled(request[r].user)'
      BY DEF RequestsSettled
    <2>1. InFlight(r) /\ ~ request[r].raced
      BY DEF InFlight
    <2>2. QED
      BY <2>1 DEF SessionsInv, RequestsSettled
  <1>3. BeforeKnown'
    BY DEF SessionsInv, BeforeKnown
  <1>4. ReuseEndsSessions'
    BY DEF SessionsInv, ReuseEndsSessions, Live
  <1>5. TokensKnown'
    BY DEF SessionsInv, TokensKnown
  <1>6. ReusersTroubled'
    BY DEF SessionsInv, ReusersTroubled
  <1>7. SuspendedTroubled'
    BY DEF SessionsInv, SuspendedTroubled, Members
  <1>8. KeepsSessions'
    BY DEF SessionsInv, KeepsSessions
  <1>9. QED
    BY <1>1, <1>2, <1>3, <1>4, <1>5, <1>6, <1>7, <1>8 DEF SessionsInv

-----------------------------------------------------------------------------
(* The steps                                                                *)

\* What the type invariant says of one row and of one request.
LEMMA Typed ==
  ASSUME SessionsInv
  PROVE  /\ \A s \in Sessions : sessions[s] \in SessionRow /\ sessions[s].user \in Users
         /\ \A r \in Requests : request[r] \in SessionRequest /\ request[r].user \in Users
         /\ request \in [Requests -> SessionRequest] /\ sessions \in [Sessions -> SessionRow]
         /\ troubled \in SUBSET Users
  BY DEF SessionsInv, SessionsTypeOK, SessionRow, SessionRequest

\* The request is answered.
LEMMA EndKeeps ==
  ASSUME SessionsInv, NEW r \in Requests, EndRequest(r),
         UNCHANGED <<suspended, suspending, queued, sessions, missed>>,
         troubled' \in SUBSET Users, troubled \subseteq troubled',
         request[r].pc = "issue" => request[r].user \in troubled'
  PROVE  SessionsInv'
  <1> DEFINE n == NoRequest
  <1>1. n \in SessionRequest /\ n.pc = "idle" /\ n.before = {}
    BY BlankTypes DEF NoRequest
  <1>2. request' = [request EXCEPT ![r] = n]
    BY DEF EndRequest
  <1> HIDE DEF n
  <1>3. QED
    BY <1>1, <1>2, RequestMoves

LEMMA LoginKeeps ==
  ASSUME SessionsInv, NEW r \in Requests, NEW u \in Users, Login(r, u)
  PROVE  SessionsInv'
  <1> DEFINE n == [pc |-> "login", user |-> u, session |-> NoSession,
                   raced |-> Unsettled(TenantOf[u]), before |-> {}]
  <1>1. /\ request' = [request EXCEPT ![r] = n] /\ request[r].pc = "idle"
        /\ UNCHANGED <<suspended, suspending, queued, sessions, missed, troubled>>
        /\ ~ suspended[TenantOf[u]]
    BY DEF Login
  <1>2. Unsettled(TenantOf[u]) \in BOOLEAN
    BY SessionsAssumption DEF SessionsInv, SessionsTypeOK, Unsettled
  <1>3. n \in SessionRequest
    BY <1>2 DEF SessionRequest
  <1>4. /\ n.pc = "login" /\ n.before = {} /\ n.user = u
        /\ n.raced = Unsettled(TenantOf[u])
    OBVIOUS
  <1>5. ~ n.raced => Settled(n.user)
    BY <1>1, <1>4 DEF Settled, Unsettled
  <1> HIDE DEF n
  <1>6. QED
    BY <1>1, <1>3, <1>4, <1>5, Typed, RequestMoves

LEMMA RefreshKeeps ==
  ASSUME SessionsInv, NEW r \in Requests, NEW s \in Sessions, Refresh(r, s)
  PROVE  SessionsInv'
  <1> DEFINE u == sessions[s].user
  <1>1. u \in Users /\ troubled \in SUBSET Users
    BY Typed
  <1>2. /\ UNCHANGED <<suspended, suspending, queued, sessions, missed>>
        /\ troubled' \in SUBSET Users /\ troubled \subseteq troubled'
        /\ request[r].pc = "idle"
    BY <1>1 DEF Refresh
  <1>3. CASE sessions[s].state = "revoked" /\ DetectReuse(r, s)
    <2> DEFINE n == [pc |-> "revoke_all", user |-> u, session |-> s, raced |-> FALSE,
                     before |-> SessionsOf(u)]
    <2>1. request' = [request EXCEPT ![r] = n]
      BY <1>3 DEF DetectReuse, Proceed
    <2>2. SessionsOf(u) \in SUBSET Sessions
      BY DEF SessionsOf
    <2>3. n \in SessionRequest
      BY <1>1, <2>2 DEF SessionRequest
    <2>4. n.pc = "revoke_all" /\ n.user = u /\ n.session = s /\ n.before = SessionsOf(u)
      OBVIOUS
    <2>5. \A x \in n.before : sessions[x].state # "none" /\ sessions[x].user = n.user
      BY <2>4 DEF SessionsOf
    <2>6. u \in troubled'
      BY <1>3 DEF Refresh, Reused, Live
    <2> HIDE DEF n
    <2>7. QED
      BY <1>2, <1>3, <2>1, <2>3, <2>4, <2>5, <2>6, RequestMoves
  <1>4. CASE Live(s) /\ Rotate(r, s)
    <2> DEFINE raced == sessions[s].raced \/ Unsettled(TenantOf[u])
               n == [pc |-> "revoke", user |-> u, session |-> s, raced |-> raced, before |-> {}]
    <2>1. request' = [request EXCEPT ![r] = n]
      BY <1>4 DEF Rotate, Proceed
    <2>2. raced \in BOOLEAN
      OBVIOUS
    <2>3. n \in SessionRequest
      BY <1>1, <2>2 DEF SessionRequest
    <2>4. n.pc = "revoke" /\ n.user = u /\ n.session = s /\ n.before = {} /\ n.raced = raced
      OBVIOUS
    <2>5. ~ raced => Settled(u)
      BY <1>4 DEF SessionsInv, RowsAnnounced, Announced, Unsettled
    <2>6. sessions[s].state # "none"
      BY <1>4 DEF Live
    <2> HIDE DEF n, raced
    <2>7. QED
      BY <1>2, <2>1, <2>3, <2>4, <2>5, <2>6, RequestMoves
  <1>5. CASE UNCHANGED request
    <2> DEFINE n == request[r]
    <2>1. request' = [request EXCEPT ![r] = n] /\ n \in SessionRequest
      BY <1>5, Typed
    <2>2. n.pc = "idle" /\ \A x \in n.before : sessions[x].state # "none" /\ sessions[x].user = n.user
      BY <1>2 DEF SessionsInv, BeforeKnown
    <2> HIDE DEF n
    <2>3. request[r].pc # "issue"
      BY <1>2
    <2>4. QED
      BY <1>2, <2>1, <2>2, <2>3, RequestMoves
  <1>6. QED
    BY <1>3, <1>4, <1>5 DEF Refresh

\* Bulk revocation: the rows of a group of users, all of whom gave a reason.
LEMMA RevokedRows ==
  ASSUME SessionsInv, NEW group, sessions' = RevokedOf(group)
  PROVE  /\ sessions' \in [Sessions -> SessionRow]
         /\ \A s \in Sessions :
              /\ sessions'[s].user = sessions[s].user
              /\ sessions[s].state # "none" => sessions'[s].state # "none"
              /\ Live(s)' => sessions'[s] = sessions[s] /\ Live(s) /\ sessions[s].user \notin group
              /\ sessions'[s].state = "revoked" =>
                   sessions'[s] = sessions[s] \/ sessions[s].user \in group
  <1>1. sessions' \in [Sessions -> SessionRow]
    BY Typed, RowTypes DEF RevokedOf
  <1>2. ASSUME NEW s \in Sessions
        PROVE  /\ sessions'[s].user = sessions[s].user
               /\ sessions[s].state # "none" => sessions'[s].state # "none"
               /\ Live(s)' => sessions'[s] = sessions[s] /\ Live(s) /\ sessions[s].user \notin group
               /\ sessions'[s].state = "revoked" =>
                    sessions'[s] = sessions[s] \/ sessions[s].user \in group
    <2>1. sessions[s] \in SessionRow
      BY Typed
    <2>2. CASE Live(s) /\ sessions[s].user \in group
      <3>1. sessions'[s] = [sessions[s] EXCEPT !.state = "revoked", !.raced = FALSE]
        BY <2>2 DEF RevokedOf
      <3>2. sessions'[s].state = "revoked" /\ sessions'[s].user = sessions[s].user
        BY <2>1, <3>1 DEF SessionRow
      <3>3. QED
        BY <2>2, <3>2 DEF Live
    <2>3. CASE ~ (Live(s) /\ sessions[s].user \in group)
      <3>1. sessions'[s] = sessions[s]
        BY <2>3 DEF RevokedOf
      <3>2. QED
        BY <2>3, <3>1 DEF Live
    <2>4. QED
      BY <2>2, <2>3
  <1>3. QED
    BY <1>1, <1>2

LEMMA RevokeAllKeeps ==
  ASSUME SessionsInv, NEW r \in Requests, RevokeAllReused(r)
  PROVE  SessionsInv'
  <1>1. /\ request[r].pc = "revoke_all" /\ sessions' = RevokedOf({request[r].user})
        /\ request' = [request EXCEPT ![r] = [request[r] EXCEPT !.pc = "invalid"]]
        /\ UNCHANGED <<suspended, suspending, queued, missed, troubled>>
    BY Typed DEF RevokeAllReused, Jump
  <1>2. SessionsTypeOK'
    BY <1>1, Typed, RevokedRows, RequestTypes DEF SessionsInv, SessionsTypeOK
  <1>3. request[r].user \in troubled
    BY <1>1 DEF SessionsInv, ReusersTroubled
  <1>4. \A s \in Sessions : RowFades(s)
    BY <1>1, RevokedRows DEF RowFades, Announced
  <1>5. \A s \in request[r].before : s \in Sessions /\ ~ Live(s)'
    <2>1. \A s \in request[r].before : s \in Sessions /\ sessions[s].user = request[r].user
      BY DEF SessionsInv, BeforeKnown, SessionsTypeOK, SessionRequest
    <2>2. QED
      BY <1>1, <2>1, RevokedRows
  <1>6. \A q \in Requests : GoesOn(q)
    <2>1. ASSUME NEW q \in Requests, q # r
          PROVE  GoesOn(q)
      BY <1>1, <2>1, Typed DEF GoesOn
    <2>2. /\ request'[r].pc = "invalid" /\ request'[r].user = request[r].user
          /\ request'[r].session = request[r].session /\ request'[r].before = request[r].before
          /\ request'[r].raced = request[r].raced
      BY <1>1, Typed DEF SessionRequest
    <2>3. GoesOn(r)
      BY <1>1, <1>5, <2>2 DEF GoesOn
    <2>4. QED
      BY <2>1, <2>3
  <1>7. \A s \in Sessions : sessions'[s].state = "revoked" =>
          \/ sessions[s].user \in troubled'
          \/ sessions[s].state = "revoked" /\ (sessions[s].rotated => sessions'[s].rotated)
    <2>1. troubled' = troubled
      BY <1>1
    <2>2. \A s \in Sessions : sessions'[s].state = "revoked" =>
            sessions'[s] = sessions[s] \/ sessions[s].user \in {request[r].user}
      BY <1>1, RevokedRows
    <2>3. QED
      BY <1>3, <2>1, <2>2
  <1>8. QED
    BY <1>1, <1>2, <1>4, <1>6, <1>7, RowsMove

LEMMA LogoutAllKeeps ==
  ASSUME SessionsInv, NEW u \in Users, LogoutAll(u)
  PROVE  SessionsInv'
  <1>1. /\ sessions' = RevokedOf({u}) /\ troubled' = troubled \cup {u}
        /\ UNCHANGED <<suspended, suspending, queued, request, missed>>
    BY DEF LogoutAll
  <1>2. SessionsTypeOK'
    BY <1>1, RevokedRows DEF SessionsInv, SessionsTypeOK
  <1>3. \A s \in Sessions : RowFades(s)
    BY <1>1, RevokedRows DEF RowFades, Announced
  <1>4. \A q \in Requests : GoesOn(q)
    BY <1>1 DEF GoesOn
  <1>5. \A s \in Sessions : sessions'[s].state = "revoked" =>
          \/ sessions[s].user \in troubled'
          \/ sessions[s].state = "revoked" /\ (sessions[s].rotated => sessions'[s].rotated)
    BY <1>1, RevokedRows
  <1>6. QED
    BY <1>1, <1>2, <1>3, <1>4, <1>5, RowsMove

LEMMA RevokeTenantKeeps ==
  ASSUME SessionsInv, NEW t \in Tenants, RevokeTenantSessions(t)
  PROVE  SessionsInv'
  <1>1. /\ queued[t] > 0 /\ queued' = [queued EXCEPT ![t] = queued[t] - 1]
        /\ sessions' = RevokedOf(Members(t)) /\ missed' = [missed EXCEPT ![t] = FALSE]
        /\ UNCHANGED <<suspended, suspending, request, troubled>>
    BY DEF RevokeTenantSessions
  <1>2. queued \in [Tenants -> 0..MaxQueued] /\ missed \in [Tenants -> BOOLEAN]
    BY DEF SessionsInv, SessionsTypeOK
  <1>3. queued' \in [Tenants -> 0..MaxQueued] /\ missed' \in [Tenants -> BOOLEAN]
    BY <1>1, <1>2, SessionsAssumption
  <1>4. SessionsTypeOK'
    BY <1>1, <1>3, RevokedRows DEF SessionsInv, SessionsTypeOK
  <1>5. Members(t) \subseteq troubled
    BY <1>1 DEF SessionsInv, SuspendedTroubled
  <1>6. ASSUME NEW s \in Sessions
        PROVE  RowFades(s)
    <2>1. Live(s)' => TenantOf[sessions[s].user] # t
      BY <1>1, RevokedRows, Typed DEF Members
    <2>2. TenantOf[sessions[s].user] # t =>
            (Announced(sessions[s].user) => Announced(sessions[s].user)')
      BY <1>1, <1>2, Typed, SessionsAssumption, RevokedRows DEF Announced
    <2>3. QED
      BY <1>1, <2>1, <2>2, RevokedRows DEF RowFades
  <1>7. \A q \in Requests : GoesOn(q)
    BY <1>1 DEF GoesOn
  <1>8. \A s \in Sessions : sessions'[s].state = "revoked" =>
          \/ sessions[s].user \in troubled'
          \/ sessions[s].state = "revoked" /\ (sessions[s].rotated => sessions'[s].rotated)
    BY <1>1, <1>5, RevokedRows
  <1>9. \A x \in Tenants : queued'[x] > 0 => queued[x] > 0
    BY <1>1, <1>2
  <1>10. QED
    BY <1>1, <1>4, <1>6, <1>7, <1>8, <1>9, RowsMove

\* Only the saved copy of one row is written, and the request goes on to issue.
LEMMA RevokeRotatedKeeps ==
  ASSUME SessionsInv, NEW r \in Requests, RevokeRotated(r)
  PROVE  SessionsInv'
  <1> DEFINE s == request[r].session
  <1>1. /\ request[r].pc = "revoke" /\ s \in Sessions
        /\ UNCHANGED <<suspended, suspending, queued, missed, troubled>>
    BY DEF RevokeRotated, SessionsInv, TokensKnown
  <1>2. CASE EndRequest(r) /\ UNCHANGED sessions
    BY <1>1, <1>2, Typed, EndKeeps
  <1>3. CASE ~ (EndRequest(r) /\ UNCHANGED sessions)
    <2>1. /\ request' = [request EXCEPT ![r] = [request[r] EXCEPT !.pc = "issue"]]
          /\ sessions' = [sessions EXCEPT ![s] =
               [sessions[s] EXCEPT !.state = "revoked", !.raced = FALSE]]
      BY <1>3 DEF RevokeRotated, Jump
    <2>2. /\ sessions'[s] = [sessions[s] EXCEPT !.state = "revoked", !.raced = FALSE]
          /\ \A x \in Sessions : x # s => sessions'[x] = sessions[x]
      BY <1>1, <2>1, Typed
    <2>3. sessions[s] \in SessionRow /\ request[r] \in SessionRequest
      BY <1>1, Typed
    <2>4. sessions'[s].state = "revoked" /\ sessions'[s].user = sessions[s].user
      BY <2>2, <2>3 DEF SessionRow
    <2>5. SessionsTypeOK'
      <3>1. sessions' \in [Sessions -> SessionRow]
        BY <1>1, <2>1, <2>3, Typed, RowTypes
      <3>2. request' \in [Requests -> SessionRequest]
        BY <2>1, <2>3, Typed, RequestTypes
      <3>3. QED
        BY <1>1, <3>1, <3>2 DEF SessionsInv, SessionsTypeOK
    <2>6. \A x \in Sessions : RowFades(x)
      BY <1>1, <2>2, <2>4 DEF RowFades, Live, Announced
    <2>7. /\ request'[r].pc = "issue" /\ request'[r].user = request[r].user
          /\ request'[r].session = s /\ request'[r].before = request[r].before
          /\ request'[r].raced = request[r].raced
      BY <2>1, <2>3, Typed DEF SessionRequest
    <2>8. \A q \in Requests : GoesOn(q)
      <3>1. ASSUME NEW q \in Requests, q # r
            PROVE  GoesOn(q)
        BY <2>1, <3>1, Typed DEF GoesOn
      <3>2. GoesOn(r)
        BY <1>1, <2>7 DEF GoesOn
      <3>3. QED
        BY <3>1, <3>2
    <2>9. \A x \in Sessions : sessions'[x].state = "revoked" =>
            \/ sessions[x].user \in troubled'
            \/ sessions[x].state = "revoked" /\ (sessions[x].rotated => sessions'[x].rotated)
            \/ \E q \in Requests : request'[q].pc = "issue" /\ request'[q].session = x
      BY <2>2, <2>7
    <2>10. QED
      BY <1>1, <2>5, <2>6, <2>8, <2>9, RowsMove
  <1>4. QED
    BY <1>2, <1>3

LEMMA ExpireKeeps ==
  ASSUME SessionsInv, NEW s \in Sessions, Expire(s)
  PROVE  SessionsInv'
  <1>1. /\ sessions' = [sessions EXCEPT ![s] = [sessions[s] EXCEPT !.expired = TRUE]]
        /\ UNCHANGED <<suspended, suspending, queued, request, missed, troubled>>
    BY DEF Expire
  <1>2. /\ sessions'[s] = [sessions[s] EXCEPT !.expired = TRUE]
        /\ \A x \in Sessions : x # s => sessions'[x] = sessions[x]
    BY <1>1, Typed
  <1>3. sessions[s] \in SessionRow
    BY Typed
  <1>4. /\ sessions'[s].state = sessions[s].state /\ sessions'[s].user = sessions[s].user
        /\ sessions'[s].raced = sessions[s].raced /\ sessions'[s].rotated = sessions[s].rotated
    BY <1>2, <1>3 DEF SessionRow
  <1>5. SessionsTypeOK'
    <2>1. sessions' \in [Sessions -> SessionRow]
      BY <1>1, <1>3, Typed, RowTypes
    <2>2. QED
      BY <1>1, <2>1 DEF SessionsInv, SessionsTypeOK
  <1>6. \A x \in Sessions : RowFades(x)
    BY <1>1, <1>2, <1>4 DEF RowFades, Live, Announced
  <1>7. \A q \in Requests : GoesOn(q)
    BY <1>1 DEF GoesOn
  <1>8. \A x \in Sessions : sessions'[x].state = "revoked" =>
          sessions[x].state = "revoked" /\ (sessions[x].rotated => sessions'[x].rotated)
    BY <1>2, <1>4
  <1>9. QED
    BY <1>1, <1>5, <1>6, <1>7, <1>8, RowsMove

LEMMA PurgeKeeps ==
  ASSUME SessionsInv, PurgeExpired
  PROVE  SessionsInv'
  <1>1. UNCHANGED <<suspended, suspending, queued, request, missed, troubled>>
    BY DEF PurgeExpired
  <1>2. ASSUME NEW s \in Sessions
        PROVE  /\ sessions'[s] \in SessionRow /\ sessions'[s].user = sessions[s].user
               /\ sessions'[s] # sessions[s] => sessions'[s].state = "purged"
    <2>1. CASE ~ sessions[s].expired
      BY <2>1, Typed DEF PurgeExpired
    <2>2. CASE sessions[s].expired
      <3> DEFINE row == [NoRow EXCEPT !.state = "purged", !.user = sessions[s].user]
      <3>1. sessions'[s] = row
        BY <2>2 DEF PurgeExpired
      <3>2. NoRow \in SessionRow /\ sessions[s].user \in Users
        BY BlankTypes, Typed
      <3>3. row \in SessionRow /\ row.user = sessions[s].user /\ row.state = "purged"
        BY <3>2 DEF SessionRow
      <3> HIDE DEF row
      <3>4. QED
        BY <3>1, <3>3
    <2>3. QED
      BY <2>1, <2>2
  <1>3. SessionsTypeOK'
    <2>1. sessions' = [s \in Sessions |-> sessions'[s]]
      BY DEF PurgeExpired
    <2>2. sessions' \in [Sessions -> SessionRow]
      BY <1>2, <2>1
    <2>3. QED
      BY <1>1, <2>2 DEF SessionsInv, SessionsTypeOK
  <1>4. \A s \in Sessions : RowFades(s)
    BY <1>1, <1>2 DEF RowFades, Live, Announced
  <1>5. \A q \in Requests : GoesOn(q)
    BY <1>1 DEF GoesOn
  <1>6. \A s \in Sessions : sessions'[s].state = "revoked" => sessions'[s] = sessions[s]
    BY <1>2
  <1>7. QED
    BY <1>1, <1>3, <1>4, <1>5, <1>6, RowsMove

\* The next row becomes a live session of the request's user, and the row it was exchanged
\* for is marked; nothing else moves.
LEMMA IssueKeeps ==
  ASSUME SessionsInv, NEW r \in Requests, IssueSession(r)
  PROVE  SessionsInv'
  <1>1. PICK s \in Sessions :
          /\ sessions[s].state = "none"
          /\ sessions' = [x \in Sessions |->
               IF x = s THEN [state |-> "live", user |-> request[r].user, expired |-> FALSE,
                              rotated |-> FALSE, raced |-> request[r].raced]
               ELSE IF x = request[r].session /\ sessions[x].state = "revoked"
                    THEN [sessions[x] EXCEPT !.rotated = TRUE]
               ELSE sessions[x]]
    BY DEF IssueSession
  <1>2. /\ request[r].pc \in {"login", "issue"}
        /\ request' = [request EXCEPT ![r] = NoRequest]
        /\ UNCHANGED <<suspended, suspending, queued, missed, troubled>>
    BY DEF IssueSession, EndRequest
  <1>3. request[r].user \in Users /\ request[r].raced \in BOOLEAN
    BY Typed DEF SessionRequest
  <1> DEFINE row == [state |-> "live", user |-> request[r].user, expired |-> FALSE,
                     rotated |-> FALSE, raced |-> request[r].raced]
  <1>4. sessions'[s] = row
    BY <1>1
  <1>5. /\ row \in SessionRow /\ row.state = "live" /\ row.user = request[r].user
        /\ row.raced = request[r].raced
    BY <1>3 DEF SessionRow
  <1> HIDE DEF row
  <1>6. ASSUME NEW x \in Sessions, x # s
        PROVE  /\ sessions'[x] \in SessionRow
               /\ sessions'[x].state = sessions[x].state /\ sessions'[x].user = sessions[x].user
               /\ sessions'[x].raced = sessions[x].raced
               /\ sessions[x].rotated => sessions'[x].rotated
               /\ x = request[r].session /\ sessions[x].state = "revoked" => sessions'[x].rotated
    <2>1. sessions[x] \in SessionRow
      BY Typed
    <2>2. CASE x = request[r].session /\ sessions[x].state = "revoked"
      <3>1. sessions'[x] = [sessions[x] EXCEPT !.rotated = TRUE]
        BY <1>1, <1>6, <2>2
      <3>2. sessions'[x] \in SessionRow
        BY <2>1, <3>1, RowTypes
      <3>3. /\ sessions'[x].state = sessions[x].state /\ sessions'[x].user = sessions[x].user
            /\ sessions'[x].raced = sessions[x].raced /\ sessions'[x].rotated = TRUE
        BY <2>1, <3>1 DEF SessionRow
      <3>4. QED
        BY <3>2, <3>3
    <2>3. CASE ~ (x = request[r].session /\ sessions[x].state = "revoked")
      <3>1. sessions'[x] = sessions[x]
        BY <1>1, <1>6, <2>3
      <3>2. QED
        BY <2>1, <2>3, <3>1
    <2>4. QED
      BY <2>2, <2>3
  <1>7. /\ request'[r] = NoRequest
        /\ \A q \in Requests : q # r => request'[q] = request[q]
    BY <1>2, Typed
  <1>8. NoRequest \in SessionRequest /\ NoRequest.pc = "idle" /\ NoRequest.before = {}
    BY BlankTypes DEF NoRequest
  <1>9. \A q \in Requests : request'[q].pc # "idle" => q # r /\ request'[q] = request[q]
    BY <1>7, <1>8
  <1>10. SessionsTypeOK'
    <2>1. sessions' = [x \in Sessions |-> sessions'[x]]
      BY <1>1
    <2>2. \A x \in Sessions : sessions'[x] \in SessionRow
      BY <1>4, <1>5, <1>6
    <2>3. sessions' \in [Sessions -> SessionRow]
      BY <2>1, <2>2
    <2>4. request' \in [Requests -> SessionRequest]
      BY <1>2, <1>8, Typed
    <2>5. QED
      BY <1>2, <2>3, <2>4 DEF SessionsInv, SessionsTypeOK
  <1>11. RowsAnnounced'
    <2> SUFFICES ASSUME NEW x \in Sessions, Live(x)', ~ sessions'[x].raced
                 PROVE  Settled(sessions[x].user)' \/ Announced(sessions[x].user)'
      BY DEF RowsAnnounced
    <2>1. CASE x = s
      <3>1. Settled(request[r].user)
        BY <1>2, <1>4, <1>5, <2>1 DEF SessionsInv, RequestsSettled, InFlight
      <3>2. QED
        BY <1>2, <1>4, <1>5, <2>1, <3>1 DEF Settled
    <2>2. CASE x # s
      BY <1>2, <1>6, <2>2 DEF SessionsInv, RowsAnnounced, Live, Settled, Announced
    <2>3. QED
      BY <2>1, <2>2
  <1>12. RequestsSettled'
    BY <1>2, <1>9 DEF SessionsInv, RequestsSettled, InFlight, Settled
  <1>13. ASSUME NEW q \in Requests, NEW x \in Sessions, sessions[x].state # "none"
         PROVE  /\ sessions'[x].state # "none" /\ sessions'[x].user = sessions[x].user
                /\ Live(x)' => Live(x)
    BY <1>1, <1>6, <1>13 DEF Live
  <1>14. BeforeKnown'
    <2> SUFFICES ASSUME NEW q \in Requests, NEW x \in request'[q].before
                 PROVE  sessions'[x].state # "none" /\ sessions'[x].user = request'[q].user
      BY DEF BeforeKnown
    <2>1. request'[q] = request[q]
      BY <1>7, <1>8
    <2>2. x \in Sessions /\ sessions[x].state # "none" /\ sessions[x].user = request[q].user
      BY <2>1, Typed DEF SessionsInv, BeforeKnown, SessionRequest
    <2>3. QED
      BY <1>13, <2>1, <2>2
  <1>15. ReuseEndsSessions'
    <2> SUFFICES ASSUME NEW q \in Requests, request'[q].pc = "invalid",
                        NEW x \in request'[q].before
                 PROVE  ~ Live(x)'
      BY DEF ReuseEndsSessions
    <2>1. request'[q] = request[q]
      BY <1>9
    <2>2. x \in Sessions /\ sessions[x].state # "none"
      BY <2>1, Typed DEF SessionsInv, BeforeKnown, SessionRequest
    <2>3. ~ Live(x)
      BY <2>1 DEF SessionsInv, ReuseEndsSessions
    <2>4. QED
      BY <1>13, <2>2, <2>3
  <1>16. TokensKnown'
    <2> SUFFICES ASSUME NEW q \in Requests, request'[q].pc \in {"revoke_all", "revoke", "issue"}
                 PROVE  /\ request'[q].session \in Sessions
                        /\ sessions'[request'[q].session].state # "none"
                        /\ sessions'[request'[q].session].user = request'[q].user
      BY DEF TokensKnown
    <2>1. request'[q] = request[q]
      BY <1>9
    <2>2. QED
      BY <1>13, <2>1 DEF SessionsInv, TokensKnown
  <1>17. ReusersTroubled'
    BY <1>2, <1>9 DEF SessionsInv, ReusersTroubled
  <1>18. SuspendedTroubled'
    BY <1>2 DEF SessionsInv, SuspendedTroubled
  <1>19. KeepsSessions'
    <2> SUFFICES ASSUME NEW x \in Sessions, sessions'[x].state = "revoked",
                        sessions'[x].user \notin troubled, ~ sessions'[x].rotated
                 PROVE  \E q \in Requests : request'[q].pc = "issue" /\ request'[q].session = x
      BY <1>2 DEF KeepsSessions
    <2>1. x # s
      BY <1>4, <1>5
    <2>2. /\ sessions[x].state = "revoked" /\ sessions[x].user \notin troubled
          /\ ~ sessions[x].rotated /\ x # request[r].session
      BY <1>6, <2>1
    <2>3. PICK q \in Requests : request[q].pc = "issue" /\ request[q].session = x
      BY <2>2 DEF SessionsInv, KeepsSessions
    <2>4. QED
      BY <1>7, <2>2, <2>3
  <1>20. QED
    BY <1>10, <1>11, <1>12, <1>14, <1>15, <1>16, <1>17, <1>18, <1>19 DEF SessionsInv

LEMMA RequestStepKeeps ==
  ASSUME SessionsInv, NEW r \in Requests, RequestStep(r)
  PROVE  SessionsInv'
  <1>1. CASE RefuseToken(r)
    BY <1>1, Typed, EndKeeps DEF RefuseToken
  <1>2. CASE Abandon(r)
    <2>1. /\ EndRequest(r) /\ troubled' = troubled \cup {request[r].user}
          /\ UNCHANGED <<suspended, suspending, queued, sessions, missed>>
      BY <1>2 DEF Abandon
    <2>2. QED
      BY <2>1, Typed, EndKeeps
  <1>3. QED
    BY <1>1, <1>2, IssueKeeps, RevokeAllKeeps, RevokeRotatedKeeps DEF RequestStep

-----------------------------------------------------------------------------
(* Suspensions                                                              *)

LEMMA BeginSuspendKeeps ==
  ASSUME SessionsInv, NEW t \in Tenants, BeginSuspend(t)
  PROVE  SessionsInv'
  <1>1. /\ suspending' = [suspending EXCEPT ![t] = TRUE] /\ ~ suspending[t]
        /\ troubled' = troubled \cup Members(t) /\ UNCHANGED <<suspended, sessions>>
    BY DEF BeginSuspend
  <1>2. /\ queued \in [Tenants -> 0..MaxQueued] /\ missed \in [Tenants -> BOOLEAN]
        /\ suspending \in [Tenants -> BOOLEAN] /\ MaxQueued \in Nat
    BY SessionsAssumption DEF SessionsInv, SessionsTypeOK
  <1>3. /\ queued' \in [Tenants -> 0..MaxQueued] /\ missed' \in [Tenants -> BOOLEAN]
        /\ \A x \in Tenants : x # t => queued'[x] = queued[x] /\ missed'[x] = missed[x]
        /\ queued'[t] > 0 \/ missed'[t]
    <2>1. CASE queued[t] < MaxQueued /\ queued' = [queued EXCEPT ![t] = queued[t] + 1]
               /\ UNCHANGED missed
      BY <1>2, <2>1
    <2>2. CASE missed' = [missed EXCEPT ![t] = TRUE] /\ UNCHANGED queued
      BY <1>2, <2>2
    <2>3. QED
      BY <2>1, <2>2 DEF BeginSuspend
  <1>4. ASSUME NEW q \in Requests
        PROVE  /\ request'[q] \in SessionRequest
               /\ request'[q].user = request[q].user /\ request'[q].session = request[q].session
               /\ request'[q].before = request[q].before /\ request'[q].pc = request[q].pc
               /\ request[q].raced => request'[q].raced
               /\ InFlight(q) /\ ~ request'[q].raced => TenantOf[request[q].user] # t
    <2>1. request[q] \in SessionRequest
      BY Typed
    <2>2. CASE InFlight(q) /\ TenantOf[request[q].user] = t
      <3>1. request'[q] = [request[q] EXCEPT !.raced = TRUE]
        BY <2>2 DEF BeginSuspend
      <3>2. request'[q] \in SessionRequest
        BY <2>1, <3>1, RequestTypes
      <3>3. /\ request'[q].user = request[q].user /\ request'[q].session = request[q].session
            /\ request'[q].before = request[q].before /\ request'[q].pc = request[q].pc
            /\ request'[q].raced = TRUE
        BY <2>1, <3>1 DEF SessionRequest
      <3>4. QED
        BY <3>2, <3>3
    <2>3. CASE ~ (InFlight(q) /\ TenantOf[request[q].user] = t)
      <3>1. request'[q] = request[q]
        BY <2>3 DEF BeginSuspend
      <3>2. QED
        BY <2>1, <2>3, <3>1
    <2>4. QED
      BY <2>2, <2>3
  <1>5. SessionsTypeOK'
    <2>1. request' = [q \in Requests |-> request'[q]]
      BY DEF BeginSuspend
    <2>2. request' \in [Requests -> SessionRequest]
      BY <1>4, <2>1
    <2>3. suspending' \in [Tenants -> BOOLEAN]
      BY <1>1, <1>2
    <2>4. troubled' \in SUBSET Users
      BY <1>1, Typed DEF Members
    <2>5. QED
      BY <1>1, <1>3, <2>2, <2>3, <2>4 DEF SessionsInv, SessionsTypeOK
  <1>6. ASSUME NEW u \in Users
        PROVE  /\ Announced(u) => Announced(u)'
               /\ TenantOf[u] = t => Announced(u)'
               /\ TenantOf[u] # t => (Settled(u) => Settled(u)')
    <2>1. TenantOf[u] \in Tenants
      BY SessionsAssumption
    <2>2. QED
      BY <1>1, <1>2, <1>3, <2>1 DEF Announced, Settled
  <1>7. ASSUME NEW u \in Users
        PROVE  Settled(u) => Settled(u)' \/ Announced(u)'
    BY <1>6
  <1>8. \A x \in Tenants : queued'[x] > 0 => queued[x] > 0 \/ Members(x) \subseteq troubled'
    BY <1>1, <1>3
  <1>9. QED
    BY <1>1, <1>4, <1>5, <1>6, <1>7, <1>8, Typed, SuspensionMoves

LEMMA SuspensionStepKeeps ==
  ASSUME SessionsInv, NEW t \in Tenants, SuspensionStep(t)
  PROVE  SessionsInv'
  <1>1. /\ queued \in [Tenants -> 0..MaxQueued] /\ missed \in [Tenants -> BOOLEAN]
        /\ suspending \in [Tenants -> BOOLEAN] /\ suspended \in [Tenants -> BOOLEAN]
        /\ TenantOf \in [Users -> Tenants] /\ MaxQueued \in Nat
    BY SessionsAssumption DEF SessionsInv, SessionsTypeOK
  <1>2. CASE CommitSuspend(t)
    <2>1. /\ suspending[t] /\ suspending' = [suspending EXCEPT ![t] = FALSE]
          /\ suspended' = [suspended EXCEPT ![t] = TRUE]
          /\ UNCHANGED <<queued, sessions, request, missed, troubled>>
      BY <1>2 DEF CommitSuspend
    <2>2. SessionsTypeOK'
      BY <1>1, <2>1 DEF SessionsInv, SessionsTypeOK
    <2>3. \A u \in Users : (Announced(u) => Announced(u)') /\ (Settled(u) => Settled(u)')
      BY <1>1, <2>1 DEF Announced, Settled
    <2>4. QED
      BY <2>1, <2>2, <2>3, Typed, SuspensionMoves
  <1>3. CASE AbortSuspend(t)
    <2>1. /\ suspending' = [suspending EXCEPT ![t] = FALSE]
          /\ UNCHANGED <<suspended, queued, sessions, request, missed, troubled>>
      BY <1>3 DEF AbortSuspend
    <2>2. SessionsTypeOK'
      BY <1>1, <2>1 DEF SessionsInv, SessionsTypeOK
    <2>3. \A u \in Users : (Announced(u) => Announced(u)') /\ (Settled(u) => Settled(u)')
      BY <1>1, <2>1 DEF Announced, Settled
    <2>4. QED
      BY <2>1, <2>2, <2>3, Typed, SuspensionMoves
  <1>4. CASE Activate(t)
    <2>1. /\ suspended' = [suspended EXCEPT ![t] = FALSE]
          /\ UNCHANGED <<suspending, queued, sessions, request, missed, troubled>>
      BY <1>4 DEF Activate
    <2>2. SessionsTypeOK'
      BY <1>1, <2>1 DEF SessionsInv, SessionsTypeOK
    <2>3. \A u \in Users : (Announced(u) => Announced(u)') /\ (Settled(u) => Settled(u)')
      BY <1>1, <2>1 DEF Announced, Settled
    <2>4. QED
      BY <2>1, <2>2, <2>3, Typed, SuspensionMoves
  <1>5. CASE LoseRevocation(t)
    <2>1. /\ queued[t] > 0 /\ queued' = [queued EXCEPT ![t] = queued[t] - 1]
          /\ missed' = [missed EXCEPT ![t] = TRUE]
          /\ UNCHANGED <<suspended, suspending, sessions, request, troubled>>
      BY <1>5 DEF LoseRevocation
    <2>2. queued' \in [Tenants -> 0..MaxQueued] /\ missed' \in [Tenants -> BOOLEAN]
      BY <1>1, <2>1
    <2>3. SessionsTypeOK'
      BY <2>1, <2>2 DEF SessionsInv, SessionsTypeOK
    <2>4. \A u \in Users : (Announced(u) => Announced(u)') /\ (Settled(u) => Settled(u)')
      BY <1>1, <2>1 DEF Announced, Settled
    <2>5. \A x \in Tenants : queued'[x] > 0 => queued[x] > 0
      BY <1>1, <2>1
    <2>6. QED
      BY <2>1, <2>3, <2>4, <2>5, Typed, SuspensionMoves
  <1>6. QED
    BY <1>2, <1>3, <1>4, <1>5, BeginSuspendKeeps, RevokeTenantKeeps DEF SuspensionStep

-----------------------------------------------------------------------------
LEMMA SessionsInitially ==
  ASSUME SessionsInit
  PROVE  SessionsInv
  <1>1. /\ NoRow \in SessionRow /\ NoRow.state = "none"
        /\ NoRequest \in SessionRequest /\ NoRequest.pc = "idle" /\ NoRequest.before = {}
    BY BlankTypes DEF NoRow, NoRequest
  <1>2. /\ \A s \in Sessions : sessions[s] = NoRow
        /\ \A r \in Requests : request[r] = NoRequest
    BY DEF SessionsInit
  <1>3. SessionsTypeOK
    BY <1>1, SessionsAssumption DEF SessionsInit, SessionsTypeOK
  <1>4. RowsAnnounced /\ RequestsSettled /\ KeepsSessions
    BY <1>1, <1>2 DEF RowsAnnounced, RequestsSettled, KeepsSessions, Live, InFlight
  <1>5. BeforeKnown /\ ReuseEndsSessions /\ TokensKnown /\ ReusersTroubled
    BY <1>1, <1>2 DEF BeforeKnown, ReuseEndsSessions, TokensKnown, ReusersTroubled
  <1>6. SuspendedTroubled
    BY DEF SessionsInit, SuspendedTroubled
  <1>7. QED
    BY <1>3, <1>4, <1>5, <1>6 DEF SessionsInv

LEMMA SessionsStep ==
  ASSUME SessionsInv, [SessionsNext]_sessionVars
  PROVE  SessionsInv'
  <1>1. CASE SessionsNext
    BY <1>1, LoginKeeps, RefreshKeeps, RequestStepKeeps, LogoutAllKeeps, ExpireKeeps,
       PurgeKeeps, SuspensionStepKeeps DEF SessionsNext
  <1>2. CASE UNCHANGED sessionVars
    <2>1. SessionsTypeOK'
      BY <1>2 DEF SessionsInv, SessionsTypeOK, sessionVars
    <2>2. /\ \A r \in Requests : GoesOn(r)
          /\ \A s \in Sessions : RowFades(s)
      BY <1>2 DEF sessionVars, GoesOn, RowFades, Live, Announced
    <2>3. QED
      BY <1>2, <2>1, <2>2, RowsMove DEF sessionVars
  <1>3. QED
    BY <1>1, <1>2

\* The invariant of the sessions.
THEOREM SessionsCorrect == SessionsSpec => []SessionsInv
  <1>1. SessionsInit => SessionsInv
    BY SessionsInitially
  <1>2. SessionsInv /\ [SessionsNext]_sessionVars => SessionsInv'
    BY SessionsStep
  <1>3. QED
    BY <1>1, <1>2, PTL DEF SessionsSpec

\* revoke_tenant_sessions leaves a suspended tenant no session but those of requests that
\* raced the suspension, and of what was rotated out of them.
THEOREM SuspensionRevokes == SessionsSpec => []SuspensionEndsSessions
  <1>1. SessionsInv => SuspensionEndsSessions
    BY SessionsAssumption
    DEF SessionsInv, SessionsTypeOK, SessionRow, RowsAnnounced, SuspensionEndsSessions, Settled,
        Announced, Unsettled
  <1>2. QED
    BY <1>1, SessionsCorrect, PTL

\* rotate_refresh_token ends every session the user had when it found the token reused.
THEOREM ReuseRevokes == SessionsSpec => []ReuseEndsSessions
  <1>1. SessionsInv => ReuseEndsSessions
    BY DEF SessionsInv
  <1>2. QED
    BY <1>1, SessionsCorrect, PTL

\* Nobody loses a session by what other users, tenants and late messages do.
THEOREM NobodyElseIsLoggedOut == SessionsSpec => []KeepsSessions
  <1>1. SessionsInv => KeepsSessions
    BY DEF SessionsInv
  <1>2. QED
    BY <1>1, SessionsCorrect, PTL
=============================================================================
