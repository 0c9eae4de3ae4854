--------------------------- MODULE OneTimeReveal ---------------------------
(***************************************************************************)
(* The one-time reveal of the admin password: the dashboard keeps it in the *)
(* staff member's Django session until the tenant's page is opened.  A       *)
(* request loads the whole session when it begins and, if it changed it,     *)
(* saves the whole session when it is answered; the requests that provision *)
(* take minutes, and other pages of the same browser run meanwhile.         *)
(***************************************************************************)
EXTENDS Naturals

CONSTANTS
  Runs,        \* passwords: those of the provisioning runs started in this session
  Pages,       \* requests of the session that are in flight at the same time
  NoPassword

ASSUME RevealAssumption == NoPassword \notin Runs

VARIABLES
  session,     \* just_created_password, as saved
  page,        \* a request and its copy of the session
  started,     \* the runs that were started
  shown,       \* history: how often a password was shown, cut off at 2
  shared       \* history: passwords that two requests had in their copies at one time

revealVars == <<session, page, started, shown, shared>>

Password == Runs \cup {NoPassword}

Page == [pc : {"idle", "detail", "provision"}, copy : Password, run : Password, retry : BOOLEAN]

NoPage == [pc |-> "idle", copy |-> NoPassword, run |-> NoPassword, retry |-> FALSE]

RevealTypeOK ==
  /\ session \in Password /\ page \in [Pages -> Page]
  /\ started \in SUBSET Runs /\ shared \in SUBSET Runs
  /\ shown \in [Runs -> 0..2]

RevealInit ==
  /\ session = NoPassword
  /\ page = [p \in Pages |-> NoPage]
  /\ started = {} /\ shared = {}
  /\ shown = [x \in Runs |-> 0]

Held(x) == \E p \in Pages : page[p].copy = x

\* The session is loaded when login_required asks for the user.
Load(p, pc, run, retry) ==
  /\ page[p].pc = "idle"
  /\ page' = [page EXCEPT ![p] = [pc |-> pc, copy |-> session, run |-> run, retry |-> retry]]
  /\ shared' = IF session # NoPassword /\ Held(session) THEN shared \cup {session} ELSE shared
  /\ UNCHANGED <<session, shown>>

\* tenant_retry, or create_organization after its form was valid.
BeginRun(p, x, retry) ==
  /\ x \notin started
  /\ Load(p, "provision", x, retry)
  /\ started' = started \cup {x}

OpenDetail(p) ==
  /\ Load(p, "detail", NoPassword, FALSE)
  /\ UNCHANGED started

Answer(p, password) ==
  /\ session' = password
  /\ page' = [page EXCEPT ![p] = NoPage]
  /\ UNCHANGED <<started, shared>>

\* last_created_password is put into the copy.
RunSucceeds(p) ==
  /\ page[p].pc = "provision"
  /\ Answer(p, page[p].run)
  /\ UNCHANGED shown

\* provisioning_error is put into the copy, and the rest is saved with it as it was loaded;
\* create_organization clears the password.
RunFails(p) ==
  /\ page[p].pc = "provision"
  /\ Answer(p, IF page[p].retry THEN page[p].copy ELSE NoPassword)
  /\ UNCHANGED shown

\* The password is read and left in the session.
ShowDetailAndKeep(p) ==
  /\ page[p].pc = "detail"
  /\ shown' = [x \in Runs |-> IF x = page[p].copy /\ shown[x] < 2 THEN shown[x] + 1 ELSE shown[x]]
  /\ Answer(p, session)

\* tenant_detail pops the password and shows it; without one nothing is saved, and with a
\* provisioning_error alone the copy without a password is.
ShowDetail(p) ==
  /\ page[p].pc = "detail"
  /\ shown' = [x \in Runs |-> IF x = page[p].copy /\ shown[x] < 2 THEN shown[x] + 1 ELSE shown[x]]
  /\ \/ Answer(p, NoPassword)
     \/ page[p].copy = NoPassword /\ Answer(p, session)

\* The tenant is not there, or the session cannot be saved: nothing is shown.
FailPage(p) ==
  /\ page[p].pc # "idle"
  /\ Answer(p, session)
  /\ UNCHANGED shown

RevealNext ==
  \E p \in Pages :
    \/ OpenDetail(p) \/ ShowDetail(p) \/ RunSucceeds(p) \/ RunFails(p) \/ FailPage(p)
    \/ \E x \in Runs, retry \in BOOLEAN : BeginRun(p, x, retry)

RevealSpec == RevealInit /\ [][RevealNext]_revealVars

-----------------------------------------------------------------------------
\* "One-time reveal": a password is shown a second time only when two requests had loaded the
\* session while it was there, of which a retry that fails puts back what a page took out.
RevealedOnce == \A x \in Runs : shown[x] = 2 => x \in shared
=============================================================================
