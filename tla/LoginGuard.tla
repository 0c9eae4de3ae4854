----------------------------- MODULE LoginGuard -----------------------------
(***************************************************************************)
(* AuthenticationService.authenticate() for one account: the lock, the      *)
(* password, the second factor, and the two saves of the User row, which    *)
(* write columns of a copy read before the password was checked.  Several   *)
(* logins run at once.  Meanwhile enroll_mfa and confirm_mfa_enrollment     *)
(* change the second factor, staff save the form of the user in the admin,  *)
(* and the login pages with a Django session check the same password, past  *)
(* the lock.  Each action is one query or one save.                         *)
(***************************************************************************)
EXTENDS Naturals, FiniteSets

CONSTANTS
  Clients,       \* logins, MFA requests and forms of staff in flight at the same time
  MaxFailures,   \* failed logins that take the lock; 5 in the code
  LockTime,      \* how long the lock is held; 30 minutes in the code
  Longest,       \* how far ahead staff set locked_until, at most
  Secrets,       \* TOTP secrets; a code is the secret it was computed from
  NoSecret       \* mfa_secret_encrypted = NULL; a login that sends no code

\* A server has finitely many workers.
ASSUME GuardAssumption ==
  /\ MaxFailures \in Nat \ {0} /\ LockTime \in Nat \ {0}
  /\ Longest \in Nat /\ LockTime <= Longest
  /\ IsFiniteSet(Clients)
  /\ NoSecret \notin Secrets

VARIABLES
  account,   \* the User row
  client,    \* a request that has read the row
  guesses,   \* history: wrong passwords authenticate() has tried since it last let somebody
             \* in, a lock ended or staff saved the form
  held,      \* history: how long the account has been locked, without a break and since
             \* staff last saved the form
  imposed    \* history: the lock that staff saved then, 0 when the account is open

guardVars == <<account, client, guesses, held, imposed>>

MFACodes == Secrets \cup {NoSecret}

\* failures is failed_login_attempts, cut off at MaxFailures: from there on all values
\* lock.  lock is the time until locked_until, 0 when that is NULL or past.
Account == [failures : 0..MaxFailures, lock : 0..Longest, secret : MFACodes, mfa : BOOLEAN]

\* The request's copy of the row.  A copy that is acted on was not locked when it was read,
\* so its locked_until is NULL or past.
Copy == [pc : {"idle", "login", "confirm", "form"}, failures : 0..MaxFailures, secret : MFACodes,
         mfa : BOOLEAN]

NoCopy == [pc |-> "idle", failures |-> 0, secret |-> NoSecret, mfa |-> FALSE]

GuardTypeOK ==
  /\ account \in Account
  /\ client \in [Clients -> Copy]
  /\ guesses \in Nat /\ held \in Nat /\ imposed \in 0..Longest

GuardInit ==
  /\ account = [failures |-> 0, lock |-> 0, secret |-> NoSecret, mfa |-> FALSE]
  /\ client = [c \in Clients |-> NoCopy]
  /\ guesses = 0 /\ held = 0 /\ imposed = 0

Counted(n) == IF n < MaxFailures THEN n + 1 ELSE MaxFailures

\* TOTP.verify, against the secret of the copy.
Verifies(c, code) == client[c].secret # NoSecret /\ code = client[c].secret

\* A request that reads the row.
Take(c, pc) ==
  /\ client[c].pc = "idle"
  /\ client' = [client EXCEPT ![c] = [pc |-> pc, failures |-> account.failures,
                                      secret |-> account.secret, mfa |-> account.mfa]]

Done(c) == client' = [client EXCEPT ![c] = NoCopy]

-----------------------------------------------------------------------------
(* LoginView, which alone calls authenticate()                               *)

\* The lock is looked at only after the password was found right.
ReadUserAnyway(c) ==
  /\ Take(c, "login")
  /\ UNCHANGED <<account, guesses, held, imposed>>

\* A login that meets the lock changes nothing.
ReadUser(c) ==
  /\ account.lock = 0
  /\ Take(c, "login")
  /\ UNCHANGED <<account, guesses, held, imposed>>

\* The lock is taken when the count is passed, not when it is reached.
RegisterFailedLoginLate(c) ==
  /\ client[c].pc = "login"
  /\ account' = [account EXCEPT
       !.failures = Counted(client[c].failures),
       !.lock = IF client[c].failures >= MaxFailures THEN LockTime ELSE 0]
  /\ guesses' = guesses + 1
  /\ held' = IF client[c].failures >= MaxFailures THEN held ELSE 0
  /\ imposed' = IF client[c].failures >= MaxFailures THEN imposed ELSE 0
  /\ Done(c)

\* register_failed_login: the count of the copy plus one, and the locked_until of the copy
\* unless the lock is taken now.
RegisterFailedLogin(c) ==
  /\ client[c].pc = "login"
  /\ LET n == Counted(client[c].failures) IN
       account' = [account EXCEPT !.failures = n,
                                  !.lock = IF n >= MaxFailures THEN LockTime ELSE 0]
  /\ guesses' = guesses + 1
  /\ held' = IF Counted(client[c].failures) >= MaxFailures THEN held ELSE 0
  /\ imposed' = IF Counted(client[c].failures) >= MaxFailures THEN imposed ELSE 0
  /\ Done(c)

\* The password is right and the second factor is not: nothing is counted.
RequireMFA(c) ==
  /\ client[c].pc = "login"
  /\ client[c].mfa /\ \E code \in MFACodes : ~ Verifies(c, code)
  /\ Done(c)
  /\ UNCHANGED <<account, guesses, held, imposed>>

\* register_successful_login.
RegisterSuccessfulLogin(c) ==
  /\ client[c].pc = "login"
  /\ client[c].mfa => \E code \in MFACodes : Verifies(c, code)
  /\ account' = [account EXCEPT !.failures = 0, !.lock = 0]
  /\ guesses' = 0 /\ held' = 0 /\ imposed' = 0
  /\ Done(c)

-----------------------------------------------------------------------------
(* MFAEnrollView and MFAConfirmView, for a user who is logged in             *)

EnrollMFA(secret) ==
  /\ account' = [account EXCEPT !.secret = secret]
  /\ UNCHANGED <<client, guesses, held, imposed>>

ReadSecret(c) ==
  /\ Take(c, "confirm")
  /\ UNCHANGED <<account, guesses, held, imposed>>

\* A save() without update_fields writes the whole copy back.
ConfirmMFASavingAll(c, code) ==
  /\ client[c].pc = "confirm"
  /\ \/ /\ Verifies(c, code)
        /\ account' = [failures |-> client[c].failures, lock |-> 0, mfa |-> TRUE,
                       secret |-> client[c].secret]
     \/ ~ Verifies(c, code) /\ UNCHANGED account
  /\ Done(c)
  /\ UNCHANGED <<guesses, held, imposed>>

\* The code is checked against the copy, and only mfa_enabled is saved.
ConfirmMFA(c, code) ==
  /\ client[c].pc = "confirm"
  /\ \/ /\ Verifies(c, code)
        /\ account' = [account EXCEPT !.mfa = TRUE]
     \/ ~ Verifies(c, code) /\ UNCHANGED account
  /\ Done(c)
  /\ UNCHANGED <<guesses, held, imposed>>

-----------------------------------------------------------------------------
(* Everybody else who reads or writes these columns                         *)

\* TenantUserBackend and PlatformStaffBackend, behind the login pages of the portal, the
\* dashboard and the admin, check the password of the row: they do not look at the lock,
\* count nothing, and save none of these columns.
SessionLogin == UNCHANGED guardVars

\* The post of the form of a user in the admin: the row is read once more ...
PostUserForm(c) ==
  /\ Take(c, "form")
  /\ UNCHANGED <<account, guesses, held, imposed>>

\* ... and saved whole: the count, the lock and mfa_enabled as the form has them, rendered at
\* any time before and edited at will, the secret as it was read.
SaveUserForm(c, failures, lock, mfa) ==
  /\ client[c].pc = "form"
  /\ account' = [failures |-> failures, lock |-> lock, secret |-> client[c].secret, mfa |-> mfa]
  /\ guesses' = 0 /\ held' = 0 /\ imposed' = lock
  /\ Done(c)

\* The clock.  When the lock ends, the count stays where it is.
Tick ==
  /\ account.lock > 0
  /\ account' = [account EXCEPT !.lock = @ - 1]
  /\ guesses' = IF account.lock = 1 THEN 0 ELSE guesses
  /\ held' = IF account.lock = 1 THEN 0 ELSE held + 1
  /\ imposed' = IF account.lock = 1 THEN 0 ELSE imposed
  /\ UNCHANGED client

GuardStep(c) ==
  \/ ReadUser(c) \/ RegisterFailedLogin(c) \/ RequireMFA(c) \/ RegisterSuccessfulLogin(c)
  \/ ReadSecret(c) \/ \E code \in MFACodes : ConfirmMFA(c, code)
  \/ PostUserForm(c)
  \/ \E failures \in 0..MaxFailures, lock \in 0..Longest, mfa \in BOOLEAN :
       SaveUserForm(c, failures, lock, mfa)

GuardNext ==
  \/ \E c \in Clients : GuardStep(c)
  \/ \E secret \in Secrets : EnrollMFA(secret)
  \/ SessionLogin
  \/ Tick

GuardSpec == GuardInit /\ [][GuardNext]_guardVars

-----------------------------------------------------------------------------
\* An account that is not locked is one failure short of the lock at most, whatever its count.
ShortOfLock(failures) == IF failures < MaxFailures THEN failures ELSE MaxFailures - 1

FailuresRead == [c \in Clients |->
  IF client[c].pc = "login" THEN ShortOfLock(client[c].failures) ELSE MaxFailures]

Failures == INSTANCE StaleCounter
  WITH Procs <- Clients, Full <- MaxFailures, hold <- FailuresRead, writes <- guesses,
       value <- IF account.lock > 0 THEN MaxFailures ELSE ShortOfLock(account.failures)

\* The lock is a counter that authenticate() does not read when it is full: it tries a wrong
\* password only after it found the account open, and the count starts again only when it
\* lets somebody in, a lock ends or staff save the form; requests about the second factor
\* neither raise the counter nor reset it.  Passwords tried at the login pages with a Django
\* session pass by the counter, and nothing here is said of them.
RefinesFailures == Failures!CounterSpec

\* Parallel calls of authenticate() are checked against counts read earlier, and a late
\* failure writes back an old count and lifts a lock just taken.  Still it tries fewer wrong
\* passwords for one lock than there are ways to spread the calls in flight over the counts.
GuessesBounded == guesses < Cardinality(Failures!Profiles)

LoginsInFlight == {c \in Clients : client[c].pc = "login"}

FormsInFlight == {c \in Clients : client[c].pc = "form"}

\* No login that comes to authenticate() while the account is locked gets to the password,
\* and the lock is lifted before its time only by one that had read the row before, or by
\* staff: the requests about the second factor, with whatever stale copy, do not write these
\* columns back.
LockHolds ==
  [][account.lock > 0 =>
       /\ LoginsInFlight' \subseteq LoginsInFlight
       /\ account'.lock = 0 => \/ account.lock = 1
                               \/ LoginsInFlight' # LoginsInFlight
                               \/ FormsInFlight' # FormsInFlight
    ]_guardVars

\* However many go on guessing, the account is not locked for ever: once the lock that staff
\* imposed, if any, is over, logins that meet a lock do not extend it, and each of those on
\* their way extends it once.
LockBounded == held <= imposed + (LockTime - 1) * Cardinality(Clients)
=============================================================================
