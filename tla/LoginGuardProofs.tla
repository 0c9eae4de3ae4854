-------------------------- MODULE LoginGuardProofs --------------------------
(***************************************************************************)
(* Proofs about LoginGuard, for any number of requests in flight, any       *)
(* number of failures and any life of a lock.                              *)
(***************************************************************************)
EXTENDS LoginGuard, FiniteSetTheorems, TLAPS

LEMMA BlankCopy == NoCopy \in Copy /\ NoCopy.pc = "idle"
  BY GuardAssumption DEF NoCopy, Copy, MFACodes

\* The columns of the User row that are saved keep their types.
LEMMA AccountTypes ==
  ASSUME account \in Account
  PROVE  /\ \A n \in 0..MaxFailures, time \in 0..Longest :
              LET row == [account EXCEPT !.failures = n, !.lock = time]
              IN  row \in Account /\ row.lock = time
         /\ \A secret \in MFACodes :
              LET row == [account EXCEPT !.secret = secret]
              IN  row \in Account /\ row.lock = account.lock
         /\ LET row == [account EXCEPT !.mfa = TRUE]
            IN  row \in Account /\ row.lock = account.lock
         /\ \A time \in 0..Longest :
              LET row == [account EXCEPT !.lock = time]
              IN  row \in Account /\ row.lock = time
  BY DEF Account

\* A lock that is taken is no longer than the longest there may be.
LEMMA LockTimes ==
  /\ LockTime \in 0..Longest /\ 0 \in 0..Longest /\ 0 \in 0..MaxFailures
  /\ MaxFailures \in 0..MaxFailures /\ Longest \in Nat
  /\ LockTime \in Nat \ {0} /\ MaxFailures \in Nat \ {0}
  BY GuardAssumption

LEMMA CountType ==
  ASSUME NEW n \in 0..MaxFailures
  PROVE  Counted(n) \in 0..MaxFailures
  BY GuardAssumption DEF Counted

\* What a request may read, and what its end leaves in flight.
LEMMA CopyReads ==
  ASSUME GuardTypeOK, NEW c \in Clients, NEW pc \in {"login", "confirm", "form"}, Take(c, pc)
  PROVE  /\ client' \in [Clients -> Copy] /\ client[c].pc = "idle"
         /\ client'[c].failures = account.failures
         /\ client'[c].pc = pc /\ \A d \in Clients : d # c => client'[d] = client[d]
  <1>1. [pc |-> pc, failures |-> account.failures, secret |-> account.secret,
         mfa |-> account.mfa] \in Copy
    BY DEF GuardTypeOK, Account, Copy
  <1>2. QED
    BY <1>1 DEF GuardTypeOK, Take

LEMMA CopyEnds ==
  ASSUME GuardTypeOK, NEW c \in Clients, Done(c)
  PROVE  /\ client' \in [Clients -> Copy]
         /\ client'[c].pc = "idle" /\ \A d \in Clients : d # c => client'[d] = client[d]
  BY BlankCopy DEF GuardTypeOK, Done

\* The save of a failure: the lock is taken, or the locked_until of the copy is written.
LEMMA FailureSaves ==
  ASSUME GuardTypeOK, NEW c \in Clients, RegisterFailedLogin(c)
  PROVE  GuardTypeOK' /\ client[c].pc = "login"
  <1>1. client[c].failures \in 0..MaxFailures /\ account \in Account
    BY DEF GuardTypeOK, Copy
  <1> DEFINE n == Counted(client[c].failures)
             time == IF n >= MaxFailures THEN LockTime ELSE 0
  <1>2. n \in 0..MaxFailures /\ time \in 0..Longest
    BY <1>1, CountType, LockTimes
  <1>3. account' = [account EXCEPT !.failures = n, !.lock = time]
    BY DEF RegisterFailedLogin
  <1>4. /\ guesses' = guesses + 1 /\ held' \in {held, 0} /\ imposed' \in {imposed, 0}
        /\ Done(c) /\ client[c].pc = "login"
    BY DEF RegisterFailedLogin
  <1> HIDE DEF n, time
  <1>5. account' \in Account
    BY <1>1, <1>2, <1>3, AccountTypes
  <1>6. QED
    BY <1>4, <1>5, CopyEnds, LockTimes DEF GuardTypeOK

\* The save of the form: the columns are those of the form.
LEMMA FormSaves ==
  ASSUME GuardTypeOK, NEW c \in Clients, NEW failures \in 0..MaxFailures,
         NEW lock \in 0..Longest, NEW mfa \in BOOLEAN, SaveUserForm(c, failures, lock, mfa)
  PROVE  /\ GuardTypeOK' /\ client[c].pc = "form" /\ Done(c)
         /\ account'.lock = lock /\ held' = 0 /\ imposed' = lock /\ guesses' = 0
  <1>1. client[c].secret \in MFACodes
    BY DEF GuardTypeOK, Copy
  <1>2. account' \in Account /\ account'.lock = lock
    BY <1>1 DEF SaveUserForm, Account
  <1>3. QED
    BY <1>2, CopyEnds DEF SaveUserForm, GuardTypeOK

LEMMA GuardTypeStep ==
  ASSUME GuardTypeOK, [GuardNext]_guardVars
  PROVE  GuardTypeOK'
  <1>1. account \in Account /\ 0 \in 0..MaxFailures /\ 0 \in 0..Longest
    BY LockTimes DEF GuardTypeOK
  <1>2. ASSUME NEW c \in Clients, GuardStep(c)
        PROVE  GuardTypeOK'
    <2>1. CASE ReadUser(c)
      BY <2>1, CopyReads DEF ReadUser, GuardTypeOK
    <2>2. CASE RegisterFailedLogin(c)
      BY <2>2, FailureSaves
    <2>3. CASE RequireMFA(c)
      BY <2>3, CopyEnds DEF RequireMFA, GuardTypeOK
    <2>4. CASE RegisterSuccessfulLogin(c)
      <3>1. account' \in Account
        BY <1>1, <2>4, AccountTypes DEF RegisterSuccessfulLogin
      <3>2. QED
        BY <2>4, <3>1, CopyEnds, LockTimes DEF RegisterSuccessfulLogin, GuardTypeOK
    <2>5. CASE ReadSecret(c)
      BY <2>5, CopyReads DEF ReadSecret, GuardTypeOK
    <2>6. ASSUME NEW code \in MFACodes, ConfirmMFA(c, code)
          PROVE  GuardTypeOK'
      <3>1. account' \in Account
        BY <1>1, <2>6, AccountTypes DEF ConfirmMFA
      <3>2. QED
        BY <2>6, <3>1, CopyEnds DEF ConfirmMFA, GuardTypeOK
    <2>7. CASE PostUserForm(c)
      BY <2>7, CopyReads DEF PostUserForm, GuardTypeOK
    <2>8. ASSUME NEW failures \in 0..MaxFailures, NEW lock \in 0..Longest, NEW mfa \in BOOLEAN,
                 SaveUserForm(c, failures, lock, mfa)
          PROVE  GuardTypeOK'
      BY <2>8, FormSaves
    <2>9. QED
      BY <1>2, <2>1, <2>2, <2>3, <2>4, <2>5, <2>6, <2>7, <2>8 DEF GuardStep
  <1>3. ASSUME NEW secret \in Secrets, EnrollMFA(secret)
        PROVE  GuardTypeOK'
    <2>1. account' \in Account
      BY <1>1, <1>3, AccountTypes DEF EnrollMFA, MFACodes
    <2>2. QED
      BY <1>3, <2>1 DEF EnrollMFA, GuardTypeOK
  <1>4. CASE Tick
    <2>1. account.lock \in 0..Longest
      BY <1>1 DEF Account
    <2>2. account.lock - 1 \in 0..Longest
      BY <1>4, <2>1, LockTimes DEF Tick
    <2>3. account' \in Account
      BY <1>1, <1>4, <2>2, AccountTypes DEF Tick
    <2>4. guesses' \in Nat /\ held' \in Nat /\ imposed' \in 0..Longest
      BY <1>1, <1>4 DEF Tick, GuardTypeOK
    <2>5. QED
      BY <1>4, <2>3, <2>4 DEF Tick, GuardTypeOK
  <1>5. CASE UNCHANGED guardVars
    BY <1>5, Zenon DEF guardVars, GuardTypeOK
  <1>6. QED
    BY <1>2, <1>3, <1>4, <1>5 DEF GuardNext, SessionLogin

\* Every step respects a lock that is held.
LEMMA LockStep ==
  ASSUME GuardTypeOK, GuardNext, account.lock > 0
  PROVE  /\ LoginsInFlight' \subseteq LoginsInFlight
         /\ account'.lock = 0 => \/ account.lock = 1
                                 \/ LoginsInFlight' # LoginsInFlight
                                 \/ FormsInFlight' # FormsInFlight
  <1>1. account \in Account /\ account.lock \in 0..Longest /\ 0 \in 0..Longest
    BY LockTimes DEF GuardTypeOK, Account
  <1>2. ASSUME NEW c \in Clients, Done(c)
        PROVE  LoginsInFlight' = LoginsInFlight \ {c}
    BY <1>2, CopyEnds DEF LoginsInFlight
  <1>3. ASSUME NEW c \in Clients, client[c].pc = "login"
        PROVE  c \in LoginsInFlight
    BY <1>3 DEF LoginsInFlight
  <1>4. ASSUME NEW c \in Clients, GuardStep(c)
        PROVE  /\ LoginsInFlight' \subseteq LoginsInFlight
               /\ account'.lock = 0 => \/ account.lock = 1
                                       \/ LoginsInFlight' # LoginsInFlight
                                       \/ FormsInFlight' # FormsInFlight
    <2>1. CASE ReadUser(c)
      BY <1>1, <2>1 DEF ReadUser
    <2>2. CASE RegisterFailedLogin(c)
      BY <1>2, <1>3, <2>2, FailureSaves DEF RegisterFailedLogin
    <2>3. CASE RequireMFA(c)
      BY <1>2, <1>3, <2>3 DEF RequireMFA
    <2>4. CASE RegisterSuccessfulLogin(c)
      BY <1>2, <1>3, <2>4 DEF RegisterSuccessfulLogin
    <2>5. CASE ReadSecret(c)
      <3>1. client'[c].pc = "confirm" /\ \A d \in Clients : d # c => client'[d] = client[d]
        BY <2>5, CopyReads DEF ReadSecret
      <3>2. client[c].pc = "idle" /\ account' = account
        BY <2>5 DEF ReadSecret, Take
      <3>3. QED
        BY <1>1, <3>1, <3>2 DEF LoginsInFlight
    <2>6. ASSUME NEW code \in MFACodes, ConfirmMFA(c, code)
          PROVE  /\ LoginsInFlight' \subseteq LoginsInFlight /\ account'.lock = account.lock
      BY <1>1, <1>2, <2>6, AccountTypes DEF ConfirmMFA
    <2>7. CASE PostUserForm(c)
      <3>1. client'[c].pc = "form" /\ \A d \in Clients : d # c => client'[d] = client[d]
        BY <2>7, CopyReads DEF PostUserForm
      <3>2. account' = account
        BY <2>7 DEF PostUserForm
      <3>3. QED
        BY <1>1, <3>1, <3>2 DEF LoginsInFlight
    <2>8. ASSUME NEW failures \in 0..MaxFailures, NEW lock \in 0..Longest, NEW mfa \in BOOLEAN,
                 SaveUserForm(c, failures, lock, mfa)
          PROVE  LoginsInFlight' \subseteq LoginsInFlight /\ FormsInFlight' # FormsInFlight
      <3>1. client[c].pc = "form" /\ Done(c)
        BY <2>8, FormSaves
      <3>2. client'[c].pc = "idle"
        BY <3>1, CopyEnds
      <3>3. QED
        BY <1>2, <3>1, <3>2 DEF FormsInFlight
    <2>9. QED
      BY <1>1, <1>4, <2>1, <2>2, <2>3, <2>4, <2>5, <2>6, <2>7, <2>8 DEF GuardStep
  <1>5. ASSUME NEW secret \in Secrets, EnrollMFA(secret)
        PROVE  LoginsInFlight' = LoginsInFlight /\ account'.lock = account.lock
    BY <1>1, <1>5, AccountTypes DEF EnrollMFA, MFACodes, LoginsInFlight
  <1>6. CASE Tick
    <2>1. account.lock - 1 \in 0..Longest
      BY <1>1, <1>6, LockTimes DEF Tick
    <2>2. account'.lock = account.lock - 1
      BY <1>1, <1>6, <2>1, AccountTypes DEF Tick
    <2>3. LoginsInFlight' = LoginsInFlight
      BY <1>6 DEF Tick, LoginsInFlight
    <2>4. QED
      BY <1>1, <2>2, <2>3
  <1>7. CASE SessionLogin
    BY <1>1, <1>7 DEF SessionLogin, guardVars, LoginsInFlight
  <1>8. QED
    BY <1>1, <1>4, <1>5, <1>6, <1>7 DEF GuardNext

\* The User row and its copies keep their types.
THEOREM GuardTypeCorrect == GuardSpec => []GuardTypeOK
  <1>1. GuardInit => GuardTypeOK
    BY BlankCopy, LockTimes DEF GuardInit, GuardTypeOK, Account, MFACodes
  <1>2. GuardTypeOK /\ [GuardNext]_guardVars => GuardTypeOK'
    BY GuardTypeStep
  <1>3. QED
    BY <1>1, <1>2, PTL DEF GuardSpec

\* A lock stops all who come to authenticate() after it, and only a login that was on its way
\* and staff lift it early.
THEOREM LocksHold == GuardSpec => LockHolds
  <1> DEFINE Held == account.lock > 0 =>
       /\ LoginsInFlight' \subseteq LoginsInFlight
       /\ account'.lock = 0 => \/ account.lock = 1
                               \/ LoginsInFlight' # LoginsInFlight
                               \/ FormsInFlight' # FormsInFlight
  <1>1. GuardTypeOK /\ [GuardNext]_guardVars => [Held]_guardVars
    <2>1. GuardTypeOK /\ GuardNext => Held
      BY LockStep
    <2>2. QED
      BY <2>1
  <1>2. QED
    BY <1>1, GuardTypeCorrect, PTL DEF GuardSpec, LockHolds

-----------------------------------------------------------------------------
(* The lockout is a StaleCounter                                           *)

FailuresProofs == INSTANCE StaleCounterProofs
  WITH Procs <- Clients, Full <- MaxFailures, hold <- FailuresRead, writes <- guesses,
       value <- IF account.lock > 0 THEN MaxFailures ELSE ShortOfLock(account.failures)

\* The columns that a save of other columns leaves alone.
LEMMA AccountColumns ==
  ASSUME account \in Account
  PROVE  /\ \A n \in 0..MaxFailures, time \in 0..Longest :
              LET row == [account EXCEPT !.failures = n, !.lock = time]
              IN  row.failures = n /\ row.lock = time
         /\ \A secret \in MFACodes : [account EXCEPT !.secret = secret].failures = account.failures
         /\ [account EXCEPT !.mfa = TRUE].failures = account.failures
         /\ \A time \in 0..Longest : [account EXCEPT !.lock = time].failures = account.failures
  BY DEF Account

LEMMA ShortType ==
  ASSUME NEW n \in 0..MaxFailures
  PROVE  ShortOfLock(n) \in 0..MaxFailures /\ ShortOfLock(n) < MaxFailures
  BY GuardAssumption DEF ShortOfLock

LEMMA FailuresReadAre ==
  ASSUME GuardTypeOK, NEW c \in Clients
  PROVE  /\ client[c].failures \in 0..MaxFailures
         /\ client[c].pc = "login" => FailuresRead[c] = ShortOfLock(client[c].failures)
         /\ client[c].pc # "login" => FailuresRead[c] = MaxFailures
         /\ FailuresRead \in [Clients -> 0..MaxFailures]
  <1>1. \A d \in Clients : client[d].failures \in 0..MaxFailures
    BY DEF GuardTypeOK, Copy
  <1>2. \A d \in Clients : ShortOfLock(client[d].failures) \in 0..MaxFailures
    BY <1>1, ShortType
  <1>3. MaxFailures \in 0..MaxFailures
    BY GuardAssumption
  <1>4. QED
    BY <1>1, <1>2, <1>3 DEF FailuresRead

\* What a request holds is what the copy it acts on says.
LEMMA FailuresReadMove ==
  ASSUME GuardTypeOK, NEW c \in Clients, NEW n \in 0..MaxFailures,
         \A d \in Clients : d # c => client'[d] = client[d],
         n = IF client'[c].pc = "login" THEN ShortOfLock(client'[c].failures) ELSE MaxFailures
  PROVE  FailuresRead' = [FailuresRead EXCEPT ![c] = n]
  BY DEF FailuresRead

LEMMA FailuresLetGo ==
  ASSUME GuardTypeOK, NEW c \in Clients, client'[c].pc # "login",
         \A d \in Clients : d # c => client'[d] = client[d]
  PROVE  /\ FailuresRead' = [FailuresRead EXCEPT ![c] = MaxFailures]
         /\ client[c].pc # "login" => FailuresRead' = FailuresRead
  <1>1. FailuresRead' = [FailuresRead EXCEPT ![c] = MaxFailures]
    BY FailuresReadMove, GuardAssumption
  <1>2. client[c].pc # "login" => FailuresRead[c] = MaxFailures
    BY FailuresReadAre
  <1>3. FailuresRead \in [Clients -> 0..MaxFailures]
    BY FailuresReadAre
  <1>4. QED
    BY <1>1, <1>2, <1>3

\* A step that leaves the two columns, the guesses and what is held alone is no step of the
\* counter.
LEMMA CounterStands ==
  ASSUME account'.lock = account.lock, account'.failures = account.failures,
         guesses' = guesses, FailuresRead' = FailuresRead
  PROVE  UNCHANGED Failures!counterVars
  BY DEF Failures!counterVars

LEMMA LoginReads ==
  ASSUME GuardTypeOK, NEW c \in Clients, ReadUser(c)
  PROVE  Failures!Read(c)
  <1>1. account.lock = 0 /\ account' = account /\ guesses' = guesses /\ Take(c, "login")
    BY DEF ReadUser
  <1>2. /\ client[c].pc = "idle"
        /\ client'[c].pc = "login" /\ client'[c].failures = account.failures
        /\ \A d \in Clients : d # c => client'[d] = client[d]
    BY <1>1, CopyReads
  <1>3. account.failures \in 0..MaxFailures
    BY DEF GuardTypeOK, Account
  <1>4. FailuresRead' = [FailuresRead EXCEPT ![c] = ShortOfLock(account.failures)]
    BY <1>2, <1>3, ShortType, FailuresReadMove
  <1>5. FailuresRead[c] = MaxFailures
    BY <1>2, FailuresReadAre
  <1>6. ~ (FailuresRead[c] < MaxFailures) /\ ShortOfLock(account.failures) < MaxFailures
    BY <1>3, <1>5, ShortType, GuardAssumption
  <1>7. QED
    BY <1>1, <1>4, <1>6 DEF Failures!Read, Failures!Holds

LEMMA FailureWrites ==
  ASSUME GuardTypeOK, NEW c \in Clients, RegisterFailedLogin(c)
  PROVE  Failures!Write(c)
  <1>1. /\ client[c].failures \in 0..MaxFailures /\ account \in Account
        /\ MaxFailures \in Nat \ {0} /\ LockTime \in Nat \ {0} /\ LockTime \in 0..Longest
        /\ 0 \in 0..Longest
    BY LockTimes DEF GuardTypeOK, Copy
  <1> DEFINE n == Counted(client[c].failures)
             time == IF n >= MaxFailures THEN LockTime ELSE 0
  <1>2. n \in 0..MaxFailures /\ time \in 0..Longest
    BY <1>1, CountType
  <1>3. /\ account' = [account EXCEPT !.failures = n, !.lock = time]
        /\ client[c].pc = "login" /\ Done(c) /\ guesses' = guesses + 1
    BY DEF RegisterFailedLogin
  <1>4. account'.failures = n /\ account'.lock = time
    <2> HIDE DEF n, time
    <2>1. QED
      BY <1>1, <1>2, <1>3, AccountColumns
  <1>5. (IF account'.lock > 0 THEN MaxFailures ELSE ShortOfLock(account'.failures))
          = ShortOfLock(client[c].failures) + 1
    BY <1>1, <1>4 DEF Counted, ShortOfLock
  <1>6. FailuresRead' = [FailuresRead EXCEPT ![c] = MaxFailures]
    BY <1>3, CopyEnds, FailuresLetGo
  <1>7. FailuresRead[c] = ShortOfLock(client[c].failures) /\ FailuresRead[c] < MaxFailures
    BY <1>1, <1>3, FailuresReadAre, ShortType
  <1>8. QED
    BY <1>3, <1>5, <1>6, <1>7 DEF Failures!Write, Failures!Holds, ShortOfLock

LEMMA FailuresStep ==
  ASSUME GuardTypeOK, GuardTypeOK', [GuardNext]_guardVars
  PROVE  [Failures!CounterNext]_Failures!counterVars
  <1>1. account \in Account /\ 0 \in 0..MaxFailures /\ 0 \in 0..Longest
    BY LockTimes DEF GuardTypeOK
  <1>2. (IF account'.lock > 0 THEN MaxFailures ELSE ShortOfLock(account'.failures))
          \in 0..MaxFailures
    BY ShortType, GuardAssumption DEF GuardTypeOK, Account
  <1>3. ASSUME NEW c \in Clients, GuardStep(c)
        PROVE  [Failures!CounterNext]_Failures!counterVars
    <2>1. CASE ReadUser(c)
      BY <2>1, LoginReads DEF Failures!CounterNext
    <2>2. CASE RegisterFailedLogin(c)
      BY <2>2, FailureWrites DEF Failures!CounterNext
    <2>3. CASE RequireMFA(c)
      <3>1. FailuresRead[c] < MaxFailures
        BY <2>3, FailuresReadAre, ShortType DEF RequireMFA
      <3>2. FailuresRead' = [FailuresRead EXCEPT ![c] = MaxFailures]
        BY <2>3, CopyEnds, FailuresLetGo DEF RequireMFA
      <3>3. account' = account /\ guesses' = guesses
        BY <2>3 DEF RequireMFA
      <3>4. Failures!Drop(c)
        BY <3>1, <3>2, <3>3 DEF Failures!Drop, Failures!Holds
      <3>5. QED
        BY <3>4 DEF Failures!CounterNext
    <2>4. CASE RegisterSuccessfulLogin(c)
      <3>1. FailuresRead' = [FailuresRead EXCEPT ![c] = MaxFailures] /\ guesses' = 0
        BY <2>4, CopyEnds, FailuresLetGo DEF RegisterSuccessfulLogin
      <3>2. Failures!StartAgain
        BY <1>2, <3>1 DEF Failures!StartAgain
      <3>3. QED
        BY <3>2 DEF Failures!CounterNext
    <2>5. CASE ReadSecret(c)
      <3>1. /\ client'[c].pc = "confirm" /\ client[c].pc = "idle"
            /\ \A d \in Clients : d # c => client'[d] = client[d]
            /\ account' = account /\ guesses' = guesses
        BY <2>5, CopyReads DEF ReadSecret
      <3>2. QED
        BY <3>1, FailuresLetGo, CounterStands
    <2>6. ASSUME NEW code \in MFACodes, ConfirmMFA(c, code)
          PROVE  UNCHANGED Failures!counterVars
      <3>1. Done(c) /\ client[c].pc = "confirm" /\ guesses' = guesses
        BY <2>6 DEF ConfirmMFA
      <3>2. FailuresRead' = FailuresRead
        BY <3>1, CopyEnds, FailuresLetGo
      <3>3. account'.lock = account.lock /\ account'.failures = account.failures
        BY <1>1, <2>6, AccountTypes, AccountColumns DEF ConfirmMFA
      <3>4. QED
        BY <3>1, <3>2, <3>3, CounterStands
    <2>7. CASE PostUserForm(c)
      <3>1. /\ client'[c].pc = "form" /\ client[c].pc = "idle"
            /\ \A d \in Clients : d # c => client'[d] = client[d]
            /\ account' = account /\ guesses' = guesses
        BY <2>7, CopyReads DEF PostUserForm
      <3>2. QED
        BY <3>1, FailuresLetGo, CounterStands
    <2>8. ASSUME NEW failures \in 0..MaxFailures, NEW lock \in 0..Longest, NEW mfa \in BOOLEAN,
                 SaveUserForm(c, failures, lock, mfa)
          PROVE  Failures!CounterNext
      <3>1. client[c].pc = "form" /\ Done(c) /\ guesses' = 0
        BY <2>8, FormSaves
      <3>2. FailuresRead' = FailuresRead
        BY <3>1, CopyEnds, FailuresLetGo
      <3>3. Failures!StartAgain
        BY <1>2, <3>1, <3>2 DEF Failures!StartAgain
      <3>4. QED
        BY <3>3 DEF Failures!CounterNext
    <2>9. QED
      BY <1>3, <2>1, <2>2, <2>3, <2>4, <2>5, <2>6, <2>7, <2>8 DEF GuardStep
  <1>4. ASSUME NEW secret \in Secrets, EnrollMFA(secret)
        PROVE  UNCHANGED Failures!counterVars
    <2>1. account'.lock = account.lock /\ account'.failures = account.failures
      BY <1>1, <1>4, AccountTypes, AccountColumns DEF EnrollMFA, MFACodes
    <2>2. FailuresRead' = FailuresRead /\ guesses' = guesses
      BY <1>4 DEF EnrollMFA, FailuresRead
    <2>3. QED
      BY <2>1, <2>2, CounterStands
  <1>5. CASE Tick
    <2>1. FailuresRead' = FailuresRead
      BY <1>5 DEF Tick, FailuresRead
    <2>2. CASE account.lock = 1
      <3>1. guesses' = 0
        BY <1>5, <2>2 DEF Tick
      <3>2. Failures!StartAgain
        BY <1>2, <2>1, <3>1 DEF Failures!StartAgain
      <3>3. QED
        BY <3>2 DEF Failures!CounterNext
    <2>3. CASE account.lock # 1
      <3>1. /\ account.lock \in 0..Longest /\ account.lock > 0 /\ guesses' = guesses
            /\ account' = [account EXCEPT !.lock = account.lock - 1]
        BY <1>1, <1>5, <2>3 DEF Tick, Account
      <3>2. account'.lock > 0
        BY <1>1, <2>3, <3>1, GuardAssumption DEF Account
      <3>3. QED
        BY <2>1, <3>1, <3>2 DEF Failures!counterVars
    <2>4. QED
      BY <2>2, <2>3
  <1>6. CASE UNCHANGED guardVars
    BY <1>6, CounterStands DEF guardVars, FailuresRead
  <1>7. QED
    BY <1>3, <1>4, <1>5, <1>6 DEF GuardNext, SessionLogin

\* The lockout is a counter that calls of authenticate() raise by writing back what they have
\* read, and that a login, the end of a lock and staff reset.
THEOREM GuardRefines == GuardSpec => RefinesFailures
  <1>1. GuardInit => Failures!CounterInit
    BY GuardAssumption DEF GuardInit, NoCopy, FailuresRead, ShortOfLock, Failures!CounterInit
  <1>2. GuardTypeOK /\ GuardTypeOK' /\ [GuardNext]_guardVars
          => [Failures!CounterNext]_Failures!counterVars
    BY FailuresStep
  <1>3. QED
    BY <1>1, <1>2, GuardTypeCorrect, PTL DEF GuardSpec, RefinesFailures, Failures!CounterSpec

\* The operators on finite sets are those of the library in every instance.
LEMMA SameSetOperators ==
  ASSUME NEW S
  PROVE  /\ FailuresProofs!IsFiniteSet(S) <=> IsFiniteSet(S)
         /\ FailuresProofs!Cardinality(S) = Cardinality(S)
         /\ Failures!Cardinality(S) = Cardinality(S)
  BY Zenon DEF IsFiniteSet, Cardinality, Failures!Cardinality, FailuresProofs!IsFiniteSet,
               FailuresProofs!Cardinality

\* The instance that the proofs are about is the one that the model refers to.
LEMMA GuardCounts == GuardSpec => FailuresProofs!CounterSpec
  <1>1. Failures!CounterInit <=> FailuresProofs!CounterInit
    BY DEF Failures!CounterInit, FailuresProofs!CounterInit
  <1>2. [Failures!CounterNext]_Failures!counterVars
          <=> [FailuresProofs!CounterNext]_FailuresProofs!counterVars
    BY DEF Failures!CounterNext, Failures!counterVars, Failures!Read, Failures!Write,
           Failures!Drop, Failures!StartAgain, Failures!Holds, FailuresProofs!CounterNext,
           FailuresProofs!counterVars, FailuresProofs!Read, FailuresProofs!Write,
           FailuresProofs!Drop, FailuresProofs!StartAgain, FailuresProofs!Holds
  <1>3. RefinesFailures => FailuresProofs!CounterSpec
    BY <1>1, <1>2, PTL DEF RefinesFailures, Failures!CounterSpec, FailuresProofs!CounterSpec
  <1>4. QED
    BY <1>3, GuardRefines, PTL

LEMMA FailuresConstants == FailuresProofs!CounterConstants
  BY GuardAssumption, SameSetOperators DEF FailuresProofs!CounterConstants

\* However its calls overlap, the wrong passwords that authenticate() tries for one lock are
\* fewer than the profiles of the counter, for any threshold, lock time and number of workers.
THEOREM GuessesAreBounded == GuardSpec => []GuessesBounded
  <1>1. FailuresProofs!CounterSpec => []FailuresProofs!WritesBounded
    BY FailuresConstants, FailuresProofs!WritesAreBounded
  <1>2. FailuresProofs!Profiles = Failures!Profiles
    BY SameSetOperators
    DEF FailuresProofs!Profiles, FailuresProofs!Levels, Failures!Profiles, Failures!Levels
  <1>3. FailuresProofs!WritesBounded <=> GuessesBounded
    BY <1>2, SameSetOperators DEF FailuresProofs!WritesBounded, GuessesBounded
  <1>4. QED
    BY <1>1, <1>3, GuardCounts, PTL

\* With one worker no failure is lost: what authenticate() tries for one lock is no more than
\* the failures that take it.
THEOREM OneWorkerCountsEveryGuess ==
  ASSUME Cardinality(Clients) = 1
  PROVE  GuardSpec => [](guesses <= MaxFailures)
  <1>1. FailuresProofs!Cardinality(Clients) = 1
    BY SameSetOperators
  <1>2. FailuresProofs!CounterSpec => [](guesses <= MaxFailures)
    BY <1>1, FailuresConstants, FailuresProofs!OneAtATime
  <1>3. QED
    BY <1>2, GuardCounts, PTL

-----------------------------------------------------------------------------
(* How long an account stays locked                                        *)

\* What the lock may still grow by: each login in flight can take it once more.
LockBudget ==
  /\ account.lock = 0 => held = 0 /\ imposed = 0
  /\ account.lock > 0 =>
       held + (account.lock - 1) + (LockTime - 1) * Cardinality(LoginsInFlight)
         <= imposed + (LockTime - 1) * Cardinality(Clients)

LEMMA FlightSize ==
  ASSUME NEW S \in SUBSET Clients
  PROVE  /\ IsFiniteSet(S) /\ Cardinality(S) \in Nat /\ Cardinality(S) <= Cardinality(Clients)
         /\ \A c \in S : Cardinality(S \ {c}) = Cardinality(S) - 1
         /\ Cardinality(Clients) \in Nat
  <1>1. IsFiniteSet(S) /\ Cardinality(S) <= Cardinality(Clients)
    BY GuardAssumption, FS_Subset
  <1>2. QED
    BY <1>1, GuardAssumption, FS_CardinalityType, FS_RemoveElement

LEMMA Products ==
  ASSUME NEW k \in Nat, NEW m \in Nat, NEW n \in Nat, m <= n
  PROVE  /\ k * m \in Nat /\ k * m <= k * n
         /\ m > 0 => k * (m - 1) = k * m - k
  OBVIOUS

\* Fewer logins in flight, and no more lock: the budget is kept.
LEMMA BudgetKept ==
  ASSUME GuardTypeOK, LockBudget, LoginsInFlight' \subseteq LoginsInFlight,
         account'.lock = account.lock, held' = held, imposed' = imposed
  PROVE  LockBudget'
  <1>1. PICK m \in Nat, n \in Nat : m = Cardinality(LoginsInFlight)' /\ n = Cardinality(LoginsInFlight)
    BY FlightSize DEF LoginsInFlight
  <1>2. m <= n
    <2>1. IsFiniteSet(LoginsInFlight)
      BY FlightSize DEF LoginsInFlight
    <2>2. QED
      BY <1>1, <2>1, FS_Subset
  <1>3. PICK k \in Nat : k = LockTime - 1
    BY GuardAssumption
  <1>4. k * m <= k * n /\ k * m \in Nat /\ k * n \in Nat /\ k * Cardinality(Clients) \in Nat
    BY <1>2, Products, FlightSize
  <1>5. held \in Nat /\ account.lock \in Nat /\ imposed \in Nat
    BY LockTimes DEF GuardTypeOK, Account
  <1> HIDE DEF LoginsInFlight
  <1>6. account.lock > 0 =>
          held + (account.lock - 1) + k * n <= imposed + k * Cardinality(Clients)
    BY <1>1, <1>3 DEF LockBudget
  <1>7. account.lock > 0 =>
          held + (account.lock - 1) + k * m <= imposed + k * Cardinality(Clients)
    BY <1>4, <1>5, <1>6
  <1>8. QED
    BY <1>1, <1>3, <1>7 DEF LockBudget

\* An account that is not locked has no lock to account for.
LEMMA BudgetOfOpen ==
  ASSUME account'.lock = 0, held' = 0, imposed' = 0
  PROVE  LockBudget'
  BY DEF LockBudget

LEMMA FailureBudget ==
  ASSUME GuardTypeOK, LockBudget, NEW c \in Clients, RegisterFailedLogin(c)
  PROVE  LockBudget'
  <1> DEFINE full == Counted(client[c].failures) >= MaxFailures
  <1>1. /\ account \in Account /\ Counted(client[c].failures) \in 0..MaxFailures
        /\ LockTime \in 0..Longest /\ 0 \in 0..Longest /\ LockTime \in Nat \ {0}
        /\ held \in Nat /\ account.lock \in Nat /\ imposed \in Nat
    BY LockTimes, CountType DEF GuardTypeOK, Copy, Account
  <1>2. account'.lock = IF full THEN LockTime ELSE 0
    BY <1>1, AccountColumns DEF RegisterFailedLogin
  <1>3. held' = (IF full THEN held ELSE 0) /\ imposed' = (IF full THEN imposed ELSE 0)
    BY DEF RegisterFailedLogin
  <1>4. LoginsInFlight' = LoginsInFlight \ {c} /\ c \in LoginsInFlight
    BY CopyEnds DEF RegisterFailedLogin, LoginsInFlight
  <1> HIDE DEF full
  <1>5. CASE full
    <2> DEFINE others == Cardinality(LoginsInFlight \ {c})
    <2>1. LoginsInFlight \in SUBSET Clients /\ LoginsInFlight \ {c} \in SUBSET Clients
      BY DEF LoginsInFlight
    <2>2. /\ Cardinality(LoginsInFlight) \in Nat /\ others \in Nat
          /\ Cardinality(Clients) \in Nat /\ others = Cardinality(LoginsInFlight) - 1
          /\ Cardinality(LoginsInFlight) <= Cardinality(Clients)
      BY <1>4, <2>1, FlightSize
    <2>3. LockTime - 1 \in Nat
      BY <1>1
    <2>4. PICK k \in Nat, n \in Nat, all \in Nat :
            k = LockTime - 1 /\ n = Cardinality(LoginsInFlight) /\ all = Cardinality(Clients)
      BY <2>2, <2>3
    <2>5. n > 0 /\ n <= all /\ Cardinality(LoginsInFlight)' = n - 1 /\ n - 1 \in Nat
      BY <1>4, <2>2, <2>4
    <2>6. k * n <= k * all /\ k * n \in Nat /\ k * all \in Nat /\ k * (n - 1) = k * n - k
      BY <2>5, Products
    <2>7. account.lock = 0 => held = 0
      BY DEF LockBudget
    <2>8. account.lock > 0 => held + (account.lock - 1) + k * n <= imposed + k * all
      BY <2>4 DEF LockBudget
    <2>9. held + k * n <= imposed + k * all
      BY <1>1, <2>6, <2>7, <2>8
    <2>10. held + (LockTime - 1) + k * (n - 1) <= imposed + k * all
      BY <1>1, <2>4, <2>6, <2>9
    <2>11. account'.lock = LockTime /\ held' = held /\ imposed' = imposed
      BY <1>2, <1>3, <1>5
    <2>12. QED
      BY <1>1, <2>4, <2>5, <2>10, <2>11 DEF LockBudget
  <1>6. CASE ~ full
    BY <1>2, <1>3, <1>6, BudgetOfOpen
  <1>7. QED
    BY <1>5, <1>6

\* Staff's form: what it imposes is accounted for, and the logins in flight are those there
\* were.
LEMMA FormBudget ==
  ASSUME GuardTypeOK, NEW c \in Clients, NEW failures \in 0..MaxFailures,
         NEW lock \in 0..Longest, NEW mfa \in BOOLEAN, SaveUserForm(c, failures, lock, mfa)
  PROVE  LockBudget'
  <1>1. /\ client[c].pc = "form" /\ Done(c)
        /\ account'.lock = lock /\ held' = 0 /\ imposed' = lock /\ lock \in Nat
    BY FormSaves, LockTimes
  <1>2. LoginsInFlight' = LoginsInFlight
    BY <1>1, CopyEnds DEF LoginsInFlight
  <1>3. PICK n \in Nat, all \in Nat :
          n = Cardinality(LoginsInFlight) /\ all = Cardinality(Clients) /\ n <= all
    BY FlightSize DEF LoginsInFlight
  <1>4. PICK k \in Nat : k = LockTime - 1
    BY GuardAssumption
  <1>5. k * n \in Nat /\ k * all \in Nat /\ k * n <= k * all
    BY <1>3, Products
  <1>6. lock > 0 => 0 + (lock - 1) + k * n <= lock + k * all
    BY <1>1, <1>5
  <1> HIDE DEF LoginsInFlight
  <1>7. QED
    BY <1>1, <1>2, <1>3, <1>4, <1>6 DEF LockBudget

LEMMA BudgetStep ==
  ASSUME GuardTypeOK, LockBudget, [GuardNext]_guardVars
  PROVE  LockBudget'
  <1>1. account \in Account /\ account.lock \in 0..Longest /\ 0 \in 0..MaxFailures
        /\ 0 \in 0..Longest /\ LockTime \in Nat \ {0} /\ held \in Nat
        /\ imposed \in Nat /\ Longest \in Nat
    BY LockTimes DEF GuardTypeOK, Account
  <1>2. ASSUME NEW c \in Clients, Done(c)
        PROVE  LoginsInFlight' \subseteq LoginsInFlight
    BY <1>2, CopyEnds DEF LoginsInFlight
  <1>3. ASSUME NEW c \in Clients, GuardStep(c)
        PROVE  LockBudget'
    <2>1. CASE ReadUser(c)
      BY <2>1, BudgetOfOpen DEF ReadUser, LockBudget
    <2>2. CASE RegisterFailedLogin(c)
      BY <2>2, FailureBudget
    <2>3. CASE RequireMFA(c)
      BY <1>2, <2>3, BudgetKept DEF RequireMFA
    <2>4. CASE RegisterSuccessfulLogin(c)
      BY <1>1, <2>4, AccountColumns, BudgetOfOpen DEF RegisterSuccessfulLogin
    <2>5. CASE ReadSecret(c)
      <3>1. /\ client'[c].pc = "confirm" /\ \A d \in Clients : d # c => client'[d] = client[d]
            /\ account' = account /\ held' = held /\ imposed' = imposed
        BY <2>5, CopyReads DEF ReadSecret
      <3>2. LoginsInFlight' \subseteq LoginsInFlight
        BY <3>1 DEF LoginsInFlight
      <3>3. QED
        BY <3>1, <3>2, BudgetKept
    <2>6. ASSUME NEW code \in MFACodes, ConfirmMFA(c, code)
          PROVE  LockBudget'
      <3>1. account'.lock = account.lock
        BY <1>1, <2>6, AccountTypes DEF ConfirmMFA
      <3>2. QED
        BY <1>2, <2>6, <3>1, BudgetKept DEF ConfirmMFA
    <2>7. CASE PostUserForm(c)
      <3>1. /\ client'[c].pc = "form" /\ \A d \in Clients : d # c => client'[d] = client[d]
            /\ account' = account /\ held' = held /\ imposed' = imposed
        BY <2>7, CopyReads DEF PostUserForm
      <3>2. LoginsInFlight' \subseteq LoginsInFlight
        BY <3>1 DEF LoginsInFlight
      <3>3. QED
        BY <3>1, <3>2, BudgetKept
    <2>8. ASSUME NEW failures \in 0..MaxFailures, NEW lock \in 0..Longest, NEW mfa \in BOOLEAN,
                 SaveUserForm(c, failures, lock, mfa)
          PROVE  LockBudget'
      BY <2>8, FormBudget
    <2>9. QED
      BY <1>3, <2>1, <2>2, <2>3, <2>4, <2>5, <2>6, <2>7, <2>8 DEF GuardStep
  <1>4. ASSUME NEW secret \in Secrets, EnrollMFA(secret)
        PROVE  LockBudget'
    <2>1. account'.lock = account.lock
      BY <1>1, <1>4, AccountTypes DEF EnrollMFA, MFACodes
    <2>2. QED
      BY <1>4, <2>1, BudgetKept DEF EnrollMFA, LoginsInFlight
  <1>5. CASE Tick
    <2>1. account.lock > 0 /\ account.lock - 1 \in 0..Longest
      BY <1>1, <1>5 DEF Tick
    <2>2. account'.lock = account.lock - 1
      BY <1>1, <1>5, <2>1, AccountTypes DEF Tick
    <2>3. CASE account.lock = 1
      BY <1>5, <2>2, <2>3, BudgetOfOpen DEF Tick
    <2>4. CASE account.lock # 1
      <3>1. held' = held + 1 /\ imposed' = imposed /\ LoginsInFlight' = LoginsInFlight
        BY <1>5, <2>4 DEF Tick, LoginsInFlight
      <3>2. PICK rest \in Nat, all \in Nat :
              /\ rest = (LockTime - 1) * Cardinality(LoginsInFlight)
              /\ all = (LockTime - 1) * Cardinality(Clients)
        <4>1. LockTime - 1 \in Nat
          BY <1>1
        <4>2. QED
          BY <4>1, Products, FlightSize DEF LoginsInFlight
      <3>3. held + (account.lock - 1) + rest <= imposed + all
        BY <2>1, <3>2 DEF LockBudget
      <3>4. held' + (account'.lock - 1) + rest <= imposed' + all
        BY <1>1, <2>2, <3>1, <3>2, <3>3
      <3>5. account'.lock # 0
        BY <1>1, <2>2, <2>4
      <3>6. QED
        BY <3>1, <3>2, <3>4, <3>5 DEF LockBudget
    <2>5. QED
      BY <2>3, <2>4
  <1>6. CASE UNCHANGED guardVars
    BY <1>6, BudgetKept DEF guardVars, LoginsInFlight
  <1>7. QED
    BY <1>3, <1>4, <1>5, <1>6 DEF GuardNext, SessionLogin

\* Beyond the lock that staff imposed, an account is locked at a stretch for at most a lock's
\* time from each request in flight, for any lock time and number of workers, however many go
\* on guessing.
THEOREM LocksEnd == GuardSpec => []LockBounded
  <1>1. GuardInit => LockBudget
    BY DEF GuardInit, LockBudget
  <1>2. GuardTypeOK /\ LockBudget /\ [GuardNext]_guardVars => LockBudget'
    BY BudgetStep
  <1>3. GuardTypeOK /\ LockBudget => LockBounded
    <2> SUFFICES ASSUME GuardTypeOK, LockBudget
                 PROVE  LockBounded
      OBVIOUS
    <2>1. LockTime - 1 \in Nat /\ held \in Nat /\ account.lock \in Nat /\ imposed \in Nat
      BY LockTimes DEF GuardTypeOK, Account
    <2>2. PICK rest \in Nat, all \in Nat :
            /\ rest = (LockTime - 1) * Cardinality(LoginsInFlight)
            /\ all = (LockTime - 1) * Cardinality(Clients)
      BY <2>1, Products, FlightSize DEF LoginsInFlight
    <2>3. held <= imposed + all
      BY <2>1, <2>2 DEF LockBudget
    <2>4. QED
      BY <2>2, <2>3 DEF LockBounded
  <1>4. QED
    BY <1>1, <1>2, <1>3, GuardTypeCorrect, PTL DEF GuardSpec
=============================================================================
