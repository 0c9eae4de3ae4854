--------------------------- MODULE PlatformProofs ---------------------------
(***************************************************************************)
(* Proofs about the sweep of subscriptions, the codes of tenants, the        *)
(* one-time reveal and the rate limiter, for any number of rows, requests    *)
(* and passwords, any limit and any window; and the composition: what is     *)
(* proved of a component holds of the platform.                              *)
(***************************************************************************)
EXTENDS MCPlatform, AuthSessionsProofs, LoginGuardProofs, FineractCallsProofs,
        FiniteSetTheorems, TLAPS

-----------------------------------------------------------------------------
(* SubscriptionSweep                                                       *)

\* A row that the task is about to mark is over, or was saved under its hands.
SweptDeserved == \A b \in sweep : row[b].due \/ row[b].chosen

SweepInv == SweepTypeOK /\ SweptDeserved /\ SweepCatchesUp /\ PastDueDeserved

\* The columns of the rows after a save of one of them.
LEMMA RowSaved ==
  ASSUME SweepTypeOK, NEW b \in Subscriptions, NEW new \in Row,
         row' = [row EXCEPT ![b] = new]
  PROVE  /\ row' \in [Subscriptions -> Row]
         /\ row'[b] = new
         /\ \A c \in Subscriptions : c # b => row'[c] = row[c]
  BY DEF SweepTypeOK

LEMMA RowColumns ==
  ASSUME NEW old \in Row, NEW status \in Status
  PROVE  /\ [old EXCEPT !.status = status] \in Row
         /\ [old EXCEPT !.status = status].status = status
         /\ [old EXCEPT !.status = status].due = old.due
         /\ [old EXCEPT !.status = status].chosen = old.chosen
  BY DEF Row

LEMMA RowLapsed ==
  ASSUME NEW old \in Row
  PROVE  /\ [old EXCEPT !.due = TRUE] \in Row
         /\ [old EXCEPT !.due = TRUE].status = old.status
         /\ [old EXCEPT !.due = TRUE].due = TRUE
         /\ [old EXCEPT !.due = TRUE].chosen = old.chosen
  BY DEF Row

LEMMA SweepInitially ==
  ASSUME SweepInit
  PROVE  SweepInv
  BY DEF SweepInit, SweepInv, SweepTypeOK, SweptDeserved, SweepCatchesUp, PastDueDeserved,
         Row, Status, NoEdit

\* A save by staff keeps the invariant, whatever it was made of.
LEMMA SaveKeeps ==
  ASSUME SweepInv, NEW b \in Subscriptions, NEW status \in Status \cup {"none"},
         NEW due \in BOOLEAN, Save(b, status, due), UNCHANGED <<sweep, found>>,
         edit' \in [Editors -> [of : Subscriptions \cup {"none"}, status : Status \cup {"none"},
                                due : BOOLEAN]]
  PROVE  SweepInv'
  <1> DEFINE new == [status |-> status, due |-> due, chosen |-> status = "PAST_DUE" \/ b \in sweep]
  <1>1. new \in Row /\ new.status = status /\ (status = "PAST_DUE" \/ b \in sweep => new.chosen)
    BY DEF Row
  <1>2. row' = [row EXCEPT ![b] = new] /\ overruled' = overruled \cup {b}
    BY DEF Save
  <1> HIDE DEF new
  <1>3. /\ row' \in [Subscriptions -> Row] /\ row'[b] = new
        /\ \A c \in Subscriptions : c # b => row'[c] = row[c]
    BY <1>1, <1>2, RowSaved DEF SweepInv
  <1>4. SweepTypeOK'
    BY <1>2, <1>3 DEF SweepInv, SweepTypeOK
  <1>5. SweptDeserved'
    BY <1>1, <1>3 DEF SweepInv, SweepTypeOK, SweptDeserved
  <1>6. SweepCatchesUp'
    BY <1>2, <1>3 DEF SweepInv, SweepTypeOK, SweepCatchesUp, Current
  <1>7. PastDueDeserved'
    BY <1>1, <1>3 DEF SweepInv, PastDueDeserved
  <1>8. QED
    BY <1>4, <1>5, <1>6, <1>7 DEF SweepInv

LEMMA SweepStep ==
  ASSUME SweepInv, [SweepNext]_sweepVars
  PROVE  SweepInv'
  <1> DEFINE Edit == [of : Subscriptions \cup {"none"}, status : Status \cup {"none"},
                      due : BOOLEAN]
  <1>0. /\ row \in [Subscriptions -> Row] /\ edit \in [Editors -> Edit]
        /\ sweep \subseteq Subscriptions /\ found \subseteq Subscriptions
        /\ overruled \subseteq Subscriptions
    BY DEF SweepInv, SweepTypeOK
  <1>1. CASE BeginSweep
    BY <1>0, <1>1 DEF BeginSweep, RunOver, Expired, SweepInv, SweepTypeOK, SweptDeserved,
                      SweepCatchesUp, PastDueDeserved, Current
  <1>2. CASE AbandonSweep
    BY <1>0, <1>2 DEF AbandonSweep, SweepInv, SweepTypeOK, SweptDeserved, SweepCatchesUp,
                      PastDueDeserved, Current
  <1>3. ASSUME NEW b \in Subscriptions, MarkPastDue(b)
        PROVE  SweepInv'
    <2> DEFINE new == [row[b] EXCEPT !.status = "PAST_DUE"]
    <2>1. /\ new \in Row /\ new.status = "PAST_DUE" /\ new.due = row[b].due
          /\ new.chosen = row[b].chosen
      BY <1>0, RowColumns DEF Status
    <2>2. /\ b \in sweep /\ sweep' = sweep \ {b} /\ UNCHANGED <<edit, found, overruled>>
          /\ row' = [row EXCEPT ![b] = new]
      BY <1>3 DEF MarkPastDue
    <2> HIDE DEF new
    <2>3. /\ row' \in [Subscriptions -> Row] /\ row'[b] = new
          /\ \A c \in Subscriptions : c # b => row'[c] = row[c]
      BY <2>1, <2>2, RowSaved DEF SweepInv
    <2>4. SweepTypeOK'
      BY <1>0, <2>2, <2>3 DEF SweepTypeOK
    <2>5. SweptDeserved'
      BY <1>0, <2>2, <2>3 DEF SweepInv, SweptDeserved
    <2>6. SweepCatchesUp'
      BY <1>0, <2>1, <2>2, <2>3 DEF SweepInv, SweepCatchesUp, Current
    <2>7. PastDueDeserved'
      BY <2>1, <2>2, <2>3 DEF SweepInv, SweptDeserved, PastDueDeserved
    <2>8. QED
      BY <2>4, <2>5, <2>6, <2>7 DEF SweepInv
  <1>4. ASSUME NEW b \in Subscriptions, Lapse(b)
        PROVE  SweepInv'
    <2> DEFINE new == [row[b] EXCEPT !.due = TRUE]
    <2>1. /\ new \in Row /\ new.status = row[b].status /\ new.due
      BY <1>0, RowLapsed
    <2>2. /\ UNCHANGED <<sweep, found, overruled>>
          /\ row' = [row EXCEPT ![b] = new]
          /\ edit' = [e \in Editors |-> IF edit[e].of = b THEN [edit[e] EXCEPT !.due = TRUE]
                                                          ELSE edit[e]]
      BY <1>4 DEF Lapse
    <2> HIDE DEF new
    <2>3. /\ row' \in [Subscriptions -> Row] /\ row'[b] = new
          /\ \A c \in Subscriptions : c # b => row'[c] = row[c]
      BY <2>1, <2>2, RowSaved DEF SweepInv
    <2>4. \A e \in Editors : [edit[e] EXCEPT !.due = TRUE] \in Edit
      BY <1>0
    <2>5. edit' \in [Editors -> Edit]
      BY <1>0, <2>2, <2>4
    <2>6. SweepTypeOK'
      BY <1>0, <2>2, <2>3, <2>5 DEF SweepTypeOK
    <2>7. SweptDeserved' /\ PastDueDeserved'
      BY <1>0, <2>1, <2>2, <2>3 DEF SweepInv, SweptDeserved, PastDueDeserved
    <2>8. SweepCatchesUp'
      BY <1>0, <2>1, <2>2, <2>3 DEF SweepInv, SweepCatchesUp, Current
    <2>9. QED
      BY <2>6, <2>7, <2>8 DEF SweepInv
  <1>5. ASSUME NEW b \in Subscriptions, NEW status \in Status, NEW due \in BOOLEAN,
               CreateSubscription(b, status, due)
        PROVE  SweepInv'
    BY <1>0, <1>5, SaveKeeps DEF CreateSubscription
  <1>6. ASSUME NEW e \in Editors, NEW b \in Subscriptions, ReadSubscription(e, b)
        PROVE  SweepInv'
    <2>1. row[b].status \in Status \cup {"none"} /\ row[b].due \in BOOLEAN
      BY <1>0 DEF Row
    <2>2. [of |-> b, status |-> row[b].status, due |-> row[b].due] \in Edit
      BY <2>1
    <2>3. edit' \in [Editors -> Edit] /\ UNCHANGED <<row, sweep, found, overruled>>
      BY <1>0, <1>6, <2>2 DEF ReadSubscription
    <2>4. QED
      BY <1>0, <2>3 DEF SweepInv, SweepTypeOK, SweptDeserved, SweepCatchesUp, PastDueDeserved,
                        Current
  <1>7. ASSUME NEW e \in Editors, SaveSubscription(e)
        PROVE  SweepInv'
    <2>1. PICK status \in {edit[e].status, "ACTIVE", "CANCELED"}, due \in {edit[e].due, FALSE} :
             Save(edit[e].of, status, due)
      BY <1>7 DEF SaveSubscription
    <2>2. /\ edit[e] \in Edit /\ edit[e].of # "none"
          /\ UNCHANGED <<sweep, found>> /\ edit' = [edit EXCEPT ![e] = NoEdit]
      BY <1>0, <1>7 DEF SaveSubscription
    <2>3. /\ edit[e].of \in Subscriptions /\ status \in Status \cup {"none"}
          /\ due \in BOOLEAN /\ NoEdit \in Edit
      BY <2>2 DEF Status, NoEdit
    <2>4. edit' \in [Editors -> Edit]
      BY <1>0, <2>2, <2>3
    <2>5. QED
      BY <2>1, <2>2, <2>3, <2>4, SaveKeeps
  <1>8. CASE UNCHANGED sweepVars
    BY <1>0, <1>8 DEF sweepVars, SweepInv, SweepTypeOK, SweptDeserved, SweepCatchesUp,
                      PastDueDeserved, Current
  <1>9. QED
    BY <1>1, <1>2, <1>3, <1>4, <1>5, <1>6, <1>7, <1>8 DEF SweepNext

\* The invariant of the nightly task.
THEOREM SweepCorrect == SweepSpec => []SweepInv
  <1>1. SweepInit => SweepInv
    BY SweepInitially
  <1>2. SweepInv /\ [SweepNext]_sweepVars => SweepInv'
    BY SweepStep
  <1>3. QED
    BY <1>1, <1>2, PTL DEF SweepSpec

\* What the sweep found expired is marked, unless staff or a killed worker came between.
THEOREM SweepsCatchUp == SweepSpec => []SweepCatchesUp
  <1>1. SweepInv => SweepCatchesUp
    BY DEF SweepInv
  <1>2. QED
    BY <1>1, SweepCorrect, PTL

\* A running period is PAST_DUE only by the hand of staff, or renewed under the task's hands.
THEOREM NobodyIsPunished == SweepSpec => []PastDueDeserved
  <1>1. SweepInv => PastDueDeserved
    BY DEF SweepInv
  <1>2. QED
    BY <1>1, SweepCorrect, PTL

-----------------------------------------------------------------------------
(* TenantCodes                                                             *)

\* The code that a request is at.
Tried(q) == q.tried \in 1..Len(Candidates[q.name])

CodeTried == \A q \in Creators : Tried(creator[q])

\* Who is at work has an organization, and nobody else is one's creator.
CreatorsBusy == \A q \in Creators : creator[q].org = Nobody <=> creator[q].pc = "idle"

\* The uncommitted row of a transaction keeps its code free of committed and of other rows.
PendingFree ==
  \A q \in Creators : creator[q].pc = "commit" =>
    /\ creator[q].tx
    /\ codes[Code(q)] = Nobody
    /\ \A p \in Creators : creator[p].pc = "commit" /\ Code(p) = Code(q) => p = q

CodesInv ==
  CodesTypeOK /\ CodeTried /\ CreatorsBusy /\ PendingFree /\ OrganizationsHaveTenants

HasTenant(org) == \E k \in Codes : codes[k] = org

LEMMA NoCreatorTypes ==
  /\ NoCreator \in Creator /\ NoCreator.pc = "idle" /\ NoCreator.org = Nobody
  /\ NoCreator.tried = 1 /\ NoCreator.name \in Names
  <1>1. (CHOOSE n \in Names : TRUE) \in Names
    BY CodesAssumption
  <1>2. QED
    BY <1>1 DEF NoCreator, Creator

LEMMA CandidatesAreCodes ==
  ASSUME NEW n \in Names, NEW i \in 1..Len(Candidates[n])
  PROVE  Candidates[n][i] \in Codes
  BY CodesAssumption DEF Codes

LEMMA CodesInitially ==
  ASSUME CodesInit
  PROVE  CodesInv
  <1>1. CodesTypeOK
    BY NoCreatorTypes DEF CodesInit, CodesTypeOK
  <1>2. CodeTried
    BY NoCreatorTypes, CodesAssumption DEF CodesInit, CodeTried, Tried
  <1>3. QED
    BY <1>1, <1>2, NoCreatorTypes
    DEF CodesInit, CodesInv, CreatorsBusy, PendingFree, OrganizationsHaveTenants

\* One request moves to n; the codes that are taken stay taken.
LEMMA CreatorMoves ==
  ASSUME CodesInv, NEW q \in Creators, NEW n \in Creator,
         creator' = [creator EXCEPT ![q] = n],
         orgs' \in SUBSET Registrations, bereft' \in SUBSET Registrations,
         codes' \in [Codes -> Registrations \cup {Nobody}],
         Tried(n),
         n.org = Nobody <=> n.pc = "idle",
         n.pc = "commit" => /\ n.tx /\ ~ CodePending(Candidates[n.name][n.tried])
                            /\ codes'[Candidates[n.name][n.tried]] = Nobody,
         \A k \in Codes : codes[k] # Nobody => codes'[k] = codes[k],
         \A p \in Creators : p # q /\ creator[p].pc = "commit" => codes'[Code(p)] = Nobody,
         bereft \subseteq bereft',
         \A org \in orgs' :
           \/ org \in orgs /\ ~ (creator[q].org = org /\ ~ creator[q].tx)
           \/ HasTenant(org)'
           \/ org \in bereft'
           \/ n.org = org /\ ~ n.tx
  PROVE  CodesInv'
  <1>1. /\ creator \in [Creators -> Creator] /\ creator'[q] = n
        /\ \A p \in Creators : p # q => creator'[p] = creator[p]
    BY DEF CodesInv, CodesTypeOK
  <1>2. CodesTypeOK'
    BY DEF CodesInv, CodesTypeOK
  <1>3. CodeTried' /\ CreatorsBusy'
    BY <1>1 DEF CodesInv, CodeTried, CreatorsBusy
  <1>4. PendingFree'
    <2>1. /\ \A p \in Creators : p # q => Code(p)' = Code(p)
          /\ Code(q)' = Candidates[n.name][n.tried]
      BY <1>1 DEF Code
    <2>2. \A p \in Creators : p # q /\ creator[p].pc = "commit" /\ n.pc = "commit"
                                => Code(p) # Candidates[n.name][n.tried]
      BY DEF CodePending
    <2>3. QED
      BY <1>1, <2>1, <2>2 DEF CodesInv, PendingFree
  <1>5. OrganizationsHaveTenants'
    <2> SUFFICES ASSUME NEW org \in orgs', org \notin bereft', ~ HasTenant(org)',
                        ~ (n.org = org /\ ~ n.tx)
                 PROVE  \E p \in Creators : creator'[p].org = org /\ ~ creator'[p].tx
      BY <1>1 DEF OrganizationsHaveTenants, HasTenant
    <2>1. org \in orgs /\ ~ (creator[q].org = org /\ ~ creator[q].tx) /\ org # Nobody
      BY CodesAssumption
    <2>2. ~ \E k \in Codes : codes[k] = org
      BY <2>1 DEF HasTenant
    <2>3. PICK p \in Creators : creator[p].org = org /\ ~ creator[p].tx
      BY <2>1, <2>2 DEF CodesInv, OrganizationsHaveTenants
    <2>4. p # q
      BY <2>1, <2>3
    <2>5. QED
      BY <1>1, <2>3, <2>4
  <1>6. QED
    BY <1>2, <1>3, <1>4, <1>5 DEF CodesInv

\* Staff take no code that an uncommitted row has, and who loses a tenant is bereft.
LEMMA StaffMoves ==
  ASSUME CodesInv, creator' = creator,
         orgs' \in SUBSET Registrations, bereft' \in SUBSET Registrations,
         codes' \in [Codes -> Registrations \cup {Nobody}],
         \A k \in Codes : codes'[k] # codes[k] => ~ CodePending(k),
         bereft \subseteq bereft',
         \A org \in orgs' :
           \/ org \in bereft' \/ \E k \in Codes : codes'[k] = org
           \/ org \in orgs /\ \A k \in Codes : codes[k] = org => codes'[k] = org
  PROVE  CodesInv'
  <1>1. /\ creator \in [Creators -> Creator]
        /\ \A q \in Creators : creator[q].name \in Names /\ Tried(creator[q])
    BY DEF CodesInv, CodesTypeOK, CodeTried, Creator
  <1>2. \A q \in Creators : Code(q) \in Codes /\ Code(q)' = Code(q)
    BY <1>1, CandidatesAreCodes DEF Tried, Code
  <1>3. CodesTypeOK' /\ CodeTried' /\ CreatorsBusy'
    BY DEF CodesInv, CodesTypeOK, CodeTried, CreatorsBusy
  <1>4. ASSUME NEW q \in Creators, creator[q].pc = "commit"
        PROVE  codes'[Code(q)] = Nobody
    <2>1. codes[Code(q)] = Nobody
      BY <1>4 DEF CodesInv, PendingFree
    <2>2. CodePending(Code(q))
      BY <1>4 DEF CodePending
    <2>3. QED
      BY <1>2, <2>1, <2>2
  <1>5. PendingFree'
    BY <1>2, <1>4 DEF CodesInv, PendingFree
  <1>6. OrganizationsHaveTenants'
    BY DEF CodesInv, OrganizationsHaveTenants
  <1>7. QED
    BY <1>3, <1>5, <1>6 DEF CodesInv

\* An organization that goes takes along the requests that were to give it a tenant; those
\* that are left are as they were.
LEMMA OrganizationGoes ==
  ASSUME CodesInv, NEW org \in Registrations, DeleteOrganization(org)
  PROVE  CodesInv'
  <1>1. /\ creator \in [Creators -> Creator] /\ codes' = codes
        /\ orgs' = orgs \ {org} /\ bereft' = bereft \ {org}
        /\ creator' = [q \in Creators |->
                         IF creator[q].org = org THEN NoCreator ELSE creator[q]]
    BY DEF CodesInv, CodesTypeOK, DeleteOrganization
  <1>2. \A q \in Creators : creator'[q] = creator[q] \/ creator'[q] = NoCreator
    BY <1>1
  <1>3. CodesTypeOK'
    BY <1>1, NoCreatorTypes DEF CodesInv, CodesTypeOK
  <1>4. CodeTried'
    <2>1. Tried(NoCreator)
      BY NoCreatorTypes, CodesAssumption DEF Tried
    <2>2. QED
      BY <1>2, <2>1 DEF CodesInv, CodeTried
  <1>5. CreatorsBusy'
    BY <1>2, NoCreatorTypes DEF CodesInv, CreatorsBusy
  <1>6. PendingFree'
    <2>1. \A q \in Creators : creator'[q].pc = "commit" =>
            creator[q] = creator'[q] /\ creator[q].pc = "commit" /\ Code(q)' = Code(q)
      BY <1>2, NoCreatorTypes DEF Code
    <2>2. QED
      BY <1>1, <2>1 DEF CodesInv, PendingFree
  <1>7. OrganizationsHaveTenants'
    <2> SUFFICES ASSUME NEW o \in orgs', o \notin bereft', ~ \E k \in Codes : codes'[k] = o
                 PROVE  \E q \in Creators : creator'[q].org = o /\ ~ creator'[q].tx
      BY DEF OrganizationsHaveTenants
    <2>1. o \in orgs /\ o # org /\ o \notin bereft /\ ~ \E k \in Codes : codes[k] = o
      BY <1>1
    <2>2. PICK q \in Creators : creator[q].org = o /\ ~ creator[q].tx
      BY <2>1 DEF CodesInv, OrganizationsHaveTenants
    <2>3. QED
      BY <1>1, <2>1, <2>2
  <1>8. QED
    BY <1>3, <1>4, <1>5, <1>6, <1>7 DEF CodesInv

LEMMA StaffKeeps ==
  ASSUME CodesInv, StaffStep
  PROVE  CodesInv'
  <1>1. /\ codes \in [Codes -> Registrations \cup {Nobody}]
        /\ orgs \in SUBSET Registrations /\ bereft \in SUBSET Registrations
    BY DEF CodesInv, CodesTypeOK
  <1>2. \A k \in Codes : codes[k] # Nobody => ~ CodePending(k)
    BY DEF CodesInv, PendingFree, CodePending
  <1>3. ASSUME NEW org \in Registrations, AddOrganization(org)
        PROVE  CodesInv'
    BY <1>1, <1>3, StaffMoves DEF AddOrganization
  <1>4. ASSUME NEW org \in Registrations, NEW code \in Codes, AddTenant(org, code)
        PROVE  CodesInv'
    <2>1. /\ codes[code] = Nobody /\ ~ CodePending(code) /\ Nobody \notin orgs
          /\ codes' = [codes EXCEPT ![code] = org] /\ UNCHANGED <<orgs, creator, bereft>>
      BY <1>1, <1>4, CodesAssumption DEF AddTenant, Free
    <2>2. QED
      BY <1>1, <2>1, StaffMoves
  <1>5. ASSUME NEW org \in Registrations, NEW code \in Codes, NEW new \in Codes,
               ChangeTenant(code, org, new)
        PROVE  CodesInv'
    <2>1. /\ codes[code] # Nobody /\ org \in orgs /\ bereft' = bereft \cup ({codes[code]} \ {org})
          /\ codes' = [codes EXCEPT ![code] = Nobody, ![new] = org]
          /\ UNCHANGED <<orgs, creator>>
          /\ new # code => codes[new] = Nobody /\ ~ CodePending(new)
      BY <1>5 DEF ChangeTenant, Free
    <2>2. \A k \in Codes : k # code /\ k # new => codes'[k] = codes[k]
      BY <1>1, <2>1
    <2>3. /\ codes' \in [Codes -> Registrations \cup {Nobody}]
          /\ bereft' \in SUBSET Registrations
      BY <1>1, <2>1
    <2>4. \A k \in Codes : codes'[k] # codes[k] => ~ CodePending(k)
      BY <1>2, <2>1, <2>2
    <2>5. \A o \in orgs' :
            \/ o \in bereft' \/ \E k \in Codes : codes'[k] = o
            \/ o \in orgs /\ \A k \in Codes : codes[k] = o => codes'[k] = o
      <3>1. codes'[new] = org
        BY <1>1, <2>1
      <3>2. QED
        BY <1>1, <2>1, <2>2, <3>1, CodesAssumption
    <2>6. QED
      BY <1>1, <2>1, <2>3, <2>4, <2>5, StaffMoves
  <1>6. ASSUME NEW code \in Codes, DeleteTenant(code)
        PROVE  CodesInv'
    <2>1. /\ codes[code] # Nobody /\ bereft' = bereft \cup {codes[code]}
          /\ codes' = [codes EXCEPT ![code] = Nobody] /\ UNCHANGED <<orgs, creator>>
      BY <1>6 DEF DeleteTenant
    <2>2. QED
      BY <1>1, <1>2, <2>1, StaffMoves
  <1>7. QED
    BY <1>3, <1>4, <1>5, <1>6, OrganizationGoes, StaffMoves DEF StaffStep

LEMMA CodesStep ==
  ASSUME CodesInv, [CodesNext]_codeVars
  PROVE  CodesInv'
  <1>0. /\ creator \in [Creators -> Creator]
        /\ codes \in [Codes -> Registrations \cup {Nobody}]
        /\ orgs \in SUBSET Registrations /\ bereft \in SUBSET Registrations
    BY DEF CodesInv, CodesTypeOK
  <1>a. \A q \in Creators :
          /\ creator[q].tried \in Nat /\ creator[q].name \in Names
          /\ creator[q].tx \in BOOLEAN /\ creator[q].org \in Registrations \cup {Nobody}
    BY <1>0 DEF Creator
  <1>b. \A q \in Creators : Code(q) \in Codes
    BY <1>a, CandidatesAreCodes DEF CodesInv, CodeTried, Tried, Code
  <1>c. /\ 1 \in Nat /\ \A n \in Names : 1 \in 1..Len(Candidates[n])
        /\ \A n \in Names : Len(Candidates[n]) \in Nat
    BY CodesAssumption
  <1>d. \A p \in Creators : creator[p].pc = "commit" => codes[Code(p)] = Nobody
    BY DEF CodesInv, PendingFree
  <1>1. ASSUME NEW q \in Creators, NEW tx \in BOOLEAN, NEW org \in Registrations,
               NEW name \in Names, InsertOrganization(q, tx, org, name)
        PROVE  CodesInv'
    <2> DEFINE n == [pc |-> "search", tx |-> tx, org |-> org, name |-> name, tried |-> 1]
    <2>1. /\ n \in Creator /\ n.pc = "search" /\ n.org = org /\ n.tx = tx /\ n.tried = 1
          /\ n.name = name /\ n.org # Nobody /\ Tried(n)
      BY <1>c, CodesAssumption DEF Creator, Tried
    <2>2. /\ creator[q].pc = "idle" /\ creator' = [creator EXCEPT ![q] = n]
          /\ orgs' = (IF tx THEN orgs ELSE orgs \cup {org}) /\ UNCHANGED <<codes, bereft>>
      BY <1>1 DEF InsertOrganization
    <2> HIDE DEF n
    <2>3. creator[q].org = Nobody /\ Nobody \notin orgs
      BY <1>0, <2>2, CodesAssumption DEF CodesInv, CreatorsBusy
    <2>4. QED
      BY <1>0, <1>c, <1>d, <2>1, <2>2, <2>3, CreatorMoves
  <1>2. ASSUME NEW q \in Creators, TryCode(q)
        PROVE  CodesInv'
    <2>1. CASE codes[Code(q)] = Nobody
      <3> DEFINE n == [creator[q] EXCEPT !.pc = "insert"]
      <3>1. /\ n \in Creator /\ n.pc = "insert" /\ n.org = creator[q].org
            /\ n.tx = creator[q].tx /\ n.tried = creator[q].tried /\ n.name = creator[q].name
        BY <1>0 DEF Creator
      <3>2. /\ creator' = [creator EXCEPT ![q] = n] /\ UNCHANGED <<orgs, codes, bereft>>
            /\ creator[q].pc = "search"
        BY <1>2, <2>1 DEF TryCode
      <3> HIDE DEF n
      <3>3. n.org # Nobody /\ Tried(n)
        BY <3>1, <3>2 DEF CodesInv, CreatorsBusy, CodeTried, Tried
      <3>4. QED
        BY <1>0, <1>d, <3>1, <3>2, <3>3, CreatorMoves
    <2>2. CASE codes[Code(q)] # Nobody
      <3> DEFINE n == [creator[q] EXCEPT !.tried = creator[q].tried + 1]
      <3>1. /\ n \in Creator /\ n.pc = creator[q].pc /\ n.org = creator[q].org
            /\ n.tx = creator[q].tx /\ n.tried = creator[q].tried + 1 /\ n.name = creator[q].name
        BY <1>0, <1>a DEF Creator
      <3>2. /\ creator' = [creator EXCEPT ![q] = n] /\ UNCHANGED <<orgs, codes, bereft>>
            /\ creator[q].pc = "search" /\ creator[q].tried < Len(Candidates[creator[q].name])
        BY <1>0, <1>2, <2>2 DEF TryCode
      <3> HIDE DEF n
      <3>3. n.org # Nobody /\ Tried(n)
        BY <1>a, <1>c, <3>1, <3>2 DEF CodesInv, CreatorsBusy, Tried
      <3>4. /\ n.pc # "commit" /\ n.pc # "idle"
            /\ orgs' \in SUBSET Registrations /\ bereft' \in SUBSET Registrations
            /\ codes' \in [Codes -> Registrations \cup {Nobody}] /\ bereft \subseteq bereft'
            /\ \A k \in Codes : codes[k] # Nobody => codes'[k] = codes[k]
            /\ \A p \in Creators : p # q /\ creator[p].pc = "commit" => codes'[Code(p)] = Nobody
        BY <1>0, <1>d, <3>1, <3>2
      <3>5. \A org \in orgs' :
              \/ org \in orgs /\ ~ (creator[q].org = org /\ ~ creator[q].tx)
              \/ n.org = org /\ ~ n.tx
        BY <3>1, <3>2
      <3>6. QED
        BY <3>1, <3>2, <3>3, <3>4, <3>5, CreatorMoves
    <2>3. QED
      BY <2>1, <2>2
  <1>3. ASSUME NEW q \in Creators, InsertTenant(q)
        PROVE  CodesInv'
    <2>1. /\ creator[q].pc = "insert" /\ ~ creator[q].tx /\ codes[Code(q)] = Nobody
          /\ codes' = [codes EXCEPT ![Code(q)] = creator[q].org]
          /\ creator' = [creator EXCEPT ![q] = NoCreator] /\ UNCHANGED <<orgs, bereft>>
          /\ \A p \in Creators : creator[p].pc = "commit" => Code(p) # Code(q)
      BY <1>3 DEF InsertTenant, Leave, CodePending
    <2>2. /\ codes' \in [Codes -> Registrations \cup {Nobody}]
          /\ codes'[Code(q)] = creator[q].org
          /\ \A k \in Codes : k # Code(q) => codes'[k] = codes[k]
      BY <1>0, <1>a, <1>b, <2>1
    <2>3. Tried(NoCreator)
      BY <1>c, NoCreatorTypes DEF Tried
    <2>4. /\ orgs' \in SUBSET Registrations /\ bereft' \in SUBSET Registrations
          /\ bereft \subseteq bereft'
          /\ \A k \in Codes : codes[k] # Nobody => codes'[k] = codes[k]
          /\ \A p \in Creators : p # q /\ creator[p].pc = "commit" => codes'[Code(p)] = Nobody
      BY <1>0, <1>b, <1>d, <2>1, <2>2
    <2>5. \A org \in orgs' :
            \/ org \in orgs /\ ~ (creator[q].org = org /\ ~ creator[q].tx)
            \/ HasTenant(org)'
      <3>1. PICK o : o = creator[q].org
        OBVIOUS
      <3>2. HasTenant(o)'
        BY <1>b, <2>2, <3>1 DEF HasTenant
      <3>3. QED
        BY <3>1, <3>2, <2>1
    <2>6. QED
      BY <2>1, <2>2, <2>3, <2>4, <2>5, NoCreatorTypes, CreatorMoves
  <1>4. ASSUME NEW q \in Creators, InsertTenantInTransaction(q)
        PROVE  CodesInv'
    <2> DEFINE n == [creator[q] EXCEPT !.pc = "commit"]
    <2>1. /\ n \in Creator /\ n.pc = "commit" /\ n.org = creator[q].org
          /\ n.tx = creator[q].tx /\ n.tried = creator[q].tried /\ n.name = creator[q].name
      BY <1>0 DEF Creator
    <2>2. /\ creator' = [creator EXCEPT ![q] = n] /\ UNCHANGED <<orgs, codes, bereft>>
          /\ creator[q].pc = "insert" /\ creator[q].tx /\ ~ CodePending(Code(q))
          /\ codes[Code(q)] = Nobody
      BY <1>4 DEF InsertTenantInTransaction
    <2> HIDE DEF n
    <2>3. /\ n.org # Nobody /\ Tried(n)
          /\ Code(q) = Candidates[n.name][n.tried]
      BY <2>1, <2>2 DEF CodesInv, CreatorsBusy, CodeTried, Tried, Code
    <2>4. /\ orgs' \in SUBSET Registrations /\ bereft' \in SUBSET Registrations
          /\ bereft \subseteq bereft'
          /\ \A k \in Codes : codes[k] # Nobody => codes'[k] = codes[k]
          /\ \A p \in Creators : p # q /\ creator[p].pc = "commit" => codes'[Code(p)] = Nobody
      BY <1>0, <1>d, <2>1, <2>2
    <2>5. \A org \in orgs' :
            \/ org \in orgs /\ ~ (creator[q].org = org /\ ~ creator[q].tx)
            \/ n.org = org /\ ~ n.tx
      BY <2>1, <2>2
    <2>6. QED
      BY <1>0, <2>1, <2>2, <2>3, <2>4, <2>5, CreatorMoves
  <1>5. ASSUME NEW q \in Creators, Commit(q)
        PROVE  CodesInv'
    <2>1. /\ creator[q].pc = "commit" /\ orgs' = orgs \cup {creator[q].org}
          /\ codes' = [codes EXCEPT ![Code(q)] = creator[q].org]
          /\ creator' = [creator EXCEPT ![q] = NoCreator] /\ UNCHANGED bereft
      BY <1>5 DEF Commit, Leave
    <2>2. /\ codes' \in [Codes -> Registrations \cup {Nobody}]
          /\ codes'[Code(q)] = creator[q].org
          /\ \A k \in Codes : k # Code(q) => codes'[k] = codes[k]
      BY <1>0, <1>a, <1>b, <2>1
    <2>3. Tried(NoCreator)
      BY <1>c, NoCreatorTypes DEF Tried
    <2>4. /\ creator[q].tx /\ codes[Code(q)] = Nobody /\ creator[q].org \in Registrations
          /\ \A p \in Creators : p # q /\ creator[p].pc = "commit" => Code(p) # Code(q)
      BY <1>a, <2>1 DEF CodesInv, PendingFree, CreatorsBusy
    <2>5. /\ orgs' \in SUBSET Registrations /\ bereft' \in SUBSET Registrations
          /\ bereft \subseteq bereft'
          /\ \A k \in Codes : codes[k] # Nobody => codes'[k] = codes[k]
          /\ \A p \in Creators : p # q /\ creator[p].pc = "commit" => codes'[Code(p)] = Nobody
      BY <1>0, <1>b, <1>d, <2>1, <2>2, <2>4
    <2>6. \A org \in orgs' :
            \/ org \in orgs /\ ~ (creator[q].org = org /\ ~ creator[q].tx)
            \/ HasTenant(org)'
      <3>1. PICK o : o = creator[q].org
        OBVIOUS
      <3>2. HasTenant(o)'
        BY <1>b, <2>2, <3>1 DEF HasTenant
      <3>3. QED
        BY <3>1, <3>2, <2>1
    <2>7. QED
      BY <2>1, <2>2, <2>3, <2>5, <2>6, NoCreatorTypes, CreatorMoves
  <1>6. ASSUME NEW q \in Creators, CutOff(q)
        PROVE  CodesInv'
    <2>1. /\ creator[q].pc # "idle"
          /\ bereft' = (IF creator[q].tx THEN bereft ELSE bereft \cup {creator[q].org})
          /\ creator' = [creator EXCEPT ![q] = NoCreator] /\ UNCHANGED <<orgs, codes>>
      BY <1>6 DEF CutOff, Leave
    <2>2. creator[q].org \in Registrations
      BY <1>a, <2>1 DEF CodesInv, CreatorsBusy
    <2>3. Tried(NoCreator)
      BY <1>c, NoCreatorTypes DEF Tried
    <2>4. /\ orgs' \in SUBSET Registrations /\ bereft' \in SUBSET Registrations
          /\ bereft \subseteq bereft'
          /\ \A k \in Codes : codes[k] # Nobody => codes'[k] = codes[k]
          /\ \A p \in Creators : p # q /\ creator[p].pc = "commit" => codes'[Code(p)] = Nobody
      BY <1>0, <1>d, <2>1, <2>2
    <2>5. \A org \in orgs' :
            \/ org \in orgs /\ ~ (creator[q].org = org /\ ~ creator[q].tx)
            \/ org \in bereft'
      BY <2>1
    <2>6. QED
      BY <1>0, <2>1, <2>3, <2>4, <2>5, NoCreatorTypes, CreatorMoves
  <1>7. CASE UNCHANGED codeVars
    BY <1>7 DEF codeVars, CodesInv, CodesTypeOK, CodeTried, CreatorsBusy, PendingFree, Code,
                OrganizationsHaveTenants
  <1>8. QED
    BY <1>1, <1>2, <1>3, <1>4, <1>5, <1>6, <1>7, StaffKeeps DEF CodesNext, CreatorStep

\* The invariant of the creation of tenants, and of the codes they take.
THEOREM CodesCorrect == CodesSpec => []CodesInv
  <1>1. CodesInit => CodesInv
    BY CodesInitially
  <1>2. CodesInv /\ [CodesNext]_codeVars => CodesInv'
    BY CodesStep
  <1>3. QED
    BY <1>1, <1>2, PTL DEF CodesSpec

\* An organization without a tenant is one whose dashboard request is to insert it, lost its
\* code or was cut off, or one that staff left without: none that the API creates, whatever
\* overlaps.
THEOREM OrganizationsGetTenants == CodesSpec => []OrganizationsHaveTenants
  <1>1. CodesInv => OrganizationsHaveTenants
    BY DEF CodesInv
  <1>2. QED
    BY <1>1, CodesCorrect, PTL
-----------------------------------------------------------------------------
(* OneTimeReveal                                                           *)

PagesIdle ==
  \A p \in Pages : page[p].pc = "idle" => page[p].copy = NoPassword /\ page[p].run = NoPassword

\* A password that was not drawn yet is nowhere.
NotDrawn(x) ==
  /\ session # x /\ shown[x] = 0
  /\ \A p \in Pages : page[p].run # x /\ page[p].copy # x

\* A password that no two requests ever had is in one place at a time: with the run that
\* draws it, in the session and at most one copy of it, or shown.
OnePlace(x) ==
  /\ shown[x] \in {0, 1}
  /\ shown[x] = 1 => session # x /\ \A p \in Pages : page[p].copy # x
  /\ \A p, q \in Pages : page[p].copy = x /\ page[q].copy = x => p = q
  /\ \A p \in Pages : page[p].run = x =>
       /\ session # x /\ shown[x] = 0
       /\ \A q \in Pages : page[q].copy # x /\ (page[q].run = x => q = p)

RevealInv ==
  /\ RevealTypeOK /\ PagesIdle
  /\ \A x \in Runs : (x \in started \/ NotDrawn(x)) /\ (x \in shared \/ OnePlace(x))

LEMMA NoPageTypes ==
  /\ NoPage \in Page /\ NoPage.pc = "idle"
  /\ NoPage.copy = NoPassword /\ NoPage.run = NoPassword
  BY DEF NoPage, Page, Password

LEMMA RevealInitially ==
  ASSUME RevealInit
  PROVE  RevealInv
  BY NoPageTypes, RevealAssumption
  DEF RevealInit, RevealInv, RevealTypeOK, PagesIdle, NotDrawn, OnePlace, Password

\* A request begins with a copy of the session.
LEMMA LoadKeeps ==
  ASSUME RevealInv, NEW p \in Pages, NEW pc \in {"detail", "provision"},
         NEW x \in Runs \cup {NoPassword}, NEW retry \in BOOLEAN, Load(p, pc, x, retry),
         x # NoPassword => x \notin started /\ started' = started \cup {x},
         x = NoPassword => UNCHANGED started
  PROVE  RevealInv'
  <1> DEFINE n == [pc |-> pc, copy |-> session, run |-> x, retry |-> retry]
  <1>1. /\ page \in [Pages -> Page] /\ session \in Password
        /\ page' = [page EXCEPT ![p] = n] /\ page[p].pc = "idle"
        /\ shared' = (IF session # NoPassword /\ Held(session) THEN shared \cup {session}
                                                               ELSE shared)
        /\ UNCHANGED <<session, shown>>
    BY DEF Load, RevealInv, RevealTypeOK
  <1>2. n \in Page /\ n.pc # "idle" /\ n.copy = session /\ n.run = x
    BY <1>1 DEF Page, Password
  <1> HIDE DEF n
  <1>3. page'[p] = n /\ \A q \in Pages : q # p => page'[q] = page[q]
    BY <1>1
  <1>4. page[p].run = NoPassword /\ page[p].copy = NoPassword
    BY <1>1 DEF RevealInv, PagesIdle
  <1>5. shared' \in SUBSET Runs /\ started' \in SUBSET Runs
    BY <1>1 DEF RevealInv, RevealTypeOK, Password
  <1>6. RevealTypeOK' /\ PagesIdle'
    BY <1>1, <1>2, <1>3, <1>5 DEF RevealInv, RevealTypeOK, PagesIdle
  <1>7. ASSUME NEW y \in Runs, y \notin started'
        PROVE  NotDrawn(y)'
    <2>1. y \notin started /\ NotDrawn(y) /\ y # x
      BY <1>7, RevealAssumption DEF RevealInv
    <2>2. QED
      BY <1>1, <1>2, <1>3, <2>1 DEF NotDrawn
  <1>8. ASSUME NEW y \in Runs, y \notin shared'
        PROVE  OnePlace(y)'
    <2>1. y \notin shared /\ OnePlace(y) /\ y # NoPassword
      BY <1>1, <1>8, RevealAssumption DEF RevealInv
    <2>2. session = y => \A q \in Pages : page[q].copy # y
      BY <1>1, <1>8, <2>1 DEF Held
    <2>3. x = y => NotDrawn(y)
      BY <2>1 DEF RevealInv
    <2>4. QED
      BY <1>1, <1>2, <1>3, <1>4, <2>1, <2>2, <2>3 DEF OnePlace, NotDrawn
  <1>9. QED
    BY <1>6, <1>7, <1>8 DEF RevealInv

\* A request ends, the session is w, and what was in its copy may have been shown.
LEMMA AnswerKeeps ==
  ASSUME RevealInv, NEW p \in Pages, NEW w \in Password, Answer(p, w),
         shown' \in [Runs -> 0..2],
         w \in {NoPassword, session, page[p].copy, page[p].run},
         \A x \in Runs : \/ shown'[x] = shown[x]
                         \/ x = page[p].copy /\ w = NoPassword /\ (shown[x] = 0 => shown'[x] = 1)
  PROVE  RevealInv'
  <1>1. /\ page \in [Pages -> Page] /\ session' = w /\ page' = [page EXCEPT ![p] = NoPage]
        /\ UNCHANGED <<started, shared>>
    BY DEF Answer, RevealInv, RevealTypeOK
  <1>2. page'[p] = NoPage /\ \A q \in Pages : q # p => page'[q] = page[q]
    BY <1>1
  <1>3. RevealTypeOK' /\ PagesIdle'
    BY <1>1, <1>2, NoPageTypes DEF RevealInv, RevealTypeOK, PagesIdle
  <1>4. ASSUME NEW x \in Runs, NotDrawn(x)
        PROVE  NotDrawn(x)'
    BY <1>1, <1>2, <1>4, NoPageTypes, RevealAssumption DEF NotDrawn
  <1>5. ASSUME NEW x \in Runs, OnePlace(x)
        PROVE  OnePlace(x)'
    BY <1>1, <1>2, <1>5, NoPageTypes, RevealAssumption DEF OnePlace
  <1>6. QED
    BY <1>1, <1>3, <1>4, <1>5 DEF RevealInv

LEMMA RevealStep ==
  ASSUME RevealInv, [RevealNext]_revealVars
  PROVE  RevealInv'
  <1>0. /\ session \in Password /\ NoPassword \in Password /\ shown \in [Runs -> 0..2]
        /\ \A p \in Pages : page[p].copy \in Password /\ page[p].run \in Password
    BY DEF RevealInv, RevealTypeOK, Page, Password
  <1>1. ASSUME NEW p \in Pages, OpenDetail(p)
        PROVE  RevealInv'
    BY <1>1, LoadKeeps DEF OpenDetail
  <1>2. ASSUME NEW p \in Pages, NEW x \in Runs, NEW retry \in BOOLEAN, BeginRun(p, x, retry)
        PROVE  RevealInv'
    BY <1>2, LoadKeeps, RevealAssumption DEF BeginRun
  <1>3. ASSUME NEW p \in Pages, ShowDetail(p)
        PROVE  RevealInv'
    <2>1. shown' = [x \in Runs |-> IF x = page[p].copy /\ shown[x] < 2 THEN shown[x] + 1
                                                                      ELSE shown[x]]
      BY <1>3 DEF ShowDetail
    <2>2. /\ shown' \in [Runs -> 0..2]
          /\ \A x \in Runs : \/ shown'[x] = shown[x]
                             \/ x = page[p].copy /\ (shown[x] = 0 => shown'[x] = 1)
      BY <1>0, <2>1
    <2>3. CASE Answer(p, NoPassword)
      BY <1>0, <2>2, <2>3, AnswerKeeps
    <2>4. CASE page[p].copy = NoPassword /\ Answer(p, session)
      <3>1. \A x \in Runs : shown'[x] = shown[x]
        BY <2>2, <2>4, RevealAssumption
      <3>2. PICK w \in Password : w = session
        BY <1>0
      <3>3. Answer(p, w)
        BY <2>4, <3>2
      <3>4. QED
        BY <2>2, <3>1, <3>2, <3>3, AnswerKeeps
    <2>5. QED
      BY <1>3, <2>3, <2>4 DEF ShowDetail
  <1>4. ASSUME NEW p \in Pages, RunSucceeds(p)
        PROVE  RevealInv'
    <2>1. PICK w \in Password : w = page[p].run
      BY <1>0
    <2>2. Answer(p, w) /\ UNCHANGED shown
      BY <1>4, <2>1 DEF RunSucceeds
    <2>3. QED
      BY <1>0, <2>1, <2>2, AnswerKeeps
  <1>5. ASSUME NEW p \in Pages, RunFails(p)
        PROVE  RevealInv'
    <2>1. PICK w \in Password : w = (IF page[p].retry THEN page[p].copy ELSE NoPassword)
      BY <1>0
    <2>2. Answer(p, w) /\ UNCHANGED shown
      BY <1>5, <2>1 DEF RunFails
    <2>3. QED
      BY <1>0, <2>1, <2>2, AnswerKeeps
  <1>6. ASSUME NEW p \in Pages, FailPage(p)
        PROVE  RevealInv'
    <2>1. PICK w \in Password : w = session
      BY <1>0
    <2>2. Answer(p, w) /\ UNCHANGED shown
      BY <1>6, <2>1 DEF FailPage
    <2>3. QED
      BY <1>0, <2>1, <2>2, AnswerKeeps
  <1>7. CASE UNCHANGED revealVars
    BY <1>7 DEF revealVars, RevealInv, RevealTypeOK, PagesIdle, NotDrawn, OnePlace
  <1>8. QED
    BY <1>1, <1>2, <1>3, <1>4, <1>5, <1>6, <1>7 DEF RevealNext

\* The invariant of the page that shows a password once.
THEOREM RevealCorrect == RevealSpec => []RevealInv
  <1>1. RevealInit => RevealInv
    BY RevealInitially
  <1>2. RevealInv /\ [RevealNext]_revealVars => RevealInv'
    BY RevealStep
  <1>3. QED
    BY <1>1, <1>2, PTL DEF RevealSpec

\* A password is shown twice only if two requests had it in their copies at one time.
THEOREM RevealsOnce == RevealSpec => []RevealedOnce
  <1>1. RevealInv => RevealedOnce
    BY DEF RevealInv, OnePlace, RevealedOnce
  <1>2. QED
    BY <1>1, RevealCorrect, PTL

-----------------------------------------------------------------------------
(* RateLimiter                                                             *)

\* A request that was let through read a count below the limit.
CountsBelowLimit == \A c \in Callers : caller[c].pc = "set" => caller[c].count < Limit

\* The life an entry has used up is the time since the last request was let through.
EntryAges == counter.left > 0 => quiet + counter.left <= Window

Entered == counter.value > 0 => counter.left > 0

LimiterInv == LimiterTypeOK /\ CountsBelowLimit /\ EntryAges /\ Entered

LEMMA LimiterInitially ==
  ASSUME LimiterInit
  PROVE  LimiterInv
  BY LimiterAssumption
  DEF LimiterInit, LimiterInv, LimiterTypeOK, CountsBelowLimit, EntryAges, Entered

\* The invariant speaks of the entry, of the callers, and of the history.
LEMMA CallerMoves ==
  ASSUME LimiterInv, UNCHANGED <<counter, accepted, quiet>>, NEW c \in Callers,
         NEW n \in [pc : {"idle", "set"}, count : 0..Limit], n.pc = "set" => n.count < Limit,
         caller' = [caller EXCEPT ![c] = n]
  PROVE  LimiterInv'
  <1>1. LimiterTypeOK'
    BY DEF LimiterInv, LimiterTypeOK
  <1>2. CountsBelowLimit'
    BY DEF LimiterInv, LimiterTypeOK, CountsBelowLimit
  <1>3. QED
    BY <1>1, <1>2 DEF LimiterInv, EntryAges, Entered

LEMMA LimiterStep ==
  ASSUME LimiterInv, [LimiterNext]_limiterVars
  PROVE  LimiterInv'
  <1>1. /\ counter.value \in 0..Limit /\ counter.left \in 0..Window
        /\ counter \in [value : 0..Limit, left : 0..Window]
        /\ caller \in [Callers -> [pc : {"idle", "set"}, count : 0..Limit]]
        /\ accepted \in Nat /\ quiet \in 0..Window
        /\ Limit \in Nat \ {0} /\ Window \in Nat \ {0}
    BY LimiterAssumption DEF LimiterInv, LimiterTypeOK
  <1> DEFINE idle == [pc |-> "idle", count |-> 0]
  <1>2. idle \in [pc : {"idle", "set"}, count : 0..Limit] /\ idle.pc = "idle"
    BY <1>1
  <1> HIDE DEF idle
  <1>3. ASSUME NEW c \in Callers, GetCount(c)
        PROVE  LimiterInv'
    <2> DEFINE n == [pc |-> "set", count |-> counter.value]
    <2>1. /\ n \in [pc : {"idle", "set"}, count : 0..Limit] /\ n.count < Limit
          /\ caller' = [caller EXCEPT ![c] = n] /\ UNCHANGED <<counter, accepted, quiet>>
      BY <1>1, <1>3 DEF GetCount
    <2> HIDE DEF n
    <2>2. QED
      BY <2>1, CallerMoves
  <1>4. ASSUME NEW c \in Callers, CacheFails(c)
        PROVE  LimiterInv'
    BY <1>2, <1>4, CallerMoves DEF CacheFails, idle
  <1>5. ASSUME NEW c \in Callers, SetCount(c)
        PROVE  LimiterInv'
    <2>1. /\ caller[c].count \in 0..Limit /\ caller[c].count < Limit
          /\ counter' = [value |-> caller[c].count + 1, left |-> Window]
          /\ caller' = [caller EXCEPT ![c] = idle]
          /\ accepted' = accepted + 1 /\ quiet' = 0
      BY <1>1, <1>5 DEF SetCount, LimiterInv, CountsBelowLimit, idle
    <2>2. caller[c].count + 1 \in 0..Limit
      BY <1>1, <2>1
    <2>3. LimiterTypeOK'
      BY <1>1, <1>2, <2>1, <2>2 DEF LimiterTypeOK
    <2>4. CountsBelowLimit'
      BY <1>1, <1>2, <2>1 DEF LimiterInv, CountsBelowLimit
    <2>5. EntryAges' /\ Entered'
      BY <1>1, <2>1 DEF EntryAges, Entered
    <2>6. QED
      BY <2>3, <2>4, <2>5 DEF LimiterInv
  <1>6. CASE Age
    <2>1. counter.left > 0 /\ UNCHANGED caller
      BY <1>6 DEF Age
    <2>2. quiet + counter.left <= Window
      BY <2>1 DEF LimiterInv, EntryAges
    <2>3. quiet' = quiet + 1 /\ quiet' \in 0..Window /\ accepted' \in Nat
      BY <1>1, <1>6, <2>1, <2>2 DEF Age
    <2>4. CASE counter.left = 1
      <3>1. counter' = [value |-> 0, left |-> 0]
        BY <1>6, <2>4 DEF Age
      <3>2. QED
        BY <1>1, <2>1, <2>3, <3>1
        DEF LimiterInv, LimiterTypeOK, CountsBelowLimit, EntryAges, Entered
    <2>5. CASE counter.left # 1
      <3>1. counter' = [counter EXCEPT !.left = counter.left - 1]
        BY <1>6, <2>5 DEF Age
      <3>2. counter.left - 1 \in 0..Window /\ counter.left - 1 > 0
        BY <1>1, <2>1, <2>5
      <3>3. /\ counter' \in [value : 0..Limit, left : 0..Window]
            /\ counter'.left = counter.left - 1
        BY <1>1, <3>1, <3>2
      <3>4. LimiterTypeOK' /\ CountsBelowLimit'
        BY <2>1, <2>3, <3>3 DEF LimiterInv, LimiterTypeOK, CountsBelowLimit
      <3>5. EntryAges' /\ Entered'
        BY <1>1, <2>2, <2>3, <3>2, <3>3 DEF EntryAges, Entered
      <3>6. QED
        BY <3>4, <3>5 DEF LimiterInv
    <2>6. QED
      BY <2>4, <2>5
  <1>7. CASE UNCHANGED limiterVars
    BY <1>7 DEF limiterVars, LimiterInv, LimiterTypeOK, CountsBelowLimit, EntryAges, Entered
  <1>8. QED
    BY <1>3, <1>4, <1>5, <1>6, <1>7 DEF LimiterNext, Refuse

\* The invariant of RateLimitMiddleware.
THEOREM LimiterCorrect == LimiterSpec => []LimiterInv
  <1>1. LimiterInit => LimiterInv
    BY LimiterInitially
  <1>2. LimiterInv /\ [LimiterNext]_limiterVars => LimiterInv'
    BY LimiterStep
  <1>3. QED
    BY <1>1, <1>2, PTL DEF LimiterSpec

\* Whoever is refused had a request let through less than a window ago.
THEOREM RefusedClientsAreServedAgain == LimiterSpec => []RefusalsEnd
  <1>1. LimiterInv => RefusalsEnd
    <2> SUFFICES ASSUME LimiterInv, counter.value > 0
                 PROVE  quiet < Window
      BY DEF RefusalsEnd
    <2>1. /\ counter.left \in 0..Window /\ quiet \in 0..Window /\ Window \in Nat
          /\ counter.left > 0
      BY LimiterAssumption DEF LimiterInv, LimiterTypeOK, Entered
    <2>2. quiet + counter.left <= Window
      BY <2>1 DEF LimiterInv, EntryAges
    <2>3. QED
      BY <2>1, <2>2
  <1>2. QED
    BY <1>1, LimiterCorrect, PTL

-----------------------------------------------------------------------------
(* The entry is a StaleCounter                                             *)

EntryProofs == INSTANCE StaleCounterProofs
  WITH Procs <- Callers, Full <- Limit,
       value <- counter.value, hold <- CountsRead, writes <- accepted

LEMMA CountsReadAre ==
  ASSUME LimiterInv, NEW c \in Callers
  PROVE  /\ CountsRead[c] = IF caller[c].pc = "set" THEN caller[c].count ELSE Limit
         /\ CountsRead[c] < Limit <=> caller[c].pc = "set"
         /\ caller[c].pc \in {"idle", "set"}
  BY LimiterAssumption DEF LimiterInv, LimiterTypeOK, CountsBelowLimit, CountsRead

\* What a request holds, when it alone moves.
LEMMA CountRead ==
  ASSUME LimiterInv, NEW c \in Callers, NEW n,
         caller' = [caller EXCEPT ![c] = [pc |-> "set", count |-> n]]
  PROVE  CountsRead' = [CountsRead EXCEPT ![c] = n]
  BY DEF LimiterInv, LimiterTypeOK, CountsRead

LEMMA CountLetGo ==
  ASSUME LimiterInv, NEW c \in Callers,
         caller' = [caller EXCEPT ![c] = [pc |-> "idle", count |-> 0]]
  PROVE  CountsRead' = [CountsRead EXCEPT ![c] = Limit]
  BY DEF LimiterInv, LimiterTypeOK, CountsRead

\* The operators on finite sets are those of the library in every instance.
LEMMA SameOperators ==
  ASSUME NEW S
  PROVE  /\ EntryProofs!IsFiniteSet(S) <=> IsFiniteSet(S)
         /\ EntryProofs!Cardinality(S) = Cardinality(S)
         /\ Entry!Cardinality(S) = Cardinality(S)
  BY Zenon DEF IsFiniteSet, Cardinality, Entry!Cardinality, EntryProofs!IsFiniteSet,
               EntryProofs!Cardinality

LEMMA EntryStep ==
  ASSUME LimiterInv, [LimiterNext]_limiterVars
  PROVE  [Entry!CounterNext]_Entry!counterVars
  <1>1. ASSUME NEW c \in Callers, GetCount(c)
        PROVE  Entry!Read(c)
    <2>1. ~ (CountsRead[c] < Limit)
      BY <1>1, CountsReadAre DEF GetCount
    <2>2. CountsRead' = [CountsRead EXCEPT ![c] = counter.value]
      BY <1>1, CountRead DEF GetCount
    <2>3. QED
      BY <1>1, <2>1, <2>2 DEF GetCount, Entry!Read, Entry!Holds
  <1>2. ASSUME NEW c \in Callers, SetCount(c)
        PROVE  Entry!Write(c)
    <2>1. CountsRead[c] < Limit /\ CountsRead[c] = caller[c].count
      BY <1>2, CountsReadAre DEF SetCount
    <2>2. counter'.value = caller[c].count + 1 /\ accepted' = accepted + 1
      BY <1>2 DEF SetCount
    <2>3. CountsRead' = [CountsRead EXCEPT ![c] = Limit]
      BY <1>2, CountLetGo DEF SetCount
    <2>4. QED
      BY <2>1, <2>2, <2>3 DEF Entry!Write, Entry!Holds
  <1>3. ASSUME NEW c \in Callers, CacheFails(c)
        PROVE  Entry!Drop(c)
    BY <1>3, CountsReadAre, CountLetGo DEF CacheFails, Entry!Drop, Entry!Holds
  <1>4. CASE Age
    <2>1. CountsRead' = CountsRead
      BY <1>4 DEF Age, CountsRead
    <2>2. CASE counter.left = 1
      <3>1. counter'.value = 0 /\ accepted' = 0
        BY <1>4, <2>2 DEF Age
      <3>2. Entry!StartAgain
        BY <2>1, <3>1, LimiterAssumption DEF Entry!StartAgain
      <3>3. QED
        BY <3>2 DEF Entry!CounterNext
    <2>3. CASE counter.left # 1
      <3>1. counter'.value = counter.value /\ accepted' = accepted
        BY <1>4, <2>3 DEF Age, LimiterInv, LimiterTypeOK
      <3>2. QED
        BY <2>1, <3>1 DEF Entry!counterVars
    <2>4. QED
      BY <2>2, <2>3
  <1>5. CASE UNCHANGED limiterVars
    BY <1>5 DEF limiterVars, CountsRead, Entry!counterVars
  <1>6. QED
    BY <1>1, <1>2, <1>3, <1>4, <1>5 DEF LimiterNext, Refuse, Entry!CounterNext

\* The limiter is a counter that requests raise by writing back what they have read.
THEOREM LimiterRefines == LimiterSpec => RefinesEntry
  <1>1. LimiterInit => Entry!CounterInit
    BY DEF LimiterInit, CountsRead, Entry!CounterInit
  <1>2. LimiterInv /\ [LimiterNext]_limiterVars => [Entry!CounterNext]_Entry!counterVars
    BY EntryStep
  <1>3. QED
    BY <1>1, <1>2, LimiterCorrect, PTL DEF LimiterSpec, RefinesEntry, Entry!CounterSpec

\* The instance that the proofs are about is the one that the model refers to.
LEMMA LimiterCounts == LimiterSpec => EntryProofs!CounterSpec
  <1>1. Entry!CounterInit <=> EntryProofs!CounterInit
    BY DEF Entry!CounterInit, EntryProofs!CounterInit
  <1>2. [Entry!CounterNext]_Entry!counterVars <=> [EntryProofs!CounterNext]_EntryProofs!counterVars
    BY DEF Entry!CounterNext, Entry!counterVars, Entry!Read, Entry!Write, Entry!Drop,
           Entry!StartAgain, Entry!Holds, EntryProofs!CounterNext, EntryProofs!counterVars,
           EntryProofs!Read, EntryProofs!Write, EntryProofs!Drop, EntryProofs!StartAgain,
           EntryProofs!Holds
  <1>3. RefinesEntry => EntryProofs!CounterSpec
    BY <1>1, <1>2, PTL DEF RefinesEntry, Entry!CounterSpec, EntryProofs!CounterSpec
  <1>4. QED
    BY <1>3, LimiterRefines, PTL

LEMMA EntryConstants == EntryProofs!CounterConstants
  BY LimiterAssumption, SameOperators DEF EntryProofs!CounterConstants

\* However the requests overlap, those let through while the counter lives are fewer than its
\* profiles, for any limit, window and number of workers.
THEOREM AcceptedAreBounded == LimiterSpec => []AcceptedBounded
  <1>1. EntryProofs!CounterSpec => []EntryProofs!WritesBounded
    BY EntryConstants, EntryProofs!WritesAreBounded
  <1>2. EntryProofs!Profiles = Entry!Profiles
    BY SameOperators DEF EntryProofs!Profiles, EntryProofs!Levels, Entry!Profiles, Entry!Levels
  <1>3. EntryProofs!WritesBounded <=> AcceptedBounded
    BY <1>2, SameOperators DEF EntryProofs!WritesBounded, AcceptedBounded
  <1>4. QED
    BY <1>1, <1>3, LimiterCounts, PTL

\* With one worker no request is lost: what is let through while the counter lives is no more
\* than the limit.
THEOREM OneWorkerKeepsTheLimit ==
  ASSUME Cardinality(Callers) = 1
  PROVE  LimiterSpec => [](accepted <= Limit)
  <1>1. EntryProofs!Cardinality(Callers) = 1
    BY SameOperators
  <1>2. EntryProofs!CounterSpec => [](accepted <= Limit)
    BY <1>1, EntryConstants, EntryProofs!OneAtATime
  <1>3. QED
    BY <1>2, LimiterCounts, PTL

-----------------------------------------------------------------------------
(* The platform                                                            *)

\* A component moves, or it stands.
LEMMA ComponentsMove ==
  ASSUME [PlatformNext]_platformVars
  PROVE  /\ [SessionsNext]_sessionVars /\ [GuardNext]_guardVars /\ [LimiterNext]_limiterVars
         /\ [CallsNext]_callVars /\ [CodesNext]_codeVars /\ [RevealNext]_revealVars
         /\ [SweepNext]_sweepVars
  BY DEF PlatformNext, platformVars

\* A behaviour of the platform is one of each of its components, because the components share
\* nothing: what is proved of a component is true of it there.
LEMMA PlatformImplements ==
  PlatformSpec => /\ SessionsSpec /\ GuardSpec /\ LimiterSpec /\ CallsSpec /\ CodesSpec
                  /\ RevealSpec /\ SweepSpec
  <1>1. PlatformInit => /\ SessionsInit /\ GuardInit /\ LimiterInit /\ CallsInit /\ CodesInit
                        /\ RevealInit /\ SweepInit
    BY DEF PlatformInit
  <1>2. QED
    BY <1>1, ComponentsMove, PTL
    DEF PlatformSpec, SessionsSpec, GuardSpec, LimiterSpec, CallsSpec, CodesSpec, RevealSpec,
        SweepSpec

\* Every component's variables keep their types.
THEOREM PlatformTypeCorrect == PlatformSpec => []PlatformTypeOK
  <1>1. /\ SessionsInv => SessionsTypeOK
        /\ LimiterInv => LimiterTypeOK
        /\ CallsInv => CallsTypeOK
        /\ CodesInv => CodesTypeOK
        /\ RevealInv => RevealTypeOK
        /\ SweepInv => SweepTypeOK
    BY DEF SessionsInv, LimiterInv, CallsInv, CodesInv, RevealInv, SweepInv
  <1>2. QED
    BY <1>1, PlatformImplements, SessionsCorrect, GuardTypeCorrect, LimiterCorrect, CallsCorrect,
       CodesCorrect, RevealCorrect, SweepCorrect, PTL DEF PlatformTypeOK
=============================================================================
