---------------------------- MODULE TenantCodes ----------------------------
(***************************************************************************)
(* How organizations get their tenant and its code, and lose it.  The       *)
(* dashboard inserts the organization, looks for a free code, and inserts   *)
(* the tenant, each on its own; the API does the same in one transaction.   *)
(* In the admin, staff add organizations alone, and add, change and delete  *)
(* tenants.  Registration numbers and codes are unique columns, names are   *)
(* not.                                                                     *)
(***************************************************************************)
EXTENDS Naturals, Sequences

CONSTANTS
  Creators,        \* requests that create an organization, at the same time
  Registrations,   \* registration numbers
  Candidates,      \* the codes that a name leads to, in the order they are tried
  Nobody

VARIABLES
  orgs,        \* registration numbers of the committed Organization rows
  codes,       \* the organization whose Tenant row has the code
  creator,     \* a request between two statements
  bereft       \* history: organizations whose dashboard request lost its code to another or was
               \* cut off, that staff added without a tenant, or that staff took a tenant from

codeVars == <<orgs, codes, creator, bereft>>

Names == DOMAIN Candidates

\* The base code is always tried, so a name has candidates; the loop's bound is their number.
ASSUME CodesAssumption ==
  /\ Nobody \notin Registrations
  /\ Names # {}
  /\ \A n \in Names :
       Len(Candidates[n]) \in Nat \ {0} /\ DOMAIN Candidates[n] = 1..Len(Candidates[n])

Codes == UNION {{Candidates[n][i] : i \in DOMAIN Candidates[n]} : n \in Names}

\* pc: where the request is; tx: whether it is a transaction, of the API.
Creator == [pc : {"idle", "search", "insert", "commit"}, tx : BOOLEAN,
            org : Registrations \cup {Nobody}, name : Names, tried : Nat]

NoCreator == [pc |-> "idle", tx |-> FALSE, org |-> Nobody, name |-> CHOOSE n \in Names : TRUE,
              tried |-> 1]

CodesTypeOK ==
  /\ orgs \in SUBSET Registrations /\ bereft \in SUBSET Registrations
  /\ codes \in [Codes -> Registrations \cup {Nobody}]
  /\ creator \in [Creators -> Creator]

CodesInit ==
  /\ orgs = {} /\ bereft = {}
  /\ codes = [k \in Codes |-> Nobody]
  /\ creator = [q \in Creators |-> NoCreator]

Code(q) == Candidates[creator[q].name][creator[q].tried]

\* An insert waits for a transaction that has inserted the same key and not ended.
OrgPending(org) == \E q \in Creators : creator[q].tx /\ creator[q].org = org
CodePending(code) == \E q \in Creators : creator[q].pc = "commit" /\ Code(q) = code

Leave(q) == creator' = [creator EXCEPT ![q] = NoCreator]

\* perform_create without the transaction.
InsertOrganizationAtOnce(q, tx, org, name) ==
  /\ creator[q].pc = "idle"
  /\ ~ OrgPending(org) /\ org \notin orgs
  /\ orgs' = orgs \cup {org}
  /\ creator' = [creator EXCEPT ![q] =
       [pc |-> "search", tx |-> tx, org |-> org, name |-> name, tried |-> 1]]
  /\ UNCHANGED <<codes, bereft>>

\* The organization's row; a registration number in use is refused, and nothing happened.
InsertOrganization(q, tx, org, name) ==
  /\ creator[q].pc = "idle"
  /\ ~ OrgPending(org) /\ org \notin orgs
  /\ orgs' = IF tx THEN orgs ELSE orgs \cup {org}
  /\ creator' = [creator EXCEPT ![q] =
       [pc |-> "search", tx |-> tx, org |-> org, name |-> name, tried |-> 1]]
  /\ UNCHANGED <<codes, bereft>>

\* _unique_tenant_code, _suggest_tenant_code: exists() sees what is committed.
TryCode(q) ==
  /\ creator[q].pc = "search"
  /\ IF codes[Code(q)] = Nobody
     THEN creator' = [creator EXCEPT ![q].pc = "insert"]
     ELSE creator[q].tried < Len(Candidates[creator[q].name]) /\
          creator' = [creator EXCEPT ![q].tried = @ + 1]
  /\ UNCHANGED <<orgs, codes, bereft>>

\* The tenant's row, of a request that commits it by itself.
InsertTenant(q) ==
  /\ creator[q].pc = "insert" /\ ~ creator[q].tx
  /\ ~ CodePending(Code(q)) /\ codes[Code(q)] = Nobody
  /\ codes' = [codes EXCEPT ![Code(q)] = creator[q].org]
  /\ Leave(q)
  /\ UNCHANGED <<orgs, bereft>>

InsertTenantInTransaction(q) ==
  /\ creator[q].pc = "insert" /\ creator[q].tx
  /\ ~ CodePending(Code(q)) /\ codes[Code(q)] = Nobody
  /\ creator' = [creator EXCEPT ![q].pc = "commit"]
  /\ UNCHANGED <<orgs, codes, bereft>>

Commit(q) ==
  /\ creator[q].pc = "commit"
  /\ orgs' = orgs \cup {creator[q].org}
  /\ codes' = [codes EXCEPT ![Code(q)] = creator[q].org]
  /\ Leave(q)
  /\ UNCHANGED bereft

\* The code was taken since it was looked up, or the registry refuses, or the worker is
\* killed: a transaction takes its organization back, the dashboard leaves it.
CutOff(q) ==
  /\ creator[q].pc # "idle"
  /\ bereft' = IF creator[q].tx THEN bereft ELSE bereft \cup {creator[q].org}
  /\ Leave(q)
  /\ UNCHANGED <<orgs, codes>>

-----------------------------------------------------------------------------
(* OrganizationViewSet, TenantViewSet and the admin, one transaction each    *)

\* The add form of OrganizationAdmin makes no tenant.
AddOrganization(org) ==
  /\ ~ OrgPending(org) /\ org \notin orgs
  /\ orgs' = orgs \cup {org} /\ bereft' = bereft \cup {org}
  /\ UNCHANGED <<codes, creator>>

\* An organization that a tenant refers to is protected.  A dashboard request that is still
\* to insert one can only fail from then on.
DeleteOrganization(org) ==
  /\ org \in orgs /\ \A k \in Codes : codes[k] # org
  /\ orgs' = orgs \ {org} /\ bereft' = bereft \ {org}
  /\ creator' = [q \in Creators |-> IF creator[q].org = org THEN NoCreator ELSE creator[q]]
  /\ UNCHANGED codes

\* POST /tenants and the add form of TenantAdmin: a tenant more, under a code typed by hand;
\* one that no name leads to takes nothing from anybody.
Free(code) == codes[code] = Nobody /\ ~ CodePending(code)

AddTenant(org, code) ==
  /\ org \in orgs /\ Free(code)
  /\ codes' = [codes EXCEPT ![code] = org]
  /\ UNCHANGED <<orgs, creator, bereft>>

\* The change form of TenantAdmin: another organization, another code, or both.
ChangeTenant(code, org, new) ==
  /\ codes[code] # Nobody /\ org \in orgs /\ (new = code \/ Free(new))
  /\ codes' = [codes EXCEPT ![code] = Nobody, ![new] = org]
  /\ bereft' = bereft \cup ({codes[code]} \ {org})
  /\ UNCHANGED <<orgs, creator>>

DeleteTenant(code) ==
  /\ codes[code] # Nobody
  /\ codes' = [codes EXCEPT ![code] = Nobody]
  /\ bereft' = bereft \cup {codes[code]}
  /\ UNCHANGED <<orgs, creator>>

-----------------------------------------------------------------------------
CreatorStep(q) ==
  \/ TryCode(q) \/ InsertTenant(q) \/ InsertTenantInTransaction(q) \/ Commit(q) \/ CutOff(q)

StaffStep ==
  \/ \E org \in Registrations : AddOrganization(org) \/ DeleteOrganization(org)
  \/ \E org \in Registrations, code \in Codes : AddTenant(org, code)
  \/ \E org \in Registrations, code, new \in Codes : ChangeTenant(code, org, new)
  \/ \E code \in Codes : DeleteTenant(code)

CodesNext ==
  \/ \E q \in Creators :
       \/ \E tx \in BOOLEAN, org \in Registrations, name \in Names :
            InsertOrganization(q, tx, org, name)
       \/ CreatorStep(q)
  \/ StaffStep

CodesSpec == CodesInit /\ [][CodesNext]_codeVars

-----------------------------------------------------------------------------
\* An organization is without a tenant only while the dashboard is about to insert one, or
\* when that request was beaten to the code or cut off, or by what staff did in the admin: one
\* that the API creates is never seen without its tenant, whatever the requests overlap with.
OrganizationsHaveTenants ==
  \A org \in orgs :
    \/ \E k \in Codes : codes[k] = org
    \/ org \in bereft
    \/ \E q \in Creators : creator[q].org = org /\ ~ creator[q].tx
=============================================================================
