------------------------------ MODULE Tenancy ------------------------------
(***************************************************************************)
(* The tenant a request works for (apps/core/middleware.py, tenancy.py,    *)
(* models.py, forms.py, admin.py): the middleware resolves it from the     *)
(* host name and keeps it in a thread-local, which managers filter by and  *)
(* which save() fills new rows from.  The threads are those of Signup's    *)
(* workers and the tenants those of Signup, so that both are checked as    *)
(* one system.                                                             *)
(***************************************************************************)
EXTENDS Signup

CONSTANTS
  Keys        \* values of a column that is unique per tenant (a code, a rate's date)

ASSUME TenancyAssumption == "super" \notin Slugs \cup TenantIds

VARIABLES
  scope,     \* the thread-local of each worker
  page,      \* the admin request each worker serves
  rows       \* tenant-scoped rows: [tenant, key]

tenancyVars == <<scope, page, rows>>
vars == <<signupVars, tenancyVars>>

\* "home" is the tenant of the signed-in user, None for a super-admin, who can only
\* sign in on the bare host; "others" is history: rows that came after the form
\* was checked.
Page == [at : {"none", "user", "work", "valid"}, tenant : TenantIds \cup {None},
         home : TenantIds \cup {None}, key : Keys \cup {None}, others : SUBSET [tenant : TenantIds, key : Keys]]
NoPage == [at |-> "none", tenant |-> None, home |-> None, key |-> None, others |-> {}]
Row == [tenant : TenantIds, key : Keys]

Free(w) == job[w] = Idle /\ page[w] = NoPage

\* The finally clause of the middleware.
Cleared(w) == [scope EXCEPT ![w] = None]

\* _tenant_perm: super-admins may do everything, staff only for their tenant.
MayAct(w) == page[w].home = None \/ page[w].home = page[w].tenant

\* TenantAwareManager.
Visible(w) == IF scope[w] = None THEN rows ELSE {x \in rows : x.tenant = scope[w]}

-----------------------------------------------------------------------------
\* Mutant: a tenant that is already set is kept.
ScopeOnce(w, t) == IF scope[w] = None THEN [scope EXCEPT ![w] = t] ELSE scope

ScopeSet(w, t) == [scope EXCEPT ![w] = t]

\* A request for a tenant's host by staff, who signed in there while they belonged
\* to it (TenantScopedModelBackend) and may have been moved to another tenant
\* since; an unknown or suspended tenant is a 404.
ArriveAtTenant(w, t, home) ==
  /\ Free(w)
  /\ t \in Live /\ tenant[t].status = "open"
  /\ home \in Live
  /\ scope' = ScopeSet(w, t)
  /\ page' = [page EXCEPT ![w] = [NoPage EXCEPT !.at = "user", !.tenant = t, !.home = home]]
  /\ UNCHANGED <<signupVars, rows>>

\* A request of a super-admin for the bare host: the thread-local is left alone.
ArriveAtSuper(w) ==
  /\ Free(w)
  /\ page' = [page EXCEPT ![w] = [NoPage EXCEPT !.at = "user"]]
  /\ UNCHANGED <<signupVars, scope, rows>>

\* Before the try block request.user is loaded, for its language.
LoadUser(w) ==
  /\ page[w].at = "user"
  /\ page' = [page EXCEPT ![w].at = "work"]
  /\ UNCHANGED <<signupVars, scope, rows>>

\* The database is gone at that moment: the request ends outside the try block.
LoadUserFails(w) ==
  /\ page[w].at = "user"
  /\ page' = [page EXCEPT ![w] = NoPage]
  /\ UNCHANGED <<signupVars, scope, rows>>

\* Mutant: uniqueness is left to the database.
DuplicateNever(w, k) == FALSE

\* _validate_tenant_unique; without a tenant nothing is compared.
Duplicate(w, k) == scope[w] # None /\ [tenant |-> scope[w], key |-> k] \in rows

CheckForm(w, k) ==
  /\ page[w].at = "work" /\ MayAct(w) /\ ~Duplicate(w, k)
  /\ page' = [page EXCEPT ![w].at = "valid", ![w].key = k]
  /\ UNCHANGED <<signupVars, scope, rows>>

NewRow(w) == [tenant |-> scope[w], key |-> page[w].key]

\* TenantAwareModel.save and the constraints of the table.
SaveRow(w) ==
  /\ page[w].at = "valid"
  /\ scope[w] \in Live /\ NewRow(w) \notin rows
  /\ rows' = rows \cup {NewRow(w)}
  /\ page' = [v \in Workers |->
       IF v = w THEN NoPage
       ELSE IF page[v].at = "valid" THEN [page[v] EXCEPT !.others = @ \cup {NewRow(w)}]
       ELSE page[v]]
  /\ scope' = Cleared(w)
  /\ UNCHANGED signupVars

\* No tenant (RuntimeError), no such tenant any more, or a duplicate: a 500 page.
SaveFails(w) ==
  /\ page[w].at = "valid"
  /\ scope[w] \notin Live \/ NewRow(w) \in rows
  /\ page' = [page EXCEPT ![w] = NoPage]
  /\ scope' = Cleared(w)
  /\ UNCHANGED <<signupVars, rows>>

\* A row seen in a list is deleted.
DeleteRow(w, x) ==
  /\ page[w].at = "work" /\ MayAct(w) /\ x \in Visible(w)
  /\ rows' = rows \ {x}
  /\ page' = [page EXCEPT ![w] = NoPage]
  /\ scope' = Cleared(w)
  /\ UNCHANGED signupVars

\* The request ends: looked at, refused, or the form shown again.
Leave(w) ==
  /\ page[w].at = "work"
  /\ page' = [page EXCEPT ![w] = NoPage]
  /\ scope' = Cleared(w)
  /\ UNCHANGED <<signupVars, rows>>

PageStep(w) ==
  \/ \E t \in TenantIds, home \in TenantIds : ArriveAtTenant(w, t, home)
  \/ ArriveAtSuper(w)
  \/ LoadUser(w) \/ LoadUserFails(w)
  \/ \E k \in Keys : CheckForm(w, k)
  \/ SaveRow(w) \/ SaveFails(w)
  \/ \E x \in rows : DeleteRow(w, x)
  \/ Leave(w)

\* Signup's requests run through the middleware as well, on the bare host: when
\* one ends the thread-local is cleared.
SignupStep ==
  \/ ApplicantStep /\ UNCHANGED tenancyVars
  \/ \E w \in Workers : page[w] = NoPage /\ BeginStep(w) /\ UNCHANGED tenancyVars
  \/ \E w \in Workers :
       /\ OnboardStep(w)
       /\ scope' = IF job'[w] = Idle THEN Cleared(w) ELSE scope
       /\ UNCHANGED <<page, rows>>

\* Mutant: rows outlive their tenant.
SuperAdminOnly == SuperStep /\ UNCHANGED tenancyVars

\* A tenant's rows are deleted with it.
SuperAdminStep ==
  /\ SuperStep
  /\ rows' = {x \in rows : tenant'[x.tenant] # Deleted}
  /\ UNCHANGED <<scope, page>>
-----------------------------------------------------------------------------
Init ==
  /\ SignupInit
  /\ scope = [w \in Workers |-> None]
  /\ page = [w \in Workers |-> NoPage]
  /\ rows = {}

Next == SignupStep \/ SuperAdminStep \/ \E w \in Workers : PageStep(w)

Spec == Init /\ [][Next]_vars
-----------------------------------------------------------------------------
(* Properties *)

\* Signup, the threads and the rows keep their types; a row's tenant exists.
TypeOK ==
  /\ SignupTypeOK
  /\ scope \in [Workers -> TenantIds \cup {None}]
  /\ page \in [Workers -> Page]
  /\ rows \subseteq Row /\ \A x \in rows : x.tenant \in Live

\* Whatever requests a thread served before and however they ended, a request for
\* a tenant's host sees the rows of that tenant and no others.
OwnScope ==
  \A w \in Workers :
    page[w].tenant # None => scope[w] = page[w].tenant /\ \A x \in Visible(w) : x.tenant = page[w].tenant

\* "TenantUniqueAdminForm closes a class of HTTP 500 bugs": a form that passed on
\* a tenant's host fails on a duplicate only if that was saved in between.
OnlyRacesFail ==
  \A w \in Workers :
    page[w].at = "valid" /\ page[w].tenant # None /\ NewRow(w) \in rows => NewRow(w) \in page[w].others
=============================================================================
