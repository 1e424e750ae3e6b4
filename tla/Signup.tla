------------------------------- MODULE Signup -------------------------------
(***************************************************************************)
(* Self-service signup (apps/signup) and the onboarding it shares with the *)
(* onboard_tenant command (apps/iam/services.py).  A form is checked, a    *)
(* link is mailed; whoever opens it before it expires has one transaction  *)
(* create the tenant, its branch and its owner, mark the request verified  *)
(* and mail the password, the mail leaving before the commit.              *)
(*                                                                         *)
(* The database is MySQL under Django's read-committed transactions: exists*)
(* queries see committed rows; an insert waits for an open transaction that*)
(* holds the same unique value, then fails if that one committed.  Slugs   *)
(* and usernames are unique in the database, e-mail addresses are not.     *)
(***************************************************************************)
EXTENDS Naturals, FiniteSets

CONSTANTS
  Requests,      \* SignupRequest rows
  TenantIds,     \* ids of tenants; an id is used once (bound)
  Workers,       \* web workers, and processes running a management command
  Forms,         \* what may be typed in: [slug, owner, email]
  Slugs,
  None,
  Acts           \* acts of administrators: subset of {"add", "edit", "delete", "account"}

ASSUME SignupAssumption ==
  /\ \A f \in Forms : f.slug \in Slugs /\ f.owner # None /\ f.email # None
  /\ None \notin Requests \cup TenantIds \cup Slugs
  /\ Acts \subseteq {"add", "edit", "delete", "account"}

VARIABLES
  signup,    \* signup requests
  tenant,    \* committed tenants, each with its owner
  job        \* the onboarding each process is in

signupVars == <<signup, tenant, job>>

Names == {f.owner : f \in Forms}
Emails == {f.email : f \in Forms}
Status == {"open", "suspended"}      \* trial and active are treated alike
Stages == {"idle", "found", "checked", "tenant", "owner", "mailed"}

\* "from" and "kept" are history: the request a tenant stems from, and whether its
\* owner's account still has the name that request asked for.
Tenant == [slug : Slugs \cup {None}, status : Status \cup {"unused", "deleted"}, owner : Names \cup {None},
           email : Emails \cup {None}, from : Requests \cup {None}, kept : BOOLEAN]
Signup == [form : Forms \cup {None}, verified : BOOLEAN, expired : BOOLEAN, tenant : TenantIds \cup {None}]
Job == [at : Stages, req : Requests \cup {None}, form : Forms \cup {None},
        tenant : TenantIds \cup {None}]

NoSignup == [form |-> None, verified |-> FALSE, expired |-> FALSE, tenant |-> None]
NoTenant == [slug |-> None, status |-> "unused", owner |-> None, email |-> None, from |-> None,
             kept |-> FALSE]
Deleted == [NoTenant EXCEPT !.status = "deleted"]
Idle == [at |-> "idle", req |-> None, form |-> None, tenant |-> None]

Live == {t \in TenantIds : tenant[t].status \in Status}
SlugTaken(s) == \E t \in Live : tenant[t].slug = s
NameTaken(n) == \E t \in Live : tenant[t].owner = n
EmailUsed(e) == \E t \in Live : tenant[t].email = e

Registered(f) == SlugTaken(f.slug) \/ NameTaken(f.owner) \/ EmailUsed(f.email)

\* Unique values of rows an open transaction has inserted.
SlugHeld(s) == \E w \in Workers : job[w].at \in {"tenant", "owner", "mailed"} /\ job[w].form.slug = s
NameHeld(n) == \E w \in Workers : job[w].at \in {"owner", "mailed"} /\ job[w].form.owner = n

Fresh == {t \in TenantIds : tenant[t] = NoTenant /\ \A w \in Workers : job[w].tenant # t}

EndJob(w) == job' = [job EXCEPT ![w] = Idle]

-----------------------------------------------------------------------------
(* The applicant *)

\* SignupForm: pending requests are not compared with.
Submit(r, f) ==
  /\ signup[r] = NoSignup
  /\ ~Registered(f)
  /\ signup' = [signup EXCEPT ![r] =
       [form |-> f, verified |-> FALSE, expired |-> FALSE, tenant |-> None]]
  /\ UNCHANGED <<tenant, job>>

Expire(r) ==
  /\ signup[r] # NoSignup /\ ~signup[r].verified /\ ~signup[r].expired
  /\ signup' = [signup EXCEPT ![r].expired = TRUE]
  /\ UNCHANGED <<tenant, job>>

\* verify_signup: the request as it is now, not locked; a verified or an expired
\* one is answered with a page.
OpenLink(w, r) ==
  /\ job[w] = Idle
  /\ signup[r] # NoSignup /\ ~signup[r].verified /\ ~signup[r].expired
  /\ job' = [job EXCEPT ![w] = [Idle EXCEPT !.at = "found", !.req = r, !.form = signup[r].form]]
  /\ UNCHANGED <<signup, tenant>>

\* The onboard_tenant command: no request and no mail.
RunCommand(w, f) ==
  /\ job[w] = Idle
  /\ job' = [job EXCEPT ![w] = [Idle EXCEPT !.at = "found", !.form = f]]
  /\ UNCHANGED <<signup, tenant>>

-----------------------------------------------------------------------------
(* The transaction of finalize_signup and onboard_tenant *)

Check(w) ==
  /\ job[w].at = "found"
  /\ IF Registered(job[w].form) THEN EndJob(w)
     ELSE job' = [job EXCEPT ![w].at = "checked"]
  /\ UNCHANGED <<signup, tenant>>

\* Mutant: the database does not compare with what is committed.
ClashesNever(taken) == FALSE

Clashes(taken) == taken

InsertTenant(w) ==
  /\ job[w].at = "checked" /\ ~SlugHeld(job[w].form.slug)
  /\ \/ Clashes(SlugTaken(job[w].form.slug)) /\ EndJob(w)
     \/ ~Clashes(SlugTaken(job[w].form.slug)) /\ \E t \in Fresh :
          job' = [job EXCEPT ![w].at = "tenant", ![w].tenant = t]
  /\ UNCHANGED <<signup, tenant>>

InsertOwner(w) ==
  /\ job[w].at = "tenant" /\ ~NameHeld(job[w].form.owner)
  /\ IF Clashes(NameTaken(job[w].form.owner)) THEN EndJob(w)
     ELSE job' = [job EXCEPT ![w].at = "owner"]
  /\ UNCHANGED <<signup, tenant>>

\* Mutant: the request is saved on its own, before the transaction commits.
VerifyFirst(w) ==
  /\ job[w].at = "owner" /\ job[w].req # None
  /\ job' = [job EXCEPT ![w].at = "mailed"]
  /\ signup' = [signup EXCEPT ![job[w].req].verified = TRUE, ![job[w].req].tenant = job[w].tenant]
  /\ UNCHANGED tenant

\* The welcome with the password leaves; nothing calls it back when the
\* transaction is lost afterwards.
Mail(w) ==
  /\ job[w].at = "owner" /\ job[w].req # None
  /\ job' = [job EXCEPT ![w].at = "mailed"]
  /\ UNCHANGED <<signup, tenant>>

NewTenant(j) ==
  [slug |-> j.form.slug, status |-> "open", owner |-> j.form.owner, email |-> j.form.email, from |-> j.req,
   kept |-> j.req # None]

\* The request becomes verified in the same transaction.
Commit(w) ==
  /\ job[w].at = IF job[w].req = None THEN "owner" ELSE "mailed"
  /\ tenant' = [tenant EXCEPT ![job[w].tenant] = NewTenant(job[w])]
  /\ signup' = IF job[w].req = None THEN signup
               ELSE [signup EXCEPT ![job[w].req].verified = TRUE, ![job[w].req].tenant = job[w].tenant]
  /\ EndJob(w)

\* The connection is lost or the worker killed: everything but a mail that has left is undone.
Crash(w) ==
  /\ job[w] # Idle
  /\ EndJob(w)
  /\ UNCHANGED <<signup, tenant>>

-----------------------------------------------------------------------------
(* The super-admin (TenantAdmin), and who may edit users (UserAdmin) *)

AddTenant(t, s) ==
  /\ "add" \in Acts
  /\ t \in Fresh /\ ~SlugTaken(s) /\ ~SlugHeld(s)
  /\ tenant' = [tenant EXCEPT ![t] = [NoTenant EXCEPT !.slug = s, !.status = "open"]]
  /\ UNCHANGED <<signup, job>>

EditTenant(t, s, st) ==
  /\ "edit" \in Acts
  /\ t \in Live /\ <<s, st>> # <<tenant[t].slug, tenant[t].status>>
  /\ s # tenant[t].slug => ~SlugTaken(s) /\ ~SlugHeld(s)
  /\ tenant' = [tenant EXCEPT ![t].slug = s, ![t].status = st]
  /\ UNCHANGED <<signup, job>>

\* The owner's account is renamed, gets another address, or is added where there is
\* none.  An update waits for the names open transactions hold, as an insert does.
EditOwner(t, n, e) ==
  /\ "account" \in Acts
  /\ t \in Live /\ <<n, e>> # <<tenant[t].owner, tenant[t].email>>
  /\ n # tenant[t].owner => ~NameTaken(n) /\ ~NameHeld(n)
  /\ tenant' = [tenant EXCEPT ![t].owner = n, ![t].email = e, ![t].kept = @ /\ n = tenant[t].owner]
  /\ UNCHANGED <<signup, job>>

DeleteOwner(t) ==
  /\ "account" \in Acts
  /\ t \in Live /\ tenant[t].owner # None
  /\ tenant' = [tenant EXCEPT ![t].owner = None, ![t].email = None, ![t].kept = FALSE]
  /\ UNCHANGED <<signup, job>>

\* Users go with their tenant; tenant_created of its request is set to null.
DeleteTenant(t) ==
  /\ "delete" \in Acts
  /\ t \in Live
  /\ tenant' = [tenant EXCEPT ![t] = Deleted]
  /\ signup' = [r \in Requests |->
       IF signup[r].tenant = t THEN [signup[r] EXCEPT !.tenant = None]
       ELSE signup[r]]
  /\ UNCHANGED job
-----------------------------------------------------------------------------
SignupInit ==
  /\ signup = [r \in Requests |-> NoSignup]
  /\ tenant = [t \in TenantIds |-> NoTenant]
  /\ job = [w \in Workers |-> Idle]

ApplicantStep == \E r \in Requests : Expire(r) \/ \E f \in Forms : Submit(r, f)

\* Steps that begin, continue and may end a process's onboarding.
BeginStep(w) == (\E r \in Requests : OpenLink(w, r)) \/ (\E f \in Forms : RunCommand(w, f))
OnboardStep(w) == Check(w) \/ InsertTenant(w) \/ InsertOwner(w) \/ Mail(w) \/ Commit(w) \/ Crash(w)

SuperStep ==
  \E t \in TenantIds :
    \/ \E s \in Slugs : AddTenant(t, s) \/ \E st \in Status : EditTenant(t, s, st)
    \/ \E n \in Names, e \in Emails : EditOwner(t, n, e)
    \/ DeleteOwner(t) \/ DeleteTenant(t)

SignupNext == ApplicantStep \/ SuperStep \/ \E w \in Workers : BeginStep(w) \/ OnboardStep(w)

SignupSpec == SignupInit /\ [][SignupNext]_signupVars
-----------------------------------------------------------------------------
(* Properties *)

SignupTypeOK ==
  /\ signup \in [Requests -> Signup]
  /\ tenant \in [TenantIds -> Tenant]
  /\ job \in [Workers -> Job]

\* However often and at whatever moment its link is opened, a request has one
\* tenant at a time, also when that is renamed or deleted meanwhile: what it rests
\* on is the owner's name, so a shop whose owner's account was renamed or deleted
\* protects nobody.
OneShopPerRequest ==
  \A t, u \in Live :
    tenant[t].from # None /\ tenant[t].from = tenant[u].from /\ tenant[t].kept /\ tenant[u].kept => t = u

\* A verified request has its tenant, owned by who asked unless the account was
\* changed, for as long as that is not deleted.
VerifiedHasShop ==
  \A r \in Requests :
    signup[r].tenant # None
      => LET t == signup[r].tenant
         IN  /\ signup[r].verified /\ t \in Live /\ tenant[t].from = r
             /\ tenant[t].kept => tenant[t].owner = signup[r].form.owner
=============================================================================
