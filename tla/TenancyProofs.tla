---------------------------- MODULE TenancyProofs ---------------------------
(***************************************************************************)
(* Theorems about Signup and Tenancy, for any number of applicants,        *)
(* tenants, workers and forms: a request to sign up yields one shop at a   *)
(* time, unless the owner's account is changed, and every request of a     *)
(* shop's staff works in that shop.                                        *)
(***************************************************************************)
EXTENDS Tenancy, TLAPS

-----------------------------------------------------------------------------
(* Types of Signup *)

LEMMA SignupInitType == SignupInit => SignupTypeOK
BY DEF SignupInit, SignupTypeOK, NoSignup, NoTenant, Idle, Signup, Tenant, Job, Stages

LEMMA NoneTypes ==
  /\ NoSignup \in Signup /\ NoTenant \in Tenant /\ Deleted \in Tenant /\ Idle \in Job
  /\ Deleted.status = "deleted" /\ Deleted # NoTenant
BY DEF NoSignup, NoTenant, Deleted, Idle, Signup, Tenant, Job, Stages, Status

\* The end of an onboarding, or a step of it that leaves everything else alone.
LEMMA JobStepType ==
  ASSUME SignupTypeOK, NEW w \in Workers, NEW j \in Job,
         job' = [job EXCEPT ![w] = j], UNCHANGED <<signup, tenant>>
  PROVE  SignupTypeOK'
BY DEF SignupTypeOK

\* What each step of an onboarding but the commit does to its record.
LEMMA OnboardEffect ==
  ASSUME SignupTypeOK, NEW w \in Workers, OnboardStep(w), ~Commit(w)
  PROVE  /\ UNCHANGED <<signup, tenant>>
         /\ \E j \in Job :
              /\ job' = [job EXCEPT ![w] = j]
              /\ \/ j = Idle
                 \/ /\ j = [job[w] EXCEPT !.at = "checked"]
                    /\ job[w].at = "found"
                 \/ /\ \E t \in Fresh : j = [job[w] EXCEPT !.at = "tenant", !.tenant = t]
                    /\ job[w].at = "checked"
                 \/ /\ j = [job[w] EXCEPT !.at = "owner"]
                    /\ job[w].at = "tenant"
                    /\ ~NameHeld(job[w].form.owner) /\ ~NameTaken(job[w].form.owner)
                 \/ /\ j = [job[w] EXCEPT !.at = "mailed"]
                    /\ job[w].at = "owner"
<1>. DEFINE j(at) == [job[w] EXCEPT !.at = at]
            k(t) == [job[w] EXCEPT !.at = "tenant", !.tenant = t]
<1>1. job[w] \in Job /\ job = [v \in Workers |-> job[v]]
  BY DEF SignupTypeOK
<1>2. \A at \in Stages : j(at) \in Job
  BY <1>1 DEF Job
<1>3. \A t \in TenantIds : k(t) \in Job
  BY <1>1 DEF Job, Stages
<1>4. CASE EndJob(w)
  BY <1>4, NoneTypes DEF EndJob, OnboardStep, Check, InsertTenant, InsertOwner, Mail, Crash
<1>5. CASE Check(w) /\ ~EndJob(w)
  <2>1. job' = [job EXCEPT ![w] = j("checked")] /\ job[w].at = "found"
    BY <1>1, <1>5 DEF Check
  <2>. QED
    BY <1>2, <1>5, <2>1 DEF Check, Stages
<1>6. CASE InsertTenant(w) /\ ~EndJob(w)
  <2>1. PICK t \in Fresh : job' = [job EXCEPT ![w].at = "tenant", ![w].tenant = t]
    BY <1>6 DEF InsertTenant
  <2>2. job' = [job EXCEPT ![w] = k(t)]
    BY <1>1, <2>1
  <2>. QED
    BY <1>3, <1>6, <2>2 DEF InsertTenant, Fresh
<1>7. CASE InsertOwner(w) /\ ~EndJob(w)
  <2>1. job' = [job EXCEPT ![w] = j("owner")]
    BY <1>1, <1>7 DEF InsertOwner
  <2>. QED
    BY <1>2, <1>7, <2>1 DEF InsertOwner, Clashes, Stages
<1>8. CASE Mail(w)
  <2>1. job' = [job EXCEPT ![w] = j("mailed")]
    BY <1>1, <1>8 DEF Mail
  <2>. QED
    BY <1>2, <1>8, <2>1 DEF Mail, Stages
<1>. QED
  BY <1>4, <1>5, <1>6, <1>7, <1>8 DEF OnboardStep, Crash

-----------------------------------------------------------------------------
(* Onboarding.  Slugs may be renamed while a request waits to be committed;  *)
(* what keeps a request from a second shop is the name of its owner.         *)

Inserted == {"tenant", "owner", "mailed"}
Named == {"owner", "mailed"}

\* A process holds the form of its request, an id nobody uses once its tenant is
\* inserted, and a name nobody has once its owner is.
SoundJob(j) ==
  /\ j.at # "idle" => j.form \in Forms
  /\ j.req # None => /\ j.at # "idle" /\ signup[j.req] # NoSignup
                     /\ j.form = signup[j.req].form
  /\ j.tenant # None <=> j.at \in Inserted
  /\ j.tenant # None => tenant[j.tenant] = NoTenant
  /\ j.at \in Named => ~NameTaken(j.form.owner)

JobsApart ==
  \A v, w \in Workers : v # w =>
    /\ job[v].tenant # None => job[w].tenant # job[v].tenant
    /\ job[v].at \in Named /\ job[w].at \in Named => job[w].form.owner # job[v].form.owner

FormsKnown == \A r \in Requests : signup[r] # NoSignup => signup[r].form \in Forms

\* A tenant is owned by who asked for it until the owner's account is changed.
SoundOwner(t) ==
  LET r == tenant[t].from
  IN  r # None =>
        /\ signup[r] # NoSignup
        /\ tenant[t].kept => tenant[t].owner = signup[r].form.owner /\ tenant[t].owner # None

OwnersUnique ==
  \A t, u \in Live : tenant[t].owner # None /\ tenant[t].owner = tenant[u].owner => t = u

SignupInv ==
  /\ SignupTypeOK
  /\ \A w \in Workers : SoundJob(job[w])
  /\ JobsApart
  /\ \A t \in Live : SoundOwner(t)
  /\ FormsKnown /\ OwnersUnique
  /\ VerifiedHasShop

LEMMA InitSignup == SignupInit => SignupInv
<1>. SUFFICES ASSUME SignupInit PROVE SignupInv
  OBVIOUS
<1>1. Live = {}
  BY DEF SignupInit, Live, NoTenant, Status
<1>2. \A w \in Workers : job[w] = Idle
  BY DEF SignupInit
<1>3. \A w \in Workers : SoundJob(job[w])
  BY <1>2 DEF SoundJob, Idle, Inserted, Named
<1>4. JobsApart
  BY <1>2 DEF JobsApart, Idle, Named
<1>5. VerifiedHasShop /\ FormsKnown
  BY DEF SignupInit, VerifiedHasShop, FormsKnown, NoSignup
<1>. QED
  BY <1>1, <1>3, <1>4, <1>5, SignupInitType DEF SignupInv, OwnersUnique

\* A step of one process.
LEMMA JobStepSignup ==
  ASSUME SignupInv, NEW w \in Workers, NEW j \in Job,
         job' = [job EXCEPT ![w] = j], UNCHANGED <<signup, tenant>>,
         SoundJob(j),
         \A v \in Workers \ {w} :
           /\ job[v].tenant # None => j.tenant # job[v].tenant
           /\ job[v].at \in Named /\ j.at \in Named => j.form.owner # job[v].form.owner
  PROVE  SignupInv'
<1>1. SignupTypeOK'
  BY JobStepType DEF SignupInv
<1>2. job'[w] = j /\ \A v \in Workers \ {w} : job'[v] = job[v]
  BY DEF SignupInv, SignupTypeOK
<1>3. ASSUME NEW k, SoundJob(k) PROVE SoundJob(k)'
  BY <1>3 DEF SoundJob, NameTaken, Live
<1>4. \A v \in Workers : SoundJob(job[v])'
  BY <1>2, <1>3 DEF SignupInv
<1>5. JobsApart'
  BY <1>2 DEF SignupInv, JobsApart
<1>6. /\ \A t \in Live' : SoundOwner(t)'
      /\ OwnersUnique' /\ FormsKnown' /\ VerifiedHasShop'
  BY DEF SignupInv, SoundOwner, OwnersUnique, FormsKnown, VerifiedHasShop, Live
<1>. QED
  BY <1>1, <1>4, <1>5, <1>6 DEF SignupInv

LEMMA BeginSignup ==
  ASSUME SignupInv, NEW w \in Workers, BeginStep(w)
  PROVE  SignupInv'
<1>1. ASSUME NEW j \in Job, job' = [job EXCEPT ![w] = j], UNCHANGED <<signup, tenant>>,
             j.at = "found", j.form \in Forms, j.tenant = None,
             j.req # None => signup[j.req] # NoSignup /\ j.form = signup[j.req].form
      PROVE  SignupInv'
  <2>1. SoundJob(j) /\ j.at \notin Named
    BY <1>1 DEF SoundJob, Inserted, Named
  <2>. QED
    BY <1>1, <2>1, JobStepSignup
<1>2. ASSUME NEW r \in Requests, OpenLink(w, r) PROVE SignupInv'
  <2>. DEFINE j == [Idle EXCEPT !.at = "found", !.req = r, !.form = signup[r].form]
  <2>1. job' = [job EXCEPT ![w] = j] /\ UNCHANGED <<signup, tenant>> /\ signup[r] # NoSignup
    BY <1>2 DEF OpenLink
  <2>2. signup[r].form \in Forms
    BY <2>1 DEF SignupInv, FormsKnown
  <2>3. /\ j \in Job /\ j.at = "found" /\ j.form = signup[r].form /\ j.tenant = None
        /\ j.req = r
    BY <2>2 DEF Job, Idle, Stages
  <2>. HIDE DEF j
  <2>. QED
    BY <1>1, <2>1, <2>2, <2>3
<1>3. ASSUME NEW f \in Forms, RunCommand(w, f) PROVE SignupInv'
  <2>. DEFINE j == [Idle EXCEPT !.at = "found", !.form = f]
  <2>1. job' = [job EXCEPT ![w] = j] /\ UNCHANGED <<signup, tenant>>
    BY <1>3 DEF RunCommand
  <2>2. /\ j \in Job /\ j.at = "found" /\ j.form = f /\ j.tenant = None /\ j.req = None
    BY DEF Job, Idle, Stages
  <2>. HIDE DEF j
  <2>. QED
    BY <1>1, <2>1, <2>2
<1>. QED
  BY <1>2, <1>3 DEF BeginStep

\* Nobody else can hold the new id: Fresh looks at the open transactions; nor the
\* name: the insert of the owner waits for them and then compares with what they
\* have committed.
LEMMA OnboardSignup ==
  ASSUME SignupInv, NEW w \in Workers, OnboardStep(w), ~Commit(w)
  PROVE  SignupInv'
<1>. DEFINE old == job[w]
<1>0. SignupTypeOK /\ SoundJob(old) /\ JobsApart /\ old \in Job
  BY DEF SignupInv, SignupTypeOK
<1>1. UNCHANGED <<signup, tenant>>
  BY <1>0, OnboardEffect
<1>2. PICK j \in Job :
        /\ job' = [job EXCEPT ![w] = j]
        /\ \/ j = Idle
           \/ j = [old EXCEPT !.at = "checked"] /\ old.at = "found"
           \/ /\ \E t \in Fresh : j = [old EXCEPT !.at = "tenant", !.tenant = t]
              /\ old.at = "checked"
           \/ /\ j = [old EXCEPT !.at = "owner"]
              /\ old.at = "tenant"
              /\ ~NameHeld(old.form.owner) /\ ~NameTaken(old.form.owner)
           \/ j = [old EXCEPT !.at = "mailed"] /\ old.at = "owner"
  BY <1>0, OnboardEffect
<1>3. CASE j = Idle
  <2>1. SoundJob(j) /\ j.tenant = None /\ j.at \notin Named
    BY <1>3 DEF SoundJob, Idle, Inserted, Named
  <2>. QED
    BY <1>1, <1>2, <2>1, JobStepSignup
<1>4. CASE j = [old EXCEPT !.at = "checked"] /\ old.at = "found"
  <2>1. /\ j.at = "checked" /\ j.form = old.form /\ j.req = old.req /\ j.tenant = old.tenant
    BY <1>0, <1>4 DEF Job
  <2>2. SoundJob(j) /\ j.tenant = None /\ j.at \notin Named
    BY <1>0, <1>4, <2>1 DEF SoundJob, Inserted, Named
  <2>. QED
    BY <1>1, <1>2, <2>2, JobStepSignup
<1>5. ASSUME NEW t \in Fresh, j = [old EXCEPT !.at = "tenant", !.tenant = t], old.at = "checked"
      PROVE  SignupInv'
  <2>1. j.at = "tenant" /\ j.form = old.form /\ j.req = old.req /\ j.tenant = t
    BY <1>0, <1>5 DEF Job
  <2>2. /\ t \in TenantIds /\ tenant[t] = NoTenant
        /\ \A v \in Workers : job[v].tenant # t
    BY DEF Fresh
  <2>3. t # None
    BY <2>2, SignupAssumption
  <2>4. SoundJob(j) /\ j.at \notin Named
    BY <1>0, <1>5, <2>1, <2>2, <2>3 DEF SoundJob, Inserted, Named
  <2>. QED
    BY <1>1, <1>2, <2>1, <2>2, <2>4, JobStepSignup
<1>6. CASE /\ j = [old EXCEPT !.at = "owner"] /\ old.at = "tenant"
           /\ ~NameHeld(old.form.owner) /\ ~NameTaken(old.form.owner)
  <2>1. j.at = "owner" /\ j.form = old.form /\ j.req = old.req /\ j.tenant = old.tenant
    BY <1>0, <1>6 DEF Job
  <2>2. SoundJob(j)
    BY <1>0, <1>6, <2>1 DEF SoundJob, Inserted, Named
  <2>3. \A v \in Workers \ {w} :
          /\ job[v].tenant # None => j.tenant # job[v].tenant
          /\ job[v].at \in Named => j.form.owner # job[v].form.owner
    BY <1>0, <1>6, <2>1 DEF JobsApart, NameHeld, Named
  <2>. QED
    BY <1>1, <1>2, <2>2, <2>3, JobStepSignup
<1>7. CASE j = [old EXCEPT !.at = "mailed"] /\ old.at = "owner"
  <2>1. j.at = "mailed" /\ j.form = old.form /\ j.req = old.req /\ j.tenant = old.tenant
    BY <1>0, <1>7 DEF Job
  <2>2. SoundJob(j)
    BY <1>0, <1>7, <2>1 DEF SoundJob, Inserted, Named
  <2>3. \A v \in Workers \ {w} :
          /\ job[v].tenant # None => j.tenant # job[v].tenant
          /\ job[v].at \in Named => j.form.owner # job[v].form.owner
    BY <1>0, <1>7, <2>1 DEF JobsApart, Named
  <2>. QED
    BY <1>1, <1>2, <2>2, <2>3, JobStepSignup
<1>. QED
  BY <1>2, <1>3, <1>4, <1>5, <1>6, <1>7

\* The name the commit brings into the table is in nobody's way.
LEMMA CommitSignup ==
  ASSUME SignupInv, NEW w \in Workers, Commit(w)
  PROVE  SignupInv'
<1>. DEFINE j == job[w]
<1>0. SignupTypeOK /\ SoundJob(j) /\ JobsApart /\ j \in Job
  BY DEF SignupInv, SignupTypeOK
<1>1. j.at \in Named /\ j.at \in Inserted
  BY DEF Commit, Named, Inserted
<1>2. PICK t \in TenantIds : t = j.tenant
  BY <1>0, <1>1 DEF SoundJob, Job
<1>3. /\ j.form \in Forms /\ j.form.owner # None /\ tenant[t] = NoTenant /\ ~NameTaken(j.form.owner)
      /\ t # None /\ t \notin Live
      /\ j.req # None => j.req \in Requests /\ signup[j.req] # NoSignup
                         /\ j.form = signup[j.req].form
  BY <1>0, <1>1, <1>2, SignupAssumption
     DEF SoundJob, Job, Named, Inserted, Live, NoTenant, Status
<1>4. tenant' = [tenant EXCEPT ![t] = NewTenant(j)] /\ job' = [job EXCEPT ![w] = Idle]
  BY <1>2 DEF Commit, EndJob
<1>5. /\ NewTenant(j) \in Tenant
      /\ NewTenant(j).status = "open" /\ NewTenant(j).owner = j.form.owner
      /\ NewTenant(j).from = j.req
  BY <1>0, <1>3, SignupAssumption DEF NewTenant, Tenant, Names, Emails, Job, Status
<1>. HIDE DEF j
<1>6. /\ \A r \in Requests \ {j.req} : signup'[r] = signup[r]
      /\ j.req # None => signup'[j.req] = [signup[j.req] EXCEPT !.verified = TRUE, !.tenant = t]
      /\ signup' \in [Requests -> Signup]
  <2>1. CASE j.req = None
    BY <1>0, <2>1 DEF Commit, SignupTypeOK, j
  <2>2. CASE j.req # None
    <3>1. j.req \in Requests /\ signup[j.req] \in Signup
      BY <1>0, <1>3, <2>2 DEF SignupTypeOK
    <3>2. [signup[j.req] EXCEPT !.verified = TRUE, !.tenant = t] \in Signup
      BY <3>1 DEF Signup
    <3>3. signup' = [signup EXCEPT ![j.req].verified = TRUE, ![j.req].tenant = t]
      BY <1>2, <2>2 DEF Commit, j
    <3>4. signup' = [signup EXCEPT ![j.req] =
                       [signup[j.req] EXCEPT !.verified = TRUE, !.tenant = t]]
      BY <1>0, <3>1, <3>3 DEF SignupTypeOK
    <3>. QED
      BY <1>0, <3>1, <3>2, <3>4 DEF SignupTypeOK
  <2>. QED
    BY <2>1, <2>2
<1>7. \A r \in Requests : signup[r] # NoSignup => /\ signup'[r] # NoSignup
                                                  /\ signup'[r].form = signup[r].form
  <2>1. CASE j.req = None
    BY <1>6, <2>1, SignupAssumption
  <2>2. CASE j.req # None
    <3>1. signup[j.req] \in Signup
      BY <1>0, <1>3, <2>2 DEF SignupTypeOK
    <3>2. signup'[j.req].verified = TRUE /\ signup'[j.req].form = signup[j.req].form
      BY <1>6, <2>2, <3>1 DEF Signup
    <3>3. signup'[j.req] # NoSignup
      BY <3>2 DEF NoSignup
    <3>. QED
      BY <1>6, <3>2, <3>3
  <2>. QED
    BY <2>1, <2>2
<1>8. /\ tenant'[t] = NewTenant(j) /\ \A u \in TenantIds \ {t} : tenant'[u] = tenant[u]
      /\ tenant' \in [TenantIds -> Tenant]
  BY <1>0, <1>4, <1>5 DEF SignupTypeOK
<1>9. Live' = Live \cup {t}
  BY <1>5, <1>8 DEF Live, Status
<1>10. /\ job'[w] = Idle /\ \A v \in Workers \ {w} : job'[v] = job[v]
       /\ job' \in [Workers -> Job]
  BY <1>0, <1>4, NoneTypes DEF SignupTypeOK
<1>11. SignupTypeOK'
  BY <1>6, <1>8, <1>10 DEF SignupTypeOK
<1>12. ASSUME NEW v \in Workers PROVE SoundJob(job[v])'
  <2>1. CASE v = w
    BY <1>10, <2>1 DEF SoundJob, Idle, Inserted, Named
  <2>2. CASE v # w
    <3>. PICK k \in Job : k = job[v]
      BY <1>0 DEF SignupTypeOK
    <3>1. /\ SoundJob(k) /\ k.tenant # t
          /\ k.at \in Named => k.form.owner # j.form.owner
      BY <1>0, <1>1, <1>2, <1>3, <2>2 DEF SignupInv, JobsApart, j
    <3>2. /\ k.tenant \in TenantIds \cup {None} /\ k.req \in Requests \cup {None}
      BY DEF Job
    <3>3. k.at \in Named => ~NameTaken(k.form.owner)'
      BY <1>5, <1>8, <1>9, <3>1 DEF SoundJob, NameTaken, Live
    <3>4. k.tenant # None => tenant'[k.tenant] = NoTenant
      BY <1>8, <3>1, <3>2 DEF SoundJob
    <3>5. k.req # None => /\ k.at # "idle" /\ signup'[k.req] # NoSignup
                          /\ k.form = signup'[k.req].form
      BY <1>7, <3>1, <3>2 DEF SoundJob
    <3>6. job'[v] = k
      BY <1>10, <2>2
    <3>. QED
      BY <3>1, <3>3, <3>4, <3>5, <3>6 DEF SoundJob
  <2>. QED
    BY <2>1, <2>2
<1>13. JobsApart'
  BY <1>0, <1>10 DEF JobsApart, Idle, Named
<1>14. ASSUME NEW u \in Live' PROVE SoundOwner(u)'
  <2>1. CASE u = t
    BY <1>3, <1>5, <1>7, <1>8, <2>1 DEF SoundOwner
  <2>2. CASE u # t
    <3>1. u \in Live /\ SoundOwner(u) /\ tenant'[u] = tenant[u]
      BY <1>8, <1>9, <2>2 DEF SignupInv, Live
    <3>2. tenant[u].from \in Requests \cup {None}
      BY <1>0, <3>1 DEF SignupTypeOK, Tenant, Live
    <3>. QED
      BY <1>7, <3>1, <3>2 DEF SoundOwner
  <2>. QED
    BY <2>1, <2>2
<1>15. OwnersUnique'
  <2>1. \A u \in Live : u # t /\ tenant'[u] = tenant[u] /\ tenant[u].owner # j.form.owner
    BY <1>3, <1>8 DEF NameTaken, Live
  <2>. QED
    BY <1>5, <1>8, <1>9, <2>1 DEF SignupInv, OwnersUnique
<1>16. FormsKnown'
  <2>1. ASSUME NEW r \in Requests, signup'[r] # NoSignup PROVE signup'[r].form \in Forms
    <3>1. CASE signup[r] # NoSignup
      BY <1>7, <3>1 DEF SignupInv, FormsKnown
    <3>2. CASE signup[r] = NoSignup
      BY <1>3, <1>6, <2>1, <3>2, SignupAssumption
    <3>. QED
      BY <3>1, <3>2
  <2>. QED
    BY <2>1 DEF FormsKnown
<1>17. VerifiedHasShop'
  <2>1. ASSUME NEW r \in Requests, signup'[r].tenant # None
        PROVE  LET u == signup'[r].tenant
               IN  /\ signup'[r].verified /\ u \in Live' /\ tenant'[u].from = r
                   /\ tenant'[u].kept => tenant'[u].owner = signup'[r].form.owner
    <3>1. CASE r = j.req
      <4>1. r # None /\ signup[r] \in Signup
        BY <1>0, <3>1, SignupAssumption DEF SignupTypeOK
      <4>2. /\ signup'[r].verified /\ signup'[r].tenant = t
            /\ signup'[r].form = signup[r].form
        BY <1>6, <3>1, <4>1 DEF Signup
      <4>. QED
        BY <1>3, <1>5, <1>8, <1>9, <3>1, <4>1, <4>2
    <3>2. CASE r # j.req
      <4>1. PICK u : u = signup[r].tenant
        OBVIOUS
      <4>2. signup'[r] = signup[r] /\ u # None
        BY <1>6, <2>1, <3>2, <4>1
      <4>3. /\ signup[r].verified /\ u \in Live /\ tenant[u].from = r
            /\ tenant[u].kept => tenant[u].owner = signup[r].form.owner
        BY <4>1, <4>2 DEF SignupInv, VerifiedHasShop
      <4>4. tenant'[u] = tenant[u] /\ u \in Live'
        BY <1>3, <1>8, <1>9, <4>3 DEF Live
      <4>. QED
        BY <4>1, <4>2, <4>3, <4>4
    <3>. QED
      BY <3>1, <3>2
  <2>. QED
    BY <2>1 DEF VerifiedHasShop
<1>. QED
  BY <1>11, <1>12, <1>13, <1>14, <1>15, <1>16, <1>17 DEF SignupInv

\* Owners that stay or go take no name from anybody.
LEMMA OwnersStay ==
  ASSUME SignupInv,
         \A u \in Live' : tenant'[u].owner # None => u \in Live /\ tenant'[u].owner = tenant[u].owner
  PROVE  OwnersUnique' /\ \A n : NameTaken(n)' => n = None \/ NameTaken(n)
<1>1. OwnersUnique'
  BY DEF SignupInv, OwnersUnique
<1>2. \A n : NameTaken(n)' => n = None \/ NameTaken(n)
  BY DEF NameTaken
<1>. QED
  BY <1>1, <1>2

\* A step of an applicant or an administrator: requests in use keep their form, a
\* shop its request, and its owner unless the account is changed; no owner takes a
\* name somebody has or is about to have; ids that are held stay unused, and a
\* request loses its tenant when the tenant goes.
LEMMA OutsideSignup ==
  ASSUME SignupInv, SignupTypeOK', job' = job,
         \A r \in Requests : signup[r] # NoSignup =>
           signup'[r] # NoSignup /\ signup'[r].form = signup[r].form,
         FormsKnown', OwnersUnique',
         \A n : NameTaken(n)' => n = None \/ NameTaken(n) \/ ~NameHeld(n),
         \A u \in Live' : tenant'[u].from # None =>
           /\ u \in Live /\ tenant'[u].from = tenant[u].from
           /\ tenant'[u].kept => tenant[u].kept /\ tenant'[u].owner = tenant[u].owner,
         \A v \in Workers : job[v].tenant # None => tenant'[job[v].tenant] = tenant[job[v].tenant],
         \A r \in Requests : signup'[r].tenant # None =>
           /\ signup'[r].tenant = signup[r].tenant /\ signup'[r].verified
           /\ signup'[r].form = signup[r].form
           /\ LET u == signup[r].tenant
              IN  u \in Live => u \in Live' /\ tenant'[u].from = tenant[u].from
  PROVE  SignupInv'
<1>1. ASSUME NEW v \in Workers PROVE SoundJob(job[v])'
  <2>. PICK k \in Job : k = job[v]
    BY DEF SignupInv, SignupTypeOK
  <2>1. SoundJob(k) /\ k.req \in Requests \cup {None} /\ job'[v] = k
    BY DEF SignupInv, Job
  <2>2. k.at \in Named => ~NameTaken(k.form.owner)'
    <3>1. k.at \in Named => k.form.owner # None /\ NameHeld(k.form.owner)
      BY <2>1, SignupAssumption DEF SoundJob, Named, NameHeld
    <3>. QED
      BY <2>1, <3>1 DEF SoundJob
  <2>. QED
    BY <2>1, <2>2 DEF SoundJob
<1>2. ASSUME NEW u \in Live' PROVE SoundOwner(u)'
  <2>1. CASE tenant'[u].from = None
    BY <2>1 DEF SoundOwner
  <2>2. CASE tenant'[u].from # None
    <3>1. SoundOwner(u) /\ tenant[u].from \in Requests \cup {None}
      BY <2>2 DEF SignupInv, SignupTypeOK, Tenant, Live
    <3>. QED
      BY <2>2, <3>1 DEF SoundOwner
  <2>. QED
    BY <2>1, <2>2
<1>3. JobsApart'
  BY DEF SignupInv, JobsApart
<1>4. VerifiedHasShop'
  <2>1. ASSUME NEW r \in Requests, signup'[r].tenant # None
        PROVE  LET u == signup'[r].tenant
               IN  /\ signup'[r].verified /\ u \in Live' /\ tenant'[u].from = r
                   /\ tenant'[u].kept => tenant'[u].owner = signup'[r].form.owner
    <3>1. PICK u : u = signup[r].tenant
      OBVIOUS
    <3>2. /\ u \in Live /\ tenant[u].from = r /\ r # None
          /\ tenant[u].kept => tenant[u].owner = signup[r].form.owner
      BY <2>1, <3>1, SignupAssumption DEF SignupInv, VerifiedHasShop
    <3>. QED
      BY <2>1, <3>1, <3>2
  <2>. QED
    BY <2>1 DEF VerifiedHasShop
<1>. QED
  BY <1>1, <1>2, <1>3, <1>4 DEF SignupInv

LEMMA ApplicantSignup ==
  ASSUME SignupInv, ApplicantStep
  PROVE  SignupInv'
<1>0. SignupTypeOK /\ FormsKnown /\ VerifiedHasShop
  BY DEF SignupInv
<1>1. PICK r \in Requests : Expire(r) \/ \E f \in Forms : Submit(r, f)
  BY DEF ApplicantStep
<1>2. UNCHANGED <<tenant, job>>
  BY <1>1 DEF Expire, Submit
<1>3. /\ Live' = Live
      /\ OwnersUnique' /\ \A n : NameTaken(n)' => n = None \/ NameTaken(n)
  BY <1>2, OwnersStay DEF Live
<1>4. CASE Expire(r)
  <2>1. signup' = [signup EXCEPT ![r] = [signup[r] EXCEPT !.expired = TRUE]]
    BY <1>0, <1>4 DEF Expire, SignupTypeOK
  <2>2. /\ signup[r] \in Signup /\ [signup[r] EXCEPT !.expired = TRUE] \in Signup
    BY <1>0 DEF SignupTypeOK, Signup
  <2>3. /\ signup'[r].expired = TRUE /\ signup'[r].form = signup[r].form
        /\ signup'[r].tenant = signup[r].tenant /\ signup'[r].verified = signup[r].verified
        /\ \A q \in Requests \ {r} : signup'[q] = signup[q]
        /\ signup[r] # NoSignup
    BY <1>0, <1>4, <2>1, <2>2 DEF SignupTypeOK, Signup, Expire
  <2>4. SignupTypeOK'
    BY <1>0, <1>2, <2>1, <2>2 DEF SignupTypeOK
  <2>5. signup'[r] # NoSignup
    BY <2>3 DEF NoSignup
  <2>6. FormsKnown'
    BY <1>0, <2>3 DEF FormsKnown
  <2>7. \A q \in Requests : signup'[q].tenant # None => signup'[q].verified
    BY <1>0, <2>3 DEF VerifiedHasShop
  <2>. QED
    BY <1>2, <1>3, <2>3, <2>4, <2>5, <2>6, <2>7, OutsideSignup
<1>5. ASSUME NEW f \in Forms, Submit(r, f) PROVE SignupInv'
  <2>. DEFINE new == [form |-> f, verified |-> FALSE, expired |-> FALSE, tenant |-> None]
  <2>1. new \in Signup /\ new.tenant = None /\ new.form \in Forms
    BY DEF Signup
  <2>2. signup[r] = NoSignup /\ signup' = [signup EXCEPT ![r] = new]
    BY <1>5 DEF Submit
  <2>. HIDE DEF new
  <2>3. signup'[r] = new /\ \A q \in Requests \ {r} : signup'[q] = signup[q]
    BY <1>0, <2>2 DEF SignupTypeOK
  <2>4. SignupTypeOK'
    BY <1>0, <1>2, <2>1, <2>2 DEF SignupTypeOK
  <2>5. FormsKnown'
    BY <1>0, <2>1, <2>3 DEF FormsKnown
  <2>6. \A q \in Requests : signup'[q].tenant # None => q # r /\ signup'[q].verified
    BY <1>0, <2>1, <2>3 DEF VerifiedHasShop
  <2>. QED
    BY <1>2, <1>3, <2>2, <2>3, <2>4, <2>5, <2>6, OutsideSignup
<1>. QED
  BY <1>1, <1>4, <1>5

\* One shop's row is saved again: renamed, suspended, or its owner's account changed.
LEMMA ShopEdited ==
  ASSUME SignupInv, NEW t \in Live, NEW row \in Tenant,
         tenant' = [tenant EXCEPT ![t] = row], UNCHANGED <<signup, job>>,
         row.from = tenant[t].from, row.status \in Status,
         row.kept => tenant[t].kept /\ row.owner = tenant[t].owner,
         \/ row.owner = None \/ row.owner = tenant[t].owner
         \/ ~NameTaken(row.owner) /\ ~NameHeld(row.owner)
  PROVE  SignupInv'
<1>0. SignupTypeOK /\ FormsKnown /\ VerifiedHasShop /\ t \in TenantIds
  BY DEF SignupInv, Live
<1>1. \A r \in Requests : signup[r].tenant # None => signup[r].tenant \in Live /\ signup[r].verified
  BY <1>0 DEF VerifiedHasShop
<1>2. \A v \in Workers : job[v].tenant # None => job[v].tenant \in TenantIds \ Live
  <2>1. \A v \in Workers : job[v].tenant # None =>
          job[v].tenant \in TenantIds /\ tenant[job[v].tenant] = NoTenant
    BY <1>0 DEF SignupInv, SignupTypeOK, Job, SoundJob
  <2>. QED
    BY <2>1 DEF Live, NoTenant, Status
<1>3. tenant'[t] = row /\ \A u \in TenantIds \ {t} : tenant'[u] = tenant[u]
  BY <1>0 DEF SignupTypeOK
<1>4. Live' = Live /\ Live \subseteq TenantIds
  BY <1>3 DEF Live
<1>5. SignupTypeOK'
  BY <1>0 DEF SignupTypeOK
<1>6. FormsKnown'
  BY <1>0 DEF FormsKnown
<1>7. OwnersUnique' /\ \A n : NameTaken(n)' => n = None \/ NameTaken(n) \/ ~NameHeld(n)
  <2>1. CASE row.owner = None \/ row.owner = tenant[t].owner
    BY <1>3, <1>4, <2>1, OwnersStay
  <2>2. CASE ~NameTaken(row.owner) /\ ~NameHeld(row.owner)
    <3>1. \A u \in Live : u # t => tenant'[u] = tenant[u] /\ tenant[u].owner # row.owner
      BY <1>3, <1>4, <2>2 DEF NameTaken
    <3>2. OwnersUnique'
      BY <1>3, <1>4, <3>1 DEF SignupInv, OwnersUnique
    <3>3. \A n : NameTaken(n)' => NameTaken(n) \/ n = row.owner
      BY <1>3, <1>4, <3>1 DEF NameTaken
    <3>. QED
      BY <2>2, <3>2, <3>3
  <2>. QED
    BY <2>1, <2>2
<1>. QED
  BY <1>1, <1>2, <1>3, <1>4, <1>5, <1>6, <1>7, OutsideSignup

LEMMA SuperSignup ==
  ASSUME SignupInv, SuperStep
  PROVE  SignupInv'
<1>0. SignupTypeOK /\ FormsKnown /\ VerifiedHasShop
  BY DEF SignupInv
<1>1. PICK t \in TenantIds :
        \/ \E s \in Slugs : AddTenant(t, s) \/ \E st \in Status : EditTenant(t, s, st)
        \/ \E n \in Names, e \in Emails : EditOwner(t, n, e)
        \/ DeleteOwner(t) \/ DeleteTenant(t)
  BY DEF SuperStep
<1>2. \A r \in Requests : signup[r].tenant # None => signup[r].tenant \in Live /\ signup[r].verified
  BY <1>0 DEF VerifiedHasShop
<1>3. \A v \in Workers : job[v].tenant # None => tenant[job[v].tenant] = NoTenant
  BY DEF SignupInv, SoundJob
<1>4. \A v \in Workers : job[v].tenant # None => job[v].tenant \in TenantIds \ Live
  <2>1. \A v \in Workers : job[v].tenant # None => job[v].tenant \in TenantIds
    BY <1>0 DEF SignupTypeOK, Job
  <2>. QED
    BY <1>3, <2>1 DEF Live, NoTenant, Status
<1>5. ASSUME NEW s \in Slugs, AddTenant(t, s) PROVE SignupInv'
  <2>. DEFINE new == [NoTenant EXCEPT !.slug = s, !.status = "open"]
  <2>1. new \in Tenant /\ new.owner = None /\ new.from = None /\ new.status = "open"
    BY DEF NoTenant, Tenant, Status
  <2>2. /\ tenant[t] = NoTenant /\ tenant' = [tenant EXCEPT ![t] = new]
        /\ UNCHANGED <<signup, job>>
        /\ \A v \in Workers : job[v].tenant # t
    BY <1>5 DEF AddTenant, Fresh
  <2>. HIDE DEF new
  <2>3. tenant'[t] = new /\ \A u \in TenantIds \ {t} : tenant'[u] = tenant[u]
    BY <1>0, <2>2 DEF SignupTypeOK
  <2>4. t \notin Live /\ Live' = Live \cup {t}
    BY <2>1, <2>2, <2>3 DEF Live, NoTenant, Status
  <2>5. SignupTypeOK'
    BY <1>0, <2>1, <2>2 DEF SignupTypeOK
  <2>6. FormsKnown' /\ Live \subseteq TenantIds
    BY <1>0, <2>2 DEF FormsKnown, Live
  <2>7. OwnersUnique' /\ \A n : NameTaken(n)' => n = None \/ NameTaken(n)
    BY <2>1, <2>3, <2>4, <2>6, OwnersStay
  <2>. QED
    BY <1>2, <1>4, <2>1, <2>2, <2>3, <2>4, <2>5, <2>6, <2>7, OutsideSignup
<1>6. ASSUME NEW s \in Slugs, NEW st \in Status, EditTenant(t, s, st) PROVE SignupInv'
  <2>1. tenant[t] \in Tenant /\ t \in Live /\ UNCHANGED <<signup, job>>
    BY <1>0, <1>6 DEF SignupTypeOK, EditTenant
  <2>2. PICK row \in Tenant : row = [tenant[t] EXCEPT !.slug = s, !.status = st]
    BY <2>1 DEF Tenant
  <2>3. /\ row.owner = tenant[t].owner /\ row.from = tenant[t].from
        /\ row.status \in Status /\ row.kept = tenant[t].kept
    BY <2>1, <2>2 DEF Tenant
  <2>4. tenant' = [tenant EXCEPT ![t] = row]
    BY <1>0, <1>6, <2>2 DEF EditTenant, SignupTypeOK
  <2>. QED
    BY <2>1, <2>3, <2>4, ShopEdited
<1>7. ASSUME NEW n \in Names, NEW e \in Emails, EditOwner(t, n, e) PROVE SignupInv'
  <2>1. /\ tenant[t] \in Tenant /\ t \in Live /\ UNCHANGED <<signup, job>>
        /\ n # tenant[t].owner => ~NameTaken(n) /\ ~NameHeld(n)
    BY <1>0, <1>7 DEF SignupTypeOK, EditOwner
  <2>2. PICK row \in Tenant :
          row = [tenant[t] EXCEPT !.owner = n, !.email = e,
                                  !.kept = tenant[t].kept /\ n = tenant[t].owner]
    BY <2>1 DEF Tenant
  <2>3. /\ row.owner = n /\ row.from = tenant[t].from /\ row.status = tenant[t].status
        /\ row.kept => tenant[t].kept /\ n = tenant[t].owner
    BY <2>1, <2>2 DEF Tenant
  <2>4. tenant' = [tenant EXCEPT ![t] = row]
    BY <1>0, <1>7, <2>2 DEF EditOwner, SignupTypeOK
  <2>5. row.status \in Status
    BY <2>1, <2>3 DEF Live
  <2>. QED
    BY <2>1, <2>3, <2>4, <2>5, ShopEdited
<1>8. CASE DeleteOwner(t)
  <2>1. tenant[t] \in Tenant /\ t \in Live /\ UNCHANGED <<signup, job>>
    BY <1>0, <1>8 DEF SignupTypeOK, DeleteOwner
  <2>2. PICK row \in Tenant :
          row = [tenant[t] EXCEPT !.owner = None, !.email = None, !.kept = FALSE]
    BY <2>1 DEF Tenant
  <2>3. /\ row.owner = None /\ row.from = tenant[t].from
        /\ row.status = tenant[t].status /\ ~row.kept
    BY <2>1, <2>2 DEF Tenant
  <2>4. tenant' = [tenant EXCEPT ![t] = row]
    BY <1>0, <1>8, <2>2 DEF DeleteOwner, SignupTypeOK
  <2>5. row.status \in Status
    BY <2>1, <2>3 DEF Live
  <2>. QED
    BY <2>1, <2>3, <2>4, <2>5, ShopEdited
<1>9. CASE DeleteTenant(t)
  <2>1. /\ tenant' = [tenant EXCEPT ![t] = Deleted] /\ job' = job /\ t \in Live
        /\ signup' = [r \in Requests |-> IF signup[r].tenant = t
                                         THEN [signup[r] EXCEPT !.tenant = None] ELSE signup[r]]
    BY <1>9 DEF DeleteTenant
  <2>2. tenant'[t] = Deleted /\ \A u \in TenantIds \ {t} : tenant'[u] = tenant[u]
    BY <1>0, <2>1 DEF SignupTypeOK
  <2>3. Live' = Live \ {t} /\ Live \subseteq TenantIds /\ t # None
    BY <2>2, NoneTypes, SignupAssumption DEF Live, Status
  <2>4. ASSUME NEW r \in Requests
        PROVE  /\ signup'[r] \in Signup
               /\ signup'[r].form = signup[r].form /\ signup'[r].verified = signup[r].verified
               /\ signup'[r].tenant = IF signup[r].tenant = t THEN None ELSE signup[r].tenant
    BY <1>0, <2>1 DEF SignupTypeOK, Signup
  <2>5. SignupTypeOK'
    <3>1. tenant' \in [TenantIds -> Tenant]
      BY <1>0, <2>1, NoneTypes DEF SignupTypeOK
    <3>. QED
      BY <1>0, <2>1, <2>4, <3>1 DEF SignupTypeOK
  <2>6. ASSUME NEW r \in Requests, signup[r] # NoSignup PROVE signup'[r] # NoSignup
    <3>1. CASE signup[r].tenant = t
      BY <1>2, <2>3, <2>4, <3>1 DEF NoSignup
    <3>2. CASE signup[r].tenant # t
      BY <2>1, <2>6, <3>2
    <3>. QED
      BY <3>1, <3>2
  <2>7. FormsKnown'
    <3>1. \A r \in Requests : signup[r] = NoSignup => signup'[r] = NoSignup
      BY <2>1, <2>3 DEF NoSignup
    <3>. QED
      BY <1>0, <2>4, <3>1 DEF FormsKnown
  <2>8. OwnersUnique' /\ \A n : NameTaken(n)' => n = None \/ NameTaken(n)
    BY <2>2, <2>3, OwnersStay
  <2>. QED
    BY <1>2, <1>4, <2>1, <2>2, <2>3, <2>4, <2>5, <2>6, <2>7, <2>8, OutsideSignup
<1>. QED
  BY <1>1, <1>5, <1>6, <1>7, <1>8, <1>9

LEMMA NextSignup == SignupInv /\ [SignupNext]_signupVars => SignupInv'
<1>. SUFFICES ASSUME SignupInv, [SignupNext]_signupVars PROVE SignupInv'
  OBVIOUS
<1>1. CASE UNCHANGED signupVars
  BY <1>1 DEF signupVars, SignupInv, SignupTypeOK, SoundJob, JobsApart, SoundOwner, OwnersUnique,
     FormsKnown, VerifiedHasShop, Live, NameTaken
<1>. QED
  BY <1>1, ApplicantSignup, SuperSignup, BeginSignup, OnboardSignup, CommitSignup DEF SignupNext

-----------------------------------------------------------------------------
(* The composition: requests of staff and the onboarding share the threads.  *)

LEMMA NextIsSignup == [Next]_vars => [SignupNext]_signupVars
<1>. SUFFICES ASSUME [Next]_vars PROVE [SignupNext]_signupVars
  OBVIOUS
<1>1. ASSUME NEW w \in Workers, PageStep(w) PROVE UNCHANGED signupVars
  BY <1>1 DEF PageStep, ArriveAtTenant, ArriveAtSuper, LoadUser, LoadUserFails, CheckForm,
              SaveRow, SaveFails, DeleteRow, Leave
<1>. QED
  BY <1>1 DEF Next, vars, SignupStep, SuperAdminStep, SignupNext

\* A thread at work on a page is not in an onboarding, its thread-local is the
\* tenant of the page, and a checked form has its key.
SoundPage(w) ==
  /\ job[w] # Idle => page[w] = NoPage
  /\ page[w].tenant # None => scope[w] = page[w].tenant
  /\ page[w].at = "valid" => page[w].key \in Keys

PageType ==
  /\ scope \in [Workers -> TenantIds \cup {None}]
  /\ page \in [Workers -> Page]
  /\ rows \subseteq Row /\ \A x \in rows : x.tenant \in Live

\* OnlyRacesFail for one worker.
OnlyRaces(w) ==
  page[w].at = "valid" /\ page[w].tenant # None /\ NewRow(w) \in rows
    => NewRow(w) \in page[w].others

PageInv == PageType /\ \A w \in Workers : SoundPage(w) /\ OnlyRaces(w)

TenancyInv == SignupInv /\ PageInv

LEMMA InitTenancy == Init => TenancyInv
<1>1. NoPage \in Page /\ NoPage.tenant = None /\ NoPage.at = "none"
  BY DEF NoPage, Page
<1>. QED
  BY <1>1, InitSignup DEF Init, SignupInit, TenancyInv, PageInv, PageType, SoundPage, OnlyRaces

LEMMA OnboardLive ==
  ASSUME SignupInv, NEW w \in Workers, OnboardStep(w)
  PROVE  /\ job[w] # Idle /\ Live \subseteq Live'
         /\ \A v \in Workers \ {w} : job'[v] = job[v]
<1>0. SignupTypeOK /\ SoundJob(job[w]) /\ job[w] \in Job
  BY DEF SignupInv, SignupTypeOK
<1>1. job[w] # Idle
  BY DEF OnboardStep, Check, InsertTenant, InsertOwner, Mail, Commit, Crash, Idle
<1>2. \A v \in Workers \ {w} : job'[v] = job[v]
  <2>1. CASE Commit(w)
    BY <1>0, <2>1 DEF Commit, EndJob, SignupTypeOK
  <2>2. CASE ~Commit(w)
    BY <1>0, <2>2, OnboardEffect DEF SignupTypeOK
  <2>. QED
    BY <2>1, <2>2
<1>3. Live \subseteq Live'
  <2>1. CASE Commit(w)
    <3>1. /\ tenant[job[w].tenant] = NoTenant
          /\ \A u \in TenantIds \ {job[w].tenant} : tenant'[u] = tenant[u]
      BY <1>0, <2>1 DEF Commit, SoundJob, Inserted, SignupTypeOK
    <3>. QED
      BY <3>1 DEF Live, NoTenant, Status
  <2>2. CASE ~Commit(w)
    BY <1>0, <2>2, OnboardEffect DEF Live
  <2>. QED
    BY <2>1, <2>2
<1>. QED
  BY <1>1, <1>2, <1>3

LEMMA SignupStepPages ==
  ASSUME TenancyInv, SignupStep
  PROVE  PageInv'
<1>0. SignupInv /\ SignupTypeOK /\ PageInv /\ PageType
  BY DEF TenancyInv, SignupInv, PageInv
<1>1. CASE ApplicantStep /\ UNCHANGED tenancyVars
  <2>1. UNCHANGED <<tenant, job, scope, page, rows>>
    BY <1>1 DEF ApplicantStep, Submit, Expire, tenancyVars
  <2>. QED
    BY <1>0, <2>1 DEF PageInv, PageType, SoundPage, OnlyRaces, NewRow, Live
<1>2. ASSUME NEW w \in Workers, page[w] = NoPage, BeginStep(w), UNCHANGED tenancyVars
      PROVE  PageInv'
  <2>1. /\ UNCHANGED <<tenant, scope, page, rows>>
        /\ \A v \in Workers \ {w} : job'[v] = job[v]
    BY <1>0, <1>2 DEF BeginStep, OpenLink, RunCommand, tenancyVars, SignupTypeOK
  <2>. QED
    BY <1>0, <1>2, <2>1 DEF PageInv, PageType, SoundPage, OnlyRaces, NewRow, Live
<1>3. ASSUME NEW w \in Workers, OnboardStep(w), UNCHANGED <<page, rows>>,
             scope' = IF job'[w] = Idle THEN Cleared(w) ELSE scope
      PROVE  PageInv'
  <2>1. /\ job[w] # Idle /\ Live \subseteq Live'
        /\ \A v \in Workers \ {w} : job'[v] = job[v]
    BY <1>0, <1>3, OnboardLive
  <2>2. page[w] = NoPage
    BY <1>0, <2>1 DEF PageInv, SoundPage
  <2>3. /\ scope' \in [Workers -> TenantIds \cup {None}]
        /\ \A v \in Workers \ {w} : scope'[v] = scope[v]
    BY <1>0, <1>3 DEF PageType, Cleared
  <2>4. PageType'
    BY <1>0, <1>3, <2>1, <2>3 DEF PageType
  <2>5. SoundPage(w)' /\ OnlyRaces(w)'
    BY <1>3, <2>2 DEF SoundPage, OnlyRaces, NoPage
  <2>6. ASSUME NEW v \in Workers \ {w} PROVE SoundPage(v)' /\ OnlyRaces(v)'
    BY <1>0, <1>3, <2>1, <2>3 DEF PageInv, SoundPage, OnlyRaces, NewRow
  <2>. QED
    BY <2>4, <2>5, <2>6 DEF PageInv
<1>. QED
  BY <1>1, <1>2, <1>3 DEF SignupStep

\* What is deleted with a tenant is what would have been left without one.
LEMMA SuperStepPages ==
  ASSUME TenancyInv, SuperAdminStep
  PROVE  PageInv'
<1>0. SignupTypeOK /\ PageInv /\ PageType
  BY DEF TenancyInv, SignupInv, PageInv
<1>1. /\ UNCHANGED <<scope, page, job>> /\ rows' \subseteq rows
      /\ \A x \in rows' : tenant'[x.tenant] # Deleted
  BY DEF SuperAdminStep, SuperStep, AddTenant, EditTenant, EditOwner, DeleteOwner, DeleteTenant
<1>2. PICK t \in TenantIds :
        \/ \E s \in Slugs : AddTenant(t, s) \/ \E st \in Status : EditTenant(t, s, st)
        \/ \E n \in Names, e \in Emails : EditOwner(t, n, e)
        \/ DeleteOwner(t) \/ DeleteTenant(t)
  BY DEF SuperAdminStep, SuperStep
<1>3. \A u \in TenantIds \ {t} : tenant'[u] = tenant[u]
  BY <1>0, <1>2 DEF AddTenant, EditTenant, EditOwner, DeleteOwner, DeleteTenant, SignupTypeOK
<1>4. t \in Live' \/ tenant'[t] = Deleted
  <2>1. ASSUME NEW s \in Slugs, AddTenant(t, s) PROVE t \in Live'
    BY <1>0, <2>1 DEF AddTenant, Live, Status, SignupTypeOK
  <2>2. ASSUME NEW s \in Slugs, NEW st \in Status, EditTenant(t, s, st) PROVE t \in Live'
    BY <1>0, <2>2 DEF EditTenant, Live, SignupTypeOK, Tenant
  <2>3. CASE DeleteTenant(t)
    BY <1>0, <2>3 DEF DeleteTenant, SignupTypeOK
  <2>4. ASSUME NEW n \in Names, NEW e \in Emails, EditOwner(t, n, e) PROVE t \in Live'
    BY <1>0, <2>4 DEF EditOwner, Live, SignupTypeOK, Tenant
  <2>5. CASE DeleteOwner(t)
    BY <1>0, <2>5 DEF DeleteOwner, Live, SignupTypeOK, Tenant
  <2>. QED
    BY <1>2, <2>1, <2>2, <2>3, <2>4, <2>5
<1>5. \A x \in rows' : x.tenant \in Live'
  <2>1. \A x \in rows' : x.tenant \in Live /\ x.tenant \in TenantIds
    BY <1>0, <1>1 DEF PageType, Live
  <2>2. \A u \in Live : u # t => u \in Live'
    BY <1>3 DEF Live
  <2>. QED
    BY <1>1, <1>4, <2>1, <2>2
<1>6. PageType'
  BY <1>0, <1>1, <1>5 DEF PageType
<1>7. \A w \in Workers : SoundPage(w)' /\ OnlyRaces(w)'
  BY <1>0, <1>1 DEF PageInv, SoundPage, OnlyRaces, NewRow
<1>. QED
  BY <1>6, <1>7 DEF PageInv

\* A step of one page that saves no row.
LEMMA OnePageStep ==
  ASSUME TenancyInv, NEW w \in Workers, NEW p \in Page,
         UNCHANGED signupVars, rows' \subseteq rows,
         page' = [page EXCEPT ![w] = p],
         scope' \in [Workers -> TenantIds \cup {None}],
         \A v \in Workers \ {w} : scope'[v] = scope[v],
         SoundPage(w)', OnlyRaces(w)'
  PROVE  PageInv'
<1>0. PageInv /\ PageType
  BY DEF TenancyInv, PageInv
<1>1. \A v \in Workers \ {w} : page'[v] = page[v] /\ scope'[v] = scope[v] /\ job'[v] = job[v]
  BY <1>0 DEF PageType, signupVars
<1>2. PageType'
  BY <1>0 DEF PageType, signupVars, Live
<1>3. ASSUME NEW v \in Workers \ {w} PROVE SoundPage(v)' /\ OnlyRaces(v)'
  BY <1>0, <1>1 DEF PageInv, SoundPage, OnlyRaces, NewRow
<1>. QED
  BY <1>2, <1>3 DEF PageInv

LEMMA PageEnds ==
  ASSUME TenancyInv, NEW w \in Workers,
         UNCHANGED signupVars, rows' \subseteq rows,
         page' = [page EXCEPT ![w] = NoPage],
         scope' = scope \/ scope' = Cleared(w)
  PROVE  PageInv'
<1>1. NoPage \in Page /\ NoPage.tenant = None /\ NoPage.at = "none"
  BY DEF NoPage, Page
<1>2. PageType
  BY DEF TenancyInv, PageInv
<1>3. /\ scope' \in [Workers -> TenantIds \cup {None}]
      /\ \A v \in Workers \ {w} : scope'[v] = scope[v]
      /\ page'[w] = NoPage
  BY <1>2 DEF PageType, Cleared
<1>. QED
  BY <1>1, <1>3, OnePageStep DEF SoundPage, OnlyRaces

\* A form is checked against the rows of the tenant it is filled in for.
LEMMA WorkingPage ==
  ASSUME TenancyInv, NEW w \in Workers,
         \/ \E t \in TenantIds, home \in TenantIds : ArriveAtTenant(w, t, home)
         \/ ArriveAtSuper(w) \/ LoadUser(w)
         \/ \E k \in Keys : CheckForm(w, k)
  PROVE  PageInv'
<1>0. SoundPage(w) /\ PageType /\ page[w] \in Page /\ NoPage \in Page
  BY DEF TenancyInv, PageInv, PageType, NoPage, Page
<1>1. ASSUME NEW t \in TenantIds, NEW home \in TenantIds, ArriveAtTenant(w, t, home)
      PROVE  PageInv'
  <2>. DEFINE p == [NoPage EXCEPT !.at = "user", !.tenant = t, !.home = home]
  <2>1. p \in Page /\ p.at = "user" /\ p.tenant = t
    BY DEF NoPage, Page
  <2>2. /\ page' = [page EXCEPT ![w] = p] /\ UNCHANGED signupVars /\ rows' = rows
        /\ job'[w] = Idle /\ scope' = [scope EXCEPT ![w] = t]
    BY <1>1 DEF ArriveAtTenant, ScopeSet, Free, signupVars
  <2>. HIDE DEF p
  <2>3. /\ scope' \in [Workers -> TenantIds \cup {None}] /\ scope'[w] = t
        /\ \A v \in Workers \ {w} : scope'[v] = scope[v]
        /\ page'[w] = p
    BY <1>0, <2>2 DEF PageType
  <2>4. SoundPage(w)' /\ OnlyRaces(w)'
    BY <2>1, <2>2, <2>3 DEF SoundPage, OnlyRaces
  <2>. QED
    BY <2>1, <2>2, <2>3, <2>4, OnePageStep
<1>2. CASE ArriveAtSuper(w)
  <2>. DEFINE p == [NoPage EXCEPT !.at = "user"]
  <2>1. p \in Page /\ p.at = "user" /\ p.tenant = None
    BY DEF NoPage, Page
  <2>2. /\ page' = [page EXCEPT ![w] = p] /\ UNCHANGED signupVars /\ rows' = rows
        /\ job'[w] = Idle /\ scope' = scope
    BY <1>2 DEF ArriveAtSuper, Free, signupVars
  <2>. HIDE DEF p
  <2>3. page'[w] = p /\ scope' \in [Workers -> TenantIds \cup {None}]
    BY <1>0, <2>2 DEF PageType
  <2>4. SoundPage(w)' /\ OnlyRaces(w)'
    BY <2>1, <2>2, <2>3 DEF SoundPage, OnlyRaces
  <2>. QED
    BY <2>1, <2>2, <2>3, <2>4, OnePageStep
<1>3. CASE LoadUser(w)
  <2>. DEFINE p == [page[w] EXCEPT !.at = "work"]
  <2>1. p \in Page /\ p.at = "work" /\ p.tenant = page[w].tenant
    BY <1>0 DEF Page
  <2>2. /\ page' = [page EXCEPT ![w] = p] /\ UNCHANGED signupVars /\ rows' = rows
        /\ job'[w] = Idle /\ scope' = scope
    BY <1>0, <1>3 DEF LoadUser, SoundPage, NoPage, signupVars, PageType
  <2>. HIDE DEF p
  <2>3. page'[w] = p /\ scope' \in [Workers -> TenantIds \cup {None}]
    BY <1>0, <2>2 DEF PageType
  <2>4. SoundPage(w)' /\ OnlyRaces(w)'
    BY <1>0, <2>1, <2>2, <2>3 DEF SoundPage, OnlyRaces
  <2>. QED
    BY <2>1, <2>2, <2>3, <2>4, OnePageStep
<1>4. ASSUME NEW k \in Keys, CheckForm(w, k) PROVE PageInv'
  <2>. DEFINE p == [page[w] EXCEPT !.at = "valid", !.key = k]
  <2>1. p \in Page /\ p.at = "valid" /\ p.tenant = page[w].tenant /\ p.key = k
    BY <1>0 DEF Page
  <2>2. /\ page' = [page EXCEPT ![w] = p] /\ UNCHANGED signupVars /\ rows' = rows
        /\ job'[w] = Idle /\ scope' = scope
        /\ ~Duplicate(w, k)
    <3>1. /\ page[w].at = "work" /\ UNCHANGED <<signupVars, scope, rows>> /\ ~Duplicate(w, k)
          /\ page' = [page EXCEPT ![w].at = "valid", ![w].key = k]
      BY <1>4 DEF CheckForm
    <3>2. page' = [page EXCEPT ![w] = p]
      BY <1>0, <3>1 DEF PageType
    <3>3. job[w] = Idle
      BY <1>0, <3>1 DEF SoundPage, NoPage
    <3>. QED
      BY <3>1, <3>2, <3>3 DEF signupVars
  <2>. HIDE DEF p
  <2>3. page'[w] = p /\ scope' \in [Workers -> TenantIds \cup {None}]
    BY <1>0, <2>2 DEF PageType
  <2>4. SoundPage(w)'
    BY <1>0, <2>1, <2>2, <2>3 DEF SoundPage
  <2>5. OnlyRaces(w)'
    <3>1. page[w].tenant # None => [tenant |-> scope[w], key |-> k] \notin rows
      BY <1>0, <2>2 DEF SoundPage, Duplicate
    <3>. QED
      BY <2>1, <2>2, <2>3, <3>1 DEF OnlyRaces, NewRow
  <2>. QED
    BY <2>1, <2>2, <2>3, <2>4, <2>5, OnePageStep
<1>. QED
  BY <1>1, <1>2, <1>3, <1>4

\* Every other form that has been checked learns of the row.
LEMMA SavePages ==
  ASSUME TenancyInv, NEW w \in Workers, SaveRow(w)
  PROVE  PageInv'
<1>0. PageInv /\ PageType /\ SoundPage(w)
  BY DEF TenancyInv, PageInv
<1>1. PICK x : x = NewRow(w)
  OBVIOUS
<1>2. x \in Row /\ x.tenant \in Live
  BY <1>0, <1>1 DEF SaveRow, NewRow, SoundPage, Row, Live
<1>3. /\ rows' = rows \cup {x} /\ UNCHANGED signupVars
      /\ scope' = [scope EXCEPT ![w] = None]
      /\ page' = [v \in Workers |->
           IF v = w THEN NoPage
           ELSE IF page[v].at = "valid" THEN [page[v] EXCEPT !.others = @ \cup {x}]
           ELSE page[v]]
  BY <1>1 DEF SaveRow, Cleared
<1>4. /\ scope' \in [Workers -> TenantIds \cup {None}]
      /\ \A v \in Workers \ {w} : scope'[v] = scope[v]
  BY <1>0, <1>3 DEF PageType
<1>5. ASSUME NEW v \in Workers \ {w}
      PROVE  /\ page'[v] \in Page
             /\ page'[v].at = page[v].at /\ page'[v].tenant = page[v].tenant
             /\ page'[v].key = page[v].key
             /\ page[v] = NoPage => page'[v] = NoPage
             /\ page[v].at = "valid" => page'[v].others = page[v].others \cup {x}
  <2>1. page[v] \in Page
    BY <1>0 DEF PageType
  <2>2. CASE page[v].at = "valid"
    <3>1. page'[v] = [page[v] EXCEPT !.others = page[v].others \cup {x}]
      BY <1>3, <2>2
    <3>2. page[v].others \cup {x} \in SUBSET [tenant : TenantIds, key : Keys]
      BY <1>2, <2>1 DEF Page, Row
    <3>. QED
      BY <2>1, <2>2, <3>1, <3>2 DEF Page, NoPage
  <2>3. CASE page[v].at # "valid"
    BY <1>3, <2>1, <2>3
  <2>. QED
    BY <2>2, <2>3
<1>6. page'[w] = NoPage /\ NoPage \in Page /\ NoPage.tenant = None /\ NoPage.at = "none"
  BY <1>3 DEF NoPage, Page
<1>7. PageType'
  <2>1. page' \in [Workers -> Page]
    <3>1. \A v \in Workers : page'[v] \in Page
      BY <1>5, <1>6
    <3>. QED
      BY <1>3, <3>1
  <2>. QED
    BY <1>0, <1>2, <1>3, <1>4, <2>1 DEF PageType, signupVars, Live
<1>8. SoundPage(w)' /\ OnlyRaces(w)'
  BY <1>6 DEF SoundPage, OnlyRaces
<1>9. ASSUME NEW v \in Workers \ {w} PROVE SoundPage(v)' /\ OnlyRaces(v)'
  <2>1. SoundPage(v) /\ OnlyRaces(v) /\ job'[v] = job[v]
    BY <1>0, <1>3 DEF PageInv, signupVars
  <2>2. SoundPage(v)'
    BY <1>4, <1>5, <2>1 DEF SoundPage
  <2>3. NewRow(v)' = NewRow(v)
    BY <1>4, <1>5 DEF NewRow
  <2>4. OnlyRaces(v)'
    BY <1>3, <1>5, <2>1, <2>3 DEF OnlyRaces
  <2>. QED
    BY <2>2, <2>4
<1>. QED
  BY <1>7, <1>8, <1>9 DEF PageInv

LEMMA PageStepPages ==
  ASSUME TenancyInv, NEW w \in Workers, PageStep(w)
  PROVE  PageInv'
<1>1. CASE LoadUserFails(w) \/ SaveFails(w) \/ Leave(w) \/ \E x \in rows : DeleteRow(w, x)
  <2>1. /\ UNCHANGED signupVars /\ rows' \subseteq rows
        /\ page' = [page EXCEPT ![w] = NoPage]
        /\ scope' = scope \/ scope' = Cleared(w)
    BY <1>1 DEF LoadUserFails, SaveFails, Leave, DeleteRow, signupVars
  <2>. QED
    BY <2>1, PageEnds
<1>. QED
  BY <1>1, WorkingPage, SavePages DEF PageStep

LEMMA NextTenancy == TenancyInv /\ [Next]_vars => TenancyInv'
<1>. SUFFICES ASSUME TenancyInv, [Next]_vars PROVE TenancyInv'
  OBVIOUS
<1>1. SignupInv'
  BY NextIsSignup, NextSignup DEF TenancyInv
<1>2. ASSUME UNCHANGED vars PROVE PageInv'
  <2>1. UNCHANGED <<scope, page, rows, job, tenant>>
    BY <1>2 DEF vars, tenancyVars, signupVars
  <2>2. PageType'
    BY <2>1 DEF TenancyInv, PageInv, PageType, Live
  <2>3. \A w \in Workers : SoundPage(w)' /\ OnlyRaces(w)'
    BY <2>1 DEF TenancyInv, PageInv, SoundPage, OnlyRaces, NewRow
  <2>. QED
    BY <2>2, <2>3 DEF PageInv
<1>3. ASSUME Next PROVE PageInv'
  <2>1. SignupStep \/ SuperAdminStep \/ \E w \in Workers : PageStep(w)
    BY <1>3 DEF Next
  <2>. QED
    BY <2>1, SignupStepPages, SuperStepPages, PageStepPages
<1>. QED
  BY <1>1, <1>2, <1>3 DEF TenancyInv

LEMMA AlwaysTenancyInv == Spec => []TenancyInv
BY InitTenancy, NextTenancy, PTL DEF Spec

-----------------------------------------------------------------------------
(* Theorems *)

\* Signup, the threads and the rows keep their types, and no row outlives its
\* tenant, whatever is onboarded, renamed or deleted meanwhile.
THEOREM TypeCorrect == Spec => []TypeOK
<1>1. TenancyInv => TypeOK
  BY DEF TenancyInv, SignupInv, PageInv, PageType, TypeOK
<1>. QED
  BY <1>1, AlwaysTenancyInv, PTL

\* One request to sign up never owns two shops, however often its link is opened
\* and by however many workers at once, as long as the owner's account keeps its
\* name: the second insert of that name waits for the first transaction and fails.
THEOREM OneShop == Spec => []OneShopPerRequest
<1>1. TenancyInv => OneShopPerRequest
  BY DEF TenancyInv, SignupInv, SoundOwner, OwnersUnique, OneShopPerRequest
<1>. QED
  BY <1>1, AlwaysTenancyInv, PTL

\* A request that is linked to a shop is verified, and the shop is its own:
\* commit and deletion keep both sides of the link in step.
THEOREM VerifiedShop == Spec => []VerifiedHasShop
<1>1. TenancyInv => VerifiedHasShop
  BY DEF TenancyInv, SignupInv
<1>. QED
  BY <1>1, AlwaysTenancyInv, PTL

\* A request for a shop's host works with the rows of that shop only, whatever
\* its thread served before and however that ended.
THEOREM OwnScopeAlways == Spec => []OwnScope
<1>1. TenancyInv => OwnScope
  <2>. SUFFICES ASSUME TenancyInv, NEW w \in Workers, page[w].tenant # None
                PROVE  scope[w] = page[w].tenant /\ \A x \in Visible(w) : x.tenant = page[w].tenant
    BY DEF OwnScope
  <2>1. scope[w] = page[w].tenant
    BY DEF TenancyInv, PageInv, SoundPage
  <2>. QED
    BY <2>1 DEF Visible
<1>. QED
  BY <1>1, AlwaysTenancyInv, PTL

\* A form that was checked on a shop's host fails on a duplicate only if that row
\* was saved between the check and the save.
THEOREM OnlyRacesAlways == Spec => []OnlyRacesFail
<1>1. TenancyInv => OnlyRacesFail
  BY DEF TenancyInv, PageInv, OnlyRaces, OnlyRacesFail
<1>. QED
  BY <1>1, AlwaysTenancyInv, PTL
=============================================================================
