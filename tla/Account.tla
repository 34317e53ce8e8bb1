---- MODULE Account ----
(* A workspace: its members, their sessions and the requests that change members, sessions and the
   life of the workspace. A request acts with the role its token was issued with; the account
   requests are two statements outside a transaction, or a read and a write. *)
EXTENDS Integers, FiniteSets

CONSTANTS Members,      \* users of the tenant
          Logins,       \* sign-ins, each making one session
          TokenLife,    \* the fifteen minutes of an access token
          MaxTime,      \* bound: the clock
          MaxRequests,  \* bound: requests
          Applicants,   \* callers of the registration
          Slugs, Emails,     \* of the businesses they register
          MaxSignUps    \* bound: attempts to register

ASSUME AccountAssumption ==
  /\ IsFiniteSet(Members) /\ IsFiniteSet(Logins)
  /\ TokenLife \in Nat \ {0} /\ MaxTime \in Nat /\ MaxRequests \in Nat

Roles == {"OWNER", "ADMIN", "AGENT"}
MANAGEMENT_ROLES == {"OWNER", "ADMIN"}

VARIABLES member,       \* users: role, is_active
          tenant,       \* tenants.status
          lifecycle,    \* account_lifecycle: state, and a deletion date or none
          login,        \* auth_sessions and the claims of their tokens
          request,      \* the request each session has under way
          time, spent,  \* the clock; requests made
          changed,      \* when each member last lost a role or was deactivated
          raced, mended \* a request crossed another; a deletion was cancelled after a close
avars == <<member, tenant, lifecycle, login, request, time, spent, changed, raced, mended>>

VARIABLES slugs, owners, consents, \* tenants, users and legal_acceptances of registered businesses
          applicant,    \* what each caller registers and how far its transaction is
          signUps
signUpVars == <<slugs, owners, consents, applicant, signUps>>

NoLogin == [pc |-> "none", of |-> "none", role |-> "AGENT", issued |-> 0,
            revoked |-> FALSE, overtaken |-> FALSE]
NoRequest == [kind |-> "none", target |-> "none", role |-> "AGENT", active |-> TRUE, was |-> "AGENT"]

AccountInit ==
  /\ \E m \in Members :
       member = [n \in Members |-> [role |-> IF n = m THEN "OWNER" ELSE "ADMIN", active |-> TRUE]]
  /\ tenant = "TRIAL"
  /\ lifecycle = [state |-> "NONE", deletion |-> FALSE]
  /\ login = [s \in Logins |-> NoLogin]
  /\ request = [s \in Logins |-> NoRequest]
  /\ time = 0 /\ spent = 0
  /\ changed = [m \in Members |-> 0]
  /\ raced = FALSE /\ mended = FALSE

------------------------
(* Signing in. *)

\* login, the row: inactive members and stopped workspaces are turned away.
LoginRead(m, s) ==
  /\ login[s].pc = "none"
  /\ member[m].active /\ tenant \notin {"SUSPENDED", "ARCHIVED"}
  /\ login' = [login EXCEPT ![s] = [NoLogin EXCEPT !.pc = "hash", !.of = m,
                                      !.role = member[m].role]]
  /\ UNCHANGED <<member, tenant, lifecycle, request, time, spent, changed, raced, mended>>

\* issueTokens, after the password has been hashed: the claims are the row
\* that was read.
IssueTokens(s) ==
  /\ login[s].pc = "hash"
  /\ login' = [login EXCEPT ![s].pc = "issued", ![s].issued = time]
  /\ UNCHANGED <<member, tenant, lifecycle, request, time, spent, changed, raced, mended>>

\* AuthGuard: the token has not run out and its session is not revoked.
GuardAdmits(s) ==
  /\ login[s].pc = "issued" /\ ~login[s].revoked
  /\ time < login[s].issued + TokenLife

------------------------
(* Requests. *)

Kinds == {"close", "reopen", "delete", "cancel", "update", "revoke", "others"}
Manages(kind) == kind \notin {"revoke", "others"}
Underway == {s \in Logins : request[s].kind # "none"}
Ends(s) == request' = [request EXCEPT ![s] = NoRequest]
Continues(s, kind) == request' = [request EXCEPT ![s].kind = kind]

\* A request is let in, with the role of its token.
Admit(s) ==
  /\ request[s].kind = "none" /\ spent < MaxRequests
  /\ GuardAdmits(s)
  /\ \E k \in Kinds :
       /\ Manages(k) => login[s].role \in MANAGEMENT_ROLES
       /\ request' = [request EXCEPT ![s] = [NoRequest EXCEPT !.kind = k]]
  /\ spent' = spent + 1
  /\ raced' = (raced \/ Underway # {})
  /\ UNCHANGED <<member, tenant, lifecycle, login, time, changed, mended>>

\* close: the lifecycle row first, the tenant after it.
CloseLifecycle(s) ==
  /\ request[s].kind = "close"
  /\ lifecycle' = [lifecycle EXCEPT !.state = "CLOSING"]
  /\ Continues(s, "close2")
  /\ UNCHANGED <<member, tenant, login, time, spent, changed, raced, mended>>
CloseTenant(s) ==
  /\ request[s].kind = "close2"
  /\ tenant' = "ARCHIVED"
  /\ Ends(s)
  /\ UNCHANGED <<member, lifecycle, login, time, spent, changed, raced, mended>>

\* reopen: the row, if there is one, is OPEN again and its deletion date stays.
ReopenLifecycle(s) ==
  /\ request[s].kind = "reopen"
  /\ lifecycle' = IF lifecycle.state = "NONE" THEN lifecycle
                  ELSE [lifecycle EXCEPT !.state = "OPEN"]
  /\ Continues(s, "reopen2")
  /\ UNCHANGED <<member, tenant, login, time, spent, changed, raced, mended>>
ReopenTenant(s) ==
  /\ request[s].kind = "reopen2"
  /\ tenant' = "ACTIVE"
  /\ Ends(s)
  /\ UNCHANGED <<member, lifecycle, login, time, spent, changed, raced, mended>>

RequestDeletion(s) ==
  /\ request[s].kind = "delete"
  /\ lifecycle' = [state |-> "DELETION_PENDING", deletion |-> TRUE]
  /\ Ends(s)
  /\ UNCHANGED <<member, tenant, login, time, spent, changed, raced, mended>>

\* cancelDeletion makes the row OPEN whatever the tenant is.
CancelDeletion(s) ==
  /\ request[s].kind = "cancel"
  /\ LET pending == lifecycle.state = "DELETION_PENDING"
     IN  /\ lifecycle' = IF pending THEN [state |-> "OPEN", deletion |-> FALSE] ELSE lifecycle
         /\ mended' = (mended \/ (pending /\ tenant = "ARCHIVED"))
  /\ Ends(s)
  /\ UNCHANGED <<member, tenant, login, time, spent, changed, raced>>

\* updateTeamMember up to its checks, which look at the role that was read.
UpdateRead(s) ==
  /\ request[s].kind = "update"
  /\ \E t \in Members, r \in Roles, a \in BOOLEAN :
       LET was == member[t].role IN
       /\ a \/ r = was        \* the body names the role or the activity
       /\ ~(t = login[s].of /\ ~a)
       /\ (r = "OWNER" /\ was # "OWNER") => login[s].role = "OWNER"
       /\ (was = "OWNER" /\ r # "OWNER") => login[s].role = "OWNER"
       /\ r = "OWNER" => login[s].role = "OWNER"
       /\ request' = [request EXCEPT ![s] = [@ EXCEPT !.kind = "update2", !.target = t,
                        !.role = r, !.active = a, !.was = was]]
  /\ UNCHANGED <<member, tenant, lifecycle, login, time, spent, changed, raced, mended>>

\* The write: role and activity together, over whatever is there by now.
UpdateWrite(s) ==
  /\ request[s].kind = "update2"
  /\ LET t == request[s].target IN
     /\ member' = [member EXCEPT ![t] = [role |-> request[s].role, active |-> request[s].active]]
     /\ changed' = IF member'[t] # member[t] THEN [changed EXCEPT ![t] = time] ELSE changed
     /\ login' = [o \in Logins |-> IF login[o].pc = "hash" /\ login[o].of = t
                                    THEN [login[o] EXCEPT !.overtaken = TRUE] ELSE login[o]]
  /\ Ends(s)
  /\ UNCHANGED <<tenant, lifecycle, time, spent, raced, mended>>

\* revokeSession and revokeOtherSessions: sessions of the same user only.
RevokeSession(s) ==
  /\ request[s].kind = "revoke"
  /\ \E o \in Logins :
       /\ login[o].pc = "issued" /\ login[o].of = login[s].of /\ ~login[o].revoked
       /\ login' = [login EXCEPT ![o].revoked = TRUE]
  /\ Ends(s)
  /\ UNCHANGED <<member, tenant, lifecycle, time, spent, changed, raced, mended>>

OthersOf(s) == {o \in Logins \ {s} : login[o].pc = "issued" /\ login[o].of = login[s].of}
RevokeOtherSessions(s) ==
  /\ request[s].kind = "others"
  /\ login' = [o \in Logins |-> IF o \in OthersOf(s) THEN [login[o] EXCEPT !.revoked = TRUE] ELSE login[o]]
  /\ Ends(s)
  /\ UNCHANGED <<member, tenant, lifecycle, time, spent, changed, raced, mended>>

\* The process dies, the database refuses, or the input is rejected.
RequestDies(s) ==
  /\ request[s].kind # "none"
  /\ raced' = (raced \/ request[s].kind \in {"close2", "reopen2"})
  /\ Ends(s)
  /\ UNCHANGED <<member, tenant, lifecycle, login, time, spent, changed, mended>>

AccountTick ==
  /\ time < MaxTime /\ time' = time + 1
  /\ UNCHANGED <<member, tenant, lifecycle, login, request, spent, changed, raced, mended>>

AccountNext ==
  \/ \E m \in Members, s \in Logins : LoginRead(m, s)
  \/ \E s \in Logins :
       \/ IssueTokens(s) \/ Admit(s) \/ CloseLifecycle(s) \/ CloseTenant(s)
       \/ ReopenLifecycle(s) \/ ReopenTenant(s) \/ RequestDeletion(s) \/ CancelDeletion(s)
       \/ UpdateRead(s) \/ UpdateWrite(s) \/ RevokeSession(s) \/ RevokeOtherSessions(s)
       \/ RequestDies(s)
  \/ AccountTick

AccountSpec == AccountInit /\ [][AccountNext]_avars

------------------------
(* Registration: a tenant, its owner and the owner's two acceptances in one transaction, and then
   the tokens. Slug and address are unique: an insert waits for the transaction that holds the
   value. *)

NoApplication == [step |-> "none", slug |-> "none", email |-> "none"]
InTransaction == {"tenant", "owner", "whole"}
Waits(a, f, v) == \E b \in Applicants \ {a} : applicant[b].step \in InTransaction /\ applicant[b][f] = v
Advances(a, step) == applicant' = [applicant EXCEPT ![a].step = step]

SignUpInit ==
  /\ slugs = {} /\ owners = {} /\ consents = {} /\ signUps = 0
  /\ applicant = [a \in Applicants |-> NoApplication]

SignUpTypeOK ==
  /\ slugs \subseteq Slugs /\ owners \subseteq Slugs \X Emails /\ consents \subseteq Emails
  /\ \A a \in Applicants : applicant[a].step \in {"none", "asked", "conflict", "lost", "signed in"} \cup InTransaction

\* The slug comes from the name of the business; whoever got no answer, or was
\* told of a conflict, may ask again.
Register(a) ==
  /\ applicant[a].step \in {"none", "lost", "conflict"} /\ signUps < MaxSignUps /\ signUps' = signUps + 1
  /\ \E g \in Slugs, e \in Emails :
       /\ applicant[a].step = "lost" => g = applicant[a].slug /\ e = applicant[a].email
       /\ applicant' = [applicant EXCEPT ![a] = [step |-> "asked", slug |-> g, email |-> e]]
  /\ UNCHANGED <<slugs, owners, consents>>

InsertTenant(a) ==
  /\ applicant[a].step = "asked" /\ ~Waits(a, "slug", applicant[a].slug)
  /\ Advances(a, IF applicant[a].slug \in slugs THEN "conflict" ELSE "tenant")
  /\ UNCHANGED <<slugs, owners, consents, signUps>>

InsertOwner(a) ==
  LET e == applicant[a].email IN
  /\ applicant[a].step = "tenant"
  /\ \A b \in Applicants \ {a} : applicant[b].step \in {"owner", "whole"} => applicant[b].email # e
  /\ Advances(a, IF \E g \in Slugs : <<g, e>> \in owners THEN "conflict" ELSE "owner")
  /\ UNCHANGED <<slugs, owners, consents, signUps>>

InsertAcceptances(a) ==
  applicant[a].step = "owner" /\ Advances(a, "whole") /\ UNCHANGED <<slugs, owners, consents, signUps>>

\* COMMIT, and the tokens, whose failure is the caller's only answer.
CommitRegistration(a) ==
  /\ applicant[a].step = "whole"
  /\ slugs' = slugs \cup {applicant[a].slug}
  /\ owners' = owners \cup {<<applicant[a].slug, applicant[a].email>>}
  /\ consents' = consents \cup {applicant[a].email}
  /\ \E step \in {"signed in", "lost"} : Advances(a, step)
  /\ UNCHANGED signUps

\* The process dies or a statement fails.
RegistrationRollsBack(a) ==
  /\ applicant[a].step \in InTransaction /\ Advances(a, "lost") /\ UNCHANGED <<slugs, owners, consents, signUps>>

SignUpNext == \E a \in Applicants :
  \/ Register(a) \/ InsertTenant(a) \/ InsertOwner(a) \/ InsertAcceptances(a)
  \/ CommitRegistration(a) \/ RegistrationRollsBack(a)

\* A business has one owner, who accepted both documents; who was signed in
\* has one, and a conflict is told only to somebody whose name or address is
\* taken: by another, or by an attempt of his own whose answer was lost.
RegistrationIsWhole ==
  /\ \A g \in slugs : Cardinality({o \in owners : o[1] = g}) = 1
  /\ \A o, q \in owners : o[1] \in slugs /\ o[2] \in consents /\ (o[2] = q[2] => o = q)
  /\ \A a \in Applicants : applicant[a].step = "signed in" => <<applicant[a].slug, applicant[a].email>> \in owners
  /\ \A a \in Applicants : applicant[a].step = "conflict" =>
       applicant[a].slug \in slugs \/ \E o \in owners : o[2] = applicant[a].email

------------------------
(* Properties. *)

AccountTypeOK ==
  /\ member \in [Members -> [role : Roles, active : BOOLEAN]]
  /\ tenant \in {"TRIAL", "ACTIVE", "ARCHIVED"}
  /\ lifecycle \in [state : {"NONE", "OPEN", "CLOSING", "DELETION_PENDING"}, deletion : BOOLEAN]
  /\ time \in 0 .. MaxTime /\ spent \in 0 .. MaxRequests

\* A member who lost a role or was deactivated acts on for one token's life at
\* the most: later requests carry the role and activity the row has now, unless
\* the sign-in had read the row before the change and issued its token after it.
AuthorityEnds ==
  [][\A s \in Logins : request[s].kind = "none" /\ request'[s].kind # "none" =>
       LET l == login[s] IN
       \/ member[l.of].active /\ member[l.of].role = l.role
       \/ time < changed[l.of] + TokenLife
       \/ l.overtaken]_avars

\* As long as no request crossed another and none died between its two
\* statements, a workspace whose lifecycle says OPEN is not archived and a
\* closing one is: except after a deletion was cancelled that was asked for
\* after the workspace had been closed.
LifecycleAgrees ==
  Underway = {} /\ ~raced /\ ~mended =>
    /\ lifecycle.state \in {"NONE", "OPEN"} => tenant # "ARCHIVED"
    /\ lifecycle.state = "CLOSING" => tenant = "ARCHIVED"
    /\ tenant = "ARCHIVED" => lifecycle.state \in {"CLOSING", "DELETION_PENDING"}

\* Only a request signed in as an owner takes the role of an owner away,
\* unless the member was made one after the request had read the row.
OwnersFallToOwners ==
  [][\A m \in Members : member[m].role = "OWNER" /\ member'[m].role # "OWNER" =>
       \E s \in Underway :
         /\ request[s].target = m
         /\ login[s].role = "OWNER" \/ request[s].was # "OWNER"]_avars

\* The session that asked for the others to be revoked is never among them,
\* and nobody's session is revoked by another user.
RevokedByOwner ==
  [][\A o \in Logins : login[o].revoked # login'[o].revoked =>
       \E s \in Underway : login[s].of = login[o].of /\ (request[s].kind = "others" => s # o)]_avars

AccountHolds ==
  [](AccountTypeOK /\ LifecycleAgrees /\ SignUpTypeOK /\ RegistrationIsWhole) /\ AuthorityEnds /\ OwnersFallToOwners /\ RevokedByOwner
====
