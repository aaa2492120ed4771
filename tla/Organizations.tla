------------------------------ MODULE Organizations ------------------------------
(***************************************************************************)
(* Accounts and organizations of the SaaS edition.  People sign up with a  *)
(* mailed link or with Google, or join by invitation; administrators       *)
(* change, disable and delete members; a member edits the own profile.     *)
(* A request acts with the principal read when it was authenticated, and a *)
(* profile is written back as it was read, whatever happened meanwhile.    *)
(***************************************************************************)
EXTENDS Integers

CONSTANTS
  Emails,    \* the addresses, each a login and a Google identity
  Orgs,      \* the organizations that may come to be
  None,      \* no organization, no link
  Links,     \* the onboarding tokens that may be issued, in this order
  Root,      \* the platform administrator
  Growths    \* the histories to look at: the administrators at the start, how many requests of each kind

ASSUME OrganizationAssumption ==
  /\ None \notin Orgs \cup Links /\ Root \notin Emails /\ Links \subseteq Int
  /\ Growths \subseteq [members : SUBSET Emails, links : Int, entries : Int, requests : Int, changes : Int,
                       profiles : Int, disables : Int, faults : Int, oauths : Int]

VARIABLES
  growth,    \* what is left of the bounds
  scope,     \* resource_scopes: the status of an organization
  account,   \* users, by address
  link,      \* saas_onboarding_tokens
  oauth,     \* saas_oauth_requests, and googleCallback between its statements
  identity,  \* saas_external_identities: the accounts with a Google identity
  sessions,  \* the accounts with a row in platform_sessions
  entering,  \* a sign-in between its statements
  asked,     \* requestSignup between its statements
  principal, \* the request of a member in progress, as authenticated
  profile,   \* UpdateProfile between its statements: the account it read
  buried,    \* the links issued before the deletion of the account of their address (not in the code)
  restored   \* a profile was written over a change of the account (not in the code)

orgVars == <<growth, scope, account, link, oauth, identity, sessions, entering, asked, principal, profile, buried, restored>>

NoAccount == [org |-> None, role |-> "none", status |-> "none"]
Account   == [org : Orgs, role : {"admin", "operator"}, status : {"active", "disabled"}]
Unissued  == [kind |-> "none", email |-> Root, org |-> None, role |-> "none", by |-> Root]
Issued    == [kind : {"signup", "invitation", "google", "session", "spent"}, email : Emails, org : Orgs \cup {None},
              role : {"admin", "operator", "none"}, by : Emails \cup {Root}]
NoCaller  == [org |-> None, role |-> "none", own |-> FALSE]
NoOauth   == [at |-> "none", invitation |-> None, linking |-> FALSE]

OrganizationsTypeOK ==
  /\ scope \in [Orgs -> {"none", "active", "disabled"}]
  /\ account \in [Emails -> Account \cup {NoAccount}] /\ link \in [Links -> Issued \cup {Unissued}]
  /\ oauth \in [Emails -> [at : {"none", "asked", "signup", "session", "link"}, invitation : Links \cup {None}, linking : BOOLEAN]]
  /\ identity \subseteq Emails /\ sessions \subseteq Emails
  /\ entering \in [Emails -> {"no", "create", "check", "login"}] /\ asked \subseteq Emails
  /\ principal \in [Emails -> [org : Orgs \cup {None}, role : {"admin", "operator", "none"}, own : BOOLEAN]]
  /\ profile \in [Emails -> Account \cup {NoAccount}] /\ buried \subseteq Links /\ restored \in BOOLEAN

OrganizationsInit ==
  /\ growth \in Growths
  /\ \E o \in Orgs :
       /\ scope = [x \in Orgs |-> IF x = o /\ growth.members # {} THEN "active" ELSE "none"]
       /\ account = [e \in Emails |-> IF e \in growth.members THEN [org |-> o, role |-> "admin", status |-> "active"]
                                     ELSE NoAccount]
  /\ sessions = growth.members
  /\ link = [l \in Links |-> Unissued] /\ oauth = [e \in Emails |-> NoOauth] /\ identity = {}
  /\ entering = [e \in Emails |-> "no"] /\ asked = {} /\ principal = [e \in Emails |-> NoCaller]
  /\ profile = [e \in Emails |-> NoAccount] /\ buried = {} /\ restored = FALSE

Spend(what) == growth[what] > 0 /\ growth' = [growth EXCEPT ![what] = @ - 1]
Usable(e) == account[e].status = "active" /\ scope[account[e].org] = "active"
Administrators(o) == {a \in Emails : account[a] = [org |-> o, role |-> "admin", status |-> "active"]}
Pending(l, e, o) == link[l].kind = "invitation" /\ link[l].email = e /\ link[l].org = o
New(l) == l <= growth.links /\ link[l] = Unissued /\ \A k \in Links : k < l => link[k] # Unissued
Spent(l) == [link[l] EXCEPT !.kind = "spent"]

-----------------------------------------------------------------------------
(* Requests of signed-in members *)

\* login: AuthenticateUser, and then CreatePlatformSession.
login(e) ==
  /\ entering[e] = "no" /\ e \notin sessions /\ Usable(e) /\ Spend("entries")
  /\ entering' = [entering EXCEPT ![e] = "login"]
  /\ UNCHANGED <<scope, account, link, oauth, identity, sessions, asked, principal, profile, buried, restored>>

\* session: a session is created, looked up and given up when the account is not usable.
CreateSession(e) ==
  /\ entering[e] \in {"create", "login"} /\ sessions' = sessions \cup {e}
  /\ entering' = [entering EXCEPT ![e] = IF @ = "create" THEN "check" ELSE "no"]
  /\ UNCHANGED <<growth, scope, account, link, oauth, identity, asked, principal, profile, buried, restored>>
CheckSession(e) ==
  /\ entering[e] = "check" /\ entering' = [entering EXCEPT ![e] = "no"]
  /\ sessions' = IF Usable(e) THEN sessions ELSE sessions \ {e}
  /\ UNCHANGED <<growth, scope, account, link, oauth, identity, asked, principal, profile, buried, restored>>

\* AuthenticatePlatformSession: the row of the account as it is when the request comes in.
AuthenticateRequest(e) ==
  /\ principal[e] = NoCaller /\ e \in sessions /\ Usable(e) /\ account[e].role = "admin" /\ Spend("requests")
  /\ principal' = [principal EXCEPT ![e] = [org |-> account[e].org, role |-> account[e].role, own |-> TRUE]]
  /\ UNCHANGED <<scope, account, link, oauth, identity, sessions, entering, asked, profile, buried, restored>>

\* admin and organizationContext: an administrator of the organization, or the platform's.
May(c, o) == c = Root \/ (c \in Emails /\ principal[c].role = "admin" /\ principal[c].org = o)
Closed(c) == [x \in Emails |-> IF x = c THEN NoCaller ELSE principal[x]]
Answered(c) == principal' = Closed(c)

\* A request that is refused, or changes nothing kept here, is over as well.
Refuse(c) ==
  /\ principal[c] # NoCaller /\ Answered(c)
  /\ UNCHANGED <<growth, scope, account, link, oauth, identity, sessions, entering, asked, profile, buried, restored>>

-----------------------------------------------------------------------------
(* Organizations, invitations and members *)

administrationOrganizations(o) ==
  /\ scope[o] = "none" /\ scope' = [scope EXCEPT ![o] = "active"]
  /\ UNCHANGED <<growth, account, link, oauth, identity, sessions, entering, asked, principal, profile, buried, restored>>
administrationOrganization(o) ==
  /\ scope[o] # "none" /\ Spend("disables")
  /\ \/ scope' = [scope EXCEPT ![o] = "disabled"] /\ sessions' = {e \in sessions : account[e].org # o}
     \/ scope' = [scope EXCEPT ![o] = "active"] /\ UNCHANGED sessions
  /\ UNCHANGED <<account, link, oauth, identity, entering, asked, principal, profile, buried, restored>>

\* The pending invitations of the address are spent; when the mail fails the new one is too.
\* created_by has to be an account that still exists.
invite_Bug(c, o, e, role, l) ==
  /\ May(c, o) /\ Answered(c) /\ scope[o] = "active" /\ account[e] = NoAccount /\ New(l)
  /\ link' = [k \in Links |-> IF k = l THEN [kind |-> "invitation", email |-> e, org |-> o, role |-> role, by |-> c]
                              ELSE IF Pending(k, e, o) THEN Spent(k) ELSE link[k]]
  /\ UNCHANGED <<growth, scope, account, oauth, identity, sessions, entering, asked, profile, buried, restored>>
invite(c, o, e, role, l) ==
  /\ May(c, o) /\ Answered(c) /\ scope[o] = "active" /\ New(l) /\ (c \in Emails => principal[c].own)
  /\ Administrators(o) = {} => role = "admin"
  /\ account[e] = NoAccount
  /\ \E sent \in BOOLEAN :
       /\ IF sent THEN UNCHANGED growth ELSE Spend("faults")
       /\ link' = [k \in Links |->
            IF k = l THEN [kind |-> IF sent THEN "invitation" ELSE "spent", email |-> e, org |-> o, role |-> role, by |-> c]
            ELSE IF Pending(k, e, o) THEN Spent(k) ELSE link[k]]
  /\ UNCHANGED <<scope, account, oauth, identity, sessions, entering, asked, profile, buried, restored>>
revokeInvitation(c, l) ==
  /\ link[l].kind = "invitation" /\ May(c, link[l].org) /\ Answered(c)
  /\ link' = [link EXCEPT ![l].kind = "spent"]
  /\ UNCHANGED <<growth, scope, account, oauth, identity, sessions, entering, asked, profile, buried, restored>>

\* What mutateMember refuses: to change the own role or status, and to take the last administrator.
Protects_Bug(c, e, next) == c # Root /\ c = e /\ principal[c].own /\ next # account[e]
Protects(c, e, next) ==
  \/ c # Root /\ c = e /\ principal[c].own /\ next # account[e]
  \/ e \in Administrators(account[e].org) /\ next # account[e] /\ Administrators(account[e].org) \ {e} = {}

mutateMember(c, o, e, next) ==
  /\ May(c, o) /\ Spend("changes") /\ (c = Root \/ scope[o] = "active")
  /\ account[e].org = o /\ ~Protects(c, e, next)
  /\ account' = [account EXCEPT ![e] = next] /\ sessions' = sessions \ {e}
  /\ UNCHANGED <<scope, asked, restored>>
updateMember(c, o, e, role, status) ==
  /\ mutateMember(c, o, e, [org |-> o, role |-> role, status |-> status]) /\ Answered(c)
  /\ UNCHANGED <<link, oauth, identity, entering, profile, buried>>

\* A deletion spends every link to the address and every link the account has issued.  What the
\* account was doing goes on with an id that no row has any more.
Buries_Bug(l, e) == link[l] # Unissued /\ link[l].by = e
Buries(l, e) == link[l] # Unissued /\ (link[l].by = e \/ link[l].email = e)
deleteMember(c, o, e) ==
  /\ mutateMember(c, o, e, NoAccount)
  /\ principal' = [Closed(c) EXCEPT ![e].own = FALSE]
  /\ link' = [l \in Links |-> IF Buries(l, e) THEN Spent(l) ELSE link[l]]
  /\ buried' = buried \cup {l \in Links : link[l] # Unissued /\ link[l].email = e}
  /\ identity' = identity \ {e} /\ entering' = [entering EXCEPT ![e] = "no"]
  /\ profile' = [profile EXCEPT ![e] = NoAccount]
  /\ oauth' = [oauth EXCEPT ![e] = IF @.linking \/ @.at = "session" THEN NoOauth ELSE @]

-----------------------------------------------------------------------------
(* Signing up and joining *)

\* requestSignup: the address is looked up first and the link is inserted afterwards.
requestSignup(e) ==
  /\ e \notin asked /\ account[e] = NoAccount /\ asked' = asked \cup {e}
  /\ UNCHANGED <<growth, scope, account, link, oauth, identity, sessions, entering, principal, profile, buried, restored>>
SendSignup(e, l) ==
  /\ e \in asked /\ New(l) /\ asked' = asked \ {e}
  /\ link' = [link EXCEPT ![l] = [kind |-> "signup", email |-> e, org |-> None, role |-> "none", by |-> Root]]
  /\ UNCHANGED <<growth, scope, account, oauth, identity, sessions, entering, principal, profile, buried, restored>>
LinkExpires(l) ==
  /\ link[l].kind \notin {"none", "spent"} /\ Spend("faults") /\ link' = [link EXCEPT ![l].kind = "spent"]
  /\ UNCHANGED <<scope, account, oauth, identity, sessions, entering, asked, principal, profile, buried, restored>>

\* complete, one transaction: the account of an address that has none, as the administrator of
\* a new organization or with the role of an invitation to an active one.
Enrol(l, o, role, spent) ==
  LET e == link[l].email IN
  /\ account[e] = NoAccount
  /\ account' = [account EXCEPT ![e] = [org |-> o, role |-> role, status |-> "active"]]
  /\ identity' = IF link[l].kind = "google" THEN identity \cup {e} ELSE identity
  /\ link' = [k \in Links |-> IF k \in spent THEN Spent(k) ELSE link[k]]
  /\ entering' = [entering EXCEPT ![e] = "create"]
  /\ UNCHANGED <<growth, oauth, sessions, asked, principal, profile, buried, restored>>
completeSignup(l, o) ==
  /\ link[l].kind \in {"signup", "google"} /\ link[l].org = None
  /\ scope[o] = "none" /\ scope' = [scope EXCEPT ![o] = "active"] /\ Enrol(l, o, "admin", {l})
completeInvitation(l) ==
  /\ link[l].kind = "invitation" /\ scope[link[l].org] = "active" /\ UNCHANGED scope
  /\ Enrol(l, link[l].org, link[l].role, {l})
completeGoogle_Bug(l, k) ==
  /\ link[l].kind = "google" /\ link[l].org # None /\ scope[link[l].org] = "active" /\ UNCHANGED scope
  /\ k = l /\ Enrol(l, link[l].org, link[l].role, {l})
completeGoogle(l, k) ==
  /\ link[l].kind = "google" /\ link[l].org # None /\ Pending(k, link[l].email, link[l].org)
  /\ scope[link[l].org] = "active" /\ UNCHANGED scope /\ Enrol(l, link[l].org, link[k].role, {l, k})

-----------------------------------------------------------------------------
(* Google *)

\* Is the invitation, if there is one, pending for the address?
Invited(i, e) == i # None => Pending(i, e, link[i].org) /\ scope[link[i].org] = "active"

\* startGoogle: with an invitation, for a member who links the account, or with neither.
startGoogle(e, i, linking) ==
  /\ oauth[e] = NoOauth /\ Spend("oauths")
  /\ IF linking THEN e \in sessions /\ Usable(e) /\ i = None ELSE Invited(i, e)
  /\ oauth' = [oauth EXCEPT ![e] = [at |-> "asked", invitation |-> i, linking |-> linking]]
  /\ UNCHANGED <<scope, account, link, identity, sessions, entering, asked, principal, profile, buried, restored>>

\* googleCallback takes the request and reads what the identity may do; nothing on a refusal.
Outcome(e) ==
  LET i == oauth[e].invitation IN
  CASE oauth[e].linking -> IF Usable(e) THEN "link" ELSE "none"
    [] ~oauth[e].linking /\ e \in identity ->
         IF Usable(e) /\ Invited(i, e) /\ (i # None => link[i].org = account[e].org) THEN "session" ELSE "none"
    [] ~oauth[e].linking /\ e \notin identity ->
         IF account[e] = NoAccount /\ Invited(i, e) THEN "signup" ELSE "none"
googleCallback(e) ==
  /\ oauth[e].at = "asked"
  /\ oauth' = [oauth EXCEPT ![e] = IF Outcome(e) = "none" THEN NoOauth ELSE [@ EXCEPT !.at = Outcome(e)]]
  /\ UNCHANGED <<growth, scope, account, link, identity, sessions, entering, asked, principal, profile, buried, restored>>
LinkIdentity(e) ==
  /\ oauth[e].at = "link" /\ oauth' = [oauth EXCEPT ![e] = NoOauth] /\ identity' = identity \cup {e}
  /\ UNCHANGED <<growth, scope, account, link, sessions, entering, asked, principal, profile, buried, restored>>
IssueGoogle(e, l) ==
  LET i == oauth[e].invitation
      joins == oauth[e].at = "signup" /\ i # None
  IN /\ oauth[e].at \in {"signup", "session"} /\ New(l) /\ oauth' = [oauth EXCEPT ![e] = NoOauth]
     /\ link' = [link EXCEPT ![l] = [kind |-> IF oauth[e].at = "signup" THEN "google" ELSE "session", email |-> e,
                                     org |-> IF joins THEN link[i].org ELSE None,
                                     role |-> IF joins THEN link[i].role ELSE "none", by |-> Root]]
     /\ UNCHANGED <<growth, scope, account, identity, sessions, entering, asked, principal, profile, buried, restored>>
googleSession(l) ==
  /\ link[l].kind = "session" /\ link' = [link EXCEPT ![l].kind = "spent"]
  /\ entering[link[l].email] = "no" /\ entering' = [entering EXCEPT ![link[l].email] = "create"]
  /\ UNCHANGED <<growth, scope, account, oauth, identity, sessions, asked, principal, profile, buried, restored>>

-----------------------------------------------------------------------------
(* The profile *)

\* UpdateProfile reads the account, and UpdateUser writes its organization, role and status back.
UpdateProfile(e) ==
  /\ profile[e] = NoAccount /\ e \in sessions /\ Usable(e) /\ Spend("profiles")
  /\ profile' = [profile EXCEPT ![e] = account[e]]
  /\ UNCHANGED <<scope, account, link, oauth, identity, sessions, entering, asked, principal, buried, restored>>
UpdateUser(e) ==
  /\ profile[e] # NoAccount /\ profile' = [profile EXCEPT ![e] = NoAccount]
  /\ account' = IF account[e] = NoAccount THEN account ELSE [account EXCEPT ![e] = profile[e]]
  /\ restored' = (restored \/ account' # account)
  /\ UNCHANGED <<growth, scope, link, oauth, identity, sessions, entering, asked, principal, buried>>

OrganizationsNext ==
  \/ \E e \in Emails : \/ login(e) \/ CreateSession(e) \/ CheckSession(e) \/ AuthenticateRequest(e) \/ Refuse(e)
                       \/ requestSignup(e) \/ googleCallback(e) \/ LinkIdentity(e) \/ UpdateProfile(e) \/ UpdateUser(e)
  \/ \E o \in Orgs : administrationOrganizations(o) \/ administrationOrganization(o)
  \/ \E c \in Emails \cup {Root}, o \in Orgs, e \in Emails :
       \/ \E role \in {"admin", "operator"}, l \in Links : invite(c, o, e, role, l)
       \/ \E role \in {"admin", "operator"}, status \in {"active", "disabled"} : updateMember(c, o, e, role, status)
       \/ deleteMember(c, o, e)
  \/ \E c \in Emails \cup {Root}, l \in Links : revokeInvitation(c, l)
  \/ \E l \in Links : \/ LinkExpires(l) \/ completeInvitation(l) \/ googleSession(l)
                      \/ \E e \in Emails : SendSignup(e, l) \/ IssueGoogle(e, l)
                      \/ \E o \in Orgs : completeSignup(l, o)
                      \/ \E k \in Links : completeGoogle(l, k)
  \/ \E e \in Emails, i \in Links \cup {None}, linking \in BOOLEAN : startGoogle(e, i, linking)

OrganizationsSpec == OrganizationsInit /\ [][OrganizationsNext]_orgVars

-----------------------------------------------------------------------------
(* Properties *)

\* An organization with a member has an active administrator, however requests of several
\* administrators, invitations, deletions and links overlap (mutateMember, invite, complete),
\* as long as no profile was written over a change of the account meanwhile.
AdministratorStays ==
  restored \/ \A e \in Emails : account[e] # NoAccount => Administrators(account[e].org) # {}

\* Concurrent changes never remove the last active administrator (mutateMember counts them under
\* the lock of the organization).
LastAdministratorStays ==
  \A e \in Emails : account[e] # NoAccount => Administrators(account[e].org) # {}

\* Whoever comes into an organization that exists has, at that moment, a pending invitation to it
\* with the role they get, and the organization is active; so a revoked or replaced invitation
\* cannot be completed through Google either (complete reads the invitation again).
JoinIsInvited ==
  [][\A e \in Emails : account[e] = NoAccount /\ account'[e] # NoAccount /\ scope[account'[e].org] # "none" =>
       /\ scope[account'[e].org] = "active"
       /\ \E l \in Links : Pending(l, e, account'[e].org) /\ link[l].role = account'[e].role]_orgVars

\* A link issued before the account of its address was deleted is never usable again
\* (mutateMember spends the links to the address).
DeletedLinksStayDead == \A l \in buried : link[l].kind = "spent"

\* Accounts keep an administrator beside them and leave no link behind.
OrganizationSafety == OrganizationsTypeOK /\ AdministratorStays /\ DeletedLinksStayDead
=============================================================================
