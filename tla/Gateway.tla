------------------------------- MODULE Gateway -------------------------------
(***************************************************************************)
(* The BFF, the only way from a browser to the API, ArgoCD and Argo        *)
(* Workflows. It signs users in, asks which of their organizations is      *)
(* selected in every request, signs in to ArgoCD itself for the requests   *)
(* that need that, and passes the requests on under the organization.      *)
(*                                                                         *)
(* What it knows is in three places. The session is a cookie sealed by the *)
(* BFF: the user and the organizations the user had when signing in. The   *)
(* selected organization is a cookie of its own, which stays when another  *)
(* user signs in. The sessions with ArgoCD, their lock and the proxies are *)
(* in memory and end with the process, which a rejected promise ends: the  *)
(* handlers are async functions that express does not wait for.            *)
(*                                                                         *)
(* Request r of a browser and the call r that it makes to the API          *)
(* (Accounts) are separate: the call goes on when the request is dropped.  *)
(***************************************************************************)
EXTENDS Accounts, Naturals

CONSTANTS
  Browser,
  MaxRequests,  \* bound on the requests that browsers and GitHub send
  MaxFaults     \* bound on calls that fail

ASSUME GatewayAssumption ==
  /\ MaxRequests \in Nat /\ MaxFaults \in Nat

VARIABLES
  session,   \* session[b]: appSession, the user and organizations signed in
  cookie,    \* cookie[b]: CLOUDKNIT-SELECTED-ORG
  req,       \* req[r]: a request in the BFF
  fresh,     \* the organizations of argo.ts whose session has not expired
  tokens,    \* those whose session, expired or not, has a token of ArgoCD
  lock,      \* the request for which argo.ts has set its lock, or "free"
  proxy,     \* proxy[o]: whose email the cached /reconciliation proxy has
  sent,      \* requests so far
  faults,    \* failed calls so far
  granted    \* granted[u]: organizations u has ever been a member of

bff == <<session, cookie, req, fresh, tokens, lock, proxy, sent>>
vars == <<accounts, faults, bff, granted>>

NoOrg == "none"
Orgs == Org \cup {NoOrg}
Users == User \cup {"none"}

\* Who answers a route of a browser and what the route needs for it.
ArgoRoutes == {"cd", "api"}
MemberRoutes == {"add", "remove"}
OrgRoutes == ArgoRoutes \cup MemberRoutes \cup {"plain", "history", "token"}
Routes == OrgRoutes \cup {"login", "register", "select"}

Requests ==
  [pc    : {"idle", "login", "createUser", "select", "register", "founding",
            "log", "route", "lock", "secret", "argoLogin", "again", "proxied",
            "hook", "hookOrg", "answered"},
   route : Routes \cup {"none", "webhook"},
   browser  : Browser \cup {"none"},
   user     : Users,        \* of the session that came with the request
   orgs     : SUBSET Org,   \* of that session
   selected : Orgs,         \* the cookie that came with the request
   about    : Users,        \* who is added or removed
   org      : Orgs,         \* what is asked for, then what is resolved
   email    : Users,        \* what the proxy of /reconciliation adds
   token    : BOOLEAN,      \* goes to ArgoCD with a token
   answer   : {"none", "ok", "unauthorized", "failed"}]  \* a 401, another error

NoRequest ==
  [pc |-> "idle", route |-> "none", browser |-> "none", user |-> "none",
   orgs |-> {}, selected |-> NoOrg, about |-> "none", org |-> NoOrg,
   email |-> "none", token |-> FALSE, answer |-> "none"]

GatewayTypeOK ==
  /\ AccountsTypeOK
  /\ session \in [Browser -> [user : Users, orgs : SUBSET Org]]
  /\ cookie \in [Browser -> Orgs]
  /\ req \in [Call -> Requests]
  /\ fresh \subseteq Org
  /\ tokens \subseteq Org
  /\ lock \in Call \cup {"free"}
  /\ proxy \in [Org -> Users]
  /\ sent \in 0..MaxRequests
  /\ faults \in 0..MaxFaults
  /\ granted \in [User -> SUBSET Org]

SignedIn(u) == {b \in Browser : session[b].user = u}

(* The BFF starts on a database and on browsers that have been used before: *)
(* a session or a cookie may be out of date.                                *)
GatewayInit ==
  /\ registered \in SUBSET User
  /\ organization \in SUBSET Org
  /\ member \in [User -> SUBSET organization]
  /\ call = [k \in Call |-> Idle]
  /\ told = [u \in User |-> [o \in Org |-> "unknown"]]
  /\ faults = 0
  /\ session \in [Browser -> [user : Users, orgs : SUBSET Org]]
  /\ \A u \in User \ registered : member[u] = {}
  /\ \A b \in Browser : /\ session[b].user \in registered \cup {"none"}
                        /\ session[b].orgs \subseteq organization
                        /\ session[b].user = "none" => session[b].orgs = {}
  /\ granted = [u \in User |-> member[u] \cup
                   UNION {session[b].orgs : b \in SignedIn(u)}]
  /\ cookie \in [Browser -> organization \cup {NoOrg}]
  /\ req = [r \in Call |-> NoRequest]
  /\ fresh = {}
  /\ tokens = {}
  /\ lock = "free"
  /\ proxy = [o \in Org |-> "none"]
  /\ sent = 0

InFlight(r) == req[r].pc \notin {"idle", "answered"}
Step(r, pc) == req' = [req EXCEPT ![r].pc = pc]
Ends(a) == [NoRequest EXCEPT !.pc = "answered", !.answer = a]
Answer(r, a) == req' = [req EXCEPT ![r] = Ends(a)]
AccountsStay == UNCHANGED <<accounts, granted>>

(* A promise that nobody catches is rejected: the process ends, and with it *)
(* every request under way and all that it kept in memory.                  *)
Crash ==
  /\ req' = [r \in Call |->
       IF InFlight(r) THEN Ends("failed") ELSE req[r]]
  /\ fresh' = {}
  /\ tokens' = {}
  /\ lock' = "free"
  /\ proxy' = [o \in Org |-> "none"]

Fault == faults < MaxFaults /\ faults' = faults + 1
NoFault == UNCHANGED faults

-----------------------------------------------------------------------------
(* A request reaches the BFF; without a session only to sign in. *)
Receive(r, b, route, u, o) ==
  LET s == session[b]
      start == IF route \in {"login", "select", "register"} THEN route
               ELSE "log"
  IN
  /\ ~InFlight(r) /\ Free(r) /\ sent < MaxRequests
  /\ sent' = sent + 1
  /\ req' = [req EXCEPT ![r] =
       IF s.user = "none" /\ route # "login"
       THEN Ends("failed")
       ELSE [NoRequest EXCEPT !.pc = start, !.route = route, !.browser = b,
               !.user = IF route = "login" THEN u ELSE s.user,
               !.orgs = s.orgs, !.selected = cookie[b],
               !.about = IF route \in MemberRoutes THEN u ELSE "none",
               !.org = IF route \in {"select", "register"} THEN o
                       ELSE NoOrg]]
  /\ AccountsStay
  /\ UNCHANGED <<faults, session, cookie, fresh, tokens, lock, proxy>>

(* What a lookup of user u says of the organizations orgs. *)
Tells(u, orgs) ==
  told' = [told EXCEPT ![u] =
    [o \in Org |-> IF o \notin orgs THEN told[u][o]
                   ELSE IF o \in member[u] THEN "in" ELSE "out"]]

(* The callback of the identity provider: the user is looked up, and made   *)
(* when the lookup gives none, which it also does when it fails.            *)
AfterCallback(r) ==
  LET u == req[r].user IN
  /\ req[r].pc = "login"
  /\ \/ /\ u \in registered
        /\ session' = [session EXCEPT ![req[r].browser] =
                         [user |-> u, orgs |-> member[u]]]
        /\ Answer(r, "ok") /\ Tells(u, Org)
        /\ NoFault /\ UNCHANGED <<registered, organization, member, call>>
     \/ /\ IF u \in registered THEN Fault ELSE NoFault
        /\ call' = [call EXCEPT ![r] = Sent("create", u, NoOrg)]
        /\ Step(r, "createUser")
        /\ UNCHANGED <<registered, organization, member, told, session>>
  /\ UNCHANGED <<cookie, fresh, tokens, lock, proxy, sent, granted>>

(* createUser, whose failure is answered like a user who may not sign in *)
CreateUserAnswer(r) ==
  /\ req[r].pc = "createUser"
  /\ \/ /\ call[r].pc = "done" /\ NoFault
        /\ session' = [session EXCEPT ![req[r].browser] =
                         [user |-> req[r].user, orgs |-> {}]]
        /\ Answer(r, "ok")
     \/ /\ IF call[r].pc = "refused" THEN NoFault ELSE Fault
        /\ Answer(r, "failed")
        /\ UNCHANGED session
  /\ AccountsStay
  /\ UNCHANGED <<cookie, fresh, tokens, lock, proxy, sent>>

(* /auth/select-org asks the database and answers whether the user is in    *)
(* the organization; a lookup that fails gives null, whose organizations    *)
(* nobody can search.                                                       *)
SelectOrg(r) ==
  /\ req[r].pc = "select"
  /\ \/ /\ NoFault /\ Tells(req[r].user, {req[r].org})
        /\ IF req[r].org \in member[req[r].user]
           THEN /\ cookie' = [cookie EXCEPT ![req[r].browser] = req[r].org]
                /\ Answer(r, "ok")
           ELSE Answer(r, "failed") /\ UNCHANGED cookie
        /\ UNCHANGED <<fresh, tokens, lock, proxy>>
     \/ Fault /\ Crash /\ UNCHANGED <<cookie, told>>
  /\ UNCHANGED <<registered, organization, member, call, granted>>
  /\ UNCHANGED <<session, sent>>

(* /registration/orgs: when the API does not answer at all, the handler of  *)
(* the error reads an answer that is not there.                             *)
RegisterOrg(r) ==
  /\ req[r].pc = "register"
  /\ call' = [call EXCEPT ![r] = Sent("found", req[r].user, req[r].org)]
  /\ Step(r, "founding")
  /\ NoFault
  /\ UNCHANGED <<registered, organization, member, told, granted>>
  /\ UNCHANGED <<session, cookie, fresh, tokens, lock, proxy, sent>>

RegisterOrgAnswer(r) ==
  /\ req[r].pc = "founding"
  /\ \/ /\ Ended(r) /\ NoFault
        /\ Answer(r, IF call[r].pc = "done" THEN "ok" ELSE "failed")
        /\ UNCHANGED <<fresh, tokens, lock, proxy>>
     \/ Fault /\ Crash
  /\ AccountsStay
  /\ UNCHANGED <<session, cookie, sent>>

-----------------------------------------------------------------------------
\* Mutant: whoever has selected an organization once is still in it.
OrgFromReqCookieOnly(r) == req[r].selected

(* orgFromReq: the selected organization when the session has it, and else  *)
(* when the database has it. Only the database can fail.                    *)
OrgFromReq(r) ==
  IF req[r].selected \in req[r].orgs \cup member[req[r].user]
  THEN req[r].selected ELSE NoOrg

AsksDatabase(r) == req[r].selected \notin req[r].orgs \cup {NoOrg}

LookupFails(r) ==
  /\ AsksDatabase(r) /\ Fault /\ Crash
  /\ AccountsStay
  /\ UNCHANGED <<session, cookie, sent>>

(* The request logger waits for the organization; organizationMW looks at a *)
(* promise, which is never missing, and lets every request through.         *)
AuthRequestLogger(r) ==
  /\ req[r].pc = "log"
  /\ \/ /\ Step(r, "route")
        /\ NoFault /\ AccountsStay
        /\ UNCHANGED <<session, cookie, fresh, tokens, lock, proxy, sent>>
     \/ LookupFails(r)

(* A route that goes straight to its proxy. What is passed on here and      *)
(* below is a path that the mappings of the route rewrite; another one is   *)
(* passed on as it came and is under no organization of the BFF's.          *)
PlainRoute(r, o) ==
  /\ req[r].route = "plain"
  /\ req' = [req EXCEPT ![r].pc = "proxied", ![r].org = o]
  /\ UNCHANGED <<call, proxy>>

(* /cd and /api first wait for a session with ArgoCD. *)
ArgoRoute(r, o) ==
  /\ req[r].route \in ArgoRoutes
  /\ req' = [req EXCEPT ![r].pc = "lock", ![r].org = o]
  /\ UNCHANGED <<call, proxy>>

(* /reconciliation: the proxy of an organization is made once and keeps the *)
(* email of the user it was made for.                                       *)
HistoryRoute(r, o) ==
  LET email == IF proxy[o] = "none" THEN req[r].user ELSE proxy[o] IN
  /\ req[r].route = "history"
  /\ proxy' = [proxy EXCEPT ![o] = email]
  /\ req' = [req EXCEPT ![r].pc = "proxied", ![r].org = o, ![r].email = email]
  /\ UNCHANGED call

(* /users/add and /users/delete go to the API under the organization. *)
UsersRoute(r, o) ==
  /\ req[r].route \in MemberRoutes
  /\ call' = [call EXCEPT ![r] = Sent(req[r].route, req[r].about, o)]
  /\ req' = [req EXCEPT ![r].pc = "proxied", ![r].org = o]
  /\ UNCHANGED proxy

(* /auth/access-token asks the identity provider. *)
AccessToken(r, o) ==
  /\ req[r].route = "token"
  /\ req' = [req EXCEPT ![r].pc = "proxied", ![r].org = o]
  /\ UNCHANGED <<call, proxy>>

(* The handler of a route: it asks for the organization once more. Without  *)
(* one it answers 401, but for /auth/access-token, which reads the id of an *)
(* organization that is null.                                               *)
Route(r) ==
  /\ req[r].pc = "route"
  /\ UNCHANGED <<registered, organization, member, told, granted>>
  /\ UNCHANGED <<session, cookie, sent>>
  /\ LET o == OrgFromReq(r) IN
     \/ /\ o # NoOrg /\ NoFault
        /\ \/ PlainRoute(r, o) \/ ArgoRoute(r, o) \/ HistoryRoute(r, o)
           \/ UsersRoute(r, o) \/ AccessToken(r, o)
        /\ UNCHANGED <<fresh, tokens, lock>>
     \/ /\ o = NoOrg /\ NoFault
        /\ IF req[r].route = "token" THEN Crash
           ELSE Answer(r, "unauthorized") /\ UNCHANGED <<fresh, tokens, lock, proxy>>
        /\ UNCHANGED call
     \/ LookupFails(r)

(* The second handler of /cd asks for the organization a third time. *)
CdRoute(r) ==
  /\ req[r].pc = "again"
  /\ \/ /\ IF OrgFromReq(r) = NoOrg THEN Answer(r, "unauthorized")
           ELSE Step(r, "proxied")
        /\ NoFault /\ AccountsStay
        /\ UNCHANGED <<session, cookie, fresh, tokens, lock, proxy, sent>>
     \/ LookupFails(r)

(* What the service behind a proxy answers. ArgoCD asks for a token; the    *)
(* API, which asks ArgoCD in its turn, makes its own error of a refusal.    *)
ServiceAnswers(r) ==
  LET q == req[r] IN
  IF q.route = "cd" /\ ~q.token THEN {"unauthorized"}
  ELSE IF q.route = "api" /\ ~q.token THEN {"ok", "failed"}
  ELSE IF q.route \in MemberRoutes /\ call[r].pc = "refused" THEN {"failed"}
  ELSE {"ok"}

(* What it may also answer: ArgoCD does not take a token any more, and Argo *)
(* Workflows does not take the browser for signed in. Or it cannot be       *)
(* reached.                                                                 *)
ServiceErrors(r) ==
  IF req[r].route \in {"cd", "plain"} THEN {"unauthorized", "failed"}
  ELSE {"failed"}

\* Mutant: the answer is passed on as it is.
OnProxyResRaw(r, a) == a

(* A 401 of ArgoCD becomes a 500, for it is not the user who has to sign in *)
(* again; the 401 of another service is passed on.                          *)
OnProxyRes(r, a) ==
  IF req[r].route = "cd" /\ a = "unauthorized" THEN "failed" ELSE a

(* The answer comes back; the webhook does not tell GitHub how the sync     *)
(* went.                                                                    *)
ProxyResponse(r) ==
  /\ req[r].pc = "proxied"
  /\ \/ /\ req[r].route \in MemberRoutes => Ended(r)
        /\ \E a \in ServiceAnswers(r) : Answer(r, OnProxyRes(r, a))
        /\ NoFault
     \/ /\ Fault
        /\ IF req[r].route = "webhook" THEN Answer(r, "ok")
           ELSE \E a \in ServiceErrors(r) : Answer(r, OnProxyRes(r, a))
  /\ AccountsStay
  /\ UNCHANGED <<session, cookie, fresh, tokens, lock, proxy, sent>>

-----------------------------------------------------------------------------
(* getArgoToken. The lock is taken in the step that finds it free, so that  *)
(* one request at a time signs in to ArgoCD.                                *)
WithToken(r, token) ==
  req' = [req EXCEPT ![r].pc = IF req[r].route = "cd" THEN "again"
                               ELSE "proxied",
                     ![r].token = token]

OldToken(r) == req[r].org \in tokens

\* Mutant: whether the session has expired is read before the lock is taken.
GetArgoTokenCheckFirst(r) ==
  /\ req[r].pc = "lock"
  /\ IF req[r].org \in fresh THEN WithToken(r, OldToken(r)) /\ UNCHANGED lock
     ELSE Step(r, "secret") /\ UNCHANGED lock
  /\ NoFault /\ AccountsStay
  /\ UNCHANGED <<session, cookie, fresh, tokens, proxy, sent>>

GetArgoToken(r) ==
  /\ req[r].pc = "lock" /\ lock = "free"
  /\ IF req[r].org \in fresh THEN WithToken(r, OldToken(r)) /\ UNCHANGED lock
     ELSE Step(r, "secret") /\ lock' = r
  /\ NoFault /\ AccountsStay
  /\ UNCHANGED <<session, cookie, fresh, tokens, proxy, sent>>

\* Mutant: the way out without a password leaves the lock set.
GetSystemSSMSecretKeepsLock(r) ==
  /\ req[r].pc = "secret"
  /\ \/ Step(r, "argoLogin") /\ NoFault
     \/ Fault /\ WithToken(r, OldToken(r))
  /\ AccountsStay
  /\ UNCHANGED <<session, cookie, fresh, tokens, lock, proxy, sent>>

(* The password comes from the API; without it the old token serves once    *)
(* more, or none.                                                           *)
GetSystemSSMSecret(r) ==
  /\ req[r].pc = "secret"
  /\ \/ Step(r, "argoLogin") /\ NoFault /\ UNCHANGED lock
     \/ Fault /\ WithToken(r, OldToken(r)) /\ lock' = "free"
  /\ AccountsStay
  /\ UNCHANGED <<session, cookie, fresh, tokens, proxy, sent>>

(* The token that ArgoCD answers is kept for three hours, and so is null    *)
(* when it does not answer.                                                 *)
ArgoCdLogin(r) ==
  /\ req[r].pc = "argoLogin"
  /\ \/ NoFault /\ WithToken(r, TRUE) /\ tokens' = tokens \cup {req[r].org}
     \/ Fault /\ WithToken(r, FALSE) /\ tokens' = tokens \ {req[r].org}
  /\ fresh' = fresh \cup {req[r].org}
  /\ lock' = "free"
  /\ AccountsStay
  /\ UNCHANGED <<session, cookie, proxy, sent>>

(* Three hours pass. *)
Expire(o) ==
  /\ o \in fresh
  /\ fresh' = fresh \ {o}
  /\ AccountsStay
  /\ UNCHANGED <<faults, session, cookie, req, tokens, lock, proxy, sent>>

-----------------------------------------------------------------------------
(* GitHub's webhook: the push is passed on to ArgoCD, and the watcher of    *)
(* the team is synced with the BFF's own session.                           *)
Webhook(r) ==
  /\ ~InFlight(r) /\ Free(r) /\ sent < MaxRequests
  /\ sent' = sent + 1
  /\ req' = [req EXCEPT ![r] =
       [NoRequest EXCEPT !.pc = "hook", !.route = "webhook"]]
  /\ AccountsStay
  /\ UNCHANGED <<faults, session, cookie, fresh, tokens, lock, proxy>>

WebhookSync(r) ==
  /\ req[r].pc = "hook"
  /\ \/ Fault /\ Answer(r, "failed")
     \/ NoFault /\ Answer(r, "ok")
     \/ /\ NoFault
        /\ \E o \in organization :
              req' = [req EXCEPT ![r].pc = "lock", ![r].org = o]
  /\ AccountsStay
  /\ UNCHANGED <<session, cookie, fresh, tokens, lock, proxy, sent>>

-----------------------------------------------------------------------------
API(k) ==
  /\ \/ Handle(k) /\ NoFault
     \/ Fail(k) /\ Fault
  /\ granted' = [u \in User |-> granted[u] \cup member'[u]]
  /\ UNCHANGED bff

GatewayStep(r) ==
  \/ AfterCallback(r) \/ CreateUserAnswer(r) \/ SelectOrg(r)
  \/ RegisterOrg(r) \/ RegisterOrgAnswer(r) \/ AuthRequestLogger(r)
  \/ Route(r) \/ CdRoute(r) \/ ProxyResponse(r)
  \/ GetArgoToken(r) \/ GetSystemSSMSecret(r) \/ ArgoCdLogin(r)
  \/ WebhookSync(r)

Next ==
  \/ \E r \in Call, b \in Browser, route \in Routes, u \in User, o \in Org :
        Receive(r, b, route, u, o)
  \/ \E r \in Call : Webhook(r) \/ GatewayStep(r) \/ API(r)
  \/ \E o \in Org : Expire(o)

-----------------------------------------------------------------------------
(* The organization under which the BFF passes a request on is one that the *)
(* user has been a member of, although the cookie with the organization     *)
(* outlives the session, the session outlives the membership and several    *)
(* users share a browser; and the email that /reconciliation adds is that   *)
(* of somebody who has been a member, whoever the proxy was made for. It    *)
(* says nothing of a path that is passed on unmapped.                       *)
StaysInItsOrganizations ==
  /\ \A r \in Call : req[r].route \in OrgRoutes =>
       /\ req[r].org # NoOrg => req[r].org \in granted[req[r].user]
       /\ req[r].email # "none" => req[r].org \in granted[req[r].email]
  /\ \A o \in Org : proxy[o] # "none" => o \in granted[proxy[o]]

(* The lock of argo.ts is set exactly while a request signs in to ArgoCD,   *)
(* on every way out, failed or crashed; otherwise everybody waits for ever. *)
SigningIn(r) == req[r].pc \in {"secret", "argoLogin"}

LockHasOwner ==
  /\ \A r \in Call : SigningIn(r) <=> lock = r
  /\ lock # "free" => SigningIn(lock)

(* Nobody signs in to ArgoCD for an organization whose session is good for  *)
(* hours, although requests that found it expired wait together.            *)
LoginIsNeeded ==
  \A r \in Call : SigningIn(r) => req[r].org \notin fresh

(* The web answers a 401 by signing in again, which helps only a user who   *)
(* is not in the selected organization. Somebody who has been told to be in *)
(* it, by a sign-in, by selecting it or by who added him, and whom nobody   *)
(* has told otherwise since, is not sent to sign in: not because another    *)
(* request changed the memberships of the same user, not because his        *)
(* session knows less than the database, not when a lookup fails, and not   *)
(* when it is the BFF that ArgoCD does not let in. Argo Workflows may send  *)
(* him, whose 401 nobody turns into another error.                          *)
ServiceRefuses(r) == req[r].route = "plain" /\ req[r].pc = "proxied"

ReauthOnlyWithoutOrganization ==
  [][\A r \in Call :
       LET q == req[r] IN
       req'[r].answer = "unauthorized" /\ q.answer # "unauthorized" =>
         \/ q.selected = NoOrg
         \/ q.selected \notin q.orgs /\ told[q.user][q.selected] # "in"
         \/ ServiceRefuses(r)]_vars

Spec == GatewayInit /\ [][Next]_vars
=============================================================================
