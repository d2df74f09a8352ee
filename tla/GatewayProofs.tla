---------------------------- MODULE GatewayProofs ----------------------------
(***************************************************************************)
(* Proofs about Gateway and the API's accounts behind it, for every set of *)
(* users, organizations, browsers and requests.                            *)
(*                                                                         *)
(* Who may be passed on under an organization is decided from copies: the  *)
(* session's and the request's. What makes that safe is that granted only  *)
(* grows and holds every copy (Known, CopiesKnown); what makes the tables  *)
(* agree is that every call under way holds nothing that is not in them    *)
(* (CallsKnown).                                                           *)
(***************************************************************************)
EXTENDS Gateway, TLAPS

Known ==
  \A u \in User : /\ member[u] \subseteq granted[u]
                  /\ granted[u] \subseteq organization
                  /\ granted[u] # {} => u \in registered

CallsKnown ==
  \A k \in Call :
     /\ call[k].pc \in {"sent", "insert", "save", "saveOrg"} =>
          /\ call[k].op # "none" /\ call[k].user \in User
          /\ call[k].op \in MemberRoutes => call[k].org \in organization
          /\ call[k].op = "found" => call[k].org \in Org
     /\ call[k].pc = "insert" => call[k].op \in {"create", "add"}
     /\ call[k].pc \in {"save", "saveOrg"} =>
          call[k].user \in registered /\ call[k].read \subseteq organization
     /\ call[k].pc = "saveOrg" => call[k].op = "found"
     /\ call[k].pc = "save" => call[k].org \in organization

SessionsKnown ==
  \A b \in Browser : session[b].user # "none" =>
     session[b].orgs \subseteq granted[session[b].user]

RequestKnown(q) ==
  /\ q.route \in OrgRoutes =>
       /\ q.user \in User
       /\ q.orgs \subseteq granted[q.user]
       /\ q.route \in MemberRoutes => q.about \in User
       /\ q.org # NoOrg => q.org \in granted[q.user]
       /\ q.email # "none" => q.org \in granted[q.email]
  /\ q.pc \in {"log", "route", "again"} => q.route \in OrgRoutes
  /\ q.pc \in {"login", "createUser", "select", "register"} => q.user \in User
  /\ q.email # "none" => q.pc = "proxied"
  /\ q.pc = "hook" => q.route = "webhook"
  /\ q.pc = "register" => q.org \in Org
  /\ q.pc \in {"lock", "secret", "argoLogin"} => q.org \in Org

RequestsKnown == \A r \in Call : RequestKnown(req[r])

Inv ==
  /\ GatewayTypeOK /\ Known /\ CallsKnown /\ SessionsKnown /\ RequestsKnown
  /\ StaysInItsOrganizations /\ LockHasOwner /\ LoginIsNeeded

-----------------------------------------------------------------------------
LEMMA InitInv == GatewayInit => Inv
<1> SUFFICES ASSUME GatewayInit PROVE Inv
  OBVIOUS
<1> USE AccountsAssumption, GatewayAssumption DEF GatewayInit
<1>1. NoRequest \in Requests /\ Idle \in CallState
  BY DEF NoRequest, Requests, Idle, CallState, Users, Orgs, NoOrg
<1>2. ASSUME NEW u \in User PROVE granted[u] \subseteq organization
  <2>1. \A b \in SignedIn(u) : session[b].orgs \subseteq organization
    BY DEF SignedIn
  <2>2. member[u] \subseteq organization
    OBVIOUS
  <2>3. granted[u] = member[u] \cup UNION {session[b].orgs : b \in SignedIn(u)}
    OBVIOUS
  <2> HIDE DEF GatewayInit
  <2> QED
    BY <2>1, <2>2, <2>3
<1>3. GatewayTypeOK
  BY <1>1, <1>2 DEF GatewayTypeOK, AccountsTypeOK, Users, Orgs, NoOrg
<1>4. Known
  <2>1. ASSUME NEW u \in User, granted[u] # {} PROVE u \in registered
    <3>1. PICK o \in granted[u] : TRUE
      BY <2>1
    <3>2. o \in member[u] \/ \E b \in SignedIn(u) : o \in session[b].orgs
      BY <3>1
    <3> QED
      BY <3>2 DEF SignedIn
  <2> QED
    BY <1>2, <2>1 DEF Known
<1>5. CallsKnown
  BY DEF CallsKnown, Idle
<1>6. SessionsKnown
  BY DEF SessionsKnown, SignedIn, Users
<1>7. RequestsKnown
  BY DEF RequestsKnown, RequestKnown, NoRequest, OrgRoutes, ArgoRoutes, MemberRoutes
<1>8. StaysInItsOrganizations
  BY DEF StaysInItsOrganizations, NoRequest, OrgRoutes, ArgoRoutes, MemberRoutes
<1>9. LockHasOwner /\ LoginIsNeeded
  BY DEF LockHasOwner, LoginIsNeeded, SigningIn, NoRequest
<1> QED
  BY <1>3, <1>4, <1>5, <1>6, <1>7, <1>8, <1>9 DEF Inv

-----------------------------------------------------------------------------
(* The API: a step of a call that holds what the tables have keeps the      *)
(* tables in agreement, and nobody loses what was granted.                  *)
LEMMA CallTyped ==
  ASSUME NEW c \in CallState, NEW orgs \in SUBSET Org,
         NEW pc \in {"insert", "save", "saveOrg", "done", "refused"}
  PROVE  /\ [c EXCEPT !.pc = pc] \in CallState
         /\ [c EXCEPT !.pc = pc, !.read = orgs] \in CallState
BY DEF CallState

LEMMA HandleTypes ==
  ASSUME Inv, NEW k \in Call, Handle(k) \/ Fail(k)
  PROVE  AccountsTypeOK'
<1> USE AccountsAssumption DEF Inv, GatewayTypeOK, AccountsTypeOK, CallsKnown,
        Idle, MemberRoutes, Goto, End, Keep
<1> DEFINE Typed == call' \in [Call -> CallState]
<1>0. Idle \in CallState /\ \A how \in {"done", "refused"} :
        [Idle EXCEPT !.pc = how] \in CallState
  BY DEF CallState
<1>1. ASSUME NEW pc \in {"insert", "save", "saveOrg"}, Goto(k, pc) PROVE Typed
  <2>1. [call[k] EXCEPT !.pc = pc] \in CallState
    BY CallTyped
  <2> QED
    BY <1>1, <2>1
<1>2. ASSUME NEW how \in {"done", "refused"}, End(k, how) PROVE Typed
  BY <1>0, <1>2
<1>3. ASSUME NEW pc \in {"save", "saveOrg"}, Keep(k, pc),
             call[k].user \in User PROVE Typed
  <2>1. [call[k] EXCEPT !.pc = pc, !.read = member[call[k].user]]
          \in CallState
    <3>1. member[call[k].user] \in SUBSET Org
      BY <1>3
    <3> QED
      BY <3>1, CallTyped
  <2>2. call' = [call EXCEPT ![k] =
                   [call[k] EXCEPT !.pc = pc, !.read = member[call[k].user]]]
    BY <1>3
  <2> QED
    BY <2>1, <2>2
<1>4. CASE CreateUser(k) \/ CreateOrgUser(k) \/ DeleteUser(k) \/ CreateOrg(k)
  <2>1. Typed
    BY <1>1, <1>2, <1>3, <1>4 DEF CreateUser, CreateOrgUser, DeleteUser, CreateOrg
  <2> QED
    BY <2>1, <1>4 DEF CreateUser, CreateOrgUser, DeleteUser, CreateOrg
<1>5. CASE InsertUser(k)
  <2>1. Typed
    BY <1>2, <1>5 DEF InsertUser
  <2>2. CASE UNCHANGED <<registered, member, told>>
    BY <2>1, <2>2, <1>5 DEF InsertUser
  <2>3. CASE ~UNCHANGED <<registered, member, told>>
    <3>1. call[k].user \in User
      BY <1>5 DEF InsertUser
    <3>2. call[k].op = "add" => call[k].org \in Org
      BY <1>5 DEF InsertUser, CallState
    <3>3. registered' \subseteq User /\ member' \in [User -> SUBSET Org]
      <4> DEFINE orgs == IF call[k].op = "add" THEN {call[k].org} ELSE {}
      <4>1. orgs \in SUBSET Org
        BY <3>2
      <4>2. /\ registered' = registered \cup {call[k].user}
            /\ member' = [member EXCEPT ![call[k].user] = orgs]
        BY <2>3, <1>5 DEF InsertUser
      <4>3. registered \subseteq User /\ member \in [User -> SUBSET Org]
        OBVIOUS
      <4> HIDE DEF orgs, Inv, GatewayTypeOK, AccountsTypeOK, CallsKnown
      <4>4. registered' \subseteq User
        BY <3>1, <4>2, <4>3
      <4>5. member' \in [User -> SUBSET Org]
        BY <3>1, <4>1, <4>2, <4>3
      <4> QED
        BY <4>4, <4>5
    <3>4. told' \in [User -> [Org -> {"unknown", "in", "out"}]]
      <4> DEFINE row == [o \in Org |->
             IF o \in IF call[k].op = "add" THEN {call[k].org} ELSE {}
             THEN "in" ELSE told[call[k].user][o]]
      <4>1. told \in [User -> [Org -> {"unknown", "in", "out"}]]
        OBVIOUS
      <4>2. told' = [told EXCEPT ![call[k].user] = row]
        BY <2>3, <1>5 DEF InsertUser
      <4> HIDE DEF Inv, GatewayTypeOK, AccountsTypeOK, CallsKnown
      <4>3. row \in [Org -> {"unknown", "in", "out"}]
        BY <3>1, <4>1
      <4> HIDE DEF row
      <4> QED
        BY <3>1, <4>1, <4>2, <4>3
    <3> QED
      BY <2>1, <3>3, <3>4, <1>5 DEF InsertUser
  <2> QED
    BY <2>2, <2>3
<1>6. CASE SaveOrganization(k)
  <2>1. Typed
    BY <1>1, <1>2, <1>6 DEF SaveOrganization
  <2> QED
    BY <2>1, <1>6 DEF SaveOrganization
<1>7. CASE SaveUser(k)
  <2>1. Typed
    BY <1>2, <1>7 DEF SaveUser
  <2>2. Change(k) \subseteq Org
    BY <1>7 DEF SaveUser, Change, CallState
  <2> QED
    BY <2>1, <2>2, <1>7 DEF SaveUser
<1>8. CASE Fail(k)
  <2>1. Typed
    BY <1>2, <1>8 DEF Fail
  <2> QED
    BY <2>1, <1>8 DEF Fail
<1> QED
  BY <1>4, <1>5, <1>6, <1>7, <1>8 DEF Handle

LEMMA HandleMembers ==
  ASSUME Inv, NEW k \in Call, Handle(k) \/ Fail(k)
  PROVE  /\ \A u \in User : /\ member'[u] \subseteq organization'
                            /\ member'[u] # {} => u \in registered'
         /\ organization \subseteq organization'
         /\ registered \subseteq registered'
<1> DEFINE Agree == \A u \in User :
                      /\ member[u] \subseteq organization
                      /\ member[u] # {} => u \in registered
<1>1. Agree /\ member \in [User -> SUBSET Org]
  <2>1. ASSUME NEW u \in User, member[u] # {} PROVE u \in registered
    <3>1. granted[u] # {}
      BY <2>1 DEF Inv, Known
    <3> QED
      BY <3>1 DEF Inv, Known
  <2> QED
    BY <2>1 DEF Inv, Known, GatewayTypeOK, AccountsTypeOK
<1>2. CASE CreateUser(k) \/ CreateOrgUser(k) \/ DeleteUser(k) \/ CreateOrg(k)
           \/ Fail(k)
  BY <1>1, <1>2 DEF CreateUser, CreateOrgUser, DeleteUser, CreateOrg, Fail
<1>3. CASE InsertUser(k)
  <2>1. call[k].op = "add" => call[k].org \in organization
    BY <1>3 DEF Inv, CallsKnown, InsertUser, MemberRoutes
  <2>2. CASE UNCHANGED <<registered, member>>
    BY <1>1, <1>3, <2>2 DEF InsertUser
  <2>3. CASE ~UNCHANGED <<registered, member>>
    <3>1. /\ registered' = registered \cup {call[k].user}
          /\ member' = [member EXCEPT ![call[k].user] =
                          IF call[k].op = "add" THEN {call[k].org} ELSE {}]
          /\ organization' = organization
      BY <2>3, <1>3 DEF InsertUser
    <3> QED
      BY <1>1, <2>1, <3>1
  <2> QED
    BY <2>2, <2>3
<1>4. CASE SaveOrganization(k)
  <2>1. UNCHANGED <<registered, member>> /\ organization \subseteq organization'
    BY <1>4 DEF SaveOrganization
  <2> QED
    BY <1>1, <2>1
<1>5. CASE SaveUser(k)
  <2>1. /\ call[k].user \in registered /\ call[k].read \subseteq organization
        /\ call[k].org \in organization
    BY <1>5 DEF Inv, CallsKnown, SaveUser
  <2>2. Change(k) \subseteq organization
    BY <2>1 DEF Change
  <2>3. /\ UNCHANGED <<registered, organization>>
        /\ member' = [member EXCEPT ![call[k].user] = Change(k)]
    BY <1>5 DEF SaveUser
  <2> QED
    BY <1>1, <2>1, <2>2, <2>3
<1> QED
  BY <1>2, <1>3, <1>4, <1>5 DEF Handle

LEMMA HandleCalls ==
  ASSUME Inv, NEW k \in Call, Handle(k) \/ Fail(k)
  PROVE  CallsKnown'
<1> SUFFICES ASSUME NEW j \in Call
    PROVE
     /\ call'[j].pc \in {"sent", "insert", "save", "saveOrg"} =>
          /\ call'[j].op # "none" /\ call'[j].user \in User
          /\ call'[j].op \in MemberRoutes => call'[j].org \in organization'
          /\ call'[j].op = "found" => call'[j].org \in Org
     /\ call'[j].pc = "insert" => call'[j].op \in {"create", "add"}
     /\ call'[j].pc \in {"save", "saveOrg"} =>
          call'[j].user \in registered' /\ call'[j].read \subseteq organization'
     /\ call'[j].pc = "saveOrg" => call'[j].op = "found"
     /\ call'[j].pc = "save" => call'[j].org \in organization'
  BY DEF CallsKnown
<1>1. organization \subseteq organization' /\ registered \subseteq registered'
  BY HandleMembers
<1>2. \A u \in User : member[u] \subseteq organization
  BY DEF Inv, Known
<1>3. /\ call \in [Call -> CallState]
      /\ call[k].pc \in {"sent", "insert", "save", "saveOrg"}
      /\ call[k].op # "none" /\ call[k].user \in User
      /\ call[k].op \in {"create", "add", "remove", "found"}
  <2>1. call[k].pc \in {"sent", "insert", "save", "saveOrg"}
    BY DEF Handle, Fail, CreateUser, CreateOrgUser, DeleteUser, CreateOrg,
           InsertUser, SaveOrganization, SaveUser
  <2> QED
    BY <2>1 DEF Inv, GatewayTypeOK, AccountsTypeOK, CallsKnown, CallState
<1>4. CASE j # k
  <2>1. call'[j] = call[j]
    BY <1>3, <1>4 DEF Handle, Fail, CreateUser, CreateOrgUser, DeleteUser,
        CreateOrg, InsertUser, SaveOrganization, SaveUser, Goto, End, Keep
  <2> QED
    BY <1>1, <2>1 DEF Inv, CallsKnown
<1>5. CASE j = k
  <2>1. CASE call'[k].pc \in {"done", "refused"}
    BY <1>5, <2>1
  <2>2. CASE call'[k].pc \notin {"done", "refused"}
    <3>1. /\ call'[k].op = call[k].op /\ call'[k].user = call[k].user
          /\ call'[k].org = call[k].org
      BY <1>3, <2>2 DEF Handle, Fail, CreateUser, CreateOrgUser, DeleteUser,
        CreateOrg, InsertUser, SaveOrganization, SaveUser, Goto, End, Keep,
        Idle, CallState
    <3>2. call'[k].pc = "insert" => call[k].op \in {"create", "add"}
      BY <1>3, <2>2 DEF Handle, Fail, CreateUser, CreateOrgUser, DeleteUser,
        CreateOrg, InsertUser, SaveOrganization, SaveUser, Goto, End, Keep,
        Idle, CallState
    <3>3. call'[k].pc = "saveOrg" => call[k].op = "found"
      BY <1>3, <2>2 DEF Handle, Fail, CreateUser, CreateOrgUser, DeleteUser,
        CreateOrg, InsertUser, SaveOrganization, SaveUser, Goto, End, Keep,
        Idle, CallState
    <3>4. call'[k].pc \in {"save", "saveOrg"} =>
            /\ call[k].user \in registered
            /\ call'[k].read \subseteq organization
      BY <1>2, <1>3, <2>2 DEF Handle, Fail, CreateUser, CreateOrgUser,
        DeleteUser, CreateOrg, InsertUser, SaveOrganization, SaveUser, Goto,
        End, Keep, Idle, CallState, Inv, CallsKnown
    <3>5. call'[k].pc = "save" => call[k].org \in organization'
      BY <1>3, <2>2 DEF Handle, Fail, CreateUser, CreateOrgUser, DeleteUser,
        CreateOrg, InsertUser, SaveOrganization, SaveUser, Goto, End, Keep,
        Idle, CallState, Inv, CallsKnown, MemberRoutes
    <3> QED
      BY <1>1, <1>3, <1>5, <2>2, <3>1, <3>2, <3>3, <3>4, <3>5
         DEF Inv, CallsKnown
  <2> QED
    BY <2>1, <2>2
<1> QED
  BY <1>4, <1>5

LEMMA APIInv ==
  ASSUME Inv, NEW k \in Call, API(k)
  PROVE  Inv'
<1>1. (Handle(k) \/ Fail(k)) /\ UNCHANGED bff /\ (Fault \/ NoFault)
  BY DEF API
<1>2. AccountsTypeOK'
  BY <1>1, HandleTypes
<1>3. granted' = [u \in User |-> granted[u] \cup member'[u]]
  BY DEF API
<1>4. GatewayTypeOK'
  <2>1. granted' \in [User -> SUBSET Org]
    BY <1>2, <1>3 DEF AccountsTypeOK, Inv, GatewayTypeOK
  <2>2. faults' \in 0..MaxFaults
    BY <1>1, GatewayAssumption DEF Fault, NoFault, Inv, GatewayTypeOK
  <2> QED
    BY <1>1, <1>2, <2>1, <2>2 DEF Inv, GatewayTypeOK, bff
<1>5. \A u \in User : granted[u] \subseteq granted'[u]
  BY <1>3
<1>6. Known'
  BY <1>1, <1>3, HandleMembers DEF Inv, Known
<1>7. CallsKnown'
  BY <1>1, HandleCalls
<1>8. SessionsKnown'
  BY <1>1, <1>5 DEF Inv, SessionsKnown, bff, GatewayTypeOK, Users
<1>9. RequestsKnown'
  <2>1. ASSUME NEW r \in Call PROVE RequestKnown(req[r])'
    <3>1. req[r].email # "none" => req[r].email \in User
      BY DEF Inv, GatewayTypeOK, Requests, Users
    <3> QED
      BY <1>1, <1>5, <3>1 DEF Inv, RequestsKnown, RequestKnown, bff
  <2> QED
    BY <2>1 DEF RequestsKnown
<1>10. StaysInItsOrganizations'
  <2>1. \A r \in Call : req[r].email # "none" => req[r].email \in User
    BY DEF Inv, GatewayTypeOK, Requests, Users
  <2>2. \A o \in Org : proxy[o] # "none" => proxy[o] \in User
    BY DEF Inv, GatewayTypeOK, Users
  <2> QED
    BY <1>1, <1>5, <2>1, <2>2
       DEF Inv, StaysInItsOrganizations, RequestsKnown, RequestKnown, bff
<1>11. LockHasOwner' /\ LoginIsNeeded'
  BY <1>1 DEF Inv, LockHasOwner, LoginIsNeeded, SigningIn, bff
<1> QED
  BY <1>4, <1>6, <1>7, <1>8, <1>9, <1>10, <1>11 DEF Inv

-----------------------------------------------------------------------------
(* The steps of the BFF. What they do to the copies is in two facts: the    *)
(* tables do not change (or only a call begins), and a request that is      *)
(* answered keeps nothing.                                                  *)
LEMMA EndsTyped ==
  ASSUME NEW a \in {"ok", "unauthorized", "failed"}
  PROVE  /\ Ends(a) \in Requests
         /\ Ends(a).pc = "answered" /\ Ends(a).route = "none"
         /\ Ends(a).email = "none"
BY DEF Ends, NoRequest, Requests, Users, Orgs, NoOrg

LEMMA StepTyped ==
  ASSUME NEW q \in Requests,
         NEW pc \in {"createUser", "founding", "route", "lock", "secret",
                     "argoLogin", "again", "proxied"}
  PROVE  [q EXCEPT !.pc = pc] \in Requests /\ [q EXCEPT !.pc = pc].pc = pc
BY DEF Requests

LEMMA ResolvedTyped ==
  ASSUME NEW q \in Requests, NEW o \in Org, NEW pc \in {"lock", "proxied"}
  PROVE  /\ [q EXCEPT !.pc = pc, !.org = o] \in Requests
         /\ [q EXCEPT !.pc = pc, !.org = o].org = o
         /\ \A u \in User :
              [q EXCEPT !.pc = pc, !.org = o, !.email = u] \in Requests
<1>1. [q EXCEPT !.pc = pc, !.org = o] \in Requests
  BY DEF Requests, Orgs
<1>2. ASSUME NEW u \in User
      PROVE  [q EXCEPT !.pc = pc, !.org = o, !.email = u] \in Requests
  <2>1. \A p \in Requests : [p EXCEPT !.email = u] \in Requests
    BY DEF Requests, Users
  <2>2. [[q EXCEPT !.pc = pc, !.org = o] EXCEPT !.email = u] \in Requests
    BY <1>1, <2>1
  <2> QED
    BY <2>2 DEF Requests
<1> QED
  BY <1>1, <1>2 DEF Requests

LEMMA CrashInv ==
  ASSUME Inv, Crash, Fault \/ NoFault,
         UNCHANGED <<accounts, granted, session, cookie, sent>>
  PROVE  Inv'
<1>1. \A r \in Call : req'[r].route \in OrgRoutes => req'[r] = req[r]
  BY EndsTyped DEF Crash, OrgRoutes, ArgoRoutes, MemberRoutes
<1>2. \A r \in Call : req'[r].pc \in {"idle", "answered"}
  BY EndsTyped DEF Crash, InFlight
<1>3. GatewayTypeOK'
  <2>1. req' \in [Call -> Requests]
    BY EndsTyped DEF Crash, Inv, GatewayTypeOK
  <2>2. faults' \in 0..MaxFaults
    BY GatewayAssumption DEF Fault, NoFault, Inv, GatewayTypeOK
  <2> QED
    BY <2>1, <2>2
       DEF Inv, GatewayTypeOK, AccountsTypeOK, accounts, Crash, Users
<1>4. Known' /\ CallsKnown' /\ SessionsKnown'
  BY DEF Inv, Known, CallsKnown, SessionsKnown, accounts
<1>5. RequestsKnown'
  <2>1. RequestKnown(Ends("failed"))
    BY EndsTyped DEF RequestKnown, OrgRoutes, ArgoRoutes, MemberRoutes
  <2>2. \A r \in Call : RequestKnown(req'[r])
    BY <2>1 DEF Crash, Inv, RequestsKnown
  <2>3. RequestsKnown' <=> \A r \in Call : RequestKnown(req'[r])
    BY DEF RequestsKnown, RequestKnown
  <2> QED
    BY <2>2, <2>3
<1>6. StaysInItsOrganizations'
  BY <1>1 DEF Inv, StaysInItsOrganizations, Crash
<1>7. LockHasOwner' /\ LoginIsNeeded'
  <2>1. lock' = "free" /\ \A r \in Call : r # "free"
    BY AccountsAssumption DEF Crash
  <2> QED
    BY <1>2, <2>1 DEF LockHasOwner, LoginIsNeeded, SigningIn
<1> QED
  BY <1>3, <1>4, <1>5, <1>6, <1>7 DEF Inv

(* A step that changes one request: the lock stays as it is, is taken for   *)
(* the request, or is given back by it.                                     *)
LockStep(r, q) ==
  \/ /\ UNCHANGED <<lock, fresh, tokens>>
     /\ q.pc \in {"secret", "argoLogin"} <=> SigningIn(r)
     /\ SigningIn(r) => q.org = req[r].org
  \/ /\ lock = "free" /\ lock' = r /\ UNCHANGED <<fresh, tokens>>
     /\ q.pc = "secret" /\ q.org \notin fresh
  \/ /\ SigningIn(r) /\ lock' = "free"
     /\ fresh' \subseteq Org /\ tokens' \subseteq Org
     /\ q.pc \notin {"secret", "argoLogin"}

Tellings == [User -> [Org -> {"unknown", "in", "out"}]]

LEMMA RequestInv ==
  ASSUME Inv, NEW r \in Call, NEW q \in Requests, req' = [req EXCEPT ![r] = q],
         RequestKnown(q), LockStep(r, q), Fault \/ NoFault,
         UNCHANGED <<registered, organization, member, granted>>,
         UNCHANGED told \/ told' \in Tellings,
         call' \in [Call -> CallState], CallsKnown',
         session' \in [Browser -> [user : Users, orgs : SUBSET Org]],
         SessionsKnown',
         cookie' \in [Browser -> Orgs], sent' \in 0..MaxRequests,
         proxy' \in [Org -> Users],
         \A o \in Org : proxy'[o] # "none" => o \in granted[proxy'[o]]
  PROVE  Inv'
<1>1. GatewayTypeOK'
  <2>1. faults' \in 0..MaxFaults
    BY GatewayAssumption DEF Fault, NoFault, Inv, GatewayTypeOK
  <2>2. lock' \in Call \cup {"free"} /\ fresh' \subseteq Org /\ tokens' \subseteq Org
    BY DEF LockStep, Inv, GatewayTypeOK
  <2>3. req' \in [Call -> Requests]
    BY DEF Inv, GatewayTypeOK
  <2> QED
    BY <2>1, <2>2, <2>3 DEF Inv, GatewayTypeOK, AccountsTypeOK, Tellings
<1>2. Known'
  BY DEF Inv, Known
<1>3. req'[r] = q /\ \A j \in Call \ {r} : req'[j] = req[j]
  BY DEF Inv, GatewayTypeOK
<1>4. RequestsKnown'
  BY <1>3 DEF Inv, RequestsKnown, RequestKnown
<1>5. StaysInItsOrganizations'
  BY <1>4 DEF RequestsKnown, RequestKnown, StaysInItsOrganizations
<1>6. \A j \in Call : j # "free"
  BY AccountsAssumption
<1>7. LockHasOwner'
  BY <1>3, <1>6 DEF Inv, LockStep, LockHasOwner, SigningIn
<1>8. LoginIsNeeded'
  BY <1>3, <1>6 DEF Inv, LockStep, LockHasOwner, LoginIsNeeded, SigningIn
<1> QED
  BY <1>1, <1>2, <1>4, <1>5, <1>7, <1>8 DEF Inv

LEMMA AnsweredInv ==
  ASSUME Inv, NEW r \in Call, NEW a \in {"ok", "unauthorized", "failed"},
         Answer(r, a), ~SigningIn(r), Fault \/ NoFault,
         \/ UNCHANGED accounts
         \/ /\ UNCHANGED <<registered, organization, member, call>>
            /\ told' \in Tellings,
         UNCHANGED <<granted, fresh, tokens, lock, proxy, sent>>,
         session' \in [Browser -> [user : Users, orgs : SUBSET Org]],
         SessionsKnown', cookie' \in [Browser -> Orgs]
  PROVE  Inv'
<1>1. Ends(a) \in Requests /\ req' = [req EXCEPT ![r] = Ends(a)]
  BY EndsTyped DEF Answer
<1>2. RequestKnown(Ends(a)) /\ LockStep(r, Ends(a))
  BY EndsTyped DEF RequestKnown, LockStep, OrgRoutes, ArgoRoutes, MemberRoutes,
     Inv, GatewayTypeOK
<1>3. CallsKnown' /\ call' \in [Call -> CallState]
  BY DEF Inv, CallsKnown, accounts, GatewayTypeOK, AccountsTypeOK
<1>4. /\ UNCHANGED <<registered, organization, member, granted>>
      /\ UNCHANGED told \/ told' \in Tellings
  BY DEF accounts
<1> QED
  BY <1>1, <1>2, <1>3, <1>4, RequestInv DEF Inv, GatewayTypeOK,
     StaysInItsOrganizations

(* A step that only moves a request on, and maybe resolves its organization *)
LEMMA MovedInv ==
  ASSUME Inv, NEW r \in Call, NEW q \in Requests, req' = [req EXCEPT ![r] = q],
         RequestKnown(q), LockStep(r, q), Fault \/ NoFault,
         UNCHANGED <<accounts, granted, session, cookie, proxy>>,
         sent' \in 0..MaxRequests
  PROVE  Inv'
<1>1. CallsKnown' /\ call' \in [Call -> CallState] /\ SessionsKnown'
  BY DEF Inv, CallsKnown, SessionsKnown, accounts, GatewayTypeOK, AccountsTypeOK
<1> QED
  BY <1>1, RequestInv DEF accounts, Inv, GatewayTypeOK, StaysInItsOrganizations

LEMMA ReceiveInv ==
  ASSUME Inv, NEW r \in Call, NEW b \in Browser, NEW route \in Routes,
         NEW u \in User, NEW o \in Org, Receive(r, b, route, u, o)
  PROVE  Inv'
<1> DEFINE s == session[b]
           start == IF route \in {"login", "select", "register"} THEN route
                    ELSE "log"
           q == IF s.user = "none" /\ route # "login" THEN Ends("failed")
                ELSE [NoRequest EXCEPT !.pc = start, !.route = route,
                        !.browser = b,
                        !.user = IF route = "login" THEN u ELSE s.user,
                        !.orgs = s.orgs, !.selected = cookie[b],
                        !.about = IF route \in MemberRoutes THEN u
                                  ELSE "none",
                        !.org = IF route \in {"select", "register"} THEN o
                                ELSE NoOrg]
<1>1. s.user \in Users /\ s.orgs \subseteq Org /\ cookie[b] \in Orgs
  BY DEF Inv, GatewayTypeOK
<1>2. req' = [req EXCEPT ![r] = q] /\ sent' \in 0..MaxRequests
  BY GatewayAssumption DEF Receive, Inv, GatewayTypeOK
<1>3. CASE s.user = "none" /\ route # "login"
  <2>1. q \in Requests /\ RequestKnown(q) /\ q.pc = "answered"
    BY <1>3, EndsTyped DEF RequestKnown, OrgRoutes, ArgoRoutes, MemberRoutes
  <2> HIDE DEF q
  <2>2. LockStep(r, q)
    BY <2>1 DEF LockStep, Receive, SigningIn, InFlight
  <2> QED
    BY <1>2, <2>1, <2>2, MovedInv DEF Receive, AccountsStay, NoFault
<1>4. CASE ~(s.user = "none" /\ route # "login")
  <2>1. /\ start \in {"login", "select", "register", "log"}
        /\ route \in Routes \cup {"none", "webhook"}
        /\ (IF route = "login" THEN u ELSE s.user) \in User
        /\ (IF route \in MemberRoutes THEN u ELSE "none") \in Users
        /\ (IF route \in {"select", "register"} THEN o ELSE NoOrg) \in Orgs
    BY <1>1, <1>4 DEF Users, Orgs, Routes
  <2>2. q \in Requests
    BY <1>1, <1>4, <2>1 DEF NoRequest, Requests, Users
  <2>3. /\ q.pc = start /\ q.route = route /\ q.email = "none"
        /\ q.user = IF route = "login" THEN u ELSE s.user
        /\ q.orgs = s.orgs
        /\ q.about = IF route \in MemberRoutes THEN u ELSE "none"
        /\ q.org = IF route \in {"select", "register"} THEN o ELSE NoOrg
    BY <1>4 DEF NoRequest
  <2>4. s.user # "none" => s.orgs \subseteq granted[s.user]
    BY DEF Inv, SessionsKnown
  <2>5. route \in OrgRoutes => route \notin {"login", "select", "register"}
    BY DEF OrgRoutes, ArgoRoutes, MemberRoutes
  <2> HIDE DEF q
  <2>6. RequestKnown(q)
    BY <1>4, <2>1, <2>3, <2>4, <2>5 DEF RequestKnown, Routes
  <2>7. q.pc \notin {"secret", "argoLogin"}
    BY <2>1, <2>3
  <2>8. LockStep(r, q)
    BY <2>7 DEF LockStep, Receive, SigningIn, InFlight
  <2> QED
    BY <1>2, <2>2, <2>6, <2>8, MovedInv DEF Receive, AccountsStay, NoFault
<1> QED
  BY <1>3, <1>4

LEMMA TokenInv ==
  ASSUME Inv, NEW r \in Call, NEW token \in BOOLEAN, WithToken(r, token),
         req[r].pc \in {"lock", "secret", "argoLogin"},
         \/ UNCHANGED <<lock, fresh, tokens>> /\ ~SigningIn(r)
         \/ /\ SigningIn(r) /\ lock' = "free"
            /\ fresh' \subseteq Org /\ tokens' \subseteq Org,
         Fault \/ NoFault,
         UNCHANGED <<accounts, granted, session, cookie, proxy, sent>>
  PROVE  Inv'
<1> DEFINE pc == IF req[r].route = "cd" THEN "again" ELSE "proxied"
           q == [req[r] EXCEPT !.pc = pc, !.token = token]
<1>1. pc \in {"again", "proxied"} /\ (pc = "again" => req[r].route = "cd")
  OBVIOUS
<1>2. req[r] \in Requests /\ RequestKnown(req[r])
  BY DEF Inv, GatewayTypeOK, RequestsKnown
<1>3. req' = [req EXCEPT ![r] = q]
  BY DEF WithToken
<1> HIDE DEF pc
<1>4. /\ q \in Requests /\ q.pc = pc /\ q.route = req[r].route
      /\ q.user = req[r].user /\ q.org = req[r].org /\ q.orgs = req[r].orgs
      /\ q.about = req[r].about /\ q.email = req[r].email
  BY <1>1, <1>2 DEF Requests
<1> HIDE DEF q
<1>5. RequestKnown(q)
  BY <1>1, <1>2, <1>4 DEF RequestKnown, OrgRoutes, ArgoRoutes
<1>6. LockStep(r, q)
  BY <1>1, <1>4 DEF LockStep
<1>7. sent' \in 0..MaxRequests
  BY DEF Inv, GatewayTypeOK
<1> QED
  BY <1>3, <1>4, <1>5, <1>6, <1>7, MovedInv

(* A call to the API begins: it holds a user and, for a membership, an      *)
(* organization that has been granted and so is in the table.               *)
LEMMA CallBegins ==
  ASSUME Inv, NEW r \in Call, NEW op \in {"create", "add", "remove", "found"},
         NEW u \in User, NEW o \in Orgs,
         op \in MemberRoutes => o \in organization,
         op = "found" => o \in Org,
         call' = [call EXCEPT ![r] = Sent(op, u, o)],
         UNCHANGED <<organization, registered>>
  PROVE  call' \in [Call -> CallState] /\ CallsKnown'
<1>1. Sent(op, u, o) \in CallState
  BY DEF Sent, CallState, Orgs, NoOrg
<1>2. call \in [Call -> CallState]
  BY DEF Inv, GatewayTypeOK, AccountsTypeOK
<1>3. call' \in [Call -> CallState]
  BY <1>1, <1>2
<1>4. CallsKnown'
  BY <1>2 DEF Inv, CallsKnown, Sent
<1> QED
  BY <1>3, <1>4

LEMMA TellsTyped ==
  ASSUME Inv, NEW u \in User, NEW orgs, Tells(u, orgs)
  PROVE  told' \in Tellings
BY DEF Tells, Tellings, Inv, GatewayTypeOK, AccountsTypeOK

LEMMA AfterCallbackInv ==
  ASSUME Inv, NEW r \in Call, AfterCallback(r)
  PROVE  Inv'
<1> DEFINE u == req[r].user
<1>1. u \in User /\ req[r] \in Requests /\ ~SigningIn(r)
  BY DEF AfterCallback, Inv, RequestsKnown, RequestKnown, GatewayTypeOK, SigningIn
<1>2. CASE /\ session' = [session EXCEPT ![req[r].browser] =
                            [user |-> u, orgs |-> member[u]]]
           /\ Answer(r, "ok") /\ NoFault /\ Tells(u, Org)
           /\ UNCHANGED <<registered, organization, member, call>>
  <2>1. member[u] \subseteq granted[u] /\ member[u] \subseteq Org
    BY <1>1 DEF Inv, Known, GatewayTypeOK, AccountsTypeOK
  <2>2. /\ session' \in [Browser -> [user : Users, orgs : SUBSET Org]]
        /\ SessionsKnown'
    BY <1>1, <1>2, <2>1 DEF AfterCallback, Inv, GatewayTypeOK, SessionsKnown, Users
  <2>3. told' \in Tellings
    BY <1>1, <1>2, TellsTyped
  <2> QED
    BY <1>1, <1>2, <2>2, <2>3, AnsweredInv DEF AfterCallback, Inv, GatewayTypeOK
<1>3. CASE /\ call' = [call EXCEPT ![r] = Sent("create", u, NoOrg)]
           /\ Step(r, "createUser") /\ (Fault \/ NoFault)
           /\ UNCHANGED <<registered, organization, member, told, session>>
  <2> DEFINE q == [req[r] EXCEPT !.pc = "createUser"]
  <2>1. call' \in [Call -> CallState] /\ CallsKnown'
    BY <1>1, <1>3, CallBegins DEF MemberRoutes, Orgs
  <2>2. q \in Requests /\ req' = [req EXCEPT ![r] = q]
    BY <1>1, <1>3, StepTyped DEF Step
  <2>3. RequestKnown(q) /\ LockStep(r, q)
    BY <1>1 DEF RequestKnown, LockStep, AfterCallback, Inv, RequestsKnown,
                Requests
  <2> QED
    BY <1>3, <2>1, <2>2, <2>3, RequestInv
       DEF AfterCallback, Inv, GatewayTypeOK, SessionsKnown,
           StaysInItsOrganizations
<1> QED
  BY <1>2, <1>3 DEF AfterCallback

LEMMA CreateUserAnswerInv ==
  ASSUME Inv, NEW r \in Call, CreateUserAnswer(r)
  PROVE  Inv'
<1>1. req[r].user \in User /\ ~SigningIn(r)
  BY DEF CreateUserAnswer, Inv, RequestsKnown, RequestKnown, SigningIn
<1>2. session' \in [Browser -> [user : Users, orgs : SUBSET Org]] /\ SessionsKnown'
  BY <1>1 DEF CreateUserAnswer, Inv, GatewayTypeOK, SessionsKnown, Users,
              AccountsStay
<1> QED
  BY <1>1, <1>2, AnsweredInv DEF CreateUserAnswer, AccountsStay, Inv, GatewayTypeOK

LEMMA SelectOrgInv ==
  ASSUME Inv, NEW r \in Call, SelectOrg(r)
  PROVE  Inv'
<1>1. req[r].user \in User /\ ~SigningIn(r)
  BY DEF SelectOrg, Inv, RequestsKnown, RequestKnown, SigningIn
<1>2. CASE Fault /\ Crash /\ UNCHANGED <<cookie, told>>
  BY <1>2, CrashInv DEF SelectOrg, accounts
<1>3. CASE ~(Fault /\ Crash /\ UNCHANGED <<cookie, told>>)
  <2>1. req[r].org \in member[req[r].user] => req[r].org \in Orgs
    BY <1>1 DEF Inv, GatewayTypeOK, AccountsTypeOK, Orgs
  <2>2. /\ \E a \in {"ok", "failed"} : Answer(r, a)
        /\ cookie' \in [Browser -> Orgs] /\ NoFault
        /\ Tells(req[r].user, {req[r].org})
        /\ UNCHANGED <<fresh, tokens, lock, proxy>>
    BY <1>3, <2>1 DEF SelectOrg, Inv, GatewayTypeOK
  <2>3. told' \in Tellings
    BY <1>1, <2>2, TellsTyped
  <2> QED
    BY <1>1, <2>2, <2>3, AnsweredInv DEF SelectOrg, Inv, GatewayTypeOK,
       SessionsKnown
<1> QED
  BY <1>2, <1>3

LEMMA RegisterOrgInv ==
  ASSUME Inv, NEW r \in Call, RegisterOrg(r)
  PROVE  Inv'
<1> DEFINE q == [req[r] EXCEPT !.pc = "founding"]
<1>1. /\ req[r].user \in User /\ req[r].org \in Org /\ ~SigningIn(r)
      /\ req[r] \in Requests /\ RequestKnown(req[r])
  BY DEF RegisterOrg, Inv, RequestsKnown, RequestKnown, SigningIn, GatewayTypeOK
<1>2. call' \in [Call -> CallState] /\ CallsKnown'
  BY <1>1, CallBegins DEF RegisterOrg, MemberRoutes, Orgs
<1>3. q \in Requests /\ req' = [req EXCEPT ![r] = q]
  BY <1>1, StepTyped DEF RegisterOrg, Step
<1>4. RequestKnown(q) /\ LockStep(r, q)
  BY <1>1 DEF RequestKnown, LockStep, RegisterOrg, Requests
<1> QED
  BY <1>2, <1>3, <1>4, RequestInv
     DEF RegisterOrg, Inv, GatewayTypeOK, SessionsKnown, StaysInItsOrganizations

LEMMA RegisterOrgAnswerInv ==
  ASSUME Inv, NEW r \in Call, RegisterOrgAnswer(r)
  PROVE  Inv'
<1>1. ~SigningIn(r)
  BY DEF RegisterOrgAnswer, SigningIn
<1> QED
  BY <1>1, CrashInv, AnsweredInv
     DEF RegisterOrgAnswer, AccountsStay, Inv, GatewayTypeOK, SessionsKnown

LEMMA LookupFailsInv ==
  ASSUME Inv, NEW r \in Call, LookupFails(r)
  PROVE  Inv'
BY CrashInv DEF LookupFails, AccountsStay

(* What is known of a request stays so when it moves on. *)
LEMMA MovedKnown ==
  ASSUME Inv, NEW q \in Requests, RequestKnown(q), q.pc # "proxied",
         NEW pc \in {"route", "secret", "argoLogin", "again", "proxied"},
         pc \in {"route", "again"} => q.route \in OrgRoutes,
         pc \in {"secret", "argoLogin"} => q.org \in Org
  PROVE  RequestKnown([q EXCEPT !.pc = pc])
<1> DEFINE p == [q EXCEPT !.pc = pc]
<1>1. /\ p.route = q.route /\ p.user = q.user /\ p.org = q.org
      /\ p.orgs = q.orgs /\ p.about = q.about /\ p.email = q.email
      /\ p.pc = pc
  BY DEF Requests
<1> HIDE DEF p
<1>2. RequestKnown(p)
  BY <1>1 DEF RequestKnown
<1> QED
  BY <1>2 DEF p

LEMMA ResolvedKnown ==
  ASSUME Inv, NEW q \in Requests, RequestKnown(q), q.pc # "proxied",
         NEW o \in Org, NEW pc \in {"lock", "proxied"},
         q.route \in OrgRoutes => o \in granted[q.user]
  PROVE  RequestKnown([q EXCEPT !.pc = pc, !.org = o])
<1> DEFINE p == [q EXCEPT !.pc = pc, !.org = o]
<1>1. /\ p.route = q.route /\ p.user = q.user /\ p.org = o
      /\ p.orgs = q.orgs /\ p.about = q.about /\ p.email = q.email
      /\ p.pc = pc
  BY DEF Requests
<1> HIDE DEF p
<1>2. RequestKnown(p)
  BY <1>1 DEF RequestKnown
<1> QED
  BY <1>2 DEF p

LEMMA AuthRequestLoggerInv ==
  ASSUME Inv, NEW r \in Call, AuthRequestLogger(r)
  PROVE  Inv'
<1>1. CASE LookupFails(r)
  BY <1>1, LookupFailsInv
<1>2. CASE ~LookupFails(r)
  <2> DEFINE q == [req[r] EXCEPT !.pc = "route"]
  <2>1. req[r] \in Requests /\ RequestKnown(req[r]) /\ ~SigningIn(r)
    BY DEF AuthRequestLogger, Inv, RequestsKnown, SigningIn, GatewayTypeOK
  <2>2. q \in Requests /\ req' = [req EXCEPT ![r] = q]
    BY <1>2, <2>1, StepTyped DEF AuthRequestLogger, Step
  <2>3. RequestKnown(q) /\ LockStep(r, q)
    BY <1>2, <2>1 DEF RequestKnown, LockStep, AuthRequestLogger, Requests
  <2> QED
    BY <1>2, <2>2, <2>3, MovedInv
       DEF AuthRequestLogger, AccountsStay, Inv, GatewayTypeOK
<1> QED
  BY <1>1, <1>2

(* The organization of a request is one that its session or the database    *)
(* says its user is in.                                                     *)
LEMMA ResolvedIsGranted ==
  ASSUME Inv, NEW r \in Call, req[r].pc \in {"log", "route", "again"},
         OrgFromReq(r) # NoOrg
  PROVE  /\ OrgFromReq(r) \in granted[req[r].user]
         /\ OrgFromReq(r) \in organization \cap Org
         /\ req[r].user \in User
<1>1. req[r].user \in User /\ req[r].orgs \subseteq granted[req[r].user]
  BY DEF Inv, RequestsKnown, RequestKnown
<1>2. OrgFromReq(r) \in req[r].orgs \cup member[req[r].user]
  BY DEF OrgFromReq
<1> QED
  BY <1>1, <1>2 DEF Inv, Known, GatewayTypeOK, AccountsTypeOK

LEMMA RouteInv ==
  ASSUME Inv, NEW r \in Call, Route(r)
  PROVE  Inv'
<1> DEFINE o == OrgFromReq(r)
<1>1. /\ req[r] \in Requests /\ RequestKnown(req[r]) /\ ~SigningIn(r)
      /\ req[r].route \in OrgRoutes /\ req[r].pc = "route"
  BY DEF Route, Inv, RequestsKnown, RequestKnown, SigningIn, GatewayTypeOK
<1>2. CASE LookupFails(r)
  BY <1>2, LookupFailsInv
<1>3. CASE /\ o = NoOrg /\ NoFault /\ UNCHANGED call
           /\ IF req[r].route = "token" THEN Crash
              ELSE Answer(r, "unauthorized") /\ UNCHANGED <<fresh, tokens, lock, proxy>>
  BY <1>1, <1>3, CrashInv, AnsweredInv
     DEF Route, accounts, Inv, GatewayTypeOK, SessionsKnown
<1>4. CASE /\ o # NoOrg /\ NoFault /\ UNCHANGED <<fresh, tokens, lock>>
           /\ \/ PlainRoute(r, o) \/ ArgoRoute(r, o) \/ HistoryRoute(r, o)
              \/ UsersRoute(r, o) \/ AccessToken(r, o)
  <2>1. /\ o \in granted[req[r].user] /\ o \in organization /\ o \in Org
        /\ req[r].user \in User
    BY <1>1, <1>4, ResolvedIsGranted
  <2> HIDE DEF o
  <2>2. sent' \in 0..MaxRequests
    BY DEF Route, Inv, GatewayTypeOK
  <2>3. CASE PlainRoute(r, o) \/ ArgoRoute(r, o) \/ AccessToken(r, o)
    <3>1. PICK pc \in {"lock", "proxied"} :
             /\ req' = [req EXCEPT ![r] = [req[r] EXCEPT !.pc = pc, !.org = o]]
             /\ UNCHANGED <<call, proxy>>
      BY <2>3 DEF PlainRoute, ArgoRoute, AccessToken
    <3> DEFINE q == [req[r] EXCEPT !.pc = pc, !.org = o]
    <3>2. q \in Requests
      BY <1>1, <2>1, ResolvedTyped
    <3>3. RequestKnown(q)
      BY <1>1, <2>1, ResolvedKnown
    <3>4. LockStep(r, q)
      BY <1>1, <1>4 DEF LockStep, Requests
    <3> QED
      BY <1>4, <2>2, <3>1, <3>2, <3>3, <3>4, MovedInv DEF Route, accounts
  <2>4. CASE HistoryRoute(r, o)
    <3> DEFINE email == IF proxy[o] = "none" THEN req[r].user ELSE proxy[o]
               q == [req[r] EXCEPT !.pc = "proxied", !.org = o, !.email = email]
    <3>1. email \in User /\ o \in granted[email]
      BY <2>1 DEF Inv, GatewayTypeOK, Users, StaysInItsOrganizations
    <3>2. q \in Requests
      BY <1>1, <2>1, <3>1, ResolvedTyped
    <3>3. req' = [req EXCEPT ![r] = q] /\ proxy' = [proxy EXCEPT ![o] = email]
      BY <2>4 DEF HistoryRoute
    <3>4. RequestKnown(q) /\ LockStep(r, q)
      BY <1>1, <1>4, <2>1, <3>1 DEF RequestKnown, LockStep, Requests
    <3>5. /\ proxy' \in [Org -> Users]
          /\ \A p \in Org : proxy'[p] # "none" => p \in granted[proxy'[p]]
      BY <2>1, <3>1, <3>3 DEF Inv, GatewayTypeOK, Users, StaysInItsOrganizations
    <3>6. CallsKnown' /\ call' \in [Call -> CallState] /\ SessionsKnown'
      BY <2>4 DEF HistoryRoute, Route, Inv, CallsKnown, SessionsKnown,
                  GatewayTypeOK, AccountsTypeOK
    <3> QED
      BY <1>4, <2>2, <3>2, <3>3, <3>4, <3>5, <3>6, RequestInv
         DEF Route, Inv, GatewayTypeOK
  <2>5. CASE UsersRoute(r, o)
    <3> DEFINE q == [req[r] EXCEPT !.pc = "proxied", !.org = o]
    <3>1. q \in Requests /\ req' = [req EXCEPT ![r] = q]
      BY <1>1, <2>1, <2>5, ResolvedTyped DEF UsersRoute
    <3>2. RequestKnown(q) /\ LockStep(r, q)
      BY <1>1, <1>4, <2>1, ResolvedKnown DEF LockStep, Requests
    <3>3. CallsKnown' /\ call' \in [Call -> CallState]
      <4>1. req[r].about \in User /\ req[r].route \in {"add", "remove"}
        BY <1>1, <2>5 DEF UsersRoute, RequestKnown, MemberRoutes
      <4> QED
        BY <2>1, <2>5, <4>1, CallBegins DEF UsersRoute, Route, Orgs
    <3> QED
      BY <1>4, <2>2, <2>5, <3>1, <3>2, <3>3, RequestInv
         DEF UsersRoute, Route, Inv, GatewayTypeOK, SessionsKnown,
             StaysInItsOrganizations
  <2> QED
    BY <1>4, <2>3, <2>4, <2>5
<1> QED
  BY <1>2, <1>3, <1>4 DEF Route

LEMMA CdRouteInv ==
  ASSUME Inv, NEW r \in Call, CdRoute(r)
  PROVE  Inv'
<1> DEFINE q == [req[r] EXCEPT !.pc = "proxied"]
<1>1. req[r] \in Requests /\ RequestKnown(req[r]) /\ ~SigningIn(r)
  BY DEF CdRoute, Inv, RequestsKnown, SigningIn, GatewayTypeOK
<1>2. q \in Requests /\ RequestKnown(q) /\ q.pc = "proxied"
  BY <1>1, StepTyped, MovedKnown DEF CdRoute
<1>3. CASE LookupFails(r)
  BY <1>3, LookupFailsInv
<1>4. CASE ~LookupFails(r) /\ Answer(r, "unauthorized")
  BY <1>1, <1>4, AnsweredInv DEF CdRoute, AccountsStay, Inv, GatewayTypeOK,
     SessionsKnown
<1>5. CASE ~LookupFails(r) /\ Step(r, "proxied")
  <2>1. LockStep(r, q)
    BY <1>1, <1>2, <1>5 DEF LockStep, CdRoute
  <2> QED
    BY <1>2, <1>5, <2>1, MovedInv DEF CdRoute, Step, AccountsStay, Inv,
       GatewayTypeOK
<1> QED
  BY <1>3, <1>4, <1>5 DEF CdRoute

LEMMA ProxyAnswers ==
  ASSUME NEW r \in Call, ProxyResponse(r)
  PROVE  \E a \in {"ok", "unauthorized", "failed"} :
            /\ Answer(r, a)
            /\ a = "unauthorized" => ServiceRefuses(r)
<1>1. req[r].pc = "proxied"
  BY DEF ProxyResponse
<1>2. ASSUME NEW a \in ServiceAnswers(r) \cup ServiceErrors(r)
      PROVE  /\ OnProxyRes(r, a) \in {"ok", "unauthorized", "failed"}
             /\ OnProxyRes(r, a) = "unauthorized" => req[r].route = "plain"
  BY DEF ServiceAnswers, ServiceErrors, OnProxyRes
<1>3. CASE Answer(r, "ok")
  BY <1>3
<1>4. CASE \E a \in ServiceAnswers(r) \cup ServiceErrors(r) :
              Answer(r, OnProxyRes(r, a))
  BY <1>1, <1>2, <1>4 DEF ServiceRefuses
<1> QED
  BY <1>3, <1>4 DEF ProxyResponse

LEMMA ProxyResponseInv ==
  ASSUME Inv, NEW r \in Call, ProxyResponse(r)
  PROVE  Inv'
<1>1. /\ ~SigningIn(r)
      /\ \E a \in {"ok", "unauthorized", "failed"} : Answer(r, a)
  BY ProxyAnswers DEF ProxyResponse, SigningIn
<1> QED
  BY <1>1, AnsweredInv DEF ProxyResponse, AccountsStay, Inv, GatewayTypeOK,
     SessionsKnown

-----------------------------------------------------------------------------
(* The session with ArgoCD. *)
LEMMA SignInInv ==
  ASSUME Inv, NEW r \in Call,
         GetArgoToken(r) \/ GetSystemSSMSecret(r) \/ ArgoCdLogin(r)
  PROVE  Inv'
<1>1. /\ req[r] \in Requests /\ RequestKnown(req[r])
      /\ req[r].pc \in {"lock", "secret", "argoLogin"} /\ req[r].org \in Org
      /\ UNCHANGED <<accounts, granted, session, cookie, proxy, sent>>
      /\ sent' \in 0..MaxRequests /\ fresh \subseteq Org /\ tokens \subseteq Org
      /\ Fault \/ NoFault
  BY DEF GetArgoToken, GetSystemSSMSecret, ArgoCdLogin, AccountsStay, Inv,
         RequestsKnown, RequestKnown, GatewayTypeOK
<1>0. OldToken(r) \in BOOLEAN
  BY DEF OldToken
<1>2. CASE GetArgoToken(r)
  <2>1. CASE WithToken(r, OldToken(r)) /\ UNCHANGED lock
    BY <1>0, <1>1, <1>2, <2>1, TokenInv DEF GetArgoToken, SigningIn
  <2>2. CASE req[r].org \notin fresh /\ Step(r, "secret") /\ lock' = r
    <3> DEFINE q == [req[r] EXCEPT !.pc = "secret"]
    <3>1. q \in Requests /\ req' = [req EXCEPT ![r] = q]
      BY <1>1, <2>2, StepTyped DEF Step
    <3>2. RequestKnown(q) /\ LockStep(r, q)
      BY <1>1, <1>2, <2>2 DEF RequestKnown, LockStep, GetArgoToken, Requests
    <3> QED
      BY <1>1, <3>1, <3>2, MovedInv
  <2> QED
    BY <1>2, <2>1, <2>2 DEF GetArgoToken
<1>3. CASE GetSystemSSMSecret(r)
  <2>1. CASE WithToken(r, OldToken(r)) /\ lock' = "free"
    BY <1>0, <1>1, <1>3, <2>1, TokenInv DEF GetSystemSSMSecret, SigningIn
  <2>2. CASE Step(r, "argoLogin") /\ UNCHANGED lock
    <3> DEFINE q == [req[r] EXCEPT !.pc = "argoLogin"]
    <3>1. q \in Requests /\ req' = [req EXCEPT ![r] = q]
      BY <1>1, <2>2, StepTyped DEF Step
    <3>2. RequestKnown(q) /\ LockStep(r, q)
      BY <1>1, <1>3, <2>2
         DEF RequestKnown, LockStep, GetSystemSSMSecret, Requests, SigningIn
    <3> QED
      BY <1>1, <3>1, <3>2, MovedInv
  <2> QED
    BY <1>3, <2>1, <2>2 DEF GetSystemSSMSecret
<1>4. CASE ArgoCdLogin(r)
  <2>1. PICK token \in BOOLEAN : WithToken(r, token)
    BY <1>4 DEF ArgoCdLogin
  <2>2. /\ SigningIn(r) /\ lock' = "free"
        /\ fresh' \subseteq Org /\ tokens' \subseteq Org
    BY <1>1, <1>4 DEF ArgoCdLogin, SigningIn
  <2> QED
    BY <1>1, <2>1, <2>2, TokenInv
<1> QED
  BY <1>2, <1>3, <1>4

LEMMA WebhookInv ==
  ASSUME Inv, NEW r \in Call, Webhook(r) \/ WebhookSync(r)
  PROVE  Inv'
<1>1. req[r] \in Requests /\ RequestKnown(req[r]) /\ ~SigningIn(r)
  BY DEF Inv, GatewayTypeOK, RequestsKnown, SigningIn, Webhook, WebhookSync,
         InFlight
<1>2. CASE Webhook(r)
  <2> DEFINE q == [NoRequest EXCEPT !.pc = "hook", !.route = "webhook"]
  <2>1. q \in Requests
    BY DEF NoRequest, Requests, Users, Orgs, NoOrg
  <2>2. RequestKnown(q) /\ LockStep(r, q)
    BY <1>1, <1>2 DEF RequestKnown, LockStep, NoRequest, OrgRoutes, ArgoRoutes,
                      MemberRoutes, Webhook
  <2>3. sent' \in 0..MaxRequests
    BY <1>2, GatewayAssumption DEF Webhook, Inv, GatewayTypeOK
  <2> QED
    BY <1>2, <2>1, <2>2, <2>3, MovedInv DEF Webhook, AccountsStay, NoFault
<1>3. CASE WebhookSync(r)
  <2>1. CASE \E a \in {"ok", "failed"} : Answer(r, a)
    BY <1>1, <1>3, <2>1, AnsweredInv DEF WebhookSync, AccountsStay, Inv,
       GatewayTypeOK, SessionsKnown
  <2>2. CASE \E o \in organization :
               req' = [req EXCEPT ![r].pc = "lock", ![r].org = o]
    <3>1. PICK o \in organization :
             req' = [req EXCEPT ![r] = [req[r] EXCEPT !.pc = "lock", !.org = o]]
      BY <2>2
    <3> DEFINE q == [req[r] EXCEPT !.pc = "lock", !.org = o]
    <3>2. o \in Org
      BY DEF Inv, GatewayTypeOK, AccountsTypeOK
    <3>3. q \in Requests
      BY <1>1, <3>2, ResolvedTyped
    <3>4. RequestKnown(q) /\ LockStep(r, q)
      <4>1. req[r].pc = "hook" /\ req[r].route \notin OrgRoutes
        BY <1>1, <1>3 DEF WebhookSync, RequestKnown, OrgRoutes, ArgoRoutes,
                          MemberRoutes
      <4>2. RequestKnown(q)
        BY <1>1, <3>2, <4>1, ResolvedKnown
      <4> QED
        BY <1>1, <1>3, <4>2 DEF LockStep, WebhookSync, Requests
    <3> QED
      BY <1>3, <3>1, <3>3, <3>4, MovedInv DEF WebhookSync, AccountsStay, Inv,
         GatewayTypeOK
  <2> QED
    BY <1>3, <2>1, <2>2 DEF WebhookSync
<1> QED
  BY <1>2, <1>3

LEMMA ExpireInv ==
  ASSUME Inv, NEW o \in Org, Expire(o)
  PROVE  Inv'
<1>1. /\ UNCHANGED <<accounts, granted, faults, session, cookie, req, tokens,
                      lock, proxy, sent>>
      /\ fresh' \subseteq fresh
  BY DEF Expire, AccountsStay
<1> QED
  BY <1>1 DEF Inv, GatewayTypeOK, AccountsTypeOK, Known, CallsKnown,
     SessionsKnown, RequestsKnown, RequestKnown, StaysInItsOrganizations,
     LockHasOwner, LoginIsNeeded, SigningIn, accounts

LEMMA NextInv == Inv /\ [Next]_vars => Inv'
<1> SUFFICES ASSUME Inv, [Next]_vars PROVE Inv'
  OBVIOUS
<1>1. ASSUME NEW r \in Call, NEW b \in Browser, NEW route \in Routes,
             NEW u \in User, NEW o \in Org, Receive(r, b, route, u, o)
      PROVE  Inv'
  BY <1>1, ReceiveInv
<1>2. ASSUME NEW r \in Call, GatewayStep(r) PROVE Inv'
  <2>1. CASE AfterCallback(r) \/ CreateUserAnswer(r) \/ SelectOrg(r)
    BY <2>1, AfterCallbackInv, CreateUserAnswerInv, SelectOrgInv
  <2>2. CASE RegisterOrg(r) \/ RegisterOrgAnswer(r) \/ AuthRequestLogger(r)
    BY <2>2, RegisterOrgInv, RegisterOrgAnswerInv, AuthRequestLoggerInv
  <2>3. CASE Route(r) \/ CdRoute(r) \/ ProxyResponse(r)
    BY <2>3, RouteInv, CdRouteInv, ProxyResponseInv
  <2>4. CASE GetArgoToken(r) \/ GetSystemSSMSecret(r) \/ ArgoCdLogin(r)
    BY <2>4, SignInInv
  <2>5. CASE WebhookSync(r)
    BY <2>5, WebhookInv
  <2> QED
    BY <1>2, <2>1, <2>2, <2>3, <2>4, <2>5 DEF GatewayStep
<1>3. ASSUME NEW r \in Call, Webhook(r) PROVE Inv'
  BY <1>3, WebhookInv
<1>4. ASSUME NEW r \in Call, API(r) PROVE Inv'
  BY <1>4, APIInv
<1>5. ASSUME NEW o \in Org, Expire(o) PROVE Inv'
  BY <1>5, ExpireInv
<1>6. CASE UNCHANGED vars
  BY <1>6 DEF vars, bff, accounts, Inv, GatewayTypeOK, AccountsTypeOK, Known,
     CallsKnown, SessionsKnown, RequestsKnown, RequestKnown,
     StaysInItsOrganizations, LockHasOwner, LoginIsNeeded, SigningIn
<1> QED
  BY <1>1, <1>2, <1>3, <1>4, <1>5, <1>6 DEF Next

THEOREM GatewayInvariant == Spec => []Inv
BY InitInv, NextInv, PTL DEF Spec

-----------------------------------------------------------------------------
(* Every variable of the BFF and of the API's accounts keeps its type. *)
THEOREM GatewayTypeCorrect == Spec => []GatewayTypeOK
<1>1. Inv => GatewayTypeOK
  BY DEF Inv
<1> QED
  BY <1>1, GatewayInvariant, PTL

(* No copy of a membership, in a session, a cookie or a cached proxy, takes *)
(* a request to an organization that its user was never in.                 *)
THEOREM RequestsStayInTheirOrganizations == Spec => []StaysInItsOrganizations
<1>1. Inv => StaysInItsOrganizations
  BY DEF Inv
<1> QED
  BY <1>1, GatewayInvariant, PTL

(* The memberships stay within the tables of users and organizations. *)
THEOREM MembershipsExist == Spec => []MembersExist
<1>1. Inv => MembersExist
  <2> SUFFICES ASSUME Inv, NEW u \in User
               PROVE  /\ member[u] \subseteq organization
                      /\ member[u] # {} => u \in registered
    BY DEF MembersExist
  <2>1. member[u] # {} => granted[u] # {}
    BY DEF Inv, Known
  <2> QED
    BY <2>1 DEF Inv, Known
<1> QED
  BY <1>1, GatewayInvariant, PTL

(* The lock of argo.ts is never left behind, and never set twice. *)
THEOREM LockAlwaysHasOwner == Spec => []LockHasOwner
<1>1. Inv => LockHasOwner
  BY DEF Inv
<1> QED
  BY <1>1, GatewayInvariant, PTL

(* A request that waited for another's sign-in uses that one's session. *)
THEOREM LoginOnlyWhenNeeded == Spec => []LoginIsNeeded
<1>1. Inv => LoginIsNeeded
  BY DEF Inv
<1> QED
  BY <1>1, GatewayInvariant, PTL

LEMMA AnswersStayTrue == Inv /\ AnswersHold /\ [Next]_vars => AnswersHold'
<1> SUFFICES ASSUME Inv, AnswersHold, [Next]_vars PROVE AnswersHold'
  OBVIOUS
<1>1. CASE UNCHANGED <<member, told>>
  BY <1>1 DEF AnswersHold
<1>2. CASE \E k \in Call : InsertUser(k) /\ ~UNCHANGED <<member, told>>
  <2>1. PICK k \in Call : InsertUser(k) /\ ~UNCHANGED <<member, told>>
    BY <1>2
  <2> DEFINE u == call[k].user
             orgs == IF call[k].op = "add" THEN {call[k].org} ELSE {}
  <2>2. /\ u \notin registered
        /\ member' = [member EXCEPT ![u] = orgs]
        /\ told' = [told EXCEPT ![u] =
             [o \in Org |-> IF o \in orgs THEN "in" ELSE told[u][o]]]
    BY <2>1 DEF InsertUser
  <2>3. u \in User /\ member[u] = {}
    <3>1. u \in User
      BY <2>1 DEF Inv, CallsKnown, InsertUser
    <3>2. member[u] # {} => granted[u] # {}
      BY <3>1 DEF Inv, Known
    <3> QED
      BY <2>2, <3>1, <3>2 DEF Inv, Known
  <2>4. /\ member \in [User -> SUBSET Org]
        /\ told \in [User -> [Org -> {"unknown", "in", "out"}]]
    BY DEF Inv, GatewayTypeOK, AccountsTypeOK
  <2> QED
    BY <2>2, <2>3, <2>4 DEF AnswersHold
<1>3. CASE \E k \in Call : SaveUser(k)
  <2>1. PICK k \in Call : SaveUser(k)
    BY <1>3
  <2> DEFINE u == call[k].user
  <2>2. /\ member' = [member EXCEPT ![u] = Change(k)]
        /\ told' = [told EXCEPT ![u] =
             [o \in Org |-> IF o = call[k].org
                            THEN IF call[k].op = "remove" THEN "out" ELSE "in"
                            ELSE IF call[k].read # member[u] THEN "unknown"
                            ELSE told[u][o]]]
    BY <2>1 DEF SaveUser
  <2>3. u \in User
    BY <2>1 DEF SaveUser, Inv, CallsKnown
  <2>4. /\ member \in [User -> SUBSET Org]
        /\ told \in [User -> [Org -> {"unknown", "in", "out"}]]
    BY DEF Inv, GatewayTypeOK, AccountsTypeOK
  <2>5. ASSUME NEW v \in User, NEW o \in Org
        PROVE  /\ told'[v][o] = "in" => o \in member'[v]
               /\ told'[v][o] = "out" => o \notin member'[v]
    <3>1. CASE v # u
      BY <2>2, <2>4, <3>1 DEF AnswersHold
    <3>2. CASE v = u /\ o = call[k].org
      BY <2>2, <2>3, <2>4, <3>2 DEF Change
    <3>3. CASE v = u /\ o # call[k].org
      BY <2>2, <2>3, <2>4, <3>3 DEF Change, AnswersHold
    <3> QED
      BY <3>1, <3>2, <3>3
  <2> QED
    BY <2>5 DEF AnswersHold
<1>4. CASE \E k \in Call : API(k)
  BY <1>1, <1>2, <1>3, <1>4
     DEF API, Handle, Fail, CreateUser, CreateOrgUser, DeleteUser, CreateOrg,
         SaveOrganization
<1>5. CASE \E r \in Call : AfterCallback(r) \/ SelectOrg(r)
  <2>1. PICK r \in Call : AfterCallback(r) \/ SelectOrg(r)
    BY <1>5
  <2>2. req[r].user \in User /\ UNCHANGED member
    BY <2>1 DEF AfterCallback, SelectOrg, Inv, RequestsKnown, RequestKnown
  <2>3. \/ UNCHANGED told
        \/ Tells(req[r].user, Org) \/ Tells(req[r].user, {req[r].org})
    BY <2>1 DEF AfterCallback, SelectOrg
  <2>4. told \in [User -> [Org -> {"unknown", "in", "out"}]]
    BY DEF Inv, GatewayTypeOK, AccountsTypeOK
  <2>5. ASSUME NEW orgs, Tells(req[r].user, orgs) PROVE AnswersHold'
    BY <2>2, <2>4, <2>5 DEF Tells, AnswersHold
  <2> QED
    BY <1>1, <2>2, <2>3, <2>5
<1>6. CASE ~\E k \in Call : API(k) \/ AfterCallback(k) \/ SelectOrg(k)
  <2>1. UNCHANGED <<member, told>>
    BY <1>6 DEF Next, vars, GatewayStep, Receive, Webhook, Expire, AccountsStay,
       CreateUserAnswer, RegisterOrg, RegisterOrgAnswer, AuthRequestLogger,
       LookupFails, Route, CdRoute, ProxyResponse, GetArgoToken,
       GetSystemSSMSecret, ArgoCdLogin, WebhookSync, accounts
  <2> QED
    BY <1>1, <2>1
<1> QED
  BY <1>4, <1>5, <1>6

(* What the API answered about a membership stays true until it is changed  *)
(* by another request or by a save of an older copy of the user.            *)
THEOREM AnswersAlwaysHold == Spec => []AnswersHold
<1>1. GatewayInit => AnswersHold
  BY DEF GatewayInit, AnswersHold
<1> QED
  BY <1>1, AnswersStayTrue, GatewayInvariant, PTL DEF Spec

(* Who has been told to be in the selected organization is a member of it,  *)
(* and a member's request is resolved; so nobody who may use the            *)
(* organization is sent to sign in again, but by Argo Workflows.            *)
THEOREM ReauthOnlyWhenNotMember == Spec => ReauthOnlyWithoutOrganization
<1> DEFINE Outside(q) ==
             \/ q.selected = NoOrg
             \/ q.selected \notin q.orgs /\ told[q.user][q.selected] # "in"
           Reauth == \A r \in Call :
             LET q == req[r] IN
             req'[r].answer = "unauthorized" /\ q.answer # "unauthorized" =>
               \/ q.selected = NoOrg
               \/ q.selected \notin q.orgs /\ told[q.user][q.selected] # "in"
               \/ ServiceRefuses(r)
<1>1. Inv /\ AnswersHold /\ [Next]_vars => [Reauth]_vars
  <2> SUFFICES ASSUME Inv, AnswersHold, Next, NEW r \in Call,
                      req'[r].answer = "unauthorized",
                      req[r].answer # "unauthorized"
               PROVE  Outside(req[r]) \/ ServiceRefuses(r)
    OBVIOUS
  <2>1. req \in [Call -> Requests]
    BY DEF Inv, GatewayTypeOK
  <2>2. Ends("failed").answer = "failed" /\ Ends("ok").answer = "ok"
    BY DEF Ends, NoRequest
  <2>3. ~Crash
    BY <2>1, <2>2 DEF Crash
  <2>4. req' # req
    OBVIOUS
  <2>5. CASE \E q \in Call, b \in Browser, route \in Routes, u \in User,
               o \in Org : Receive(q, b, route, u, o)
    BY <2>1, <2>2, <2>5 DEF Receive, NoRequest
  <2>6. CASE \E q \in Call : Webhook(q)
    BY <2>1, <2>6 DEF Webhook, NoRequest
  <2>7. CASE \E q \in Call : API(q) \/ \E o \in Org : Expire(o)
    BY <2>4, <2>7 DEF API, bff, Expire
  <2>8. CASE \E q \in Call : GatewayStep(q)
    <3>1. PICK q \in Call : GatewayStep(q)
      BY <2>8
    <3> DEFINE Kept(p) == p.answer = req[q].answer
    <3>2. ASSUME NEW p, req' = [req EXCEPT ![q] = p], Kept(p) PROVE FALSE
      BY <2>1, <3>2
    <3>3. ASSUME NEW a, Answer(q, a) PROVE a = "unauthorized" /\ q = r
      <4>1. Ends(a).answer = a
        BY DEF Ends, NoRequest
      <4> QED
        BY <2>1, <3>3, <4>1 DEF Answer
    <3>4. req[q] \in Requests
      BY <2>1
    <3>5. ASSUME NEW pc, Step(q, pc) PROVE FALSE
      <4>1. Kept([req[q] EXCEPT !.pc = pc])
        BY <3>4 DEF Requests
      <4> QED
        BY <3>2, <3>5, <4>1 DEF Step
    <3>6. ASSUME NEW o, NEW pc, req' = [req EXCEPT ![q].pc = pc, ![q].org = o]
          PROVE  FALSE
      <4>1. Kept([req[q] EXCEPT !.pc = pc, !.org = o])
        BY <3>4 DEF Requests
      <4> QED
        BY <2>1, <3>4, <3>6, <4>1 DEF Requests
    <3>7. ASSUME NEW token, WithToken(q, token) PROVE FALSE
      <4> DEFINE pc == IF req[q].route = "cd" THEN "again" ELSE "proxied"
      <4>1. req' = [req EXCEPT ![q] = [req[q] EXCEPT !.pc = pc, !.token = token]]
        BY <3>7 DEF WithToken
      <4> HIDE DEF pc
      <4>2. Kept([req[q] EXCEPT !.pc = pc, !.token = token])
        BY <3>4 DEF Requests
      <4> QED
        BY <3>2, <4>1, <4>2
    <3>8. ASSUME OrgFromReq(q) = NoOrg, req[q].pc \in {"route", "again"}
          PROVE  Outside(req[q])
      <4>1. req[q].user \in User
        BY <3>8 DEF Inv, RequestsKnown, RequestKnown
      <4>2. req[q].selected = NoOrg \/ req[q].selected \in Org
        BY <3>4 DEF Requests, Orgs
      <4>3. req[q].selected = NoOrg
              \/ req[q].selected \notin req[q].orgs \cup member[req[q].user]
        BY <3>8 DEF OrgFromReq
      <4> QED
        BY <4>1, <4>2, <4>3 DEF AnswersHold
    <3>9. CASE AfterCallback(q) \/ CreateUserAnswer(q) \/ SelectOrg(q)
      BY <2>3, <3>3, <3>5, <3>9 DEF AfterCallback, CreateUserAnswer, SelectOrg
    <3>10. CASE RegisterOrg(q) \/ RegisterOrgAnswer(q) \/ AuthRequestLogger(q)
      BY <2>3, <3>3, <3>5, <3>10
         DEF RegisterOrg, RegisterOrgAnswer, AuthRequestLogger, LookupFails
    <3>11. CASE WebhookSync(q)
      BY <3>3, <3>6, <3>11 DEF WebhookSync
    <3>12. CASE ProxyResponse(q)
      <4>1. PICK a \in {"ok", "unauthorized", "failed"} :
               Answer(q, a) /\ (a = "unauthorized" => ServiceRefuses(q))
        BY <3>12, ProxyAnswers
      <4> QED
        BY <3>3, <4>1
    <3>13. CASE GetArgoToken(q) \/ GetSystemSSMSecret(q) \/ ArgoCdLogin(q)
      BY <3>5, <3>7, <3>13 DEF GetArgoToken, GetSystemSSMSecret, ArgoCdLogin
    <3>14. CASE Route(q)
      <4>1. CASE OrgFromReq(q) = NoOrg /\ Answer(q, "unauthorized")
        BY <3>3, <3>8, <3>14, <4>1 DEF Route
      <4>2. CASE HistoryRoute(q, OrgFromReq(q))
        BY <2>1, <3>4, <4>2 DEF HistoryRoute, Requests
      <4>3. CASE ~HistoryRoute(q, OrgFromReq(q))
                 /\ ~(OrgFromReq(q) = NoOrg /\ Answer(q, "unauthorized"))
        BY <2>3, <3>6, <3>14, <4>3
           DEF Route, PlainRoute, ArgoRoute, UsersRoute, AccessToken, LookupFails
      <4> QED
        BY <4>1, <4>2, <4>3
    <3>15. CASE CdRoute(q)
      BY <2>3, <3>3, <3>5, <3>8, <3>15 DEF CdRoute, LookupFails
    <3> QED
      BY <3>1, <3>9, <3>10, <3>11, <3>12, <3>13, <3>14, <3>15 DEF GatewayStep
  <2> QED
    BY <2>5, <2>6, <2>7, <2>8 DEF Next
<1> QED
  BY <1>1, GatewayInvariant, AnswersAlwaysHold, PTL
     DEF Spec, ReauthOnlyWithoutOrganization
=============================================================================
