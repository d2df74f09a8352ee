------------------------------ MODULE Accounts ------------------------------
(***************************************************************************)
(* The API's users and organizations. A user's memberships are one         *)
(* relation, user.organizations, which every request that changes it reads *)
(* as a whole, changes in memory and saves as a whole: TypeORM makes the   *)
(* join table what the saved object has. Nothing locks the user in between,*)
(* so of two requests for one user the second to be saved undoes what the  *)
(* first did, unless it has read the user after it.                        *)
(*                                                                         *)
(* An organization is made in two saves, the organization and then the     *)
(* membership of the user who agreed to its terms, with no transaction     *)
(* around them.                                                            *)
(***************************************************************************)
CONSTANTS
  User,      \* usernames, unique in the table
  Org,       \* names of organizations, unique in the table
  Call       \* requests that the API handles at one time

ASSUME AccountsAssumption ==
  /\ "none" \notin User /\ "none" \notin Org /\ "free" \notin Call

VARIABLES
  registered,    \* the users table
  organization,  \* the organization table
  member,        \* member[u]: user.organizations
  call,          \* call[k]: a request in the API
  told           \* told[u][o]: what the API last answered about u's membership

accounts == <<registered, organization, member, call, told>>

CallState ==
  [op   : {"none", "create", "add", "remove", "found"},
   pc   : {"idle", "sent", "insert", "save", "saveOrg", "done", "refused"},
   user : User \cup {"none"},
   org  : Org \cup {"none"},
   read : SUBSET Org]

Idle == [op |-> "none", pc |-> "idle", user |-> "none", org |-> "none",
         read |-> {}]

AccountsTypeOK ==
  /\ registered \subseteq User
  /\ organization \subseteq Org
  /\ member \in [User -> SUBSET Org]
  /\ call \in [Call -> CallState]
  /\ told \in [User -> [Org -> {"unknown", "in", "out"}]]

Ended(k) == call[k].pc \in {"done", "refused"}
Free(k) == call[k].pc = "idle" \/ Ended(k)
Goto(k, pc) == call' = [call EXCEPT ![k].pc = pc]
End(k, how) == call' = [call EXCEPT ![k] = [Idle EXCEPT !.pc = how]]

(* A request as it reaches the API. The middleware of the routes under an   *)
(* organization refuses one that does not exist; organizations never go.    *)
Sent(op, u, o) ==
  [op |-> op, pc |-> "sent", user |-> u, org |-> o, read |-> {}]

-----------------------------------------------------------------------------
(* The handlers: a step up to and including each access to the database. *)

Keep(k, pc) ==
  call' = [call EXCEPT ![k].pc = pc, ![k].read = member[call[k].user]]

(* UsersService.create *)
CreateUser(k) ==
  /\ call[k].op = "create" /\ call[k].pc = "sent"
  /\ IF call[k].user \in registered THEN End(k, "refused")
     ELSE Goto(k, "insert")
  /\ UNCHANGED <<registered, organization, member, told>>

(* AuthService.createOrgUser *)
CreateOrgUser(k) ==
  /\ call[k].op = "add" /\ call[k].pc = "sent"
  /\ IF call[k].user \notin registered THEN Goto(k, "insert")
     ELSE IF call[k].org \in member[call[k].user] THEN End(k, "refused")
     ELSE Keep(k, "save")
  /\ UNCHANGED <<registered, organization, member, told>>

(* AuthService.deleteUser *)
DeleteUser(k) ==
  /\ call[k].op = "remove" /\ call[k].pc = "sent"
  /\ IF call[k].user \in registered THEN Keep(k, "save")
     ELSE End(k, "refused")
  /\ UNCHANGED <<registered, organization, member, told>>

\* Mutant: the membership is saved and the organization is left for later.
CreateOrgMemberFirst(k) ==
  /\ call[k].op = "found" /\ call[k].pc = "sent"
  /\ IF call[k].user \in registered THEN Keep(k, "save")
     ELSE End(k, "refused")
  /\ UNCHANGED <<registered, organization, member, told>>

(* OrganizationService.create, up to the user it is made for *)
CreateOrg(k) ==
  /\ call[k].op = "found" /\ call[k].pc = "sent"
  /\ IF call[k].user \in registered THEN Keep(k, "saveOrg")
     ELSE End(k, "refused")
  /\ UNCHANGED <<registered, organization, member, told>>

(* The save of a user who was not in the table when the handler looked: the *)
(* index on the username refuses it when another request was faster.        *)
InsertUser(k) ==
  LET u == call[k].user
      orgs == IF call[k].op = "add" THEN {call[k].org} ELSE {}
  IN
  /\ call[k].pc = "insert"
  /\ IF u \in registered
     THEN End(k, "refused") /\ UNCHANGED <<registered, member, told>>
     ELSE /\ registered' = registered \cup {u}
          /\ member' = [member EXCEPT ![u] = orgs]
          /\ told' = [told EXCEPT ![u] =
               [o \in Org |-> IF o \in orgs THEN "in" ELSE told[u][o]]]
          /\ End(k, "done")
  /\ UNCHANGED organization

(* The index on the name refuses a second organization of that name. *)
SaveOrganization(k) ==
  /\ call[k].pc = "saveOrg"
  /\ IF call[k].org \in organization
     THEN End(k, "refused") /\ UNCHANGED organization
     ELSE Goto(k, "save") /\ organization' = organization \cup {call[k].org}
  /\ UNCHANGED <<registered, member, told>>

\* Mutant: the user who makes an organization leaves the others.
ChangeOnlyNew(k) ==
  IF call[k].op = "remove" THEN call[k].read \ {call[k].org}
  ELSE {call[k].org}

Change(k) ==
  IF call[k].op = "remove" THEN call[k].read \ {call[k].org}
  ELSE call[k].read \cup {call[k].org}

(* The save of the user: what it does to memberships that others changed    *)
(* since it was read is anybody's guess, so no answer about them holds.     *)
SaveUser(k) ==
  LET u == call[k].user
      stale == call[k].read # member[u]
  IN
  /\ call[k].pc = "save"
  /\ member' = [member EXCEPT ![u] = Change(k)]
  /\ told' = [told EXCEPT ![u] =
       [o \in Org |-> IF o = call[k].org
                      THEN IF call[k].op = "remove" THEN "out" ELSE "in"
                      ELSE IF stale THEN "unknown" ELSE told[u][o]]]
  /\ End(k, "done")
  /\ UNCHANGED <<registered, organization>>

(* An access fails and the request with it: what was saved stays. *)
Fail(k) ==
  /\ call[k].pc \in {"sent", "insert", "save", "saveOrg"}
  /\ End(k, "refused")
  /\ UNCHANGED <<registered, organization, member, told>>

Handle(k) ==
  \/ CreateUser(k) \/ CreateOrgUser(k) \/ DeleteUser(k) \/ CreateOrg(k)
  \/ InsertUser(k) \/ SaveOrganization(k) \/ SaveUser(k)

-----------------------------------------------------------------------------
(* A membership that the API has answered about is as it answered, until    *)
(* another request changes it or is saved over it from an older copy of the *)
(* user: adding someone to one organization, making one and removing them   *)
(* from a third do not disturb each other otherwise.                        *)
AnswersHold ==
  \A u \in User, o \in Org :
     /\ told[u][o] = "in" => o \in member[u]
     /\ told[u][o] = "out" => o \notin member[u]

(* Nobody is a member of an organization that is not in the table, and only *)
(* a registered user is a member, although the tables are written by        *)
(* several requests in several steps, each of which may be the last one.    *)
MembersExist ==
  \A u \in User :
     /\ member[u] \subseteq organization
     /\ member[u] # {} => u \in registered
=============================================================================
