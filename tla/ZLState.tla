------------------------------- MODULE ZLState -------------------------------
(***************************************************************************)
(* The state manager's zLstate of one environment: one JSON object in S3   *)
(* with the status of every component. Every change reads the object,      *)
(* changes it and writes it back without a condition, and the requests of  *)
(* the operator and of the scripts of the components run at the same time. *)
(***************************************************************************)
CONSTANT Component

VARIABLES
  object,    \* the object in the bucket
  requests,  \* the request of each client that has read and not written
  told       \* the status that each component should have: see Write

\* A script of each component, the operator, and a request that the operator
\* no longer waits for.
Client == Component \cup {"operator", "late"}
Status == {"absent", "not_provisioned", "provisioned", "destroyed"}
Statuses == [Component -> Status]

\* read is the object as read, or for a put the object to write; stale says
\* that another request has written since.
StateRequest == [kind : {"none", "put", "upsert", "patch"}, component : Component,
            status : Status, read : Statuses, stale : BOOLEAN]

Absent == [c \in Component |-> "absent"]
NoState == [exists |-> FALSE, status |-> Absent]
NoStateRequest == [kind |-> "none", component |-> CHOOSE c \in Component : TRUE,
              status |-> "absent", read |-> Absent, stale |-> FALSE]

ZLStateTypeOK ==
  /\ object \in [exists : BOOLEAN, status : Statuses]
  /\ requests \in [Client -> StateRequest]
  /\ told \in Statuses

ZLStateInit ==
  /\ object = NoState
  /\ requests = [k \in Client |-> NoStateRequest]
  /\ told = Absent

Free(k) == requests[k].kind = "none"

Reads(k, kind, c, status, read, stale) ==
  /\ Free(k)
  /\ requests' = [requests EXCEPT ![k] =
       [kind |-> kind, component |-> c, status |-> status, read |-> read,
        stale |-> stale]]
  /\ UNCHANGED <<object, told>>

\* newZLState: the components of the environment, none of them provisioned.
Initial(cs) == [c \in Component |-> IF c \in cs THEN "not_provisioned" ELSE "absent"]

\* Put without force, when there is no object yet.
PutState(k, cs) ==
  /\ ~object.exists
  /\ Reads(k, "put", CHOOSE c \in Component : TRUE, "absent", Initial(cs), FALSE)

\* UpsertComponent for PutComponent of the operator, which read the components
\* before: with old, others have written since then.
UpsertComponent(k, c, old) ==
  /\ object.exists
  /\ Reads(k, "upsert", c, "not_provisioned", object.status, old)

\* PatchComponent: an error for a component that is not there.
PatchComponent(k, c, status) ==
  /\ object.exists /\ object.status[c] # "absent"
  /\ Reads(k, "patch", c, status, object.status, FALSE)

Result(r) ==
  IF r.kind = "put" THEN r.read ELSE [r.read EXCEPT ![r.component] = r.status]

\* What a component is told is the status of its last patch, or of its
\* creation. A request that has read before another one wrote undoes what that
\* one wrote: then a component is told what is left.
Write(k) ==
  LET r == requests[k]
      new == Result(r)
  IN  /\ r.kind # "none"
      /\ object' = [exists |-> TRUE, status |-> new]
      /\ requests' = [j \in Client |->
           IF j = k THEN NoStateRequest
           ELSE [requests[j] EXCEPT !.stale = requests[j].kind # "none"]]
      /\ told' = CASE r.stale -> new
                   [] ~r.stale /\ r.kind = "patch" ->
                        [told EXCEPT ![r.component] = r.status]
                   [] OTHER -> [c \in Component |->
                        IF told[c] = "absent" THEN new[c] ELSE told[c]]
=============================================================================
