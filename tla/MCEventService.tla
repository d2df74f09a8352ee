---------------------------- MODULE MCEventService ----------------------------
(* Constants for the model-checking run of EventService. *)
EXTENDS EventService

CONSTANTS validation, reconcile, c1, c2, p1, p2
=============================================================================
