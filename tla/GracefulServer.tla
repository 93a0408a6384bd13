------------------------------ MODULE GracefulServer ------------------------------
(***************************************************************************)
(* What a gRPC server promises when it is stopped with GracefulStop (run   *)
(* in cmd/g-mand/main.go): requests are taken while it is up and none      *)
(* after that, each that was taken returns, and what follows GracefulStop  *)
(* begins when all have.  Only the death of the process breaks them off.   *)
(*                                                                         *)
(* GameSession, Lifecycle and Requests each have a server of their own,    *)
(* seen from another side; all three implement this one.                   *)
(***************************************************************************)
CONSTANTS
  Handlers,   \* who may have a request in progress
  Mortal      \* may the process be killed

VARIABLES
  phase,      \* not listening yet, up, draining, gone
  pending     \* the requests in progress

Init == phase \in {"before", "up"} /\ pending = {}

Open == phase = "before" /\ phase' = "up" /\ UNCHANGED pending
Take == phase = "up" /\ (\E h \in Handlers \ pending : pending' = pending \cup {h}) /\ UNCHANGED phase
Return == (\E h \in pending : pending' = pending \ {h}) /\ UNCHANGED phase
Drain == phase = "up" /\ phase' = "draining" /\ UNCHANGED pending
Leave == phase \in {"before", "draining"} /\ pending = {} /\ phase' = "gone" /\ UNCHANGED pending
Die == Mortal /\ phase' = "gone" /\ pending' = {}

Next == Open \/ Take \/ Return \/ Drain \/ Leave \/ Die

Spec == Init /\ [][Next]_<<phase, pending>>

\* What comes after GracefulStop runs without any handler beside it.
GoneAlone == phase = "gone" => pending = {}
=============================================================================
