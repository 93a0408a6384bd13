----------------------------- MODULE MCLifecycle -----------------------------
(* Small instances of Lifecycle for TLC. *)
EXTENDS Lifecycle, TLC

CONSTANTS c1, c2

TwoClients == {c1, c2}
AllConfigurations == SecretKinds
InMaFile == {"maFile"}
AllFaults == LifecycleFaults
NoFaults == {}
=============================================================================
