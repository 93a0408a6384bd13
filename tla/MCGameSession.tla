---------------------------- MODULE MCGameSession ----------------------------
(* Small instances of GameSession for TLC. *)
EXTENDS GameSession, TLC

CONSTANTS tf2, other, op1, op2, res1, res2

MCApps == {tf2, other}
MCRegistered == {tf2}
OneOperator == {op1}
TwoOperators == {op1, op2}
OneResumer == {res1}
TwoResumers == {res1, res2}
NoFaults == {}
AllFaults == FaultKinds
NoWorld == {}
AllWorld == WorldKinds
NoShutdown == WorldKinds \ {"shutdown"}

Interchangeable == Permutations(TwoOperators) \cup Permutations(TwoResumers)
=============================================================================
