------------------------------ MODULE MCEnvFile ------------------------------
(* Small instances of EnvFile for TLC. *)
EXTENDS EnvFile, TLC

CONSTANTS u1, u2, p1, p2

TwoUsers == {u1, u2}
TwoPassphrases == {p1, p2}
AllFaults == {"save", "guardian"}
Interchangeable == Permutations(TwoUsers) \cup Permutations(TwoPassphrases)
=============================================================================
