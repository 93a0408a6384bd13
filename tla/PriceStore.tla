------------------------------- MODULE PriceStore -------------------------------
(***************************************************************************)
(* What the manual price registry promises: an update changes the prices   *)
(* in memory, a save makes the stored prices exactly those in memory, and  *)
(* a restart makes the prices in memory exactly the stored ones.  The      *)
(* stored prices are never a mixture, and never anything memory was not.   *)
(***************************************************************************)
CONSTANTS SKUs, Prices, NoPrice

VARIABLES memory, stored

Maps == [SKUs -> Prices \cup {NoPrice}]
Empty == [s \in SKUs |-> NoPrice]

\* The entries of u added to m, replacing those it already had.
Merged(m, u) == [s \in SKUs |-> IF u[s] = NoPrice THEN m[s] ELSE u[s]]

Init == memory = Empty /\ stored = Empty

Update == \E u \in Maps : memory' = Merged(memory, u) /\ UNCHANGED stored
Save == stored' = memory /\ UNCHANGED memory
Restart == memory' = stored /\ UNCHANGED stored

Next == Update \/ Save \/ Restart

Spec == Init /\ [][Next]_<<memory, stored>>
=============================================================================
