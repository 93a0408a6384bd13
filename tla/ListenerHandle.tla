------------------------------ MODULE ListenerHandle ------------------------------
(***************************************************************************)
(* What OnStartGC and OnStopGC of a driver promise whoever calls them, as  *)
(* often and in whatever order (pkg/tf2/driver/driver.go): a start leaves  *)
(* a listener alone that runs already, a stop cancels the one that runs.   *)
(*                                                                         *)
(* GameSession has all the callers and only counts the listeners; Backpack *)
(* has the listeners and hardly a caller.  Both implement this.            *)
(***************************************************************************)
EXTENDS Naturals

VARIABLES
  armed,   \* the driver holds the handle that cancels its listener
  live     \* how many listeners nobody has cancelled

Init == armed = FALSE /\ live = 0

OnStartGC == ~armed /\ armed' = TRUE /\ live' = live + 1
OnStopGC == armed /\ armed' = FALSE /\ live' = live - 1

Next == OnStartGC \/ OnStopGC

Spec == Init /\ [][Next]_<<armed, live>>
=============================================================================
