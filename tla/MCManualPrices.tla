---------------------------- MODULE MCManualPrices ----------------------------
(* Small instances of ManualPrices for TLC. *)
EXTENDS ManualPrices

CONSTANTS key, hat, cheap, notANumber, h1, h2

TwoSKUs == {key, hat}
OnePrice == {cheap}
OddPrices == {cheap, notANumber}
Odd == {notANumber}
None == {}
OneUpdater == {h1}
TwoUpdaters == {h1, h2}
SaveFaults == {"write", "rename"}
=============================================================================
