---------------------------- MODULE MCTradeOffers ----------------------------
(* Small instances of TradeOffers for TLC: the partners of accounts 1, 2, 3  *)
(* and 4 are trusted, excluded, both and neither.                            *)
EXTENDS TradeOffers

CONSTANTS o1, op1

OneOffer == {o1}
OneOperator == {op1}
FourAccounts == 1 .. 4
TrustedIDs == {101, 103}
ExcludedIDs == {102, 103}
=============================================================================
