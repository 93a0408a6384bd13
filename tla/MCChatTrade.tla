----------------------------- MODULE MCChatTrade -----------------------------
(* A small instance of ChatTrade for TLC, with two beginnings.  Everything: two *)
(* hats on each side and all kinds of metal, for the arithmetic of one message. *)
(* Few: a hat each, keys and metal, for two messages.  A hat may have a price   *)
(* in keys and metal, in metal that rounds differently for one and for two, in  *)
(* what is no amount, or none; refined metal may have to be exchanged for keys, *)
(* with change; a word is shared by two names.                                  *)
EXTENDS ChatTrade

Bot == {"b_hat1", "b_key", "b_ref1", "b_rec", "b_scr1"}
Partner == {"p_hat1", "p_key1", "p_ref1", "p_ref2", "p_rec", "p_scr1"}
BotEverything ==
  {"b_hat1", "b_hat2", "b_key", "b_ref1", "b_ref2", "b_rec", "b_scr1", "b_scr2"}
PartnerEverything ==
  {"p_hat1", "p_hat2", "p_key1", "p_key2", "p_ref1", "p_ref2", "p_rec", "p_scr1"}
KindOf ==
  [a \in BotEverything \cup PartnerEverything |->
     CASE a \in {"b_hat1", "b_hat2", "p_hat1", "p_hat2"} -> "hat"
       [] a \in {"b_key", "p_key1", "p_key2"} -> "key"
       [] a \in {"b_rec", "p_rec"} -> "reclaimed"
       [] a \in {"b_scr1", "b_scr2", "p_scr1"} -> "scrap"
       [] OTHER -> "refined"]
WordsOf ==
  [s \in {"hat", "key", "refined", "reclaimed", "scrap"} |->
     CASE s = "hat" -> {"w_both"}
       [] s = "key" -> {"w_both"}
       [] s = "refined" -> {"w_ref"}
       [] OTHER -> {}]
AllWords == {"w_both", "w_ref"}
PricedSKUs == {"hat", "key"}
OneOrTwo == {1, 2}
TwoEntries ==
  {[buyKeys |-> 0, buyMetal |-> 115, sellKeys |-> 0, sellMetal |-> 105],
   [buyKeys |-> 1, buyMetal |-> 133, sellKeys |-> 1, sellMetal |-> 144]}
FiveEntries ==
  TwoEntries \cup
  {[buyKeys |-> 1, buyMetal |-> -50, sellKeys |-> 1, sellMetal |-> -50],
   [buyKeys |-> 0, buyMetal |-> NaN, sellKeys |-> 0, sellMetal |-> NaN],
   [buyKeys |-> 0, buyMetal |-> Infinity, sellKeys |-> 1, sellMetal |-> Infinity]}
TwoStarts ==
  {[bot |-> Bot, partner |-> Partner, entries |-> TwoEntries, messages |-> 0],
   [bot |-> BotEverything, partner |-> PartnerEverything, entries |-> FiveEntries,
    messages |-> 1]}
=============================================================================
