----------------------------- MODULE MCBackpack -----------------------------
(* A small instance of Backpack for TLC. *)
EXTENDS Backpack

CONSTANTS w1, w2, w3, tool, op, load, l1, l2

MCItems == {w1, w2, w3, tool}
MCWeapons == {w1, w2, w3}
MCClasses == <<"Scout", "Soldier">>
MCUsedBy == [w \in MCWeapons |-> IF w = w3 THEN {"Scout", "Soldier"} ELSE {"Scout"}]
=============================================================================
