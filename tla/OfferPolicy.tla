------------------------------- MODULE OfferPolicy -------------------------------
(***************************************************************************)
(* What may become of a trade offer of the account.  An offer ends once.   *)
(* The partner may end it, and so may an operator who has asked for it; of *)
(* its own accord the daemon accepts only offers it has received from a    *)
(* trusted partner who is not excluded, and declines only those of an      *)
(* excluded one.                                                           *)
(***************************************************************************)
CONSTANTS Offers, Trusted, Excluded

VARIABLES
  state,     \* per offer: active, or how it has ended
  terms,     \* per offer: whether the account made it, and the other party
  asked      \* what operators have asked for: pairs of an operation and an offer

Outcome == [accept |-> "accepted", decline |-> "declined", cancel |-> "canceled"]
Operations == {"accept", "decline", "cancel"}

Ends(o, outcome) ==
  /\ state[o] = "active"
  /\ state' = [state EXCEPT ![o] = outcome]
  /\ UNCHANGED <<terms, asked>>

\* A received offer is accepted or declined, one of the account's own is canceled.
Fits(op, o) == (op = "cancel") = terms[o].ours

\* What the daemon does about an offer without being asked.
Wanted(op, o) ==
  \/ op = "decline" /\ terms[o].partner \in Excluded
  \/ op = "accept" /\ terms[o].partner \in Trusted \ Excluded

Automatic(op, o) == Fits(op, o) /\ Wanted(op, o) /\ Ends(o, Outcome[op])
OnRequest(op, o) == Fits(op, o) /\ <<op, o>> \in asked /\ Ends(o, Outcome[op])
Partner(o) ==
  \E outcome \in IF terms[o].ours THEN {"accepted", "declined"} ELSE {"canceled"} :
    Ends(o, outcome)

Ask(op, o) ==
  /\ asked' = asked \cup {<<op, o>>}
  /\ UNCHANGED <<state, terms>>

Init ==
  /\ state = [o \in Offers |-> "active"]
  /\ asked = {}

Next ==
  \E o \in Offers :
    \/ \E op \in Operations : Automatic(op, o) \/ OnRequest(op, o) \/ Ask(op, o)
    \/ Partner(o)

Spec == Init /\ [][Next]_<<state, terms, asked>>
=============================================================================
