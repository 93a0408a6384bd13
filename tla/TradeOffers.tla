------------------------------- MODULE TradeOffers -------------------------------
(***************************************************************************)
(* Trade offers in the g-mand daemon.  The event dispatcher decides on     *)
(* each new or changed offer, and again on every active one after a poll   *)
(* (handleTrustedOrExcludedOffer and checkAndProcessActiveOffers in        *)
(* cmd/g-mand/events.go); operators accept, decline and cancel offers      *)
(* through the actions of the TF2 driver (pkg/tf2/driver/trading.go).  All *)
(* of them call Steam in a loop that tries again after a transient error   *)
(* (the two retry.go).                                                     *)
(*                                                                         *)
(* State, terms and polled are external: the offers at Steam and what the  *)
(* trading module knows of them.  A Steam ID is Base plus an account       *)
(* number; events carry either of the two.                                 *)
(***************************************************************************)
EXTENDS Naturals, Sequences

CONSTANTS
  Offers,
  Accounts, Base,       \* account numbers, and the Steam ID of account 0
  Trusted, Excluded,    \* the Steam IDs of the two lists of the configuration
  Operators, Dispatcher,
  MaxRetries,           \* maxRetries of both retry.go
  MaxEvents,            \* bound: offer events in a behaviour
  MaxRequests,          \* bound: requests of operators in a behaviour
  MaxOutages            \* bound: times Steam goes wrong in a behaviour

SteamIDs == {Base + a : a \in Accounts}
Callers == Operators \cup {Dispatcher}

ASSUME OffersAssumption ==
  /\ Offers # {}
  /\ Base \in Nat
  /\ Accounts \subseteq 1 .. Base - 1
  /\ Trusted \subseteq SteamIDs
  /\ Excluded \subseteq SteamIDs
  /\ Dispatcher \notin Operators
  /\ MaxRetries \in Nat
  /\ MaxEvents \in Nat /\ MaxRequests \in Nat /\ MaxOutages \in Nat

VARIABLES
  state, terms,   \* the offers: how each stands, whose it is
  polled,         \* the received offers that were active at the last poll
  outage,         \* Steam may fail, answer too late, or lose an answer
  queue,          \* the events not handled yet
  todo,           \* the offers checkAndProcessActiveOffers has still to fetch
  caller,         \* per goroutine: where it is, its operation, its attempts
  answer,         \* per operator: the answer to its last request
  asked,          \* history: what operators have asked for
  cancelled,      \* shutdownCtx is done
  events, requests, outages

steamVars == <<state, terms, polled, outage>>
budgetVars == <<events, requests, outages>>
vars == <<steamVars, queue, todo, caller, answer, asked, cancelled, budgetVars>>

Policy == INSTANCE OfferPolicy

AnyOffer == CHOOSE o \in Offers : TRUE   \* where none is meant
Operations == {"accept", "decline", "cancel"}
Ended == {"accepted", "declined", "canceled"}

At(t, pc) == caller[t].pc = pc
Goto(t, pc) == caller' = [caller EXCEPT ![t].pc = pc]
Resting == [pc |-> "idle", op |-> "accept", offer |-> AnyOffer, attempt |-> 0]
StartCall(t, op, o) ==
  caller' = [caller EXCEPT ![t] = [pc |-> "call", op |-> op, offer |-> o, attempt |-> 0]]

-----------------------------------------------------------------------------
(* Steam (external)                                                        *)

Allowed(op, o) == state[o] = "active" /\ (op = "cancel") = terms[o].ours
Effect(op, o) ==
  /\ Allowed(op, o)
  /\ state' = [state EXCEPT ![o] = Policy!Outcome[op]]
  /\ UNCHANGED <<terms, polled, outage>>

PartnerActs(o) ==
  /\ state[o] = "active"
  /\ \E s \in IF terms[o].ours THEN {"accepted", "declined"} ELSE {"canceled"} :
       state' = [state EXCEPT ![o] = s]
  /\ UNCHANGED <<terms, polled, outage, queue, todo, caller, answer, asked, cancelled, budgetVars>>

\* The trading module reports an offer, as it stands now, with either form of the ID.
Publish(kind, o) ==
  /\ events < MaxEvents
  /\ events' = events + 1
  /\ \E other \in {terms[o].partner - Base, terms[o].partner} :
       queue' = Append(queue, [kind |-> kind, offer |-> o, other |-> other,
                               active |-> state[o] = "active"])
  /\ UNCHANGED <<steamVars, todo, caller, answer, asked, cancelled, requests, outages>>

Poll ==
  /\ ~outage
  /\ \A i \in 1 .. Len(queue) : queue[i].kind # "PollSuccess"
  /\ polled' = {o \in Offers : ~terms[o].ours /\ state[o] = "active"}
  /\ queue' = Append(queue, [kind |-> "PollSuccess", offer |-> AnyOffer, other |-> 0,
                              active |-> FALSE])
  /\ UNCHANGED <<state, terms, outage, todo, caller, answer, asked, cancelled, budgetVars>>

Outage ==
  /\ outage \/ outages < MaxOutages
  /\ outage' = ~outage
  /\ outages' = IF outage THEN outages ELSE outages + 1
  /\ UNCHANGED <<state, terms, polled, queue, todo, caller, answer, asked, cancelled,
                 events, requests>>

-----------------------------------------------------------------------------
(* The retry loop                                                          *)

\* An operator's context ends when its client goes away.
CtxDone(t) == t = Dispatcher => cancelled

\* The dispatcher goes on, with left the offers it has still to fetch.
GoOn(left) ==
  caller' = [caller EXCEPT ![Dispatcher] =
               [Resting EXCEPT !.pc = IF left = {} THEN "idle" ELSE "recheck"]]

\* The loop returns: the dispatcher ignores the result and goes on; cancel-offer
\* tries another endpoint; the other actions answer.
Finish(t, result) ==
  \/ /\ t = Dispatcher
     /\ GoOn(todo)
     /\ UNCHANGED answer
  \/ /\ t # Dispatcher
     /\ answer' = [answer EXCEPT ![t] = result]
     /\ caller' = [caller EXCEPT ![t].attempt = 0,
          ![t].pc = IF caller[t].op = "cancel" THEN "community" ELSE "idle"]

\* What a call that has not succeeded may have done all the same.
Lost(op, o) == UNCHANGED steamVars \/ Effect(op, o)

Rest == <<queue, todo, asked, cancelled, budgetVars>>

\* Mutant: the last transient error is dropped.
Transient_Swallowed(t) ==
  IF caller[t].attempt < MaxRetries
  THEN Goto(t, "wait") /\ UNCHANGED answer
  ELSE Finish(t, "ok")

\* Mutant: one attempt too many.
Transient_OneMore(t) ==
  IF caller[t].attempt <= MaxRetries
  THEN Goto(t, "wait") /\ UNCHANGED answer
  ELSE Finish(t, "error")

Transient(t) ==
  IF caller[t].attempt < MaxRetries
  THEN Goto(t, "wait") /\ UNCHANGED answer
  ELSE Finish(t, "error")

Attempt(t) ==
  /\ At(t, "call")
  /\ LET op == caller[t].op
         o == caller[t].offer
     IN \/ Effect(op, o) /\ Finish(t, "ok")
        \/ ~Allowed(op, o) /\ UNCHANGED steamVars /\ Finish(t, "refused")
        \/ outage /\ Lost(op, o) /\ Transient(t)
        \/ outage /\ Lost(op, o) /\ Finish(t, "error")
        \/ CtxDone(t) /\ Lost(op, o) /\ Finish(t, "stopped")
  /\ UNCHANGED Rest

Backoff(t) ==
  /\ At(t, "wait")
  /\ caller' = [caller EXCEPT ![t].pc = "call", ![t].attempt = @ + 1]
  /\ UNCHANGED <<steamVars, answer, Rest>>

GiveUp(t) ==
  /\ At(t, "wait")
  /\ CtxDone(t)
  /\ Finish(t, "stopped")
  /\ UNCHANGED <<steamVars, Rest>>

-----------------------------------------------------------------------------
(* The dispatcher                                                          *)

\* Mutant: account numbers are taken as they are.
Normalized_Kept(id) == id

Normalized(id) == IF id # 0 /\ id < Base THEN Base + id ELSE id

\* Mutant: the trusted list is looked at first.
Verdict_TrustedFirst(o, id) ==
  IF terms[o].ours THEN "none"
  ELSE IF id \in Trusted THEN "accept"
  ELSE IF id \in Excluded THEN "decline"
  ELSE "none"

Verdict(o, id) ==
  IF terms[o].ours THEN "none"
  ELSE IF id \in Excluded THEN "decline"
  ELSE IF id \in Trusted THEN "accept"
  ELSE "none"

\* handleTrustedOrExcludedOffer, with left the offers to fetch after this one.
Decide(o, other, left) ==
  LET verdict == Verdict(o, Normalized(other))
  IN IF verdict = "none"
     THEN GoOn(left)
     ELSE StartCall(Dispatcher, verdict, o)

Dispatching(kind) ==
  /\ At(Dispatcher, "idle")
  /\ queue # << >>
  /\ Head(queue).kind = kind
  /\ queue' = Tail(queue)
  /\ UNCHANGED <<steamVars, answer, asked, cancelled, budgetVars>>

HandleNewOffer ==
  /\ Dispatching("NewOffer")
  /\ Decide(Head(queue).offer, Head(queue).other, todo)
  /\ UNCHANGED todo

HandleOfferChanged ==
  /\ Dispatching("OfferChanged")
  /\ IF Head(queue).active
     THEN Decide(Head(queue).offer, Head(queue).other, todo)
     ELSE UNCHANGED caller
  /\ UNCHANGED todo

HandlePollSuccess ==
  /\ Dispatching("PollSuccess")
  /\ todo' = polled
  /\ GoOn(polled)

\* The body of the loop over the poll data: GetOffer, and the decision if it answers.
Recheck ==
  /\ At(Dispatcher, "recheck")
  /\ \E o \in todo :
       /\ todo' = todo \ {o}
       /\ \/ \E other \in {terms[o].partner - Base, terms[o].partner} : Decide(o, other, todo')
          \/ /\ outage \/ cancelled
             /\ GoOn(todo')
  /\ UNCHANGED <<steamVars, queue, answer, asked, cancelled, budgetVars>>

DispatcherReturn ==
  /\ At(Dispatcher, "idle")
  /\ cancelled
  /\ Goto(Dispatcher, "returned")
  /\ UNCHANGED <<steamVars, queue, todo, answer, asked, cancelled, budgetVars>>

Shutdown ==
  /\ ~cancelled
  /\ cancelled' = TRUE
  /\ UNCHANGED <<steamVars, queue, todo, caller, answer, asked, budgetVars>>

-----------------------------------------------------------------------------
(* The operators                                                           *)

\* The actions accept-offer, decline-offer and cancel-offer of the driver.
ExecuteAction(t, op, o) ==
  /\ At(t, "idle")
  /\ requests < MaxRequests
  /\ requests' = requests + 1
  /\ asked' = asked \cup {<<op, o>>}
  /\ answer' = [answer EXCEPT ![t] = "none"]
  /\ StartCall(t, op, o)
  /\ UNCHANGED <<steamVars, queue, todo, cancelled, events, outages>>

\* The answer when there is no community site, or the post to it fails: an error of the
\* first call is reported as "no longer active" if its text has one of five words in it,
\* as a refusal's may and any other error's may too ("invalid character" of a page that
\* is no JSON), but not that of a context that is done.
Reported(said) == {said} \cup {x \in {"gone"} : said \in {"refused", "error"}}

\* After CancelOffer, successful or not, cancel-offer posts to the community site.  What
\* a post without an error has answered is not looked at.
CommunityCancel(t) ==
  /\ At(t, "community")
  /\ Goto(t, "idle")
  /\ \/ /\ UNCHANGED steamVars \/ Effect("cancel", caller[t].offer)
        /\ answer' = [answer EXCEPT ![t] = "posted"]
     \/ /\ UNCHANGED steamVars \/ (outage /\ Effect("cancel", caller[t].offer))
        /\ \E said \in Reported(answer[t]) : answer' = [answer EXCEPT ![t] = said]
  /\ UNCHANGED Rest

-----------------------------------------------------------------------------
Init ==
  /\ state = [o \in Offers |-> "active"]
  /\ terms \in [Offers -> [ours : BOOLEAN, partner : SteamIDs]]
  /\ polled = {}
  /\ outage = FALSE
  /\ queue = << >>
  /\ todo = {}
  /\ caller = [t \in Callers |-> Resting]
  /\ answer = [t \in Operators |-> "none"]
  /\ asked = {}
  /\ cancelled = FALSE
  /\ events = 0 /\ requests = 0 /\ outages = 0

Call(t) == Attempt(t) \/ Backoff(t) \/ GiveUp(t)

Dispatch ==
  \/ HandleNewOffer \/ HandleOfferChanged \/ HandlePollSuccess
  \/ Recheck \/ DispatcherReturn
  \/ Call(Dispatcher)

Operate(t) ==
  \/ \E op \in Operations, o \in Offers : ExecuteAction(t, op, o)
  \/ Call(t)
  \/ CommunityCancel(t)

Environment ==
  \/ \E o \in Offers :
       PartnerActs(o) \/ Publish("NewOffer", o) \/ Publish("OfferChanged", o)
  \/ Poll \/ Outage

Next ==
  \/ Dispatch
  \/ \E t \in Operators : Operate(t)
  \/ Environment
  \/ Shutdown

Spec == Init /\ [][Next]_vars

\* The dispatcher keeps running, its calls end, and the trading module polls.
Fairness == WF_vars(Dispatch) /\ WF_vars(Poll)
FairSpec == Spec /\ Fairness

-----------------------------------------------------------------------------
(* Properties                                                              *)

CallerPC == {"idle", "call", "wait", "recheck", "community", "returned"}
EventKinds == {"NewOffer", "OfferChanged", "PollSuccess"}

\* Every variable stays in its domain; in particular no call is tried more than
\* MaxRetries times again.
TypeOK ==
  /\ state \in [Offers -> {"active"} \cup Ended]
  /\ terms \in [Offers -> [ours : BOOLEAN, partner : SteamIDs]]
  /\ polled \subseteq Offers
  /\ outage \in BOOLEAN
  /\ queue \in Seq([kind : EventKinds, offer : Offers, active : BOOLEAN,
                    other : {0} \cup Accounts \cup SteamIDs])
  /\ todo \subseteq Offers
  /\ caller \in [Callers -> [pc : CallerPC, op : Operations, offer : Offers,
                             attempt : 0 .. MaxRetries]]
  /\ answer \in [Operators -> {"none", "ok", "refused", "error", "stopped", "posted", "gone"}]
  /\ asked \subseteq Operations \X Offers
  /\ cancelled \in BOOLEAN
  /\ events \in 0 .. MaxEvents
  /\ requests \in 0 .. MaxRequests
  /\ outages \in 0 .. MaxOutages

\* Whatever the order of events, polls, retries and requests, an offer comes to an
\* end only as the policy allows: an excluded partner's offer is never accepted of
\* the daemon's own accord, even if the partner is also trusted
\* (handleTrustedOrExcludedOffer).
PolicyKept == Policy!Spec

\* An operator who is told that Steam has accepted, declined or canceled an offer finds it
\* so, also when answers were lost and calls repeated (actionAcceptOffer,
\* actionDeclineOffer, actionCancelOffer).  The other two successes of cancel-offer, "on
\* Steam Community" and "no longer active", promise nothing.
AnswersTrue ==
  \A t \in Operators :
    At(t, "idle") /\ answer[t] = "ok" =>
      state[caller[t].offer] = Policy!Outcome[caller[t].op]

\* While the daemon runs and Steam is reachable in the end, every offer received from
\* a listed partner comes to an end, although events may be missing and calls given
\* up: the check after a poll finds it (checkAndProcessActiveOffers).
ListedHandled ==
  <>[]~outage /\ []~cancelled
    => \A o \in Offers :
         ~terms[o].ours /\ terms[o].partner \in Trusted \cup Excluded ~> state[o] # "active"
=============================================================================
