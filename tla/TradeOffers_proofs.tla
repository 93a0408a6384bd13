--------------------------- MODULE TradeOffers_proofs ---------------------------
(* TradeOffers keeps its types, implements OfferPolicy, answers truly and gets *)
(* on, for every set of offers, accounts and operators and every bound.        *)
EXTENDS TradeOffers, SequenceTheorems, TLAPS

-----------------------------------------------------------------------------
(* The inductive invariant                                                   *)

CallType == [pc : CallerPC, op : Operations, offer : Offers, attempt : 0 .. MaxRetries]
EventType == [kind : EventKinds, offer : Offers, active : BOOLEAN,
              other : {0} \cup Accounts \cup SteamIDs]

\* The two forms in which an offer's partner is reported.
Names(o) == {terms[o].partner - Base, terms[o].partner}

\* An event of an offer names its partner.
Named == {e \in EventType : e.kind # "PollSuccess" => e.other \in Names(e.offer)}

SteamOK ==
  /\ state \in [Offers -> {"active"} \cup Ended]
  /\ terms \in [Offers -> [ours : BOOLEAN, partner : SteamIDs]]
  /\ polled \subseteq Offers
  /\ outage \in BOOLEAN
QueueOK == queue \in Seq(Named) /\ todo \subseteq Offers
CallerOK == caller \in [Callers -> CallType]
AnswerOK == answer \in [Operators -> {"none", "ok", "refused", "error", "stopped", "posted", "gone"}]
AskedOK == asked \subseteq Operations \X Offers /\ cancelled \in BOOLEAN
BudgetOK == events \in 0 .. MaxEvents /\ requests \in 0 .. MaxRequests /\ outages \in 0 .. MaxOutages

\* A call under way is one the policy allows its caller to make.
Warranted(t, op, o) ==
  /\ t = Dispatcher => Policy!Fits(op, o) /\ Policy!Wanted(op, o)
  /\ t # Dispatcher => <<op, o>> \in asked
Backed(t, c) ==
  /\ c.pc \in {"call", "wait"} => Warranted(t, c.op, c.offer)
  /\ c.pc = "wait" => c.attempt < MaxRetries
  /\ c.pc = "community" => t # Dispatcher /\ c.op = "cancel" /\ Warranted(t, c.op, c.offer)
CallsBacked == \A t \in Callers : Backed(t, caller[t])

\* What a caller has been told, or will be once cancel-offer is through, is so.
Settled(op, o) == state[o] = Policy!Outcome[op]
Told(c, said) ==
  /\ c.pc \in {"call", "wait"} => said = "none"
  /\ c.pc = "idle" /\ said = "ok" => Settled(c.op, c.offer)
  /\ c.pc = "community" /\ said = "ok" => Settled("cancel", c.offer)
AllTold == \A t \in Operators : Told(caller[t], answer[t])

Inv ==
  /\ SteamOK /\ QueueOK /\ CallerOK /\ AnswerOK /\ AskedOK /\ BudgetOK
  /\ CallsBacked /\ AllTold

\* What a step does to the offers: nothing, or what the policy allows.
PolicyStep == [Policy!Next]_<<state, terms, asked>>

-----------------------------------------------------------------------------
(* Lemmas                                                                    *)

LEMMA AnyOfferExists == AnyOffer \in Offers
BY OffersAssumption DEF AnyOffer

\* A partner's two names are normalised to the one Steam ID.
LEMMA NamesNormalized ==
  ASSUME SteamOK, NEW o \in Offers, NEW other \in Names(o)
  PROVE  Normalized(other) = terms[o].partner
<1>1. PICK a \in Accounts : terms[o].partner = Base + a
  BY DEF SteamOK, SteamIDs
<1>2. a \in Nat /\ a # 0 /\ a < Base /\ Base \in Nat
  BY OffersAssumption
<1>3. CASE other = terms[o].partner
  BY <1>1, <1>2, <1>3 DEF Normalized
<1>4. CASE other = terms[o].partner - Base
  <2>1. other = a
    BY <1>1, <1>2, <1>4
  <2> QED BY <1>1, <1>2, <2>1 DEF Normalized
<1> QED BY <1>3, <1>4 DEF Names

\* Offers end once: a settled request stays settled.
LEMMA SettledStays ==
  ASSUME NEW op, NEW o \in Offers, Settled(op, o), SteamOK, terms' = terms, op \in Operations,
         \A p \in Offers : state[p] # "active" => state'[p] = state[p]
  PROVE  Settled(op, o)'
BY DEF Settled, SteamOK, Operations, Policy!Outcome

\* Caller t moves, the others are left alone.
Moves(t) == CallerOK' /\ \A u \in Callers \ {t} : caller'[u] = caller[u]
\* No ended offer changes.
Final == terms' = terms /\ \A p \in Offers : state[p] # "active" => state'[p] = state[p]

LEMMA CallerMoves ==
  ASSUME Inv, NEW t \in Callers, Moves(t),
         terms' = terms, asked \subseteq asked', Backed(t, caller[t])'
  PROVE  CallsBacked'
<1>1. ASSUME NEW u \in Callers
      PROVE  Backed(u, caller[u])'
  <2>1. CASE u = t
    BY <2>1
  <2>2. CASE u # t
    <3>1. caller'[u] = caller[u]
      BY <2>2 DEF Moves
    <3>2. Backed(u, caller[u])
      BY DEF Inv, CallsBacked
    <3> QED BY <3>1, <3>2 DEF Backed, Warranted, Policy!Fits, Policy!Wanted
  <2> QED BY <2>1, <2>2
<1> QED BY <1>1 DEF CallsBacked

\* What an operator was told stays true when it does not move.
LEMMA ToldStays ==
  ASSUME Inv, Final, NEW t \in Operators, caller'[t] = caller[t], answer'[t] = answer[t]
  PROVE  Told(caller[t], answer[t])'
<1>1. Told(caller[t], answer[t]) /\ SteamOK /\ t \in Callers
  BY DEF Inv, AllTold, Callers
<1>2. caller[t].offer \in Offers /\ caller[t].op \in Operations /\ "cancel" \in Operations
  BY <1>1 DEF Inv, CallerOK, CallType, Operations
<1>3. Settled(caller[t].op, caller[t].offer) => Settled(caller[t].op, caller[t].offer)'
  BY <1>1, <1>2, SettledStays DEF Final
<1>4. Settled("cancel", caller[t].offer) => Settled("cancel", caller[t].offer)'
  BY <1>1, <1>2, SettledStays DEF Final
<1> QED BY <1>1, <1>3, <1>4 DEF Told

LEMMA DispatcherTellsNobody ==
  ASSUME Inv, Final, Moves(Dispatcher), answer' = answer
  PROVE  AllTold'
<1> SUFFICES ASSUME NEW t \in Operators PROVE Told(caller[t], answer[t])'
  BY DEF AllTold
<1>1. caller'[t] = caller[t] /\ answer'[t] = answer[t]
  BY OffersAssumption DEF Callers, Moves
<1> QED BY <1>1, ToldStays

LEMMA OperatorTold ==
  ASSUME Inv, Final, NEW t \in Operators, Moves(t),
         \A u \in Operators \ {t} : answer'[u] = answer[u],
         Told(caller[t], answer[t])'
  PROVE  AllTold'
<1> SUFFICES ASSUME NEW u \in Operators, u # t PROVE Told(caller[u], answer[u])'
  BY DEF AllTold
<1>1. caller'[u] = caller[u] /\ answer'[u] = answer[u]
  BY DEF Callers, Moves
<1> QED BY <1>1, ToldStays

\* An operation that takes effect ends the offer as the policy allows.
LEMMA EffectAllowed ==
  ASSUME Inv, NEW t \in Callers, NEW op \in Operations, NEW o \in Offers,
         Warranted(t, op, o), Effect(op, o), asked' = asked
  PROVE  /\ SteamOK' /\ Final
         /\ Settled(op, o)'
         /\ PolicyStep
<1>1. state[o] = "active" /\ Policy!Fits(op, o)
  BY DEF Effect, Allowed, Policy!Fits
<1>2. state' = [state EXCEPT ![o] = Policy!Outcome[op]] /\ terms' = terms
      /\ polled' = polled /\ outage' = outage
  BY DEF Effect
<1>3. Policy!Outcome[op] \in Ended
  BY DEF Operations, Policy!Outcome, Ended
<1>4. SteamOK'
  BY <1>2, <1>3 DEF Inv, SteamOK
<1>5. state'[o] = Policy!Outcome[op]
  BY <1>2 DEF Inv, SteamOK
<1>6. Settled(op, o)'
  BY <1>5, <1>3 DEF Settled, Ended
<1>7. \A p \in Offers : state[p] # "active" => state'[p] = state[p]
  BY <1>1, <1>2 DEF Inv, SteamOK
<1>8. Policy!Ends(o, Policy!Outcome[op])
  BY <1>1, <1>2 DEF Policy!Ends
<1>9. op \in Policy!Operations
  BY DEF Operations, Policy!Operations
<1>10. CASE t = Dispatcher
  <2>1. Policy!Automatic(op, o)
    BY <1>1, <1>8, <1>10 DEF Warranted, Policy!Automatic
  <2> QED BY <1>4, <1>2, <1>6, <1>7, <1>9, <2>1 DEF PolicyStep, Policy!Next, Final
<1>11. CASE t # Dispatcher
  <2>1. Policy!OnRequest(op, o)
    BY <1>1, <1>8, <1>11 DEF Warranted, Policy!OnRequest
  <2> QED BY <1>4, <1>2, <1>6, <1>7, <1>9, <2>1 DEF PolicyStep, Policy!Next, Final
<1> QED BY <1>10, <1>11

\* So does a call whose answer was lost, if it does anything.
LEMMA LostAllowed ==
  ASSUME Inv, NEW t \in Callers, NEW op \in Operations, NEW o \in Offers,
         Warranted(t, op, o), Lost(op, o), asked' = asked
  PROVE  /\ SteamOK' /\ Final
         /\ PolicyStep
<1>1. CASE Effect(op, o)
  BY <1>1, EffectAllowed
<1>2. CASE UNCHANGED steamVars
  BY <1>2 DEF steamVars, Inv, SteamOK, PolicyStep, Final
<1> QED BY <1>1, <1>2 DEF Lost

\* The dispatcher is through with an offer.
LEMMA GoOnMoves ==
  ASSUME Inv, NEW left, GoOn(left)
  PROVE  Moves(Dispatcher) /\ Backed(Dispatcher, caller[Dispatcher])'
<1> DEFINE pc == IF left = {} THEN "idle" ELSE "recheck"
<1>1. pc \in {"idle", "recheck"} /\ Dispatcher \in Callers /\ 0 \in 0 .. MaxRetries
  BY OffersAssumption DEF Callers
<1>2. [Resting EXCEPT !.pc = pc] = [pc |-> pc, op |-> "accept", offer |-> AnyOffer, attempt |-> 0]
  BY DEF Resting
<1>3. caller' = [caller EXCEPT ![Dispatcher] =
                   [pc |-> pc, op |-> "accept", offer |-> AnyOffer, attempt |-> 0]]
  BY <1>2 DEF GoOn
<1> HIDE DEF pc
<1>4. [pc |-> pc, op |-> "accept", offer |-> AnyOffer, attempt |-> 0] \in CallType
  BY <1>1, AnyOfferExists DEF CallType, CallerPC, Operations
<1>5. Moves(Dispatcher)
  BY <1>3, <1>4 DEF Moves, Inv, CallerOK
<1>6. caller'[Dispatcher].pc = pc
  BY <1>1, <1>3 DEF Inv, CallerOK
<1> QED BY <1>1, <1>5, <1>6 DEF Backed

\* The end of the retry loop.
LEMMA FinishKeeps ==
  ASSUME Inv, Final, NEW t \in Callers, NEW result \in {"ok", "refused", "error", "stopped"},
         NEW op, NEW o, op = caller[t].op, o = caller[t].offer,
         caller[t].pc \in {"call", "wait"}, Finish(t, result), asked' = asked,
         result = "ok" => Settled(op, o)'
  PROVE  CallerOK' /\ AnswerOK' /\ CallsBacked' /\ AllTold'
<1>1. CASE t = Dispatcher
  <2>1. GoOn(todo) /\ answer' = answer
    BY <1>1 DEF Finish
  <2>2. Moves(t) /\ Backed(t, caller[t])'
    BY <1>1, <2>1, GoOnMoves
  <2>3. CallsBacked'
    BY <2>2, CallerMoves DEF Final
  <2>4. AllTold'
    BY <1>1, <2>1, <2>2, DispatcherTellsNobody
  <2> QED BY <2>1, <2>2, <2>3, <2>4 DEF Inv, AnswerOK, Moves
<1>2. CASE t # Dispatcher
  <2> DEFINE pc == IF caller[t].op = "cancel" THEN "community" ELSE "idle"
  <2>1. /\ caller' = [caller EXCEPT ![t].attempt = 0, ![t].pc = pc]
        /\ answer' = [answer EXCEPT ![t] = result]
    BY <1>2 DEF Finish
  <2>2. t \in Operators /\ pc \in CallerPC /\ 0 \in 0 .. MaxRetries
    BY <1>2, OffersAssumption DEF Callers, CallerPC
  <2>3. caller[t] \in CallType /\ Backed(t, caller[t]) /\ CallerOK
    BY DEF Inv, CallerOK, CallsBacked
  <2> HIDE DEF pc
  <2>4. /\ Moves(t)
        /\ caller'[t].pc = pc
        /\ caller'[t].op = caller[t].op
        /\ caller'[t].offer = caller[t].offer
    BY <2>1, <2>2, <2>3 DEF Moves, CallerOK, CallType
  <2>5. answer'[t] = result /\ \A u \in Operators \ {t} : answer'[u] = answer[u]
    BY <2>1, <2>2 DEF Inv, AnswerOK
  <2>6. Warranted(t, caller[t].op, caller[t].offer)'
    BY <1>2, <2>3, <2>4 DEF Backed, Warranted
  <2>7. Backed(t, caller[t])'
    BY <1>2, <2>4, <2>6 DEF Backed, pc
  <2>8. Told(caller[t], answer[t])'
    BY <2>4, <2>5 DEF Told, pc
  <2>9. CallsBacked'
    BY <2>4, <2>7, CallerMoves DEF Final
  <2>10. AllTold'
    BY <2>2, <2>4, <2>5, <2>8, OperatorTold
  <2> QED BY <2>1, <2>4, <2>9, <2>10 DEF Inv, AnswerOK, Moves
<1> QED BY <1>1, <1>2

\* A caller that only moves on between attempts.
LEMMA RetryKeeps ==
  ASSUME Inv, Final, NEW t \in Callers, Moves(t),
         caller[t].pc \in {"call", "wait"}, caller'[t].pc \in {"call", "wait"},
         caller'[t].op = caller[t].op, caller'[t].offer = caller[t].offer,
         caller'[t].pc = "wait" => caller'[t].attempt < MaxRetries,
         answer' = answer, asked' = asked
  PROVE  CallerOK' /\ AnswerOK' /\ CallsBacked' /\ AllTold'
<1>1. Backed(t, caller[t])
  BY DEF Inv, CallsBacked
<1>2. Warranted(t, caller[t].op, caller[t].offer)'
  BY <1>1 DEF Backed, Warranted, Policy!Fits, Policy!Wanted, Final
<1>3. Backed(t, caller[t])'
  BY <1>2 DEF Backed
<1>4. CallsBacked'
  BY <1>3, CallerMoves DEF Final
<1>5. AllTold'
  <2>1. CASE t = Dispatcher
    BY <2>1, DispatcherTellsNobody
  <2>2. CASE t # Dispatcher
    <3>1. t \in Operators
      BY <2>2 DEF Callers
    <3>2. answer[t] = "none"
      BY <3>1 DEF Inv, AllTold, Told
    <3>3. Told(caller[t], answer[t])'
      BY <3>2 DEF Told
    <3> QED BY <3>1, <3>3, OperatorTold
  <2> QED BY <2>1, <2>2
<1> QED BY <1>4, <1>5 DEF Inv, AnswerOK, Moves

-----------------------------------------------------------------------------
(* The actions                                                               *)

\* The queue's events name the same partners as long as no offer changes hands.
LEMMA QueueStays ==
  ASSUME Inv, terms' = terms, queue' = queue, todo' = todo
  PROVE  QueueOK'
<1>1. Named' = Named
  BY DEF Named, Names
<1> QED BY <1>1 DEF Inv, QueueOK

LEMMA CallKeeps ==
  ASSUME Inv, NEW t \in Callers, Call(t),
         NEW op, NEW o, op = caller[t].op, o = caller[t].offer
  PROVE  Inv' /\ PolicyStep
<1>0. /\ UNCHANGED Rest
      /\ caller[t].pc \in {"call", "wait"}
  BY DEF Call, Attempt, Backoff, GiveUp, At
<1>1. op \in Operations /\ o \in Offers /\ caller[t].attempt \in 0 .. MaxRetries /\ CallerOK
  BY DEF Inv, CallerOK, CallType
<1>2. Warranted(t, op, o)
  BY <1>0 DEF Inv, CallsBacked, Backed
<1> DEFINE Local == CallerOK' /\ AnswerOK' /\ CallsBacked' /\ AllTold'
<1>3. ASSUME UNCHANGED steamVars PROVE SteamOK' /\ Final /\ PolicyStep
  BY <1>0, <1>3 DEF steamVars, Rest, Inv, SteamOK, Final, PolicyStep
<1>4. ASSUME Lost(op, o) PROVE SteamOK' /\ Final /\ PolicyStep
  BY <1>0, <1>1, <1>2, <1>4, LostAllowed DEF Rest
<1>5. ASSUME Transient(t), Final, At(t, "call") PROVE Local
  <2>1. CASE caller[t].attempt < MaxRetries /\ Goto(t, "wait") /\ answer' = answer
    <3>1. caller' = [caller EXCEPT ![t].pc = "wait"]
      BY <2>1 DEF Goto
    <3>2. Moves(t) /\ caller'[t].pc = "wait" /\ caller'[t].op = op /\ caller'[t].offer = o
         /\ caller'[t].attempt = caller[t].attempt
      BY <1>1, <3>1 DEF Moves, CallerOK, CallType, CallerPC
    <3> QED BY <1>0, <1>5, <2>1, <3>2, RetryKeeps DEF Rest
  <2>2. CASE Finish(t, "error")
    BY <1>0, <1>5, <2>2, FinishKeeps DEF Rest
  <2> QED BY <1>5, <2>1, <2>2 DEF Transient
<1>6. CASE Attempt(t)
  <2>1. CASE Effect(op, o) /\ Finish(t, "ok")
    <3>1. SteamOK' /\ Final /\ Settled(op, o)' /\ PolicyStep
      BY <1>0, <1>1, <1>2, <2>1, EffectAllowed DEF Rest
    <3>2. Local
      BY <1>0, <2>1, <3>1, FinishKeeps DEF Rest
    <3> QED BY <3>1, <3>2, <1>0, QueueStays DEF Rest, Inv, AskedOK, BudgetOK, budgetVars, Final
  <2>2. CASE ~Allowed(op, o) /\ UNCHANGED steamVars /\ Finish(t, "refused")
    <3>1. SteamOK' /\ Final /\ PolicyStep
      BY <1>3, <2>2
    <3>2. Local
      BY <1>0, <2>2, <3>1, FinishKeeps DEF Rest
    <3> QED BY <3>1, <3>2, <1>0, QueueStays DEF Rest, Inv, AskedOK, BudgetOK, budgetVars, Final
  <2>3. CASE Lost(op, o) /\ Transient(t)
    <3>1. SteamOK' /\ Final /\ PolicyStep
      BY <1>4, <2>3
    <3>2. Local
      BY <1>5, <1>6, <2>3, <3>1 DEF Attempt
    <3> QED BY <3>1, <3>2, <1>0, QueueStays DEF Rest, Inv, AskedOK, BudgetOK, budgetVars, Final
  <2>4. CASE Lost(op, o) /\ (Finish(t, "error") \/ Finish(t, "stopped"))
    <3>1. SteamOK' /\ Final /\ PolicyStep
      BY <1>4, <2>4
    <3>2. Local
      BY <1>0, <2>4, <3>1, FinishKeeps DEF Rest
    <3> QED BY <3>1, <3>2, <1>0, QueueStays DEF Rest, Inv, AskedOK, BudgetOK, budgetVars, Final
  <2> QED BY <1>6, <2>1, <2>2, <2>3, <2>4 DEF Attempt
<1>7. CASE Backoff(t)
  <2>1. SteamOK' /\ Final /\ PolicyStep
    BY <1>3, <1>7 DEF Backoff
  <2>2. caller[t].attempt + 1 \in 0 .. MaxRetries
    BY <1>1, <1>7, OffersAssumption DEF Backoff, At, Inv, CallsBacked, Backed
  <2>3. caller' = [caller EXCEPT ![t].pc = "call", ![t].attempt = @ + 1]
    BY <1>7 DEF Backoff
  <2>4. Moves(t) /\ caller'[t].pc = "call" /\ caller'[t].op = op /\ caller'[t].offer = o
    BY <1>1, <2>2, <2>3 DEF Moves, CallerOK, CallType, CallerPC
  <2>5. Local
    BY <1>0, <1>7, <2>1, <2>4, RetryKeeps DEF Backoff, Rest
  <2> QED BY <2>1, <2>5, <1>0, QueueStays DEF Rest, Inv, AskedOK, BudgetOK, budgetVars, Final
<1>8. CASE GiveUp(t)
  <2>1. SteamOK' /\ Final /\ PolicyStep
    BY <1>3, <1>8 DEF GiveUp
  <2>2. Local
    BY <1>0, <1>8, <2>1, FinishKeeps DEF GiveUp, Rest
  <2> QED BY <2>1, <2>2, <1>0, QueueStays DEF Rest, Inv, AskedOK, BudgetOK, budgetVars, Final
<1> QED BY <1>6, <1>7, <1>8 DEF Call

\* Steps in which no caller moves.
LEMMA StillKeeps ==
  ASSUME Inv, Final, caller' = caller, answer' = answer, asked' = asked
  PROVE  CallerOK' /\ AnswerOK' /\ CallsBacked' /\ AllTold'
<1>1. ASSUME NEW t \in Operators PROVE Told(caller[t], answer[t])'
  BY ToldStays
<1>2. ASSUME NEW t \in Callers PROVE Backed(t, caller[t])'
  <2>1. Backed(t, caller[t])
    BY DEF Inv, CallsBacked
  <2> QED BY <2>1 DEF Backed, Warranted, Policy!Fits, Policy!Wanted, Final
<1> QED BY <1>1, <1>2 DEF AllTold, CallsBacked, Inv, CallerOK, AnswerOK

LEMMA PartnerKeeps ==
  ASSUME Inv, NEW o \in Offers, PartnerActs(o)
  PROVE  Inv' /\ PolicyStep
<1>1. PICK s \in IF terms[o].ours THEN {"accepted", "declined"} ELSE {"canceled"} :
        state' = [state EXCEPT ![o] = s]
  BY DEF PartnerActs
<1>2. s \in Ended /\ state[o] = "active"
  BY <1>1 DEF Ended, PartnerActs
<1>3. Final /\ SteamOK'
  BY <1>1, <1>2 DEF PartnerActs, Final, Inv, SteamOK
<1>4. Policy!Partner(o)
  BY <1>1, <1>2 DEF PartnerActs, Policy!Partner, Policy!Ends
<1>5. PolicyStep
  BY <1>4 DEF PolicyStep, Policy!Next
<1>6. CallerOK' /\ AnswerOK' /\ CallsBacked' /\ AllTold'
  BY <1>3, StillKeeps DEF PartnerActs
<1>7. QueueOK'
  BY <1>3, QueueStays DEF PartnerActs, Final
<1> QED BY <1>3, <1>5, <1>6, <1>7 DEF PartnerActs, Inv, AskedOK, BudgetOK, budgetVars

\* Nothing changes for the offers themselves.
LEMMA Quiet ==
  ASSUME Inv, state' = state, terms' = terms, asked' = asked
  PROVE  Final /\ PolicyStep /\ Named' = Named
BY DEF Final, PolicyStep, Named, Names

LEMMA PublishKeeps ==
  ASSUME Inv, NEW o \in Offers, NEW kind \in {"NewOffer", "OfferChanged"}, Publish(kind, o)
  PROVE  Inv' /\ PolicyStep
<1>1. Final /\ PolicyStep /\ Named' = Named
  BY Quiet DEF Publish, steamVars
<1>2. PICK other \in Names(o) :
        queue' = Append(queue, [kind |-> kind, offer |-> o, other |-> other,
                                active |-> state[o] = "active"])
  BY DEF Publish, Names
<1>3. other \in Accounts \cup SteamIDs
  <2>1. PICK a \in Accounts : terms[o].partner = Base + a
    BY DEF Inv, SteamOK, SteamIDs
  <2>2. a \in Nat /\ Base \in Nat
    BY OffersAssumption
  <2>3. terms[o].partner - Base = a /\ terms[o].partner \in SteamIDs
    BY <2>1, <2>2 DEF SteamIDs
  <2> QED BY <2>3, <1>2 DEF Names
<1>4. (state[o] = "active") \in BOOLEAN
  OBVIOUS
<1> DEFINE b == state[o] = "active"
           ev == [kind |-> kind, offer |-> o, other |-> other, active |-> b]
<1>5. ev \in Named
  <2> HIDE DEF b
  <2>1. b \in BOOLEAN
    BY <1>4 DEF b
  <2> QED BY <1>2, <1>3, <2>1 DEF Named, EventType, EventKinds
<1> HIDE DEF ev
<1>6. queue' = Append(queue, ev)
  BY <1>2 DEF ev
<1>7. QueueOK'
  BY <1>1, <1>5, <1>6 DEF Inv, QueueOK, Publish
<1>8. CallerOK' /\ AnswerOK' /\ CallsBacked' /\ AllTold'
  BY <1>1, StillKeeps DEF Publish
<1>9. SteamOK' /\ AskedOK'
  BY DEF Publish, steamVars, Inv, SteamOK, AskedOK
<1>10. BudgetOK'
  BY OffersAssumption DEF Publish, Inv, BudgetOK
<1> QED BY <1>1, <1>7, <1>8, <1>9, <1>10 DEF Inv

LEMMA PollKeeps ==
  ASSUME Inv, Poll
  PROVE  Inv' /\ PolicyStep
<1> DEFINE ev == [kind |-> "PollSuccess", offer |-> AnyOffer, other |-> 0, active |-> FALSE]
<1>1. Final /\ PolicyStep /\ Named' = Named
  BY Quiet DEF Poll
<1>2. ev \in Named
  BY AnyOfferExists DEF Named, EventType, EventKinds
<1> HIDE DEF ev
<1>3. queue' = Append(queue, ev)
  BY DEF Poll, ev
<1>4. QueueOK'
  BY <1>1, <1>2, <1>3 DEF Inv, QueueOK, Poll
<1>5. CallerOK' /\ AnswerOK' /\ CallsBacked' /\ AllTold'
  BY <1>1, StillKeeps DEF Poll
<1>6. SteamOK' /\ AskedOK' /\ BudgetOK'
  BY DEF Poll, budgetVars, Inv, SteamOK, AskedOK, BudgetOK
<1> QED BY <1>1, <1>4, <1>5, <1>6 DEF Inv

LEMMA OutageKeeps ==
  ASSUME Inv, Outage
  PROVE  Inv' /\ PolicyStep
<1>1. Final /\ PolicyStep
  BY Quiet DEF Outage
<1>2. CallerOK' /\ AnswerOK' /\ CallsBacked' /\ AllTold'
  BY <1>1, StillKeeps DEF Outage
<1>3. QueueOK'
  BY QueueStays DEF Outage
<1>4. SteamOK' /\ AskedOK'
  BY DEF Outage, Inv, SteamOK, AskedOK
<1>5. BudgetOK'
  BY OffersAssumption DEF Outage, Inv, BudgetOK
<1> QED BY <1>1, <1>2, <1>3, <1>4, <1>5 DEF Inv

LEMMA ShutdownKeeps ==
  ASSUME Inv, Shutdown
  PROVE  Inv' /\ PolicyStep
<1>1. Final /\ PolicyStep
  BY Quiet DEF Shutdown, steamVars
<1>2. CallerOK' /\ AnswerOK' /\ CallsBacked' /\ AllTold'
  BY <1>1, StillKeeps DEF Shutdown
<1>3. QueueOK'
  BY QueueStays DEF Shutdown, steamVars
<1> QED BY <1>1, <1>2, <1>3
     DEF Shutdown, steamVars, budgetVars, Inv, SteamOK, AskedOK, BudgetOK

-----------------------------------------------------------------------------
(* The dispatcher's actions                                                  *)

\* The decision on an offer, known under either of its partner's names.
LEMMA DecideKeeps ==
  ASSUME Inv, Final, asked' = asked, answer' = answer, NEW left,
         NEW o \in Offers, NEW other \in Names(o), Decide(o, other, left)
  PROVE  CallerOK' /\ AnswerOK' /\ CallsBacked' /\ AllTold'
<1> SUFFICES ASSUME NEW verdict, verdict = Verdict(o, Normalized(other))
             PROVE  CallerOK' /\ AnswerOK' /\ CallsBacked' /\ AllTold'
  OBVIOUS
<1>1. Normalized(other) = terms[o].partner
  BY NamesNormalized DEF Inv
<1>2. verdict \in {"none", "accept", "decline"}
  BY DEF Verdict
<1>3. ASSUME verdict # "none"
      PROVE  Policy!Fits(verdict, o) /\ Policy!Wanted(verdict, o)
  BY <1>1, <1>3 DEF Verdict, Policy!Fits, Policy!Wanted, Inv, SteamOK
<1>4. Dispatcher \in Callers /\ CallerOK
  BY DEF Callers, Inv
<1>5. Moves(Dispatcher) /\ Backed(Dispatcher, caller[Dispatcher])'
  <2>1. CASE verdict = "none"
    <3>1. GoOn(left)
      BY <2>1 DEF Decide
    <3> QED BY <3>1, GoOnMoves
  <2>2. CASE verdict # "none"
    <3> DEFINE c == [pc |-> "call", op |-> verdict, offer |-> o, attempt |-> 0]
    <3>1. caller' = [caller EXCEPT ![Dispatcher] = c]
      BY <2>2 DEF Decide, StartCall
    <3>2. c \in CallType
      BY <1>2, <2>2, OffersAssumption DEF CallType, CallerPC, Operations
    <3>3. caller'[Dispatcher] = c
      BY <1>4, <3>1 DEF CallerOK
    <3>4. Moves(Dispatcher)
      BY <1>4, <3>1, <3>2 DEF Moves, CallerOK
    <3>5. Policy!Fits(verdict, o)' /\ Policy!Wanted(verdict, o)'
      BY <1>3, <2>2 DEF Policy!Fits, Policy!Wanted, Final
    <3>6. Backed(Dispatcher, c)'
      BY <3>5 DEF Backed, Warranted
    <3> QED BY <3>3, <3>4, <3>6
  <2> QED BY <2>1, <2>2
<1>6. CallsBacked'
  BY <1>4, <1>5, CallerMoves DEF Final
<1>7. AllTold'
  BY <1>5, DispatcherTellsNobody
<1> QED BY <1>5, <1>6, <1>7 DEF Moves, Inv, AnswerOK

LEMMA DispatchKeeps ==
  ASSUME Inv, Dispatch
  PROVE  Inv' /\ PolicyStep
<1> DEFINE Local == CallerOK' /\ AnswerOK' /\ CallsBacked' /\ AllTold'
<1>1. Dispatcher \in Callers
  BY DEF Callers
<1>2. ASSUME NEW kind, Dispatching(kind)
      PROVE  /\ Final /\ PolicyStep /\ Named' = Named
             /\ Head(queue) \in Named /\ queue' \in Seq(Named)
             /\ SteamOK' /\ AskedOK' /\ BudgetOK'
  <2>1. Final /\ PolicyStep /\ Named' = Named
    BY <1>2, Quiet DEF Dispatching, steamVars
  <2>2. Head(queue) \in Named /\ queue' \in Seq(Named)
    BY <1>2 DEF Dispatching, Inv, QueueOK
  <2> QED BY <1>2, <2>1, <2>2
      DEF Dispatching, steamVars, budgetVars, Inv, SteamOK, AskedOK, BudgetOK
<1>3. ASSUME NEW kind \in {"NewOffer", "OfferChanged"}, Dispatching(kind)
      PROVE  Head(queue).offer \in Offers /\ Head(queue).other \in Names(Head(queue).offer)
  BY <1>2, <1>3 DEF Dispatching, Named, EventType
<1>4. CASE HandleNewOffer
  <2>1. Dispatching("NewOffer") /\ todo' = todo
    BY <1>4 DEF HandleNewOffer
  <2>2. Local
    BY <1>2, <1>3, <1>4, <2>1, DecideKeeps DEF HandleNewOffer, Dispatching
  <2> QED BY <1>2, <2>1, <2>2 DEF Inv, QueueOK
<1>5. CASE HandleOfferChanged
  <2>1. Dispatching("OfferChanged") /\ todo' = todo
    BY <1>5 DEF HandleOfferChanged
  <2>2. Final
    BY <1>2, <2>1
  <2>3. CASE Decide(Head(queue).offer, Head(queue).other, todo)
    BY <1>2, <1>3, <2>1, <2>3, DecideKeeps DEF Dispatching, Inv, QueueOK
  <2>4. CASE UNCHANGED caller
    <3>1. Local
      BY <2>1, <2>2, <2>4, StillKeeps DEF Dispatching
    <3> QED BY <1>2, <2>1, <3>1 DEF Inv, QueueOK
  <2> QED BY <1>5, <2>3, <2>4 DEF HandleOfferChanged
<1>6. ASSUME Final, answer' = answer, asked' = asked, NEW left, GoOn(left)
      PROVE  Local
  <2>1. Moves(Dispatcher) /\ Backed(Dispatcher, caller[Dispatcher])'
    BY <1>6, GoOnMoves
  <2>2. CallsBacked'
    BY <1>1, <1>6, <2>1, CallerMoves DEF Final
  <2>3. AllTold'
    BY <1>6, <2>1, DispatcherTellsNobody
  <2> QED BY <1>6, <2>1, <2>2, <2>3 DEF Moves, Inv, AnswerOK
<1>7. CASE HandlePollSuccess
  <2>1. Dispatching("PollSuccess") /\ todo' = polled
    BY <1>7 DEF HandlePollSuccess
  <2>2. Local
    BY <1>2, <1>6, <1>7, <2>1 DEF HandlePollSuccess, Dispatching
  <2> QED BY <1>2, <2>1, <2>2 DEF Inv, QueueOK, SteamOK
<1>8. CASE Recheck
  <2>1. Final /\ PolicyStep /\ Named' = Named
    BY <1>8, Quiet DEF Recheck, steamVars
  <2>2. PICK o \in todo :
          /\ todo' = todo \ {o}
          /\ \/ \E other \in Names(o) : Decide(o, other, todo')
             \/ GoOn(todo')
    BY <1>8 DEF Recheck, Names
  <2>3. o \in Offers /\ todo' \subseteq Offers
    BY <2>2 DEF Inv, QueueOK
  <2>4. PICK left : left = todo'
    OBVIOUS
  <2>5. Local
    <3>1. CASE \E other \in Names(o) : Decide(o, other, left)
      BY <1>8, <2>1, <2>3, <3>1, DecideKeeps DEF Recheck
    <3>2. CASE GoOn(left)
      BY <1>6, <1>8, <2>1, <3>2 DEF Recheck
    <3> QED BY <2>2, <2>4, <3>1, <3>2
  <2> QED BY <1>8, <2>1, <2>3, <2>5
      DEF Recheck, steamVars, budgetVars, Inv, QueueOK, SteamOK, AskedOK, BudgetOK
<1>9. CASE DispatcherReturn
  <2>1. Final /\ PolicyStep
    BY <1>9, Quiet DEF DispatcherReturn, steamVars
  <2>2. caller' = [caller EXCEPT ![Dispatcher].pc = "returned"] /\ answer' = answer
    BY <1>9 DEF DispatcherReturn, Goto
  <2>3. Moves(Dispatcher) /\ caller'[Dispatcher].pc = "returned"
    BY <1>1, <2>2 DEF Moves, Inv, CallerOK, CallType, CallerPC
  <2>4. CallsBacked'
    BY <1>1, <1>9, <2>1, <2>3, CallerMoves DEF DispatcherReturn, Backed, Final
  <2>5. AllTold'
    BY <2>1, <2>2, <2>3, DispatcherTellsNobody
  <2>6. QueueOK'
    BY <1>9, QueueStays DEF DispatcherReturn, steamVars
  <2> QED BY <1>9, <2>1, <2>2, <2>3, <2>4, <2>5, <2>6
      DEF DispatcherReturn, Moves, steamVars, budgetVars, Inv, SteamOK, AnswerOK, AskedOK, BudgetOK
<1>10. CASE Call(Dispatcher)
  BY <1>1, <1>10, CallKeeps
<1> QED BY <1>4, <1>5, <1>7, <1>8, <1>9, <1>10 DEF Dispatch

-----------------------------------------------------------------------------
(* The operators' actions                                                    *)

LEMMA RequestKeeps ==
  ASSUME Inv, NEW t \in Operators, NEW op \in Operations, NEW o \in Offers,
         ExecuteAction(t, op, o)
  PROVE  Inv' /\ PolicyStep
<1> DEFINE c == [pc |-> "call", op |-> op, offer |-> o, attempt |-> 0]
<1>1. Final
  BY DEF ExecuteAction, steamVars, Final
<1>2. /\ t \in Callers /\ t # Dispatcher /\ <<op, o>> \in asked' /\ asked \subseteq asked'
      /\ caller' = [caller EXCEPT ![t] = c]
      /\ answer' = [answer EXCEPT ![t] = "none"]
  BY OffersAssumption DEF Callers, ExecuteAction, StartCall
<1>3. c \in CallType
  BY OffersAssumption DEF CallType, CallerPC
<1>4. Moves(t) /\ caller'[t] = c
  BY <1>2, <1>3 DEF Moves, Inv, CallerOK
<1>5. answer'[t] = "none" /\ \A u \in Operators \ {t} : answer'[u] = answer[u]
  BY <1>2 DEF Inv, AnswerOK
<1>6. Backed(t, caller[t])'
  BY <1>2, <1>4 DEF Backed, Warranted
<1>7. CallsBacked'
  BY <1>1, <1>2, <1>4, <1>6, CallerMoves DEF Final
<1>8. Told(caller[t], answer[t])'
  BY <1>4, <1>5 DEF Told
<1>9. AllTold'
  BY <1>1, <1>4, <1>5, <1>8, OperatorTold
<1>10. PolicyStep
  <2>1. Policy!Ask(op, o)
    BY DEF ExecuteAction, steamVars, Policy!Ask
  <2>2. op \in Policy!Operations
    BY DEF Operations, Policy!Operations
  <2> QED BY <2>1, <2>2 DEF PolicyStep, Policy!Next
<1>11. QueueOK' /\ SteamOK'
  BY QueueStays DEF ExecuteAction, steamVars, Inv, SteamOK
<1>12. AskedOK' /\ AnswerOK'
  BY <1>2 DEF ExecuteAction, Inv, AskedOK, AnswerOK
<1>13. BudgetOK'
  BY OffersAssumption DEF ExecuteAction, Inv, BudgetOK
<1> QED BY <1>4, <1>7, <1>9, <1>10, <1>11, <1>12, <1>13 DEF Inv, Moves

LEMMA CommunityKeeps ==
  ASSUME Inv, NEW t \in Operators, CommunityCancel(t)
  PROVE  Inv' /\ PolicyStep
<1> SUFFICES ASSUME NEW o, o = caller[t].offer PROVE Inv' /\ PolicyStep
  OBVIOUS
<1>1. /\ t \in Callers /\ CallerOK
      /\ caller[t].pc = "community" /\ caller[t].op = "cancel"
      /\ Warranted(t, "cancel", o)
      /\ answer[t] = "ok" => Settled("cancel", o)
  BY DEF Callers, Inv, CallsBacked, Backed, AllTold, Told, CommunityCancel, At
<1>2. o \in Offers /\ "cancel" \in Operations
  BY <1>1 DEF CallerOK, CallType, Operations
<1>3. UNCHANGED Rest /\ caller' = [caller EXCEPT ![t].pc = "idle"]
  BY DEF CommunityCancel, Goto
<1>4. /\ Moves(t) /\ caller'[t].pc = "idle" /\ caller'[t].op = "cancel"
      /\ caller'[t].offer = o
  BY <1>1, <1>3 DEF Moves, CallerOK, CallType, CallerPC
<1>5. /\ SteamOK' /\ Final /\ PolicyStep
      /\ Effect("cancel", o) => Settled("cancel", o)'
  <2>1. CASE Effect("cancel", o)
    BY <1>1, <1>2, <1>3, <2>1, EffectAllowed DEF Rest
  <2>2. CASE UNCHANGED steamVars /\ ~Effect("cancel", o)
    BY <1>3, <2>2 DEF Rest, steamVars, Inv, SteamOK, Final, PolicyStep
  <2> QED BY <2>1, <2>2 DEF CommunityCancel
<1>6. /\ answer' \in [Operators -> {"none", "ok", "refused", "error", "stopped", "posted", "gone"}]
      /\ \A u \in Operators \ {t} : answer'[u] = answer[u]
      /\ answer'[t] = "ok" => answer[t] = "ok"
  BY DEF CommunityCancel, Reported, Inv, AnswerOK
<1>7. answer'[t] = "ok" => Settled("cancel", o)'
  BY <1>1, <1>2, <1>5, <1>6, SettledStays DEF Inv, Final
<1>8. Told(caller[t], answer[t])' /\ Backed(t, caller[t])'
  BY <1>4, <1>7 DEF Told, Backed
<1>9. CallsBacked' /\ AllTold'
  BY <1>1, <1>3, <1>4, <1>5, <1>6, <1>8, CallerMoves, OperatorTold DEF Final, Rest
<1>10. QueueOK'
  BY <1>3, <1>5, QueueStays DEF Rest, Final
<1> QED BY <1>3, <1>4, <1>5, <1>6, <1>9, <1>10
    DEF Rest, budgetVars, Inv, Moves, AnswerOK, AskedOK, BudgetOK

-----------------------------------------------------------------------------
(* The theorems                                                              *)

LEMMA InitInv == Init => Inv
<1> SUFFICES ASSUME Init PROVE Inv
  OBVIOUS
<1>1. Resting \in CallType /\ Resting.pc = "idle"
  BY AnyOfferExists, OffersAssumption DEF Resting, CallType, CallerPC, Operations
<1>2. SteamOK /\ AskedOK /\ AnswerOK /\ BudgetOK
  <2>1. SteamOK
    BY DEF Init, SteamOK
  <2>2. AskedOK
    BY DEF Init, AskedOK
  <2>3. AnswerOK
    BY DEF Init, AnswerOK
  <2>4. BudgetOK
    BY OffersAssumption DEF Init, BudgetOK
  <2> QED BY <2>1, <2>2, <2>3, <2>4
<1>3. QueueOK
  BY DEF Init, QueueOK
<1>4. CallerOK /\ \A t \in Callers : caller[t].pc = "idle"
  BY <1>1 DEF Init, CallerOK
<1>5. CallsBacked
  BY <1>4 DEF CallsBacked, Backed
<1>6. AllTold
  BY <1>4 DEF Init, AllTold, Told, Callers
<1> QED BY <1>2, <1>3, <1>4, <1>5, <1>6 DEF Inv

LEMMA StepInv == Inv /\ [Next]_vars => Inv' /\ PolicyStep
<1> SUFFICES ASSUME Inv, [Next]_vars PROVE Inv' /\ PolicyStep
  OBVIOUS
<1>1. CASE Dispatch
  BY <1>1, DispatchKeeps
<1>2. ASSUME NEW t \in Operators, Operate(t) PROVE Inv' /\ PolicyStep
  BY <1>2, RequestKeeps, CallKeeps, CommunityKeeps DEF Operate, Callers
<1>3. CASE Environment
  BY <1>3, PartnerKeeps, PublishKeeps, PollKeeps, OutageKeeps DEF Environment
<1>4. CASE Shutdown
  BY <1>4, ShutdownKeeps
<1>5. CASE UNCHANGED vars
  <2>1. Final /\ PolicyStep
    BY <1>5, Quiet DEF vars, steamVars
  <2>2. CallerOK' /\ AnswerOK' /\ CallsBacked' /\ AllTold'
    BY <1>5, <2>1, StillKeeps DEF vars
  <2>3. QueueOK'
    BY <1>5, QueueStays DEF vars, steamVars
  <2> QED BY <1>5, <2>1, <2>2, <2>3
      DEF vars, steamVars, budgetVars, Inv, SteamOK, AskedOK, BudgetOK
<1> QED BY <1>1, <1>2, <1>3, <1>4, <1>5 DEF Next

\* The invariant holds in every state of every behaviour: types, and that each call
\* under way is warranted.
LEMMA InvAlways == Spec => []Inv
<1>1. Init => Inv
  BY InitInv
<1>2. Inv /\ [Next]_vars => Inv'
  BY StepInv
<1> QED BY <1>1, <1>2, PTL DEF Spec

\* Type correctness of the offers, events and callers; no call is repeated more than
\* MaxRetries times (retryOnRetriable).
THEOREM OffersTypeCorrect == Spec => []TypeOK
<1>1. Inv => TypeOK
  <2>1. Named \subseteq [kind : EventKinds, offer : Offers, active : BOOLEAN,
                         other : {0} \cup Accounts \cup SteamIDs]
    BY DEF Named, EventType
  <2>2. QueueOK => queue \in Seq([kind : EventKinds, offer : Offers, active : BOOLEAN,
                                  other : {0} \cup Accounts \cup SteamIDs])
    BY <2>1, SeqMonotonic DEF QueueOK
  <2> QED BY <2>2 DEF Inv, TypeOK, SteamOK, QueueOK, CallerOK, CallType, AnswerOK, AskedOK, BudgetOK
<1> QED BY <1>1, InvAlways, PTL

\* Every step of the daemon is one the policy allows, for every pair of lists and every
\* order of events, polls, retries, lost answers and requests
\* (handleTrustedOrExcludedOffer, actionAcceptOffer, actionDeclineOffer,
\* actionCancelOffer).
THEOREM OffersImplementPolicy == Spec => PolicyKept
<1>1. Init => Policy!Init
  BY DEF Init, Policy!Init
<1>2. Inv /\ [Next]_vars => [Policy!Next]_<<state, terms, asked>>
  BY StepInv DEF PolicyStep
<1> QED BY <1>1, <1>2, InvAlways, PTL DEF Spec, PolicyKept, Policy!Spec

\* A successful answer to accept-offer, decline-offer or cancel-offer is true.
THEOREM OffersAnswersTrue == Spec => []AnswersTrue
<1>1. Inv => AnswersTrue
  BY DEF Inv, AllTold, Told, AnswersTrue, Settled, At
<1> QED BY <1>1, InvAlways, PTL

-----------------------------------------------------------------------------
(* What the policy means for an offer                                        *)

\* An ended offer bears its reason: what the daemon received was accepted for a trusted
\* partner who is not excluded, or because an operator had asked; it was declined for an
\* excluded one, or on request; and an offer of its own was canceled on request.
EndsExplained ==
  \A o \in Offers :
    /\ state[o] = "accepted" /\ ~terms[o].ours
         => terms[o].partner \in Trusted \ Excluded \/ <<"accept", o>> \in asked
    /\ state[o] = "declined" /\ ~terms[o].ours
         => terms[o].partner \in Excluded \/ <<"decline", o>> \in asked
    /\ state[o] = "canceled" /\ terms[o].ours => <<"cancel", o>> \in asked

\* A step the policy allows changes no offer that has ended.
LEMMA PolicyFinal ==
  ASSUME SteamOK, PolicyStep
  PROVE  Final
<1>1. ASSUME NEW o \in Offers, NEW outcome, Policy!Ends(o, outcome) PROVE Final
  BY <1>1 DEF Policy!Ends, SteamOK, Final
<1>2. ASSUME NEW o \in Offers, NEW op, Policy!Ask(op, o) PROVE Final
  BY <1>2 DEF Policy!Ask, Final
<1>3. ASSUME NEW o \in Offers, Policy!Partner(o) PROVE Final
  BY <1>1, <1>3 DEF Policy!Partner
<1>4. CASE Policy!Next
  BY <1>1, <1>2, <1>3, <1>4 DEF Policy!Next, Policy!Automatic, Policy!OnRequest
<1> QED BY <1>4 DEF PolicyStep, Final

LEMMA ExplainedStep ==
  ASSUME Inv, EndsExplained, PolicyStep
  PROVE  EndsExplained'
<1>1. /\ SteamOK /\ Final
  BY PolicyFinal DEF Inv
<1>2. asked \subseteq asked'
  BY DEF PolicyStep, Policy!Next, Policy!Automatic, Policy!OnRequest, Policy!Ends, Policy!Ask,
         Policy!Partner
<1>3. ASSUME NEW o \in Offers, state[o] = "active"
      PROVE  /\ state'[o] = "accepted" /\ ~terms[o].ours
                  => terms[o].partner \in Trusted \ Excluded \/ <<"accept", o>> \in asked
             /\ state'[o] = "declined" /\ ~terms[o].ours
                  => terms[o].partner \in Excluded \/ <<"decline", o>> \in asked
             /\ state'[o] = "canceled" /\ terms[o].ours => <<"cancel", o>> \in asked
  <2>1. ASSUME NEW p \in Offers, NEW outcome, Policy!Ends(p, outcome)
        PROVE  state'[o] = IF o = p THEN outcome ELSE "active"
    BY <1>1, <1>3, <2>1 DEF Policy!Ends, SteamOK
  <2>2. CASE state' = state
    BY <1>3, <2>2
  <2>3. ASSUME NEW p \in Offers, Policy!Partner(p)
        PROVE  state'[o] = "active" \/ state'[o] \in IF terms[o].ours THEN {"accepted", "declined"}
                                                     ELSE {"canceled"}
    BY <2>1, <2>3 DEF Policy!Partner
  <2>4. ASSUME NEW p \in Offers, NEW op \in Policy!Operations,
               Policy!Automatic(op, p) \/ Policy!OnRequest(op, p)
        PROVE  /\ o # p => state'[o] = "active"
               /\ state'[p] = Policy!Outcome[op]
               /\ (op = "cancel") = terms[p].ours
               /\ \/ op = "decline" /\ terms[p].partner \in Excluded
                  \/ op = "accept" /\ terms[p].partner \in Trusted \ Excluded
                  \/ <<op, p>> \in asked
    <3>1. Policy!Ends(p, Policy!Outcome[op])
      BY <2>4 DEF Policy!Automatic, Policy!OnRequest
    <3>2. state'[p] = Policy!Outcome[op]
      BY <1>1, <3>1 DEF Policy!Ends, SteamOK
    <3> QED BY <2>1, <2>4, <3>1, <3>2
        DEF Policy!Automatic, Policy!OnRequest, Policy!Fits, Policy!Wanted
  <2>5. ASSUME NEW p \in Offers, NEW op, Policy!Ask(op, p) PROVE state' = state
    BY <2>5 DEF Policy!Ask
  <2>6. \A op \in Policy!Operations :
          /\ op \in {"accept", "decline", "cancel"}
          /\ Policy!Outcome[op] = CASE op = "accept" -> "accepted" [] op = "decline" -> "declined"
                                    [] op = "cancel" -> "canceled"
    BY DEF Policy!Operations, Policy!Outcome
  <2>7. CASE \E p \in Offers, op \in Policy!Operations :
               Policy!Automatic(op, p) \/ Policy!OnRequest(op, p)
    <3>1. PICK p \in Offers, op \in Policy!Operations :
               Policy!Automatic(op, p) \/ Policy!OnRequest(op, p)
      BY <2>7
    <3> QED BY <3>1, <2>4, <2>6
  <2> QED BY <2>2, <2>3, <2>5, <2>7 DEF PolicyStep, Policy!Next
<1> QED BY <1>1, <1>2, <1>3 DEF EndsExplained, Final

\* Whatever the order of events, polls, retries and requests: no offer of an excluded
\* partner is accepted, no offer of a stranger is decided, unless somebody has asked for
\* it (handleTrustedOrExcludedOffer and the three actions of trading.go).
THEOREM OffersEndsExplained == Spec => []EndsExplained
<1>1. Init => EndsExplained
  BY DEF Init, EndsExplained
<1>2. Inv /\ EndsExplained /\ [Next]_vars => EndsExplained'
  BY StepInv, ExplainedStep
<1> QED BY <1>1, <1>2, InvAlways, PTL DEF Spec

-----------------------------------------------------------------------------
(* Refusals                                                                  *)

\* An operator whose request was refused finds an offer that is no longer active, or
\* one that the operation does not fit, from then on.
RefusedTrue ==
  \A t \in Operators : answer[t] = "refused" => ~Allowed(caller[t].op, caller[t].offer)

LEMMA RefusedStep ==
  ASSUME Inv, RefusedTrue, [Next]_vars
  PROVE  RefusedTrue'
<1>1. Final /\ CallerOK /\ AnswerOK
  BY StepInv, PolicyFinal DEF Inv
<1> SUFFICES ASSUME NEW t \in Operators, answer'[t] = "refused"
             PROVE  ~Allowed(caller[t].op, caller[t].offer)'
  BY DEF RefusedTrue
<1>2. t \in Callers /\ t # Dispatcher /\ caller[t] \in CallType
  BY <1>1, OffersAssumption DEF Callers, CallerOK
<1>3. caller[t].offer \in Offers
  BY <1>2 DEF CallType
<1>4. CASE answer'[t] = answer[t] /\ caller'[t].op = caller[t].op /\ caller'[t].offer = caller[t].offer
  <2>1. ~Allowed(caller[t].op, caller[t].offer)
    BY <1>4 DEF RefusedTrue
  <2> QED BY <1>1, <1>3, <1>4, <2>1 DEF Allowed, Final
<1>5. CASE caller'[t] = caller[t] /\ answer'[t] = answer[t]
  BY <1>4, <1>5
<1>6. ASSUME NEW op, NEW o, ExecuteAction(t, op, o) PROVE FALSE
  BY <1>1, <1>6 DEF ExecuteAction, AnswerOK
<1>7. CASE Call(t)
  <2>1. caller'[t].op = caller[t].op /\ caller'[t].offer = caller[t].offer
    <3>1. \A pc : Goto(t, pc) => caller'[t].op = caller[t].op /\ caller'[t].offer = caller[t].offer
      BY <1>1, <1>2 DEF Goto, CallerOK, CallType
    <3>2. \A said : Finish(t, said) => caller'[t].op = caller[t].op /\ caller'[t].offer = caller[t].offer
      BY <1>1, <1>2 DEF Finish, CallerOK, CallType
    <3>3. Backoff(t) => caller'[t].op = caller[t].op /\ caller'[t].offer = caller[t].offer
      BY <1>1, <1>2 DEF Backoff, CallerOK, CallType
    <3> QED BY <1>7, <3>1, <3>2, <3>3 DEF Call, Attempt, GiveUp, Transient
  <2>2. CASE Attempt(t)
    <3>1. answer[t] # "refused"
      BY <2>2 DEF Attempt, At, Inv, AllTold, Told
    <3>2. ~Finish(t, "ok") /\ ~Finish(t, "error") /\ ~Finish(t, "stopped")
      BY <1>1, <1>2 DEF Finish, AnswerOK
    <3>3. ~Transient(t)
      BY <3>1, <3>2 DEF Transient
    <3>4. ~Allowed(caller[t].op, caller[t].offer) /\ UNCHANGED <<state, terms>>
      BY <2>2, <3>2, <3>3 DEF Attempt, steamVars
    <3> QED BY <2>1, <3>4 DEF Allowed
  <2>3. CASE Backoff(t)
    BY <1>4, <2>1, <2>3 DEF Backoff
  <2>4. CASE GiveUp(t)
    BY <1>1, <1>2, <2>4 DEF GiveUp, Finish, AnswerOK
  <2> QED BY <1>7, <2>2, <2>3, <2>4 DEF Call
<1>8. CASE CommunityCancel(t)
  <2>1. /\ caller'[t].op = caller[t].op /\ caller'[t].offer = caller[t].offer
        /\ answer'[t] \in {"posted"} \cup Reported(answer[t])
    BY <1>1, <1>2, <1>8 DEF CommunityCancel, Goto, CallerOK, AnswerOK, CallType
  <2>2. answer'[t] = answer[t]
    BY <2>1 DEF Reported
  <2> QED BY <1>4, <2>1, <2>2
<1>9. ASSUME NEW u \in Operators, Operate(u), u # t PROVE caller'[t] = caller[t] /\ answer'[t] = answer[t]
  BY <1>1, <1>2, <1>9
  DEF Operate, ExecuteAction, StartCall, Call, Attempt, Backoff, GiveUp, CommunityCancel, Transient,
      Finish, GoOn, Goto, CallerOK, AnswerOK
<1>10. CASE Dispatch
  <2>1. answer'[t] = answer[t]
    BY <1>10, <1>2 DEF Dispatch, HandleNewOffer, HandleOfferChanged, HandlePollSuccess, Dispatching,
       Recheck, DispatcherReturn, Call, Attempt, Backoff, GiveUp, Transient, Finish
  <2>2. caller'[t] = caller[t]
    <3>1. \A left : GoOn(left) => caller'[t] = caller[t]
      BY <1>1, <1>2 DEF GoOn, CallerOK
    <3>2. \A o, other, left : Decide(o, other, left) => caller'[t] = caller[t]
      BY <1>1, <1>2, <3>1 DEF Decide, StartCall, CallerOK
    <3>3. \A pc : Goto(Dispatcher, pc) => caller'[t] = caller[t]
      BY <1>1, <1>2 DEF Goto, CallerOK
    <3>4. Call(Dispatcher) => caller'[t] = caller[t]
      BY <1>1, <1>2, <3>1, <3>3 DEF Call, Attempt, Backoff, GiveUp, Transient, Finish, CallerOK
    <3> QED BY <1>10, <3>1, <3>2, <3>3, <3>4
        DEF Dispatch, HandleNewOffer, HandleOfferChanged, HandlePollSuccess, Recheck, DispatcherReturn
  <2> QED BY <1>5, <2>1, <2>2
<1>11. CASE Environment \/ Shutdown
  BY <1>5, <1>11 DEF Environment, PartnerActs, Publish, Poll, Outage, Shutdown
<1>12. CASE UNCHANGED vars
  BY <1>5, <1>12 DEF vars
<1> QED BY <1>5, <1>6, <1>7, <1>8, <1>9, <1>10, <1>11, <1>12 DEF Next, Operate

\* A refusal is true too: the operator is not told so because of an outage, and nobody
\* can make the offer acceptable again (actionAcceptOffer, actionDeclineOffer).
THEOREM OffersRefusedTrue == Spec => []RefusedTrue
<1>1. Init => RefusedTrue
  BY DEF Init, RefusedTrue
<1>2. Inv /\ RefusedTrue /\ [Next]_vars => RefusedTrue'
  BY RefusedStep
<1> QED BY <1>1, <1>2, InvAlways, PTL DEF Spec

-----------------------------------------------------------------------------
(* The dispatcher gets on                                                    *)

\* How far a goroutine is from the end of its call, in steps.
Rank(c) ==
  IF c.pc = "returned" THEN 0
  ELSE IF c.pc = "idle" THEN 1
  ELSE IF c.pc = "recheck" THEN 2
  ELSE 2 * (MaxRetries - c.attempt) + (IF c.pc = "call" THEN 4 ELSE 3)

\* Less is left to do: an event less, else an offer less to fetch, else a step less of
\* the call under way.
Descends ==
  \/ Len(queue') < Len(queue)
  \/ /\ queue' = queue
     /\ \/ todo' \subseteq todo /\ todo' # todo
        \/ todo' = todo /\ Rank(caller[Dispatcher])' < Rank(caller[Dispatcher])

\* The dispatcher never goes round in a circle: each of its steps leaves it less to do,
\* whatever Steam answers, and nobody else gives it work but through the queue
\* (handleEvents, checkAndProcessActiveOffers, retryOnRetriable).
DispatcherDescends ==
  [][IF Dispatch THEN Descends ELSE UNCHANGED <<todo, caller[Dispatcher]>>]_vars

\* The loop ends: what is left of the call drops to what is left after it.
LEMMA FinishDescends ==
  ASSUME Inv, NEW left, GoOn(left), caller[Dispatcher].pc \in {"call", "wait"}
  PROVE  Rank(caller[Dispatcher])' < Rank(caller[Dispatcher])
<1>1. caller[Dispatcher] \in CallType /\ CallerOK /\ MaxRetries \in Nat
  BY OffersAssumption DEF Inv, CallerOK, Callers
<1>2. caller'[Dispatcher].pc \in {"idle", "recheck"}
  BY <1>1 DEF GoOn, Resting, CallerOK, Callers
<1>3. Rank(caller[Dispatcher])' \in {1, 2}
  BY <1>2 DEF Rank
<1>4. caller[Dispatcher].attempt \in 0 .. MaxRetries
  BY <1>1 DEF CallType
<1>5. Rank(caller[Dispatcher]) >= 3
  BY <1>1, <1>4 DEF Rank
<1>6. Rank(caller[Dispatcher]) \in Int
  BY <1>1, <1>4 DEF Rank
<1> QED BY <1>3, <1>5, <1>6

LEMMA CallDescends ==
  ASSUME Inv, Call(Dispatcher)
  PROVE  Rank(caller[Dispatcher])' < Rank(caller[Dispatcher])
<1> DEFINE c == caller[Dispatcher]
<1>1. c \in CallType /\ CallerOK /\ MaxRetries \in Nat /\ Dispatcher \in Callers
  BY OffersAssumption DEF Inv, CallerOK, Callers
<1>2. c.pc \in {"call", "wait"} /\ c.attempt \in 0 .. MaxRetries
  BY <1>1 DEF Call, Attempt, Backoff, GiveUp, At, CallType
<1>3. ASSUME NEW said, Finish(Dispatcher, said) PROVE Rank(c)' < Rank(c)
  BY <1>2, <1>3, FinishDescends DEF Finish
<1>4. CASE Goto(Dispatcher, "wait") /\ c.pc = "call"
  <2>1. c'.pc = "wait" /\ c'.attempt = c.attempt
    BY <1>1, <1>4 DEF Goto, CallerOK, CallType
  <2>2. Rank(c) = 2 * (MaxRetries - c.attempt) + 4
    BY <1>4 DEF Rank
  <2>3. Rank(c)' = 2 * (MaxRetries - c.attempt) + 3
    BY <2>1 DEF Rank
  <2> QED BY <1>1, <1>2, <2>2, <2>3
<1>5. CASE Backoff(Dispatcher)
  <2>1. c'.pc = "call" /\ c'.attempt = c.attempt + 1
    BY <1>1, <1>5 DEF Backoff, CallerOK, CallType
  <2>2. Rank(c) = 2 * (MaxRetries - c.attempt) + 3
    BY <1>5 DEF Rank, Backoff, At
  <2>3. Rank(c)' = 2 * (MaxRetries - (c.attempt + 1)) + 4
    BY <2>1 DEF Rank
  <2> QED BY <1>1, <1>2, <2>2, <2>3
<1> QED BY <1>3, <1>4, <1>5 DEF Call, Attempt, GiveUp, Transient, At

LEMMA DispatchDescends ==
  ASSUME Inv, Dispatch
  PROVE  Descends
<1>1. ASSUME NEW kind, Dispatching(kind) PROVE Len(queue') < Len(queue)
  <2>1. queue # << >> /\ queue' = Tail(queue) /\ queue \in Seq(Named)
    BY <1>1 DEF Dispatching, Inv, QueueOK
  <2> QED BY <2>1
<1>2. CASE HandleNewOffer \/ HandleOfferChanged \/ HandlePollSuccess
  BY <1>1, <1>2 DEF HandleNewOffer, HandleOfferChanged, HandlePollSuccess, Descends
<1>3. CASE Recheck
  BY <1>3 DEF Recheck, Descends
<1>4. CASE DispatcherReturn
  <2>1. caller'[Dispatcher].pc = "returned" /\ caller[Dispatcher].pc = "idle"
    BY <1>4 DEF DispatcherReturn, Goto, At, Inv, CallerOK, CallType, Callers
  <2>2. Rank(caller[Dispatcher])' = 0 /\ Rank(caller[Dispatcher]) = 1
    BY <2>1 DEF Rank
  <2> QED BY <1>4, <2>2 DEF DispatcherReturn, Descends
<1>5. CASE Call(Dispatcher)
  <2>1. queue' = queue /\ todo' = todo
    BY <1>5 DEF Call, Attempt, Backoff, GiveUp, Rest
  <2> QED BY <1>5, <2>1, CallDescends DEF Descends
<1> QED BY <1>2, <1>3, <1>4, <1>5 DEF Dispatch

\* An operator's step moves nobody but the operator.
LEMMA OperatorAlone ==
  ASSUME Inv, NEW t \in Operators, Operate(t)
  PROVE  UNCHANGED <<todo, caller[Dispatcher]>>
<1>1. t # Dispatcher /\ CallerOK
  BY OffersAssumption DEF Inv
<1>2. caller'[Dispatcher] = caller[Dispatcher]
  BY <1>1 DEF Operate, ExecuteAction, StartCall, Call, Attempt, Backoff, GiveUp, CommunityCancel,
              Transient, Finish, Goto, CallerOK, Callers
<1>3. todo' = todo
  BY DEF Operate, ExecuteAction, Call, Attempt, Backoff, GiveUp, CommunityCancel, Rest
<1> QED BY <1>2, <1>3

\* The core of ListedHandled's argument, for every number of offers, events and retries.
THEOREM OffersDispatcherDescends == Spec => DispatcherDescends
<1>1. Inv /\ [Next]_vars
        => [IF Dispatch THEN Descends ELSE UNCHANGED <<todo, caller[Dispatcher]>>]_vars
  <2> SUFFICES ASSUME Inv, Next, ~Dispatch PROVE UNCHANGED <<todo, caller[Dispatcher]>>
    BY DispatchDescends
  <2>1. CASE \E t \in Operators : Operate(t)
    BY <2>1, OperatorAlone
  <2>2. CASE Environment \/ Shutdown
    BY <2>2 DEF Environment, PartnerActs, Publish, Poll, Outage, Shutdown
  <2> QED BY <2>1, <2>2 DEF Next
<1> QED BY <1>1, InvAlways, PTL DEF Spec, DispatcherDescends
=============================================================================
