------------------------------- MODULE ChatTrade -------------------------------
(***************************************************************************)
(* Trades asked for in the chat of g-mand (listenForEcpMessages and        *)
(* handleEcpMessage in cmd/g-mand/chatcmd.go).  One goroutine takes a      *)
(* message at a time: it looks the word up in the Easy Copy Paste engine   *)
(* (pkg/tf2/ecp), selects what to give and what to ask for by the manual   *)
(* prices, locks what it gives, sends the offer, and unlocks if that fails.*)
(*                                                                         *)
(* Stock and theirs are the tradable assets of account and partner at      *)
(* Steam; cache and locked are the library's.  Metal is counted in         *)
(* hundredths of a refined metal, as prices are written.  Nothing on the   *)
(* way of a price from gmanctl to the map looks at its value: metal may be *)
(* negative, NaN, or infinite, which stands for all amounts whose scrap no *)
(* integer holds.                                                          *)
(***************************************************************************)
EXTENDS Integers, FiniteSets

CONSTANTS
  BotAssets, PartnerAssets,
  Kind,          \* the SKU of each asset
  Words,         \* the words of messages
  Variants,      \* per SKU: the words the engine makes of the item's name
  Quantities,
  Priced, Entries,  \* the SKUs operators set prices for, and the entries they set
  NaN, Infinity,    \* the amounts of metal that are no number
  Starts,        \* how a behaviour may begin: see StartOK
  MaxMessages,   \* bound: messages in a behaviour
  MaxChanges     \* bound: changes of prices and of the stock

Assets == BotAssets \cup PartnerAssets
SKUs == DOMAIN Variants
Money == {"key", "refined", "reclaimed", "scrap"}
Intents == {"buy", "sell"}
Amounts == Int \cup {NaN, Infinity}
Entry == [buyKeys : Nat, buyMetal : Amounts, sellKeys : Nat, sellMetal : Amounts]

\* What account and partner have, the entries that are set already, and how many of the
\* messages are behind.
StartOK(s) ==
  /\ s.bot \subseteq BotAssets /\ s.partner \subseteq PartnerAssets
  /\ s.entries \subseteq Entries
  /\ s.messages \in 0 .. MaxMessages

ASSUME ChatAssumption ==
  /\ BotAssets \cap PartnerAssets = {}
  /\ IsFiniteSet(Assets)
  /\ Money \subseteq SKUs
  /\ Kind \in [Assets -> SKUs]
  /\ Variants \in [SKUs -> SUBSET Words]
  /\ Priced \subseteq SKUs
  /\ Quantities \subseteq Nat \ {0}
  /\ NaN \notin Int /\ Infinity \notin Int /\ NaN # Infinity
  /\ Entries \subseteq Entry
  /\ MaxMessages \in Nat /\ MaxChanges \in Nat
  /\ \A s \in Starts : StartOK(s)

VARIABLES
  stock, cache,  \* the account's assets, and the tf2 module's cache of them
  theirs,        \* the partner's assets
  prices,        \* the manual prices: an entry for some of the SKUs
  registered,    \* the SKUs whose names the engine knows (mappedItems)
  locked,        \* the assets locked in the backpack module
  listener,      \* the goroutine: where it is, and what it is working on
  offers,        \* the offers made
  contested,     \* history: the assets unlocked after a failed attempt
  messages, changes

market == <<stock, cache, theirs, prices>>
vars == <<market, registered, locked, listener, offers, contested, messages, changes>>

NoDeal == [intent |-> "buy", target |-> "key", quantity |-> 0, pool |-> {},
           price |-> [buyKeys |-> 0, buyMetal |-> 0, sellKeys |-> 0, sellMetal |-> 0],
           give |-> {}, receive |-> {}]
Idle == [pc |-> "idle", deal |-> NoDeal]

-----------------------------------------------------------------------------
(* Selection                                                               *)

\* ToScrap (external) rounds to the nearest scrap; nine make a refined metal.
ToScrap(metal) == (9 * metal + 50) \div 100

None == [k \in SKUs |-> 0]
Of(kind, n) == [None EXCEPT ![kind] = n]

MetalToItems(metal) ==
  LET rem == ToScrap(metal) % 9
  IN [None EXCEPT !["refined"] = ToScrap(metal) \div 9,
                  !["reclaimed"] = rem \div 3, !["scrap"] = rem % 3]

Plus(f, g) == [k \in SKUs |-> f[k] + g[k]]

Ceil(a, b) == (a + b - 1) \div b

Times(metal, q) == IF metal \in Int THEN metal * q ELSE metal

\* Metal is selected if it is more than nothing.  An infinite amount becomes numbers of
\* items that are below zero, or more than there are: nothing is selected, or it fails.
SelectMetal(metal) == IF metal \in Int /\ metal > 0 THEN MetalToItems(metal) ELSE None

\* Mutant: the metal is not multiplied.
EntryMoney_Once(intent, p, q) ==
  IF intent = "buy"
  THEN Plus(Of("key", p.sellKeys), SelectMetal(p.sellMetal))
  ELSE Plus(Of("key", p.buyKeys * q), SelectMetal(p.buyMetal))

\* What an entry asks for, or gives: the keys of a sale are not multiplied.
EntryMoney(intent, p, q) ==
  IF intent = "buy"
  THEN Plus(Of("key", p.sellKeys), SelectMetal(Times(p.sellMetal, q)))
  ELSE Plus(Of("key", p.buyKeys * q), SelectMetal(Times(p.buyMetal, q)))

\* Refined metal for keys at so much metal a key: the keys, and the metal that makes up
\* the difference.  A rate that is no number makes both zero or less, or NaN; a finite
\* one that is too large is worth more than all the metal.
Exchanges(intent, rate, q) ==
  IF rate \in Int
  THEN LET keys == IF intent = "buy" THEN Ceil(100 * q, rate) ELSE (100 * q) \div rate
           rest == IF intent = "buy" THEN keys * rate - 100 * q ELSE 100 * q - keys * rate
       IN IF rate <= 0 THEN {} ELSE {[keys |-> keys, metal |-> rest]}
  ELSE {[keys |-> 0, metal |-> 0]} \cup
       {x \in {IF intent = "buy" THEN [keys |-> 1, metal |-> 0]
               ELSE [keys |-> 0, metal |-> 100 * q]} : rate = Infinity}

Rate(intent, p) == IF intent = "buy" THEN p.buyMetal ELSE p.sellMetal

\* How many of each SKU go each way, and at which price; none if there is no price.
\* Refined metal without a price of its own is exchanged for keys.
Deals(intent, target, q) ==
  IF target \in DOMAIN prices
  THEN {[price |-> prices[target], item |-> Of(target, q),
         money |-> EntryMoney(intent, prices[target], q)]}
  ELSE IF target = "refined" /\ "key" \in DOMAIN prices
  THEN {[price |-> prices["key"],
         item |-> IF intent = "buy" THEN Plus(Of("refined", q), SelectMetal(x.metal))
                  ELSE Of("refined", q),
         money |-> IF intent = "buy" THEN Of("key", x.keys)
                   ELSE Plus(Of("key", x.keys), SelectMetal(x.metal))] :
          x \in Exchanges(intent, Rate(intent, prices["key"]), q)}
  ELSE {}

OfKind(S, k) == {a \in S : Kind[a] = k}

\* selectInventoryItems and selectMetal: distinct assets of the pool, so many of each SKU.
Selections(pool, counts) ==
  {S \in SUBSET pool : \A k \in SKUs : Cardinality(OfKind(S, k)) = counts[k]}

-----------------------------------------------------------------------------
(* The listener                                                            *)

\* populateEcpEngine: the names of money, of everything priced and of everything cached.
Populated == registered \cup Money \cup DOMAIN prices \cup {Kind[a] : a \in cache}

\* findMappedValue: of several names with the word the map's order decides.
Lookup(word) == {s \in Populated : word \in Variants[s]}

\* A message for an item the engine knows; the account's pool is read before the
\* partner's inventory is fetched.
HandleEcpMessage(intent, word, q) ==
  /\ listener.pc = "idle"
  /\ messages < MaxMessages
  /\ messages' = messages + 1
  /\ registered' = Populated
  /\ \/ \E target \in Lookup(word) :
          listener' = [pc |-> "fetch",
                       deal |-> [NoDeal EXCEPT !.intent = intent, !.target = target,
                                               !.quantity = q, !.pool = cache]]
     \/ /\ Lookup(word) = {}
        /\ UNCHANGED listener
  /\ UNCHANGED <<market, locked, offers, contested, changes>>

Selected(d, price, give, receive) ==
  [intent |-> d.intent, target |-> d.target, quantity |-> d.quantity, pool |-> {},
   price |-> price, give |-> give, receive |-> receive]

\* Mutant: each side's assets are taken from the other's pool.
SelectTradeItems_Swapped ==
  /\ listener.pc = "fetch"
  /\ LET d == listener.deal
     IN \E deal \in Deals(d.intent, d.target, d.quantity) :
          LET buy == d.intent = "buy"
          IN \E give \in Selections(theirs, IF buy THEN deal.item ELSE deal.money),
                receive \in Selections(d.pool, IF buy THEN deal.money ELSE deal.item) :
               /\ listener' = [pc |-> "send", deal |-> Selected(d, deal.price, give, receive)]
               /\ locked' = locked \cup give
  /\ UNCHANGED <<market, registered, offers, contested, messages, changes>>

\* The partner's inventory arrives; the assets are selected and locked.
SelectTradeItems ==
  /\ listener.pc = "fetch"
  /\ LET d == listener.deal
     IN \E deal \in Deals(d.intent, d.target, d.quantity) :
          LET buy == d.intent = "buy"
          IN \E give \in Selections(d.pool, IF buy THEN deal.item ELSE deal.money),
                receive \in Selections(theirs, IF buy THEN deal.money ELSE deal.item) :
               /\ listener' = [pc |-> "send", deal |-> Selected(d, deal.price, give, receive)]
               /\ locked' = locked \cup give
  /\ UNCHANGED <<market, registered, offers, contested, messages, changes>>

\* No inventory, no price or not enough of something.
SelectionFails ==
  /\ listener.pc = "fetch"
  /\ listener' = Idle
  /\ UNCHANGED <<market, registered, locked, offers, contested, messages, changes>>

\* Steam takes offers of what both sides own.
Makes(deal, answered) ==
  /\ deal.give \subseteq stock /\ deal.receive \subseteq theirs
  /\ offers' = offers \cup {[id |-> messages, deal |-> deal, pending |-> TRUE,
                             answered |-> answered]}

\* Mutant: the assets are unlocked as soon as the offer is out.
SendOffer_Unlocks ==
  /\ listener.pc = "send"
  /\ Makes(listener.deal, TRUE)
  /\ listener' = Idle
  /\ locked' = locked \ listener.deal.give
  /\ UNCHANGED <<market, registered, contested, messages, changes>>

SendOffer ==
  /\ listener.pc = "send"
  /\ Makes(listener.deal, TRUE)
  /\ listener' = Idle
  /\ UNCHANGED <<market, registered, locked, contested, messages, changes>>

\* Mutant: the assets stay locked.
SendFails_KeepsLocks ==
  /\ listener.pc = "send"
  /\ UNCHANGED offers \/ Makes(listener.deal, FALSE)
  /\ listener' = Idle
  /\ contested' = contested \cup listener.deal.give
  /\ UNCHANGED <<market, registered, locked, messages, changes>>

\* The call fails, be it that the offer was made and the answer lost.
SendFails ==
  /\ listener.pc = "send"
  /\ UNCHANGED offers \/ Makes(listener.deal, FALSE)
  /\ listener' = Idle
  /\ locked' = locked \ listener.deal.give
  /\ contested' = contested \cup listener.deal.give
  /\ UNCHANGED <<market, registered, messages, changes>>

-----------------------------------------------------------------------------
(* Others                                                                  *)

\* An offer ends: the assets change hands, or nothing happens.
OfferEnds(o) ==
  /\ o.pending
  /\ offers' = (offers \ {o}) \cup {[o EXCEPT !.pending = FALSE]}
  /\ \/ UNCHANGED market
     \/ /\ o.deal.give \subseteq stock /\ o.deal.receive \subseteq theirs
        /\ stock' = stock \ o.deal.give
        /\ theirs' = theirs \ o.deal.receive
        /\ UNCHANGED <<cache, prices>>
  /\ UNCHANGED <<registered, locked, listener, contested, messages, changes>>

SyncCache ==
  /\ cache # stock
  /\ cache' = stock
  /\ UNCHANGED <<stock, theirs, prices, registered, locked, listener, offers, contested,
                 messages, changes>>

\* An operator uses or deletes an asset; locks do not stop the item operations.
UseItem(a) ==
  /\ changes < MaxChanges
  /\ changes' = changes + 1
  /\ a \in stock
  /\ stock' = stock \ {a}
  /\ UNCHANGED <<cache, theirs, prices, registered, locked, listener, offers, contested,
                 messages>>

UpdatePrice(sku, entry) ==
  /\ changes < MaxChanges
  /\ changes' = changes + 1
  /\ prices' = [s \in DOMAIN prices \cup {sku} |-> IF s = sku THEN entry ELSE prices[s]]
  /\ UNCHANGED <<stock, cache, theirs, registered, locked, listener, offers, contested,
                 messages>>

-----------------------------------------------------------------------------
Init ==
  /\ \E s \in Starts :
       /\ stock = s.bot /\ cache = s.bot /\ theirs = s.partner
       /\ \E S \in SUBSET Priced : prices \in [S -> s.entries]
       /\ messages = s.messages
  /\ registered = {}
  /\ locked = {}
  /\ listener = Idle
  /\ offers = {}
  /\ contested = {}
  /\ changes = 0

Next ==
  \/ \E intent \in Intents, word \in Words, q \in Quantities : HandleEcpMessage(intent, word, q)
  \/ SelectTradeItems \/ SelectionFails
  \/ SendOffer \/ SendFails
  \/ \E o \in offers : OfferEnds(o)
  \/ SyncCache
  \/ \E a \in BotAssets : UseItem(a)
  \/ \E sku \in Priced, entry \in Entries : UpdatePrice(sku, entry)

Spec == Init /\ [][Next]_vars

-----------------------------------------------------------------------------
(* Properties                                                              *)

Deal == [intent : Intents, target : SKUs, quantity : Nat, pool : SUBSET BotAssets,
         price : Entry, give : SUBSET BotAssets, receive : SUBSET PartnerAssets]

\* Every variable stays in its domain: the account gives of its own assets and asks for
\* the partner's.
TypeOK ==
  /\ stock \subseteq BotAssets /\ cache \subseteq BotAssets /\ theirs \subseteq PartnerAssets
  /\ DOMAIN prices \subseteq Priced /\ \A s \in DOMAIN prices : prices[s] \in Entries
  /\ registered \subseteq SKUs
  /\ locked \subseteq BotAssets /\ contested \subseteq BotAssets
  /\ listener \in [pc : {"idle", "fetch", "send"}, deal : Deal]
  /\ \A o \in offers : o \in [id : 0 .. MaxMessages, deal : Deal,
                              pending : BOOLEAN, answered : BOOLEAN]
  /\ messages \in 0 .. MaxMessages /\ changes \in 0 .. MaxChanges

Number(S, k) == Cardinality(OfKind(S, k))

\* The metal of a set of assets, in scrap.
Metal(S) == 9 * Number(S, "refined") + 3 * Number(S, "reclaimed") + Number(S, "scrap")

\* Within half a scrap of an amount of metal.
About(scrap, metal) == 100 * scrap - 9 * metal \in -50 .. 50

\* A price that is negative, or no number, asks for nothing.
Due(metal) == IF metal \in Int /\ metal > 0 THEN metal ELSE 0

Goods(d) == IF d.intent = "buy" THEN d.give ELSE d.receive
Pay(d) == IF d.intent = "buy" THEN d.receive ELSE d.give

\* Goods for the price of their entry; a sale takes the keys of the entry once per offer.
PaidByEntry(d) ==
  /\ Goods(d) = OfKind(Goods(d), d.target) /\ Cardinality(Goods(d)) = d.quantity
  /\ IF d.intent = "buy"
     THEN /\ Number(Pay(d), "key") = d.price.sellKeys
          /\ About(Metal(Pay(d)), Due(d.price.sellMetal) * d.quantity)
     ELSE /\ Number(Pay(d), "key") = d.price.buyKeys * d.quantity
          /\ About(Metal(Pay(d)), Due(d.price.buyMetal) * d.quantity)

\* Refined metal for keys, with change: as much metal as the keys are worth.  Of a rate
\* that is no number only the goods follow.
PaidByKeys(d) ==
  LET rate == Rate(d.intent, d.price)
  IN IF rate \notin Int THEN Metal(Goods(d)) = 9 * d.quantity
     ELSE IF d.intent = "buy"
     THEN /\ Metal(d.give) >= 9 * d.quantity
          /\ About(Metal(d.give), Number(d.receive, "key") * rate)
     ELSE /\ Metal(d.receive) = 9 * d.quantity
          /\ About(9 * d.quantity - Metal(d.give), Number(d.give, "key") * rate)

\* Every offer is worth what the price in force when its assets were selected says, for
\* every number of items: no asset counted twice, no metal lost in the change
\* (selectBuyItems, selectSellItems, metalToItems).  Goods whose price is not positive go
\* for nothing, and so does refined metal when the price of keys is no number.
PaidAsPriced ==
  \A o \in offers :
    \/ PaidByEntry(o.deal)
    \/ o.deal.target = "refined" /\ PaidByKeys(o.deal)

\* An attempt that fails leaves no lock behind: what is locked was given in an offer, or
\* is about to be.
NoLockLeft ==
  \A a \in locked :
    \/ listener.pc = "send" /\ a \in listener.deal.give
    \/ \E o \in offers : a \in o.deal.give

\* The assets of an offer reported as sent stay locked, except those that a later message
\* has offered again in vain: selection does not look at the locks.
OfferedStaysLocked ==
  \A o \in offers : o.answered => o.deal.give \subseteq locked \cup contested
=============================================================================
