---------------------------- MODULE ChatTrade_proofs ----------------------------
(* ChatTrade keeps its types and accounts for its locks, for every set of      *)
(* assets, words and prices, those included that are negative or no number,    *)
(* and its offers, one per message at most, are worth what the prices say.     *)
EXTENDS ChatTrade, FiniteSetTheorems, TLAPS

-----------------------------------------------------------------------------
(* Arithmetic of the metal                                                   *)

\* Quotient and remainder, for the two divisors used.
LEMMA DivRemainder ==
  /\ \A n \in Int : n % 9 = n - 9 * (n \div 9)
  /\ \A n \in Int : n % 3 = n - 3 * (n \div 3)
BY Z3

LEMMA ScrapRounds ==
  ASSUME NEW m \in Nat
  PROVE  ToScrap(m) \in Nat /\ 100 * ToScrap(m) - 9 * m \in -50 .. 50
BY DEF ToScrap

\* The change of metalToItems is exact, with at most two of each smaller kind.
LEMMA ChangeExact ==
  ASSUME NEW m \in Nat
  PROVE  LET i == MetalToItems(m)
         IN /\ i \in [SKUs -> Nat]
            /\ 9 * i["refined"] + 3 * i["reclaimed"] + i["scrap"] = ToScrap(m)
            /\ \A k \in SKUs \ {"refined", "reclaimed", "scrap"} : i[k] = 0
<1> DEFINE s == ToScrap(m)
<1>1. s \in Nat
  BY ScrapRounds
<1> HIDE DEF s
<1> DEFINE rem == s % 9
<1>2. rem \in 0 .. 8 /\ s \div 9 \in Nat
  BY <1>1
<1>3. rem = s - 9 * (s \div 9)
  BY <1>1, DivRemainder
<1> HIDE DEF rem
<1>4. rem % 3 \in 0 .. 2 /\ rem \div 3 \in Nat
  BY <1>2
<1>5. rem % 3 = rem - 3 * (rem \div 3)
  BY <1>2, DivRemainder
<1> DEFINE ref == s \div 9
           rec == rem \div 3
           scr == rem % 3
<1>6. MetalToItems(m) = [None EXCEPT !["refined"] = ref, !["reclaimed"] = rec, !["scrap"] = scr]
  BY DEF MetalToItems, s, rem
<1> HIDE DEF ref, rec, scr
<1>7. ref \in Nat /\ rec \in Nat /\ scr \in Nat /\ 9 * ref + 3 * rec + scr = s
  BY <1>1, <1>2, <1>3, <1>4, <1>5 DEF ref, rec, scr
<1>8. {"refined", "reclaimed", "scrap"} \subseteq SKUs
  BY ChatAssumption DEF Money
<1> DEFINE i == MetalToItems(m)
<1>9. /\ i \in [SKUs -> Nat]
      /\ i["refined"] = ref /\ i["reclaimed"] = rec /\ i["scrap"] = scr
      /\ \A k \in SKUs \ {"refined", "reclaimed", "scrap"} : i[k] = 0
  BY <1>6, <1>7, <1>8 DEF None
<1> QED BY <1>7, <1>9 DEF s

\* Metal that is worth nothing, or no number, selects nothing.
LEMMA MetalSelected ==
  ASSUME NEW m \in Amounts
  PROVE  LET i == SelectMetal(m)
         IN /\ i \in [SKUs -> Nat]
            /\ 9 * i["refined"] + 3 * i["reclaimed"] + i["scrap"] = ToScrap(Due(m))
            /\ \A k \in SKUs \ {"refined", "reclaimed", "scrap"} : i[k] = 0
<1>1. CASE m \in Int /\ m > 0
  <2>1. m \in Nat /\ SelectMetal(m) = MetalToItems(m) /\ Due(m) = m
    BY <1>1 DEF SelectMetal, Due
  <2> QED BY <2>1, ChangeExact
<1>2. CASE ~(m \in Int /\ m > 0)
  <2>1. SelectMetal(m) = None /\ Due(m) = 0
    BY <1>2 DEF SelectMetal, Due
  <2>2. ToScrap(0) = 0
    BY DEF ToScrap
  <2>3. {"refined", "reclaimed", "scrap"} \subseteq SKUs
    BY ChatAssumption DEF Money
  <2>4. /\ None \in [SKUs -> Nat] /\ \A k \in SKUs : None[k] = 0
        /\ None["refined"] = 0 /\ None["reclaimed"] = 0 /\ None["scrap"] = 0
    BY <2>3 DEF None
  <2> QED BY <2>1, <2>2, <2>4
<1> QED BY <1>1, <1>2

LEMMA DueNat ==
  ASSUME NEW m \in Amounts
  PROVE  Due(m) \in Nat
BY DEF Due

\* What is due for so many is so many times what is due for one.
LEMMA DueTimes ==
  ASSUME NEW m \in Amounts, NEW q \in Nat
  PROVE  Times(m, q) \in Amounts /\ Due(Times(m, q)) = Due(m) * q
<1>1. CASE m \notin Int
  BY <1>1 DEF Times, Due
<1>2. CASE m \in Int
  <2>1. Times(m, q) = m * q /\ m * q \in Int
    BY <1>2 DEF Times
  <2>2. CASE m > 0
    <3>1. m * q > 0 \/ m * q = 0
      BY <1>2, <2>2
    <3> QED BY <1>2, <2>1, <2>2, <3>1 DEF Due, Amounts
  <2>3. CASE ~(m > 0)
    <3>1. ~(m * q > 0)
      BY <1>2, <2>3
    <3> QED BY <1>2, <2>1, <2>3, <3>1 DEF Due, Amounts
  <2> QED BY <2>2, <2>3
<1> QED BY <1>1, <1>2

\* The keys asked for refined metal are worth at least the metal.
LEMMA CeilCovers ==
  ASSUME NEW a \in Nat, NEW b \in Nat \ {0}
  PROVE  Ceil(a, b) \in Nat /\ Ceil(a, b) * b >= a
<1> DEFINE c == a + b - 1
<1>1. c \in Nat /\ b \in Int /\ b > 0
  OBVIOUS
<1> HIDE DEF c
<1>2. c \div b \in Nat /\ c < b * (c \div b) + b
  BY <1>1
<1> QED BY <1>2 DEF Ceil, c

-----------------------------------------------------------------------------
(* What a selection is worth                                                 *)

\* A set that counts nothing of any other kind is all of one kind.
LEMMA OneKind ==
  ASSUME NEW S \in SUBSET Assets, NEW t \in SKUs,
         \A k \in SKUs \ {t} : Number(S, k) = 0
  PROVE  S = OfKind(S, t) /\ Cardinality(S) = Number(S, t)
<1>1. ASSUME NEW a \in S, Kind[a] # t PROVE FALSE
  <2>1. Kind[a] \in SKUs
    BY ChatAssumption
  <2>2. a \in OfKind(S, Kind[a]) /\ OfKind(S, Kind[a]) \subseteq Assets
    BY DEF OfKind
  <2>3. IsFiniteSet(OfKind(S, Kind[a]))
    BY <2>2, ChatAssumption, FS_Subset
  <2>4. Cardinality(OfKind(S, Kind[a])) = 0
    BY <1>1, <2>1 DEF Number
  <2> QED BY <2>2, <2>3, <2>4, FS_EmptySet
<1>2. S = OfKind(S, t)
  BY <1>1 DEF OfKind
<1> QED BY <1>2 DEF Number

LEMMA SelectionCounts ==
  ASSUME NEW pool, NEW counts, NEW S \in Selections(pool, counts)
  PROVE  S \subseteq pool /\ \A k \in SKUs : Number(S, k) = counts[k]
BY DEF Selections, Number

LEMMA CountsAdd ==
  ASSUME NEW f \in [SKUs -> Nat], NEW g \in [SKUs -> Nat]
  PROVE  Plus(f, g) \in [SKUs -> Nat] /\ \A k \in SKUs : Plus(f, g)[k] = f[k] + g[k]
BY DEF Plus

LEMMA OfCounts ==
  ASSUME NEW t \in SKUs, NEW n \in Nat
  PROVE  Of(t, n) \in [SKUs -> Nat] /\ \A k \in SKUs : Of(t, n)[k] = IF k = t THEN n ELSE 0
BY DEF Of, None

\* Keys and metal, as selected.
LEMMA PayWorth ==
  ASSUME NEW n \in Nat, NEW m \in Amounts, NEW pool,
         NEW S \in Selections(pool, Plus(Of("key", n), SelectMetal(m)))
  PROVE  Number(S, "key") = n /\ Metal(S) = ToScrap(Due(m))
<1>1. {"key", "refined", "reclaimed", "scrap"} \subseteq SKUs
  BY ChatAssumption DEF Money
<1> DEFINE i == SelectMetal(m)
           c == Plus(Of("key", n), i)
<1>2. /\ i \in [SKUs -> Nat]
      /\ 9 * i["refined"] + 3 * i["reclaimed"] + i["scrap"] = ToScrap(Due(m))
      /\ i["key"] = 0
  BY <1>1, MetalSelected
<1>3. Of("key", n) \in [SKUs -> Nat] /\ \A k \in SKUs : Of("key", n)[k] = IF k = "key" THEN n ELSE 0
  BY <1>1, OfCounts
<1> HIDE DEF i
<1>4. /\ c["key"] = n
      /\ c["refined"] = i["refined"] /\ c["reclaimed"] = i["reclaimed"] /\ c["scrap"] = i["scrap"]
  BY <1>1, <1>2, <1>3, CountsAdd
<1>5. \A k \in SKUs : Number(S, k) = c[k]
  BY SelectionCounts DEF i
<1> HIDE DEF c
<1> QED BY <1>1, <1>2, <1>4, <1>5 DEF Metal

\* Refined metal and change, as selected.
LEMMA RefinedWorth ==
  ASSUME NEW q \in Nat, NEW m \in Amounts, NEW pool,
         NEW S \in Selections(pool, Plus(Of("refined", q), SelectMetal(m)))
  PROVE  Metal(S) = 9 * q + ToScrap(Due(m))
<1>1. {"key", "refined", "reclaimed", "scrap"} \subseteq SKUs
  BY ChatAssumption DEF Money
<1> DEFINE i == SelectMetal(m)
           c == Plus(Of("refined", q), i)
<1>2. /\ i \in [SKUs -> Nat]
      /\ 9 * i["refined"] + 3 * i["reclaimed"] + i["scrap"] = ToScrap(Due(m))
  BY MetalSelected
<1>3. Of("refined", q) \in [SKUs -> Nat]
      /\ \A k \in SKUs : Of("refined", q)[k] = IF k = "refined" THEN q ELSE 0
  BY <1>1, OfCounts
<1> HIDE DEF i
<1>4. /\ c["refined"] = q + i["refined"]
      /\ c["reclaimed"] = i["reclaimed"] /\ c["scrap"] = i["scrap"]
  BY <1>1, <1>2, <1>3, CountsAdd
<1>5. \A k \in SKUs : Number(S, k) = c[k]
  BY SelectionCounts DEF i
<1> HIDE DEF c
<1> QED BY <1>1, <1>2, <1>4, <1>5 DEF Metal

\* The goods of a priced deal, and keys or refined metal alone.
LEMMA GoodsOnly ==
  ASSUME NEW t \in SKUs, NEW q \in Nat, NEW pool \in SUBSET Assets,
         NEW S \in Selections(pool, Of(t, q))
  PROVE  S = OfKind(S, t) /\ Cardinality(S) = q /\ Number(S, t) = q
         /\ \A k \in SKUs \ {t} : Number(S, k) = 0
<1>1. S \in SUBSET Assets /\ \A k \in SKUs : Number(S, k) = IF k = t THEN q ELSE 0
  BY SelectionCounts, OfCounts
<1> QED BY <1>1, OneKind

\* A deal is worth what the prices say.
Paid(d) == PaidByEntry(d) \/ (d.target = "refined" /\ PaidByKeys(d))

PricesOK == DOMAIN prices \subseteq Priced /\ \A s \in DOMAIN prices : prices[s] \in Entries

LEMMA SelectionPaid ==
  ASSUME PricesOK, NEW d, d.intent \in Intents, d.target \in SKUs, d.quantity \in Nat,
         NEW deal \in Deals(d.intent, d.target, d.quantity),
         NEW pool \in SUBSET Assets, NEW other \in SUBSET Assets,
         NEW goods \in Selections(pool, deal.item), NEW money \in Selections(other, deal.money),
         d.price = deal.price,
         d.give = IF d.intent = "buy" THEN goods ELSE money,
         d.receive = IF d.intent = "buy" THEN money ELSE goods
  PROVE  Paid(d) /\ deal.price \in Entry
<1> DEFINE q == d.quantity
<1> HIDE DEF q
<1>0. q \in Nat /\ q = d.quantity
  BY DEF q
<1>1. CASE d.target \in DOMAIN prices
  <2> DEFINE p == prices[d.target]
  <2>1. p \in Entry
    BY <1>1, ChatAssumption DEF PricesOK
  <2>2. deal.price = p /\ deal.item = Of(d.target, q)
    BY <1>0, <1>1 DEF Deals
  <2>3. goods = OfKind(goods, d.target) /\ Cardinality(goods) = q
    BY <1>0, <2>2, GoodsOnly
  <2> HIDE DEF p
  <2>4. CASE d.intent = "buy"
    <3> DEFINE m == Times(p.sellMetal, q)
    <3>1. deal.money = Plus(Of("key", p.sellKeys), SelectMetal(m))
      BY <1>0, <1>1, <2>4 DEF Deals, EntryMoney, p
    <3>2. p.sellKeys \in Nat /\ m \in Amounts /\ Due(m) = Due(p.sellMetal) * q
      BY <1>0, <2>1, DueTimes DEF Entry
    <3>3. Number(money, "key") = p.sellKeys /\ Metal(money) = ToScrap(Due(m))
      BY <3>1, <3>2, PayWorth
    <3>4. About(Metal(money), Due(m))
      BY <3>2, <3>3, ScrapRounds, DueNat DEF About
    <3>5. About(Metal(money), Due(p.sellMetal) * q)
      BY <3>2, <3>4
    <3> QED BY <1>0, <2>1, <2>2, <2>3, <2>4, <3>3, <3>5 DEF Paid, PaidByEntry, Goods, Pay
  <2>5. CASE d.intent # "buy"
    <3> DEFINE m == Times(p.buyMetal, q)
    <3>1. deal.money = Plus(Of("key", p.buyKeys * q), SelectMetal(m))
      BY <1>0, <1>1, <2>5 DEF Deals, EntryMoney, p
    <3>2. p.buyKeys * q \in Nat /\ m \in Amounts /\ Due(m) = Due(p.buyMetal) * q
      BY <1>0, <2>1, DueTimes DEF Entry
    <3>3. Number(money, "key") = p.buyKeys * q /\ Metal(money) = ToScrap(Due(m))
      BY <3>1, <3>2, PayWorth
    <3>4. About(Metal(money), Due(m))
      BY <3>2, <3>3, ScrapRounds, DueNat DEF About
    <3>5. About(Metal(money), Due(p.buyMetal) * q)
      BY <3>2, <3>4
    <3> QED BY <1>0, <2>1, <2>2, <2>3, <2>5, <3>3, <3>5 DEF Paid, PaidByEntry, Goods, Pay
  <2> QED BY <2>4, <2>5
<1>2. CASE d.target \notin DOMAIN prices
  <2> DEFINE p == prices["key"]
             rate == Rate(d.intent, p)
  <2>1. d.target = "refined" /\ "key" \in DOMAIN prices
    BY <1>2 DEF Deals
  <2>2. p \in Entry
    BY <2>1, ChatAssumption DEF PricesOK
  <2>3. PICK x \in Exchanges(d.intent, rate, q) :
          deal = [price |-> p,
                  item |-> IF d.intent = "buy" THEN Plus(Of("refined", q), SelectMetal(x.metal))
                           ELSE Of("refined", q),
                  money |-> IF d.intent = "buy" THEN Of("key", x.keys)
                            ELSE Plus(Of("key", x.keys), SelectMetal(x.metal))]
    BY <1>0, <1>2, <2>1 DEF Deals
  <2>4. deal.price = p
    BY <2>3
  <2>5. {"key", "refined"} \subseteq SKUs /\ "key" # "refined"
    BY ChatAssumption DEF Money
  <2>6. rate = Rate(d.intent, d.price)
    BY <2>4
  <2>7. CASE rate \notin Int
    <3>1. Metal(goods) = 9 * q
      <4>1. CASE d.intent = "buy"
        <5>1. x.metal = 0
          BY <2>7, <4>1 DEF Exchanges
        <5>2. deal.item = Plus(Of("refined", q), SelectMetal(0)) /\ 0 \in Amounts
          BY <2>3, <4>1, <5>1 DEF Amounts
        <5>3. Due(0) = 0 /\ ToScrap(0) = 0
          BY DEF Due, ToScrap
        <5> QED BY <1>0, <5>2, <5>3, RefinedWorth
      <4>2. CASE d.intent # "buy"
        <5>1. deal.item = Of("refined", q)
          BY <2>3, <4>2
        <5> QED BY <1>0, <2>5, <5>1, GoodsOnly, ChatAssumption DEF Metal, Money
      <4> QED BY <4>1, <4>2
    <3>2. Goods(d) = goods
      BY DEF Goods
    <3> QED BY <1>0, <2>1, <2>2, <2>4, <2>6, <2>7, <3>1, <3>2 DEF Paid, PaidByKeys
  <2>8. CASE rate \in Int
    <3>1. rate \in Nat \ {0}
      BY <2>3, <2>8 DEF Exchanges
    <3>2. CASE d.intent = "buy"
      <4> DEFINE keys == Ceil(100 * q, rate)
      <4>1. x = [keys |-> keys, metal |-> keys * rate - 100 * q]
        BY <2>8, <3>1, <3>2 DEF Exchanges
      <4>2. keys \in Nat /\ keys * rate >= 100 * q
        <5> DEFINE c == 100 * q
                   b == rate
        <5>1. c \in Nat /\ b \in Nat \ {0}
          BY <1>0, <3>1
        <5> HIDE DEF c, b
        <5>2. Ceil(c, b) \in Nat /\ Ceil(c, b) * b >= c
          BY <5>1, CeilCovers
        <5> QED BY <5>2 DEF c, b
      <4> HIDE DEF keys, rate, p
      <4> DEFINE m == keys * rate - 100 * q
      <4>3. m \in Nat /\ m \in Amounts /\ Due(m) = m
        BY <1>0, <3>1, <4>2 DEF Amounts, Due
      <4>4. /\ deal.item = Plus(Of("refined", q), SelectMetal(m))
            /\ deal.money = Of("key", keys)
        BY <2>3, <3>2, <4>1
      <4>5. Metal(goods) = 9 * q + ToScrap(m)
        BY <1>0, <4>3, <4>4, RefinedWorth
      <4>6. Number(money, "key") = keys
        BY <2>5, <4>2, <4>4, GoodsOnly
      <4>7. ToScrap(m) \in Nat /\ 100 * ToScrap(m) - 9 * m \in -50 .. 50
        BY <4>3, ScrapRounds
      <4>8. Metal(goods) >= 9 * q /\ About(Metal(goods), keys * rate)
        <5>1. keys * rate \in Nat /\ m = keys * rate - 100 * q
          BY <3>1, <4>2
        <5> HIDE DEF m
        <5> QED BY <1>0, <4>3, <4>5, <4>7, <5>1 DEF About
      <4> QED BY <1>0, <2>1, <2>2, <2>4, <2>6, <2>8, <3>2, <4>6, <4>8 DEF Paid, PaidByKeys
    <3>3. CASE d.intent # "buy"
      <4> DEFINE keys == (100 * q) \div rate
      <4>1. x = [keys |-> keys, metal |-> 100 * q - keys * rate]
        BY <2>8, <3>1, <3>3 DEF Exchanges
      <4>2. keys \in Nat /\ keys * rate <= 100 * q
        <5> DEFINE c == 100 * q
                   b == rate
        <5>1. c \in Nat /\ b \in Nat \ {0}
          BY <1>0, <3>1
        <5> HIDE DEF c, b
        <5>2. c \div b \in Nat /\ b * (c \div b) <= c
          BY <5>1
        <5>3. (c \div b) * b = b * (c \div b)
          BY <5>1, <5>2
        <5> QED BY <5>2, <5>3 DEF c, b
      <4> HIDE DEF keys, rate, p
      <4> DEFINE m == 100 * q - keys * rate
      <4>3. m \in Nat /\ keys * rate \in Nat /\ m \in Amounts /\ Due(m) = m
        BY <1>0, <3>1, <4>2 DEF Amounts, Due
      <4>4. /\ deal.item = Of("refined", q)
            /\ deal.money = Plus(Of("key", keys), SelectMetal(m))
        BY <2>3, <3>3, <4>1
      <4>5. Number(money, "key") = keys /\ Metal(money) = ToScrap(m)
        BY <4>2, <4>3, <4>4, PayWorth
      <4>6. Metal(goods) = 9 * q
        BY <1>0, <2>5, <4>4, GoodsOnly, ChatAssumption DEF Metal, Money
      <4>7. ToScrap(m) \in Nat /\ 100 * ToScrap(m) - 9 * m \in -50 .. 50
        BY <4>3, ScrapRounds
      <4>8. About(9 * q - Metal(money), keys * rate)
        <5>1. m = 100 * q - keys * rate
          OBVIOUS
        <5> HIDE DEF m
        <5> QED BY <1>0, <4>3, <4>5, <4>7, <5>1 DEF About
      <4> QED BY <1>0, <2>1, <2>2, <2>4, <2>6, <2>8, <3>3, <4>5, <4>6, <4>8
          DEF Paid, PaidByKeys
    <3> QED BY <3>2, <3>3
  <2> QED BY <2>7, <2>8
<1> QED BY <1>1, <1>2

-----------------------------------------------------------------------------
(* The inductive invariant                                                   *)

OfferOK(o) ==
  /\ o \in [id : 0 .. MaxMessages, deal : Deal, pending : BOOLEAN, answered : BOOLEAN]
  /\ Paid(o.deal)
ListenerOK ==
  /\ listener \in [pc : {"idle", "fetch", "send"}, deal : Deal]
  /\ listener.pc = "send" => Paid(listener.deal) /\ listener.deal.give \subseteq locked

Inv ==
  /\ TypeOK
  /\ ListenerOK
  /\ \A o \in offers : OfferOK(o)
  /\ NoLockLeft
  /\ OfferedStaysLocked

LEMMA MoneyInSKUs == {"key", "refined", "reclaimed", "scrap"} \subseteq SKUs
BY ChatAssumption DEF Money

LEMMA InitInv == Init => Inv
<1> SUFFICES ASSUME Init PROVE Inv
  OBVIOUS
<1>1. NoDeal \in Deal
  BY MoneyInSKUs DEF NoDeal, Deal, Intents, Entry, Amounts
<1>2. listener \in [pc : {"idle", "fetch", "send"}, deal : Deal] /\ listener.pc = "idle"
  BY <1>1 DEF Init, Idle
<1>3. PICK s \in Starts : /\ stock = s.bot /\ cache = s.bot /\ theirs = s.partner
                         /\ \E S \in SUBSET Priced : prices \in [S -> s.entries]
                         /\ messages = s.messages
  BY DEF Init
<1>4. StartOK(s)
  BY ChatAssumption
<1>5. PricesOK
  BY <1>3, <1>4 DEF PricesOK, StartOK
<1>6. /\ stock \subseteq BotAssets /\ cache \subseteq BotAssets
      /\ theirs \subseteq PartnerAssets
      /\ messages \in 0 .. MaxMessages /\ changes \in 0 .. MaxChanges
  BY <1>3, <1>4, ChatAssumption DEF Init, StartOK
<1> QED BY <1>2, <1>5, <1>6
    DEF Init, Inv, TypeOK, ListenerOK, NoLockLeft, OfferedStaysLocked, PricesOK

LEMMA MessageKeeps ==
  ASSUME Inv, NEW intent \in Intents, NEW word \in Words, NEW q \in Quantities,
         HandleEcpMessage(intent, word, q)
  PROVE  Inv'
<1>1. Populated \subseteq SKUs
  <2>1. {Kind[a] : a \in cache} \subseteq SKUs
    BY ChatAssumption DEF Inv, TypeOK, Assets
  <2> QED BY <2>1, MoneyInSKUs, ChatAssumption DEF Populated, Inv, TypeOK, Money
<1>2. ListenerOK' /\ listener'.pc # "send"
  <2>1. CASE UNCHANGED listener
    BY <2>1 DEF HandleEcpMessage, Inv, ListenerOK
  <2>2. ASSUME NEW target \in Populated,
               listener' = [pc |-> "fetch",
                            deal |-> [NoDeal EXCEPT !.intent = intent, !.target = target,
                                                    !.quantity = q, !.pool = cache]]
        PROVE  ListenerOK' /\ listener'.pc # "send"
    <3>1. [NoDeal EXCEPT !.intent = intent, !.target = target,
                         !.quantity = q, !.pool = cache] \in Deal
      <4>1. q \in Nat /\ cache \subseteq BotAssets /\ target \in SKUs
        BY <1>1, ChatAssumption DEF Inv, TypeOK
      <4>2. NoDeal \in Deal
        BY MoneyInSKUs DEF NoDeal, Deal, Intents, Entry, Amounts
      <4> QED BY <4>1, <4>2 DEF Deal
    <3> QED BY <2>2, <3>1 DEF ListenerOK
  <2> QED BY <2>1, <2>2 DEF HandleEcpMessage, Lookup
<1>3. messages' \in 0 .. MaxMessages
  <2>1. messages \in 0 .. MaxMessages /\ messages < MaxMessages /\ messages' = messages + 1
    BY DEF HandleEcpMessage, Inv, TypeOK
  <2> QED BY <2>1, ChatAssumption
<1>4. \A o \in offers' : OfferOK(o)'
  BY DEF HandleEcpMessage, Inv, OfferOK
<1>5. NoLockLeft' /\ OfferedStaysLocked'
  BY DEF HandleEcpMessage, Inv, NoLockLeft, OfferedStaysLocked
<1>6. TypeOK'
  BY <1>1, <1>2, <1>3 DEF HandleEcpMessage, market, Inv, TypeOK, ListenerOK
<1> QED BY <1>2, <1>4, <1>5, <1>6 DEF Inv

LEMMA SelectKeeps ==
  ASSUME Inv, SelectTradeItems
  PROVE  Inv'
<1> DEFINE d == listener.deal
           buy == d.intent = "buy"
<1>0. PICK deal \in Deals(d.intent, d.target, d.quantity) :
        \E give \in Selections(d.pool, IF buy THEN deal.item ELSE deal.money),
           receive \in Selections(theirs, IF buy THEN deal.money ELSE deal.item) :
          /\ listener' = [pc |-> "send", deal |-> Selected(d, deal.price, give, receive)]
          /\ locked' = locked \cup give
  BY DEF SelectTradeItems
<1>1. PICK give \in Selections(d.pool, IF buy THEN deal.item ELSE deal.money),
           receive \in Selections(theirs, IF buy THEN deal.money ELSE deal.item) :
        /\ listener' = [pc |-> "send", deal |-> Selected(d, deal.price, give, receive)]
        /\ locked' = locked \cup give
  BY <1>0
<1>2. d \in Deal /\ listener.pc = "fetch" /\ PricesOK /\ theirs \subseteq PartnerAssets
  BY DEF SelectTradeItems, Inv, ListenerOK, TypeOK, PricesOK
<1>3. give \subseteq d.pool /\ receive \subseteq theirs
  BY SelectionCounts
<1>4. PICK e : e = Selected(d, deal.price, give, receive)
  OBVIOUS
<1> USE DEF Selected
<1>5. Paid(e) /\ deal.price \in Entry
  <2>1. /\ e.intent \in Intents /\ e.target \in SKUs /\ e.quantity \in Nat
        /\ e.price = deal.price
        /\ d.pool \in SUBSET Assets /\ theirs \in SUBSET Assets
        /\ e.intent = d.intent /\ e.target = d.target /\ e.quantity = d.quantity
    BY <1>2, <1>4 DEF Deal, Assets
  <2>2. deal \in Deals(e.intent, e.target, e.quantity)
    BY <1>1, <2>1
  <2>3. CASE buy
    <3>1. /\ give \in Selections(d.pool, deal.item) /\ receive \in Selections(theirs, deal.money)
          /\ e.give = IF e.intent = "buy" THEN give ELSE receive
          /\ e.receive = IF e.intent = "buy" THEN receive ELSE give
      BY <1>1, <1>4, <2>1, <2>3
    <3> HIDE DEF d
    <3> QED BY <1>2, <2>1, <2>2, <3>1, SelectionPaid
  <2>4. CASE ~buy
    <3>1. /\ receive \in Selections(theirs, deal.item) /\ give \in Selections(d.pool, deal.money)
          /\ e.give = IF e.intent = "buy" THEN receive ELSE give
          /\ e.receive = IF e.intent = "buy" THEN give ELSE receive
      BY <1>1, <1>4, <2>1, <2>4
    <3> HIDE DEF d
    <3> QED BY <1>2, <2>1, <2>2, <3>1, SelectionPaid
  <2> QED BY <2>3, <2>4
<1>6. e \in Deal
  BY <1>2, <1>3, <1>4, <1>5 DEF Deal
<1>7. listener' = [pc |-> "send", deal |-> e] /\ e.give = give
  BY <1>1, <1>4
<1> HIDE DEF d, Selected
<1>8. ListenerOK'
  <2>1. listener' \in [pc : {"idle", "fetch", "send"}, deal : Deal] /\ listener'.deal = e
    BY <1>6, <1>7
  <2>2. locked' = locked \cup give
    BY <1>1, Zenon
  <2>3. Paid(listener'.deal)
    BY <1>5, <2>1
  <2>4. listener'.deal.give \subseteq locked'
    BY <1>7, <2>1, <2>2
  <2> QED BY <2>1, <2>3, <2>4 DEF ListenerOK
<1>9. give \subseteq BotAssets
  BY <1>2, <1>3 DEF Deal
<1>10. TypeOK'
  BY <1>1, <1>8, <1>9 DEF SelectTradeItems, market, Inv, TypeOK, ListenerOK
<1>11. \A o \in offers' : OfferOK(o)'
  <2>1. offers' = offers
    BY DEF SelectTradeItems
  <2> QED BY <2>1 DEF Inv, OfferOK
<1>12. NoLockLeft'
  <2>0. locked' = locked \cup give
    BY <1>1, Zenon
  <2>1. listener'.pc = "send" /\ listener'.deal.give = give /\ locked' = locked \cup give
    BY <1>7, <2>0
  <2>2. \A a \in locked : \E o \in offers : a \in o.deal.give
    BY <1>2 DEF Inv, NoLockLeft
  <2>3. offers' = offers
    BY DEF SelectTradeItems
  <2> QED BY <2>1, <2>2, <2>3 DEF NoLockLeft
<1>13. OfferedStaysLocked'
  BY <1>1 DEF SelectTradeItems, Inv, OfferedStaysLocked
<1> QED BY <1>8, <1>10, <1>11, <1>12, <1>13 DEF Inv

LEMMA IdleOK == Idle \in [pc : {"idle", "fetch", "send"}, deal : Deal] /\ Idle.pc = "idle"
<1>1. NoDeal \in Deal
  BY MoneyInSKUs DEF NoDeal, Deal, Intents, Entry, Amounts
<1> QED BY <1>1 DEF Idle

LEMMA SelectionFailsKeeps ==
  ASSUME Inv, SelectionFails
  PROVE  Inv'
<1>1. ListenerOK'
  BY IdleOK DEF SelectionFails, ListenerOK
<1>2. TypeOK'
  BY <1>1 DEF SelectionFails, market, Inv, TypeOK, ListenerOK
<1> QED BY <1>1, <1>2
    DEF SelectionFails, Inv, OfferOK, NoLockLeft, OfferedStaysLocked

\* A new offer of what the listener has selected.
LEMMA OfferMade ==
  ASSUME Inv, listener.pc = "send", NEW answered \in BOOLEAN, Makes(listener.deal, answered)
  PROVE  /\ \A o \in offers' : OfferOK(o) /\ (o \in offers \/ o.deal = listener.deal)
         /\ \E o \in offers' : o.deal = listener.deal
         /\ offers \subseteq offers'
<1> DEFINE new == [id |-> messages, deal |-> listener.deal, pending |-> TRUE,
                   answered |-> answered]
<1>1. offers' = offers \cup {new}
  BY DEF Makes
<1>2. listener.deal \in Deal /\ messages \in 0 .. MaxMessages /\ Paid(listener.deal)
  BY DEF Inv, ListenerOK, TypeOK
<1>3. OfferOK(new)
  BY <1>2 DEF OfferOK
<1>4. new.deal = listener.deal
  OBVIOUS
<1> HIDE DEF new
<1> QED BY <1>1, <1>3, <1>4 DEF Inv

LEMMA SendKeeps ==
  ASSUME Inv, SendOffer
  PROVE  Inv'
<1>1. /\ \A o \in offers' : OfferOK(o) /\ (o \in offers \/ o.deal = listener.deal)
      /\ \E o \in offers' : o.deal = listener.deal
      /\ offers \subseteq offers'
  BY OfferMade DEF SendOffer
<1>2. ListenerOK' /\ listener' = Idle
  BY IdleOK DEF SendOffer, ListenerOK
<1>3. TypeOK'
  BY <1>1, <1>2 DEF SendOffer, market, Inv, TypeOK, ListenerOK, OfferOK
<1>4. NoLockLeft'
  BY <1>1 DEF SendOffer, Inv, NoLockLeft
<1>5. OfferedStaysLocked'
  BY <1>1 DEF SendOffer, Inv, OfferedStaysLocked, ListenerOK
<1>6. \A o \in offers' : OfferOK(o)'
  BY <1>1 DEF OfferOK, Paid, PaidByEntry, PaidByKeys, Goods, Pay, Rate, Due
<1> QED BY <1>2, <1>3, <1>4, <1>5, <1>6 DEF Inv

LEMMA SendFailsKeeps ==
  ASSUME Inv, SendFails
  PROVE  Inv'
<1>1. /\ \A o \in offers' : OfferOK(o) /\ (o \in offers \/ o.deal = listener.deal)
      /\ offers \subseteq offers'
  BY OfferMade DEF SendFails, Inv
<1>2. ListenerOK' /\ listener' = Idle
  BY IdleOK DEF SendFails, ListenerOK
<1>3. listener.deal.give \subseteq BotAssets
  BY DEF Inv, ListenerOK, Deal
<1>4. TypeOK'
  BY <1>1, <1>2, <1>3 DEF SendFails, market, Inv, TypeOK, ListenerOK, OfferOK
<1>5. NoLockLeft'
  BY <1>1 DEF SendFails, Inv, NoLockLeft
<1>6. OfferedStaysLocked'
  BY <1>1 DEF SendFails, Inv, OfferedStaysLocked, ListenerOK
<1>7. \A o \in offers' : OfferOK(o)'
  BY <1>1 DEF OfferOK, Paid, PaidByEntry, PaidByKeys, Goods, Pay, Rate, Due
<1> QED BY <1>2, <1>4, <1>5, <1>6, <1>7 DEF Inv

LEMMA EndKeeps ==
  ASSUME Inv, NEW o \in offers, OfferEnds(o)
  PROVE  Inv'
<1> DEFINE ended == [o EXCEPT !.pending = FALSE]
<1>1. OfferOK(ended) /\ ended.deal = o.deal /\ ended.answered = o.answered
  BY DEF Inv, OfferOK
<1> HIDE DEF ended
<1>2. offers' = (offers \ {o}) \cup {ended}
  BY DEF OfferEnds, ended
<1>3. \A u \in offers' : OfferOK(u)'
  BY <1>1, <1>2 DEF Inv, OfferOK, Paid, PaidByEntry, PaidByKeys, Goods, Pay, Rate, Due
<1>4. stock' \subseteq stock /\ theirs' \subseteq theirs /\ cache' = cache /\ prices' = prices
  BY DEF OfferEnds, market
<1>5. ListenerOK'
  BY DEF OfferEnds, Inv, ListenerOK
<1>6. TypeOK'
  BY <1>3, <1>4, <1>5 DEF OfferEnds, Inv, TypeOK, ListenerOK, OfferOK
<1>7. NoLockLeft'
  BY <1>1, <1>2 DEF OfferEnds, Inv, NoLockLeft
<1>8. OfferedStaysLocked'
  BY <1>1, <1>2 DEF OfferEnds, Inv, OfferedStaysLocked
<1> QED BY <1>3, <1>5, <1>6, <1>7, <1>8 DEF Inv

LEMMA OthersKeep ==
  ASSUME Inv,
         \/ SyncCache
         \/ \E a \in BotAssets : UseItem(a)
         \/ \E sku \in Priced, entry \in Entries : UpdatePrice(sku, entry)
         \/ UNCHANGED vars
  PROVE  Inv'
<1>1. UNCHANGED <<theirs, registered, locked, listener, offers, contested, messages>>
  BY DEF SyncCache, UseItem, UpdatePrice, vars, market
<1>2. stock' \subseteq BotAssets /\ cache' \subseteq BotAssets
  BY DEF SyncCache, UseItem, UpdatePrice, vars, market, Inv, TypeOK
<1>3. changes' \in 0 .. MaxChanges
  <2>1. changes \in 0 .. MaxChanges
    BY DEF Inv, TypeOK
  <2>2. changes' = changes \/ (changes < MaxChanges /\ changes' = changes + 1)
    BY DEF SyncCache, UseItem, UpdatePrice, vars
  <2> QED BY <2>1, <2>2, ChatAssumption
<1>4. PricesOK'
  <2>1. CASE prices' = prices
    BY <2>1 DEF Inv, TypeOK, PricesOK
  <2>2. ASSUME NEW sku \in Priced, NEW entry \in Entries, UpdatePrice(sku, entry)
        PROVE  PricesOK'
    BY <2>2 DEF UpdatePrice, Inv, TypeOK, PricesOK
  <2> QED BY <2>1, <2>2 DEF SyncCache, UseItem, vars, market
<1>5. ListenerOK' /\ \A o \in offers' : OfferOK(o)'
  BY <1>1 DEF Inv, ListenerOK, OfferOK, Paid, PaidByEntry, PaidByKeys
<1>6. TypeOK'
  BY <1>1, <1>2, <1>3, <1>4 DEF Inv, TypeOK, PricesOK
<1> QED BY <1>1, <1>5, <1>6 DEF Inv, NoLockLeft, OfferedStaysLocked

LEMMA InvAlways == Spec => []Inv
<1>1. Inv /\ [Next]_vars => Inv'
  BY MessageKeeps, SelectKeeps, SelectionFailsKeeps, SendKeeps, SendFailsKeeps, EndKeeps,
     OthersKeep DEF Next
<1> QED BY <1>1, InitInv, PTL DEF Spec

-----------------------------------------------------------------------------
(* The theorems                                                              *)

\* Type correctness: the account gives of its own assets and asks for the partner's.
THEOREM ChatTypeCorrect == Spec => []TypeOK
<1>1. Inv => TypeOK
  BY DEF Inv
<1> QED BY <1>1, InvAlways, PTL

\* Every offer is worth what the prices say, for all prices, quantities and assets: the
\* greedy change of metalToItems is exact and no asset counts twice.  Prices are those the
\* daemon stores, unchecked: goods whose metal is negative or no number go for the keys of
\* their entry alone, and refined metal for keys at a rate that is no number for anything.
THEOREM ChatPaidAsPriced == Spec => []PaidAsPriced
<1>1. Inv => PaidAsPriced
  BY DEF Inv, OfferOK, Paid, PaidAsPriced
<1> QED BY <1>1, InvAlways, PTL

\* No failed attempt leaves a lock behind.
THEOREM ChatNoLockLeft == Spec => []NoLockLeft
<1>1. Inv => NoLockLeft
  BY DEF Inv
<1> QED BY <1>1, InvAlways, PTL

\* What is out on offer stays locked unless it was offered again in vain.
THEOREM ChatOfferedStaysLocked == Spec => []OfferedStaysLocked
<1>1. Inv => OfferedStaysLocked
  BY DEF Inv
<1> QED BY <1>1, InvAlways, PTL

-----------------------------------------------------------------------------
(* One message, one offer                                                    *)

\* The messages that have an offer are behind the one the listener works on, which gets
\* its offer in the step that ends the work.
OneOfferEach ==
  /\ \A o, p \in offers : o.id = p.id => o = p
  /\ \A o \in offers : o.id <= messages
  /\ listener.pc # "idle" => \A o \in offers : o.id # messages

LEMMA OneOfferMade ==
  ASSUME Inv, OneOfferEach, SendOffer \/ SendFails
  PROVE  OneOfferEach'
<1>1. messages \in Nat /\ listener.pc # "idle" /\ messages' = messages /\ listener'.pc = "idle"
  <2>1. listener' = Idle /\ messages' = messages /\ listener.pc = "send"
    BY DEF SendOffer, SendFails
  <2>2. messages \in Nat
    BY ChatAssumption DEF Inv, TypeOK
  <2>3. QED  BY <2>1, <2>2, IdleOK
<1>2. CASE offers' = offers
  BY <1>1, <1>2 DEF OneOfferEach
<1>3. ASSUME NEW answered \in BOOLEAN, Makes(listener.deal, answered) PROVE OneOfferEach'
  <2>1. PICK new : offers' = offers \cup {new} /\ new.id = messages
    <3>1. [id |-> messages, deal |-> listener.deal, pending |-> TRUE, answered |-> answered].id
            = messages
      OBVIOUS
    <3>2. QED  BY <1>3, <3>1 DEF Makes
  <2>2. \A o, p \in offers' : o.id = p.id => o = p
    BY <1>1, <2>1 DEF OneOfferEach
  <2>3. QED  BY <1>1, <2>1, <2>2 DEF OneOfferEach
<1>4. QED  BY <1>2, <1>3 DEF SendOffer, SendFails

LEMMA OneOfferStep ==
  ASSUME Inv, OneOfferEach, [Next]_vars
  PROVE  OneOfferEach'
<1>1. ASSUME NEW intent \in Intents, NEW word \in Words, NEW q \in Quantities,
             HandleEcpMessage(intent, word, q)
      PROVE  OneOfferEach'
  <2>1. messages \in Nat /\ messages' = messages + 1 /\ offers' = offers
    <3>1. messages' = messages + 1 /\ offers' = offers
      BY <1>1 DEF HandleEcpMessage
    <3>2. messages \in Nat
      BY ChatAssumption DEF Inv, TypeOK
    <3>3. QED  BY <3>1, <3>2
  <2>2. \A o \in offers : o.id \in Nat
    BY ChatAssumption DEF Inv, OfferOK
  <2>3. \A o \in offers' : o.id <= messages' /\ o.id # messages'
    BY <2>1, <2>2 DEF OneOfferEach
  <2>4. QED  BY <2>1, <2>3 DEF OneOfferEach
<1>2. CASE SelectTradeItems
  BY <1>2 DEF SelectTradeItems, OneOfferEach
<1>3. CASE SelectionFails
  BY <1>3, IdleOK DEF SelectionFails, OneOfferEach
<1>4. ASSUME NEW o \in offers, OfferEnds(o) PROVE OneOfferEach'
  <2>1. PICK ended : ended.id = o.id /\ offers' = (offers \ {o}) \cup {ended}
    <3>1. [o EXCEPT !.pending = FALSE].id = o.id
      BY DEF Inv, OfferOK
    <3>2. QED  BY <1>4, <3>1 DEF OfferEnds
  <2>2. UNCHANGED <<messages, listener>>
    BY <1>4 DEF OfferEnds
  <2>3. \A u, p \in offers' : u.id = p.id => u = p
    BY <2>1 DEF OneOfferEach
  <2>4. QED  BY <2>1, <2>2, <2>3 DEF OneOfferEach
<1>5. ASSUME \/ SyncCache
             \/ \E a \in BotAssets : UseItem(a)
             \/ \E sku \in Priced, entry \in Entries : UpdatePrice(sku, entry)
             \/ UNCHANGED vars
      PROVE  OneOfferEach'
  <2>1. UNCHANGED <<offers, messages, listener>>
    BY <1>5 DEF SyncCache, UseItem, UpdatePrice, vars
  <2>2. QED  BY <2>1 DEF OneOfferEach
<1>6. QED  BY <1>1, <1>2, <1>3, <1>4, <1>5, OneOfferMade DEF Next

\* A message gets at most one offer, even when the call that made it is reported
\* to have failed: handleEcpMessage sends once and never repeats a send.
THEOREM ChatOneOfferEach == Spec => []OneOfferEach
<1>1. Init => OneOfferEach
  BY DEF Init, OneOfferEach, Idle
<1>2. Inv /\ OneOfferEach /\ [Next]_vars => OneOfferEach'
  BY OneOfferStep
<1>3. QED  BY <1>1, <1>2, InvAlways, PTL DEF Spec
=============================================================================
