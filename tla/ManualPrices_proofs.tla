-------------------------- MODULE ManualPrices_proofs --------------------------
(***************************************************************************)
(* Proofs about ManualPrices, for any sets of SKUs, entries and updaters   *)
(* and any number of updates and crashes: the registry implements          *)
(* PriceStore, and what an answered update set is never lost, as long as a *)
(* new process can read the file.                                          *)
(***************************************************************************)
EXTENDS ManualPrices, TLAPS

\* What a process finds when it starts.
OnDisk == IF file = NoFile THEN Empty ELSE file

\* The temporary file about to be renamed holds the prices in memory, and nobody
\* works while the process is down.
SaveSound ==
  /\ \A t \in Updaters : At(t, "rename") => tmp = prices
  /\ ~up => prices = Empty /\ \A t \in Updaters : At(t, "idle")

StoreInv == TypeOK /\ SaveSound

\* Merging entries gives a map, which has every SKU that either of them has.
LEMMA MergedMaps ==
  ASSUME NEW m \in Maps, NEW u \in Maps
  PROVE  /\ Merged(m, u) \in Maps
         /\ \A s \in SKUs : m[s] # NoPrice \/ u[s] # NoPrice => Merged(m, u)[s] # NoPrice
BY DEF Merged, Maps

LEMMA StoreInit == Init => StoreInv
<1> SUFFICES ASSUME Init PROVE StoreInv
  OBVIOUS
<1>1. Empty \in Maps
  BY DEF Empty, Maps
<1>2. \A t \in Updaters : handler[t].pc = "idle"
  BY DEF Init
<1>3. handler \in [Updaters -> [pc : HandlerPC, updates : Maps]]
  BY <1>1 DEF Init, HandlerPC
<1>4. updates \in 0 .. MaxUpdates /\ crashes \in 0 .. MaxCrashes
  BY PricesAssumption DEF Init
<1>5. up = TRUE /\ answer \in [Updaters -> {"none", "saved", "failed"}]
  BY DEF Init
<1>6. TypeOK
  BY <1>1, <1>2, <1>3, <1>4, <1>5 DEF Init, TypeOK, Locked
<1>7. SaveSound
  BY <1>2, <1>5 DEF SaveSound, At
<1>8. QED  BY <1>6, <1>7 DEF StoreInv

\* One step of an updater changes only that updater.
LEMMA GotoOne ==
  ASSUME TypeOK, NEW t \in Updaters, NEW pc \in HandlerPC, Goto(t, pc)
  PROVE  /\ handler' \in [Updaters -> [pc : HandlerPC, updates : Maps]]
         /\ handler'[t].pc = pc
         /\ \A u \in Updaters : u # t => handler'[u] = handler[u]
         /\ \A u \in Updaters : handler'[u].updates = handler[u].updates
BY DEF TypeOK, Goto

\* A holder of the lock that keeps it or gives it up leaves it with one holder.
LEMMA OneHolder ==
  ASSUME TypeOK, NEW t \in Updaters, NEW pc \in HandlerPC, Goto(t, pc),
         handler[t].pc \in Locked \/ LockFree
  PROVE  \A v, u \in Updaters : handler'[v].pc \in Locked /\ handler'[u].pc \in Locked => v = u
<1>1. /\ handler'[t].pc = pc
      /\ \A u \in Updaters : u # t => handler'[u] = handler[u]
  BY GotoOne
<1>2. \A u \in Updaters : u # t => handler[u].pc \notin Locked
  BY DEF TypeOK, LockFree
<1>3. QED  BY <1>1, <1>2

LEMMA StoreStep == StoreInv /\ [Next]_vars => StoreInv'
<1> SUFFICES ASSUME StoreInv, [Next]_vars PROVE StoreInv'
  OBVIOUS
<1>a. TypeOK /\ SaveSound
  BY DEF StoreInv
<1>b. HandlerPC = {"idle"} \cup {"lock"} \cup Locked
  BY DEF HandlerPC, Locked
<1>c. ASSUME NEW t \in Updaters, NEW pc \in HandlerPC, Goto(t, pc),
             handler[t].pc \in Locked \/ LockFree,
             ~At(t, "idle"), pc # "rename" \/ tmp' = prices',
             UNCHANGED <<up, walker, budgetVars>>,
             answer' \in [Updaters -> {"none", "saved", "failed"}],
             promised' \subseteq SKUs,
             prices' \in Maps, file' \in Maps \cup {NoFile}, tmp' \in Maps \cup {NoFile, Torn}
      PROVE  StoreInv'
  <2>1. up /\ UNCHANGED <<up, walker, updates, crashes>>
    BY <1>a, <1>c DEF SaveSound, budgetVars
  <2>2. /\ handler' \in [Updaters -> [pc : HandlerPC, updates : Maps]]
        /\ handler'[t].pc = pc
        /\ \A u \in Updaters : u # t => handler'[u] = handler[u]
    BY <1>a, <1>c, GotoOne
  <2>3. \A v, u \in Updaters : handler'[v].pc \in Locked /\ handler'[u].pc \in Locked => v = u
    BY <1>a, <1>c, OneHolder
  <2>4. TypeOK'
    BY <1>a, <1>c, <2>1, <2>2, <2>3 DEF TypeOK
  <2>5. \A u \in Updaters : u # t => ~At(u, "rename")'
    <3>1. \A u \in Updaters : u # t => handler[u].pc \notin Locked
      BY <1>a, <1>c DEF TypeOK, LockFree
    <3>2. QED  BY <2>2, <3>1 DEF At, Locked
  <2>6. SaveSound'
    BY <1>c, <2>1, <2>2, <2>5 DEF SaveSound, At
  <2>7. QED  BY <2>4, <2>6 DEF StoreInv
<1>1. ASSUME NEW t \in Updaters, NEW u \in Maps, UpdateManualPrices(t, u) PROVE StoreInv'
  <2>1. /\ up /\ At(t, "idle")
        /\ handler' = [handler EXCEPT ![t] = [pc |-> "lock", updates |-> u]]
        /\ UNCHANGED <<up, prices, file, tmp, walker, promised, crashes>>
    BY <1>1 DEF UpdateManualPrices, fileVars
  <2>2. updates' \in 0 .. MaxUpdates
    BY <1>1, <1>a, PricesAssumption DEF UpdateManualPrices, TypeOK
  <2>3. answer' \in [Updaters -> {"none", "saved", "failed"}]
    BY <1>1, <1>a DEF UpdateManualPrices, TypeOK
  <2>4. /\ handler'[t].pc = "lock"
        /\ \A v \in Updaters : v # t => handler'[v] = handler[v]
    BY <2>1, <1>a DEF TypeOK
  <2>5. handler' \in [Updaters -> [pc : HandlerPC, updates : Maps]]
    BY <2>1, <1>a DEF TypeOK, HandlerPC
  <2>6. TypeOK'
    BY <1>a, <2>1, <2>2, <2>3, <2>4, <2>5 DEF TypeOK, Locked
  <2>7. SaveSound'
    BY <1>a, <2>1, <2>4 DEF SaveSound, At
  <2>8. QED  BY <2>6, <2>7 DEF StoreInv
<1>2. ASSUME NEW t \in Updaters, Step(t) PROVE StoreInv'
  <2>a. /\ prices \in Maps /\ file \in Maps \cup {NoFile} /\ tmp \in Maps \cup {NoFile, Torn}
        /\ answer \in [Updaters -> {"none", "saved", "failed"}]
        /\ promised \subseteq SKUs /\ handler[t].updates \in Maps
    BY <1>a DEF TypeOK
  <2>b. At(t, "rename") => tmp = prices
    BY <1>a DEF SaveSound
  <2> USE <1>a, <1>b, <1>c, <2>a DEF At, fileVars
  <2>1. CASE Lock(t)
    BY <2>1 DEF Lock, Locked
  <2>2. CASE Merge(t)
    BY <2>2, MergedMaps DEF Merge, Locked
  <2>3. CASE Marshal(t)
    BY <2>3 DEF Marshal, Locked
  <2>4. CASE CreateTemp(t)
    BY <2>4 DEF CreateTemp, Locked
  <2>5. CASE WriteTemp(t)
    BY <2>5 DEF WriteTemp, Locked
  <2>6. CASE Rename(t)
    BY <2>6, <2>b DEF Rename, Locked
  <2>7. CASE AnswerUpdate(t)
    BY <2>7 DEF AnswerUpdate, Locked
  <2>8. QED  BY <1>2, <2>1, <2>2, <2>3, <2>4, <2>5, <2>6, <2>7 DEF Step
<1>3. CASE StartWalk \/ EndWalk
  BY <1>3, <1>a DEF StartWalk, EndWalk, fileVars, budgetVars, StoreInv, TypeOK, SaveSound, At
<1>4. CASE Crash
  <2>1. Empty \in Maps
    BY DEF Empty, Maps
  <2>2. \A t \in Updaters : handler'[t].pc = "idle"
    BY <1>4 DEF Crash
  <2>3. handler' \in [Updaters -> [pc : HandlerPC, updates : Maps]]
    BY <1>4, <2>1 DEF Crash, HandlerPC
  <2>4. crashes' \in 0 .. MaxCrashes
    BY <1>4, <1>a, PricesAssumption DEF Crash, TypeOK
  <2>5. TypeOK'
    BY <1>4, <1>a, <2>1, <2>2, <2>3, <2>4 DEF Crash, fileVars, TypeOK, Locked
  <2>6. SaveSound'
    BY <1>4, <2>2 DEF Crash, SaveSound, At
  <2>7. QED  BY <2>5, <2>6 DEF StoreInv
<1>5. CASE Start
  <2>1. Empty \in Maps
    BY DEF Empty, Maps
  <2>2. prices' \in Maps
    BY <1>5, <1>a, <2>1 DEF Start, TypeOK
  <2>3. \A t \in Updaters : handler'[t].pc = "idle"
    BY <1>5, <1>a DEF Start, SaveSound, At
  <2>4. up' = TRUE /\ UNCHANGED <<file, tmp, handler, answer, walker, promised, updates, crashes>>
    BY <1>5 DEF Start, fileVars, budgetVars
  <2>5. TypeOK'
    BY <1>a, <2>2, <2>4 DEF TypeOK
  <2>6. SaveSound'
    BY <2>3, <2>4 DEF SaveSound, At
  <2>7. QED  BY <2>5, <2>6 DEF StoreInv
<1>6. CASE UNCHANGED vars
  BY <1>6, <1>a DEF vars, fileVars, budgetVars, StoreInv, TypeOK, SaveSound, At
<1>7. QED  BY <1>1, <1>2, <1>3, <1>4, <1>5, <1>6 DEF Next

\* Every variable stays in its domain; the file is never torn and the lock has
\* one holder (Update, saveLocked).
THEOREM PricesTypeCorrect == Spec => []TypeOK
<1>1. StoreInv => TypeOK
  BY DEF StoreInv
<1>2. QED  BY <1>1, StoreInit, StoreStep, PTL DEF Spec

-----------------------------------------------------------------------------
(* The registry implements PriceStore                                      *)

\* What a reader of the prices finds now, or will once the process runs again.
InMemory == IF up THEN prices ELSE OnDisk

LEMMA StoreRefInit == Init => Store!Init
BY DEF Init, Store!Init, Empty, Store!Empty

LEMMA StoreRefStep ==
  ASSUME "read" \notin Faults, StoreInv, [Next]_vars
  PROVE  [Store!Next]_<<InMemory, OnDisk>>
<1> DEFINE Stutter == InMemory' = InMemory /\ OnDisk' = OnDisk
<1>a. TypeOK /\ SaveSound
  BY DEF StoreInv
<1>b. ASSUME UNCHANGED <<up, prices, file>> PROVE Stutter
  BY <1>b DEF InMemory, OnDisk
<1>1. ASSUME NEW t \in Updaters, NEW u \in Maps, UpdateManualPrices(t, u) PROVE Stutter
  BY <1>1, <1>b DEF UpdateManualPrices, fileVars
<1>2. ASSUME NEW t \in Updaters, Step(t) PROVE Stutter \/ Store!Next
  <2>1. CASE Lock(t) \/ Marshal(t) \/ CreateTemp(t) \/ WriteTemp(t) \/ AnswerUpdate(t)
    BY <2>1, <1>b DEF Lock, Marshal, CreateTemp, WriteTemp, AnswerUpdate, fileVars
  <2>2. CASE Merge(t)
    <3>1. up /\ up' /\ OnDisk' = OnDisk
      BY <2>2, <1>a DEF Merge, SaveSound, At, fileVars, OnDisk
    <3>2. handler[t].updates \in Maps /\ prices' = Merged(prices, handler[t].updates)
      BY <2>2, <1>a DEF Merge, TypeOK
    <3>3. Store!Update
      BY <3>1, <3>2 DEF Store!Update, Store!Maps, Store!Merged, Merged, Maps, InMemory, OnDisk, Empty
    <3>4. QED  BY <3>3 DEF Store!Next
  <2>3. CASE Rename(t)
    <3>1. up /\ up' /\ prices' = prices /\ tmp = prices
      BY <2>3, <1>a DEF Rename, SaveSound, At
    <3>2. CASE file' = file
      BY <3>1, <3>2, <1>b
    <3>3. CASE file' = tmp
      <4>1. prices # NoFile
        BY <1>a, PricesAssumption DEF TypeOK
      <4>2. Store!Save
        BY <3>1, <3>3, <4>1 DEF Store!Save
      <4>3. QED  BY <4>2 DEF Store!Next
    <3>4. QED  BY <2>3, <3>2, <3>3 DEF Rename, fileVars
  <2>4. QED  BY <1>2, <2>1, <2>2, <2>3 DEF Step
<1>3. CASE StartWalk \/ EndWalk
  BY <1>3, <1>b DEF StartWalk, EndWalk, fileVars
<1>4. CASE Crash
  <2>1. up /\ ~up' /\ file' = file
    BY <1>4, <1>a DEF Crash, fileVars, TypeOK
  <2>2. Store!Restart
    BY <2>1 DEF Store!Restart, Empty
  <2>3. QED  BY <2>2 DEF Store!Next
<1>5. CASE Start
  <2>1. ~up /\ up' /\ file' = file
    BY <1>5 DEF Start, fileVars
  <2>2. file # Torn
    BY <1>a, PricesAssumption DEF TypeOK
  <2>3. prices' = OnDisk
    BY <1>5, <2>2 DEF Start, OnDisk
  <2>4. Stutter
    BY <2>1, <2>3 DEF InMemory, OnDisk
  <2>5. QED  BY <2>4
<1>6. CASE UNCHANGED vars
  BY <1>6, <1>b DEF vars, fileVars
<1>7. Stutter \/ Store!Next
  BY <1>1, <1>2, <1>3, <1>4, <1>5, <1>6 DEF Next
<1>8. QED  BY <1>7

\* If a new process can read the file, the registry implements PriceStore: updates
\* reach the file as a whole and a restart finds exactly the last saved map.
THEOREM PricesImplementStore ==
  ASSUME "read" \notin Faults
  PROVE  Spec => StoreSpec
<1>1. StoreInv /\ [Next]_vars => [Store!Next]_<<InMemory, OnDisk>>
  BY StoreRefStep
<1>2. Spec => Store!Init /\ [][Store!Next]_<<InMemory, OnDisk>>
  BY <1>1, StoreInit, StoreStep, StoreRefInit, PTL DEF Spec
<1>3. QED  BY <1>2 DEF StoreSpec, Store!Spec, InMemory, OnDisk, Empty

-----------------------------------------------------------------------------
(* An answered update is never lost                                        *)

\* Every SKU that has a price in m has one in n.
Covers(n, m) == \A s \in SKUs : m[s] # NoPrice => n[s] # NoPrice

Merging == {"marshal", "create", "write", "rename"}

\* Memory covers the file, both cover the updates that have reached them, and so
\* the file that replaces another covers it.
PromiseSound ==
  /\ up => Covers(prices, OnDisk)
  /\ \A t \in Updaters : handler[t].pc \in Merging => Covers(prices, handler[t].updates)
  /\ \A t \in Updaters : At(t, "saved") => Covers(OnDisk, handler[t].updates)
  /\ \A s \in promised : OnDisk[s] # NoPrice

LEMMA PromiseMeaning ==
  ASSUME PromiseSound, TypeOK
  PROVE  PromisedKept
BY DEF PromiseSound, TypeOK, PromisedKept, OnDisk, Empty

LEMMA PromiseInit == Init => PromiseSound
BY DEF Init, PromiseSound, OnDisk, Covers, At, Merging

LEMMA CoversTransitive ==
  ASSUME NEW l, NEW m, NEW n, Covers(l, m), Covers(m, n)
  PROVE  Covers(l, n)
BY DEF Covers

LEMMA PromiseStep ==
  ASSUME "read" \notin Faults, StoreInv, PromiseSound, [Next]_vars
  PROVE  PromiseSound'
<1>a. TypeOK /\ SaveSound
  BY DEF StoreInv
<1>b. ASSUME UNCHANGED <<up, prices, file, promised>>,
             \A t \in Updaters : handler'[t].pc \in Merging =>
               handler[t].pc \in Merging /\ handler'[t].updates = handler[t].updates,
             \A t \in Updaters : handler'[t].pc = "saved" =>
               handler[t].pc = "saved" /\ handler'[t].updates = handler[t].updates
      PROVE  PromiseSound'
  BY <1>b DEF PromiseSound, OnDisk, Covers, At
<1>1. ASSUME NEW t \in Updaters, NEW u \in Maps, UpdateManualPrices(t, u) PROVE PromiseSound'
  <2>1. /\ handler'[t].pc = "lock"
        /\ \A v \in Updaters : v # t => handler'[v] = handler[v]
    BY <1>1, <1>a DEF UpdateManualPrices, TypeOK
  <2>2. QED  BY <1>1, <2>1, <1>b DEF UpdateManualPrices, fileVars, Merging
<1>2. ASSUME NEW t \in Updaters, NEW pc \in HandlerPC, Goto(t, pc),
             pc \in Merging => handler[t].pc \in Merging,
             pc = "saved" => handler[t].pc = "saved",
             UNCHANGED <<up, prices, file, promised>>
      PROVE  PromiseSound'
  <2>1. /\ handler'[t].pc = pc
        /\ \A v \in Updaters : v # t => handler'[v] = handler[v]
        /\ \A v \in Updaters : handler'[v].updates = handler[v].updates
    BY <1>2, <1>a, GotoOne
  <2>2. QED  BY <1>2, <2>1, <1>b
<1>3. ASSUME NEW t \in Updaters, Lock(t) \/ CreateTemp(t) \/ WriteTemp(t) \/ Marshal(t)
      PROVE  PromiseSound'
  <2> USE <1>2 DEF At, fileVars, Merging, HandlerPC
  <2>1. CASE Lock(t)
    BY <2>1 DEF Lock
  <2>2. CASE Marshal(t)
    BY <2>2 DEF Marshal
  <2>3. CASE CreateTemp(t)
    BY <2>3 DEF CreateTemp
  <2>4. CASE WriteTemp(t)
    BY <2>4 DEF WriteTemp
  <2>5. QED  BY <1>3, <2>1, <2>2, <2>3, <2>4
<1>4. ASSUME NEW t \in Updaters, Merge(t) PROVE PromiseSound'
  <2>1. /\ up /\ UNCHANGED <<up, file, promised>>
        /\ prices' = Merged(prices, handler[t].updates)
        /\ prices \in Maps /\ handler[t].updates \in Maps
    BY <1>4, <1>a DEF Merge, SaveSound, At, TypeOK, fileVars
  <2>2. /\ handler'[t].pc = "marshal"
        /\ \A v \in Updaters : v # t => handler'[v] = handler[v]
        /\ \A v \in Updaters : handler'[v].updates = handler[v].updates
    BY <1>4, <1>a, GotoOne DEF Merge, HandlerPC
  <2>3. Covers(prices', prices) /\ Covers(prices', handler[t].updates)
    BY <2>1, MergedMaps DEF Covers
  <2>4. Covers(prices, OnDisk) /\ OnDisk' = OnDisk
    BY <2>1 DEF PromiseSound, OnDisk
  <2>5. Covers(prices', OnDisk')
    BY <2>3, <2>4, CoversTransitive
  <2>6. \A v \in Updaters : handler'[v].pc \in Merging => Covers(prices', handler'[v].updates)
    <3> TAKE v \in Updaters
    <3>1. CASE v = t
      BY <3>1, <2>2, <2>3
    <3>2. CASE v # t
      BY <3>2, <2>2, <2>3, CoversTransitive DEF PromiseSound
    <3>3. QED  BY <3>1, <3>2
  <2>7. \A v \in Updaters : handler'[v].pc = "saved" => Covers(OnDisk', handler'[v].updates)
    BY <2>2, <2>4 DEF PromiseSound, At
  <2>8. \A s \in promised' : OnDisk'[s] # NoPrice
    BY <2>1, <2>4 DEF PromiseSound
  <2>9. QED  BY <2>5, <2>6, <2>7, <2>8 DEF PromiseSound, Covers, At
<1>5. ASSUME NEW t \in Updaters, Rename(t) PROVE PromiseSound'
  <2>1. CASE "rename" \in Faults /\ UNCHANGED fileVars /\ Goto(t, "failed")
    BY <1>5, <2>1, <1>2 DEF Rename, fileVars, HandlerPC, Merging
  <2>2. CASE file' = tmp /\ Goto(t, "saved")
    <3>1. up /\ UNCHANGED <<up, prices, promised>> /\ file' = prices /\ handler[t].pc = "rename"
      BY <1>5, <2>2, <1>a DEF Rename, SaveSound, At
    <3>2. OnDisk' = prices
      BY <3>1, <1>a, PricesAssumption DEF OnDisk, TypeOK
    <3>3. /\ handler'[t].pc = "saved"
          /\ \A v \in Updaters : v # t => handler'[v] = handler[v]
          /\ \A v \in Updaters : handler'[v].updates = handler[v].updates
      BY <2>2, <1>a, GotoOne DEF HandlerPC
    <3>4. Covers(OnDisk', OnDisk)
      BY <3>1, <3>2 DEF PromiseSound
    <3>5. Covers(prices', OnDisk')
      BY <3>1, <3>2 DEF Covers
    <3>6. \A v \in Updaters : handler'[v].pc \in Merging => Covers(prices', handler'[v].updates)
      BY <3>1, <3>3 DEF PromiseSound, Merging
    <3>7. \A v \in Updaters : handler'[v].pc = "saved" => Covers(OnDisk', handler'[v].updates)
      <4> TAKE v \in Updaters
      <4>1. CASE v = t
        BY <4>1, <3>1, <3>2, <3>3 DEF PromiseSound, Merging
      <4>2. CASE v # t
        BY <4>2, <3>3, <3>4, CoversTransitive DEF PromiseSound, At
      <4>3. QED  BY <4>1, <4>2
    <3>8. \A s \in promised' : OnDisk'[s] # NoPrice
      BY <3>1, <3>4, <1>a DEF PromiseSound, Covers, TypeOK
    <3>9. QED  BY <3>5, <3>6, <3>7, <3>8 DEF PromiseSound, Covers, At
  <2>3. QED  BY <1>5, <2>1, <2>2 DEF Rename
<1>6. ASSUME NEW t \in Updaters, AnswerUpdate(t) PROVE PromiseSound'
  <2>1. UNCHANGED <<up, prices, file>> /\ OnDisk' = OnDisk
    BY <1>6 DEF AnswerUpdate, fileVars, OnDisk
  <2>2. /\ handler'[t].pc = "idle"
        /\ \A v \in Updaters : v # t => handler'[v] = handler[v]
    BY <1>6, <1>a, GotoOne DEF AnswerUpdate, HandlerPC
  <2>3. \A s \in promised' : OnDisk'[s] # NoPrice
    BY <1>6, <2>1 DEF AnswerUpdate, PromiseSound, Covers
  <2>4. Covers(prices, OnDisk) => Covers(prices', OnDisk')
    BY <2>1
  <2>5. QED  BY <2>1, <2>2, <2>3, <2>4 DEF PromiseSound, Covers, At, Merging
<1>7. ASSUME NEW t \in Updaters, Step(t) PROVE PromiseSound'
  BY <1>7, <1>3, <1>4, <1>5, <1>6 DEF Step
<1>8. CASE StartWalk \/ EndWalk
  BY <1>8, <1>b DEF StartWalk, EndWalk, fileVars
<1>9. CASE Crash
  <2>1. ~up' /\ file' = file /\ promised' = promised /\ OnDisk' = OnDisk
    BY <1>9 DEF Crash, fileVars, OnDisk
  <2>2. \A t \in Updaters : handler'[t].pc = "idle"
    BY <1>9 DEF Crash
  <2>3. QED  BY <2>1, <2>2 DEF PromiseSound, At, Merging
<1>10. CASE Start
  <2>1. UNCHANGED <<file, handler, promised>> /\ OnDisk' = OnDisk
    BY <1>10 DEF Start, fileVars, OnDisk
  <2>2. \A t \in Updaters : handler'[t].pc = "idle"
    BY <1>10, <2>1, <1>a DEF Start, SaveSound, At
  <2>3. file # Torn
    BY <1>a, PricesAssumption DEF TypeOK
  <2>4. prices' = OnDisk'
    BY <1>10, <2>1, <2>3 DEF Start, OnDisk
  <2>5. QED  BY <2>1, <2>2, <2>4 DEF PromiseSound, At, Merging, Covers
<1>11. CASE UNCHANGED vars
  BY <1>11, <1>b DEF vars, fileVars
<1>12. QED  BY <1>1, <1>7, <1>8, <1>9, <1>10, <1>11 DEF Next

\* If a new process can read the file, what an answered update set is in the file
\* for good, whatever writes fail and whenever the process dies.
THEOREM PricesPromisedKept ==
  ASSUME "read" \notin Faults
  PROVE  Spec => []PromisedKept
<1>1. StoreInv /\ PromiseSound /\ [Next]_vars => PromiseSound'
  BY PromiseStep
<1>2. StoreInv /\ PromiseSound => PromisedKept
  BY PromiseMeaning DEF StoreInv
<1>3. QED  BY <1>1, <1>2, StoreInit, StoreStep, PromiseInit, PTL DEF Spec

-----------------------------------------------------------------------------
(* Memory and file agree at rest                                           *)

\* If memory differs from the file, somebody is still updating or was told that the
\* update failed; who has saved still has the lock, so nobody has merged since.
MatchSound ==
  /\ \A t \in Updaters : At(t, "saved") => prices = OnDisk
  /\ up => prices = OnDisk \/ \E t \in Updaters : ~At(t, "idle") \/ answer[t] = "failed"

LEMMA MatchInit == Init => MatchSound
BY DEF Init, MatchSound, OnDisk, At

LEMMA MatchStep ==
  ASSUME "read" \notin Faults, StoreInv, MatchSound, [Next]_vars
  PROVE  MatchSound'
<1>a. TypeOK /\ SaveSound
  BY DEF StoreInv
<1>1. ASSUME NEW t \in Updaters, NEW u \in Maps, UpdateManualPrices(t, u) PROVE MatchSound'
  <2>1. /\ handler'[t].pc = "lock"
        /\ \A v \in Updaters : v # t => handler'[v] = handler[v]
        /\ UNCHANGED <<up, prices, file>>
    BY <1>1, <1>a DEF UpdateManualPrices, TypeOK, fileVars
  <2>2. QED  BY <2>1 DEF MatchSound, OnDisk, At
<1>2. ASSUME NEW t \in Updaters, NEW pc \in HandlerPC \ {"idle"}, Goto(t, pc),
             pc = "saved" => prices' = OnDisk',
             \/ UNCHANGED <<prices, file>>
             \/ handler[t].pc \in Locked
      PROVE  MatchSound'
  <2>1. /\ handler'[t].pc = pc
        /\ \A v \in Updaters : v # t => handler'[v] = handler[v]
    BY <1>2, <1>a, GotoOne
  <2>2. ASSUME NEW v \in Updaters, At(v, "saved")' PROVE prices' = OnDisk'
    <3>1. CASE v = t
      BY <3>1, <1>2, <2>1, <2>2 DEF At
    <3>2. CASE v # t
      <4>1. At(v, "saved")
        BY <3>2, <2>1, <2>2 DEF At
      <4>2. handler[t].pc \notin Locked
        BY <3>2, <4>1, <1>a DEF TypeOK, At, Locked
      <4>3. QED  BY <4>1, <4>2, <1>2 DEF MatchSound, OnDisk
    <3>3. QED  BY <3>1, <3>2
  <2>3. ~At(t, "idle")'
    BY <2>1, <1>2 DEF At
  <2>4. QED  BY <2>2, <2>3 DEF MatchSound
<1>3. ASSUME NEW t \in Updaters, Step(t) PROVE MatchSound'
  <2> USE <1>2 DEF HandlerPC, Locked, At, fileVars
  <2>1. CASE Lock(t)
    BY <2>1 DEF Lock
  <2>2. CASE Merge(t)
    BY <2>2 DEF Merge
  <2>3. CASE Marshal(t)
    BY <2>3 DEF Marshal
  <2>4. CASE CreateTemp(t) \/ WriteTemp(t)
    BY <2>4 DEF CreateTemp, WriteTemp
  <2>5. CASE Rename(t)
    <3>1. tmp = prices /\ prices # NoFile /\ prices' = prices
      BY <2>5, <1>a, PricesAssumption DEF Rename, SaveSound, TypeOK
    <3>2. file' = tmp => OnDisk' = prices'
      BY <3>1 DEF OnDisk
    <3>3. QED  BY <2>5, <3>2 DEF Rename
  <2>6. CASE AnswerUpdate(t)
    <3>1. /\ handler'[t].pc = "idle"
          /\ \A v \in Updaters : v # t => handler'[v] = handler[v]
      BY <2>6, <1>a, GotoOne DEF AnswerUpdate
    <3>2. UNCHANGED <<up, prices, file>> /\ OnDisk' = OnDisk
      BY <2>6 DEF AnswerUpdate, OnDisk
    <3>3. CASE At(t, "saved")
      BY <3>1, <3>2, <3>3 DEF MatchSound
    <3>4. CASE At(t, "failed")
      <4>1. answer'[t] = "failed"
        BY <2>6, <3>4, <1>a DEF AnswerUpdate, TypeOK
      <4>2. QED  BY <3>1, <3>2, <4>1 DEF MatchSound
    <3>5. QED  BY <2>6, <3>3, <3>4 DEF AnswerUpdate
  <2>7. QED  BY <1>3, <2>1, <2>2, <2>3, <2>4, <2>5, <2>6 DEF Step
<1>4. CASE StartWalk \/ EndWalk \/ UNCHANGED vars
  BY <1>4 DEF StartWalk, EndWalk, vars, fileVars, MatchSound, OnDisk, At
<1>5. CASE Crash
  BY <1>5 DEF Crash, MatchSound, At
<1>6. CASE Start
  <2>1. /\ file # Torn /\ UNCHANGED <<file, handler>>
        /\ \A t \in Updaters : At(t, "idle")
    BY <1>6, <1>a, PricesAssumption DEF Start, SaveSound, TypeOK, fileVars
  <2>2. prices' = OnDisk'
    BY <1>6, <2>1 DEF Start, OnDisk
  <2>3. QED  BY <2>2 DEF MatchSound
<1>7. QED  BY <1>1, <1>3, <1>4, <1>5, <1>6 DEF Next

\* If a new process can read the file, what the registry answers at rest is what a
\* restart would find, unless an update was answered with an error (Update, Get).
THEOREM PricesMemoryMatchesFile ==
  ASSUME "read" \notin Faults
  PROVE  Spec => []MemoryMatchesFile
<1>1. StoreInv /\ MatchSound => MemoryMatchesFile
  BY DEF MatchSound, MemoryMatchesFile, OnDisk, At
<1>2. StoreInv /\ MatchSound /\ [Next]_vars => StoreInv' /\ MatchSound'
  BY StoreStep, MatchStep
<1>3. QED  BY <1>1, <1>2, StoreInit, MatchInit, PTL DEF Spec

-----------------------------------------------------------------------------
(* The file only grows                                                     *)

\* No step takes a price out of the file: neither an update, which adds to the map it
\* saves, nor a failed write, nor the death of the process, nor the next one, which
\* starts from the file and so saves no less (Update, saveLocked, load).
StaysPriced == [][Covers(OnDisk', OnDisk)]_vars

LEMMA FileGrows ==
  ASSUME StoreInv, PromiseSound, [Next]_vars
  PROVE  Covers(OnDisk', OnDisk)
<1>a. TypeOK /\ SaveSound
  BY DEF StoreInv
<1>b. ASSUME file' = file PROVE Covers(OnDisk', OnDisk)
  BY <1>b DEF Covers, OnDisk
<1>1. ASSUME NEW t \in Updaters, Rename(t) PROVE Covers(OnDisk', OnDisk)
  <2>1. up /\ tmp = prices
    BY <1>1, <1>a DEF Rename, SaveSound, At
  <2>2. CASE file' = tmp
    <3>1. OnDisk' = prices
      BY <2>1, <2>2, <1>a, PricesAssumption DEF OnDisk, TypeOK
    <3>2. QED  BY <2>1, <3>1 DEF PromiseSound
  <2>3. QED  BY <1>1, <2>2, <1>b DEF Rename, fileVars
<1>2. ASSUME NEW t \in Updaters, Step(t), ~Rename(t) PROVE file' = file
  BY <1>2 DEF Step, Lock, Merge, Marshal, CreateTemp, WriteTemp, AnswerUpdate, fileVars
<1>3. ASSUME NEW t \in Updaters, NEW u \in Maps, UpdateManualPrices(t, u) PROVE file' = file
  BY <1>3 DEF UpdateManualPrices, fileVars
<1>4. CASE StartWalk \/ EndWalk \/ Crash \/ Start \/ UNCHANGED vars
  BY <1>4, <1>b DEF StartWalk, EndWalk, Crash, Start, vars, fileVars
<1>5. QED  BY <1>1, <1>2, <1>3, <1>4, <1>b DEF Next

\* If a new process can read the file, an item that has a price there keeps one for
\* good, whatever updates, failures and crashes follow.
THEOREM PricesStayOnFile ==
  ASSUME "read" \notin Faults
  PROVE  Spec => StaysPriced
<1>1. StoreInv /\ PromiseSound /\ [Next]_vars => PromiseSound'
  BY PromiseStep
<1>2. StoreInv /\ PromiseSound /\ [Next]_vars => Covers(OnDisk', OnDisk)
  BY FileGrows
<1>3. QED  BY <1>1, <1>2, StoreInit, StoreStep, PromiseInit, PTL DEF Spec, StaysPriced
=============================================================================
