------------------------------ MODULE ManualPrices ------------------------------
(***************************************************************************)
(* The manual price registry of the daemon (cmd/g-mand/prices.go): a map   *)
(* in memory, changed under a mutex that Update holds to its end, and a    *)
(* JSON file that every update replaces by writing a temporary file and    *)
(* renaming it.  The process may die at any step; the next one loads the   *)
(* file.  populateEcpEngine (cmd/g-mand/chatcmd.go) walks the map under    *)
(* another lock, Daemon.mu, which Update does not take.                    *)
(*                                                                         *)
(* A price stands for an entry of the map; Unmarshalable are those the     *)
(* JSON encoder refuses (a metal value that is not a number).              *)
(***************************************************************************)
EXTENDS Naturals

CONSTANTS
  SKUs, Prices, NoPrice,
  Unmarshalable,   \* the entries MarshalIndent returns an error for
  Updaters,        \* the handler goroutines of UpdateManualPrices
  Faults,          \* what may fail: "read", "write" and "rename" of a file
  NoFile, Torn,    \* a file that does not exist; one that is not whole
  MaxUpdates,      \* bound: updates in a behaviour
  MaxCrashes       \* bound: deaths of the process in a behaviour

FileFaults == {"read", "write", "rename"}

VARIABLES
  up,         \* the process is running
  prices,     \* ManualPriceManager.prices
  file, tmp,  \* what is at path and at path.tmp
  handler,    \* per updater: where it is, the entries of its request
  answer,     \* per updater: the answer to its last request
  walker,     \* populateEcpEngine: idle or inside its range over the map
  promised,   \* history: the SKUs some answered update set
  updates, crashes

budgetVars == <<updates, crashes>>
fileVars == <<file, tmp>>
vars == <<up, prices, fileVars, handler, answer, walker, promised, budgetVars>>

Store == INSTANCE PriceStore WITH
  memory <- IF up THEN prices ELSE IF file = NoFile THEN [s \in SKUs |-> NoPrice] ELSE file,
  stored <- IF file = NoFile THEN [s \in SKUs |-> NoPrice] ELSE file

Maps == [SKUs -> Prices \cup {NoPrice}]
Empty == [s \in SKUs |-> NoPrice]
Merged(m, u) == [s \in SKUs |-> IF u[s] = NoPrice THEN m[s] ELSE u[s]]

ASSUME PricesAssumption ==
  /\ NoPrice \notin Prices
  /\ Unmarshalable \subseteq Prices
  /\ Faults \subseteq FileFaults
  /\ NoFile # Torn
  /\ NoFile \notin Maps /\ Torn \notin Maps
  /\ MaxUpdates \in Nat /\ MaxCrashes \in Nat

HandlerPC == {"idle", "lock", "merge", "marshal", "create", "write", "rename", "saved", "failed"}
Locked == {"merge", "marshal", "create", "write", "rename", "saved", "failed"}

At(t, pc) == handler[t].pc = pc
Goto(t, pc) == handler' = [handler EXCEPT ![t].pc = pc]
LockFree == \A t \in Updaters : handler[t].pc \notin Locked

-----------------------------------------------------------------------------
(* Update                                                                  *)

UpdateManualPrices(t, u) ==
  /\ up
  /\ At(t, "idle")
  /\ updates < MaxUpdates
  /\ updates' = updates + 1
  /\ handler' = [handler EXCEPT ![t] = [pc |-> "lock", updates |-> u]]
  /\ answer' = [answer EXCEPT ![t] = "none"]
  /\ UNCHANGED <<up, prices, fileVars, walker, promised, crashes>>

\* Mutant: the lock is not taken.
Lock_Skipped(t) ==
  /\ At(t, "lock")
  /\ Goto(t, "merge")
  /\ UNCHANGED <<up, prices, fileVars, answer, walker, promised, budgetVars>>

Lock(t) ==
  /\ At(t, "lock")
  /\ LockFree
  /\ Goto(t, "merge")
  /\ UNCHANGED <<up, prices, fileVars, answer, walker, promised, budgetVars>>

\* Mutant: the entries replace the map instead of being added to it.
Merge_Replaces(t) ==
  /\ At(t, "merge")
  /\ prices' = handler[t].updates
  /\ Goto(t, "marshal")
  /\ UNCHANGED <<up, fileVars, answer, walker, promised, budgetVars>>

Merge(t) ==
  /\ At(t, "merge")
  /\ prices' = Merged(prices, handler[t].updates)
  /\ Goto(t, "marshal")
  /\ UNCHANGED <<up, fileVars, answer, walker, promised, budgetVars>>

Marshal(t) ==
  /\ At(t, "marshal")
  /\ Goto(t, IF \E s \in SKUs : prices[s] \in Unmarshalable THEN "failed" ELSE "create")
  /\ UNCHANGED <<up, prices, fileVars, answer, walker, promised, budgetVars>>

\* Mutant: the file is truncated and written in place.
CreateTemp_InPlace(t) ==
  /\ At(t, "create")
  /\ file' = Torn
  /\ tmp' = prices
  /\ Goto(t, "rename")
  /\ UNCHANGED <<up, prices, answer, walker, promised, budgetVars>>

\* MkdirAll, and the part of WriteFile that creates or truncates the file.
CreateTemp(t) ==
  /\ At(t, "create")
  /\ \/ tmp' = Torn /\ Goto(t, "write")
     \/ "write" \in Faults /\ UNCHANGED tmp /\ Goto(t, "failed")
  /\ UNCHANGED <<up, prices, file, answer, walker, promised, budgetVars>>

WriteTemp(t) ==
  /\ At(t, "write")
  /\ \/ tmp' = prices /\ Goto(t, "rename")
     \/ "write" \in Faults /\ UNCHANGED tmp /\ Goto(t, "failed")
  /\ UNCHANGED <<up, prices, file, answer, walker, promised, budgetVars>>

Rename(t) ==
  /\ At(t, "rename")
  /\ \/ file' = tmp /\ tmp' = NoFile /\ Goto(t, "saved")
     \/ "rename" \in Faults /\ UNCHANGED fileVars /\ Goto(t, "failed")
  /\ UNCHANGED <<up, prices, answer, walker, promised, budgetVars>>

AnswerUpdate(t) ==
  /\ handler[t].pc \in {"saved", "failed"}
  /\ Goto(t, "idle")
  /\ answer' = [answer EXCEPT ![t] = handler[t].pc]
  /\ promised' = IF At(t, "saved")
                 THEN promised \cup {s \in SKUs : handler[t].updates[s] # NoPrice}
                 ELSE promised
  /\ UNCHANGED <<up, prices, fileVars, walker, budgetVars>>

-----------------------------------------------------------------------------
(* populateEcpEngine                                                       *)

StartWalk ==
  /\ up
  /\ walker = "idle"
  /\ walker' = "walking"
  /\ UNCHANGED <<up, prices, fileVars, handler, answer, promised, budgetVars>>

EndWalk ==
  /\ walker = "walking"
  /\ walker' = "idle"
  /\ UNCHANGED <<up, prices, fileVars, handler, answer, promised, budgetVars>>

-----------------------------------------------------------------------------
(* The process                                                             *)

\* Every goroutine is gone; a request in progress gets no answer.
Crash ==
  /\ up
  /\ crashes < MaxCrashes
  /\ crashes' = crashes + 1
  /\ up' = FALSE
  /\ prices' = Empty
  /\ handler' = [t \in Updaters |-> [pc |-> "idle", updates |-> Empty]]
  /\ walker' = "idle"
  /\ UNCHANGED <<fileVars, answer, promised, updates>>

\* Mutant: the file is not read.
Start_Empty ==
  /\ ~up
  /\ up' = TRUE
  /\ prices' = Empty
  /\ UNCHANGED <<fileVars, handler, answer, walker, promised, budgetVars>>

\* NewManualPriceManager: a file that cannot be read or parsed counts as none.
Start ==
  /\ ~up
  /\ up' = TRUE
  /\ prices' \in {IF file \in {NoFile, Torn} THEN Empty ELSE file}
                   \cup (IF "read" \in Faults THEN {Empty} ELSE {})
  /\ UNCHANGED <<fileVars, handler, answer, walker, promised, budgetVars>>

Init ==
  /\ up = TRUE
  /\ prices = Empty
  /\ file = NoFile
  /\ tmp = NoFile
  /\ handler = [t \in Updaters |-> [pc |-> "idle", updates |-> Empty]]
  /\ answer = [t \in Updaters |-> "none"]
  /\ walker = "idle"
  /\ promised = {}
  /\ updates = 0
  /\ crashes = 0

Step(t) ==
  \/ Lock(t) \/ Merge(t) \/ Marshal(t) \/ CreateTemp(t) \/ WriteTemp(t) \/ Rename(t)
  \/ AnswerUpdate(t)

Next ==
  \/ \E t \in Updaters : (\E u \in Maps : UpdateManualPrices(t, u)) \/ Step(t)
  \/ StartWalk \/ EndWalk
  \/ Crash \/ Start

Spec == Init /\ [][Next]_vars

-----------------------------------------------------------------------------
(* Properties                                                              *)

\* Every variable stays in its domain; in particular the file at path is never
\* torn, and the lock has one holder.
TypeOK ==
  /\ up \in BOOLEAN
  /\ prices \in Maps
  /\ file \in Maps \cup {NoFile}
  /\ tmp \in Maps \cup {NoFile, Torn}
  /\ handler \in [Updaters -> [pc : HandlerPC, updates : Maps]]
  /\ answer \in [Updaters -> {"none", "saved", "failed"}]
  /\ walker \in {"idle", "walking"}
  /\ promised \subseteq SKUs
  /\ updates \in 0 .. MaxUpdates
  /\ crashes \in 0 .. MaxCrashes
  /\ \A t, u \in Updaters : handler[t].pc \in Locked /\ handler[u].pc \in Locked => t = u

\* The registry implements its promise: the file only ever becomes what memory
\* is, in one step, and a new process starts from it (Update "flushes the entire
\* map atomically to disk", prices.go:58).
StoreSpec == Store!Spec

\* An entry that an answered update set is in the file, whatever updates, failures
\* and deaths of the process follow ("Update adds or updates pricing entries").
PromisedKept ==
  \A s \in promised : file # NoFile /\ file[s] # NoPrice

\* When no update is in progress and none was answered with an error, what Get
\* answers is what a restart would find.
MemoryMatchesFile ==
  up /\ (\A t \in Updaters : At(t, "idle") /\ answer[t] # "failed")
    => prices = IF file = NoFile THEN Empty ELSE file

\* Nobody walks the map while an update writes it (ManualPriceManager
\* "encapsulates thread-safe in-memory caching", prices.go:27).
WalkExclusive == walker = "walking" => \A t \in Updaters : ~At(t, "merge")
=============================================================================
