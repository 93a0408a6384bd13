------------------------------- MODULE Backpack -------------------------------
(***************************************************************************)
(* The TF2 backpack in the g-mand daemon, with everybody who changes it.   *)
(* Operators run item actions through ExecAction (cmd/g-mand/game.go);     *)
(* the driver's handlers call the Game Coordinator, one call per item of a *)
(* batch (pkg/tf2/driver/item_ops.go, crafting.go).  Each load of the      *)
(* backpack starts a RunMaintenance goroutine, which smelts duplicate      *)
(* weapons class by class.  New items wait to be acknowledged: by the      *)
(* driver's listener (pkg/tf2/driver/driver.go), by maintenance, by the    *)
(* handler of the load and on request.                                     *)
(*                                                                         *)
(* External: the Game Coordinator, which carries out a call at once or     *)
(* refuses it, the cache that shows what it holds, and the event bus,      *)
(* which drops an event for a subscriber whose channel is full.  Whether   *)
(* TF2 is the current game, and connected, is left open: each check of it  *)
(* and each call may go either way.  Metal that is combined into other     *)
(* metal is left out, and so is the layout.                                *)
(***************************************************************************)
EXTENDS Naturals, Sequences, FiniteSets

CONSTANTS
  Items, Weapons,       \* asset IDs, those of weapons
  Classes,              \* the classes of RunMaintenance, in its order
  UsedBy,               \* per weapon: the classes that use it
  Untradable,
  Initially,            \* the items there at first, all acknowledged
  Targets,              \* bound: the items that operators name
  Operators, Loads,     \* handlers of ExecAction, goroutines of the loads
  Listeners, NoListener,
  Capacity,             \* of the channel of a subscription
  MaxRequests           \* bound: requests of operators in a behaviour

Tasks == Operators \cup Loads

ASSUME BackpackAssumption ==
  /\ Weapons \subseteq Items /\ Targets \subseteq Items /\ Untradable \subseteq Items /\ Initially \subseteq Items
  /\ Classes \in Seq(STRING)
  /\ UsedBy \in [Weapons -> SUBSET STRING]
  /\ Operators \cap Loads = {}
  /\ NoListener \notin Listeners
  /\ Capacity \in Nat \ {0}
  /\ MaxRequests \in Nat

VARIABLES
  status,           \* per item: not there yet, new, acknowledged, gone
  cancelAutoAck,    \* the listener that OnStopGC would cancel
  listener,         \* the goroutines OnStartGC has started
  dispatcher,       \* the handler of BackpackLoaded, and the loads in its queue
  task,             \* requests and maintenance goroutines
  requests,
  excused           \* history: new items that the listener need not see to

listenerVars == <<cancelAutoAck, listener>>
vars == <<status, listenerVars, dispatcher, task, requests, excused>>

Present == {i \in Items : status[i] \in {"new", "seen"}}
New == {i \in Items : status[i] = "new"}
Unused == {i \in Items : status[i] = "none"}

AtMostOne(S) == \A x, y \in S : x = y

ClassWeapons(n) == {w \in Weapons \cap Present : Classes[n] \in UsedBy[w]}

-----------------------------------------------------------------------------
(* The event bus, and what the Game Coordinator does to the items          *)

Subscribed(l) == listener[l].pc \in {"waiting", "delay", "ack"}

\* What an event about new items leaves in the channels of the listeners.
Published ==
  [l \in Listeners |->
    IF Subscribed(l) /\ listener[l].pending < Capacity
    THEN [listener[l] EXCEPT !.pending = @ + 1] ELSE listener[l]]

Become(gone, come) ==
  status' = [i \in Items |-> IF i \in gone THEN "gone"
                             ELSE IF i \in come THEN "new" ELSE status[i]]

\* What comes while no listener is subscribed, or only cancelled ones, is excused.
Excuse(come) ==
  excused' = IF cancelAutoAck # NoListener /\ Subscribed(cancelAutoAck)
             THEN excused ELSE excused \cup come

\* Items come and go.
Change(gone, come) ==
  /\ Become(gone, come)
  /\ Excuse(come)
  /\ listener' = IF come = {} THEN listener ELSE Published
  /\ UNCHANGED cancelAutoAck

\* A call that uses up the items in takes and may produce one of gives, whose ID
\* has never been used (or an item the model does not follow).
Exchange(takes, gives) ==
  \/ Change(takes, {})
  \/ \E i \in Unused \cap gives : Change(takes, {i})

NothingChanges == UNCHANGED <<status, listenerVars, excused>>

AcknowledgeAll == [i \in Items |-> IF status[i] = "new" THEN "seen" ELSE status[i]]

\* AcknowledgeAll by anybody but the listener; it is refused, or fails, at will.
Acknowledge(allowed) ==
  /\ \/ allowed /\ status' = AcknowledgeAll
     \/ UNCHANGED status
  /\ UNCHANGED <<listenerVars, excused>>

-----------------------------------------------------------------------------
(* The listener                                                            *)

OnStartGC ==
  IF cancelAutoAck # NoListener THEN UNCHANGED listenerVars
  ELSE \E l \in Listeners :
    /\ listener[l].pc = "none"
    /\ cancelAutoAck' = l
    /\ listener' = [listener EXCEPT ![l].pc = "started"]

\* A game is played: PlayGame, the launch event and the resume goroutine call
\* OnStartGC (GameSession has the details).
StartGC ==
  /\ OnStartGC
  /\ UNCHANGED <<status, dispatcher, task, requests, excused>>

\* A game ends or is replaced.  Bound: a goroutine is left for the next start.
OnStopGC ==
  /\ cancelAutoAck # NoListener
  /\ \E l \in Listeners : listener[l].pc = "none"
  /\ listener' = [listener EXCEPT ![cancelAutoAck].cancelled = TRUE]
  /\ cancelAutoAck' = NoListener
  /\ excused' = excused \cup New
  /\ UNCHANGED <<status, dispatcher, task, requests>>

Moves(l, from, to) ==
  /\ listener[l].pc = from
  /\ listener' = [listener EXCEPT ![l].pc = to]

Subscribe(l) ==
  /\ Moves(l, "started", "waiting")
  /\ UNCHANGED <<status, cancelAutoAck, excused>>

Turned(l, pc, pending) == [pc |-> pc, pending |-> pending, cancelled |-> listener[l].cancelled]

Wake(l) ==
  /\ listener[l].pc = "waiting"
  /\ listener[l].pending > 0
  /\ listener' = [listener EXCEPT ![l] = Turned(l, "delay", listener[l].pending - 1)]
  /\ UNCHANGED <<status, cancelAutoAck, excused>>

\* Mutant: the items are acknowledged only if more events have come during the delay.
Drain_OnlyMore(l) ==
  /\ listener[l].pc = "delay"
  /\ listener' = [listener EXCEPT ![l] =
       Turned(l, IF listener[l].pending > 0 THEN "ack" ELSE "waiting", 0)]
  /\ UNCHANGED <<status, cancelAutoAck, excused>>

\* The end of the delay, and of the loop that empties the channel.
Drain(l) ==
  /\ listener[l].pc = "delay"
  /\ listener' = [listener EXCEPT ![l] = Turned(l, "ack", 0)]
  /\ UNCHANGED <<status, cancelAutoAck, excused>>

\* The error of AcknowledgeAll is dropped: the items wait for the next event.
Ack(l) ==
  /\ Moves(l, "ack", "waiting")
  /\ \/ /\ ~listener[l].cancelled
        /\ status' = AcknowledgeAll
        /\ UNCHANGED excused
     \/ /\ excused' = excused \cup New
        /\ UNCHANGED status
  /\ UNCHANGED cancelAutoAck

End(l) ==
  /\ listener[l].cancelled
  /\ Moves(l, "waiting", "ended")
  /\ UNCHANGED <<status, cancelAutoAck, excused>>

ListenerStep(l) ==
  /\ Subscribe(l) \/ Wake(l) \/ Drain(l) \/ Ack(l) \/ End(l)
  /\ UNCHANGED <<dispatcher, task, requests>>

-----------------------------------------------------------------------------
(* The handler of BackpackLoadedEvent                                      *)

LoadAck ==
  /\ dispatcher.pc = "idle" /\ dispatcher.queue > 0
  /\ Acknowledge(TRUE)
  /\ dispatcher' = [pc |-> "start", queue |-> dispatcher.queue - 1]
  /\ UNCHANGED task

\* OnStartGC, and a goroutine for the maintenance.
LoadStart ==
  /\ dispatcher.pc = "start"
  /\ OnStartGC
  /\ \E t \in Loads :
       /\ task[t].pc = "none"
       /\ task' = [task EXCEPT ![t].pc = "begin"]
  /\ dispatcher' = [dispatcher EXCEPT !.pc = "idle"]
  /\ UNCHANGED <<status, excused>>

Dispatch ==
  /\ LoadAck \/ LoadStart
  /\ UNCHANGED requests

-----------------------------------------------------------------------------
(* RunMaintenance                                                          *)

Maintaining(pc, class, had, clean, left) ==
  [pc |-> pc, class |-> class, todo |-> << >>, had |-> had, clean |-> clean, left |-> left]
Requested(pc, calls) ==
  [pc |-> pc, class |-> 1, todo |-> calls, had |-> {}, clean |-> TRUE, left |-> FALSE]
Resting(pc) == Requested(pc, << >>)

Goes(t, pc) == task' = [task EXCEPT ![t].pc = pc]

\* A request is answered, a goroutine of maintenance ends.
Ends(t) ==
  task' = [task EXCEPT ![t] = Resting(IF t \in Operators THEN "none" ELSE "ended")]

\* Mutant: the loop goes one class too far.
NextClass_TooFar(t, clean) ==
  LET m == task[t] IN
  task' = [task EXCEPT ![t] =
    Maintaining(IF m.class <= Len(Classes) THEN "scan" ELSE "condense",
                m.class + 1, m.had, m.clean /\ clean, m.left)]

\* break: the next class, or the end of the loop over the classes.
NextClass(t, clean) ==
  LET m == task[t] IN
  task' = [task EXCEPT ![t] =
    Maintaining(IF m.class < Len(Classes) THEN "scan" ELSE "condense",
                m.class + 1, m.had, m.clean /\ clean, m.left)]

\* Nothing is done without a connection.
Begin(t) ==
  /\ task[t].pc = "begin"
  /\ \/ /\ Acknowledge(~task[t].left)
        /\ task' = [task EXCEPT ![t] =
             Maintaining(IF Classes = << >> THEN "condense" ELSE "scan",
                         1, Weapons \cap Present, TRUE, task[t].left)]
     \/ Ends(t) /\ NothingChanges

\* Mutant: a pair that is left counts as no duplicate.
Scan_MoreThanTwo(t) ==
  LET found == ClassWeapons(task[t].class) IN
  /\ task[t].pc = "scan"
  /\ \/ Cardinality(found) <= 2 /\ NextClass(t, TRUE)
     \/ /\ Cardinality(found) > 2
        /\ \E w1, w2 \in found :
             /\ w1 # w2
             /\ IF {w1, w2} \cap Untradable # {} THEN NextClass(t, FALSE) ELSE Goes(t, "smelt")
  /\ NothingChanges

\* FindWeaponsByClassForSmelting; its order is the library's.
Scan(t) ==
  LET found == ClassWeapons(task[t].class) IN
  /\ task[t].pc = "scan"
  /\ \/ AtMostOne(found) /\ NextClass(t, TRUE)
     \/ \E w1, w2 \in found :
          /\ w1 # w2
          /\ IF {w1, w2} \cap Untradable # {} THEN NextClass(t, FALSE) ELSE Goes(t, "smelt")
  /\ NothingChanges

\* Mutant: a smelting that failed is tried again.
Smelt_Again(t) ==
  LET found == ClassWeapons(task[t].class) IN
  /\ task[t].pc = "smelt"
  /\ \/ /\ ~task[t].left
        /\ \E w1, w2 \in found : w1 # w2 /\ Exchange({w1, w2}, Items \ Weapons)
        /\ Goes(t, "wait")
     \/ /\ Goes(t, "scan")
        /\ NothingChanges

\* SmeltClassWeapons looks for the weapons again.
Smelt(t) ==
  LET found == ClassWeapons(task[t].class) IN
  /\ task[t].pc = "smelt"
  /\ \/ /\ ~task[t].left
        /\ \E w1, w2 \in found : w1 # w2 /\ Exchange({w1, w2}, Items \ Weapons)
        /\ Goes(t, "wait")
     \/ /\ NextClass(t, AtMostOne(found))
        /\ NothingChanges

\* The half second between two smeltings, which the context may cut short.
Wait(t) ==
  /\ task[t].pc = "wait"
  /\ \/ Goes(t, "scan")
     \/ task[t].left /\ Ends(t)
  /\ NothingChanges

\* An error of CondenseMetal is logged; one of SortInventory is the result.
CondenseAndSort(t) ==
  /\ task[t].pc = "condense"
  /\ Ends(t)
  /\ NothingChanges

Maintain(t) ==
  /\ Begin(t) \/ Scan(t) \/ Smelt(t) \/ Wait(t) \/ CondenseAndSort(t)
  /\ UNCHANGED <<dispatcher, requests>>

-----------------------------------------------------------------------------
(* ExecAction and the handlers of the item actions                         *)

\* A call about the items in needs, which uses up takes and may produce one of gives.
Call(needs, takes, gives) == [needs |-> needs, takes |-> takes, gives |-> gives]

DeleteItem(i) == Call({i}, {i}, {})
UseItem(i) == Call({i}, {i}, Items)
MarkItem(i) == Call({i}, {}, {})
\* A war paint is given the number of a weapon's definition, and makes that weapon.
ApplyTool(tool, i, type) ==
  Call(IF type = "warpaint" THEN {tool} ELSE {tool, i},
       IF type \in {"unlock-crate", "wrap-item"} THEN {tool, i} ELSE {tool},
       IF type = "tag" THEN {} ELSE Items)
Craft(S) == Call(S, S, Items)

ToolTypes == {"unlock-crate", "wrap-item", "warpaint", "tag"}

\* Bound: batches of two items.
Pairs == {p \in Targets \X Targets : p[1] # p[2]}

\* The requests that stand for one call.
Single ==
  {DeleteItem(i) : i \in Targets} \cup {UseItem(i) : i \in Targets}
  \cup {MarkItem(i) : i \in Targets} \cup {Craft({p[1], p[2]}) : p \in Pairs}
  \cup {ApplyTool(p[1], p[2], type) : p \in Pairs, type \in ToolTypes}
BatchDelete(ids) == [n \in DOMAIN ids |-> DeleteItem(ids[n])]
BatchApplyTool(tool, ids) == [n \in DOMAIN ids |-> ApplyTool(tool, ids[n], "tag")]

Accept(t, pc, calls) ==
  /\ task' = [task EXCEPT ![t] = Requested(pc, calls)]
  /\ requests' = requests + 1

\* The app is checked once, before the action is looked up and run.
ExecAction(t) ==
  /\ t \in Operators
  /\ task[t].pc = "none"
  /\ requests < MaxRequests
  /\ \/ \E c \in Single : Accept(t, "calls", <<c>>)
     \/ \E p \in Pairs :
          \/ Accept(t, "calls", BatchDelete(p))
          \/ \E i \in Targets : Accept(t, "calls", BatchApplyTool(i, p))
     \/ Accept(t, "acknowledge-all", << >>)
     \/ Accept(t, "begin", << >>)
  /\ NothingChanges
  /\ UNCHANGED <<dispatcher>>

\* The next call of a handler.  It is not made when the schema refuses the item,
\* and it may fail; a batch goes on.
Operate(t) ==
  /\ task[t].pc = "calls"
  /\ LET c == Head(task[t].todo) IN
       \/ c.needs \subseteq Present /\ Exchange(c.takes, c.gives)
       \/ NothingChanges
  /\ IF Len(task[t].todo) = 1 THEN Ends(t) ELSE task' = [task EXCEPT ![t].todo = Tail(@)]

AcknowledgeAction(t) ==
  /\ task[t].pc = "acknowledge-all"
  /\ Acknowledge(TRUE)
  /\ Ends(t)

Serve(t) ==
  /\ Operate(t) \/ AcknowledgeAction(t)
  /\ UNCHANGED <<dispatcher, requests>>

\* The client goes away: the context of its request ends, the handler does not.
\* (For handlers other than maintenance this means that calls fail, as they may.)
Leave(t) ==
  /\ task[t].pc \in {"begin", "scan", "smelt", "wait"}
  /\ ~task[t].left
  /\ task' = [task EXCEPT ![t].left = TRUE]
  /\ UNCHANGED <<status, listenerVars, dispatcher, requests, excused>>

-----------------------------------------------------------------------------
(* The world                                                               *)

\* Items from trades and drops.
Arrive ==
  /\ \E i \in Unused : Change({}, {i})
  /\ UNCHANGED <<dispatcher, task, requests>>

\* The whole backpack is loaded, with what has come meanwhile.  Bound: a goroutine is
\* left for its maintenance.
Load ==
  /\ Cardinality({t \in Loads : task[t].pc = "none"}) >
       dispatcher.queue + (IF dispatcher.pc = "idle" THEN 0 ELSE 1)
  /\ dispatcher' = [dispatcher EXCEPT !.queue = @ + 1]
  /\ \E come \in SUBSET Unused :
       /\ Become({}, come)
       /\ Excuse(come)
  /\ listener' = Published
  /\ UNCHANGED <<cancelAutoAck, task, requests>>

-----------------------------------------------------------------------------
Init ==
  /\ status = [i \in Items |-> IF i \in Initially THEN "seen" ELSE "none"]
  /\ excused = {}
  /\ cancelAutoAck = NoListener
  /\ listener = [l \in Listeners |-> [pc |-> "none", pending |-> 0, cancelled |-> FALSE]]
  /\ dispatcher = [pc |-> "idle", queue |-> 0]
  /\ task = [t \in Tasks |-> Resting("none")]
  /\ requests = 0

Next ==
  \/ StartGC \/ OnStopGC
  \/ \E l \in Listeners : ListenerStep(l)
  \/ Dispatch
  \/ \E t \in Tasks : Maintain(t)
  \/ \E t \in Operators : ExecAction(t) \/ Serve(t) \/ Leave(t)
  \/ Arrive \/ Load

Spec == Init /\ [][Next]_vars

\* A goroutine of maintenance that can run does run: its calls and its waits end.
Fairness == \A t \in Tasks : WF_vars(Maintain(t))

FairSpec == Spec /\ Fairness

-----------------------------------------------------------------------------
(* Properties                                                              *)

Calls == [needs : SUBSET Items, takes : SUBSET Items, gives : SUBSET Items]
TaskPC == {"none", "calls", "acknowledge-all", "begin", "scan", "smelt", "wait", "condense", "ended"}

ListenerOK ==
  /\ cancelAutoAck \in Listeners \cup {NoListener}
  /\ listener \in [Listeners -> [pc : {"none", "started", "waiting", "delay", "ack", "ended"},
                                pending : 0 .. Capacity, cancelled : BOOLEAN]]

TaskOK ==
  /\ task \in [Tasks -> [pc : TaskPC, class : 1 .. Len(Classes) + 1, todo : Seq(Calls),
                        had : SUBSET Weapons, clean : BOOLEAN, left : BOOLEAN]]
  /\ \A t \in Tasks : task[t].pc \in {"scan", "smelt", "wait"} => task[t].class <= Len(Classes)
  /\ \A t \in Tasks : task[t].pc = "calls" => task[t].todo # << >>

\* Every variable stays in its domain: no channel holds more than its capacity,
\* no goroutine of maintenance leaves the classes, no handler runs out of calls.
TypeOK ==
  /\ status \in [Items -> {"none", "new", "seen", "gone"}]
  /\ ListenerOK
  /\ dispatcher \in [pc : {"idle", "start"}, queue : Nat]
  /\ TaskOK
  /\ requests \in 0 .. MaxRequests
  /\ excused \subseteq Items

Asleep(l) ==
  \/ listener[l].pc \in {"none", "started", "ended"}
  \/ listener[l].pc = "waiting" /\ listener[l].pending = 0

\* The listener misses no item, although it drops events and the bus drops more:
\* when nothing will wake it, the only new items are those it need not see to,
\* which came while none was subscribed, which it was stopped from acknowledging,
\* or which the coordinator would not let it ("Auto-acknowledge new items in the
\* background", pkg/tf2/driver/driver.go:100).
NoItemMissed == (\A l \in Listeners : Asleep(l)) => New \subseteq excused

\* Maintenance smelts duplicates in every class, whatever the operators and other
\* maintenance do meanwhile: when none of its calls has failed for a reason of its
\* own and no pair was untradable, at most one is left of the weapons of each class
\* that were there when it began (RunMaintenance in pkg/tf2/driver/crafting.go).
DuplicatesSmelted ==
  \A t \in Tasks : task[t].pc = "condense" /\ task[t].clean =>
    \A n \in DOMAIN Classes : AtMostOne(ClassWeapons(n) \cap task[t].had)

\* Maintenance comes to an end, however its calls fail and whoever else works on
\* the same weapons (the loop of RunMaintenance, pkg/tf2/driver/crafting.go:52).
MaintenanceEnds == \A t \in Tasks : task[t].pc = "begin" ~> task[t].pc \in {"none", "ended"}
=============================================================================
