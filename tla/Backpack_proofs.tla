---------------------------- MODULE Backpack_proofs ----------------------------
(* Backpack keeps its types, its listener misses no item and its maintenance   *)
(* leaves no duplicates and gets on, for every set of items, classes and       *)
(* tasks; its driver implements ListenerHandle.                                *)
EXTENDS Backpack, SequenceTheorems, FiniteSetTheorems, TLAPS

-----------------------------------------------------------------------------
(* What a step does to the items and to the listeners                        *)

LoadItems ==
  /\ \E come \in SUBSET Unused : Become({}, come) /\ Excuse(come)
  /\ listener' = Published
  /\ UNCHANGED cancelAutoAck

ListenerMoves(l) == Subscribe(l) \/ Wake(l) \/ Drain(l) \/ Ack(l) \/ End(l)

Starts == OnStartGC /\ UNCHANGED <<status, excused>>

Stops ==
  /\ cancelAutoAck # NoListener
  /\ listener' = [listener EXCEPT ![cancelAutoAck].cancelled = TRUE]
  /\ cancelAutoAck' = NoListener
  /\ excused' = excused \cup New
  /\ UNCHANGED status

ItemStep ==
  \/ NothingChanges
  \/ \E allowed \in BOOLEAN : Acknowledge(allowed)
  \/ \E gone \in SUBSET Items, come \in SUBSET Unused : Change(gone, come)
  \/ LoadItems
  \/ Starts
  \/ Stops
  \/ \E l \in Listeners : ListenerMoves(l)

\* What two calls make: a list of two.
LEMMA PairOfCalls ==
  ASSUME NEW s \in [1 .. 2 -> Calls]
  PROVE  s \in Seq(Calls) /\ s # << >>
<1>1. s \in Seq(Calls)
  BY SeqDef
<1>2. DOMAIN s = 1 .. 2
  OBVIOUS
<1>3. Len(s) = 2
  BY <1>1, <1>2
<1>4. s # << >>
  BY <1>3
<1> QED BY <1>1, <1>4

\* The calls of a handler name items.
LEMMA CallsOK ==
  /\ Single \subseteq Calls
  /\ \A p \in Pairs : BatchDelete(p) \in Seq(Calls) /\ BatchDelete(p) # << >>
  /\ \A i \in Targets, p \in Pairs : BatchApplyTool(i, p) \in Seq(Calls) /\ BatchApplyTool(i, p) # << >>
<1>1. \A i \in Targets : DeleteItem(i) \in Calls /\ UseItem(i) \in Calls /\ MarkItem(i) \in Calls
  BY BackpackAssumption DEF DeleteItem, UseItem, MarkItem, Call, Calls
<1>2. \A p \in Pairs : p[1] \in Targets /\ p[2] \in Targets /\ DOMAIN p = 1 .. 2
  BY DEF Pairs
<1>3. \A i, j \in Targets, type \in ToolTypes : ApplyTool(i, j, type) \in Calls
  <2> TAKE i, j \in Targets, type \in ToolTypes
  <2>1. {i} \in SUBSET Items /\ {i, j} \in SUBSET Items /\ {} \in SUBSET Items
    BY BackpackAssumption
  <2> QED BY <2>1 DEF ApplyTool, Call, Calls
<1>4. \A i, j \in Targets : Craft({i, j}) \in Calls
  BY BackpackAssumption DEF Craft, Call, Calls
<1>5. Single \subseteq Calls
  <2> SUFFICES ASSUME NEW c \in Single PROVE c \in Calls
    OBVIOUS
  <2>1. CASE \E i \in Targets : c = DeleteItem(i) \/ c = UseItem(i) \/ c = MarkItem(i)
    BY <2>1, <1>1
  <2>2. CASE \E p \in Pairs : c = Craft({p[1], p[2]})
    BY <2>2, <1>2, <1>4
  <2>3. CASE \E p \in Pairs, type \in ToolTypes : c = ApplyTool(p[1], p[2], type)
    BY <2>3, <1>2, <1>3
  <2> QED BY <2>1, <2>2, <2>3 DEF Single
<1>6. \A p \in Pairs : BatchDelete(p) \in Seq(Calls) /\ BatchDelete(p) # << >>
  <2> TAKE p \in Pairs
  <2>1. BatchDelete(p) = [n \in 1 .. 2 |-> DeleteItem(p[n])]
    BY <1>2 DEF BatchDelete
  <2>2. \A n \in 1 .. 2 : DeleteItem(p[n]) \in Calls
    BY <1>1, <1>2
  <2>3. BatchDelete(p) \in [1 .. 2 -> Calls]
    BY <2>1, <2>2
  <2> QED BY <2>3, PairOfCalls
<1>7. \A i \in Targets, p \in Pairs : BatchApplyTool(i, p) \in Seq(Calls) /\ BatchApplyTool(i, p) # << >>
  <2> TAKE i \in Targets, p \in Pairs
  <2>1. BatchApplyTool(i, p) = [n \in 1 .. 2 |-> ApplyTool(i, p[n], "tag")]
    BY <1>2 DEF BatchApplyTool
  <2>2. \A n \in 1 .. 2 : ApplyTool(i, p[n], "tag") \in Calls
    BY <1>2, <1>3 DEF ToolTypes
  <2>3. BatchApplyTool(i, p) \in [1 .. 2 -> Calls]
    BY <2>1, <2>2
  <2> QED BY <2>3, PairOfCalls
<1> QED BY <1>5, <1>6, <1>7

\* Whatever a call takes and gives, it changes the items.
LEMMA ExchangeChanges ==
  ASSUME NEW takes \in SUBSET Items, NEW gives, Exchange(takes, gives)
  PROVE  \E gone \in SUBSET Items, come \in SUBSET Unused : Change(gone, come)
BY DEF Exchange

LEMMA NextItems ==
  ASSUME TypeOK, Next
  PROVE  ItemStep
<1> USE DEF ItemStep
<1>1. CASE StartGC
  BY <1>1 DEF StartGC, Starts
<1>2. CASE OnStopGC
  BY <1>2 DEF OnStopGC, Stops
<1>3. ASSUME NEW l \in Listeners, ListenerStep(l) PROVE ItemStep
  BY <1>3 DEF ListenerStep, ListenerMoves
<1>4. CASE Dispatch
  BY <1>4 DEF Dispatch, LoadAck, LoadStart, Starts
<1>5. ASSUME NEW t \in Tasks, Maintain(t) PROVE ItemStep
  <2>1. CASE Begin(t)
    BY <2>1, <1>5 DEF Begin, TypeOK, TaskOK
  <2>2. CASE Scan(t) \/ Wait(t) \/ CondenseAndSort(t)
    BY <2>2 DEF Scan, Wait, CondenseAndSort
  <2>3. CASE Smelt(t)
    <3>1. CASE NothingChanges
      BY <3>1
    <3>2. CASE \E x, y \in ClassWeapons(task[t].class) : Exchange({x, y}, Items \ Weapons)
      BY <3>2, BackpackAssumption, ExchangeChanges DEF ClassWeapons, Present
    <3> QED BY <2>3, <3>1, <3>2 DEF Smelt
  <2> QED BY <1>5, <2>1, <2>2, <2>3 DEF Maintain
<1>6. ASSUME NEW t \in Operators, ExecAction(t) \/ Serve(t) \/ Leave(t) PROVE ItemStep
  <2>1. CASE ExecAction(t)
    BY <2>1 DEF ExecAction
  <2>2. CASE Operate(t)
    <3>1. task[t].todo \in Seq(Calls) /\ task[t].todo # << >>
      BY <2>2 DEF Operate, TypeOK, TaskOK, Tasks
    <3>2. Head(task[t].todo) \in Calls
      BY <3>1
    <3>3. Head(task[t].todo).takes \in SUBSET Items
      BY <3>2 DEF Calls
    <3>4. Exchange(Head(task[t].todo).takes, Head(task[t].todo).gives) \/ NothingChanges
      BY <2>2 DEF Operate
    <3> QED BY <3>3, <3>4, ExchangeChanges
  <2>3. CASE AcknowledgeAction(t)
    BY <2>3 DEF AcknowledgeAction
  <2>4. CASE Leave(t)
    BY <2>4 DEF Leave, NothingChanges, listenerVars
  <2> QED BY <1>6, <2>1, <2>2, <2>3, <2>4 DEF Serve
<1>7. CASE Arrive
  BY <1>7 DEF Arrive
<1>8. CASE Load
  BY <1>8 DEF Load, LoadItems
<1> QED BY <1>1, <1>2, <1>3, <1>4, <1>5, <1>6, <1>7, <1>8 DEF Next

-----------------------------------------------------------------------------
(* The items and the listeners                                               *)

ItemsOK ==
  /\ status \in [Items -> {"none", "new", "seen", "gone"}]
  /\ ListenerOK
  /\ excused \subseteq Items

LEMMA ItemsTyped ==
  ASSUME ItemsOK, ItemStep
  PROVE  ItemsOK'
<1> USE DEF ItemsOK, ListenerOK
<1>1. Unused \subseteq Items /\ New \subseteq Items
  BY DEF Unused, New
<1>2. \A l \in Listeners : Published[l] \in
        [pc : {"none", "started", "waiting", "delay", "ack", "ended"}, pending : 0 .. Capacity, cancelled : BOOLEAN]
  <2> SUFFICES ASSUME NEW l \in Listeners
               PROVE  Published[l] \in
                        [pc : {"none", "started", "waiting", "delay", "ack", "ended"},
                         pending : 0 .. Capacity, cancelled : BOOLEAN]
    OBVIOUS
  <2>1. Published[l] = IF Subscribed(l) /\ listener[l].pending < Capacity
                       THEN [listener[l] EXCEPT !.pending = @ + 1] ELSE listener[l]
    BY DEF Published
  <2>2. listener[l] \in [pc : {"none", "started", "waiting", "delay", "ack", "ended"},
                         pending : 0 .. Capacity, cancelled : BOOLEAN]
    OBVIOUS
  <2>3. listener[l].pending < Capacity => listener[l].pending + 1 \in 0 .. Capacity
    BY <2>2, BackpackAssumption
  <2> QED BY <2>1, <2>2, <2>3
<1>3. CASE NothingChanges
  BY <1>3 DEF NothingChanges, listenerVars
<1>4. ASSUME NEW allowed \in BOOLEAN, Acknowledge(allowed) PROVE ItemsOK'
  BY <1>4 DEF Acknowledge, AcknowledgeAll, listenerVars
<1>5. ASSUME NEW gone \in SUBSET Items, NEW come \in SUBSET Unused, Change(gone, come) PROVE ItemsOK'
  BY <1>5, <1>1, <1>2 DEF Change, Become, Excuse, Published
<1>6. CASE LoadItems
  BY <1>6, <1>1, <1>2 DEF LoadItems, Become, Excuse, Published
<1>7. CASE Starts
  BY <1>7 DEF Starts, OnStartGC, listenerVars
<1>8. CASE Stops
  BY <1>8, <1>1 DEF Stops
<1>9. ASSUME NEW l \in Listeners, ListenerMoves(l) PROVE ItemsOK'
  <2>1. CASE Subscribe(l) \/ End(l)
    BY <2>1 DEF Subscribe, End, Moves
  <2>2. CASE Wake(l)
    BY <2>2, BackpackAssumption DEF Wake, Turned
  <2>3. CASE Drain(l)
    BY <2>3, BackpackAssumption DEF Drain, Turned
  <2>4. CASE Ack(l)
    BY <2>4, <1>1 DEF Ack, Moves, AcknowledgeAll
  <2> QED BY <1>9, <2>1, <2>2, <2>3, <2>4 DEF ListenerMoves
<1> QED BY <1>3, <1>4, <1>5, <1>6, <1>7, <1>8, <1>9 DEF ItemStep

\* The listener that could be cancelled is live, and was not cancelled.
HandleLive ==
  cancelAutoAck # NoListener =>
    /\ listener[cancelAutoAck].pc \in {"started", "waiting", "delay", "ack"}
    /\ ~listener[cancelAutoAck].cancelled

\* It is going to acknowledge.
Awake ==
  /\ cancelAutoAck # NoListener
  /\ \/ listener[cancelAutoAck].pc \in {"delay", "ack"}
     \/ listener[cancelAutoAck].pc = "waiting" /\ listener[cancelAutoAck].pending > 0

SeenTo == New \subseteq excused \/ Awake

FreshOK == \A l \in Listeners : listener[l].pc = "none" => ~listener[l].cancelled

LEMMA SeenToStep ==
  ASSUME ItemsOK, HandleLive, FreshOK, SeenTo, ItemStep
  PROVE  HandleLive' /\ FreshOK' /\ SeenTo'
<1> USE DEF HandleLive, FreshOK, SeenTo, Awake, ItemsOK, ListenerOK
<1>1. ASSUME NEW come \in SUBSET Unused, NEW gone, Become(gone, come) PROVE New' \subseteq New \cup come
  BY <1>1 DEF Become, New, Unused
<1>2. ASSUME NEW come \in SUBSET Unused, New' \subseteq New \cup come, Excuse(come),
             listener' = Published, UNCHANGED cancelAutoAck
      PROVE  HandleLive' /\ FreshOK' /\ SeenTo'
  <2>1. \A l \in Listeners : listener'[l].pc = listener[l].pc /\ listener'[l].cancelled = listener[l].cancelled
    BY <1>2 DEF Published
  <2>2. \A l \in Listeners : listener'[l].pending >= listener[l].pending
    BY <1>2 DEF Published
  <2>3. \A l \in Listeners : Subscribed(l) => listener'[l].pending > 0
    BY <1>2, BackpackAssumption DEF Published, Subscribed
  <2>4. CASE cancelAutoAck # NoListener /\ Subscribed(cancelAutoAck)
    BY <1>2, <2>1, <2>3, <2>4 DEF Subscribed
  <2>5. CASE ~(cancelAutoAck # NoListener /\ Subscribed(cancelAutoAck))
    BY <1>2, <2>1, <2>2, <2>5 DEF Subscribed, Excuse
  <2> QED BY <2>4, <2>5
<1>3. CASE NothingChanges
  BY <1>3 DEF NothingChanges, listenerVars, New
<1>4. ASSUME NEW allowed \in BOOLEAN, Acknowledge(allowed) PROVE HandleLive' /\ FreshOK' /\ SeenTo'
  <2>1. New' \subseteq New
    BY <1>4 DEF Acknowledge, AcknowledgeAll, New
  <2> QED BY <1>4, <2>1 DEF Acknowledge, listenerVars
<1>5. ASSUME NEW gone \in SUBSET Items, NEW come \in SUBSET Unused, Change(gone, come)
      PROVE  HandleLive' /\ FreshOK' /\ SeenTo'
  <2>1. CASE come = {}
    BY <2>1, <1>1, <1>5 DEF Change, Excuse
  <2>2. CASE come # {}
    BY <2>2, <1>1, <1>2, <1>5 DEF Change
  <2> QED BY <2>1, <2>2
<1>6. CASE LoadItems
  BY <1>1, <1>2, <1>6 DEF LoadItems
<1>7. CASE Starts
  BY <1>7 DEF Starts, OnStartGC, listenerVars, New
<1>8. CASE Stops
  BY <1>8 DEF Stops, New
<1>9. ASSUME NEW l \in Listeners, ListenerMoves(l) PROVE HandleLive' /\ FreshOK' /\ SeenTo'
  <2>1. CASE Subscribe(l) \/ End(l)
    BY <2>1 DEF Subscribe, End, Moves, New
  <2>2. CASE Wake(l)
    BY <2>2 DEF Wake, Turned, New
  <2>3. CASE Drain(l)
    BY <2>3 DEF Drain, Turned, New
  <2>4. CASE Ack(l)
    <3>1. New' \subseteq excused'
      BY <2>4 DEF Ack, AcknowledgeAll, New
    <3> QED BY <2>4, <3>1 DEF Ack, Moves
  <2> QED BY <1>9, <2>1, <2>2, <2>3, <2>4 DEF ListenerMoves
<1> QED BY <1>3, <1>4, <1>5, <1>6, <1>7, <1>8, <1>9 DEF ItemStep

-----------------------------------------------------------------------------
(* The tasks                                                                 *)

TaskRecord == [pc : TaskPC, class : 1 .. Len(Classes) + 1, todo : Seq(Calls),
               had : SUBSET Weapons, clean : BOOLEAN, left : BOOLEAN]

\* What TaskOK says of one task.
RecordOK(m) ==
  /\ m \in TaskRecord
  /\ m.pc \in {"scan", "smelt", "wait"} => m.class <= Len(Classes)
  /\ m.pc = "calls" => m.todo # << >>

LEMMA TaskOKByRecord ==
  TaskOK <=> task = [t \in Tasks |-> task[t]] /\ \A t \in Tasks : RecordOK(task[t])
BY DEF TaskOK, RecordOK, TaskRecord

\* A step of one task is enough to look at.
LEMMA OneTask ==
  ASSUME TaskOK, NEW t \in Tasks, NEW m, RecordOK(m), task' = [task EXCEPT ![t] = m]
  PROVE  TaskOK'
BY DEF TaskOK, RecordOK, TaskRecord

LEMMA RestingOK ==
  ASSUME NEW pc \in TaskPC \ {"scan", "smelt", "wait", "calls"}
  PROVE  RecordOK(Resting(pc))
<1>1. Len(Classes) \in Nat
  BY BackpackAssumption
<1>2. << >> \in Seq(Calls)
  OBVIOUS
<1> QED BY <1>1, <1>2 DEF RecordOK, TaskRecord, Resting, Requested

LEMMA NextClassOK ==
  ASSUME TaskOK, NEW t \in Tasks, task[t].pc \in {"scan", "smelt"}, NEW clean \in BOOLEAN, NextClass(t, clean)
  PROVE  TaskOK'
<1> DEFINE m == Maintaining(IF task[t].class < Len(Classes) THEN "scan" ELSE "condense",
                task[t].class + 1, task[t].had, task[t].clean /\ clean, task[t].left)
<1>1. Len(Classes) \in Nat /\ << >> \in Seq(Calls)
  BY BackpackAssumption
<1>2. task[t] \in TaskRecord /\ task[t].class <= Len(Classes)
  BY DEF TaskOK, TaskRecord
<1>3. task[t].class \in 1 .. Len(Classes) /\ task[t].had \in SUBSET Weapons /\ task[t].left \in BOOLEAN
  BY <1>1, <1>2 DEF TaskRecord
<1>4. (task[t].clean /\ clean) \in BOOLEAN
  OBVIOUS
<1>5. RecordOK(m)
  BY <1>1, <1>3, <1>4 DEF RecordOK, TaskRecord, TaskPC, Maintaining
<1> QED BY <1>5, OneTask DEF NextClass

\* The places that Goes may move a task to.
LEMMA GoesOK ==
  ASSUME TaskOK, NEW t \in Tasks, task[t].pc \in {"scan", "smelt", "wait"},
         NEW pc \in {"scan", "smelt", "wait"}, Goes(t, pc)
  PROVE  TaskOK'
<1> DEFINE m == [task[t] EXCEPT !.pc = pc]
<1>1. RecordOK(task[t])
  BY TaskOKByRecord
<1>2. m \in TaskRecord /\ m.pc = pc /\ m.class = task[t].class
  BY <1>1 DEF RecordOK, TaskRecord, TaskPC
<1>3. RecordOK(m)
  BY <1>1, <1>2 DEF RecordOK
<1>4. task' = [task EXCEPT ![t] = m]
  BY DEF Goes
<1> QED BY <1>3, <1>4, OneTask

LEMMA EndsOK ==
  ASSUME TaskOK, NEW t \in Tasks, Ends(t)
  PROVE  TaskOK'
<1> DEFINE pc == IF t \in Operators THEN "none" ELSE "ended"
<1>1. pc \in TaskPC \ {"scan", "smelt", "wait", "calls"}
  BY DEF TaskPC
<1>2. RecordOK(Resting(pc))
  BY <1>1, RestingOK
<1> QED BY <1>2, OneTask DEF Ends

LEMMA MaintainTyped ==
  ASSUME TaskOK, NEW t \in Tasks, Maintain(t)
  PROVE  TaskOK'
<1>1. CASE Begin(t)
  <2>1. CASE Ends(t)
    BY <2>1, EndsOK
  <2>2. CASE ~Ends(t)
    <3> DEFINE pc == IF Classes = << >> THEN "condense" ELSE "scan"
               m == Maintaining(pc, 1, Weapons \cap Present, TRUE, task[t].left)
    <3>1. task' = [task EXCEPT ![t] = m]
      BY <1>1, <2>2 DEF Begin
    <3>2. Len(Classes) \in Nat /\ << >> \in Seq(Calls) /\ (Classes # << >> => 1 <= Len(Classes))
      BY BackpackAssumption, EmptySeq, LenProperties
    <3>3. task[t].left \in BOOLEAN
      BY DEF TaskOK
    <3>4. RecordOK(m)
      BY <3>2, <3>3 DEF RecordOK, TaskRecord, TaskPC, Maintaining
    <3> QED BY <3>1, <3>4, OneTask
  <2> QED BY <2>1, <2>2
<1>2. CASE Scan(t)
  BY <1>2, NextClassOK, GoesOK DEF Scan
<1>3. CASE Smelt(t)
  <2>1. AtMostOne(ClassWeapons(task[t].class)) \in BOOLEAN
    BY DEF AtMostOne
  <2> QED BY <1>3, <2>1, NextClassOK, GoesOK DEF Smelt
<1>4. CASE Wait(t)
  BY <1>4, GoesOK, EndsOK DEF Wait
<1>5. CASE CondenseAndSort(t)
  BY <1>5, EndsOK DEF CondenseAndSort
<1> QED BY <1>1, <1>2, <1>3, <1>4, <1>5 DEF Maintain

LEMMA AcceptOK ==
  ASSUME TaskOK, NEW t \in Tasks, NEW pc \in {"calls", "acknowledge-all", "begin"}, NEW calls \in Seq(Calls),
         pc = "calls" => calls # << >>, Accept(t, pc, calls)
  PROVE  TaskOK'
<1>1. Len(Classes) \in Nat
  BY BackpackAssumption
<1>2. RecordOK(Requested(pc, calls))
  BY <1>1 DEF RecordOK, TaskRecord, TaskPC, Requested
<1> QED BY <1>2, OneTask DEF Accept

LEMMA ServeTyped ==
  ASSUME TaskOK, NEW t \in Operators, ExecAction(t) \/ Serve(t) \/ Leave(t)
  PROVE  TaskOK'
<1>1. t \in Tasks
  BY DEF Tasks
<1>2. CASE ExecAction(t)
  <2>1. CASE \E c \in Single : Accept(t, "calls", <<c>>)
    <3>1. \A c \in Single : <<c>> \in Seq(Calls) /\ <<c>> # << >>
      BY CallsOK
    <3> QED BY <1>1, <2>1, <3>1, AcceptOK
  <2>2. CASE \E p \in Pairs : \/ Accept(t, "calls", BatchDelete(p))
                              \/ \E i \in Targets : Accept(t, "calls", BatchApplyTool(i, p))
    BY <1>1, <2>2, CallsOK, AcceptOK
  <2>3. CASE Accept(t, "acknowledge-all", << >>) \/ Accept(t, "begin", << >>)
    <3>1. << >> \in Seq(Calls)
      OBVIOUS
    <3> QED BY <1>1, <2>3, <3>1, AcceptOK
  <2> QED BY <1>2, <2>1, <2>2, <2>3 DEF ExecAction
<1>3. CASE Operate(t)
  <2>1. CASE Ends(t)
    BY <1>1, <2>1, EndsOK
  <2>2. CASE ~Ends(t)
    <3>1. task' = [task EXCEPT ![t].todo = Tail(@)] /\ Len(task[t].todo) # 1 /\ task[t].pc = "calls"
      BY <1>3, <2>2 DEF Operate
    <3>2. task[t].todo \in Seq(Calls) /\ task[t].todo # << >>
      BY <1>1, <3>1 DEF TaskOK
    <3>3. Tail(task[t].todo) \in Seq(Calls) /\ Tail(task[t].todo) # << >>
      <4>1. Len(task[t].todo) \in Nat /\ Len(task[t].todo) # 0
        BY <3>2, EmptySeq, LenProperties
      <4>2. Tail(task[t].todo) \in Seq(Calls) /\ Len(Tail(task[t].todo)) = Len(task[t].todo) - 1
        BY <3>2, HeadTailProperties
      <4>3. Len(Tail(task[t].todo)) # 0
        BY <3>1, <4>1, <4>2
      <4> QED BY <4>2, <4>3, EmptySeq
    <3> QED BY <1>1, <3>1, <3>3 DEF TaskOK
  <2> QED BY <2>1, <2>2
<1>4. CASE AcknowledgeAction(t)
  BY <1>1, <1>4, EndsOK DEF AcknowledgeAction
<1>5. CASE Leave(t)
  <2>1. task' = [task EXCEPT ![t].left = TRUE] /\ task[t].pc \in {"begin", "scan", "smelt", "wait"}
    BY <1>5 DEF Leave
  <2>2. /\ task' \in [Tasks -> TaskRecord]
        /\ task'[t].pc = task[t].pc
        /\ task'[t].class = task[t].class
    BY <1>1, <2>1 DEF TaskOK, TaskRecord
  <2>3. \A u \in Tasks : u # t => task'[u] = task[u]
    BY <2>1 DEF TaskOK
  <2>4. \A u \in Tasks : task'[u].pc \in {"scan", "smelt", "wait"} => task'[u].class <= Len(Classes)
    BY <2>2, <2>3 DEF TaskOK
  <2>5. \A u \in Tasks : task'[u].pc = "calls" => task'[u].todo # << >>
    BY <2>1, <2>2, <2>3 DEF TaskOK
  <2> QED BY <2>2, <2>4, <2>5 DEF TaskOK, TaskRecord
<1> QED BY <1>2, <1>3, <1>4, <1>5 DEF Serve

\* Who changes the tasks.
LEMMA TaskSteps ==
  ASSUME Next
  PROVE  \/ UNCHANGED task
         \/ \E t \in Tasks : Maintain(t)
         \/ \E t \in Operators : ExecAction(t) \/ Serve(t) \/ Leave(t)
         \/ \E t \in Loads : task[t].pc = "none" /\ task' = [task EXCEPT ![t].pc = "begin"]
BY DEF Next, StartGC, OnStopGC, ListenerStep, Dispatch, LoadAck, LoadStart, Arrive, Load

LEMMA TypeStep ==
  ASSUME TypeOK, [Next]_vars
  PROVE  TypeOK'
<1>1. CASE UNCHANGED vars
  BY <1>1 DEF vars, listenerVars, TypeOK, ListenerOK, TaskOK
<1>2. CASE Next
  <2>1. ItemsOK /\ TaskOK
    BY DEF TypeOK, ItemsOK
  <2>2. ItemsOK'
    BY <1>2, <2>1, NextItems, ItemsTyped
  <2>3. TaskOK'
    <3>1. CASE UNCHANGED task
      BY <3>1, <2>1 DEF TaskOK
    <3>2. CASE \E t \in Tasks : Maintain(t)
      BY <3>2, <2>1, MaintainTyped
    <3>3. CASE \E t \in Operators : ExecAction(t) \/ Serve(t) \/ Leave(t)
      BY <3>3, <2>1, ServeTyped
    <3>4. CASE \E t \in Loads : task[t].pc = "none" /\ task' = [task EXCEPT ![t].pc = "begin"]
      BY <3>4, <2>1 DEF TaskOK, TaskPC, Tasks
    <3> QED BY <1>2, <3>1, <3>2, <3>3, <3>4, TaskSteps
  <2>4. requests' \in 0 .. MaxRequests
    <3>1. CASE UNCHANGED requests
      BY <3>1 DEF TypeOK
    <3>2. ASSUME NEW t \in Operators, ExecAction(t) PROVE requests' \in 0 .. MaxRequests
      <4>1. requests < MaxRequests /\ requests' = requests + 1
        BY <3>2 DEF ExecAction, Accept
      <4> QED BY <4>1, BackpackAssumption DEF TypeOK
    <3> QED BY <1>2, <3>1, <3>2 DEF Next, StartGC, OnStopGC, ListenerStep, Dispatch, Maintain,
       Serve, Leave, Arrive, Load
  <2>5. dispatcher' \in [pc : {"idle", "start"}, queue : Nat]
    <3>1. CASE UNCHANGED dispatcher
      BY <3>1 DEF TypeOK
    <3>2. CASE LoadAck
      BY <3>2 DEF TypeOK, LoadAck
    <3>3. CASE LoadStart
      BY <3>3 DEF TypeOK, LoadStart
    <3>4. CASE Load
      BY <3>4 DEF TypeOK, Load
    <3> QED BY <1>2, <3>1, <3>2, <3>3, <3>4 DEF Dispatch, Next, StartGC, OnStopGC, ListenerStep, Maintain, ExecAction, Serve, Leave, Arrive
  <2> QED BY <2>2, <2>3, <2>4, <2>5 DEF TypeOK, ItemsOK
<1> QED BY <1>1, <1>2

LEMMA TypeInit ==
  ASSUME Init
  PROVE  TypeOK
<1>1. TaskOK
  <2>1. RecordOK(Resting("none"))
    BY RestingOK DEF TaskPC
  <2> QED BY <2>1 DEF Init, TaskOK, RecordOK, TaskRecord
<1> QED BY <1>1, BackpackAssumption DEF Init, TypeOK, ListenerOK

\* Every variable stays in its domain: channels keep within their capacity,
\* maintenance within the classes, handlers within their calls (the loops of
\* OnStartGC, RunMaintenance and actionBatchApplyTool).
THEOREM BackpackTypeCorrect == Spec => []TypeOK
BY TypeInit, TypeStep, PTL DEF Spec

-----------------------------------------------------------------------------
(* No item is missed                                                         *)

AckInv == HandleLive /\ FreshOK /\ SeenTo

LEMMA AckInvInit ==
  ASSUME Init
  PROVE  AckInv
BY DEF Init, AckInv, HandleLive, FreshOK, SeenTo, New

LEMMA AckInvStep ==
  ASSUME TypeOK, AckInv, [Next]_vars
  PROVE  AckInv'
<1>1. CASE UNCHANGED vars
  BY <1>1 DEF vars, listenerVars, AckInv, HandleLive, FreshOK, SeenTo, Awake, New
<1>2. CASE Next
  BY <1>2, NextItems, SeenToStep DEF AckInv, TypeOK, ItemsOK
<1> QED BY <1>1, <1>2

LEMMA AckInvMeans ==
  ASSUME TypeOK, AckInv
  PROVE  NoItemMissed
BY DEF TypeOK, ListenerOK, AckInv, HandleLive, SeenTo, Awake, NoItemMissed, Asleep

\* No new item is forgotten: whatever the listener drains and the bus drops, when
\* nothing will wake a listener all new items are excused (OnStartGC and OnStopGC).
THEOREM BackpackNoItemMissed == Spec => []NoItemMissed
<1>1. Init => AckInv
  BY AckInvInit
<1>2. TypeOK /\ AckInv /\ [Next]_vars => AckInv'
  BY AckInvStep
<1>3. TypeOK /\ AckInv => NoItemMissed
  BY AckInvMeans
<1> QED BY <1>1, <1>2, <1>3, BackpackTypeCorrect, PTL DEF Spec

-----------------------------------------------------------------------------
(* Duplicates are smelted                                                    *)

\* Gone items stay away, and the coordinator uses no ID twice.
NoReturn ==
  \A i \in Items :
    /\ status[i] = "gone" => status'[i] = "gone"
    /\ status[i] # "none" => status'[i] # "none"

LEMMA ItemsNeverReturn ==
  ASSUME ItemsOK, ItemStep
  PROVE  NoReturn
<1>1. ASSUME NEW gone, NEW come \in SUBSET Unused, Become(gone, come) PROVE NoReturn
  BY <1>1 DEF Become, NoReturn, Unused
<1>2. ASSUME status' = AcknowledgeAll \/ UNCHANGED status PROVE NoReturn
  BY <1>2 DEF AcknowledgeAll, NoReturn
<1>3. CASE NothingChanges \/ Starts \/ Stops
  BY <1>2, <1>3 DEF NothingChanges, Starts, Stops
<1>4. CASE \E allowed \in BOOLEAN : Acknowledge(allowed)
  BY <1>2, <1>4 DEF Acknowledge
<1>5. CASE \E gone \in SUBSET Items, come \in SUBSET Unused : Change(gone, come)
  BY <1>1, <1>5 DEF Change
<1>6. CASE LoadItems
  BY <1>1, <1>6 DEF LoadItems
<1>7. CASE \E l \in Listeners : ListenerMoves(l)
  BY <1>2, <1>7 DEF ListenerMoves, Subscribe, Wake, Drain, Ack, End
<1> QED BY <1>3, <1>4, <1>5, <1>6, <1>7 DEF ItemStep

\* The classes before the one a task m is at hold at most one weapon of those it found.
SmeltedUpTo(m) ==
  /\ \A w \in m.had : status[w] # "none"
  /\ m.pc = "condense" => m.class = Len(Classes) + 1
  /\ m.pc \in {"scan", "smelt", "wait", "condense"} /\ m.clean =>
       \A n \in DOMAIN Classes : n < m.class => AtMostOne(ClassWeapons(n) \cap m.had)

SmeltInv == \A t \in Tasks : SmeltedUpTo(task[t])

\* It goes on holding for a task that does not move.
LEMMA SmeltedKept ==
  ASSUME TypeOK, NoReturn, NEW m, RecordOK(m), SmeltedUpTo(m)
  PROVE  SmeltedUpTo(m)'
<1>1. m.had \subseteq Weapons
  BY DEF RecordOK, TaskRecord
<1>2. \A w \in m.had : w \in Items /\ status[w] # "none"
  BY <1>1, BackpackAssumption DEF SmeltedUpTo
<1>3. \A n \in DOMAIN Classes : (ClassWeapons(n) \cap m.had)' \subseteq ClassWeapons(n) \cap m.had
  <2>1. \A w \in m.had : w \in Present' => w \in Present
    <3> SUFFICES ASSUME NEW w \in m.had, w \in Present' PROVE w \in Present
      OBVIOUS
    <3>1. w \in Items /\ status[w] # "none" /\ status'[w] \in {"new", "seen"}
      BY <1>2 DEF Present
    <3>2. status[w] # "gone"
      BY <3>1 DEF NoReturn
    <3>3. status[w] \in {"none", "new", "seen", "gone"}
      BY <3>1 DEF TypeOK
    <3> QED BY <3>1, <3>2, <3>3 DEF Present
  <2> QED BY <2>1 DEF ClassWeapons
<1>4. \A w \in m.had : status'[w] # "none"
  BY <1>2 DEF NoReturn
<1>5. \A n \in DOMAIN Classes :
        AtMostOne(ClassWeapons(n) \cap m.had) => AtMostOne((ClassWeapons(n) \cap m.had)')
  BY <1>3 DEF AtMostOne
<1> QED BY <1>4, <1>5 DEF SmeltedUpTo

\* A task at one of the classes goes on with it.
LEMMA SmeltedGoes ==
  ASSUME TypeOK, NoReturn, SmeltInv, NEW t \in Tasks, task[t].pc \in {"scan", "smelt", "wait"},
         NEW pc \in {"scan", "smelt", "wait"}, Goes(t, pc)
  PROVE  SmeltedUpTo(task[t])'
<1>1. RecordOK(task[t]) /\ SmeltedUpTo(task[t])
  BY TaskOKByRecord DEF TypeOK, SmeltInv
<1>2. PICK m : m = task[t]
  OBVIOUS
<1>3. SmeltedUpTo(m)'
  BY <1>1, <1>2, SmeltedKept
<1>4. PICK next : next = task'[t]
  OBVIOUS
<1>5. /\ next.pc = pc /\ m.pc \in {"scan", "smelt", "wait"}
      /\ next.had = m.had /\ next.class = m.class /\ next.clean = m.clean
  BY <1>2, <1>4 DEF TypeOK, TaskOK, Goes
<1>6. SmeltedUpTo(next)'
  BY <1>3, <1>5 DEF SmeltedUpTo
<1> QED BY <1>4, <1>6

\* It goes to the next class, clean if no duplicates are left of this one.
LEMMA SmeltedNext ==
  ASSUME TypeOK, NoReturn, SmeltInv, NEW t \in Tasks, task[t].pc \in {"scan", "smelt"},
         NEW clean \in BOOLEAN, clean => AtMostOne(ClassWeapons(task[t].class)), NextClass(t, clean),
         UNCHANGED status
  PROVE  SmeltedUpTo(task[t])'
<1>1. RecordOK(task[t]) /\ SmeltedUpTo(task[t])
  BY TaskOKByRecord DEF TypeOK, SmeltInv
<1>2. PICK m : m = task[t]
  OBVIOUS
<1>3. SmeltedUpTo(m)'
  BY <1>1, <1>2, SmeltedKept
<1>4. PICK next : next = task'[t]
  OBVIOUS
<1>5. next = Maintaining(IF m.class < Len(Classes) THEN "scan" ELSE "condense",
                         m.class + 1, m.had, m.clean /\ clean, m.left)
  BY <1>2, <1>4 DEF TypeOK, TaskOK, NextClass
<1>6. /\ next.had = m.had /\ next.class = m.class + 1
      /\ next.pc = IF m.class < Len(Classes) THEN "scan" ELSE "condense"
  BY <1>5 DEF Maintaining
<1>7. next.clean = (m.clean /\ clean)
  BY <1>5 DEF Maintaining
<1>8. m.class \in Nat /\ m.class <= Len(Classes) /\ Len(Classes) \in Nat /\ DOMAIN Classes = 1 .. Len(Classes)
  BY <1>1, <1>2, BackpackAssumption DEF RecordOK, TaskRecord
<1>9. \A w \in next.had : status'[w] # "none"
  BY <1>3, <1>6 DEF SmeltedUpTo
<1>10. next.pc = "condense" => next.class = Len(Classes) + 1
  BY <1>6, <1>8
<1>11. ASSUME next.clean, NEW n \in DOMAIN Classes, n < next.class
       PROVE  AtMostOne(ClassWeapons(n) \cap next.had)'
  <2>1. m.clean /\ clean
    BY <1>7, <1>11
  <2>2. CASE n < m.class
    <3>1. m.pc \in {"scan", "smelt", "wait", "condense"}
      BY <1>2
    <3> QED BY <1>3, <1>6, <2>1, <2>2, <3>1 DEF SmeltedUpTo
  <2>3. CASE n = m.class
    <3>1. AtMostOne(ClassWeapons(n))
      BY <1>2, <2>1, <2>3
    <3>2. ClassWeapons(n)' = ClassWeapons(n)
      BY DEF ClassWeapons, Present
    <3> QED BY <3>1, <3>2 DEF AtMostOne
  <2> QED BY <1>6, <1>8, <1>11, <2>2, <2>3
<1>12. SmeltedUpTo(next)'
  BY <1>9, <1>10, <1>11 DEF SmeltedUpTo
<1> QED BY <1>4, <1>12

\* Nothing is claimed of a task that is not at maintenance.
LEMMA SmeltedResting ==
  ASSUME TypeOK, NEW t \in Tasks, task'[t].pc \notin {"scan", "smelt", "wait", "condense"}, task'[t].had = {}
  PROVE  SmeltedUpTo(task[t])'
BY DEF SmeltedUpTo

LEMMA SmeltedMaintain ==
  ASSUME TypeOK, NoReturn, SmeltInv, NEW t \in Tasks, Maintain(t)
  PROVE  SmeltedUpTo(task[t])'
<1>1. ASSUME Ends(t) PROVE SmeltedUpTo(task[t])'
  <2>1. task'[t] = Resting(IF t \in Operators THEN "none" ELSE "ended")
    BY <1>1 DEF Ends, TypeOK, TaskOK
  <2> QED BY <2>1, SmeltedResting DEF Resting, Requested
<1>2. CASE Begin(t) /\ ~Ends(t)
  <2>1. PICK next : next = task'[t]
    OBVIOUS
  <2>2. next = Maintaining(IF Classes = << >> THEN "condense" ELSE "scan", 1, Weapons \cap Present, TRUE, task[t].left)
    BY <1>2, <2>1 DEF Begin, TypeOK, TaskOK
  <2>3. /\ next.pc = IF Classes = << >> THEN "condense" ELSE "scan"
        /\ next.class = 1 /\ next.had = Weapons \cap Present
    BY <2>2 DEF Maintaining
  <2>4. \A w \in next.had : status'[w] # "none"
    BY <2>3, BackpackAssumption DEF Present, NoReturn
  <2>5. Classes = << >> => Len(Classes) = 0
    OBVIOUS
  <2>6. \A n \in DOMAIN Classes : ~(n < 1)
    BY BackpackAssumption
  <2>7. SmeltedUpTo(next)'
    BY <2>3, <2>4, <2>5, <2>6 DEF SmeltedUpTo
  <2> QED BY <2>1, <2>7
<1>3. CASE Scan(t)
  BY <1>3, SmeltedNext, SmeltedGoes DEF Scan, NothingChanges
<1>4. CASE Smelt(t)
  <2>1. CASE Goes(t, "wait")
    BY <1>4, <2>1, SmeltedGoes DEF Smelt
  <2>2. CASE NextClass(t, AtMostOne(ClassWeapons(task[t].class))) /\ NothingChanges
    <3>1. AtMostOne(ClassWeapons(task[t].class)) \in BOOLEAN
      BY DEF AtMostOne
    <3>2. task[t].pc = "smelt"
      BY <1>4 DEF Smelt
    <3> QED BY <2>2, <3>1, <3>2, SmeltedNext DEF NothingChanges
  <2> QED BY <1>4, <2>1, <2>2 DEF Smelt
<1>5. CASE Wait(t)
  BY <1>1, <1>5, SmeltedGoes DEF Wait
<1>6. CASE CondenseAndSort(t)
  BY <1>1, <1>6 DEF CondenseAndSort
<1> QED BY <1>1, <1>2, <1>3, <1>4, <1>5, <1>6 DEF Maintain

LEMMA SmeltedServe ==
  ASSUME TypeOK, NoReturn, SmeltInv, NEW t \in Operators, ExecAction(t) \/ Serve(t) \/ Leave(t)
  PROVE  SmeltedUpTo(task[t])'
<1>1. t \in Tasks
  BY DEF Tasks
<1>2. CASE Leave(t)
  <2>1. RecordOK(task[t]) /\ SmeltedUpTo(task[t])
    BY <1>1, TaskOKByRecord DEF TypeOK, SmeltInv
  <2>2. PICK m : m = task[t]
    OBVIOUS
  <2>3. SmeltedUpTo(m)'
    BY <2>1, <2>2, SmeltedKept
  <2>4. PICK next : next = task'[t]
    OBVIOUS
  <2>5. next.pc = m.pc /\ next.had = m.had /\ next.class = m.class /\ next.clean = m.clean
    BY <1>1, <1>2, <2>2, <2>4 DEF TypeOK, TaskOK, Leave
  <2>6. SmeltedUpTo(next)'
    BY <2>3, <2>5 DEF SmeltedUpTo
  <2> QED BY <2>4, <2>6
<1>3. ASSUME NEW pc \in {"calls", "acknowledge-all", "begin", "none", "ended"}, NEW calls,
             task' = [task EXCEPT ![t] = Requested(pc, calls)]
      PROVE  SmeltedUpTo(task[t])'
  <2>1. task'[t] = Requested(pc, calls)
    BY <1>1, <1>3 DEF TypeOK, TaskOK
  <2> QED BY <1>1, <2>1, SmeltedResting DEF Requested
<1>4. CASE ExecAction(t)
  BY <1>3, <1>4 DEF ExecAction, Accept
<1>5. CASE Ends(t)
  BY <1>3, <1>5 DEF Ends, Resting
<1>6. CASE Operate(t) /\ ~Ends(t)
  <2>1. RecordOK(task[t]) /\ SmeltedUpTo(task[t])
    BY <1>1, TaskOKByRecord DEF TypeOK, SmeltInv
  <2>2. PICK m : m = task[t]
    OBVIOUS
  <2>3. SmeltedUpTo(m)'
    BY <2>1, <2>2, SmeltedKept
  <2>4. PICK next : next = task'[t]
    OBVIOUS
  <2>5. next.pc = "calls" /\ next.had = m.had
    BY <1>1, <1>6, <2>2, <2>4 DEF TypeOK, TaskOK, Operate
  <2>6. SmeltedUpTo(next)'
    BY <2>3, <2>5 DEF SmeltedUpTo
  <2> QED BY <2>4, <2>6
<1> QED BY <1>2, <1>4, <1>5, <1>6 DEF Serve, AcknowledgeAction

LEMMA SmeltInvInit ==
  ASSUME Init
  PROVE  SmeltInv
BY DEF Init, SmeltInv, SmeltedUpTo, Resting, Requested

LEMMA SmeltInvStep ==
  ASSUME TypeOK, SmeltInv, [Next]_vars
  PROVE  SmeltInv'
<1>1. CASE UNCHANGED vars
  BY <1>1 DEF vars, SmeltInv, SmeltedUpTo, ClassWeapons, Present
<1>2. CASE Next
  <2>1. NoReturn
    BY <1>2, NextItems, ItemsNeverReturn DEF TypeOK, ItemsOK
  <2>2. ASSUME NEW u \in Tasks, task'[u] = task[u] PROVE SmeltedUpTo(task[u])'
    <3>1. RecordOK(task[u]) /\ SmeltedUpTo(task[u])
      BY TaskOKByRecord DEF TypeOK, SmeltInv
    <3>2. PICK m : m = task[u]
      OBVIOUS
    <3>3. SmeltedUpTo(m)'
      BY <2>1, <3>1, <3>2, SmeltedKept
    <3> QED BY <2>2, <3>2, <3>3
  <2>3. CASE UNCHANGED task
    BY <2>2, <2>3 DEF SmeltInv
  <2>4. ASSUME NEW t \in Tasks, Maintain(t) PROVE SmeltInv'
    <3>1. \A u \in Tasks \ {t} : task'[u] = task[u]
      BY <2>4 DEF Maintain, Begin, Scan, Smelt, Wait, CondenseAndSort, Ends, Goes, NextClass, TypeOK, TaskOK
    <3> QED BY <2>1, <2>2, <2>4, <3>1, SmeltedMaintain DEF SmeltInv
  <2>5. ASSUME NEW t \in Operators, ExecAction(t) \/ Serve(t) \/ Leave(t) PROVE SmeltInv'
    <3>1. \A u \in Tasks \ {t} : task'[u] = task[u]
      BY <2>5 DEF ExecAction, Accept, Serve, Operate, AcknowledgeAction, Ends, Leave, TypeOK, TaskOK
    <3> QED BY <2>1, <2>2, <2>5, <3>1, SmeltedServe DEF SmeltInv
  <2>6. ASSUME NEW t \in Loads, task[t].pc = "none", task' = [task EXCEPT ![t].pc = "begin"] PROVE SmeltInv'
    <3>1. t \in Tasks
      BY DEF Tasks
    <3>2. \A u \in Tasks \ {t} : task'[u] = task[u]
      BY <2>6 DEF TypeOK, TaskOK
    <3>3. SmeltedUpTo(task[t])'
      <4>1. RecordOK(task[t]) /\ SmeltedUpTo(task[t])
        BY <3>1, TaskOKByRecord DEF TypeOK, SmeltInv
      <4>2. PICK m : m = task[t]
        OBVIOUS
      <4>3. SmeltedUpTo(m)'
        BY <2>1, <4>1, <4>2, SmeltedKept
      <4>4. PICK next : next = task'[t]
        OBVIOUS
      <4>5. next.pc = "begin" /\ next.had = m.had
        BY <2>6, <3>1, <4>2, <4>4 DEF TypeOK, TaskOK
      <4>6. SmeltedUpTo(next)'
        BY <4>3, <4>5 DEF SmeltedUpTo
      <4> QED BY <4>4, <4>6
    <3> QED BY <2>2, <3>2, <3>3 DEF SmeltInv
  <2> QED BY <1>2, <2>3, <2>4, <2>5, <2>6, TaskSteps
<1> QED BY <1>1, <1>2

LEMMA SmeltInvMeans ==
  ASSUME TypeOK, SmeltInv
  PROVE  DuplicatesSmelted
<1> SUFFICES ASSUME NEW t \in Tasks, task[t].pc = "condense" /\ task[t].clean, NEW n \in DOMAIN Classes
             PROVE  AtMostOne(ClassWeapons(n) \cap task[t].had)
  BY DEF DuplicatesSmelted
<1>1. SmeltedUpTo(task[t]) /\ n < Len(Classes) + 1
  BY BackpackAssumption DEF SmeltInv
<1> QED BY <1>1 DEF SmeltedUpTo

\* Maintenance leaves at most one weapon of each class, of those it found, unless a
\* call of it failed for a reason of its own or a pair was untradable, for all
\* classes, items and tasks at work on them (RunMaintenance).
THEOREM BackpackDuplicatesSmelted == Spec => []DuplicatesSmelted
<1>1. Init => SmeltInv
  BY SmeltInvInit
<1>2. TypeOK /\ SmeltInv /\ [Next]_vars => SmeltInv'
  BY SmeltInvStep
<1>3. TypeOK /\ SmeltInv => DuplicatesSmelted
  BY SmeltInvMeans
<1> QED BY <1>1, <1>2, <1>3, BackpackTypeCorrect, PTL DEF Spec


-----------------------------------------------------------------------------
(* One listener                                                              *)

\* The listeners that run and that nobody has cancelled.
Uncancelled ==
  {l \in Listeners : listener[l].pc \in {"started", "waiting", "delay", "ack"} /\ ~listener[l].cancelled}

\* No listener is out of reach: the only one that is not cancelled is the one whose
\* handle the driver keeps, whoever starts and stops the game.
OneListener == Uncancelled = IF cancelAutoAck = NoListener THEN {} ELSE {cancelAutoAck}

Handle == INSTANCE ListenerHandle
            WITH armed <- cancelAutoAck # NoListener, live <- Cardinality(Uncancelled)

\* A listener is started, the one that runs is cancelled, or there is no change of that kind.
LEMMA HandleMoves ==
  ASSUME ItemsOK, FreshOK, OneListener, ItemStep
  PROVE  /\ OneListener'
         /\ \/ cancelAutoAck = NoListener /\ cancelAutoAck' # NoListener
            \/ cancelAutoAck # NoListener /\ cancelAutoAck' = NoListener
            \/ UNCHANGED <<cancelAutoAck, Uncancelled>>
<1> USE DEF ItemsOK, ListenerOK
<1>1. ASSUME UNCHANGED cancelAutoAck, Uncancelled' = Uncancelled
      PROVE  OneListener' /\ UNCHANGED <<cancelAutoAck, Uncancelled>>
  BY <1>1 DEF OneListener
<1>2. listener' = Published => Uncancelled' = Uncancelled
  <2> SUFFICES ASSUME listener' = Published PROVE Uncancelled' = Uncancelled
    OBVIOUS
  <2>1. \A l \in Listeners : listener'[l].pc = listener[l].pc /\ listener'[l].cancelled = listener[l].cancelled
    BY DEF Published
  <2> QED BY <2>1 DEF Uncancelled
<1>3. listener' = listener => Uncancelled' = Uncancelled
  BY DEF Uncancelled
<1>4. CASE NothingChanges \/ (\E allowed \in BOOLEAN : Acknowledge(allowed)) \/ LoadItems
           \/ (\E gone \in SUBSET Items, come \in SUBSET Unused : Change(gone, come))
  BY <1>1, <1>2, <1>3, <1>4 DEF NothingChanges, Acknowledge, LoadItems, Change, listenerVars
<1>5. CASE Starts
  <2>1. CASE UNCHANGED listenerVars
    BY <1>1, <1>3, <2>1 DEF listenerVars
  <2>2. CASE ~UNCHANGED listenerVars
    <3>1. PICK l \in Listeners :
             /\ cancelAutoAck = NoListener /\ listener[l].pc = "none" /\ cancelAutoAck' = l
             /\ listener' = [listener EXCEPT ![l].pc = "started"]
      BY <1>5, <2>2 DEF Starts, OnStartGC
    <3>2. Uncancelled = {}
      BY <3>1 DEF OneListener
    <3>3. listener'[l].pc = "started" /\ ~listener'[l].cancelled
          /\ \A k \in Listeners : k # l => listener'[k] = listener[k]
      BY <3>1 DEF FreshOK
    <3>4. Uncancelled' = {l}
      BY <3>2, <3>3 DEF Uncancelled
    <3> QED BY <3>1, <3>4, BackpackAssumption DEF OneListener
  <2> QED BY <2>1, <2>2
<1>6. CASE Stops
  <2>1. Uncancelled = {cancelAutoAck} /\ cancelAutoAck \in Listeners
    BY <1>6 DEF Stops, OneListener
  <2>2. listener'[cancelAutoAck].cancelled
        /\ \A k \in Listeners : k # cancelAutoAck => listener'[k] = listener[k]
    BY <1>6, <2>1 DEF Stops
  <2>3. Uncancelled' = {}
    BY <2>1, <2>2 DEF Uncancelled
  <2> QED BY <1>6, <2>3 DEF Stops, OneListener
<1>7. ASSUME NEW l \in Listeners, ListenerMoves(l)
      PROVE  UNCHANGED cancelAutoAck /\ Uncancelled' = Uncancelled
  <2>1. UNCHANGED cancelAutoAck /\ \A k \in Listeners : k # l => listener'[k] = listener[k]
    BY <1>7 DEF ListenerMoves, Subscribe, Wake, Drain, Ack, End, Moves, Turned
  <2>2. listener'[l].cancelled = listener[l].cancelled
    BY <1>7 DEF ListenerMoves, Subscribe, Wake, Drain, Ack, End, Moves, Turned
  <2>3. listener[l].pc \in {"started", "waiting", "delay", "ack"}
    BY <1>7 DEF ListenerMoves, Subscribe, Wake, Drain, Ack, End, Moves
  <2>4. listener'[l].pc \in {"started", "waiting", "delay", "ack"} \/ listener[l].cancelled
    BY <1>7 DEF ListenerMoves, Subscribe, Wake, Drain, Ack, End, Moves, Turned
  <2> QED BY <2>1, <2>2, <2>3, <2>4 DEF Uncancelled
<1> QED BY <1>1, <1>4, <1>5, <1>6, <1>7 DEF ItemStep

LEMMA HandleStep ==
  ASSUME TypeOK, AckInv, OneListener, [Next]_vars
  PROVE  OneListener' /\ [Handle!Next]_<<cancelAutoAck # NoListener, Cardinality(Uncancelled)>>
<1>1. CASE UNCHANGED vars
  BY <1>1 DEF vars, listenerVars, OneListener, Uncancelled
<1>2. CASE Next
  <2>1. /\ OneListener'
        /\ \/ cancelAutoAck = NoListener /\ cancelAutoAck' # NoListener
           \/ cancelAutoAck # NoListener /\ cancelAutoAck' = NoListener
           \/ UNCHANGED <<cancelAutoAck, Uncancelled>>
    BY <1>2, NextItems, HandleMoves DEF AckInv, TypeOK, ItemsOK
  <2>2. Cardinality({}) = 0 /\ \A x : Cardinality({x}) = 1
    BY FS_EmptySet, FS_Singleton
  <2>3. CASE cancelAutoAck = NoListener /\ cancelAutoAck' # NoListener
    <3>1. Cardinality(Uncancelled) = 0 /\ Cardinality(Uncancelled)' = 1
      BY <2>1, <2>2, <2>3 DEF OneListener
    <3> QED BY <2>1, <2>3, <3>1 DEF Handle!Next, Handle!OnStartGC
  <2>4. CASE cancelAutoAck # NoListener /\ cancelAutoAck' = NoListener
    <3>1. Cardinality(Uncancelled) = 1 /\ Cardinality(Uncancelled)' = 0
      BY <2>1, <2>2, <2>4 DEF OneListener
    <3> QED BY <2>1, <2>4, <3>1 DEF Handle!Next, Handle!OnStopGC
  <2> QED BY <2>1, <2>3, <2>4
<1> QED BY <1>1, <1>2

LEMMA HandleInit ==
  ASSUME Init
  PROVE  OneListener /\ Handle!Init
<1>1. Uncancelled = {} /\ cancelAutoAck = NoListener
  BY DEF Init, Uncancelled
<1> QED BY <1>1, FS_EmptySet DEF OneListener, Handle!Init

\* A game that is stopped and started again, by whomever, leaves no listener behind that
\* goes on acknowledging (OnStartGC and OnStopGC).
THEOREM BackpackOneListener == Spec => []OneListener
<1>1. Init => AckInv /\ OneListener
  BY AckInvInit, HandleInit
<1>2. TypeOK /\ AckInv /\ OneListener /\ [Next]_vars => AckInv' /\ OneListener'
  BY AckInvStep, HandleStep
<1> QED BY <1>1, <1>2, BackpackTypeCorrect, PTL DEF Spec

\* The listener's side of OnStartGC and OnStopGC is what ListenerHandle promises their
\* callers, which GameSession has.
THEOREM BackpackImplementsHandle == Spec => Handle!Spec
<1>1. Init => AckInv /\ OneListener /\ Handle!Init
  BY AckInvInit, HandleInit
<1>2. TypeOK /\ AckInv /\ OneListener /\ [Next]_vars
        => /\ AckInv' /\ OneListener'
           /\ [Handle!Next]_<<cancelAutoAck # NoListener, Cardinality(Uncancelled)>>
  BY AckInvStep, HandleStep
<1> QED BY <1>1, <1>2, BackpackTypeCorrect, PTL DEF Spec, Handle!Spec

-----------------------------------------------------------------------------
(* Maintenance gets on                                                       *)

Phase(m) ==
  IF m.pc = "begin" THEN 3
  ELSE IF m.pc \in {"scan", "smelt", "wait"} THEN 2
  ELSE IF m.pc = "condense" THEN 1 ELSE 0

\* The place in the body of the loop.
Place(m) == IF m.pc = "wait" THEN 3 ELSE IF m.pc = "scan" THEN 2 ELSE 1

\* The weapons that can still be smelted, those to come included.
Left == {w \in Weapons : status[w] # "gone"}

\* Less is left to do: another part of RunMaintenance, or in its loop fewer weapons, else
\* fewer classes, else a step less of the body.
Closer(t) ==
  \/ Phase(task[t])' < Phase(task[t])
  \/ /\ Phase(task[t]) = 2 /\ Phase(task[t])' = 2
     /\ \/ Left' \subseteq Left /\ Left' # Left
        \/ /\ Left' = Left
           /\ \/ task'[t].class > task[t].class
              \/ task'[t].class = task[t].class /\ Place(task[t])' < Place(task[t])

\* However many operators and other maintenance goroutines take the weapons away from
\* under it, maintenance never goes round in a circle, and nobody else can make it do
\* more: no weapon comes back, no class is looked at again (RunMaintenance).
MaintenanceDescends ==
  [][/\ Left' \subseteq Left
     /\ \A t \in Tasks :
          IF Maintain(t) THEN Closer(t)
          ELSE Phase(task[t]) = 0 \/ UNCHANGED <<task[t].pc, task[t].class>>]_vars

\* The loop goes to the next class, or ends.
LEMMA NextClassCloser ==
  ASSUME TypeOK, NEW t \in Tasks, task[t].pc \in {"scan", "smelt"}, NEW clean, NextClass(t, clean),
         UNCHANGED status
  PROVE  Closer(t)
<1>1. task'[t].pc \in {"scan", "condense"} /\ task'[t].class = task[t].class + 1
  BY DEF NextClass, Maintaining, TypeOK, TaskOK
<1>2. task[t].class \in Nat
  BY BackpackAssumption DEF TypeOK, TaskOK
<1>3. Phase(task[t]) = 2 /\ Phase(task[t])' \in {1, 2}
  BY <1>1 DEF Phase
<1>4. task'[t].class > task[t].class
  BY <1>1, <1>2
<1> QED BY <1>3, <1>4 DEF Closer, Left

\* So does a step within the body.
LEMMA GoesCloser ==
  ASSUME TypeOK, NEW t \in Tasks, NEW pc, Goes(t, pc), UNCHANGED status,
         \/ task[t].pc = "scan" /\ pc = "smelt"
         \/ task[t].pc = "wait" /\ pc = "scan"
  PROVE  Closer(t)
<1>1. task'[t].pc = pc /\ task'[t].class = task[t].class
  BY DEF Goes, TypeOK, TaskOK
<1> QED BY <1>1 DEF Closer, Phase, Place, Left

LEMMA EndsCloser ==
  ASSUME TypeOK, NEW t \in Tasks, Ends(t), task[t].pc \in {"begin", "scan", "smelt", "wait", "condense"}
  PROVE  Closer(t)
<1>1. task'[t].pc \in {"none", "ended"}
  BY DEF Ends, Resting, Requested, TypeOK, TaskOK
<1>2. Phase(task[t])' = 0 /\ Phase(task[t]) \in {1, 2, 3}
  BY <1>1 DEF Phase
<1> QED BY <1>2 DEF Closer

LEMMA MaintainCloser ==
  ASSUME TypeOK, Left' \subseteq Left, NEW t \in Tasks, Maintain(t)
  PROVE  Closer(t)
<1>1. NothingChanges => UNCHANGED status
  BY DEF NothingChanges
<1>2. CASE Begin(t)
  <2>1. CASE Ends(t)
    BY <1>2, <2>1, EndsCloser DEF Begin
  <2>2. CASE ~Ends(t)
    <3>1. task'[t].pc \in {"condense", "scan"} /\ task[t].pc = "begin"
      BY <1>2, <2>2 DEF Begin, Maintaining, TypeOK, TaskOK
    <3>2. Phase(task[t])' \in {1, 2} /\ Phase(task[t]) = 3
      BY <3>1 DEF Phase
    <3> QED BY <3>2 DEF Closer
  <2> QED BY <2>1, <2>2
<1>3. CASE Scan(t)
  BY <1>1, <1>3, NextClassCloser, GoesCloser DEF Scan
<1>4. CASE Smelt(t)
  <2>1. CASE \E clean : NextClass(t, clean) /\ NothingChanges
    BY <1>1, <1>4, <2>1, NextClassCloser DEF Smelt
  <2>2. CASE /\ \E w1, w2 \in ClassWeapons(task[t].class) : Exchange({w1, w2}, Items \ Weapons)
             /\ Goes(t, "wait")
    <3>1. PICK w \in ClassWeapons(task[t].class), w2 \in ClassWeapons(task[t].class) :
             Exchange({w, w2}, Items \ Weapons)
      BY <2>2
    <3>2. w \in Items /\ w \in Left
      BY <3>1, BackpackAssumption DEF ClassWeapons, Present, Left
    <3>3. status'[w] = "gone"
      BY <3>1, <3>2 DEF Exchange, Change, Become
    <3>4. Left' # Left
      BY <3>2, <3>3 DEF Left
    <3>5. task'[t].pc = "wait" /\ task[t].pc = "smelt"
      BY <1>4, <2>2 DEF Goes, Smelt, TypeOK, TaskOK
    <3> QED BY <3>4, <3>5 DEF Closer, Phase
  <2> QED BY <1>4, <2>1, <2>2 DEF Smelt
<1>5. CASE Wait(t)
  BY <1>1, <1>5, GoesCloser, EndsCloser DEF Wait
<1>6. CASE CondenseAndSort(t)
  BY <1>6, EndsCloser DEF CondenseAndSort
<1> QED BY <1>2, <1>3, <1>4, <1>5, <1>6 DEF Maintain

\* Nobody else moves a maintenance that is under way.
LEMMA OthersStay ==
  ASSUME TypeOK, Next, NEW t \in Tasks, ~Maintain(t)
  PROVE  Phase(task[t]) = 0 \/ UNCHANGED <<task[t].pc, task[t].class>>
<1>1. ASSUME NEW u, NEW m, u # t, task' = [task EXCEPT ![u] = m] PROVE task'[t] = task[t]
  BY <1>1 DEF TypeOK, TaskOK
<1>2. CASE UNCHANGED task
  BY <1>2
<1>3. ASSUME NEW u \in Tasks, Maintain(u) PROVE task'[t] = task[t]
  BY <1>1, <1>3 DEF Maintain, Begin, Scan, Smelt, Wait, CondenseAndSort, Ends, Goes, NextClass
<1>4. ASSUME NEW u \in Operators, ExecAction(u) \/ Serve(u) \/ Leave(u), u # t
      PROVE  task'[t] = task[t]
  BY <1>1, <1>4 DEF ExecAction, Serve, Leave, Accept, Operate, AcknowledgeAction, Ends
<1>5. CASE t \in Operators /\ (ExecAction(t) \/ Serve(t))
  BY <1>5 DEF ExecAction, Serve, Operate, AcknowledgeAction, Phase
<1>6. CASE t \in Operators /\ Leave(t)
  BY <1>6 DEF Leave, TypeOK, TaskOK
<1>7. ASSUME NEW u \in Loads, task[u].pc = "none" /\ task' = [task EXCEPT ![u].pc = "begin"]
      PROVE  Phase(task[t]) = 0 \/ task'[t] = task[t]
  BY <1>1, <1>7 DEF Phase
<1> QED BY <1>2, <1>3, <1>4, <1>5, <1>6, <1>7, TaskSteps

\* The core of MaintenanceEnds, for every number of weapons, classes and tasks: with
\* finitely many weapons it has only so many steps to go.
THEOREM BackpackMaintenanceDescends == Spec => MaintenanceDescends
<1>1. TypeOK /\ [Next]_vars
        => [/\ Left' \subseteq Left
            /\ \A t \in Tasks :
                 IF Maintain(t) THEN Closer(t)
                 ELSE Phase(task[t]) = 0 \/ UNCHANGED <<task[t].pc, task[t].class>>]_vars
  <2> SUFFICES ASSUME TypeOK, Next
               PROVE  /\ Left' \subseteq Left
                      /\ \A t \in Tasks :
                           IF Maintain(t) THEN Closer(t)
                           ELSE Phase(task[t]) = 0 \/ UNCHANGED <<task[t].pc, task[t].class>>
    OBVIOUS
  <2>1. NoReturn
    BY NextItems, ItemsNeverReturn DEF TypeOK, ItemsOK
  <2>2. Left' \subseteq Left
    BY <2>1, BackpackAssumption DEF NoReturn, Left
  <2> QED BY <2>2, MaintainCloser, OthersStay
<1> QED BY <1>1, BackpackTypeCorrect, PTL DEF Spec, MaintenanceDescends
===============================================================================
