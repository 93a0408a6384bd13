-------------------------- MODULE GameSession_proofs --------------------------
(***************************************************************************)
(* Proofs about GameSession, for every set of apps, drivers, operators and *)
(* resume goroutines and for every value of the two bounds; the last two   *)
(* sections tie it to the contracts GracefulServer and ListenerHandle.     *)
(***************************************************************************)
EXTENDS GameSession, TLAPS

-----------------------------------------------------------------------------
(* Type correctness                                                        *)

\* The events of one change of what Steam shows are a sequence of events.
LEMMA PresenceEventsType ==
  ASSUME NEW old \in AppOrNone, NEW new \in AppOrNone
  PROVE  PresenceEvents(old, new) \in Seq(Events)
<1>1. Launched(new) \in Events /\ Quit(old) \in Events
  BY DEF Events, EventKinds, Launched, Quit
<1>2. (IF old = NoApp THEN << >> ELSE <<Quit(old)>>) \in Seq(Events)
  BY <1>1
<1>3. (IF new = NoApp THEN << >> ELSE <<Launched(new)>>) \in Seq(Events)
  BY <1>1
<1>4. QED  BY <1>2, <1>3 DEF PresenceEvents

\* A change of what Steam shows keeps the two external variables well typed.
LEMMA SteamPlaysType ==
  ASSUME steamApp \in AppOrNone, queue \in Seq(Events), NEW a \in AppOrNone, SteamPlays(a)
  PROVE  steamApp' \in AppOrNone /\ queue' \in Seq(Events)
BY PresenceEventsType DEF SteamPlays

\* The driver calls keep the two driver variables well typed, because a stop is
\* counted only while a listener runs.
LEMMA DriverCallType ==
  ASSUME TypeOK, AckExclusive, NEW a, OnStartGC(a) \/ OnStopGC(a)
  PROVE  /\ cancelAutoAck' \in [Registered -> BOOLEAN]
         /\ listeners' \in [Registered -> Nat]
         /\ AckExclusive'
<1>1. /\ cancelAutoAck \in [Registered -> BOOLEAN]
      /\ listeners \in [Registered -> Nat]
      /\ \A b \in Registered : cancelAutoAck[b] => listeners[b] = 1
      /\ \A b \in Registered : ~cancelAutoAck[b] => listeners[b] = 0
  BY DEF TypeOK, AckExclusive
<1>2. CASE UNCHANGED driverVars
  BY <1>1, <1>2 DEF driverVars, AckExclusive
<1>3. ASSUME a \in Registered, ~cancelAutoAck[a],
             cancelAutoAck' = [cancelAutoAck EXCEPT ![a] = TRUE],
             listeners' = [listeners EXCEPT ![a] = @ + 1]
      PROVE  /\ cancelAutoAck' \in [Registered -> BOOLEAN]
             /\ listeners' \in [Registered -> Nat]
             /\ AckExclusive'
  <2>1. cancelAutoAck' \in [Registered -> BOOLEAN]
    BY <1>1, <1>3
  <2>2. listeners' \in [Registered -> Nat] /\ listeners'[a] = 1
    BY <1>1, <1>3
  <2>3. \A b \in Registered : listeners'[b] = IF cancelAutoAck'[b] THEN 1 ELSE 0
    BY <1>1, <1>3, <2>2
  <2>4. QED  BY <2>1, <2>2, <2>3 DEF AckExclusive
<1>4. ASSUME a \in Registered, cancelAutoAck[a],
             cancelAutoAck' = [cancelAutoAck EXCEPT ![a] = FALSE],
             listeners' = [listeners EXCEPT ![a] = @ - 1]
      PROVE  /\ cancelAutoAck' \in [Registered -> BOOLEAN]
             /\ listeners' \in [Registered -> Nat]
             /\ AckExclusive'
  <2>1. cancelAutoAck' \in [Registered -> BOOLEAN]
    BY <1>1, <1>4
  <2>2. listeners' \in [Registered -> Nat] /\ listeners'[a] = 0
    BY <1>1, <1>4
  <2>3. \A b \in Registered : listeners'[b] = IF cancelAutoAck'[b] THEN 1 ELSE 0
    BY <1>1, <1>4, <2>2
  <2>4. QED  BY <2>1, <2>2, <2>3 DEF AckExclusive
<1>5. QED  BY <1>2, <1>3, <1>4 DEF OnStartGC, OnStopGC

\* A goroutine that moves to a label of its own function stays well typed.
LEMMA EnterType ==
  ASSUME TaskOK, NEW t \in Tasks, NEW pc, NEW a \in AppOrNone, NEW o \in AppOrNone,
         Enter(t, pc, a, o),
         t \in Operators => pc \in OperatorPC,
         t \in Resumers => pc \in ResumerPC,
         t = Main => pc \in MainPC
  PROVE  TaskOK'
<1>1. pc \in TaskPC
  BY DEF Tasks, TaskPC
<1>2. task' \in [Tasks -> [pc : TaskPC, app : AppOrNone, old : AppOrNone]]
  BY <1>1 DEF TaskOK, Enter
<1>3. task'[t].pc = pc /\ \A u \in Tasks \ {t} : task'[u] = task[u]
  BY DEF TaskOK, Enter
<1>4. QED  BY <1>2, <1>3 DEF TaskOK, Tasks

\* The same for a goroutine that keeps its target app and the app it replaced.
LEMMA GotoType ==
  ASSUME TaskOK, NEW t \in Tasks, NEW pc, Goto(t, pc),
         t \in Operators => pc \in OperatorPC,
         t \in Resumers => pc \in ResumerPC,
         t = Main => pc \in MainPC
  PROVE  TaskOK'
<1>1. task[t] \in [pc : TaskPC, app : AppOrNone, old : AppOrNone]
  BY DEF TaskOK
<1>2. QED  BY <1>1, EnterType DEF Goto

\* The two invariants are inductive together.
LEMMA TypeStep ==
  ASSUME TypeOK, AckExclusive, [Next]_vars
  PROVE  TypeOK' /\ AckExclusive'
<1> USE SessionAssumption
<1> USE DEF TypeOK, Return, AppOrNone
<1>a. Operators \subseteq Tasks /\ Resumers \subseteq Tasks /\ Main \in Tasks
  BY DEF Tasks
<1>b. \A t \in Tasks : task[t].app \in AppOrNone /\ task[t].old \in AppOrNone
  BY DEF TaskOK
<1>c. \A t \in Operators : t \notin Resumers /\ t # Main
  OBVIOUS
<1>d. \A t \in Resumers : t \notin Operators /\ t # Main
  OBVIOUS
<1>e. Main \notin Operators /\ Main \notin Resumers
  OBVIOUS
<1>f. UNCHANGED driverVars => AckExclusive'
  BY DEF AckExclusive, driverVars
<1>g. queue # << >> => Head(queue) \in Events /\ Tail(queue) \in Seq(Events)
  OBVIOUS
<1>h. \A e \in Events : e.app \in AppOrNone
  BY DEF Events
<1>1. ASSUME NEW t \in Operators, (\E a \in Apps : PlayGame(t, a)) PROVE TypeOK' /\ AckExclusive'
  <2>1. PICK a \in Apps : PlayGame(t, a)
    BY <1>1
  <2>2. PICK pc \in OperatorPC : Enter(t, pc, a, currentAppID)
    BY <2>1 DEF PlayGame, OperatorPC
  <2>3. TaskOK'
    BY <2>2, <1>a, <1>c, EnterType
  <2>4. rpcs' \in 0 .. MaxRPCs /\ world' = world /\ alone' \in BOOLEAN
    BY <2>1 DEF PlayGame, AcceptRPC
  <2>5. QED  BY <2>1, <2>3, <2>4, <1>f DEF PlayGame, driverVars, steamVars
<1>2. ASSUME NEW t \in Operators, PlayStopOld(t) PROVE TypeOK' /\ AckExclusive'
  BY <1>2, <1>a, <1>b, <1>c, <1>f, EnterType, GotoType, DriverCallType
  DEF PlayStopOld, At, daemonVars, steamVars, budgetVars, OperatorPC
<1>3. ASSUME NEW t \in Operators, PlayCall(t) PROVE TypeOK' /\ AckExclusive'
  BY <1>3, <1>a, <1>b, <1>c, <1>f, EnterType, GotoType, SteamPlaysType
  DEF PlayCall, SteamFails, driverVars, At, daemonVars, steamVars, budgetVars, OperatorPC
<1>4. ASSUME NEW t \in Operators, PlayRollback(t) PROVE TypeOK' /\ AckExclusive'
  BY <1>4, <1>a, <1>b, <1>c, <1>f, EnterType, GotoType
  DEF PlayRollback, driverVars, At, daemonVars, steamVars, budgetVars, OperatorPC
<1>5. ASSUME NEW t \in Operators, PlayStart(t) PROVE TypeOK' /\ AckExclusive'
  BY <1>5, <1>a, <1>b, <1>c, <1>f, EnterType, GotoType, DriverCallType
  DEF PlayStart, At, daemonVars, steamVars, budgetVars, OperatorPC
<1>6. ASSUME NEW t \in Operators, ExitGame(t) PROVE TypeOK' /\ AckExclusive'
  <2>1. PICK pc \in OperatorPC : Enter(t, pc, NoApp, currentAppID)
    BY <1>6 DEF ExitGame, OperatorPC
  <2>2. TaskOK'
    BY <2>1, <1>a, <1>c, EnterType
  <2>3. rpcs' \in 0 .. MaxRPCs /\ world' = world /\ alone' \in BOOLEAN
    BY <1>6 DEF ExitGame, AcceptRPC
  <2>4. QED  BY <1>6, <2>2, <2>3, <1>f DEF ExitGame, driverVars, steamVars
<1>7. ASSUME NEW t \in Operators, ExitStop(t) PROVE TypeOK' /\ AckExclusive'
  BY <1>7, <1>a, <1>b, <1>c, <1>f, EnterType, GotoType, DriverCallType
  DEF ExitStop, At, daemonVars, steamVars, budgetVars, OperatorPC
<1>8. ASSUME NEW t \in Operators, ExitCall(t) PROVE TypeOK' /\ AckExclusive'
  BY <1>8, <1>a, <1>b, <1>c, <1>f, EnterType, GotoType, SteamPlaysType
  DEF ExitCall, SteamFails, driverVars, At, daemonVars, steamVars, budgetVars, OperatorPC
<1>9. ASSUME NEW t \in Resumers, ResumeSet(t) PROVE TypeOK' /\ AckExclusive'
  BY <1>9, <1>a, <1>b, <1>d, <1>f, EnterType, GotoType
  DEF ResumeSet, driverVars, At, daemonVars, steamVars, budgetVars, ResumerPC
<1>10. ASSUME NEW t \in Resumers, ResumeCall(t) PROVE TypeOK' /\ AckExclusive'
  BY <1>10, <1>a, <1>b, <1>d, <1>f, EnterType, GotoType, SteamPlaysType
  DEF ResumeCall, SteamFails, driverVars, At, daemonVars, steamVars, budgetVars, ResumerPC
<1>11. ASSUME NEW t \in Resumers, ResumeReset(t) PROVE TypeOK' /\ AckExclusive'
  BY <1>11, <1>a, <1>b, <1>d, <1>f, EnterType, GotoType
  DEF ResumeReset, driverVars, At, daemonVars, steamVars, budgetVars, ResumerPC
<1>12. ASSUME NEW t \in Resumers, ResumeStart(t) PROVE TypeOK' /\ AckExclusive'
  BY <1>12, <1>a, <1>b, <1>d, <1>f, EnterType, GotoType, DriverCallType
  DEF ResumeStart, At, daemonVars, steamVars, budgetVars, ResumerPC
<1>13. CASE OnAppLaunched
  BY <1>13, <1>f, <1>g, <1>h DEF OnAppLaunched, Dispatching, driverVars, budgetVars, TaskOK
<1>14. CASE OnAppQuit
  BY <1>14, <1>f, <1>g, <1>h DEF OnAppQuit, Dispatching, driverVars, budgetVars, TaskOK
<1>15. CASE HandleLoggedOn
  BY <1>15, <1>a, <1>d, <1>f, <1>g, EnterType
  DEF HandleLoggedOn, Dispatching, daemonVars, driverVars, budgetVars, TaskOK, ResumerPC
<1>16. CASE HandleBackpackLoaded
  BY <1>16, <1>f, <1>g DEF HandleBackpackLoaded, Dispatching, daemonVars, driverVars, budgetVars, TaskOK
<1>17. CASE DispatcherDriverCall
  BY <1>17, DriverCallType DEF DispatcherDriverCall, daemonVars, steamVars, budgetVars, TaskOK
<1>18. CASE DispatcherReturn
  BY <1>18, <1>f DEF DispatcherReturn, daemonVars, driverVars, steamVars, budgetVars, TaskOK
<1>19. CASE Shutdown
  BY <1>19, <1>a, <1>e, <1>f, GotoType
  DEF Shutdown, daemonVars, driverVars, steamVars, budgetVars, MainPC
<1>20. CASE Close
  BY <1>20, <1>a, <1>e, <1>f, EnterType DEF Close, driverVars, steamVars, budgetVars, MainPC
<1>21. CASE CloseStop
  BY <1>21, <1>a, <1>b, <1>e, GotoType, DriverCallType
  DEF CloseStop, daemonVars, steamVars, budgetVars, MainPC
<1>22. CASE CloseCall
  BY <1>22, <1>a, <1>e, <1>f, GotoType, SteamPlaysType
  DEF CloseCall, SteamFails, daemonVars, driverVars, steamVars, budgetVars, MainPC
<1>23. CASE CloseUnsubscribe
  BY <1>23, <1>a, <1>e, <1>f, GotoType
  DEF CloseUnsubscribe, daemonVars, driverVars, steamVars, budgetVars, MainPC
<1>24. CASE CloseClient
  BY <1>24, <1>a, <1>e, <1>f, GotoType
  DEF CloseClient, daemonVars, driverVars, budgetVars, MainPC
<1>25. CASE Environment
  <2>1. /\ UNCHANGED <<daemonVars, task, dispatcher, driverVars, rpcs>>
        /\ world' \in 0 .. MaxWorld
        /\ alone' = FALSE
    BY <1>25 DEF Environment, Launch, QuitGame, Relogon, LoadBackpack, External
  <2>2. steamApp' \in AppOrNone /\ queue' \in Seq(Events)
    <3>1. CASE (\E a \in Apps : Launch(a)) \/ QuitGame
      BY <3>1, SteamPlaysType DEF Launch, QuitGame
    <3>2. CASE Relogon
      <4>1. LoggedOn \in Events
        BY DEF LoggedOn, Events, EventKinds
      <4>2. PresenceEvents(steamApp, NoApp) \in Seq(Events)
        BY PresenceEventsType
      <4>3. QED  BY <3>2, <4>1, <4>2 DEF Relogon
    <3>3. CASE LoadBackpack
      <4>1. BackpackLoaded \in Events
        BY DEF BackpackLoaded, Events, EventKinds
      <4>2. QED  BY <3>3, <4>1 DEF LoadBackpack
    <3>4. QED  BY <1>25, <3>1, <3>2, <3>3 DEF Environment
  <2>3. TaskOK'
    BY <2>1 DEF TaskOK
  <2>4. QED  BY <1>f, <2>1, <2>2, <2>3 DEF daemonVars, driverVars
<1>26. CASE UNCHANGED vars
  BY <1>26, <1>f DEF vars, daemonVars, driverVars, steamVars, budgetVars, TaskOK
<1>27. QED
  BY <1>1, <1>2, <1>3, <1>4, <1>5, <1>6, <1>7, <1>8, <1>9, <1>10, <1>11, <1>12, <1>13,
     <1>14, <1>15, <1>16, <1>17, <1>18, <1>19, <1>20, <1>21, <1>22, <1>23, <1>24, <1>25, <1>26
  DEF Next, Request, OperatorStep, ResumerStep, Dispatch, MainStep

\* Every variable stays in its domain, whatever the interleaving of handlers,
\* events, resumptions and shutdown, and whichever calls fail.
THEOREM SessionTypeCorrect == Spec => []TypeOK
<1>1. Init => TypeOK /\ AckExclusive
  BY SessionAssumption
  DEF Init, TypeOK, TaskOK, AckExclusive, AppOrNone, Tasks, TaskPC, OperatorPC, ResumerPC, MainPC
<1>2. (TypeOK /\ AckExclusive) /\ [Next]_vars => (TypeOK /\ AckExclusive)'
  BY TypeStep
<1>3. QED  BY <1>1, <1>2, PTL DEF Spec

\* A driver has at most one live listener and holds its cancel handle, however
\* many goroutines call OnStartGC and OnStopGC (pkg/tf2/driver/driver.go).
THEOREM SessionAckExclusive == Spec => []AckExclusive
<1>1. Init => TypeOK /\ AckExclusive
  BY SessionAssumption
  DEF Init, TypeOK, TaskOK, AckExclusive, AppOrNone, Tasks, TaskPC, OperatorPC, ResumerPC, MainPC
<1>2. (TypeOK /\ AckExclusive) /\ [Next]_vars => (TypeOK /\ AckExclusive)'
  BY TypeStep
<1>3. QED  BY <1>1, <1>2, PTL DEF Spec
-----------------------------------------------------------------------------
(* That the daemon agrees with what Steam shows once nothing is in         *)
(* progress, as long as no call to the apps module returns an error.       *)
(*                                                                         *)
(* The queue carries the argument: its launches and quits explain how      *)
(* Steam came to show what it shows (LaunchExplained, QuitExplained), so   *)
(* that draining it brings the daemon to the same app, unless a goroutine  *)
(* that has recorded another one is still to ask Steam for it (Converges). *)

-----------------------------------------------------------------------------
(* The inductive invariant of presence                                     *)

\* A goroutine has recorded its target app and has yet to call the apps module.
Pending(t) ==
  task[t].pc \in {"play.stop", "play.call", "exit.stop", "exit.call", "resume.call"}

HasLaunch == \E i \in 1 .. Len(queue) : queue[i].kind = "AppLaunched"
HasQuit(a) == \E i \in 1 .. Len(queue) : queue[i] = Quit(a)

\* What currentAppID becomes if the queue holds no launch and is drained.
Settled == IF HasQuit(currentAppID) THEN NoApp ELSE currentAppID

\* A launch in the queue is what Steam shows now, or its quit is behind it.
LaunchExplained ==
  \A i \in 1 .. Len(queue) : queue[i].kind = "AppLaunched" =>
    /\ queue[i].app # NoApp
    /\ \/ steamApp = queue[i].app
       \/ \E j \in i+1 .. Len(queue) : queue[j] = Quit(queue[i].app)

\* A quit in the queue left Steam with no game, or a launch is behind it.
QuitExplained ==
  \A i \in 1 .. Len(queue) : queue[i].kind = "AppQuit" =>
    \/ steamApp = NoApp
    \/ \E j \in i+1 .. Len(queue) : queue[j].kind = "AppLaunched"

\* With no launch left in the queue, the drained value is Steam's, unless a
\* goroutine that recorded it is still to make it so.
Converges ==
  ~HasLaunch =>
    \/ Settled = steamApp
    \/ \E t \in Tasks : Pending(t) /\ task[t].app = Settled

\* Without faults nobody undoes a record, unless the daemon is shutting down.
NoRollback == \A t \in Tasks : task[t].pc \notin {"play.rollback", "resume.reset"}

\* A goroutine that exits a game asks Steam for no game.
ExitsToNone ==
  \A t \in Tasks : task[t].pc \in {"exit.stop", "exit.call"} => task[t].app = NoApp

TasksSound == NoRollback /\ ExitsToNone

PresenceInv ==
  Serving => LaunchExplained /\ QuitExplained /\ Converges /\ TasksSound

-----------------------------------------------------------------------------
(* How the queue moves                                                     *)

\* p is q followed by what a move of Steam from old to new publishes: the quit of
\* old, then the launch of new, with events that say nothing of presence between.
Published(q, old, new, p) ==
  /\ p \in Seq(Events)
  /\ Len(p) >= Len(q)
  /\ \A i \in 1 .. Len(q) : p[i] = q[i]
  /\ \A i \in Len(q)+1 .. Len(p) : p[i].kind = "AppQuit" =>
       /\ old # new /\ old # NoApp /\ p[i] = Quit(old)
       /\ new # NoApp => \E j \in i+1 .. Len(p) : p[j] = Launched(new)
  /\ \A i \in Len(q)+1 .. Len(p) : p[i].kind = "AppLaunched" =>
       /\ old # new /\ new # NoApp /\ p[i] = Launched(new)
       /\ \A j \in i+1 .. Len(p) : p[j].kind # "AppQuit"
  /\ old # new /\ old # NoApp => \E i \in Len(q)+1 .. Len(p) : p[i] = Quit(old)
  /\ old # new /\ new # NoApp => \E i \in Len(q)+1 .. Len(p) : p[i] = Launched(new)

\* The events of a change of what Steam shows are such an extension.
LEMMA PresencePublished ==
  ASSUME NEW q \in Seq(Events), NEW old \in AppOrNone, NEW new \in AppOrNone
  PROVE  Published(q, old, new, q \o PresenceEvents(old, new))
<1> DEFINE p == q \o PresenceEvents(old, new)
<1>1. Launched(new) \in Events /\ Quit(old) \in Events
  BY DEF Events, EventKinds, Launched, Quit
<1>2. CASE old = new
  <2>1. p = q
    BY <1>2 DEF PresenceEvents
  <2>2. QED  BY <1>2, <2>1 DEF Published
<1>3. CASE old # new /\ old = NoApp
  <2>1. PresenceEvents(old, new) = << >> \o <<Launched(new)>>
    BY <1>3 DEF PresenceEvents
  <2>2. p = Append(q, Launched(new))
    BY <1>1, <2>1
  <2>3. /\ p \in Seq(Events)
        /\ Len(p) = Len(q) + 1
        /\ p[Len(q)+1] = Launched(new)
        /\ \A i \in 1 .. Len(q) : p[i] = q[i]
    BY <1>1, <2>2
  <2>4. QED  BY <1>3, <2>3 DEF Published, Launched, Quit
<1>4. CASE old # new /\ new = NoApp
  <2>1. PresenceEvents(old, new) = <<Quit(old)>> \o << >>
    BY <1>4 DEF PresenceEvents
  <2>2. p = Append(q, Quit(old))
    BY <1>1, <2>1
  <2>3. /\ p \in Seq(Events)
        /\ Len(p) = Len(q) + 1
        /\ p[Len(q)+1] = Quit(old)
        /\ \A i \in 1 .. Len(q) : p[i] = q[i]
    BY <1>1, <2>2
  <2>4. QED  BY <1>4, <2>3 DEF Published, Launched, Quit
<1>5. CASE old # new /\ old # NoApp /\ new # NoApp
  <2>1. PresenceEvents(old, new) = <<Quit(old)>> \o <<Launched(new)>>
    BY <1>5 DEF PresenceEvents
  <2>2. p = Append(Append(q, Quit(old)), Launched(new))
    BY <1>1, <2>1
  <2>3. Append(q, Quit(old)) \in Seq(Events) /\ Len(Append(q, Quit(old))) = Len(q) + 1
    BY <1>1
  <2>4. /\ p \in Seq(Events)
        /\ Len(p) = Len(q) + 2
        /\ p[Len(q)+1] = Quit(old)
        /\ p[Len(q)+2] = Launched(new)
        /\ \A i \in 1 .. Len(q) : p[i] = q[i]
    BY <1>1, <2>2, <2>3
  <2>5. QED  BY <1>5, <2>4 DEF Published, Launched, Quit
<1>6. QED  BY <1>2, <1>3, <1>4, <1>5

\* An event that says nothing of presence may follow.
LEMMA NoisePublished ==
  ASSUME NEW q \in Seq(Events), NEW old \in AppOrNone, NEW new \in AppOrNone, NEW p,
         Published(q, old, new, p),
         NEW e \in Events, e.kind \notin {"AppQuit", "AppLaunched"}
  PROVE  Published(q, old, new, Append(p, e))
<1>1. p \in Seq(Events)
  BY DEF Published
<1>2. /\ Append(p, e) \in Seq(Events)
      /\ Len(Append(p, e)) = Len(p) + 1
      /\ Append(p, e)[Len(p)+1] = e
      /\ \A i \in 1 .. Len(p) : Append(p, e)[i] = p[i]
  BY <1>1
<1> DEFINE r == Append(p, e)
<1> HIDE DEF r
<1>3. /\ r \in Seq(Events) /\ Len(r) = Len(p) + 1 /\ r[Len(p)+1] = e
      /\ \A i \in 1 .. Len(p) : r[i] = p[i]
      /\ Len(p) \in Nat /\ Len(q) \in Nat /\ Len(p) >= Len(q)
  BY <1>1, <1>2 DEF Published, r
<1>4. \A i \in 1 .. Len(q) : r[i] = q[i]
  BY <1>3 DEF Published
<1>5. \A i \in Len(q)+1 .. Len(r) : r[i].kind = "AppQuit" =>
         /\ old # new /\ old # NoApp /\ r[i] = Quit(old)
         /\ new # NoApp => \E j \in i+1 .. Len(r) : r[j] = Launched(new)
  <2> SUFFICES ASSUME NEW i \in Len(q)+1 .. Len(r), r[i].kind = "AppQuit"
               PROVE  /\ old # new /\ old # NoApp /\ r[i] = Quit(old)
                      /\ new # NoApp => \E j \in i+1 .. Len(r) : r[j] = Launched(new)
    OBVIOUS
  <2>1. i \in Len(q)+1 .. Len(p) /\ r[i] = p[i]
    BY <1>3
  <2>2. /\ old # new /\ old # NoApp /\ p[i] = Quit(old)
        /\ new # NoApp => \E j \in i+1 .. Len(p) : p[j] = Launched(new)
    BY <2>1 DEF Published
  <2>3. QED  BY <1>3, <2>1, <2>2
<1>6. \A i \in Len(q)+1 .. Len(r) : r[i].kind = "AppLaunched" =>
         /\ old # new /\ new # NoApp /\ r[i] = Launched(new)
         /\ \A j \in i+1 .. Len(r) : r[j].kind # "AppQuit"
  <2> SUFFICES ASSUME NEW i \in Len(q)+1 .. Len(r), r[i].kind = "AppLaunched"
               PROVE  /\ old # new /\ new # NoApp /\ r[i] = Launched(new)
                      /\ \A j \in i+1 .. Len(r) : r[j].kind # "AppQuit"
    OBVIOUS
  <2>1. i \in Len(q)+1 .. Len(p) /\ r[i] = p[i]
    BY <1>3
  <2>2. /\ old # new /\ new # NoApp /\ p[i] = Launched(new)
        /\ \A j \in i+1 .. Len(p) : p[j].kind # "AppQuit"
    BY <2>1 DEF Published
  <2>3. ASSUME NEW j \in i+1 .. Len(r) PROVE r[j].kind # "AppQuit"
    <3>1. CASE j = Len(p) + 1
      BY <1>3, <3>1
    <3>2. CASE j # Len(p) + 1
      <4>1. j \in i+1 .. Len(p) /\ j \in 1 .. Len(p)
        BY <1>3, <2>1, <3>2
      <4>2. QED  BY <1>3, <2>2, <4>1
    <3>3. QED  BY <3>1, <3>2
  <2>4. QED  BY <2>1, <2>2, <2>3
<1>7. /\ old # new /\ old # NoApp => \E i \in Len(q)+1 .. Len(r) : r[i] = Quit(old)
      /\ old # new /\ new # NoApp => \E i \in Len(q)+1 .. Len(r) : r[i] = Launched(new)
  BY <1>3 DEF Published
<1>8. Len(r) >= Len(q) /\ r \in Seq(Events)
  BY <1>3
<1>9. Published(q, old, new, r)
  BY <1>4, <1>5, <1>6, <1>7, <1>8, Zenon DEF Published
<1>10. QED  BY <1>9 DEF r

\* Every step that moves Steam or that only adds an event publishes accordingly.
LEMMA StepPublished ==
  ASSUME TypeOK, \/ \E a \in AppOrNone : SteamPlays(a)
                 \/ Relogon
                 \/ LoadBackpack
  PROVE  steamApp' \in AppOrNone /\ Published(queue, steamApp, steamApp', queue')
<1>1. queue \in Seq(Events) /\ steamApp \in AppOrNone /\ NoApp \in AppOrNone
  BY DEF TypeOK, AppOrNone
<1>2. CASE \E a \in AppOrNone : SteamPlays(a)
  BY <1>1, <1>2, PresencePublished DEF SteamPlays
<1>3. CASE Relogon
  <2>1. LoggedOn \in Events /\ LoggedOn.kind \notin {"AppQuit", "AppLaunched"}
    BY <1>1 DEF LoggedOn, Events, EventKinds
  <2>2. Published(queue, steamApp, NoApp, queue \o PresenceEvents(steamApp, NoApp))
    BY <1>1, PresencePublished
  <2>3. QED  BY <1>1, <1>3, <2>1, <2>2, NoisePublished DEF Relogon
<1>4. CASE LoadBackpack
  <2>1. BackpackLoaded \in Events /\ BackpackLoaded.kind \notin {"AppQuit", "AppLaunched"}
    BY SessionAssumption DEF BackpackLoaded, Events, EventKinds, AppOrNone
  <2>2. Published(queue, steamApp, steamApp, queue)
    BY <1>1 DEF Published
  <2>3. QED  BY <1>1, <1>4, <2>1, <2>2, NoisePublished DEF LoadBackpack
<1>5. QED  BY <1>2, <1>3, <1>4

-----------------------------------------------------------------------------
(* The queue explains what Steam shows                                     *)

\* Both explanations survive a move of Steam.
LEMMA ExplainedMoves ==
  ASSUME TypeOK, LaunchExplained, QuitExplained,
         steamApp' \in AppOrNone, Published(queue, steamApp, steamApp', queue')
  PROVE  LaunchExplained' /\ QuitExplained'
<1>1. queue \in Seq(Events) /\ steamApp \in AppOrNone
  BY DEF TypeOK
<1>2. ASSUME NEW i \in 1 .. Len(queue'), queue'[i].kind = "AppLaunched"
      PROVE  /\ queue'[i].app # NoApp
             /\ \/ steamApp' = queue'[i].app
                \/ \E j \in i+1 .. Len(queue') : queue'[j] = Quit(queue'[i].app)
  <2>1. CASE i \in 1 .. Len(queue)
    <3>1. /\ queue[i].app # NoApp
          /\ \/ steamApp = queue[i].app
             \/ \E j \in i+1 .. Len(queue) : queue[j] = Quit(queue[i].app)
      BY <1>2, <2>1 DEF LaunchExplained, Published
    <3>2. CASE steamApp = queue[i].app
      BY <1>1, <1>2, <2>1, <3>1, <3>2 DEF Published
    <3>3. CASE \E j \in i+1 .. Len(queue) : queue[j] = Quit(queue[i].app)
      BY <1>1, <2>1, <3>1, <3>3 DEF Published
    <3>4. QED  BY <3>1, <3>2, <3>3
  <2>2. CASE i \in Len(queue)+1 .. Len(queue')
    BY <1>2, <2>2 DEF Launched, Published
  <2>3. QED  BY <1>1, <2>1, <2>2 DEF Published
<1>3. ASSUME NEW i \in 1 .. Len(queue'), queue'[i].kind = "AppQuit"
      PROVE  \/ steamApp' = NoApp
             \/ \E j \in i+1 .. Len(queue') : queue'[j].kind = "AppLaunched"
  <2>1. CASE i \in 1 .. Len(queue)
    <3>1. \/ steamApp = NoApp
          \/ \E j \in i+1 .. Len(queue) : queue[j].kind = "AppLaunched"
      BY <1>3, <2>1 DEF QuitExplained, Published
    <3>2. QED  BY <1>1, <2>1, <3>1 DEF Launched, Published
  <2>2. CASE i \in Len(queue)+1 .. Len(queue')
    BY <1>3, <2>2 DEF Launched, Published
  <2>3. QED  BY <1>1, <2>1, <2>2 DEF Published
<1>4. QED  BY <1>2, <1>3 DEF LaunchExplained, QuitExplained

\* Taking the first event off the queue, by position.
LEMMA Popped ==
  ASSUME NEW q \in Seq(Events), q # << >>
  PROVE  /\ Len(q) >= 1 /\ Head(q) = q[1] /\ q[1] \in Events
         /\ Tail(q) \in Seq(Events) /\ Len(Tail(q)) = Len(q) - 1
         /\ \A i \in 1 .. Len(q)-1 : Tail(q)[i] = q[i+1]
OBVIOUS

\* Both explanations survive the dispatcher taking an event: each looks only
\* forward in the queue.
LEMMA ExplainedPop ==
  ASSUME TypeOK, LaunchExplained, QuitExplained, queue # << >>,
         queue' = Tail(queue), steamApp' = steamApp
  PROVE  LaunchExplained' /\ QuitExplained'
<1>1. queue \in Seq(Events)
  BY DEF TypeOK
<1>2. /\ Len(queue) \in Nat /\ Len(queue') = Len(queue) - 1
      /\ \A i \in 1 .. Len(queue') : queue'[i] = queue[i+1]
  BY <1>1, Popped
<1>3. ASSUME NEW i \in 1 .. Len(queue'), queue'[i].kind = "AppLaunched"
      PROVE  /\ queue'[i].app # NoApp
             /\ \/ steamApp' = queue'[i].app
                \/ \E j \in i+1 .. Len(queue') : queue'[j] = Quit(queue'[i].app)
  <2>1. /\ i+1 \in 1 .. Len(queue)
        /\ queue[i+1].app # NoApp
        /\ \/ steamApp = queue[i+1].app
           \/ \E j \in i+2 .. Len(queue) : queue[j] = Quit(queue[i+1].app)
    BY <1>2, <1>3 DEF LaunchExplained
  <2>2. ASSUME NEW j \in i+2 .. Len(queue)
        PROVE  j-1 \in i+1 .. Len(queue') /\ queue'[j-1] = queue[j]
    BY <1>2
  <2>3. QED  BY <1>2, <2>1, <2>2
<1>4. ASSUME NEW i \in 1 .. Len(queue'), queue'[i].kind = "AppQuit"
      PROVE  \/ steamApp' = NoApp
             \/ \E j \in i+1 .. Len(queue') : queue'[j].kind = "AppLaunched"
  <2>1. /\ i+1 \in 1 .. Len(queue)
        /\ \/ steamApp = NoApp
           \/ \E j \in i+2 .. Len(queue) : queue[j].kind = "AppLaunched"
    BY <1>2, <1>4 DEF QuitExplained
  <2>2. ASSUME NEW j \in i+2 .. Len(queue)
        PROVE  j-1 \in i+1 .. Len(queue') /\ queue'[j-1] = queue[j]
    BY <1>2
  <2>3. QED  BY <1>2, <2>1, <2>2
<1>5. QED  BY <1>3, <1>4 DEF LaunchExplained, QuitExplained

-----------------------------------------------------------------------------
(* The daemon converges to what Steam shows                                *)

\* A goroutine that was pending still is, or has just made Steam play its target.
PendingKept ==
  \A t \in Tasks : Pending(t) =>
    \/ Pending(t)' /\ task'[t].app = task[t].app
    \/ task[t].app = steamApp'

\* Convergence survives a move of Steam, by a goroutine or by the world.
LEMMA ConvergesMoves ==
  ASSUME TypeOK, Converges, PendingKept, currentAppID' = currentAppID,
         steamApp' \in AppOrNone, Published(queue, steamApp, steamApp', queue')
  PROVE  Converges'
<1> SUFFICES ASSUME ~HasLaunch'
             PROVE  \/ Settled' = steamApp'
                    \/ \E t \in Tasks : Pending(t)' /\ task'[t].app = Settled'
  BY DEF Converges
<1>1. queue \in Seq(Events) /\ steamApp \in AppOrNone
  BY DEF TypeOK
<1>2. ~HasLaunch
  BY <1>1 DEF HasLaunch, Published
<1>3. steamApp' = steamApp \/ steamApp' = NoApp
  BY <1>1 DEF HasLaunch, Published, Launched
<1>4. \A a : HasQuit(a) => HasQuit(a)'
  BY <1>1 DEF HasQuit, Published
<1>5. \A a : HasQuit(a)' /\ ~HasQuit(a) => steamApp' = NoApp /\ a = steamApp
  BY <1>1, <1>3 DEF HasQuit, Published, Quit
<1>6. \A a : a = steamApp /\ a # NoApp /\ steamApp' = NoApp => HasQuit(a)'
  BY <1>1 DEF HasQuit, Published
<1>7. \/ Settled = steamApp
      \/ \E t \in Tasks : Pending(t) /\ task[t].app = Settled
  BY <1>2 DEF Converges
<1>8. CASE Settled = steamApp
  BY <1>3, <1>4, <1>5, <1>6, <1>8 DEF Settled
<1>9. ASSUME NEW t \in Tasks, Pending(t), task[t].app = Settled
      PROVE  \/ Settled' = steamApp'
             \/ \E u \in Tasks : Pending(u)' /\ task'[u].app = Settled'
  <2>1. Settled' = Settled \/ Settled' = steamApp'
    BY <1>3, <1>4, <1>5 DEF Settled
  <2>2. QED  BY <1>9, <2>1 DEF PendingKept
<1>10. QED  BY <1>7, <1>8, <1>9

\* Convergence survives a goroutine that records a target and becomes pending on
\* it: either the queue overrides the record, or the goroutine will make it true.
LEMMA ConvergesRecords ==
  ASSUME Converges, NEW u \in Tasks, Pending(u)', task'[u].app = currentAppID',
         \A t \in Tasks : Pending(t) => Pending(t)' /\ task'[t].app = task[t].app,
         QuitExplained, UNCHANGED <<steamApp, queue>>
  PROVE  Converges'
<1> SUFFICES ASSUME ~HasLaunch'
             PROVE  \/ Settled' = steamApp'
                    \/ \E t \in Tasks : Pending(t)' /\ task'[t].app = Settled'
  BY DEF Converges
<1>1. CASE HasQuit(currentAppID)'
  <2>1. Settled' = NoApp
    BY <1>1 DEF Settled
  <2>2. steamApp = NoApp
    BY <1>1 DEF HasQuit, HasLaunch, QuitExplained, Quit
  <2>3. QED  BY <2>1, <2>2
<1>2. CASE ~HasQuit(currentAppID)'
  BY <1>2 DEF Settled
<1>3. QED  BY <1>1, <1>2

\* Convergence survives the dispatcher handling an event as handleEvents does.
LEMMA ConvergesPop ==
  ASSUME TypeOK, LaunchExplained, QuitExplained, Converges, queue # << >>,
         queue' = Tail(queue), steamApp' = steamApp,
         \A t \in Tasks : Pending(t) => Pending(t)' /\ task'[t].app = task[t].app,
         Head(queue).kind = "AppLaunched" => currentAppID' = Head(queue).app,
         Head(queue).kind = "AppQuit" =>
           currentAppID' = IF currentAppID = Head(queue).app THEN NoApp ELSE currentAppID,
         Head(queue).kind \notin {"AppLaunched", "AppQuit"} => currentAppID' = currentAppID
  PROVE  Converges'
<1> SUFFICES ASSUME ~HasLaunch'
             PROVE  \/ Settled' = steamApp'
                    \/ \E t \in Tasks : Pending(t)' /\ task'[t].app = Settled'
  BY DEF Converges
<1>1. queue \in Seq(Events)
  BY DEF TypeOK
<1>2. /\ Len(queue) \in Nat /\ Len(queue) >= 1 /\ Len(queue') = Len(queue) - 1
      /\ Head(queue) = queue[1] /\ queue[1] \in Events
      /\ \A i \in 1 .. Len(queue') : queue'[i] = queue[i+1]
  BY <1>1, Popped
<1>3. \A i \in 2 .. Len(queue) : i-1 \in 1 .. Len(queue') /\ queue'[i-1] = queue[i]
  BY <1>2
<1>4. \A i \in 2 .. Len(queue) : queue[i].kind # "AppLaunched"
  BY <1>3 DEF HasLaunch
<1>5. \A a : HasQuit(a)' <=> \E i \in 2 .. Len(queue) : queue[i] = Quit(a)
  <2>1. \A i \in 1 .. Len(queue') : i+1 \in 2 .. Len(queue) /\ queue'[i] = queue[i+1]
    BY <1>2
  <2>2. ASSUME NEW a, NEW i \in 1 .. Len(queue'), queue'[i] = Quit(a)
        PROVE  \E j \in 2 .. Len(queue) : queue[j] = Quit(a)
    BY <2>1, <2>2
  <2>3. ASSUME NEW a, NEW i \in 2 .. Len(queue), queue[i] = Quit(a)
        PROVE  \E j \in 1 .. Len(queue') : queue'[j] = Quit(a)
    BY <1>3, <2>3
  <2>4. QED  BY <2>2, <2>3 DEF HasQuit
<1>6. CASE queue[1].kind = "AppLaunched"
  <2>1. PICK a \in AppOrNone : a = queue[1].app
    BY <1>2 DEF Events
  <2>2. currentAppID' = a
    BY <1>2, <1>6, <2>1
  <2>3. \/ steamApp = a
        \/ \E i \in 2 .. Len(queue) : queue[i] = Quit(a)
    BY <1>2, <1>6, <2>1 DEF LaunchExplained
  <2>4. ASSUME NEW i \in 2 .. Len(queue), queue[i] = Quit(a)
        PROVE  steamApp = NoApp
    BY <1>2, <1>4, <2>4 DEF QuitExplained, Quit
  <2>5. QED  BY <1>5, <2>2, <2>3, <2>4 DEF Settled
<1>7. CASE queue[1].kind # "AppLaunched"
  <2>1. ~HasLaunch
    BY <1>2, <1>4, <1>7 DEF HasLaunch
  <2>2. \/ Settled = steamApp
        \/ \E t \in Tasks : Pending(t) /\ task[t].app = Settled
    BY <2>1 DEF Converges
  <2>3. \A a : HasQuit(a) <=> HasQuit(a)' \/ queue[1] = Quit(a)
    BY <1>2, <1>5 DEF HasQuit
  <2>4. CASE queue[1].kind = "AppQuit"
    <3>1. PICK a \in AppOrNone : a = queue[1].app /\ queue[1] = Quit(a)
      BY <1>2, <2>4 DEF Events, Quit
    <3>2. \A b : Quit(a) = Quit(b) => a = b
      BY DEF Quit
    <3>3. Settled' = Settled
      BY <1>2, <2>3, <2>4, <3>1, <3>2 DEF Settled
    <3>4. QED  BY <2>2, <3>3
  <2>5. CASE queue[1].kind # "AppQuit"
    <3>1. \A a : queue[1] # Quit(a)
      BY <2>5 DEF Quit
    <3>2. Settled' = Settled
      BY <1>2, <1>7, <2>3, <2>5, <3>1 DEF Settled
    <3>3. QED  BY <2>2, <3>2
  <2>6. QED  BY <2>4, <2>5
<1>8. QED  BY <1>6, <1>7

\* A step that leaves presence, the queue and the pending goroutines alone.
LEMMA PresenceUntouched ==
  ASSUME LaunchExplained, QuitExplained, Converges,
         UNCHANGED <<currentAppID, steamApp, queue>>,
         \A t \in Tasks : Pending(t) => Pending(t)' /\ task'[t].app = task[t].app
  PROVE  LaunchExplained' /\ QuitExplained' /\ Converges'
BY DEF LaunchExplained, QuitExplained, Converges, Settled, HasQuit, HasLaunch

\* A goroutine that moves touches no other goroutine.
LEMMA EnterOthers ==
  ASSUME TaskOK, NEW t \in Tasks, NEW pc, NEW a, NEW o, Enter(t, pc, a, o)
  PROVE  /\ task'[t] = [pc |-> pc, app |-> a, old |-> o]
         /\ \A u \in Tasks : u # t => task'[u] = task[u]
BY DEF TaskOK, Enter

-----------------------------------------------------------------------------
(* Presence is kept                                                        *)

\* Without faults, every step of a serving daemon keeps the queue an explanation
\* of what Steam shows and the daemon converging to it.
LEMMA PresenceStep ==
  ASSUME TypeOK, PresenceInv, Faults = {}, [Next]_vars
  PROVE  PresenceInv'
<1> DEFINE Goal == LaunchExplained' /\ QuitExplained' /\ Converges' /\ TasksSound'
<1> DEFINE Kept == \A u \in Tasks : Pending(u) => Pending(u)' /\ task'[u].app = task[u].app
<1> SUFFICES ASSUME Serving' PROVE Goal
  BY DEF PresenceInv
<1>a. TaskOK /\ queue \in Seq(Events) /\ steamApp \in AppOrNone
  BY DEF TypeOK
<1>b. Operators \subseteq Tasks /\ Resumers \subseteq Tasks /\ Main \in Tasks
  BY DEF Tasks
<1>c. \A t \in Operators \cup Resumers : t # Main
  BY SessionAssumption
<1>d. ASSUME NEW t \in Operators \cup Resumers, NEW pc, NEW a, NEW o, Enter(t, pc, a, o)
      PROVE  Serving
  BY <1>a, <1>b, <1>c, <1>d, EnterOthers DEF Serving, At
<1>e. ASSUME UNCHANGED task
      PROVE  Serving /\ Kept
  BY <1>e DEF Serving, At, Pending
<1>f. Serving => LaunchExplained /\ QuitExplained /\ Converges /\ TasksSound
  BY DEF PresenceInv
<1>g. ASSUME Serving, UNCHANGED task
      PROVE  TasksSound'
  BY <1>f, <1>g DEF TasksSound, NoRollback, ExitsToNone
<1>h. ASSUME Serving, UNCHANGED <<currentAppID, steamApp, queue>>, Kept, TasksSound'
      PROVE  Goal
  BY <1>f, <1>h, PresenceUntouched
<1>i. ASSUME Serving, UNCHANGED currentAppID, PendingKept, TasksSound',
             \/ \E a \in AppOrNone : SteamPlays(a)
             \/ Relogon
             \/ LoadBackpack
      PROVE  Goal
  <2>1. steamApp' \in AppOrNone /\ Published(queue, steamApp, steamApp', queue')
    BY <1>i, StepPublished
  <2>2. QED  BY <1>f, <1>i, <2>1, ExplainedMoves, ConvergesMoves
<1>j. ASSUME Serving, NEW u \in Tasks, Pending(u)', task'[u].app = currentAppID', Kept,
             TasksSound', UNCHANGED <<steamApp, queue>>
      PROVE  Goal
  <2>1. LaunchExplained' /\ QuitExplained'
    BY <1>f, <1>j DEF LaunchExplained, QuitExplained
  <2>2. QED  BY <1>f, <1>j, <2>1, ConvergesRecords
<1>k. ASSUME NEW t \in Tasks, NEW pc, NEW a, NEW o, Enter(t, pc, a, o), Serving,
             pc \notin {"play.rollback", "resume.reset"},
             pc \in {"exit.stop", "exit.call"} => a = NoApp
      PROVE  TasksSound'
  <2>1. TasksSound
    BY <1>f, <1>k
  <2>2. /\ task'[t] = [pc |-> pc, app |-> a, old |-> o]
        /\ \A u \in Tasks : u # t => task'[u] = task[u]
    BY <1>a, <1>k, EnterOthers
  <2>3. QED  BY <1>k, <2>1, <2>2 DEF TasksSound, NoRollback, ExitsToNone
<1>l. ASSUME NEW t \in Tasks, NEW pc, NEW a, NEW o, Enter(t, pc, a, o), ~Pending(t)
      PROVE  Kept
  BY <1>a, <1>l, EnterOthers DEF Pending
<1>m. ASSUME NEW t \in Tasks, NEW pc, Goto(t, pc),
             pc \in {"play.stop", "play.call", "exit.stop", "exit.call", "resume.call"}
      PROVE  Kept
  <2>1. /\ task'[t] = [pc |-> pc, app |-> task[t].app, old |-> task[t].old]
        /\ \A u \in Tasks : u # t => task'[u] = task[u]
    BY <1>a, <1>m, EnterOthers DEF Goto
  <2>2. QED  BY <1>m, <2>1 DEF Pending
<1>n. ASSUME NEW t \in Tasks, NEW pc, NEW a, NEW o, Enter(t, pc, a, o),
             task[t].app = steamApp'
      PROVE  PendingKept
  BY <1>a, <1>n, EnterOthers DEF PendingKept, Pending
<1>o. \A t \in Tasks : task[t].app \in AppOrNone
  BY <1>a DEF TaskOK
<1>p. ASSUME NEW pc, NEW a, NEW o, Enter(Main, pc, a, o), pc # "idle"
      PROVE  Goal
  <2>1. task'[Main] = [pc |-> pc, app |-> a, old |-> o]
    BY <1>a, <1>b, <1>p, EnterOthers
  <2>2. QED  BY <1>p, <2>1 DEF Serving, At
<1>1. ASSUME NEW t \in Operators, \E a \in Apps : PlayGame(t, a) PROVE Goal
  <2>1. PICK a \in Apps : PlayGame(t, a)
    BY <1>1
  <2>2. PICK pc \in {"play.stop", "play.call"} : Enter(t, pc, a, currentAppID)
    BY <2>1 DEF PlayGame
  <2>3. Serving /\ ~Pending(t)
    BY <2>1 DEF PlayGame, AcceptRPC, At, Pending
  <2>4. Kept
    BY <1>b, <1>l, <2>2, <2>3
  <2>5. TasksSound'
    BY <1>b, <1>k, <2>2, <2>3
  <2>6. Pending(t)' /\ task'[t].app = currentAppID'
    <3>1. task'[t] = [pc |-> pc, app |-> a, old |-> currentAppID]
      BY <1>a, <1>b, <2>2, EnterOthers
    <3>2. currentAppID' = a
      BY <2>1 DEF PlayGame
    <3>3. QED  BY <3>1, <3>2 DEF Pending
  <2>7. QED  BY <1>b, <1>j, <2>1, <2>3, <2>4, <2>5, <2>6 DEF PlayGame, steamVars
<1>2. ASSUME NEW t \in Operators, ExitGame(t) PROVE Goal
  <2>1. Serving /\ ~Pending(t)
    BY <1>2 DEF ExitGame, AcceptRPC, At, Pending
  <2>2. CASE currentAppID = NoApp
    <3>1. Enter(t, "idle", NoApp, NoApp) /\ UNCHANGED <<currentAppID, steamApp, queue>>
      BY <1>2, <2>2 DEF ExitGame, steamVars
    <3>2. Kept /\ TasksSound'
      BY <1>b, <1>k, <1>l, <2>1, <3>1
    <3>3. QED  BY <1>h, <2>1, <3>1, <3>2
  <2>3. CASE currentAppID # NoApp
    <3>1. Enter(t, "exit.stop", NoApp, currentAppID) /\ currentAppID' = NoApp
      BY <1>2, <2>3 DEF ExitGame
    <3>2. Kept
      BY <1>b, <1>l, <2>1, <3>1
    <3>3. TasksSound'
      BY <1>b, <1>k, <2>1, <3>1
    <3>4. Pending(t)' /\ task'[t].app = currentAppID'
      <4>1. task'[t] = [pc |-> "exit.stop", app |-> NoApp, old |-> currentAppID]
        BY <1>a, <1>b, <3>1, EnterOthers
      <4>2. QED  BY <3>1, <4>1 DEF Pending
    <3>5. QED  BY <1>2, <1>b, <1>j, <2>1, <3>2, <3>3, <3>4 DEF ExitGame, steamVars
  <2>4. QED  BY <2>2, <2>3
<1>3. ASSUME NEW t \in Operators, PlayStopOld(t) PROVE Goal
  <2>1. Goto(t, "play.call") /\ UNCHANGED <<currentAppID, steamApp, queue>>
    BY <1>3 DEF PlayStopOld, daemonVars, steamVars
  <2>2. Serving /\ Kept /\ TasksSound'
    BY <1>b, <1>d, <1>k, <1>m, <2>1 DEF Goto
  <2>3. QED  BY <1>h, <2>1, <2>2
<1>4. ASSUME NEW t \in Operators, PlayCall(t) PROVE Goal
  <2>1. SteamPlays(task[t].app) /\ Goto(t, "play.start") /\ UNCHANGED currentAppID
    BY <1>4 DEF PlayCall, daemonVars
  <2>2. Serving /\ TasksSound'
    BY <1>b, <1>d, <1>k, <2>1 DEF Goto
  <2>3. PendingKept
    BY <1>b, <1>n, <2>1 DEF Goto, SteamPlays
  <2>4. QED  BY <1>b, <1>i, <1>o, <2>1, <2>2, <2>3
<1>5. ASSUME NEW t \in Operators, PlayRollback(t) PROVE Goal
  <2>1. Serving
    BY <1>5, <1>d DEF PlayRollback, Return
  <2>2. QED  BY <1>5, <1>b, <1>f, <2>1 DEF PlayRollback, At, TasksSound, NoRollback
<1>6. ASSUME NEW t \in Operators, PlayStart(t) PROVE Goal
  <2>1. Return(t) /\ ~Pending(t) /\ UNCHANGED <<currentAppID, steamApp, queue>>
    BY <1>6 DEF PlayStart, daemonVars, steamVars, At, Pending
  <2>2. Serving /\ Kept /\ TasksSound'
    BY <1>b, <1>d, <1>k, <1>l, <2>1 DEF Return
  <2>3. QED  BY <1>h, <2>1, <2>2
<1>7. ASSUME NEW t \in Operators, ExitStop(t) PROVE Goal
  <2>1. Goto(t, "exit.call") /\ UNCHANGED <<currentAppID, steamApp, queue>>
    BY <1>7 DEF ExitStop, daemonVars, steamVars
  <2>2. Serving /\ Kept
    BY <1>b, <1>d, <1>m, <2>1 DEF Goto
  <2>3. task[t].app = NoApp
    BY <1>7, <1>b, <1>f, <2>2 DEF ExitStop, TasksSound, ExitsToNone, At
  <2>4. TasksSound'
    BY <1>b, <1>k, <2>1, <2>2, <2>3 DEF Goto
  <2>5. QED  BY <1>h, <2>1, <2>2, <2>4
<1>8. ASSUME NEW t \in Operators, ExitCall(t) PROVE Goal
  <2>1. SteamPlays(NoApp) /\ Return(t) /\ At(t, "exit.call") /\ UNCHANGED currentAppID
    BY <1>8 DEF ExitCall, daemonVars
  <2>2. Serving /\ TasksSound'
    BY <1>b, <1>d, <1>k, <2>1 DEF Return
  <2>3. task[t].app = NoApp
    BY <1>b, <1>f, <2>1, <2>2 DEF TasksSound, ExitsToNone, At
  <2>4. PendingKept
    BY <1>b, <1>n, <2>1, <2>3 DEF Return, SteamPlays
  <2>5. QED  BY <1>i, <2>1, <2>2, <2>4 DEF AppOrNone
<1>9. ASSUME NEW t \in Resumers, ResumeSet(t) PROVE Goal
  <2>1. /\ Goto(t, "resume.call") /\ ~Pending(t)
        /\ currentAppID' = task[t].app /\ UNCHANGED <<steamApp, queue>>
    BY <1>9 DEF ResumeSet, steamVars, At, Pending
  <2>2. Serving
    BY <1>b, <1>d, <2>1 DEF Goto
  <2>3. Kept
    BY <1>b, <1>l, <2>1 DEF Goto
  <2>4. TasksSound'
    BY <1>b, <1>k, <2>1, <2>2 DEF Goto
  <2>5. Pending(t)' /\ task'[t].app = currentAppID'
    <3>1. task'[t] = [pc |-> "resume.call", app |-> task[t].app, old |-> task[t].old]
      BY <1>a, <1>b, <2>1, EnterOthers DEF Goto
    <3>2. QED  BY <2>1, <3>1 DEF Pending
  <2>6. QED  BY <1>b, <1>j, <2>1, <2>2, <2>3, <2>4, <2>5
<1>10. ASSUME NEW t \in Resumers, ResumeCall(t) PROVE Goal
  <2>1. Serving
    BY <1>10, <1>d DEF ResumeCall, Goto
  <2>2. SteamPlays(task[t].app) /\ Goto(t, "resume.start") /\ UNCHANGED currentAppID
    BY <1>10, <2>1 DEF ResumeCall, daemonVars
  <2>3. TasksSound'
    BY <1>b, <1>k, <2>1, <2>2 DEF Goto
  <2>4. PendingKept
    BY <1>b, <1>n, <2>2 DEF Goto, SteamPlays
  <2>5. QED  BY <1>b, <1>i, <1>o, <2>1, <2>2, <2>3, <2>4
<1>11. ASSUME NEW t \in Resumers, ResumeReset(t) PROVE Goal
  <2>1. Serving
    BY <1>11, <1>d DEF ResumeReset, Return
  <2>2. QED  BY <1>11, <1>b, <1>f, <2>1 DEF ResumeReset, At, TasksSound, NoRollback
<1>12. ASSUME NEW t \in Resumers, ResumeStart(t) PROVE Goal
  <2>1. Return(t) /\ ~Pending(t) /\ UNCHANGED <<currentAppID, steamApp, queue>>
    BY <1>12 DEF ResumeStart, daemonVars, steamVars, At, Pending
  <2>2. Serving /\ Kept /\ TasksSound'
    BY <1>b, <1>d, <1>k, <1>l, <2>1 DEF Return
  <2>3. QED  BY <1>h, <2>1, <2>2
<1>13. CASE OnAppLaunched
  <2>1. Serving /\ Kept /\ TasksSound'
    BY <1>13, <1>e, <1>g DEF OnAppLaunched
  <2>2. LaunchExplained' /\ QuitExplained'
    BY <1>13, <1>f, <2>1, ExplainedPop DEF OnAppLaunched, Dispatching
  <2>3. Converges'
    BY <1>13, <1>f, <2>1, ConvergesPop DEF OnAppLaunched, Dispatching
  <2>4. QED  BY <2>1, <2>2, <2>3
<1>14. CASE OnAppQuit
  <2>1. Serving /\ Kept /\ TasksSound'
    BY <1>14, <1>e, <1>g DEF OnAppQuit
  <2>2. LaunchExplained' /\ QuitExplained'
    BY <1>14, <1>f, <2>1, ExplainedPop DEF OnAppQuit, Dispatching
  <2>3. Converges'
    BY <1>14, <1>f, <2>1, ConvergesPop DEF OnAppQuit, Dispatching
  <2>4. QED  BY <2>1, <2>2, <2>3
<1>15. CASE HandleBackpackLoaded
  <2>1. Serving /\ Kept /\ TasksSound'
    BY <1>15, <1>e, <1>g DEF HandleBackpackLoaded
  <2>2. LaunchExplained' /\ QuitExplained'
    BY <1>15, <1>f, <2>1, ExplainedPop DEF HandleBackpackLoaded, Dispatching
  <2>3. Converges'
    BY <1>15, <1>f, <2>1, ConvergesPop DEF HandleBackpackLoaded, Dispatching, daemonVars
  <2>4. QED  BY <2>1, <2>2, <2>3
<1>16. CASE HandleLoggedOn
  <2>1. Serving /\ Kept /\ TasksSound'
    <3>1. CASE UNCHANGED task
      BY <1>e, <1>g, <3>1
    <3>2. CASE ~UNCHANGED task
      <4>1. PICK r \in Resumers : At(r, "idle") /\ Enter(r, "resume.set", desiredAppID, NoApp)
        BY <1>16, <3>2 DEF HandleLoggedOn
      <4>2. Serving /\ ~Pending(r)
        BY <1>d, <4>1 DEF At, Pending
      <4>3. QED  BY <1>b, <1>k, <1>l, <4>1, <4>2
    <3>3. QED  BY <3>1, <3>2
  <2>2. LaunchExplained' /\ QuitExplained'
    BY <1>16, <1>f, <2>1, ExplainedPop DEF HandleLoggedOn, Dispatching
  <2>3. Converges'
    BY <1>16, <1>f, <2>1, ConvergesPop DEF HandleLoggedOn, Dispatching, daemonVars
  <2>4. QED  BY <2>1, <2>2, <2>3
<1>17. CASE DispatcherDriverCall
  BY <1>17, <1>e, <1>g, <1>h DEF DispatcherDriverCall, daemonVars, steamVars
<1>18. CASE DispatcherReturn
  BY <1>18, <1>e DEF DispatcherReturn
<1>19. CASE Shutdown
  BY <1>19, <1>p DEF Shutdown, Goto
<1>20. CASE MainStep
  <2>1. CASE Close
    BY <1>p, <2>1 DEF Close
  <2>2. CASE CloseStop
    BY <1>p, <2>2 DEF CloseStop, Goto
  <2>3. CASE CloseCall
    BY <1>p, <2>3 DEF CloseCall, Goto
  <2>4. CASE CloseUnsubscribe
    BY <1>p, <2>4 DEF CloseUnsubscribe, Goto
  <2>5. CASE CloseClient
    BY <1>p, <2>5 DEF CloseClient, Goto
  <2>6. QED  BY <1>20, <2>1, <2>2, <2>3, <2>4, <2>5 DEF MainStep
<1>21. CASE Environment
  <2>1. UNCHANGED <<task, currentAppID>> /\ Serving
    BY <1>21 DEF Environment, Launch, QuitGame, Relogon, LoadBackpack, External, daemonVars
  <2>2. PendingKept /\ TasksSound'
    BY <1>e, <1>g, <2>1 DEF PendingKept
  <2>3. \/ \E a \in AppOrNone : SteamPlays(a)
        \/ Relogon
        \/ LoadBackpack
    BY <1>21 DEF Environment, Launch, QuitGame, AppOrNone
  <2>4. QED  BY <1>i, <2>1, <2>2, <2>3
<1>22. CASE UNCHANGED vars
  BY <1>22, <1>e, <1>g, <1>h DEF vars, daemonVars, steamVars
<1>23. QED
  BY <1>1, <1>2, <1>3, <1>4, <1>5, <1>6, <1>7, <1>8, <1>9, <1>10, <1>11, <1>12, <1>13,
     <1>14, <1>15, <1>16, <1>17, <1>18, <1>19, <1>20, <1>21, <1>22
  DEF Next, Request, OperatorStep, ResumerStep, Dispatch

\* With nothing in progress the queue is empty and nobody is pending, so the
\* daemon has settled on what Steam shows.
LEMMA PresenceImplies == TypeOK /\ PresenceInv => PresenceAgrees
<1> SUFFICES ASSUME TypeOK, PresenceInv, Quiescent PROVE currentAppID = steamApp
  BY DEF PresenceAgrees
<1>1. Serving /\ \A t \in Tasks : ~Pending(t)
  BY DEF Quiescent, Serving, At, Pending, Tasks
<1>2. ~HasLaunch /\ ~HasQuit(currentAppID)
  BY DEF Quiescent, HasLaunch, HasQuit
<1>3. QED  BY <1>1, <1>2 DEF PresenceInv, Converges, Settled

\* Before anything happens the invariant holds.
LEMMA PresenceInit == Init => PresenceInv
<1> SUFFICES ASSUME Init PROVE LaunchExplained /\ QuitExplained /\ Converges /\ TasksSound
  BY DEF PresenceInv
<1>1. queue = << >> /\ currentAppID = NoApp /\ steamApp = NoApp
  BY DEF Init
<1>2. \A t \in Tasks : task[t].pc = "idle"
  BY DEF Init
<1>3. QED  BY <1>1, <1>2
  DEF LaunchExplained, QuitExplained, Converges, Settled, HasQuit, TasksSound, NoRollback, ExitsToNone

\* If no call to the apps module fails, then whenever every request, resumption and
\* event has been handled the daemon's current app is the one Steam shows, whatever
\* the order in which the handlers, the dispatcher and the world took their steps.
THEOREM PresenceAgreement ==
  ASSUME Faults = {}
  PROVE  Spec => []PresenceAgrees
<1>1. Init => TypeOK /\ AckExclusive
  BY SessionAssumption
  DEF Init, TypeOK, TaskOK, AckExclusive, AppOrNone, Tasks, TaskPC, OperatorPC, ResumerPC, MainPC
<1>2. (TypeOK /\ AckExclusive) /\ [Next]_vars => (TypeOK /\ AckExclusive)'
  BY TypeStep
<1>3. TypeOK /\ PresenceInv /\ [Next]_vars => PresenceInv'
  BY PresenceStep
<1>4. QED  BY <1>1, <1>2, <1>3, PresenceInit, PresenceImplies, PTL DEF Spec

-----------------------------------------------------------------------------
(* That the game which Steam shows has its listener, and that an operator  *)
(* who waits for each answer leaves none to a game that is over.           *)
(*                                                                         *)
(* Both follow the driver calls that are still to come: those of the       *)
(* dispatcher for the events in the queue, and those of the goroutine that *)
(* is about to leave the game.                                             *)

\* The last thing a queue says of an app is that it was launched.
LastLaunched(q, a) ==
  \E i \in 1 .. Len(q) : q[i] = Launched(a) /\ \A j \in i+1 .. Len(q) : q[j] # Quit(a)
Quits(q, a) == \E i \in 1 .. Len(q) : q[i] = Quit(a)

\* What a move of Steam publishes about an app: it is launched last if it is the new
\* one, and quits if it was the old one.
LEMMA LaunchMoves ==
  ASSUME NEW q \in Seq(Events), NEW old, NEW new, NEW p, Published(q, old, new, p),
         NEW a \in Apps
  PROVE  /\ new = a /\ old # a => LastLaunched(p, a)
         /\ new = a /\ old = a /\ LastLaunched(q, a) => LastLaunched(p, a)
         /\ new = a /\ old = a /\ ~Quits(q, a) => ~Quits(p, a)
         /\ new # a /\ (old = a \/ ~LastLaunched(q, a)) => ~LastLaunched(p, a)
         /\ Quits(q, a) => Quits(p, a)
         /\ old = a /\ new # a => Quits(p, a)
<1>1. /\ p \in Seq(Events) /\ Len(p) >= Len(q) /\ Len(p) \in Nat /\ Len(q) \in Nat
      /\ \A i \in 1 .. Len(q) : p[i] = q[i]
  BY DEF Published
<1>2. a # NoApp
  BY SessionAssumption
<1>3. /\ Quit(a).kind = "AppQuit" /\ Launched(a).kind = "AppLaunched"
      /\ Quit(a).app = a /\ Launched(a).app = a
  BY DEF Quit, Launched
<1>4. ASSUME NEW i \in Len(q)+1 .. Len(p), p[i] = Quit(a)
      PROVE  old = a /\ new # a
  <2>1. old # new /\ Quit(a) = Quit(old)
    BY <1>3, <1>4 DEF Published
  <2>2. QED  BY <2>1 DEF Quit
<1>5. ASSUME NEW i \in Len(q)+1 .. Len(p), p[i] = Launched(a)
      PROVE  new = a
  <2>1. Launched(a) = Launched(new)
    BY <1>3, <1>5 DEF Published
  <2>2. QED  BY <2>1 DEF Launched
<1>6. ASSUME new = a, old # a
      PROVE  LastLaunched(p, a)
  <2>1. PICK i \in Len(q)+1 .. Len(p) : p[i] = Launched(a)
    BY <1>2, <1>6 DEF Published
  <2>2. i \in 1 .. Len(p) /\ \A j \in i+1 .. Len(p) : j \in Len(q)+1 .. Len(p)
    BY <1>1
  <2>3. QED  BY <1>4, <1>6, <2>1, <2>2 DEF LastLaunched
<1>7. ASSUME new = a, old = a, LastLaunched(q, a)
      PROVE  LastLaunched(p, a)
  <2>1. PICK i \in 1 .. Len(q) : q[i] = Launched(a) /\ \A j \in i+1 .. Len(q) : q[j] # Quit(a)
    BY <1>7 DEF LastLaunched
  <2>2. i \in 1 .. Len(p) /\ p[i] = Launched(a)
    BY <1>1, <2>1
  <2>3. ASSUME NEW j \in i+1 .. Len(p) PROVE p[j] # Quit(a)
    <3>1. CASE j \in i+1 .. Len(q)
      <4>1. p[j] = q[j]
        BY <1>1, <3>1
      <4>2. QED  BY <2>1, <3>1, <4>1
    <3>2. CASE j \in Len(q)+1 .. Len(p)
      BY <1>4, <1>7, <3>2
    <3>3. QED  BY <1>1, <3>1, <3>2
  <2>4. QED  BY <2>2, <2>3 DEF LastLaunched
<1>8. ASSUME new = a, old = a, ~Quits(q, a)
      PROVE  ~Quits(p, a)
  <2>1. ASSUME NEW i \in 1 .. Len(p) PROVE p[i] # Quit(a)
    <3>1. CASE i \in 1 .. Len(q)
      BY <1>1, <1>8, <3>1 DEF Quits
    <3>2. CASE i \in Len(q)+1 .. Len(p)
      BY <1>4, <1>8, <3>2
    <3>3. QED  BY <1>1, <3>1, <3>2
  <2>2. QED  BY <2>1 DEF Quits
<1>9. Quits(q, a) => Quits(p, a)
  <2>1. \A i \in 1 .. Len(q) : i \in 1 .. Len(p)
    BY <1>1
  <2>2. QED  BY <1>1, <2>1 DEF Quits
<1>10. ASSUME old = a, new # a
       PROVE  \E i \in Len(q)+1 .. Len(p) : p[i] = Quit(a)
  BY <1>2, <1>10 DEF Published
<1>11. old = a /\ new # a => Quits(p, a)
  <2>1. \A i \in Len(q)+1 .. Len(p) : i \in 1 .. Len(p)
    BY <1>1
  <2>2. QED  BY <1>10, <2>1 DEF Quits
<1>12. ASSUME new # a, old = a \/ ~LastLaunched(q, a)
       PROVE  ~LastLaunched(p, a)
  <2>1. SUFFICES ASSUME NEW i \in 1 .. Len(p), p[i] = Launched(a)
                 PROVE  \E j \in i+1 .. Len(p) : p[j] = Quit(a)
    BY DEF LastLaunched
  <2>2. i \in 1 .. Len(q) /\ q[i] = Launched(a)
    <3>1. i \notin Len(q)+1 .. Len(p)
      BY <1>5, <1>12, <2>1
    <3>2. i \in 1 .. Len(q)
      BY <1>1, <3>1
    <3>3. QED  BY <1>1, <2>1, <3>2
  <2>3. CASE old = a
    <3>1. PICK j \in Len(q)+1 .. Len(p) : p[j] = Quit(a)
      BY <1>10, <1>12, <2>3
    <3>2. j \in i+1 .. Len(p)
      BY <1>1, <2>2
    <3>3. QED  BY <3>1, <3>2
  <2>4. CASE ~LastLaunched(q, a)
    <3>1. PICK j \in i+1 .. Len(q) : q[j] = Quit(a)
      BY <2>2, <2>4 DEF LastLaunched
    <3>2. j \in i+1 .. Len(p) /\ j \in 1 .. Len(q)
      BY <1>1, <2>2
    <3>3. QED  BY <1>1, <3>1, <3>2
  <2>5. QED  BY <1>12, <2>3, <2>4
<1>13. QED  BY <1>6, <1>7, <1>8, <1>9, <1>11, <1>12

\* What taking an event leaves of what the queue says about an app.
LEMMA LaunchPops ==
  ASSUME NEW q \in Seq(Events), q # << >>, NEW p, p = Tail(q), NEW a
  PROVE  /\ LastLaunched(q, a) => \/ LastLaunched(p, a)
                                  \/ Head(q) = Launched(a) /\ ~Quits(p, a)
         /\ ~Quits(q, a) => ~Quits(p, a) /\ Head(q) # Quit(a)
         /\ ~LastLaunched(q, a) => ~LastLaunched(p, a)
         /\ ~LastLaunched(q, a) /\ Head(q) = Launched(a) => Quits(p, a)
         /\ Quits(q, a) => Quits(p, a) \/ Head(q) = Quit(a)
<1>1. /\ Len(q) \in Nat /\ Len(q) >= 1 /\ Len(p) = Len(q) - 1 /\ Head(q) = q[1]
      /\ \A i \in 1 .. Len(p) : p[i] = q[i+1]
  OBVIOUS
<1>2. \A i \in 2 .. Len(q) : i-1 \in 1 .. Len(p) /\ p[i-1] = q[i]
  BY <1>1
<1>3. \A i \in 1 .. Len(p) : i+1 \in 2 .. Len(q) /\ i+1 \in 1 .. Len(q)
  BY <1>1
<1>4. 1 \in 1 .. Len(q) /\ \A i \in 1 .. Len(q) : i = 1 \/ i \in 2 .. Len(q)
  BY <1>1
<1>5. ~Quits(q, a) => ~Quits(p, a) /\ Head(q) # Quit(a)
  BY <1>1, <1>3, <1>4 DEF Quits
<1>6. Quits(q, a) => Quits(p, a) \/ Head(q) = Quit(a)
  BY <1>1, <1>2, <1>4 DEF Quits
<1>7. ASSUME NEW i \in 2 .. Len(q), q[i] = Launched(a), \A j \in i+1 .. Len(q) : q[j] # Quit(a)
      PROVE  LastLaunched(p, a)
  <2>1. i-1 \in 1 .. Len(p) /\ p[i-1] = Launched(a)
    BY <1>2, <1>7
  <2>2. ASSUME NEW j \in (i-1)+1 .. Len(p) PROVE p[j] # Quit(a)
    <3>1. j \in 1 .. Len(p) /\ j+1 \in i+1 .. Len(q)
      BY <1>1
    <3>2. QED  BY <1>1, <1>7, <3>1
  <2>3. QED  BY <2>1, <2>2 DEF LastLaunched
<1>8. LastLaunched(q, a) => LastLaunched(p, a) \/ (Head(q) = Launched(a) /\ ~Quits(p, a))
  <2>1. SUFFICES ASSUME NEW i \in 1 .. Len(q), q[i] = Launched(a),
                        \A j \in i+1 .. Len(q) : q[j] # Quit(a)
                 PROVE  LastLaunched(p, a) \/ (Head(q) = Launched(a) /\ ~Quits(p, a))
    BY DEF LastLaunched
  <2>2. CASE i = 1
    <3>1. \A j \in 2 .. Len(q) : q[j] # Quit(a)
      BY <2>1, <2>2
    <3>2. ~Quits(p, a)
      BY <1>1, <1>3, <3>1 DEF Quits
    <3>3. QED  BY <1>1, <2>1, <2>2, <3>2
  <2>3. CASE i \in 2 .. Len(q)
    BY <1>7, <2>1, <2>3
  <2>4. QED  BY <1>4, <2>1, <2>2, <2>3
<1>9. ASSUME LastLaunched(p, a)
      PROVE  LastLaunched(q, a)
  <2>1. PICK i \in 1 .. Len(p) : p[i] = Launched(a) /\ \A j \in i+1 .. Len(p) : p[j] # Quit(a)
    BY <1>9 DEF LastLaunched
  <2>2. i+1 \in 1 .. Len(q) /\ q[i+1] = Launched(a)
    BY <1>1, <1>3, <2>1
  <2>3. ASSUME NEW j \in (i+1)+1 .. Len(q) PROVE q[j] # Quit(a)
    <3>1. j \in 2 .. Len(q) /\ j-1 \in i+1 .. Len(p)
      BY <1>1
    <3>2. QED  BY <1>2, <2>1, <3>1
  <2>4. QED  BY <2>2, <2>3 DEF LastLaunched
<1>10. ASSUME ~LastLaunched(q, a), Head(q) = Launched(a)
       PROVE  Quits(p, a)
  <2>1. PICK j \in 2 .. Len(q) : q[j] = Quit(a)
    <3>1. q[1] = Launched(a)
      BY <1>1, <1>10
    <3>2. \E j \in 1+1 .. Len(q) : q[j] = Quit(a)
      BY <1>4, <1>10, <3>1 DEF LastLaunched
    <3>3. QED  BY <3>2
  <2>2. QED  BY <1>2, <2>1 DEF Quits
<1>11. QED  BY <1>5, <1>6, <1>8, <1>9, <1>10

-----------------------------------------------------------------------------
(* The game that Steam shows has its listener, if no call fails            *)

\* An operator's goroutine is about to ask Steam to leave an app.
Leaving(t, a) ==
  \/ task[t].pc \in {"play.stop", "play.call"} /\ task[t].app # a
  \/ task[t].pc \in {"exit.stop", "exit.call"}

\* The listener of an app runs once the dispatcher has made its call.
Held(a) ==
  \/ dispatcher.pc = "start" /\ dispatcher.app = a
  \/ cancelAutoAck[a] /\ ~(dispatcher.pc = "stop" /\ dispatcher.app = a)

\* An app's listener runs or will be started, unless the app is about to be left.
Covered(a) ==
  \/ \E t \in Operators : Leaving(t, a)
  \/ LastLaunched(queue, a)
  \/ ~Quits(queue, a) /\ Held(a)

\* PlayGame stops the driver of an app only to play another.
StopsOther == \A t \in Operators : At(t, "play.stop") => task[t].old # task[t].app

CoverInv ==
  Serving =>
    /\ StopsOther
    /\ \A a \in Registered : steamApp = a => Covered(a)

\* Nobody who is about to leave the game that Steam keeps showing changes his mind.
LeavingKept ==
  \A t \in Operators : Leaving(t, steamApp) /\ steamApp' = steamApp => Leaving(t, steamApp)'

\* A move of Steam, or an event that says nothing of it, keeps the game covered.
LEMMA CoveredMoves ==
  ASSUME TypeOK, \A a \in Registered : steamApp = a => Covered(a), LeavingKept,
         UNCHANGED <<dispatcher, cancelAutoAck>>,
         Published(queue, steamApp, steamApp', queue')
  PROVE  \A a \in Registered : steamApp' = a => Covered(a)'
<1> SUFFICES ASSUME NEW a \in Registered, steamApp' = a
             PROVE  Covered(a)'
  OBVIOUS
<1>1. queue \in Seq(Events) /\ a \in Apps
  BY SessionAssumption DEF TypeOK
<1>2. /\ steamApp # a => LastLaunched(queue', a)
      /\ steamApp = a /\ LastLaunched(queue, a) => LastLaunched(queue', a)
      /\ steamApp = a /\ ~Quits(queue, a) => ~Quits(queue', a)
  BY <1>1, LaunchMoves
<1>3. CASE steamApp # a
  BY <1>2, <1>3 DEF Covered, LastLaunched
<1>4. CASE steamApp = a
  <2>1. Covered(a) /\ (Held(a) => Held(a)')
    BY <1>4 DEF Held
  <2>2. CASE \E t \in Operators : Leaving(t, a)
    BY <1>4, <2>2 DEF LeavingKept, Covered
  <2>3. CASE LastLaunched(queue, a)
    BY <1>2, <1>4, <2>3 DEF Covered, LastLaunched
  <2>4. CASE ~Quits(queue, a) /\ Held(a)
    <3>1. ~Quits(queue', a) /\ Held(a)'
      BY <1>2, <1>4, <2>1, <2>4
    <3>2. QED  BY <3>1 DEF Covered, Quits
  <2>5. QED  BY <2>1, <2>2, <2>3, <2>4 DEF Covered
<1>5. QED  BY <1>3, <1>4

\* So does a driver call that is not the stop of that game, or by one about to leave it.
LEMMA CoveredCalls ==
  ASSUME \A a \in Registered : steamApp = a => Covered(a), LeavingKept,
         UNCHANGED <<steamApp, queue>>,
         \A a \in Registered : Held(a) => Held(a)' \/ \E t \in Operators : Leaving(t, a)'
  PROVE  \A a \in Registered : steamApp' = a => Covered(a)'
<1> SUFFICES ASSUME NEW a \in Registered, steamApp' = a
             PROVE  Covered(a)'
  OBVIOUS
<1>1. steamApp = a /\ Covered(a)
  OBVIOUS
<1>2. CASE \E t \in Operators : Leaving(t, a)
  BY <1>1, <1>2 DEF LeavingKept, Covered
<1>3. CASE LastLaunched(queue, a)
  BY <1>3 DEF Covered, LastLaunched
<1>4. CASE ~Quits(queue, a) /\ Held(a)
  BY <1>4 DEF Covered, Quits
<1>5. QED  BY <1>1, <1>2, <1>3, <1>4 DEF Covered

\* The dispatcher, which makes one call at a time, takes an event and makes its call later.
LEMMA CoveredPops ==
  ASSUME TypeOK, \A a \in Registered : steamApp = a => Covered(a), LeavingKept,
         UNCHANGED <<steamApp, cancelAutoAck>>,
         dispatcher.pc = "idle", queue # << >>, queue' = Tail(queue),
         Head(queue).kind = "AppLaunched" =>
           dispatcher'.pc = "start" /\ dispatcher'.app = Head(queue).app,
         dispatcher'.pc = "stop" => Head(queue) = Quit(dispatcher'.app)
  PROVE  \A a \in Registered : steamApp' = a => Covered(a)'
<1> SUFFICES ASSUME NEW a \in Registered, steamApp' = a
             PROVE  Covered(a)'
  OBVIOUS
<1>1. steamApp = a /\ Covered(a) /\ queue \in Seq(Events)
  BY DEF TypeOK
<1>2. /\ LastLaunched(queue, a) => \/ LastLaunched(queue', a)
                                   \/ Head(queue) = Launched(a) /\ ~Quits(queue', a)
      /\ ~Quits(queue, a) => ~Quits(queue', a) /\ Head(queue) # Quit(a)
  BY <1>1, LaunchPops
<1>3. CASE \E t \in Operators : Leaving(t, a)
  BY <1>1, <1>3 DEF LeavingKept, Covered
<1>4. CASE LastLaunched(queue, a)
  <2>1. CASE LastLaunched(queue', a)
    BY <2>1 DEF Covered, LastLaunched
  <2>2. CASE Head(queue) = Launched(a) /\ ~Quits(queue', a)
    <3>1. Held(a)'
      BY <2>2 DEF Held, Launched
    <3>2. QED  BY <2>2, <3>1 DEF Covered, Quits
  <2>3. QED  BY <1>2, <1>4, <2>1, <2>2
<1>5. CASE ~Quits(queue, a) /\ Held(a)
  <2>1. cancelAutoAck'[a]
    BY <1>5 DEF Held
  <2>2. ~(dispatcher'.pc = "stop" /\ dispatcher'.app = a)
    BY <1>2, <1>5
  <2>3. ~Quits(queue', a) /\ Held(a)'
    BY <1>2, <1>5, <2>1, <2>2 DEF Held
  <2>4. QED  BY <2>3 DEF Covered, Quits
<1>6. QED  BY <1>1, <1>3, <1>4, <1>5 DEF Covered

\* What the driver calls do to the handles.
LEMMA HandlesMove ==
  ASSUME TypeOK, NEW a
  PROVE  /\ OnStartGC(a) => \A b \in Registered : cancelAutoAck'[b] = (cancelAutoAck[b] \/ b = a)
         /\ OnStopGC(a) => \A b \in Registered : cancelAutoAck'[b] = (cancelAutoAck[b] /\ b # a)
<1>1. cancelAutoAck \in [Registered -> BOOLEAN]
  BY DEF TypeOK
<1>2. ASSUME OnStartGC(a), NEW b \in Registered
      PROVE  cancelAutoAck'[b] = (cancelAutoAck[b] \/ b = a)
  <2>1. CASE a \in Registered /\ ~cancelAutoAck[a]
    <3>1. cancelAutoAck' = [cancelAutoAck EXCEPT ![a] = TRUE]
      BY <1>2, <2>1 DEF OnStartGC
    <3>2. QED  BY <1>1, <1>2, <3>1
  <2>2. CASE ~(a \in Registered /\ ~cancelAutoAck[a])
    <3>1. cancelAutoAck' = cancelAutoAck
      BY <1>2, <2>2 DEF OnStartGC, driverVars
    <3>2. QED  BY <1>1, <1>2, <2>2, <3>1
  <2>3. QED  BY <2>1, <2>2
<1>3. ASSUME OnStopGC(a), NEW b \in Registered
      PROVE  cancelAutoAck'[b] = (cancelAutoAck[b] /\ b # a)
  <2>1. CASE a \in Registered /\ cancelAutoAck[a]
    <3>1. cancelAutoAck' = [cancelAutoAck EXCEPT ![a] = FALSE]
      BY <1>3, <2>1 DEF OnStopGC
    <3>2. QED  BY <1>1, <1>3, <3>1
  <2>2. CASE ~(a \in Registered /\ cancelAutoAck[a])
    <3>1. cancelAutoAck' = cancelAutoAck
      BY <1>3, <2>2 DEF OnStopGC, driverVars
    <3>2. QED  BY <1>1, <1>3, <2>2, <3>1
  <2>3. QED  BY <2>1, <2>2
<1>4. QED  BY <1>2, <1>3

\* Without faults, every step of a serving daemon keeps the game covered.
LEMMA CoverStep ==
  ASSUME TypeOK, CoverInv, Faults = {}, [Next]_vars
  PROVE  CoverInv'
<1> DEFINE Goal == StopsOther' /\ \A a \in Registered : steamApp' = a => Covered(a)'
<1> SUFFICES ASSUME Serving' PROVE Goal
  BY DEF CoverInv
<1>a. TaskOK /\ queue \in Seq(Events) /\ steamApp \in AppOrNone
  BY DEF TypeOK
<1>b. Operators \subseteq Tasks /\ Resumers \subseteq Tasks /\ Main \in Tasks
  BY DEF Tasks
<1>c. \A t \in Operators \cup Resumers : t # Main
  BY SessionAssumption
<1>d. ASSUME NEW t \in Operators \cup Resumers, NEW pc, NEW a, NEW o, Enter(t, pc, a, o)
      PROVE  Serving
  BY <1>a, <1>b, <1>c, <1>d, EnterOthers DEF Serving, At
<1>e. ASSUME UNCHANGED task
      PROVE  Serving /\ LeavingKept /\ (StopsOther => StopsOther')
  BY <1>e DEF Serving, At, Leaving, LeavingKept, StopsOther
<1>f. Serving => StopsOther /\ \A a \in Registered : steamApp = a => Covered(a)
  BY DEF CoverInv
<1>g. ASSUME NEW t \in Operators, NEW pc, NEW a, NEW o, Enter(t, pc, a, o),
             pc = "play.stop" => o # a,
             Leaving(t, steamApp) /\ steamApp' = steamApp =>
               \/ pc \in {"play.stop", "play.call"} /\ a # steamApp
               \/ pc \in {"exit.stop", "exit.call"}
      PROVE  Serving /\ LeavingKept /\ StopsOther'
  <2>1. /\ task'[t] = [pc |-> pc, app |-> a, old |-> o]
        /\ \A u \in Operators : u # t => task'[u] = task[u]
    BY <1>a, <1>b, <1>g, EnterOthers
  <2>2. Serving /\ StopsOther
    BY <1>d, <1>f, <1>g
  <2>3. LeavingKept
    BY <1>g, <2>1 DEF Leaving, LeavingKept
  <2>4. StopsOther'
    BY <1>g, <2>1, <2>2 DEF StopsOther, At
  <2>5. QED  BY <2>2, <2>3, <2>4
<1>h. ASSUME NEW t \in Resumers, NEW pc, NEW a, NEW o, Enter(t, pc, a, o)
      PROVE  Serving /\ LeavingKept /\ StopsOther'
  <2>1. \A u \in Operators : u # t /\ task'[u] = task[u]
    BY <1>a, <1>b, <1>h, SessionAssumption, EnterOthers
  <2>2. Serving /\ StopsOther
    BY <1>d, <1>f, <1>h
  <2>3. QED  BY <2>1, <2>2 DEF Leaving, LeavingKept, StopsOther, At
<1>i. ASSUME Serving, LeavingKept, StopsOther', UNCHANGED <<dispatcher, driverVars>>,
             \/ \E a \in AppOrNone : SteamPlays(a)
             \/ Relogon
             \/ LoadBackpack
             \/ UNCHANGED steamVars
      PROVE  Goal
  <2>1. CASE UNCHANGED steamVars
    <3>1. \A a \in Registered : Held(a) => Held(a)'
      BY <1>i DEF Held, driverVars
    <3>2. UNCHANGED <<steamApp, queue>>
      BY <2>1 DEF steamVars
    <3>3. QED  BY <1>f, <1>i, <3>1, <3>2, CoveredCalls
  <2>2. CASE ~UNCHANGED steamVars
    <3>1. Published(queue, steamApp, steamApp', queue')
      BY <1>i, <2>2, StepPublished
    <3>2. UNCHANGED <<dispatcher, cancelAutoAck>>
      BY <1>i DEF driverVars
    <3>3. QED  BY <1>f, <1>i, <3>1, <3>2, CoveredMoves
  <2>3. QED  BY <2>1, <2>2
<1>j. ASSUME Serving, LeavingKept, StopsOther', UNCHANGED <<dispatcher, steamVars>>,
             NEW a, OnStartGC(a)
      PROVE  Goal
  <2>1. \A b \in Registered : Held(b) => Held(b)'
    BY <1>j, HandlesMove DEF Held
  <2>2. QED  BY <1>f, <1>j, <2>1, CoveredCalls DEF steamVars
<1>k. ASSUME NEW pc, NEW a, NEW o, Enter(Main, pc, a, o), pc # "idle"
      PROVE  Goal
  <2>1. task'[Main] = [pc |-> pc, app |-> a, old |-> o]
    BY <1>a, <1>b, <1>k, EnterOthers
  <2>2. QED  BY <1>k, <2>1 DEF Serving, At
<1>l. \A t \in Tasks : task[t].app \in AppOrNone
  BY <1>a DEF TaskOK
<1>1. ASSUME NEW t \in Operators, \E a \in Apps : PlayGame(t, a) PROVE Goal
  <2>1. PICK a \in Apps : PlayGame(t, a)
    BY <1>1
  <2>2. PICK pc \in {"play.stop", "play.call"} :
          Enter(t, pc, a, currentAppID) /\ (pc = "play.stop" => currentAppID # a)
    BY <2>1 DEF PlayGame
  <2>3. ~Leaving(t, steamApp)
    BY <2>1 DEF PlayGame, AcceptRPC, At, Leaving
  <2>4. Serving /\ LeavingKept /\ StopsOther'
    BY <1>g, <2>2, <2>3
  <2>5. QED  BY <1>i, <2>1, <2>4 DEF PlayGame
<1>2. ASSUME NEW t \in Operators, ExitGame(t) PROVE Goal
  <2>1. PICK pc, o : pc \in {"idle", "exit.stop"} /\ Enter(t, pc, NoApp, o)
    BY <1>2 DEF ExitGame
  <2>2. ~Leaving(t, steamApp)
    BY <1>2 DEF ExitGame, AcceptRPC, At, Leaving
  <2>3. Serving /\ LeavingKept /\ StopsOther'
    BY <1>g, <2>1, <2>2
  <2>4. QED  BY <1>2, <1>i, <2>3 DEF ExitGame
<1>3. ASSUME NEW t \in Operators, PlayStopOld(t) PROVE Goal
  <2>1. /\ Enter(t, "play.call", task[t].app, task[t].old) /\ At(t, "play.stop")
        /\ OnStopGC(task[t].old) /\ UNCHANGED <<dispatcher, steamApp, queue>>
    BY <1>3 DEF PlayStopOld, Goto, steamVars
  <2>2. Serving /\ LeavingKept /\ StopsOther'
    <3>1. Leaving(t, steamApp) => task[t].app # steamApp
      BY <2>1 DEF Leaving, At
    <3>2. QED  BY <1>g, <2>1, <3>1
  <2>3. task[t].old # task[t].app
    BY <1>f, <2>1, <2>2 DEF StopsOther
  <2>4. ASSUME NEW a \in Registered, Held(a)
        PROVE  Held(a)' \/ \E u \in Operators : Leaving(u, a)'
    <3>1. CASE task[t].old = a
      <4>1. t \in Tasks
        BY <1>b
      <4>2. task'[t] = [pc |-> "play.call", app |-> task[t].app, old |-> task[t].old]
        BY <1>a, <2>1, <4>1, EnterOthers
      <4>3. QED  BY <2>3, <3>1, <4>2 DEF Leaving
    <3>2. CASE task[t].old # a
      BY <2>1, <2>4, <3>2, HandlesMove DEF Held
    <3>3. QED  BY <3>1, <3>2
  <2>5. QED  BY <1>f, <2>1, <2>2, <2>4, CoveredCalls
<1>4. ASSUME NEW t \in Operators, PlayCall(t) PROVE Goal
  <2>1. /\ SteamPlays(task[t].app) /\ Enter(t, "play.start", task[t].app, task[t].old)
        /\ At(t, "play.call") /\ UNCHANGED <<dispatcher, driverVars>>
    BY <1>4 DEF PlayCall, Goto
  <2>2. steamApp' = steamApp => ~Leaving(t, steamApp)
    BY <2>1 DEF SteamPlays, Leaving, At
  <2>3. Serving /\ LeavingKept /\ StopsOther'
    BY <1>g, <2>1, <2>2
  <2>4. QED  BY <1>b, <1>i, <1>l, <2>1, <2>3
<1>5. ASSUME NEW t \in Operators, PlayRollback(t) PROVE Goal
  <2>1. ~Leaving(t, steamApp) /\ Enter(t, "idle", NoApp, NoApp)
    BY <1>5 DEF PlayRollback, Return, Leaving, At
  <2>2. Serving /\ LeavingKept /\ StopsOther'
    BY <1>g, <2>1
  <2>3. QED  BY <1>5, <1>i, <2>2 DEF PlayRollback
<1>6. ASSUME NEW t \in Operators, PlayStart(t) PROVE Goal
  <2>1. ~Leaving(t, steamApp) /\ Enter(t, "idle", NoApp, NoApp)
    BY <1>6 DEF PlayStart, Return, Leaving, At
  <2>2. Serving /\ LeavingKept /\ StopsOther'
    BY <1>g, <2>1
  <2>3. QED  BY <1>6, <1>j, <2>2 DEF PlayStart
<1>7. ASSUME NEW t \in Operators, ExitStop(t) PROVE Goal
  <2>1. /\ Enter(t, "exit.call", task[t].app, task[t].old)
        /\ OnStopGC(task[t].old) /\ UNCHANGED <<dispatcher, steamApp, queue>>
    BY <1>7 DEF ExitStop, Goto, steamVars
  <2>2. Serving /\ LeavingKept /\ StopsOther'
    BY <1>g, <2>1
  <2>3. \A a \in Registered : Leaving(t, a)'
    <3>1. t \in Tasks
      BY <1>b
    <3>2. task'[t] = [pc |-> "exit.call", app |-> task[t].app, old |-> task[t].old]
      BY <1>a, <2>1, <3>1, EnterOthers
    <3>3. QED  BY <3>2 DEF Leaving
  <2>4. QED  BY <1>f, <2>1, <2>2, <2>3, CoveredCalls
<1>8. ASSUME NEW t \in Operators, ExitCall(t) PROVE Goal
  <2>1. SteamPlays(NoApp) /\ Enter(t, "idle", NoApp, NoApp)
    BY <1>8 DEF ExitCall, Return
  <2>2. StopsOther'
    <3>1. /\ task'[t] = [pc |-> "idle", app |-> NoApp, old |-> NoApp]
          /\ \A u \in Operators : u # t => task'[u] = task[u]
      BY <1>a, <1>b, <2>1, EnterOthers
    <3>2. StopsOther
      BY <1>d, <1>f, <2>1
    <3>3. QED  BY <3>1, <3>2 DEF StopsOther, At
  <2>3. \A a \in Registered : steamApp' # a
    BY <2>1, SessionAssumption DEF SteamPlays
  <2>4. QED  BY <2>2, <2>3
<1>9. ASSUME NEW t \in Resumers, ResumeSet(t) PROVE Goal
  <2>1. Serving /\ LeavingKept /\ StopsOther'
    BY <1>9, <1>h DEF ResumeSet, Goto
  <2>2. QED  BY <1>9, <1>i, <2>1 DEF ResumeSet
<1>10. ASSUME NEW t \in Resumers, ResumeCall(t) PROVE Goal
  <2>1. Serving /\ LeavingKept /\ StopsOther'
    BY <1>10, <1>h DEF ResumeCall, Goto
  <2>2. SteamPlays(task[t].app) /\ UNCHANGED <<dispatcher, driverVars>>
    BY <1>10, <2>1 DEF ResumeCall
  <2>3. QED  BY <1>b, <1>i, <1>l, <2>1, <2>2
<1>11. ASSUME NEW t \in Resumers, ResumeReset(t) PROVE Goal
  <2>1. Serving /\ LeavingKept /\ StopsOther'
    BY <1>11, <1>h DEF ResumeReset, Return
  <2>2. QED  BY <1>11, <1>i, <2>1 DEF ResumeReset
<1>12. ASSUME NEW t \in Resumers, ResumeStart(t) PROVE Goal
  <2>1. Serving /\ LeavingKept /\ StopsOther'
    BY <1>12, <1>h DEF ResumeStart, Return
  <2>2. QED  BY <1>12, <1>j, <2>1 DEF ResumeStart
<1>13. ASSUME NEW kind, Dispatching(kind), Serving, LeavingKept, StopsOther',
              kind = "AppLaunched" =>
                dispatcher'.pc = "start" /\ dispatcher'.app = Head(queue).app,
              dispatcher'.pc = "stop" => kind = "AppQuit" /\ dispatcher'.app = Head(queue).app
       PROVE  Goal
  <2>1. /\ dispatcher.pc = "idle" /\ queue # << >> /\ queue' = Tail(queue)
        /\ Head(queue).kind = kind /\ UNCHANGED <<steamApp, cancelAutoAck>>
    BY <1>13 DEF Dispatching, driverVars
  <2>2. Head(queue) \in Events
    BY <1>a, <2>1
  <2>3. dispatcher'.pc = "stop" => Head(queue) = Quit(dispatcher'.app)
    BY <1>13, <2>1, <2>2 DEF Events, Quit
  <2>4. QED  BY <1>f, <1>13, <2>1, <2>3, CoveredPops
<1>14. CASE OnAppLaunched
  <2>1. Serving /\ LeavingKept /\ StopsOther'
    BY <1>14, <1>e, <1>f DEF OnAppLaunched
  <2>2. QED  BY <1>13, <1>14, <2>1 DEF OnAppLaunched
<1>15. CASE OnAppQuit
  <2>1. Serving /\ LeavingKept /\ StopsOther'
    BY <1>15, <1>e, <1>f DEF OnAppQuit
  <2>2. QED  BY <1>13, <1>15, <2>1 DEF OnAppQuit
<1>16. CASE HandleBackpackLoaded
  <2>1. Serving /\ LeavingKept /\ StopsOther'
    BY <1>16, <1>e, <1>f DEF HandleBackpackLoaded
  <2>2. QED  BY <1>13, <1>16, <2>1 DEF HandleBackpackLoaded
<1>17. CASE HandleLoggedOn
  <2>1. Serving /\ LeavingKept /\ StopsOther'
    <3>1. CASE UNCHANGED task
      BY <1>e, <1>f, <3>1
    <3>2. CASE ~UNCHANGED task
      <4>1. PICK r \in Resumers : Enter(r, "resume.set", desiredAppID, NoApp)
        BY <1>17, <3>2 DEF HandleLoggedOn
      <4>2. QED  BY <1>h, <4>1
    <3>3. QED  BY <3>1, <3>2
  <2>2. Dispatching("LoggedOn") /\ dispatcher' = dispatcher
    BY <1>17 DEF HandleLoggedOn
  <2>3. dispatcher'.pc = "idle"
    BY <2>2 DEF Dispatching
  <2>4. QED  BY <1>13, <2>1, <2>2, <2>3
<1>18. CASE DispatcherDriverCall
  <2>1. Serving /\ LeavingKept /\ StopsOther' /\ UNCHANGED <<steamApp, queue>>
    BY <1>18, <1>e, <1>f DEF DispatcherDriverCall, steamVars
  <2>2. dispatcher'.pc = "idle"
    BY <1>18 DEF DispatcherDriverCall
  <2>3. ASSUME NEW a \in Registered, Held(a) PROVE Held(a)'
    <3>1. CASE dispatcher.pc = "start" /\ OnStartGC(dispatcher.app)
      BY <2>2, <2>3, <3>1, HandlesMove DEF Held
    <3>2. CASE dispatcher.pc = "stop" /\ OnStopGC(dispatcher.app)
      BY <2>2, <2>3, <3>2, HandlesMove DEF Held
    <3>3. QED  BY <1>18, <3>1, <3>2 DEF DispatcherDriverCall
  <2>4. QED  BY <1>f, <2>1, <2>3, CoveredCalls
<1>19. CASE DispatcherReturn
  BY <1>19, <1>e DEF DispatcherReturn
<1>20. CASE Shutdown
  BY <1>20, <1>k DEF Shutdown, Goto
<1>21. CASE MainStep
  <2>1. CASE Close
    BY <1>k, <2>1 DEF Close
  <2>2. CASE CloseStop
    BY <1>k, <2>2 DEF CloseStop, Goto
  <2>3. CASE CloseCall
    BY <1>k, <2>3 DEF CloseCall, Goto
  <2>4. CASE CloseUnsubscribe
    BY <1>k, <2>4 DEF CloseUnsubscribe, Goto
  <2>5. CASE CloseClient
    BY <1>k, <2>5 DEF CloseClient, Goto
  <2>6. QED  BY <1>21, <2>1, <2>2, <2>3, <2>4, <2>5 DEF MainStep
<1>22. CASE Environment
  <2>1. UNCHANGED <<task, dispatcher, driverVars>>
    BY <1>22 DEF Environment, Launch, QuitGame, Relogon, LoadBackpack, External, driverVars
  <2>2. Serving /\ LeavingKept /\ StopsOther'
    BY <1>e, <1>f, <2>1
  <2>3. \/ \E a \in AppOrNone : SteamPlays(a)
        \/ Relogon
        \/ LoadBackpack
    BY <1>22 DEF Environment, Launch, QuitGame, AppOrNone
  <2>4. QED  BY <1>i, <2>1, <2>2, <2>3
<1>23. CASE UNCHANGED vars
  <2>1. Serving /\ LeavingKept /\ StopsOther' /\ UNCHANGED <<dispatcher, driverVars, steamVars>>
    BY <1>23, <1>e, <1>f DEF vars
  <2>2. QED  BY <1>i, <2>1
<1>24. QED
  BY <1>1, <1>2, <1>3, <1>4, <1>5, <1>6, <1>7, <1>8, <1>9, <1>10, <1>11, <1>12, <1>14,
     <1>15, <1>16, <1>17, <1>18, <1>19, <1>20, <1>21, <1>22, <1>23
  DEF Next, Request, OperatorStep, ResumerStep, Dispatch

\* If no call to the apps module fails, then once every request and event has been
\* handled the driver of the game that Steam shows has its listener, whichever of the
\* handlers, the resume goroutines and the dispatcher made the last call.
THEOREM SessionAckCoversPlay ==
  ASSUME Faults = {}
  PROVE  Spec => []AckCoversPlay
<1>1. Init => (TypeOK /\ AckExclusive) /\ CoverInv
  <2> SUFFICES ASSUME Init PROVE (TypeOK /\ AckExclusive) /\ CoverInv
    OBVIOUS
  <2>1. TypeOK /\ AckExclusive
    BY SessionAssumption
    DEF Init, TypeOK, TaskOK, AckExclusive, AppOrNone, Tasks, TaskPC, OperatorPC, ResumerPC, MainPC
  <2>2. \A a \in Registered : steamApp # a
    BY SessionAssumption DEF Init
  <2>3. StopsOther
    BY DEF Init, StopsOther, At, Tasks
  <2>4. QED  BY <2>1, <2>2, <2>3 DEF CoverInv
<1>2. (TypeOK /\ AckExclusive) /\ [Next]_vars => (TypeOK /\ AckExclusive)'
  BY TypeStep
<1>3. TypeOK /\ CoverInv /\ [Next]_vars => CoverInv'
  BY CoverStep
<1>4. CoverInv => AckCoversPlay
  <2> SUFFICES ASSUME CoverInv, Quiescent, steamApp \in Registered
               PROVE  cancelAutoAck[steamApp]
    BY DEF AckCoversPlay
  <2>1. Covered(steamApp)
    BY DEF CoverInv, Quiescent, Serving, Tasks
  <2>2. \A t \in Operators : ~Leaving(t, steamApp)
    BY DEF Quiescent, At, Leaving, Tasks
  <2>3. ~LastLaunched(queue, steamApp)
    BY DEF Quiescent, LastLaunched
  <2>4. QED  BY <2>1, <2>2, <2>3 DEF Covered, Held, Quiescent
<1>5. QED  BY <1>1, <1>2, <1>3, <1>4, PTL DEF Spec

-----------------------------------------------------------------------------
(* An operator who waits for each answer leaves no listener behind         *)

OnlyPresence ==
  \A i \in 1 .. Len(queue) : queue[i].kind \in {"AppLaunched", "AppQuit"}

OneAtATime ==
  /\ \A t \in Resumers : At(t, "idle")
  /\ \A t, u \in Operators : ~At(t, "idle") /\ ~At(u, "idle") => t = u

\* PlayGame starts the driver of the game that Steam shows.
StartsShown == \A t \in Operators : At(t, "play.start") => steamApp = task[t].app

\* The dispatcher will stop the driver of an app, if it runs or is being started, and
\* will not start it again.
Over(a) ==
  /\ ~LastLaunched(queue, a)
  /\ cancelAutoAck[a] \/ (dispatcher.pc = "start" /\ dispatcher.app = a) =>
       Quits(queue, a) \/ (dispatcher.pc = "stop" /\ dispatcher.app = a)

OthersOver == \A a \in Registered : a # steamApp => Over(a)

AloneInv ==
  alone /\ Serving => OnlyPresence /\ OneAtATime /\ StartsShown /\ OthersOver

\* A move of Steam publishes nothing else.
LEMMA PresenceOnly ==
  ASSUME TypeOK, OnlyPresence, NEW a \in AppOrNone, SteamPlays(a)
  PROVE  OnlyPresence'
<1>1. /\ queue \in Seq(Events)
      /\ steamApp \in AppOrNone
  BY DEF TypeOK
<1> DEFINE pe == PresenceEvents(steamApp, a)
<1>2. pe \in Seq(Events) /\ queue' = queue \o pe
  BY <1>1, PresenceEventsType DEF SteamPlays
<1>3. \A i \in 1 .. Len(pe) : pe[i].kind \in {"AppLaunched", "AppQuit"}
  <2>1. Launched(a).kind = "AppLaunched" /\ Quit(steamApp).kind = "AppQuit"
    BY DEF Launched, Quit
  <2>2. Launched(a) \in Events /\ Quit(steamApp) \in Events
    BY <1>1 DEF Events, EventKinds, Launched, Quit
  <2>3. ASSUME NEW r \in {<< >>, <<Quit(steamApp)>>}, NEW s \in {<< >>, <<Launched(a)>>}
        PROVE  \A i \in 1 .. Len(r \o s) : (r \o s)[i].kind \in {"AppLaunched", "AppQuit"}
    BY <2>1, <2>2
  <2>4. CASE steamApp = a
    BY <2>4 DEF PresenceEvents
  <2>5. CASE steamApp # a
    BY <2>3, <2>5 DEF PresenceEvents
  <2>6. QED  BY <2>4, <2>5
<1> HIDE DEF pe
<1>4. ASSUME NEW i \in 1 .. Len(queue')
      PROVE  queue'[i].kind \in {"AppLaunched", "AppQuit"}
  <2>1. CASE i \in 1 .. Len(queue)
    BY <1>1, <1>2, <2>1 DEF OnlyPresence
  <2>2. CASE i \notin 1 .. Len(queue)
    <3>1. i - Len(queue) \in 1 .. Len(pe) /\ queue'[i] = pe[i - Len(queue)]
      BY <1>1, <1>2, <1>4, <2>2
    <3>2. QED  BY <1>3, <3>1
  <2>3. QED  BY <2>1, <2>2
<1>5. QED  BY <1>4 DEF OnlyPresence

\* Steam leaving an app tells the dispatcher that it is over.
LEMMA OverMoves ==
  ASSUME TypeOK, OthersOver, UNCHANGED <<dispatcher, cancelAutoAck>>,
         Published(queue, steamApp, steamApp', queue')
  PROVE  OthersOver'
<1> SUFFICES ASSUME NEW a \in Registered, a # steamApp'
             PROVE  Over(a)'
  BY DEF OthersOver
<1>1. queue \in Seq(Events) /\ a \in Apps
  BY SessionAssumption DEF TypeOK
<1>2. /\ steamApp = a \/ ~LastLaunched(queue, a) => ~LastLaunched(queue', a)
      /\ Quits(queue, a) => Quits(queue', a)
      /\ steamApp = a => Quits(queue', a)
  BY <1>1, LaunchMoves
<1>3. CASE steamApp = a
  <2>1. ~LastLaunched(queue', a) /\ Quits(queue', a)
    BY <1>2, <1>3
  <2>2. QED  BY <2>1 DEF Over, LastLaunched, Quits
<1>4. CASE steamApp # a
  <2>1. Over(a)
    BY <1>4 DEF OthersOver
  <2>2. ~LastLaunched(queue', a) /\ (Quits(queue, a) => Quits(queue', a))
    BY <1>2, <2>1 DEF Over
  <2>3. QED  BY <2>1, <2>2 DEF Over, LastLaunched, Quits
<1>5. QED  BY <1>3, <1>4

\* The dispatcher starts an app that is over only if its quit is still to be handled.
LEMMA OverPops ==
  ASSUME TypeOK, OthersOver, UNCHANGED <<steamApp, cancelAutoAck>>,
         dispatcher.pc = "idle", queue # << >>, queue' = Tail(queue),
         \/ dispatcher'.pc = "start" /\ Head(queue) = Launched(dispatcher'.app)
         \/ dispatcher'.pc = "stop" /\ Head(queue) = Quit(dispatcher'.app)
  PROVE  OthersOver'
<1> SUFFICES ASSUME NEW a \in Registered, a # steamApp
             PROVE  Over(a)'
  BY DEF OthersOver
<1>1. Over(a) /\ queue \in Seq(Events)
  BY DEF OthersOver, TypeOK
<1>2. /\ ~LastLaunched(queue, a) => ~LastLaunched(queue', a)
      /\ ~LastLaunched(queue, a) /\ Head(queue) = Launched(a) => Quits(queue', a)
      /\ Quits(queue, a) => Quits(queue', a) \/ Head(queue) = Quit(a)
  BY <1>1, LaunchPops
<1>3. ~LastLaunched(queue', a)
  BY <1>1, <1>2 DEF Over
<1>4. ASSUME cancelAutoAck[a]
      PROVE  Quits(queue', a) \/ (dispatcher'.pc = "stop" /\ dispatcher'.app = a)
  <2>1. Quits(queue, a)
    BY <1>1, <1>4 DEF Over
  <2>2. CASE Head(queue) = Quit(a)
    BY <2>2 DEF Quit, Launched
  <2>3. QED  BY <1>2, <2>1, <2>2
<1>5. ASSUME dispatcher'.pc = "start", dispatcher'.app = a
      PROVE  Quits(queue', a)
  BY <1>1, <1>2, <1>5 DEF Over
<1>6. QED  BY <1>3, <1>4, <1>5 DEF Over, LastLaunched, Quits

\* The inductive step: nothing but one operator's request is at work.
LEMMA AloneStep ==
  ASSUME TypeOK, AloneInv, [Next]_vars
  PROVE  AloneInv'
<1> DEFINE Goal == OnlyPresence' /\ OneAtATime' /\ StartsShown' /\ OthersOver'
<1> SUFFICES ASSUME alone', Serving' PROVE Goal
  BY DEF AloneInv
<1>a. TaskOK /\ queue \in Seq(Events) /\ steamApp \in AppOrNone
  BY DEF TypeOK
<1>b. Operators \subseteq Tasks /\ Resumers \subseteq Tasks /\ Main \in Tasks
  BY DEF Tasks
<1>c. \A t \in Operators \cup Resumers : t # Main
  BY SessionAssumption
<1>d. ASSUME NEW t \in Operators \cup Resumers, NEW pc, NEW a, NEW o, Enter(t, pc, a, o)
      PROVE  Serving
  BY <1>a, <1>b, <1>c, <1>d, EnterOthers DEF Serving, At
<1>e. alone /\ Serving => OnlyPresence /\ OneAtATime /\ StartsShown /\ OthersOver
  BY DEF AloneInv
<1>f. ASSUME UNCHANGED task
      PROVE  /\ Serving
             /\ OneAtATime => OneAtATime'
             /\ StartsShown /\ UNCHANGED steamApp => StartsShown'
  BY <1>f DEF Serving, At, OneAtATime, StartsShown
<1>g. ASSUME NEW t \in Operators, NEW pc, NEW a, NEW o, Enter(t, pc, a, o), alone,
             ~At(t, "idle") \/ \A u \in Operators : At(u, "idle"),
             pc = "play.start" => steamApp' = a
      PROVE  /\ OnlyPresence /\ OneAtATime /\ StartsShown /\ OthersOver
             /\ OneAtATime' /\ StartsShown'
  <2>1. /\ task'[t] = [pc |-> pc, app |-> a, old |-> o]
        /\ \A u \in Tasks : u # t => task'[u] = task[u]
    <3>1. t \in Tasks
      BY <1>b
    <3>2. QED  BY <1>a, <1>g, <3>1, EnterOthers
  <2>2. OnlyPresence /\ OneAtATime /\ StartsShown /\ OthersOver
    BY <1>d, <1>e, <1>g
  <2>3. \A u \in Operators : u # t => At(u, "idle")
    BY <1>g, <2>2 DEF OneAtATime
  <2>4. \A u \in Operators : u # t => task'[u].pc = "idle"
    BY <1>b, <2>1, <2>3 DEF At
  <2>5. OneAtATime'
    <3>1. \A r \in Resumers : task'[r].pc = "idle"
      BY <1>b, <2>1, <2>2, SessionAssumption DEF OneAtATime, At
    <3>2. QED  BY <2>4, <3>1 DEF OneAtATime, At
  <2>6. StartsShown'
    <3>1. ASSUME NEW u \in Operators, task'[u].pc = "play.start"
          PROVE  steamApp' = task'[u].app
      <4>1. u = t
        BY <2>4, <3>1
      <4>2. QED  BY <1>g, <2>1, <3>1, <4>1
    <3>2. QED  BY <3>1 DEF StartsShown, At
  <2>7. QED  BY <2>2, <2>5, <2>6
<1>h. ASSUME OnlyPresence, OthersOver, UNCHANGED <<dispatcher, driverVars, steamVars>>
      PROVE  OnlyPresence' /\ OthersOver'
  BY <1>h DEF OnlyPresence, OthersOver, Over, LastLaunched, Quits, driverVars, steamVars
<1>i. ASSUME OnlyPresence, OthersOver, UNCHANGED <<dispatcher, driverVars>>,
             NEW a \in AppOrNone, SteamPlays(a)
      PROVE  OnlyPresence' /\ OthersOver'
  <2>1. Published(queue, steamApp, steamApp', queue')
    BY <1>i, StepPublished
  <2>2. OthersOver'
    BY <1>i, <2>1, OverMoves DEF driverVars
  <2>3. QED  BY <1>i, <2>2, PresenceOnly
<1>j. ASSUME OnlyPresence, OthersOver, UNCHANGED <<dispatcher, steamVars>>,
             \/ OnStartGC(steamApp)
             \/ \E a : OnStopGC(a)
      PROVE  OnlyPresence' /\ OthersOver'
  <2>1. \A b \in Registered : b # steamApp /\ cancelAutoAck'[b] => cancelAutoAck[b]
    BY <1>j, HandlesMove
  <2>2. \A b \in Registered : b # steamApp => Over(b)'
    BY <1>j, <2>1 DEF OthersOver, Over, LastLaunched, Quits, steamVars
  <2>3. QED  BY <1>j, <2>2 DEF OnlyPresence, OthersOver, steamVars
<1>k. ASSUME NEW pc, NEW a, NEW o, Enter(Main, pc, a, o), pc # "idle"
      PROVE  FALSE
  <2>1. task'[Main] = [pc |-> pc, app |-> a, old |-> o]
    BY <1>a, <1>b, <1>k, EnterOthers
  <2>2. QED  BY <1>k, <2>1 DEF Serving, At
<1>l. \A t \in Tasks : task[t].app \in AppOrNone
  BY <1>a DEF TaskOK
<1>m. ASSUME NEW t, AcceptRPC(t)
      PROVE  alone /\ \A u \in Operators : At(u, "idle")
  BY <1>m DEF AcceptRPC
<1>n. NoApp \in AppOrNone
  BY DEF AppOrNone
<1>1. ASSUME NEW t \in Operators, \E a \in Apps : PlayGame(t, a) PROVE Goal
  <2>1. PICK a \in Apps : PlayGame(t, a)
    BY <1>1
  <2>2. PICK pc \in {"play.stop", "play.call"} : Enter(t, pc, a, currentAppID)
    BY <2>1 DEF PlayGame
  <2>3. OnlyPresence /\ OthersOver /\ OneAtATime' /\ StartsShown'
    BY <1>g, <1>m, <2>1, <2>2 DEF PlayGame
  <2>4. QED  BY <1>h, <2>1, <2>3 DEF PlayGame
<1>2. ASSUME NEW t \in Operators, ExitGame(t) PROVE Goal
  <2>1. PICK pc, o : pc \in {"idle", "exit.stop"} /\ Enter(t, pc, NoApp, o)
    BY <1>2 DEF ExitGame
  <2>2. OnlyPresence /\ OthersOver /\ OneAtATime' /\ StartsShown'
    BY <1>2, <1>g, <1>m, <2>1 DEF ExitGame
  <2>3. QED  BY <1>2, <1>h, <2>2 DEF ExitGame
<1>3. ASSUME NEW t \in Operators, PlayStopOld(t) PROVE Goal
  <2>1. Enter(t, "play.call", task[t].app, task[t].old) /\ ~At(t, "idle") /\ alone
    BY <1>3 DEF PlayStopOld, Goto, At, budgetVars
  <2>2. OnlyPresence /\ OthersOver /\ OneAtATime' /\ StartsShown'
    BY <1>g, <2>1
  <2>3. QED  BY <1>3, <1>j, <2>2 DEF PlayStopOld
<1>4. ASSUME NEW t \in Operators, PlayCall(t) PROVE Goal
  <2>1. ~At(t, "idle") /\ alone /\ UNCHANGED <<dispatcher, driverVars>>
    BY <1>4 DEF PlayCall, At, budgetVars
  <2>2. PICK pc \in {"play.start", "play.rollback"} :
          /\ Enter(t, pc, task[t].app, task[t].old)
          /\ pc = "play.start" => steamApp' = task[t].app
    BY <1>4 DEF PlayCall, Goto, SteamPlays
  <2>3. OnlyPresence /\ OthersOver /\ OneAtATime' /\ StartsShown'
    BY <1>g, <2>1, <2>2
  <2>4. SteamPlays(task[t].app) \/ UNCHANGED steamVars
    BY <1>4 DEF PlayCall, SteamFails
  <2>5. QED  BY <1>b, <1>h, <1>i, <1>l, <2>1, <2>3, <2>4
<1>5. ASSUME NEW t \in Operators, PlayRollback(t) PROVE Goal
  <2>1. Enter(t, "idle", NoApp, NoApp) /\ ~At(t, "idle") /\ alone
    BY <1>5 DEF PlayRollback, Return, At, budgetVars
  <2>2. OnlyPresence /\ OthersOver /\ OneAtATime' /\ StartsShown'
    BY <1>g, <2>1
  <2>3. QED  BY <1>5, <1>h, <2>2 DEF PlayRollback
<1>6. ASSUME NEW t \in Operators, PlayStart(t) PROVE Goal
  <2>1. /\ Enter(t, "idle", NoApp, NoApp) /\ ~At(t, "idle") /\ alone
        /\ At(t, "play.start") /\ OnStartGC(task[t].app)
    BY <1>6 DEF PlayStart, Return, At, budgetVars
  <2>2. OnlyPresence /\ OthersOver /\ StartsShown /\ OneAtATime' /\ StartsShown'
    BY <1>g, <2>1
  <2>3. OnStartGC(steamApp)
    BY <2>1, <2>2 DEF StartsShown
  <2>4. QED  BY <1>6, <1>j, <2>2, <2>3 DEF PlayStart
<1>7. ASSUME NEW t \in Operators, ExitStop(t) PROVE Goal
  <2>1. Enter(t, "exit.call", task[t].app, task[t].old) /\ ~At(t, "idle") /\ alone
    BY <1>7 DEF ExitStop, Goto, At, budgetVars
  <2>2. OnlyPresence /\ OthersOver /\ OneAtATime' /\ StartsShown'
    BY <1>g, <2>1
  <2>3. QED  BY <1>7, <1>j, <2>2 DEF ExitStop
<1>8. ASSUME NEW t \in Operators, ExitCall(t) PROVE Goal
  <2>1. Enter(t, "idle", NoApp, NoApp) /\ ~At(t, "idle") /\ alone
    BY <1>8 DEF ExitCall, Return, At, budgetVars
  <2>2. OnlyPresence /\ OthersOver /\ OneAtATime' /\ StartsShown'
    BY <1>g, <2>1
  <2>3. /\ SteamPlays(NoApp) \/ UNCHANGED steamVars
        /\ UNCHANGED <<dispatcher, driverVars>>
    BY <1>8 DEF ExitCall, SteamFails
  <2>4. QED  BY <1>h, <1>i, <1>n, <2>2, <2>3
<1>9. ASSUME NEW t \in Resumers, ResumerStep(t) PROVE Goal
  <2>1. ~At(t, "idle") /\ alone
    BY <1>9 DEF ResumerStep, ResumeSet, ResumeCall, ResumeReset, ResumeStart, At, budgetVars
  <2>2. PICK pc, a, o : Enter(t, pc, a, o)
    BY <1>9 DEF ResumerStep, ResumeSet, ResumeCall, ResumeReset, ResumeStart, Goto, Return
  <2>3. Serving
    BY <1>d, <2>2
  <2>4. QED  BY <1>e, <2>1, <2>3 DEF OneAtATime
<1>10. ASSUME NEW kind, Dispatching(kind), Serving
       PROVE  /\ OneAtATime /\ StartsShown /\ OthersOver /\ OnlyPresence'
              /\ dispatcher.pc = "idle" /\ queue # << >> /\ queue' = Tail(queue)
              /\ kind \in {"AppLaunched", "AppQuit"}
              /\ kind = "AppLaunched" => Head(queue) = Launched(Head(queue).app)
              /\ kind = "AppQuit" => Head(queue) = Quit(Head(queue).app)
              /\ UNCHANGED <<steamApp, cancelAutoAck>>
  <2>1. /\ dispatcher.pc = "idle" /\ queue # << >> /\ queue' = Tail(queue)
        /\ Head(queue).kind = kind /\ UNCHANGED <<steamApp, cancelAutoAck>> /\ alone
    BY <1>10 DEF Dispatching, driverVars, budgetVars
  <2>2. OnlyPresence /\ OneAtATime /\ StartsShown /\ OthersOver
    BY <1>e, <1>10, <2>1
  <2>3. /\ Len(queue) >= 1 /\ Head(queue) = queue[1] /\ queue[1] \in Events
        /\ Len(queue') = Len(queue) - 1 /\ Len(queue) \in Nat
        /\ \A i \in 1 .. Len(queue)-1 : queue'[i] = queue[i+1]
    BY <1>a, <2>1, Popped
  <2>4. kind \in {"AppLaunched", "AppQuit"}
    <3>1. 1 \in 1 .. Len(queue)
      BY <2>3
    <3>2. QED  BY <2>1, <2>2, <2>3, <3>1 DEF OnlyPresence
  <2>5. OnlyPresence'
    <3>1. \A i \in 1 .. Len(queue') : i+1 \in 1 .. Len(queue) /\ queue'[i] = queue[i+1]
      BY <2>3
    <3>2. QED  BY <2>2, <3>1 DEF OnlyPresence
  <2>6. /\ kind = "AppLaunched" => Head(queue) = Launched(Head(queue).app)
        /\ kind = "AppQuit" => Head(queue) = Quit(Head(queue).app)
    BY <2>1, <2>3 DEF Events, Launched, Quit
  <2>7. QED  BY <2>1, <2>2, <2>4, <2>5, <2>6
<1>11. CASE OnAppLaunched
  <2>1. Serving /\ UNCHANGED task
    BY <1>11, <1>f DEF OnAppLaunched
  <2>2. /\ OneAtATime /\ StartsShown /\ OthersOver /\ OnlyPresence'
        /\ dispatcher.pc = "idle" /\ queue # << >> /\ queue' = Tail(queue)
        /\ Head(queue) = Launched(Head(queue).app)
        /\ UNCHANGED <<steamApp, cancelAutoAck>>
    BY <1>10, <1>11, <2>1 DEF OnAppLaunched
  <2>3. dispatcher' = [pc |-> "start", app |-> Head(queue).app]
    BY <1>11 DEF OnAppLaunched
  <2>4. OthersOver'
    BY <2>2, <2>3, OverPops
  <2>5. QED  BY <1>f, <2>1, <2>2, <2>4
<1>12. CASE OnAppQuit
  <2>1. Serving /\ UNCHANGED task
    BY <1>12, <1>f DEF OnAppQuit
  <2>2. /\ OneAtATime /\ StartsShown /\ OthersOver /\ OnlyPresence'
        /\ dispatcher.pc = "idle" /\ queue # << >> /\ queue' = Tail(queue)
        /\ Head(queue) = Quit(Head(queue).app)
        /\ UNCHANGED <<steamApp, cancelAutoAck>>
    BY <1>10, <1>12, <2>1 DEF OnAppQuit
  <2>3. dispatcher' = [pc |-> "stop", app |-> Head(queue).app]
    BY <1>12 DEF OnAppQuit
  <2>4. OthersOver'
    BY <2>2, <2>3, OverPops
  <2>5. QED  BY <1>f, <2>1, <2>2, <2>4
<1>13. CASE HandleLoggedOn
  <2>1. Serving
    <3>1. CASE UNCHANGED task
      BY <1>f, <3>1
    <3>2. CASE ~UNCHANGED task
      BY <1>13, <1>d, <3>2 DEF HandleLoggedOn
    <3>3. QED  BY <3>1, <3>2
  <2>2. QED  BY <1>10, <1>13, <2>1 DEF HandleLoggedOn
<1>14. CASE HandleBackpackLoaded
  BY <1>10, <1>14, <1>f DEF HandleBackpackLoaded
<1>15. CASE DispatcherDriverCall
  <2>1. Serving /\ UNCHANGED <<task, steamApp, queue>> /\ alone
    BY <1>15, <1>f DEF DispatcherDriverCall, steamVars, budgetVars
  <2>2. OnlyPresence /\ OneAtATime /\ StartsShown /\ OthersOver
    BY <1>e, <2>1
  <2>3. dispatcher'.pc = "idle"
    BY <1>15 DEF DispatcherDriverCall
  <2>4. ASSUME NEW a \in Registered, a # steamApp
        PROVE  Over(a)'
    <3>1. Over(a)
      BY <2>2, <2>4 DEF OthersOver
    <3>2. ASSUME cancelAutoAck'[a] PROVE Quits(queue, a)
      <4>1. CASE dispatcher.pc = "start" /\ OnStartGC(dispatcher.app)
        BY <3>1, <3>2, <4>1, HandlesMove DEF Over
      <4>2. CASE dispatcher.pc = "stop" /\ OnStopGC(dispatcher.app)
        BY <3>1, <3>2, <4>2, HandlesMove DEF Over
      <4>3. QED  BY <1>15, <4>1, <4>2 DEF DispatcherDriverCall
    <3>3. QED  BY <2>1, <2>3, <3>1, <3>2 DEF Over, LastLaunched, Quits
  <2>5. QED  BY <1>f, <2>1, <2>2, <2>4 DEF OnlyPresence, OthersOver
<1>16. CASE DispatcherReturn
  BY <1>16, <1>f DEF DispatcherReturn
<1>17. CASE Shutdown
  BY <1>17, <1>k DEF Shutdown, Goto
<1>18. CASE MainStep
  <2>1. CASE Close
    BY <1>k, <2>1 DEF Close
  <2>2. CASE CloseStop
    BY <1>k, <2>2 DEF CloseStop, Goto
  <2>3. CASE CloseCall
    BY <1>k, <2>3 DEF CloseCall, Goto
  <2>4. CASE CloseUnsubscribe
    BY <1>k, <2>4 DEF CloseUnsubscribe, Goto
  <2>5. CASE CloseClient
    BY <1>k, <2>5 DEF CloseClient, Goto
  <2>6. QED  BY <1>18, <2>1, <2>2, <2>3, <2>4, <2>5 DEF MainStep
<1>19. CASE Environment
  <2>1. alone' = FALSE
    BY <1>19 DEF Environment, Launch, QuitGame, Relogon, LoadBackpack, External
  <2>2. QED  BY <2>1
<1>20. CASE UNCHANGED vars
  <2>1. Serving /\ alone /\ UNCHANGED <<dispatcher, driverVars, steamVars, task, steamApp>>
    BY <1>20, <1>f DEF vars, budgetVars, steamVars
  <2>2. QED  BY <1>e, <1>f, <1>h, <2>1
<1>21. QED
  BY <1>1, <1>2, <1>3, <1>4, <1>5, <1>6, <1>7, <1>8, <1>9, <1>11, <1>12, <1>13, <1>14,
     <1>15, <1>16, <1>17, <1>18, <1>19, <1>20
  DEF Next, Request, OperatorStep, Dispatch

\* Before anything happens the invariant holds.
LEMMA AloneInit == Init => AloneInv
<1> SUFFICES ASSUME Init PROVE OnlyPresence /\ OneAtATime /\ StartsShown /\ OthersOver
  BY DEF AloneInv
<1>1. /\ queue = << >> /\ dispatcher.pc = "idle"
      /\ \A t \in Tasks : task[t].pc = "idle"
      /\ \A a \in Registered : ~cancelAutoAck[a]
  BY DEF Init
<1>2. OnlyPresence /\ OneAtATime /\ StartsShown
  BY <1>1 DEF OnlyPresence, OneAtATime, StartsShown, At, Tasks
<1>3. OthersOver
  BY <1>1 DEF OthersOver, Over, LastLaunched, Quits
<1>4. QED  BY <1>2, <1>3

\* Whatever calls fail, an operator who waits for each answer, in a quiet world, leaves
\* a listener only to the game that Steam shows, once its events have been handled.
THEOREM SessionListenerClosedAlone == Spec => []ListenerClosedAlone
<1>1. Init => (TypeOK /\ AckExclusive) /\ AloneInv
  <2>1. Init => TypeOK /\ AckExclusive
    BY SessionAssumption
    DEF Init, TypeOK, TaskOK, AckExclusive, AppOrNone, Tasks, TaskPC, OperatorPC, ResumerPC, MainPC
  <2>2. QED  BY <2>1, AloneInit
<1>2. (TypeOK /\ AckExclusive) /\ [Next]_vars => (TypeOK /\ AckExclusive)'
  BY TypeStep
<1>3. TypeOK /\ AloneInv /\ [Next]_vars => AloneInv'
  BY AloneStep
<1>4. AloneInv => ListenerClosedAlone
  <2> SUFFICES ASSUME AloneInv, alone, Quiescent, NEW a \in Registered, cancelAutoAck[a],
                      steamApp # a
               PROVE  FALSE
    BY DEF ListenerClosedAlone, ListenerClosed
  <2>1. Over(a)
    BY DEF AloneInv, OthersOver, Quiescent, Serving, Tasks
  <2>2. QED  BY <2>1 DEF Over, Quits, Quiescent
<1>5. QED  BY <1>1, <1>2, <1>3, <1>4, PTL DEF Spec

-----------------------------------------------------------------------------
(* An operator who waits for each answer gets the game it asked for        *)

\* What the request at work has recorded.
Recorded ==
  \A t \in Operators :
    \/ task[t].pc \in {"play.stop", "play.call", "play.start"} /\ desiredAppID = task[t].app
    \/ task[t].pc \in {"exit.stop", "exit.call"} /\ desiredAppID = NoApp
    \/ task[t].pc = "idle"

\* Between requests Steam shows what was recorded.
Honoured ==
  (\A t \in Operators : At(t, "idle")) /\ desiredAppID # NoApp => steamApp = desiredAppID

HonourInv == alone /\ Serving => Recorded /\ Honoured

\* The inductive step, beside that of AloneInv.
LEMMA HonourStep ==
  ASSUME TypeOK, AloneInv, HonourInv, "PlayGames" \notin Faults, [Next]_vars
  PROVE  HonourInv'
<1> DEFINE Goal == Recorded' /\ Honoured'
<1> SUFFICES ASSUME alone', Serving' PROVE Goal
  BY DEF HonourInv
<1>a. TaskOK
  BY DEF TypeOK
<1>b. Operators \subseteq Tasks /\ Resumers \subseteq Tasks /\ Main \in Tasks
  BY DEF Tasks
<1>c. \A t \in Operators \cup Resumers : t # Main
  BY SessionAssumption
<1>d. ASSUME NEW t \in Operators \cup Resumers, NEW pc, NEW a, NEW o, Enter(t, pc, a, o)
      PROVE  Serving
  BY <1>a, <1>b, <1>c, <1>d, EnterOthers DEF Serving, At
<1>e. alone /\ Serving =>
        OneAtATime /\ StartsShown /\ Recorded /\ Honoured
  BY DEF AloneInv, HonourInv
<1>f. ASSUME UNCHANGED <<task, desiredAppID, steamApp>>, alone
      PROVE  Goal
  <2>1. Serving
    BY <1>f DEF Serving, At
  <2>2. QED  BY <1>e, <1>f, <2>1 DEF Recorded, Honoured, At
<1>g. ASSUME NEW t \in Operators, NEW pc, NEW a, NEW o, Enter(t, pc, a, o), alone,
             ~At(t, "idle") \/ \A u \in Operators : At(u, "idle"),
             \/ pc \in {"play.stop", "play.call", "play.start"} /\ desiredAppID' = a
             \/ pc \in {"exit.stop", "exit.call"} /\ desiredAppID' = NoApp
             \/ pc = "idle" /\ desiredAppID' \in {NoApp, steamApp'}
      PROVE  Goal
  <2>1. t \in Tasks
    BY <1>b
  <2>2. /\ task'[t] = [pc |-> pc, app |-> a, old |-> o]
        /\ \A u \in Tasks : u # t => task'[u] = task[u]
    BY <1>a, <1>g, <2>1, EnterOthers
  <2>3. OneAtATime
    BY <1>d, <1>e, <1>g
  <2>4. \A u \in Operators : u # t => task'[u].pc = "idle"
    BY <1>b, <1>g, <2>2, <2>3 DEF OneAtATime, At
  <2>5. Recorded'
    BY <1>g, <2>2, <2>4 DEF Recorded
  <2>6. Honoured'
    BY <1>g, <2>2, <2>4 DEF Honoured, At
  <2>7. QED  BY <2>5, <2>6
<1>h. ASSUME NEW t \in Operators, NEW pc, NEW a, NEW o, Enter(t, pc, a, o), alone
      PROVE  Recorded /\ StartsShown
  BY <1>d, <1>e, <1>h
<1>i. ASSUME NEW t, AcceptRPC(t)
      PROVE  alone /\ \A u \in Operators : At(u, "idle")
  BY <1>i DEF AcceptRPC
<1>j. ASSUME NEW pc, NEW a, NEW o, Enter(Main, pc, a, o), pc # "idle"
      PROVE  FALSE
  <2>1. task'[Main] = [pc |-> pc, app |-> a, old |-> o]
    BY <1>a, <1>b, <1>j, EnterOthers
  <2>2. QED  BY <1>j, <2>1 DEF Serving, At
<1>1. ASSUME NEW t \in Operators, \E a \in Apps : PlayGame(t, a) PROVE Goal
  <2>1. PICK a \in Apps : PlayGame(t, a)
    BY <1>1
  <2>2. PICK pc \in {"play.stop", "play.call"} : Enter(t, pc, a, currentAppID)
    BY <2>1 DEF PlayGame
  <2>3. QED  BY <1>g, <1>i, <2>1, <2>2 DEF PlayGame
<1>2. ASSUME NEW t \in Operators, ExitGame(t) PROVE Goal
  <2>1. PICK pc, o : pc \in {"idle", "exit.stop"} /\ Enter(t, pc, NoApp, o)
    BY <1>2 DEF ExitGame
  <2>2. QED  BY <1>2, <1>g, <1>i, <2>1 DEF ExitGame
<1>3. ASSUME NEW t \in Operators, PlayStopOld(t) PROVE Goal
  <2>1. /\ Enter(t, "play.call", task[t].app, task[t].old) /\ task[t].pc = "play.stop"
        /\ alone /\ desiredAppID' = desiredAppID
    BY <1>3 DEF PlayStopOld, Goto, At, budgetVars, daemonVars
  <2>2. desiredAppID = task[t].app
    BY <1>h, <2>1 DEF Recorded
  <2>3. QED  BY <1>g, <2>1, <2>2 DEF At
<1>4. ASSUME NEW t \in Operators, PlayCall(t) PROVE Goal
  <2>1. /\ Enter(t, "play.start", task[t].app, task[t].old) /\ task[t].pc = "play.call"
        /\ alone /\ desiredAppID' = desiredAppID
    BY <1>4 DEF PlayCall, Goto, At, budgetVars, daemonVars
  <2>2. desiredAppID = task[t].app
    BY <1>h, <2>1 DEF Recorded
  <2>3. QED  BY <1>g, <2>1, <2>2 DEF At
<1>5. ASSUME NEW t \in Operators, PlayRollback(t) PROVE Goal
  <2>1. Enter(t, "idle", NoApp, NoApp) /\ task[t].pc = "play.rollback" /\ alone
    BY <1>5 DEF PlayRollback, Return, At, budgetVars
  <2>2. QED  BY <1>h, <2>1 DEF Recorded
<1>6. ASSUME NEW t \in Operators, PlayStart(t) PROVE Goal
  <2>1. /\ Enter(t, "idle", NoApp, NoApp) /\ task[t].pc = "play.start"
        /\ alone /\ desiredAppID' = desiredAppID /\ steamApp' = steamApp
    BY <1>6 DEF PlayStart, Return, At, budgetVars, daemonVars, steamVars
  <2>2. desiredAppID = task[t].app /\ steamApp = task[t].app
    BY <1>h, <2>1 DEF Recorded, StartsShown, At
  <2>3. QED  BY <1>g, <2>1, <2>2 DEF At
<1>7. ASSUME NEW t \in Operators, ExitStop(t) PROVE Goal
  <2>1. /\ Enter(t, "exit.call", task[t].app, task[t].old) /\ task[t].pc = "exit.stop"
        /\ alone /\ desiredAppID' = desiredAppID
    BY <1>7 DEF ExitStop, Goto, At, budgetVars, daemonVars
  <2>2. desiredAppID = NoApp
    BY <1>h, <2>1 DEF Recorded
  <2>3. QED  BY <1>g, <2>1, <2>2 DEF At
<1>8. ASSUME NEW t \in Operators, ExitCall(t) PROVE Goal
  <2>1. /\ Enter(t, "idle", NoApp, NoApp) /\ task[t].pc = "exit.call"
        /\ alone /\ desiredAppID' = desiredAppID
    BY <1>8 DEF ExitCall, Return, At, budgetVars, daemonVars
  <2>2. desiredAppID = NoApp
    BY <1>h, <2>1 DEF Recorded
  <2>3. QED  BY <1>g, <2>1, <2>2 DEF At
<1>9. ASSUME NEW t \in Resumers, ResumerStep(t) PROVE Goal
  <2>1. ~At(t, "idle") /\ alone
    BY <1>9 DEF ResumerStep, ResumeSet, ResumeCall, ResumeReset, ResumeStart, At, budgetVars
  <2>2. PICK pc, a, o : Enter(t, pc, a, o)
    BY <1>9 DEF ResumerStep, ResumeSet, ResumeCall, ResumeReset, ResumeStart, Goto, Return
  <2>3. Serving
    BY <1>d, <2>2
  <2>4. QED  BY <1>e, <2>1, <2>3 DEF OneAtATime
<1>10. CASE HandleLoggedOn
  <2>1. CASE UNCHANGED task
    BY <1>10, <1>f, <2>1 DEF HandleLoggedOn, Dispatching, daemonVars, budgetVars
  <2>2. CASE ~UNCHANGED task
    <3>1. PICK r \in Resumers : Enter(r, "resume.set", desiredAppID, NoApp)
      BY <1>10, <2>2 DEF HandleLoggedOn
    <3>2. OneAtATime'
      BY AloneStep DEF AloneInv
    <3>3. r \in Tasks
      BY <1>b
    <3>4. task'[r] = [pc |-> "resume.set", app |-> desiredAppID, old |-> NoApp]
      BY <1>a, <3>1, <3>3, EnterOthers
    <3>5. QED  BY <3>2, <3>4 DEF OneAtATime, At
  <2>3. QED  BY <2>1, <2>2
<1>11. CASE OnAppLaunched \/ OnAppQuit \/ HandleBackpackLoaded
  BY <1>11, <1>f
  DEF OnAppLaunched, OnAppQuit, HandleBackpackLoaded, Dispatching, daemonVars, budgetVars
<1>12. CASE DispatcherDriverCall \/ DispatcherReturn
  BY <1>12, <1>f
  DEF DispatcherDriverCall, DispatcherReturn, daemonVars, steamVars, budgetVars
<1>13. CASE Shutdown
  BY <1>13, <1>j DEF Shutdown, Goto
<1>14. CASE MainStep
  <2>1. CASE Close
    BY <1>j, <2>1 DEF Close
  <2>2. CASE CloseStop
    BY <1>j, <2>2 DEF CloseStop, Goto
  <2>3. CASE CloseCall
    BY <1>j, <2>3 DEF CloseCall, Goto
  <2>4. CASE CloseUnsubscribe
    BY <1>j, <2>4 DEF CloseUnsubscribe, Goto
  <2>5. CASE CloseClient
    BY <1>j, <2>5 DEF CloseClient, Goto
  <2>6. QED  BY <1>14, <2>1, <2>2, <2>3, <2>4, <2>5 DEF MainStep
<1>15. CASE Environment
  <2>1. alone' = FALSE
    BY <1>15 DEF Environment, Launch, QuitGame, Relogon, LoadBackpack, External
  <2>2. QED  BY <2>1
<1>16. CASE UNCHANGED vars
  BY <1>16, <1>f DEF vars, daemonVars, steamVars, budgetVars
<1>17. QED
  BY <1>1, <1>2, <1>3, <1>4, <1>5, <1>6, <1>7, <1>8, <1>9, <1>10, <1>11, <1>12, <1>13,
     <1>14, <1>15, <1>16
  DEF Next, Request, OperatorStep, Dispatch

\* If PlayGames does not fail, an operator who waits for each answer, in a quiet world,
\* has Steam show the game it asked for last, whatever it asked for before and whether
\* or not StopPlaying fails.
THEOREM SessionPlayHonoured ==
  ASSUME "PlayGames" \notin Faults
  PROVE  Spec => []PlayHonoured
<1>1. Init => (TypeOK /\ AckExclusive) /\ AloneInv /\ HonourInv
  <2>1. Init => TypeOK /\ AckExclusive
    BY SessionAssumption
    DEF Init, TypeOK, TaskOK, AckExclusive, AppOrNone, Tasks, TaskPC, OperatorPC, ResumerPC, MainPC
  <2>2. Init => HonourInv
    BY DEF Init, HonourInv, Recorded, Honoured, Tasks
  <2>3. QED  BY <2>1, <2>2, AloneInit
<1>2. (TypeOK /\ AckExclusive) /\ [Next]_vars => (TypeOK /\ AckExclusive)'
  BY TypeStep
<1>3. TypeOK /\ AloneInv /\ [Next]_vars => AloneInv'
  BY AloneStep
<1>4. TypeOK /\ AloneInv /\ HonourInv /\ [Next]_vars => HonourInv'
  BY HonourStep
<1>5. HonourInv => PlayHonoured
  <2> SUFFICES ASSUME HonourInv, alone, Quiescent, desiredAppID # NoApp
               PROVE  steamApp = desiredAppID
    BY DEF PlayHonoured
  <2>1. Serving /\ \A t \in Operators : At(t, "idle")
    BY DEF Quiescent, Serving, Tasks
  <2>2. QED  BY <2>1 DEF HonourInv, Honoured
<1>6. QED  BY <1>1, <1>2, <1>3, <1>4, <1>5, PTL DEF Spec

-----------------------------------------------------------------------------
(* The contract with GracefulStop                                          *)

ServerPhase == IF Serving THEN "up" ELSE IF At(Main, "drain") THEN "draining" ELSE "gone"
InProgress == {t \in Operators : ~At(t, "idle")}

Server == INSTANCE GracefulServer
            WITH Handlers <- Operators, Mortal <- FALSE, phase <- ServerPhase, pending <- InProgress

\* Where one goroutine goes is all that changes of the server.
LEMMA EnterServer ==
  ASSUME TypeOK, NEW t \in Tasks, NEW pc, NEW a, NEW old, Enter(t, pc, a, old)
  PROVE  /\ t # Main => ServerPhase' = ServerPhase
         /\ t \in Operators =>
              InProgress' = IF pc = "idle" THEN InProgress \ {t} ELSE InProgress \cup {t}
         /\ t \notin Operators => InProgress' = InProgress
<1>1. Main \in Tasks /\ task \in [Tasks -> [pc : TaskPC, app : AppOrNone, old : AppOrNone]]
  BY DEF TypeOK, TaskOK, Tasks
<1>2. \A u \in Tasks : task'[u] = IF u = t THEN [pc |-> pc, app |-> a, old |-> old] ELSE task[u]
  BY <1>1 DEF Enter
<1>3. t # Main => ServerPhase' = ServerPhase
  BY <1>1, <1>2 DEF ServerPhase, Serving, At
<1>4. \A u \in Operators : u # t => (At(u, "idle")' <=> At(u, "idle"))
  BY <1>2 DEF At, Tasks
<1>5. t \in Operators => (At(t, "idle")' <=> pc = "idle")
  BY <1>2 DEF At
<1>6. QED  BY <1>3, <1>4, <1>5 DEF InProgress

\* The server of the game session is a GracefulServer that nobody kills: PlayGame and
\* ExitGame are taken only before the shutdown, and Close begins when all of them have
\* returned, whatever calls fail (run in main.go, Daemon.Close).
THEOREM SessionImplementsServer == Spec => Server!Spec
<1>1. Init => Server!Init
  BY DEF Init, Server!Init, ServerPhase, Serving, InProgress, At, Tasks
<1>2. TypeOK /\ [Next]_vars => [Server!Next]_<<ServerPhase, InProgress>>
  <2> SUFFICES ASSUME TypeOK, [Next]_vars PROVE [Server!Next]_<<ServerPhase, InProgress>>
    OBVIOUS
  <2>a. /\ Operators \subseteq Tasks /\ Resumers \subseteq Tasks /\ Main \in Tasks
        /\ Main \notin Operators /\ Main \notin Resumers /\ Operators \cap Resumers = {}
    BY SessionAssumption DEF Tasks
  <2>1. ASSUME UNCHANGED task PROVE UNCHANGED <<ServerPhase, InProgress>>
    BY <2>1 DEF ServerPhase, Serving, InProgress, At
  <2>2. ASSUME NEW t \in Operators, Request(t) PROVE [Server!Next]_<<ServerPhase, InProgress>>
    <3>1. \E pc, a, old : AcceptRPC(t) /\ Enter(t, pc, a, old)
      BY <2>2 DEF Request, PlayGame, ExitGame
    <3>2. PICK pc, a, old : AcceptRPC(t) /\ Enter(t, pc, a, old)
      BY <3>1
    <3>3. ServerPhase = "up" /\ ServerPhase' = "up" /\ t \notin InProgress
      BY <2>a, <3>2, EnterServer DEF AcceptRPC, ServerPhase, InProgress
    <3>4. InProgress' = InProgress \/ InProgress' = InProgress \cup {t}
      BY <2>a, <3>2, <3>3, EnterServer
    <3>5. QED  BY <3>3, <3>4 DEF Server!Next, Server!Take
  <2>3. ASSUME NEW t \in Operators, OperatorStep(t) PROVE [Server!Next]_<<ServerPhase, InProgress>>
    <3>1. t \in InProgress
      BY <2>3 DEF OperatorStep, PlayStopOld, PlayCall, PlayRollback, PlayStart, ExitStop, ExitCall,
                  InProgress, At
    <3>2. \E pc, a, old : Enter(t, pc, a, old)
      BY <2>3 DEF OperatorStep, PlayStopOld, PlayCall, PlayRollback, PlayStart, ExitStop, ExitCall,
                  Goto, Return
    <3>3. ServerPhase' = ServerPhase /\ InProgress' \in {InProgress \ {t}, InProgress \cup {t}}
      BY <2>a, <3>2, EnterServer
    <3>4. QED  BY <3>1, <3>3 DEF Server!Next, Server!Return
  <2>4. ASSUME NEW r \in Resumers, \E pc, a, old : Enter(r, pc, a, old)
        PROVE  UNCHANGED <<ServerPhase, InProgress>>
    <3>1. r \in Tasks /\ r # Main /\ r \notin Operators
      BY <2>a
    <3>2. PICK pc, a, old : Enter(r, pc, a, old)
      BY <2>4
    <3>3. QED  BY <3>1, <3>2, EnterServer
  <2>5. CASE Dispatch \/ \E r \in Resumers : ResumerStep(r)
    <3>1. UNCHANGED task \/ \E r \in Resumers : \E pc, a, old : Enter(r, pc, a, old)
      BY <2>5 DEF Dispatch, OnAppLaunched, OnAppQuit, HandleLoggedOn, HandleBackpackLoaded,
                  DispatcherDriverCall, DispatcherReturn, ResumerStep, ResumeSet, ResumeCall,
                  ResumeReset, ResumeStart, Goto, Return
    <3>2. QED  BY <2>1, <2>4, <3>1
  <2>6. CASE Shutdown \/ MainStep
    <3>1. \E pc, a, old : Enter(Main, pc, a, old)
      BY <2>6 DEF Shutdown, MainStep, Close, CloseStop, CloseCall, CloseUnsubscribe, CloseClient, Goto
    <3>2. InProgress' = InProgress
      BY <2>a, <3>1, EnterServer
    <3>3. ASSUME NEW pc, NEW a, NEW old, Enter(Main, pc, a, old)
          PROVE  task'[Main].pc = pc
      BY <2>a, <3>3 DEF Enter, TypeOK, TaskOK
    <3>4. CASE Shutdown
      <4>1. ServerPhase = "up" /\ ServerPhase' = "draining"
        BY <3>3, <3>4 DEF Shutdown, Goto, ServerPhase, Serving, At
      <4>2. QED  BY <3>2, <4>1 DEF Server!Next, Server!Drain
    <3>5. CASE Close
      <4>1. ServerPhase = "draining" /\ ServerPhase' = "gone" /\ InProgress = {}
        BY <3>3, <3>5 DEF Close, ServerPhase, Serving, At, InProgress
      <4>2. QED  BY <3>2, <4>1 DEF Server!Next, Server!Leave
    <3>6. CASE CloseStop \/ CloseCall \/ CloseUnsubscribe \/ CloseClient
      <4>1. ServerPhase = "gone" /\ ServerPhase' = "gone"
        BY <3>3, <3>6 DEF CloseStop, CloseCall, CloseUnsubscribe, CloseClient, Goto,
                          ServerPhase, Serving, At
      <4>2. QED  BY <3>2, <4>1
    <3>7. QED  BY <2>6, <3>4, <3>5, <3>6 DEF MainStep
  <2>7. CASE Environment \/ UNCHANGED vars
    <3>1. UNCHANGED task
      BY <2>7 DEF Environment, Launch, QuitGame, Relogon, LoadBackpack, External, vars
    <3>2. QED  BY <2>1, <3>1
  <2>8. QED  BY <2>2, <2>3, <2>5, <2>6, <2>7 DEF Next
<1>3. QED  BY <1>1, <1>2, SessionTypeCorrect, PTL DEF Spec, Server!Spec

-----------------------------------------------------------------------------
(* The contract of the driver's handle                                     *)

Handle(a) == INSTANCE ListenerHandle WITH armed <- cancelAutoAck[a], live <- listeners[a]

\* Whoever calls the driver of an app, it starts a listener where none runs, stops the
\* one that runs, or does nothing; the other drivers are left alone.
LEMMA DriverCallHandle ==
  ASSUME TypeOK, NEW a \in Registered, NEW b, OnStartGC(b) \/ OnStopGC(b)
  PROVE  [Handle(a)!Next]_<<cancelAutoAck[a], listeners[a]>>
<1>1. cancelAutoAck \in [Registered -> BOOLEAN] /\ listeners \in [Registered -> Nat]
  BY DEF TypeOK
<1>2. CASE UNCHANGED driverVars
  BY <1>2 DEF driverVars
<1>3. ASSUME b \in Registered, ~cancelAutoAck[b],
             cancelAutoAck' = [cancelAutoAck EXCEPT ![b] = TRUE],
             listeners' = [listeners EXCEPT ![b] = @ + 1]
      PROVE  [Handle(a)!Next]_<<cancelAutoAck[a], listeners[a]>>
  <2>1. CASE a = b
    <3>1. ~cancelAutoAck[a]
      BY <1>3, <2>1
    <3>2. cancelAutoAck'[a] = TRUE
      BY <1>1, <1>3, <2>1
    <3>3. listeners'[a] = listeners[a] + 1
      BY <1>1, <1>3, <2>1
    <3>4. QED  BY <3>1, <3>2, <3>3 DEF Handle!Next, Handle!OnStartGC
  <2>2. CASE a # b
    BY <1>1, <1>3, <2>2
  <2>3. QED  BY <2>1, <2>2
<1>4. ASSUME b \in Registered, cancelAutoAck[b],
             cancelAutoAck' = [cancelAutoAck EXCEPT ![b] = FALSE],
             listeners' = [listeners EXCEPT ![b] = @ - 1]
      PROVE  [Handle(a)!Next]_<<cancelAutoAck[a], listeners[a]>>
  <2>1. CASE a = b
    <3>1. cancelAutoAck[a]
      BY <1>4, <2>1
    <3>2. cancelAutoAck'[a] = FALSE
      BY <1>1, <1>4, <2>1
    <3>3. listeners'[a] = listeners[a] - 1
      BY <1>1, <1>4, <2>1
    <3>4. QED  BY <3>1, <3>2, <3>3 DEF Handle!Next, Handle!OnStopGC
  <2>2. CASE a # b
    BY <1>1, <1>4, <2>2
  <2>3. QED  BY <2>1, <2>2
<1>5. QED  BY <1>2, <1>3, <1>4 DEF OnStartGC, OnStopGC

\* Nobody touches a driver's listener but through OnStartGC and OnStopGC.
LEMMA DriverCalls ==
  ASSUME [Next]_vars
  PROVE  UNCHANGED driverVars \/ \E b : OnStartGC(b) \/ OnStopGC(b)
<1>1. CASE \E t \in Operators : Request(t) \/ OperatorStep(t)
  BY <1>1 DEF Request, PlayGame, ExitGame, OperatorStep, PlayStopOld, PlayCall, PlayRollback, PlayStart,
              ExitStop, ExitCall
<1>2. CASE \E t \in Resumers : ResumerStep(t)
  BY <1>2 DEF ResumerStep, ResumeSet, ResumeCall, ResumeReset, ResumeStart
<1>3. CASE Dispatch
  BY <1>3 DEF Dispatch, OnAppLaunched, OnAppQuit, HandleLoggedOn, HandleBackpackLoaded, Dispatching,
              DispatcherDriverCall, DispatcherReturn
<1>4. CASE Shutdown \/ MainStep
  BY <1>4 DEF Shutdown, MainStep, Close, CloseStop, CloseCall, CloseUnsubscribe, CloseClient
<1>5. CASE Environment
  BY <1>5 DEF Environment, Launch, QuitGame, Relogon, LoadBackpack, External
<1>6. CASE UNCHANGED vars
  BY <1>6 DEF vars, driverVars
<1>7. QED  BY <1>1, <1>2, <1>3, <1>4, <1>5, <1>6 DEF Next

\* All callers together, handlers, resume goroutines, dispatcher and Close, leave each
\* driver within the contract that Backpack's listener keeps (OnStartGC and OnStopGC).
THEOREM SessionImplementsHandle ==
  ASSUME NEW a \in Registered
  PROVE  Spec => Handle(a)!Spec
<1>1. Init => Handle(a)!Init
  BY DEF Init, Handle!Init
<1>2. TypeOK /\ [Next]_vars => [Handle(a)!Next]_<<cancelAutoAck[a], listeners[a]>>
  BY DriverCallHandle, DriverCalls DEF driverVars
<1>3. QED  BY <1>1, <1>2, SessionTypeCorrect, PTL DEF Spec, Handle!Spec
=============================================================================
