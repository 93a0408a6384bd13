----------------------------- MODULE GameSession -----------------------------
(***************************************************************************)
(* The game session of the g-mand daemon: which app the daemon believes is *)
(* being played (Daemon.currentAppID), which app it wants to be played     *)
(* after a reconnection (Daemon.desiredAppID), and the auto-acknowledge    *)
(* listener that a game driver arms while its Game Coordinator is open.    *)
(*                                                                         *)
(* Four kinds of goroutine write this state without a common order:        *)
(*   - the gRPC handlers PlayGame and ExitGame (cmd/g-mand/game.go);       *)
(*   - the event dispatcher handleEvents (cmd/g-mand/events.go);           *)
(*   - the goroutines that handleLoggedOnEvent spawns to resume a game;    *)
(*   - the main goroutine, in Daemon.Close (cmd/g-mand/daemon.go).         *)
(* Each holds Daemon.mu only for one read or one assignment, so every      *)
(* locked region and every call made outside the lock is a step.           *)
(*                                                                         *)
(* steamApp and queue are external: what Steam shows the account playing,  *)
(* and the event subscription through which the apps module reports each   *)
(* change of it, in order and without loss.                                *)
(***************************************************************************)
EXTENDS Naturals, Sequences

CONSTANTS
  Apps,          \* the app IDs an operator may ask for
  NoApp,         \* app ID 0: no game
  Registered,    \* the apps with a driver in the game registry
  BackpackApp,   \* tf2.AppID, whose driver handleBackpackLoadedEvent starts
  Operators,     \* the gRPC handler goroutines
  Resumers,      \* the goroutines handleLoggedOnEvent may spawn
  Main,          \* the main goroutine
  Faults,        \* the apps-module calls that may return an error, and whether
                 \* such a call may have taken effect all the same
  World,         \* the external events that may happen
  MaxRPCs,       \* bound: PlayGame and ExitGame calls in a behaviour
  MaxWorld       \* bound: external events in a behaviour

WorldKinds == {"launch", "quit", "relogon", "backpack", "shutdown"}
FaultKinds == {"PlayGames", "StopPlaying", "lostAnswer"}

ASSUME SessionAssumption ==
  /\ NoApp \notin Apps
  /\ Registered \subseteq Apps
  /\ BackpackApp \in Registered
  /\ Operators \cap Resumers = {}
  /\ Main \notin Operators \cup Resumers
  /\ Faults \subseteq FaultKinds
  /\ World \subseteq WorldKinds
  /\ MaxRPCs \in Nat
  /\ MaxWorld \in Nat

VARIABLES
  currentAppID,   \* Daemon.currentAppID
  desiredAppID,   \* Daemon.desiredAppID
  task,           \* per goroutine: where it is, its target app, the app it replaced
  dispatcher,     \* handleEvents: idle, inside a driver call, or returned
  cancelAutoAck,  \* per driver: is the cancel handle of its listener set
  listeners,      \* per driver: listener goroutines whose context is not cancelled
  steamApp,       \* external: the app Steam shows as being played
  queue,          \* external: events published and not yet handled
  rpcs, world,    \* how much of the two bounds is used
  alone           \* history: no request has met another, nothing external happened

daemonVars == <<currentAppID, desiredAppID>>
driverVars == <<cancelAutoAck, listeners>>
steamVars  == <<steamApp, queue>>
budgetVars == <<rpcs, world, alone>>
vars == <<daemonVars, task, dispatcher, driverVars, steamVars, budgetVars>>

AppOrNone == Apps \cup {NoApp}
Tasks == Operators \cup Resumers \cup {Main}

OperatorPC == {"idle", "play.stop", "play.call", "play.rollback", "play.start",
               "exit.stop", "exit.call"}
ResumerPC  == {"idle", "resume.set", "resume.call", "resume.reset", "resume.start"}
MainPC     == {"idle", "drain", "close.stop", "close.call", "close.unsubscribe",
               "close.wait", "closed"}
TaskPC     == OperatorPC \cup ResumerPC \cup MainPC

-----------------------------------------------------------------------------
(* Events and Steam (external)                                             *)

Launched(a)    == [kind |-> "AppLaunched", app |-> a]
Quit(a)        == [kind |-> "AppQuit", app |-> a]
LoggedOn       == [kind |-> "LoggedOn", app |-> NoApp]
BackpackLoaded == [kind |-> "BackpackLoaded", app |-> BackpackApp]

EventKinds == {"AppLaunched", "AppQuit", "LoggedOn", "BackpackLoaded"}
Events == [kind : EventKinds, app : AppOrNone]

\* What the apps module publishes when Steam goes from one app to another.
PresenceEvents(old, new) ==
  IF old = new
  THEN << >>
  ELSE (IF old = NoApp THEN << >> ELSE <<Quit(old)>>)
         \o (IF new = NoApp THEN << >> ELSE <<Launched(new)>>)

SteamPlays(a) ==
  /\ steamApp' = a
  /\ queue' = queue \o PresenceEvents(steamApp, a)

\* A call that returns an error; if answers can be lost it may have taken effect.
SteamFails(a) ==
  UNCHANGED steamVars \/ ("lostAnswer" \in Faults /\ SteamPlays(a))

-----------------------------------------------------------------------------
(* The registry lookup and the driver call, as every caller makes them     *)

\* Mutant: the handle is overwritten without looking whether it is set.
OnStartGC_Rearms(a) ==
  IF a \in Registered
  THEN /\ cancelAutoAck' = [cancelAutoAck EXCEPT ![a] = TRUE]
       /\ listeners' = [listeners EXCEPT ![a] = @ + 1]
  ELSE UNCHANGED driverVars

OnStartGC(a) ==
  IF a \in Registered /\ ~cancelAutoAck[a]
  THEN /\ cancelAutoAck' = [cancelAutoAck EXCEPT ![a] = TRUE]
       /\ listeners' = [listeners EXCEPT ![a] = @ + 1]
  ELSE UNCHANGED driverVars

\* Mutant: a stop is counted even when no listener was started.
OnStopGC_Unguarded(a) ==
  IF a \in Registered
  THEN /\ cancelAutoAck' = [cancelAutoAck EXCEPT ![a] = FALSE]
       /\ listeners' = [listeners EXCEPT ![a] = @ - 1]
  ELSE UNCHANGED driverVars

OnStopGC(a) ==
  IF a \in Registered /\ cancelAutoAck[a]
  THEN /\ cancelAutoAck' = [cancelAutoAck EXCEPT ![a] = FALSE]
       /\ listeners' = [listeners EXCEPT ![a] = @ - 1]
  ELSE UNCHANGED driverVars

-----------------------------------------------------------------------------
At(t, pc) == task[t].pc = pc
Enter(t, pc, a, old) ==
  task' = [task EXCEPT ![t] = [pc |-> pc, app |-> a, old |-> old]]
Goto(t, pc) == Enter(t, pc, task[t].app, task[t].old)
Return(t) == Enter(t, "idle", NoApp, NoApp)

\* The daemon still serves requests: shutdown has not been requested.
Serving == At(Main, "idle")

AcceptRPC(t) ==
  /\ Serving
  /\ At(t, "idle")
  /\ rpcs < MaxRPCs
  /\ rpcs' = rpcs + 1
  /\ alone' = (alone /\ \A u \in Operators : At(u, "idle"))
  /\ UNCHANGED world

-----------------------------------------------------------------------------
(* PlayGame                                                                *)

\* Mutant: a request for the app believed to be current is answered at once.
PlayGame_SkipsCurrent(t, a) ==
  /\ AcceptRPC(t)
  /\ currentAppID' = a
  /\ desiredAppID' = a
  /\ IF currentAppID = a
     THEN UNCHANGED task
     ELSE Enter(t, IF currentAppID = NoApp THEN "play.call" ELSE "play.stop",
                a, currentAppID)
  /\ UNCHANGED <<dispatcher, driverVars, steamVars>>

PlayGame(t, a) ==
  /\ AcceptRPC(t)
  /\ currentAppID' = a
  /\ desiredAppID' = a
  /\ Enter(t, IF currentAppID \in {NoApp, a} THEN "play.call" ELSE "play.stop",
           a, currentAppID)
  /\ UNCHANGED <<dispatcher, driverVars, steamVars>>

PlayStopOld(t) ==
  /\ At(t, "play.stop")
  /\ OnStopGC(task[t].old)
  /\ Goto(t, "play.call")
  /\ UNCHANGED <<daemonVars, dispatcher, steamVars, budgetVars>>

PlayCall(t) ==
  /\ At(t, "play.call")
  /\ \/ SteamPlays(task[t].app) /\ Goto(t, "play.start")
     \/ /\ "PlayGames" \in Faults
        /\ SteamFails(task[t].app)
        /\ Goto(t, "play.rollback")
  /\ UNCHANGED <<daemonVars, dispatcher, driverVars, budgetVars>>

PlayRollback(t) ==
  /\ At(t, "play.rollback")
  /\ currentAppID' = task[t].old
  /\ desiredAppID' = task[t].old
  /\ Return(t)
  /\ UNCHANGED <<dispatcher, driverVars, steamVars, budgetVars>>

\* Mutant: the new app is recorded after the call instead of before it.
PlayStart_RecordsLate(t) ==
  /\ At(t, "play.start")
  /\ currentAppID' = task[t].app
  /\ OnStartGC(task[t].app)
  /\ Return(t)
  /\ UNCHANGED <<desiredAppID, dispatcher, steamVars, budgetVars>>

PlayStart(t) ==
  /\ At(t, "play.start")
  /\ OnStartGC(task[t].app)
  /\ Return(t)
  /\ UNCHANGED <<daemonVars, dispatcher, steamVars, budgetVars>>

-----------------------------------------------------------------------------
(* ExitGame                                                                *)

ExitGame(t) ==
  /\ AcceptRPC(t)
  /\ currentAppID' = NoApp
  /\ desiredAppID' = NoApp
  /\ Enter(t, IF currentAppID = NoApp THEN "idle" ELSE "exit.stop",
           NoApp, currentAppID)
  /\ UNCHANGED <<dispatcher, driverVars, steamVars>>

ExitStop(t) ==
  /\ At(t, "exit.stop")
  /\ OnStopGC(task[t].old)
  /\ Goto(t, "exit.call")
  /\ UNCHANGED <<daemonVars, dispatcher, steamVars, budgetVars>>

ExitCall(t) ==
  /\ At(t, "exit.call")
  /\ SteamPlays(NoApp) \/ ("StopPlaying" \in Faults /\ SteamFails(NoApp))
  /\ Return(t)
  /\ UNCHANGED <<daemonVars, dispatcher, driverVars, budgetVars>>

-----------------------------------------------------------------------------
(* The goroutine spawned by handleLoggedOnEvent                            *)

ResumeSet(t) ==
  /\ At(t, "resume.set")
  /\ currentAppID' = task[t].app
  /\ Goto(t, "resume.call")
  /\ UNCHANGED <<desiredAppID, dispatcher, driverVars, steamVars, budgetVars>>

\* Its context derives from the daemon's: the call also fails on shutdown.
ResumeCall(t) ==
  /\ At(t, "resume.call")
  /\ \/ SteamPlays(task[t].app) /\ Goto(t, "resume.start")
     \/ /\ "PlayGames" \in Faults \/ ~Serving
        /\ SteamFails(task[t].app)
        /\ Goto(t, "resume.reset")
  /\ UNCHANGED <<daemonVars, dispatcher, driverVars, budgetVars>>

ResumeReset(t) ==
  /\ At(t, "resume.reset")
  /\ currentAppID' = NoApp
  /\ Return(t)
  /\ UNCHANGED <<desiredAppID, dispatcher, driverVars, steamVars, budgetVars>>

ResumeStart(t) ==
  /\ At(t, "resume.start")
  /\ OnStartGC(task[t].app)
  /\ Return(t)
  /\ UNCHANGED <<daemonVars, dispatcher, steamVars, budgetVars>>

-----------------------------------------------------------------------------
(* handleEvents: one event at a time; the state update is locked, the      *)
(* driver call that follows it is not                                      *)

Dispatching(kind) ==
  /\ dispatcher.pc = "idle"
  /\ queue # << >>
  /\ Head(queue).kind = kind
  /\ queue' = Tail(queue)
  /\ UNCHANGED <<steamApp, driverVars, budgetVars>>

\* Mutant: the launch is recorded but the driver is left alone.
OnAppLaunched_NoDriver ==
  /\ Dispatching("AppLaunched")
  /\ currentAppID' = Head(queue).app
  /\ UNCHANGED <<desiredAppID, task, dispatcher>>

OnAppLaunched ==
  /\ Dispatching("AppLaunched")
  /\ currentAppID' = Head(queue).app
  /\ dispatcher' = [pc |-> "start", app |-> Head(queue).app]
  /\ UNCHANGED <<desiredAppID, task>>

\* Mutant: the quit is recorded but the driver is left alone.
OnAppQuit_NoDriver ==
  /\ Dispatching("AppQuit")
  /\ currentAppID' = IF currentAppID = Head(queue).app THEN NoApp ELSE currentAppID
  /\ UNCHANGED <<desiredAppID, task, dispatcher>>

OnAppQuit ==
  /\ Dispatching("AppQuit")
  /\ currentAppID' = IF currentAppID = Head(queue).app THEN NoApp ELSE currentAppID
  /\ dispatcher' = [pc |-> "stop", app |-> Head(queue).app]
  /\ UNCHANGED <<desiredAppID, task>>

HandleLoggedOn ==
  /\ Dispatching("LoggedOn")
  /\ IF desiredAppID = NoApp
     THEN UNCHANGED task
     ELSE \E r \in Resumers :
            /\ At(r, "idle")
            /\ Enter(r, "resume.set", desiredAppID, NoApp)
  /\ UNCHANGED <<daemonVars, dispatcher>>

HandleBackpackLoaded ==
  /\ Dispatching("BackpackLoaded")
  /\ dispatcher' = [pc |-> "start", app |-> BackpackApp]
  /\ UNCHANGED <<daemonVars, task>>

DispatcherDriverCall ==
  /\ \/ dispatcher.pc = "start" /\ OnStartGC(dispatcher.app)
     \/ dispatcher.pc = "stop" /\ OnStopGC(dispatcher.app)
  /\ dispatcher' = [pc |-> "idle", app |-> NoApp]
  /\ UNCHANGED <<daemonVars, task, steamVars, budgetVars>>

\* Mutant: the loop looks only at a subscription that is closed after the wait.
DispatcherReturn_AfterWait ==
  /\ At(Main, "closed")
  /\ dispatcher.pc = "idle"
  /\ dispatcher' = [dispatcher EXCEPT !.pc = "done"]
  /\ UNCHANGED <<daemonVars, task, driverVars, steamVars, budgetVars>>

\* ctx is cancelled or the subscription is closed: the loop returns.
DispatcherReturn ==
  /\ ~Serving
  /\ dispatcher.pc = "idle"
  /\ dispatcher' = [dispatcher EXCEPT !.pc = "done"]
  /\ UNCHANGED <<daemonVars, task, driverVars, steamVars, budgetVars>>

Dispatch ==
  \/ OnAppLaunched
  \/ OnAppQuit
  \/ HandleLoggedOn
  \/ HandleBackpackLoaded
  \/ DispatcherDriverCall
  \/ DispatcherReturn

-----------------------------------------------------------------------------
(* Shutdown and Close: Close runs once GracefulStop has seen every handler *)
(* return; it does not wait for the resume goroutines                      *)

Shutdown ==
  /\ "shutdown" \in World
  /\ Serving
  /\ Goto(Main, "drain")
  /\ UNCHANGED <<daemonVars, dispatcher, driverVars, steamVars, budgetVars>>

Close ==
  /\ At(Main, "drain")
  /\ \A t \in Operators : At(t, "idle")
  /\ currentAppID' = NoApp
  /\ desiredAppID' = NoApp
  /\ Enter(Main, IF currentAppID = NoApp THEN "close.unsubscribe" ELSE "close.stop",
           NoApp, currentAppID)
  /\ UNCHANGED <<dispatcher, driverVars, steamVars, budgetVars>>

CloseStop ==
  /\ At(Main, "close.stop")
  /\ OnStopGC(task[Main].old)
  /\ Goto(Main, "close.call")
  /\ UNCHANGED <<daemonVars, dispatcher, steamVars, budgetVars>>

CloseCall ==
  /\ At(Main, "close.call")
  /\ SteamPlays(NoApp) \/ ("StopPlaying" \in Faults /\ SteamFails(NoApp))
  /\ Goto(Main, "close.unsubscribe")
  /\ UNCHANGED <<daemonVars, dispatcher, driverVars, budgetVars>>

CloseUnsubscribe ==
  /\ At(Main, "close.unsubscribe")
  /\ Goto(Main, "close.wait")
  /\ UNCHANGED <<daemonVars, dispatcher, driverVars, steamVars, budgetVars>>

\* wg.Wait has seen the dispatcher return; client.Close ends the session.
CloseClient ==
  /\ At(Main, "close.wait")
  /\ dispatcher.pc = "done"
  /\ Goto(Main, "closed")
  /\ steamApp' = NoApp
  /\ UNCHANGED <<daemonVars, dispatcher, driverVars, queue, budgetVars>>

-----------------------------------------------------------------------------
(* The world: other automation modules start and quit games, the session   *)
(* is lost and logged on again, the Game Coordinator sends the backpack    *)

External(kind) ==
  /\ kind \in World
  /\ Serving
  /\ world < MaxWorld
  /\ world' = world + 1
  /\ alone' = FALSE
  /\ UNCHANGED <<daemonVars, task, dispatcher, driverVars, rpcs>>

Launch(a) ==
  /\ External("launch")
  /\ SteamPlays(a)

QuitGame ==
  /\ External("quit")
  /\ steamApp # NoApp
  /\ SteamPlays(NoApp)

Relogon ==
  /\ External("relogon")
  /\ steamApp' = NoApp
  /\ queue' = Append(queue \o PresenceEvents(steamApp, NoApp), LoggedOn)

LoadBackpack ==
  /\ External("backpack")
  /\ steamApp = BackpackApp
  /\ queue' = Append(queue, BackpackLoaded)
  /\ UNCHANGED steamApp

-----------------------------------------------------------------------------
Init ==
  /\ currentAppID = NoApp
  /\ desiredAppID = NoApp
  /\ task = [t \in Tasks |-> [pc |-> "idle", app |-> NoApp, old |-> NoApp]]
  /\ dispatcher = [pc |-> "idle", app |-> NoApp]
  /\ cancelAutoAck = [a \in Registered |-> FALSE]
  /\ listeners = [a \in Registered |-> 0]
  /\ steamApp = NoApp
  /\ queue = << >>
  /\ rpcs = 0
  /\ world = 0
  /\ alone = TRUE

Request(t) == (\E a \in Apps : PlayGame(t, a)) \/ ExitGame(t)

OperatorStep(t) ==
  \/ PlayStopOld(t) \/ PlayCall(t) \/ PlayRollback(t) \/ PlayStart(t)
  \/ ExitStop(t) \/ ExitCall(t)

ResumerStep(t) ==
  ResumeSet(t) \/ ResumeCall(t) \/ ResumeReset(t) \/ ResumeStart(t)

MainStep == Close \/ CloseStop \/ CloseCall \/ CloseUnsubscribe \/ CloseClient

Environment ==
  (\E a \in Apps : Launch(a)) \/ QuitGame \/ Relogon \/ LoadBackpack

Next ==
  \/ \E t \in Operators : Request(t) \/ OperatorStep(t)
  \/ \E t \in Resumers : ResumerStep(t)
  \/ Dispatch
  \/ Shutdown
  \/ MainStep
  \/ Environment

Spec == Init /\ [][Next]_vars

(***************************************************************************)
(* Goroutines that have started keep running, and the calls they make end: *)
(* every call carries a context or a timeout.  Nobody is obliged to send a *)
(* request, to shut the daemon down, or to play a game.                    *)
(***************************************************************************)
Fairness ==
  /\ \A t \in Operators : WF_vars(OperatorStep(t))
  /\ \A t \in Resumers : WF_vars(ResumerStep(t))
  /\ WF_vars(Dispatch)
  /\ WF_vars(MainStep)

FairSpec == Spec /\ Fairness

-----------------------------------------------------------------------------
(* Properties                                                              *)

TaskOK ==
  /\ task \in [Tasks -> [pc : TaskPC, app : AppOrNone, old : AppOrNone]]
  /\ \A t \in Operators : task[t].pc \in OperatorPC
  /\ \A t \in Resumers : task[t].pc \in ResumerPC
  /\ task[Main].pc \in MainPC

\* Every variable stays in its domain, each goroutine at a label of its own
\* function and with app IDs that exist.
TypeOK ==
  /\ currentAppID \in AppOrNone
  /\ desiredAppID \in AppOrNone
  /\ TaskOK
  /\ dispatcher \in [pc : {"idle", "start", "stop", "done"}, app : AppOrNone]
  /\ cancelAutoAck \in [Registered -> BOOLEAN]
  /\ listeners \in [Registered -> Nat]
  /\ steamApp \in AppOrNone
  /\ queue \in Seq(Events)
  /\ rpcs \in 0 .. MaxRPCs
  /\ world \in 0 .. MaxWorld
  /\ alone \in BOOLEAN

\* Nothing is in progress: no request, no resume, no event left to handle.
Quiescent ==
  /\ \A t \in Tasks : At(t, "idle")
  /\ dispatcher.pc = "idle"
  /\ queue = << >>

\* However many callers start and stop a driver at once, at most one listener
\* goroutine acknowledges its items, and the driver still holds the handle that
\* cancels it (OnStartGC and OnStopGC in pkg/tf2/driver/driver.go).
AckExclusive ==
  \A a \in Registered : listeners[a] = IF cancelAutoAck[a] THEN 1 ELSE 0

\* Once every request and event has been handled, the app the daemon reports
\* and acts on is the one Steam shows ("No state mismatch", README.md:27).
PresenceAgrees == Quiescent => currentAppID = steamApp

\* Once every request and event has been handled, a game Steam shows and for
\* which a driver is registered has its acknowledge listener running.
AckCoversPlay ==
  Quiescent /\ steamApp \in Registered => cancelAutoAck[steamApp]

\* Once every request and event has been handled, a listener runs only for the
\* game being played: OnStopGC was called "when a game session ends"
\* (pkg/game/driver.go:17).
ListenerClosed ==
  Quiescent => \A a \in Registered : cancelAutoAck[a] => steamApp = a

\* That much holds for an operator who waits for each answer, in a quiet world,
\* although the events of its requests are still being handled when the next one
\* arrives.
ListenerClosedAlone == alone => ListenerClosed

\* Once every request and event has been handled, an operator whose last request
\* was to exit finds no game being played ("ExitGame terminates current playing
\* session", cmd/g-mand/game.go:59).
ExitTerminates == Quiescent /\ desiredAppID = NoApp => steamApp = NoApp

\* Once every request and event has been handled, the game that an operator who
\* waits for each answer last asked for, and was not refused, is the one Steam shows
\* (PlayGame answers "Daemon is now playing game", cmd/g-mand/game.go:54).
PlayHonoured == alone /\ Quiescent /\ desiredAppID # NoApp => steamApp = desiredAppID

\* A shutdown that was requested runs Close to its end, whatever is in progress.
ShutdownCloses == At(Main, "drain") ~> At(Main, "closed")
=============================================================================
