-------------------------------- MODULE Requests --------------------------------
(***************************************************************************)
(* One-shot requests: the processes of g-mand that are started one after   *)
(* the other or next to each other (run in cmd/g-mand/main.go, the IPC     *)
(* listener in grpc.go), the commands of gmanctl that find one of them and *)
(* wait for its answer, and the calls to Steam made on their behalf.       *)
(*                                                                         *)
(* A Unix address is a path: whoever listens names it last, whoever closes *)
(* its listener or leaves removes it, even if another has it by then.  A   *)
(* TCP address belongs to its listener.                                    *)
(***************************************************************************)
EXTENDS Naturals, FiniteSets, Endpoint, Actions, WebRequests

CONSTANTS
  Clients,     \* invocations of gmanctl
  Commands,    \* the command lines
  Menus,       \* who may type what: from names to functions from Clients to sets
  Scopes,      \* the settings a behaviour may have: see ScopeOK
  MaxStarts,   \* bound: processes started
  Nobody,      \* no process
  MaxRetries,  \* maxRetries of the driver
  MaxLost      \* bound: answers of Steam that are lost, per request

Processes == 1 .. MaxStarts

\* The machine, the environments of g-mand and of gmanctl, how many processes are
\* started, and the menu.
ScopeOK(s) ==
  /\ s.host \in Hosts /\ s.daemon \in DaemonEnvironments /\ s.gmanctl \in Environments
  /\ s.starts \in 0 .. MaxStarts
  /\ s.menu \in DOMAIN Menus

\* Of the actions that are defined, those whose handler makes one call to Steam or none:
\* the actions on items are in Backpack.
OneCall == Retried \cup FromMemory \cup {"check-escrow"}
Typeable(command) ==
  command.verb = "exec" /\ ~Local(command) =>
    \A def \in Defined : def.name = ExecAction(command) => def.name \in OneCall

ASSUME RequestsAssumption ==
  /\ MaxStarts \in Nat /\ MaxRetries \in Nat /\ MaxLost \in Nat
  /\ Commands # {} /\ Menus \in [DOMAIN Menus -> [Clients -> SUBSET Commands]]
  /\ \A command \in Commands : Typeable(command)
  /\ Nobody \notin Processes
  /\ \A s \in Scopes : ScopeOK(s)

VARIABLES
  scope,       \* the setting (never changes)
  proc,        \* per process: where its main goroutine is, or how it ended
  named,       \* the process whose listener the daemon's address names
  met,         \* processes that were alive at the same time as another one
  stopping,    \* processes that were asked to stop and will be cancelled
  pc,          \* per client: where its request is
  cmd,         \* per client: its command
  at,          \* per client: the process its request went to
  attempt,     \* per client: attempts made in the loop of retry.go before this one
  result,      \* per client: what its handler returns
  told,        \* per client: what the user was told
  received,    \* per client: how often Steam took what was sent for it
  lost         \* per client: how often Steam's answer was lost

processVars == <<proc, named, met, stopping>>
clientVars == <<pc, cmd, at, attempt, result, told, received, lost>>
vars == <<scope, processVars, clientVars>>

ProcessPC == {"new", "prepare", "listen", "create", "serve", "drain", "ended", "barred", "killed"}
ClientPC == {"idle", "accepted", "call", "wait", "post", "reply", "done"}
Results == {"none", "ok", "error", "turned"}
Told == {"none", "ok", "error", "refused", "usage", "unavailable", "lost", "left"}

Alive(p) == proc[p] \notin {"new", "ended", "barred", "killed"}
Listening(p) == proc[p] \in {"create", "serve"}
Address == DaemonAddress(scope.host, scope.daemon)
Unix == Address.net = "unix"
InHandler(c) == pc[c] \in {"call", "wait", "post", "reply"}
Goto(p, to) == proc' = [proc EXCEPT ![p] = to]

-----------------------------------------------------------------------------
(* The processes of g-mand                                                 *)

\* The configuration and the store are read before the address is touched.
Start(p) ==
  /\ p <= scope.starts
  /\ proc[p] = "new" /\ \A q \in Processes : q < p => proc[q] # "new"
  /\ Goto(p, "prepare")
  /\ LET others == {q \in Processes : Alive(q)}
     IN met' = IF others = {} THEN met ELSE met \cup others \cup {p}
  /\ UNCHANGED <<scope, named, stopping, clientVars>>

\* Mutant: the file at the path is left where it is.
PrepareUnixSocket_Kept(p) ==
  /\ proc[p] = "prepare"
  /\ Goto(p, "listen")
  /\ UNCHANGED <<scope, named, met, stopping, clientVars>>

\* prepareUnixSocket removes whatever is at the path, or cannot and run ends.
PrepareUnixSocket(p) ==
  /\ proc[p] = "prepare"
  /\ \/ Goto(p, "listen") /\ named' = (IF Unix THEN Nobody ELSE named)
     \/ Unix /\ Goto(p, "ended") /\ UNCHANGED named
  /\ UNCHANGED <<scope, met, stopping, clientVars>>

Listen(p) ==
  /\ proc[p] = "listen"
  /\ \/ named = Nobody /\ Goto(p, "create") /\ named' = p
     \/ named # Nobody /\ Goto(p, "barred") /\ UNCHANGED named
  /\ UNCHANGED <<scope, met, stopping, clientVars>>

\* The address after p's listener was closed by the system: the file stays.
Freed(p) == IF named = p /\ ~Unix THEN Nobody ELSE named

\* If NewDaemon fails, run returns: nobody closes the listener or removes the file.
NewDaemon(p) ==
  /\ proc[p] = "create"
  /\ \/ Goto(p, "serve") /\ UNCHANGED named
     \/ Goto(p, "ended") /\ named' = Freed(p)
  /\ UNCHANGED <<scope, met, stopping, clientVars>>

\* GracefulStop closes the listener, which removes its path.
CloseListener(p) ==
  /\ proc[p] = "serve"
  /\ Goto(p, "drain")
  /\ named' = IF Unix \/ named = p THEN Nobody ELSE named
  /\ UNCHANGED <<scope, met, stopping, clientVars>>

StopFires(p) == p \in stopping /\ CloseListener(p)

\* SIGINT, SIGTERM, or a failure of Daemon.Run.
Interrupted(p) == CloseListener(p)

\* Mutant: Stop, which waits for no handler.
GracefulStop_Stop(p) ==
  /\ proc[p] = "drain"
  /\ Goto(p, "ended")
  /\ named' = IF Unix THEN Nobody ELSE named
  /\ pc' = [c \in Clients |-> IF at[c] = p /\ InHandler(c) THEN "done" ELSE pc[c]]
  /\ told' = [c \in Clients |->
                IF at[c] = p /\ InHandler(c) /\ told[c] = "none" THEN "lost" ELSE told[c]]
  /\ UNCHANGED <<scope, met, stopping, cmd, at, attempt, result, received, lost>>

\* GracefulStop has waited for the handlers; run removes the path once more.
GracefulStop(p) ==
  /\ proc[p] = "drain"
  /\ \A c \in Clients : at[c] = p => ~InHandler(c)
  /\ Goto(p, "ended")
  /\ named' = IF Unix THEN Nobody ELSE named
  /\ UNCHANGED <<scope, met, stopping, clientVars>>

\* The process dies; the requests it was working for break off.
Kill(p) ==
  /\ Alive(p)
  /\ Goto(p, "killed")
  /\ named' = Freed(p)
  /\ pc' = [c \in Clients |-> IF at[c] = p /\ InHandler(c) THEN "done" ELSE pc[c]]
  /\ told' = [c \in Clients |->
                IF at[c] = p /\ InHandler(c) /\ told[c] = "none" THEN "lost" ELSE told[c]]
  /\ UNCHANGED <<scope, met, stopping, cmd, at, attempt, result, received, lost>>

-----------------------------------------------------------------------------
(* gmanctl                                                                 *)

Answer(c, answer) ==
  /\ pc' = [pc EXCEPT ![c] = "done"]
  /\ told' = [told EXCEPT ![c] = IF told[c] = "none" THEN answer ELSE told[c]]

Reaches(p) ==
  /\ p = named /\ Listening(p)
  /\ ClientAddress(scope.host, scope.gmanctl) = Address

Misused(command) ==
  \/ command.verb = "exec" /\ ExecMisused(command)
  \/ command.verb = "request" /\ RequestMisused(command)

Run(c, command) ==
  /\ pc[c] = "idle"
  /\ cmd' = [cmd EXCEPT ![c] = command]
  /\ \/ /\ Misused(command)
        /\ Answer(c, "usage")
        /\ UNCHANGED at
     \/ /\ ~Misused(command)
        /\ ~\E p \in Processes : Reaches(p)
        /\ Answer(c, "unavailable")
        /\ UNCHANGED at
     \/ /\ ~Misused(command)
        /\ \E p \in Processes : Reaches(p) /\ at' = [at EXCEPT ![c] = p]
        /\ pc' = [pc EXCEPT ![c] = "accepted"]
        /\ UNCHANGED told
  /\ UNCHANGED <<scope, processVars, attempt, result, received, lost>>

\* The connection waits for a server that does not serve any more.
Rejected(c) ==
  /\ pc[c] = "accepted" /\ ~Listening(at[c])
  /\ Answer(c, "unavailable")
  /\ UNCHANGED <<scope, processVars, cmd, at, attempt, result, received, lost>>

\* The user interrupts the command, or its five minutes are over: the handler's
\* context is cancelled.
Leave(c) ==
  /\ pc[c] = "accepted" \/ InHandler(c)
  /\ told[c] = "none"
  /\ told' = [told EXCEPT ![c] = "left"]
  /\ UNCHANGED <<scope, processVars, pc, cmd, at, attempt, result, received, lost>>

-----------------------------------------------------------------------------
(* The handlers                                                            *)

Handled(c) == pc[c] = "accepted" /\ proc[at[c]] = "serve"

StopDaemon(c) ==
  /\ Handled(c)
  /\ cmd[c].verb = "stop"
  /\ stopping' = stopping \cup {at[c]}
  /\ pc' = [pc EXCEPT ![c] = "reply"]
  /\ result' = [result EXCEPT ![c] = "ok"]
  /\ UNCHANGED <<scope, proc, named, met, cmd, at, attempt, told, received, lost>>

LocalAction(c) ==
  /\ Handled(c)
  /\ cmd[c].verb = "exec" /\ Local(cmd[c])
  /\ pc' = [pc EXCEPT ![c] = "reply"]
  /\ result' = [result EXCEPT ![c] = "ok"]
  /\ UNCHANGED <<scope, processVars, cmd, at, attempt, told, received, lost>>

\* What the daemon checks before it calls Steam, for the game it believes to be
\* running and whether the web session is logged in.
Accepted(command, playing, loggedIn) ==
  IF command.verb = "exec" THEN ExecAccepted(command, playing)
  ELSE RequestAccepted(command, loggedIn)

\* The request needs Steam.
Remote(command) ==
  /\ command.verb # "stop"
  /\ command.verb = "exec" => ~Local(command) /\ ExecAction(command) \notin FromMemory

Dispatch(c) ==
  /\ Handled(c)
  /\ cmd[c].verb # "stop" /\ ~(cmd[c].verb = "exec" /\ Local(cmd[c]))
  /\ \E playing \in {"none", TF2}, loggedIn \in BOOLEAN :
       \/ /\ Accepted(cmd[c], playing, loggedIn)
          /\ Remote(cmd[c])
          /\ pc' = [pc EXCEPT ![c] = "call"]
          /\ UNCHANGED <<result, told>>
       \/ /\ Accepted(cmd[c], playing, loggedIn)
          /\ ~Remote(cmd[c])
          /\ pc' = [pc EXCEPT ![c] = "reply"]
          /\ \E r \in {"ok", "error"} : result' = [result EXCEPT ![c] = r]
          /\ UNCHANGED told
       \/ /\ ~Accepted(cmd[c], playing, loggedIn)
          /\ Answer(c, "refused")
          /\ UNCHANGED result
  /\ UNCHANGED <<scope, processVars, cmd, at, attempt, received, lost>>

Is(c, action) == cmd[c].verb = "exec" /\ cmd[c].action = action
Retries(c) == IF cmd[c].verb = "exec" /\ cmd[c].action \in Retried THEN MaxRetries ELSE 0

\* The handler goes on with r; cancel-offer has a second way to try.
Ends(c, r) ==
  /\ pc' = [pc EXCEPT ![c] = IF Is(c, "cancel-offer") THEN "post" ELSE "reply"]
  /\ result' = [result EXCEPT ![c] = r]

\* Mutant: one attempt too many.
Delay_OneMore(c) ==
  /\ attempt[c] <= Retries(c)
  /\ pc' = [pc EXCEPT ![c] = "wait"]
  /\ UNCHANGED result

Delay(c) ==
  /\ attempt[c] < Retries(c)
  /\ pc' = [pc EXCEPT ![c] = "wait"]
  /\ UNCHANGED result

Got(c) == received' = [received EXCEPT ![c] = @ + 1]
AnswerLost(c) == lost[c] < MaxLost /\ lost' = [lost EXCEPT ![c] = @ + 1]

\* One call to Steam: done; not done, with an error that may be worth a retry (5xx,
\* 429) or not; or done with an answer that is lost.  Of a generic request no answer of
\* Steam is an error, whatever EResult or HTTP status it has: it may be turned down.
Call(c) ==
  /\ pc[c] = "call"
  /\ \/ Got(c) /\ Ends(c, "ok") /\ UNCHANGED lost
     \/ (Delay(c) \/ Ends(c, "error")) /\ UNCHANGED <<received, lost>>
     \/ Got(c) /\ AnswerLost(c) /\ (Delay(c) \/ Ends(c, "error"))
     \/ Is(c, "check-escrow") /\ Ends(c, "ok") /\ UNCHANGED <<received, lost>>   \* our own
     \/ cmd[c].verb = "request" /\ Ends(c, "turned") /\ UNCHANGED <<received, lost>>
  /\ UNCHANGED <<scope, processVars, cmd, at, attempt, told>>

\* Mutant: the attempts are not counted.
Backoff_Uncounted(c) ==
  /\ pc[c] = "wait"
  /\ pc' = [pc EXCEPT ![c] = "call"]
  /\ UNCHANGED <<scope, processVars, cmd, at, attempt, result, told, received, lost>>

Backoff(c) ==
  /\ pc[c] = "wait"
  /\ pc' = [pc EXCEPT ![c] = "call"]
  /\ attempt' = [attempt EXCEPT ![c] = @ + 1]
  /\ UNCHANGED <<scope, processVars, cmd, at, result, told, received, lost>>

GiveUp(c) ==
  /\ pc[c] = "wait" /\ told[c] = "left"
  /\ Ends(c, "error")
  /\ UNCHANGED <<scope, processVars, cmd, at, attempt, told, received, lost>>

\* cancel-offer asks the community pages too, whatever the loop came to; an error whose
\* text has certain words is a success, whatever it means (TradeOffers has the offer).
PostCancel(c) ==
  /\ pc[c] = "post"
  /\ pc' = [pc EXCEPT ![c] = "reply"]
  /\ \/ Got(c) /\ result' = [result EXCEPT ![c] = "ok"] /\ UNCHANGED lost
     \/ Got(c) /\ AnswerLost(c) /\ UNCHANGED result
     \/ UNCHANGED <<result, received, lost>>
     \/ result' = [result EXCEPT ![c] = "ok"] /\ UNCHANGED <<received, lost>>
  /\ UNCHANGED <<scope, processVars, cmd, at, attempt, told>>

\* gmanctl tells of a success when the daemon answered with Success.
Reply(c) ==
  /\ pc[c] = "reply"
  /\ Answer(c, IF result[c] = "turned" THEN "ok" ELSE result[c])
  /\ UNCHANGED <<scope, processVars, cmd, at, attempt, result, received, lost>>

-----------------------------------------------------------------------------
Init ==
  /\ scope \in Scopes
  /\ proc = [p \in Processes |-> "new"]
  /\ named = Nobody
  /\ met = {} /\ stopping = {}
  /\ pc = [c \in Clients |-> "idle"]
  /\ cmd = [c \in Clients |-> CHOOSE command \in Commands : TRUE]
  /\ at = [c \in Clients |-> Nobody]
  /\ attempt = [c \in Clients |-> 0]
  /\ result = [c \in Clients |-> "none"]
  /\ told = [c \in Clients |-> "none"]
  /\ received = [c \in Clients |-> 0]
  /\ lost = [c \in Clients |-> 0]

\* The steps of run that wait for nothing but a stop.
Step(p) ==
  PrepareUnixSocket(p) \/ Listen(p) \/ NewDaemon(p) \/ StopFires(p) \/ GracefulStop(p)

Handler(c) ==
  \/ Rejected(c)
  \/ StopDaemon(c) \/ LocalAction(c) \/ Dispatch(c)
  \/ Call(c) \/ Backoff(c) \/ GiveUp(c) \/ PostCancel(c) \/ Reply(c)

Next ==
  \/ \E p \in Processes : Start(p) \/ Step(p) \/ Interrupted(p) \/ Kill(p)
  \/ \E c \in Clients :
       (\E command \in Menus[scope.menu][c] : Run(c, command)) \/ Leave(c) \/ Handler(c)

Spec == Init /\ [][Next]_vars

\* Goroutines that can move do, and each call to Steam ends, well or not.  Nobody is
\* obliged to start a process, to type a command or to lose patience.
Fairness ==
  /\ \A p \in Processes : WF_vars(Step(p))
  /\ \A c \in Clients : WF_vars(Handler(c))

FairSpec == Spec /\ Fairness

-----------------------------------------------------------------------------
(* Properties                                                              *)

\* Every variable stays in its domain.
TypeOK ==
  /\ ScopeOK(scope)
  /\ proc \in [Processes -> ProcessPC]
  /\ named \in Processes \cup {Nobody}
  /\ met \subseteq Processes /\ stopping \subseteq Processes
  /\ pc \in [Clients -> ClientPC]
  /\ cmd \in [Clients -> Commands]
  /\ at \in [Clients -> Processes \cup {Nobody}]
  /\ attempt \in [Clients -> 0 .. MaxRetries]
  /\ result \in [Clients -> Results]
  /\ told \in [Clients -> Told]
  /\ received \in [Clients -> Nat]
  /\ lost \in [Clients -> 0 .. MaxLost]

\* A process that never met another one is not refused its address, whatever crashed
\* processes left there, and while it serves the address names it, so that a gmanctl
\* with agreeing settings reaches it (GetIPCListener, getIPCConnection).
AddressOwned ==
  \A p \in Processes \ met :
    /\ proc[p] # "barred"
    /\ proc[p] = "serve" =>
         /\ named = p
         /\ Agreeing(scope.host, scope.daemon, scope.gmanctl) => Reaches(p)

\* A request that a handler has taken up is answered, even while the daemon shuts
\* down, unless the process is killed (GracefulStop in main.go).
AnswersKept == \A c \in Clients : told[c] = "lost" => proc[at[c]] = "killed"

\* What the user is told is what happened: a success was done (a cancelled offer may
\* have ended otherwise, of an own offer escrow is not known, and of a generic request it
\* only says that Steam answered), what was turned down was not, an error means that
\* nothing was done unless an answer was lost, nothing is done again for another reason,
\* and of what was typed Steam gets what the kind of request takes.
DoneAsTold ==
  \A c \in Clients :
    /\ told[c] = "ok" /\ Remote(cmd[c]) /\ ~Is(c, "cancel-offer") /\ ~Is(c, "check-escrow")
         => received[c] >= 1 \/ (cmd[c].verb = "request" /\ result[c] = "turned")
    /\ told[c] \in {"usage", "unavailable", "refused"} => received[c] = 0
    /\ told[c] = "error" /\ lost[c] = 0 => received[c] = 0
    /\ received[c] <= 1 + lost[c] + (IF Is(c, "cancel-offer") THEN 1 ELSE 0)
    /\ received[c] > 0 /\ cmd[c].verb = "request" =>
         \A sid \in Sessions : AsTyped(cmd[c], sid)

\* A daemon that has told a user that it stops ends, whatever exec, request and stop
\* commands it still works for and however often Steam fails (StopDaemon, daemon.go:612).
StopHonoured ==
  \A p \in Processes :
    (\E c \in Clients : at[c] = p /\ cmd[c].verb = "stop" /\ told[c] = "ok") ~> ~Alive(p)
=============================================================================
