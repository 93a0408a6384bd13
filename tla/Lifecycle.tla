------------------------------- MODULE Lifecycle -------------------------------
(***************************************************************************)
(* The life of the g-mand process: run (cmd/g-mand/main.go) starts the     *)
(* gRPC server and then Daemon.Run, which waits for a passphrase if the    *)
(* configuration is encrypted, starts the client and logs on; a stop       *)
(* request, a signal or a failure of Run leads to GracefulStop, which      *)
(* waits for every handler, and to Daemon.Close.                           *)
(*                                                                         *)
(* The goroutines are the main one, one per request in progress            *)
(* (GuardUnlock, GuardSubmitAuthCode, StreamEvents, StopDaemon), the event *)
(* dispatcher and the one StopDaemon spawns.  unlockChan is unbuffered: sending and receiving *)
(* are one step.  Each request brings a result channel of its own, with    *)
(* room for one answer.                                                    *)
(***************************************************************************)
EXTENDS Naturals

CONSTANTS
  Clients,       \* the handler goroutines
  Configurations,\* the ways the secrets may be kept when the daemon starts
  Faults,        \* what may fail: "config" configureGuardian, "file" reading or
                 \* parsing the maFile, "start" and "login" the steps of Run
  MaxRequests,   \* bound: requests in a behaviour
  MaxAsks        \* bound: how often Steam asks for a code

\* In the clear, in an encrypted maFile, or as ENC: values of the environment.
SecretKinds == {"clear", "maFile", "values"}
LifecycleFaults == {"config", "file", "start", "login"}
Passphrases == {"right", "wrong"}

ASSUME LifecycleAssumption ==
  /\ Configurations \subseteq SecretKinds
  /\ Faults \subseteq LifecycleFaults
  /\ MaxRequests \in Nat /\ MaxAsks \in Nat

VARIABLES
  main,        \* the main goroutine: where it is, whose unlock request it holds
  isLocked,    \* Daemon.isLocked
  kept,        \* how the secrets are kept (never changes)
  secrets,     \* Daemon.cfg: its secrets are encrypted, plain, or plain and handed
               \* to the guardian module
  handler,     \* per request goroutine: where it is, the passphrase it carries
  resChan,     \* per request: its result channel
  answer,      \* per client: the answer to its last unlock request
  stopping,    \* a goroutine of StopDaemon is about to cancel shutdownCtx
  cancelled,   \* shutdownCtx is done
  failed,      \* Run returned an error
  dispatcher,  \* the handleEvents goroutine
  requests,    \* how much of MaxRequests is used
  asked,       \* the last time Steam asked for a code, counted from 1
  handled,     \* the last of these events the dispatcher has handled
  waiting,     \* the ask the login waits for, or 0
  slot         \* Daemon.activeAuthCallback: the ask it answers, or 0

shutdownVars == <<stopping, cancelled>>
unlockVars == <<isLocked, kept, secrets>>
requestVars == <<handler, resChan, answer, requests>>
authVars == <<asked, handled, waiting, slot>>
vars == <<main, unlockVars, requestVars, shutdownVars, failed, dispatcher, authVars>>

MainPC == {"unlock", "decrypt", "configure", "accept", "refuse",
           "start", "login", "up", "drain", "close", "exited"}
HandlerPC == {"idle", "unlock.send", "unlock.wait", "stream"}
Results == {"empty", "ok", "error"}
Answers == {"none", "already", "unlocked", "refused"}

At(c, pc) == handler[c].pc = pc
MainAt(pc) == main.pc = pc
MainGoto(pc) == main' = [main EXCEPT !.pc = pc]
Enter(c, pc, pass) == handler' = [handler EXCEPT ![c] = [pc |-> pc, pass |-> pass]]
Return(c) == handler' = [handler EXCEPT ![c].pc = "idle"]

-----------------------------------------------------------------------------
(* Daemon.Run: the unlock loop                                             *)

\* The select of handleUnlockLoop takes a request from unlockChan.
ReceiveUnlock(c) ==
  /\ MainAt("unlock")
  /\ At(c, "unlock.send")
  /\ main' = [pc |-> "decrypt", client |-> c]
  /\ Enter(c, "unlock.wait", handler[c].pass)
  /\ UNCHANGED <<unlockVars, resChan, answer, requests, shutdownVars, failed, dispatcher, authVars>>

\* Run returns an error; main goes on to stop, without cancelling shutdownCtx.
RunFails ==
  /\ failed' = TRUE
  /\ MainGoto("drain")
  /\ waiting' = 0
  /\ UNCHANGED <<unlockVars, requestVars, shutdownVars, dispatcher, asked, handled, slot>>

UnlockCancelled ==
  /\ MainAt("unlock")
  /\ cancelled
  /\ RunFails

\* A passphrase decrypts what it encrypted; a value that is no longer encrypted is
\* taken as it is, but a maFile is read and decrypted again every time.
Decrypts(pass) == pass = "right" \/ (kept # "maFile" /\ secrets # "encrypted")

Decrypt ==
  /\ MainAt("decrypt")
  /\ \/ /\ Decrypts(handler[main.client].pass)
        /\ secrets' = "plain"
        /\ isLocked' = FALSE
        /\ UNCHANGED kept
        /\ MainGoto("configure")
     \/ /\ ~Decrypts(handler[main.client].pass) \/ (kept = "maFile" /\ "file" \in Faults)
        /\ MainGoto("refuse")
        /\ UNCHANGED unlockVars
  /\ UNCHANGED <<requestVars, shutdownVars, failed, dispatcher, authVars>>

\* Mutant: a failed configuration does not lock the daemon again.
Configure_NoRelock ==
  /\ MainAt("configure")
  /\ \/ secrets' = "configured" /\ MainGoto("accept") /\ UNCHANGED isLocked
     \/ "config" \in Faults /\ MainGoto("refuse") /\ UNCHANGED <<isLocked, secrets>>
  /\ UNCHANGED <<kept, requestVars, shutdownVars, failed, dispatcher, authVars>>

Configure ==
  /\ MainAt("configure")
  /\ \/ secrets' = "configured" /\ MainGoto("accept") /\ UNCHANGED isLocked
     \/ "config" \in Faults /\ isLocked' = TRUE /\ MainGoto("refuse") /\ UNCHANGED secrets
  /\ UNCHANGED <<kept, requestVars, shutdownVars, failed, dispatcher, authVars>>

\* Mutant: the error is not sent back, the loop just goes on.
AnswerUnlock_OnlySuccess ==
  /\ MainAt("accept") \/ MainAt("refuse")
  /\ resChan' = IF MainAt("accept") THEN [resChan EXCEPT ![main.client] = "ok"] ELSE resChan
  /\ MainGoto(IF isLocked THEN "unlock" ELSE "start")
  /\ UNCHANGED <<unlockVars, handler, answer, requests, shutdownVars, failed, dispatcher, authVars>>

AnswerUnlock ==
  /\ MainAt("accept") \/ MainAt("refuse")
  /\ resChan' = [resChan EXCEPT ![main.client] = IF MainAt("accept") THEN "ok" ELSE "error"]
  /\ MainGoto(IF isLocked THEN "unlock" ELSE "start")
  /\ UNCHANGED <<unlockVars, handler, answer, requests, shutdownVars, failed, dispatcher, authVars>>

-----------------------------------------------------------------------------
(* Daemon.Run: the client, and the wait of main                            *)

\* client.Run, the discovery of a server, the subscription and the dispatcher.
Start ==
  /\ MainAt("start")
  /\ \/ /\ dispatcher' = "running"
        /\ MainGoto("login")
        /\ UNCHANGED <<unlockVars, requestVars, shutdownVars, failed, authVars>>
     \/ ("start" \in Faults \/ cancelled) /\ RunFails

Login ==
  /\ MainAt("login")
  /\ \/ /\ waiting = 0
        /\ MainGoto("up")
        /\ UNCHANGED <<unlockVars, requestVars, shutdownVars, failed, dispatcher, authVars>>
     \/ ("login" \in Faults \/ cancelled) /\ RunFails

\* Steam asks for a Steam Guard code, of a login or of one made again later; the event
\* with the callback is queued for the dispatcher.
AskForCode ==
  /\ MainAt("login") \/ MainAt("up")
  /\ waiting = 0 /\ asked < MaxAsks
  /\ asked' = asked + 1
  /\ waiting' = asked + 1
  /\ UNCHANGED <<main, unlockVars, requestVars, shutdownVars, failed, dispatcher, handled, slot>>

\* The user confirms the login in the mobile app, or it is given up.
ConfirmedInApp ==
  /\ waiting # 0
  /\ waiting' = 0
  /\ UNCHANGED <<main, unlockVars, requestVars, shutdownVars, failed, dispatcher, asked, handled, slot>>

AwaitShutdown ==
  /\ MainAt("up")
  /\ cancelled
  /\ MainGoto("drain")
  /\ UNCHANGED <<unlockVars, requestVars, shutdownVars, failed, dispatcher, authVars>>

\* GracefulStop accepts no request and returns once every handler has.
GracefulStop ==
  /\ MainAt("drain")
  /\ \A c \in Clients : At(c, "idle")
  /\ MainGoto("close")
  /\ UNCHANGED <<unlockVars, requestVars, shutdownVars, failed, dispatcher, authVars>>

\* Close has unsubscribed and waits for the dispatcher, then ends the session.
Close ==
  /\ MainAt("close")
  /\ dispatcher # "running"
  /\ MainGoto("exited")
  /\ UNCHANGED <<unlockVars, requestVars, shutdownVars, failed, dispatcher, authVars>>

\* Mutant: the loop looks only at its context.
DispatcherReturn_OnlyContext ==
  /\ dispatcher = "running"
  /\ cancelled
  /\ dispatcher' = "done"
  /\ UNCHANGED <<main, unlockVars, requestVars, shutdownVars, failed, authVars>>

\* The context is done, or Close has closed the subscription.
DispatcherReturn ==
  /\ dispatcher = "running"
  /\ cancelled \/ MainAt("close")
  /\ dispatcher' = "done"
  /\ UNCHANGED <<main, unlockVars, requestVars, shutdownVars, failed, authVars>>

\* Mutant: a callback that is there already is kept.
SteamGuardRequired_KeepsFirst ==
  /\ dispatcher = "running"
  /\ handled < asked
  /\ handled' = handled + 1
  /\ slot' = IF slot = 0 THEN handled + 1 ELSE slot
  /\ UNCHANGED <<main, unlockVars, requestVars, shutdownVars, failed, dispatcher, asked, waiting>>

SteamGuardRequired ==
  /\ dispatcher = "running"
  /\ handled < asked
  /\ handled' = handled + 1
  /\ slot' = handled + 1
  /\ UNCHANGED <<main, unlockVars, requestVars, shutdownVars, failed, dispatcher, asked, waiting>>

-----------------------------------------------------------------------------
(* The handlers                                                            *)

ServerUp == ~(MainAt("drain") \/ MainAt("close") \/ MainAt("exited"))

Accept(c) ==
  /\ ServerUp
  /\ At(c, "idle")
  /\ requests < MaxRequests
  /\ requests' = requests + 1

GuardUnlock(c, pass) ==
  /\ Accept(c)
  /\ \/ /\ ~isLocked
        /\ answer' = [answer EXCEPT ![c] = "already"]
        /\ UNCHANGED handler
     \/ /\ isLocked
        /\ Enter(c, "unlock.send", pass)
        /\ UNCHANGED answer
  /\ UNCHANGED <<main, unlockVars, resChan, shutdownVars, failed, dispatcher, authVars>>

\* Mutant: the answer is the result as it came through the channel.
Answered_Raw(r) == r

Answered(r) == IF r = "ok" THEN "unlocked" ELSE "refused"

\* Mutant: one result channel for all requests; whoever waits takes the result.
UnlockResult_Shared(c) ==
  /\ At(c, "unlock.wait")
  /\ \E k \in Clients :
       /\ resChan[k] # "empty"
       /\ answer' = [answer EXCEPT ![c] = Answered(resChan[k])]
       /\ resChan' = [resChan EXCEPT ![k] = "empty"]
  /\ Return(c)
  /\ UNCHANGED <<main, unlockVars, requests, shutdownVars, failed, dispatcher, authVars>>

UnlockResult(c) ==
  /\ At(c, "unlock.wait")
  /\ resChan[c] # "empty"
  /\ answer' = [answer EXCEPT ![c] = Answered(resChan[c])]
  /\ resChan' = [resChan EXCEPT ![c] = "empty"]
  /\ Return(c)
  /\ UNCHANGED <<main, unlockVars, requests, shutdownVars, failed, dispatcher, authVars>>

\* The callback is taken, and called: a code for an ask that nobody waits for any more
\* is lost.  Without a callback the request is refused.
GuardSubmitAuthCode(c) ==
  /\ Accept(c)
  /\ slot' = 0
  /\ waiting' = IF waiting = slot THEN 0 ELSE waiting
  /\ UNCHANGED <<main, unlockVars, handler, resChan, answer, shutdownVars, failed, dispatcher,
                 asked, handled>>

StreamEvents(c) ==
  /\ Accept(c)
  /\ Enter(c, "stream", handler[c].pass)
  /\ UNCHANGED <<main, unlockVars, resChan, answer, shutdownVars, failed, dispatcher, authVars>>

StreamDisconnected(c) ==
  /\ At(c, "stream")
  /\ Return(c)
  /\ UNCHANGED <<main, unlockVars, resChan, answer, requests, shutdownVars, failed, dispatcher, authVars>>

\* Mutant: the stream ends only when its client goes away.
StreamShutdown_Ignored(c) ==
  /\ At(c, "stream")
  /\ cancelled
  /\ UNCHANGED vars

StreamShutdown(c) ==
  /\ At(c, "stream")
  /\ cancelled
  /\ Return(c)
  /\ UNCHANGED <<main, unlockVars, resChan, answer, requests, shutdownVars, failed, dispatcher, authVars>>

StopDaemon(c) ==
  /\ Accept(c)
  /\ stopping' = TRUE
  /\ UNCHANGED <<main, unlockVars, handler, resChan, answer, cancelled, failed, dispatcher, authVars>>

StopFires ==
  /\ stopping
  /\ stopping' = FALSE
  /\ cancelled' = TRUE
  /\ UNCHANGED <<main, unlockVars, requestVars, failed, dispatcher, authVars>>

\* SIGINT or SIGTERM; only the first is read from the channel.
Signal ==
  /\ ~cancelled
  /\ ~MainAt("exited")
  /\ cancelled' = TRUE
  /\ UNCHANGED <<main, unlockVars, requestVars, stopping, failed, dispatcher, authVars>>

-----------------------------------------------------------------------------
Init ==
  /\ kept \in Configurations
  /\ isLocked = (kept # "clear")
  /\ secrets = IF isLocked THEN "encrypted" ELSE "configured"
  /\ \E c \in Clients : main = [pc |-> IF isLocked THEN "unlock" ELSE "start", client |-> c]
  /\ handler = [c \in Clients |-> [pc |-> "idle", pass |-> "right"]]
  /\ resChan = [c \in Clients |-> "empty"]
  /\ answer = [c \in Clients |-> "none"]
  /\ stopping = FALSE
  /\ cancelled = FALSE
  /\ failed = FALSE
  /\ dispatcher = "none"
  /\ requests = 0
  /\ asked = 0 /\ handled = 0 /\ waiting = 0 /\ slot = 0

Run ==
  \/ \E c \in Clients : ReceiveUnlock(c)
  \/ UnlockCancelled \/ Decrypt \/ Configure \/ AnswerUnlock
  \/ Start \/ Login \/ AwaitShutdown \/ GracefulStop \/ Close

Request(c) ==
  \/ \E pass \in Passphrases : GuardUnlock(c, pass)
  \/ GuardSubmitAuthCode(c) \/ StreamEvents(c) \/ StopDaemon(c)

Next ==
  \/ Run
  \/ AskForCode \/ ConfirmedInApp
  \/ SteamGuardRequired \/ DispatcherReturn
  \/ \E c \in Clients :
       Request(c) \/ UnlockResult(c) \/ StreamDisconnected(c) \/ StreamShutdown(c)
  \/ StopFires
  \/ Signal

Spec == Init /\ [][Next]_vars

\* Every goroutine that can move does: the calls of Run end, by their contexts.
\* No client is obliged to send a request or to leave its stream, and nobody to give
\* Steam the code it asks for.
Fairness ==
  /\ WF_vars(Run)
  /\ WF_vars(SteamGuardRequired) /\ WF_vars(DispatcherReturn)
  /\ WF_vars(StopFires)
  /\ \A c \in Clients : WF_vars(UnlockResult(c)) /\ WF_vars(StreamShutdown(c))

FairSpec == Spec /\ Fairness

-----------------------------------------------------------------------------
(* Properties                                                              *)

AuthTypeOK ==
  /\ asked \in 0 .. MaxAsks
  /\ handled \in 0 .. asked
  /\ waiting \in 0 .. asked
  /\ slot \in 0 .. handled

\* Every variable stays in its domain: the dispatcher is never ahead of Steam, and
\* the callback is one of an event it has handled.
TypeOK ==
  /\ main \in [pc : MainPC, client : Clients]
  /\ isLocked \in BOOLEAN
  /\ kept \in SecretKinds
  /\ secrets \in {"encrypted", "plain", "configured"}
  /\ handler \in [Clients -> [pc : HandlerPC, pass : Passphrases]]
  /\ resChan \in [Clients -> Results]
  /\ answer \in [Clients -> Answers]
  /\ stopping \in BOOLEAN
  /\ cancelled \in BOOLEAN
  /\ failed \in BOOLEAN
  /\ dispatcher \in {"none", "running", "done"}
  /\ requests \in 0 .. MaxRequests
  /\ AuthTypeOK

\* However many operators unlock at once, the one who is told that the daemon was
\* unlocked brought the passphrase that does it: results are not mixed up between
\* requests (GuardUnlock and handleUnlockLoop; for a maFile, which is decrypted
\* anew at every attempt).
AnswerOwnAttempt ==
  kept = "maFile" => \A c \in Clients : answer[c] = "unlocked" => handler[c].pass = "right"

\* The client is started and logs on only with decrypted secrets that the guardian
\* module has accepted, whatever failed on the way (Daemon.Run, daemon.go:209).
ServiceNeedsUnlock ==
  main.pc \in {"start", "login", "up"} => ~isLocked /\ secrets = "configured"

\* An unlock request in progress gets an answer (GuardUnlock; the Daemon is "safe
\* for concurrent RPC handler invocations", daemon.go:70).
UnlockAnswered ==
  []~cancelled => \A c \in Clients : At(c, "unlock.send") ~> At(c, "idle")

UnlockLoop == {"unlock", "decrypt", "configure", "accept", "refuse"}

\* Whatever fails, and even if the daemon is shut down meanwhile, an unlock request
\* gets its answer unless the loop has ended before it was received.
UnlockAnsweredInTime ==
  \A c \in Clients :
    At(c, "unlock.send") ~>
      (At(c, "idle") \/ (At(c, "unlock.send") /\ main.pc \notin UnlockLoop))

\* Once a stop request or a signal has cancelled the context, the process exits,
\* whatever streams are open and whatever fails ("StopDaemon schedules an
\* asynchronous graceful shutdown", daemon.go:611); only an unlock request that
\* nobody receives can prevent it.
ShutdownCompletes ==
  []<>(\A c \in Clients : ~At(c, "unlock.send")) => (cancelled ~> MainAt("exited"))

\* If Run fails and the clients leave their streams in the end, the process exits
\* even though nobody cancels the context: Close makes the dispatcher return.
FailureExits ==
  <>[](failed /\ \A c \in Clients : handler[c].pc \notin {"stream", "unlock.send"})
    => <>MainAt("exited")

\* While a login waits for a code, sooner or later a code can be submitted to it, even
\* if an earlier one was confirmed in the app and its callback was never used
\* (handleEvents, events.go:131; GuardSubmitAuthCode, guard.go:334).
CodeCanBeSubmitted ==
  \A n \in 1 .. MaxAsks :
    waiting = n ~> (waiting # n \/ slot = n \/ dispatcher # "running")
=============================================================================
