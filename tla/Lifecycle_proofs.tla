--------------------------- MODULE Lifecycle_proofs ---------------------------
(***************************************************************************)
(* Proofs about Lifecycle, for any number of clients and requests and for  *)
(* every choice of what may fail.                                          *)
(***************************************************************************)
EXTENDS Lifecycle, TLAPS

\* The flag and the secrets, by how far the unlock loop and Run have come.
LockFollowsRun ==
  /\ main.pc \in {"unlock", "decrypt", "refuse"} => isLocked
  /\ main.pc = "configure" => ~isLocked
  /\ main.pc \in {"accept", "start", "login", "up"} => ~isLocked /\ secrets = "configured"

Attempting == main.pc \in {"decrypt", "configure", "accept", "refuse"}

\* The attempt being made belongs to a client that waits for its result, and no
\* result lies in the channel of a client that does not wait.
AttemptHeld ==
  /\ Attempting => At(main.client, "unlock.wait") /\ resChan[main.client] = "empty"
  /\ \A c \in Clients : ~At(c, "unlock.wait") => resChan[c] = "empty"

\* A success goes only to a client whose passphrase is right, and ends the loop.
SuccessEarned ==
  kept = "maFile" =>
    /\ main.pc \in {"configure", "accept"} => handler[main.client].pass = "right"
    /\ \A c \in Clients : resChan[c] = "ok" \/ answer[c] = "unlocked" =>
         handler[c].pass = "right" /\ main.pc # "unlock" /\ ~Attempting

LifecycleInv == TypeOK /\ LockFollowsRun /\ AttemptHeld /\ SuccessEarned

LEMMA LifecycleInit == Init => LifecycleInv
<1> SUFFICES ASSUME Init PROVE LifecycleInv
  OBVIOUS
<1>1. /\ main \in [pc : MainPC, client : Clients]
      /\ main.pc = IF isLocked THEN "unlock" ELSE "start"
  BY DEF Init, MainPC
<1>2. \A c \in Clients : handler[c].pc = "idle" /\ resChan[c] = "empty" /\ answer[c] = "none"
  BY DEF Init
<1>3. TypeOK
  <2>1. /\ isLocked \in BOOLEAN /\ kept \in SecretKinds
        /\ secrets \in {"encrypted", "plain", "configured"}
    BY LifecycleAssumption DEF Init
  <2>2. /\ handler \in [Clients -> [pc : HandlerPC, pass : Passphrases]]
        /\ resChan \in [Clients -> Results]
        /\ answer \in [Clients -> Answers]
    BY DEF Init, HandlerPC, Results, Answers, Passphrases
  <2>3. /\ stopping \in BOOLEAN /\ cancelled \in BOOLEAN /\ failed \in BOOLEAN
        /\ dispatcher \in {"none", "running", "done"}
    BY DEF Init
  <2>4. requests = 0 /\ MaxRequests \in Nat
    BY LifecycleAssumption DEF Init
  <2>5. requests \in 0 .. MaxRequests
    BY <2>4
  <2>6. AuthTypeOK
    <3>1. asked = 0 /\ handled = 0 /\ waiting = 0 /\ slot = 0 /\ MaxAsks \in Nat
      BY LifecycleAssumption DEF Init
    <3>2. QED  BY <3>1 DEF AuthTypeOK
  <2>7. QED  BY <1>1, <2>1, <2>2, <2>3, <2>5, <2>6 DEF TypeOK
<1>4. LockFollowsRun
  <2>1. CASE kept # "clear"
    <3>1. isLocked = TRUE /\ main.pc = "unlock"
      BY <1>1, <2>1, LifecycleAssumption DEF Init
    <3>2. QED  BY <3>1 DEF LockFollowsRun
  <2>2. CASE kept = "clear"
    <3>1. isLocked = FALSE /\ secrets = "configured" /\ main.pc = "start"
      BY <1>1, <2>2, LifecycleAssumption DEF Init
    <3>2. QED  BY <3>1 DEF LockFollowsRun
  <2>3. QED  BY <2>1, <2>2
<1>5. AttemptHeld /\ SuccessEarned
  BY <1>1, <1>2 DEF AttemptHeld, SuccessEarned, Attempting
<1>6. QED  BY <1>3, <1>4, <1>5 DEF LifecycleInv

\* What a step does to the Steam Guard code: nothing, an ask, an end of the wait, an
\* event handled, or the callback taken.
LEMMA AuthTypeStep == AuthTypeOK /\ [Next]_vars => AuthTypeOK'
<1> SUFFICES ASSUME AuthTypeOK, [Next]_vars PROVE AuthTypeOK'
  OBVIOUS
<1>0. MaxAsks \in Nat /\ asked \in Nat /\ handled \in Nat /\ waiting \in Nat /\ slot \in Nat
  BY LifecycleAssumption DEF AuthTypeOK
<1>1. CASE UNCHANGED authVars
  BY <1>1 DEF AuthTypeOK, authVars
<1>2. CASE waiting' = 0 /\ UNCHANGED <<asked, handled, slot>>
  BY <1>0, <1>2 DEF AuthTypeOK
<1>3. CASE AskForCode
  BY <1>0, <1>3 DEF AuthTypeOK, AskForCode
<1>4. CASE SteamGuardRequired
  BY <1>0, <1>4 DEF AuthTypeOK, SteamGuardRequired
<1>5. CASE slot' = 0 /\ waiting' \in {0, waiting} /\ UNCHANGED <<asked, handled>>
  BY <1>0, <1>5 DEF AuthTypeOK
<1>6. CASE Run
  <2>1. CASE \E c \in Clients : ReceiveUnlock(c)
    BY <2>1, <1>1 DEF ReceiveUnlock
  <2>2. CASE UnlockCancelled
    BY <2>2, <1>2 DEF UnlockCancelled, RunFails
  <2>3. CASE Decrypt \/ Configure \/ AnswerUnlock
    BY <2>3, <1>1 DEF Decrypt, Configure, AnswerUnlock
  <2>4. CASE Start \/ Login
    BY <2>4, <1>1, <1>2 DEF Start, Login, RunFails, authVars
  <2>5. CASE AwaitShutdown \/ GracefulStop \/ Close
    BY <2>5, <1>1 DEF AwaitShutdown, GracefulStop, Close
  <2>6. QED  BY <1>6, <2>1, <2>2, <2>3, <2>4, <2>5 DEF Run
<1>7. ASSUME NEW c \in Clients, Request(c) PROVE AuthTypeOK'
  <2>1. CASE GuardSubmitAuthCode(c)
    BY <2>1, <1>5 DEF GuardSubmitAuthCode
  <2>2. CASE ~GuardSubmitAuthCode(c)
    BY <1>7, <2>2, <1>1 DEF Request, GuardUnlock, StreamEvents, StopDaemon
  <2>3. QED  BY <2>1, <2>2
<1>8. CASE ConfirmedInApp
  BY <1>8, <1>2 DEF ConfirmedInApp
<1>9. CASE DispatcherReturn \/ StopFires \/ Signal \/ UNCHANGED vars
  BY <1>9, <1>1 DEF DispatcherReturn, StopFires, Signal, vars, authVars
<1>10. ASSUME NEW c \in Clients, UnlockResult(c) \/ StreamDisconnected(c) \/ StreamShutdown(c)
       PROVE  AuthTypeOK'
  BY <1>10, <1>1 DEF UnlockResult, StreamDisconnected, StreamShutdown
<1>11. QED
  BY <1>3, <1>4, <1>6, <1>7, <1>8, <1>9, <1>10 DEF Next

\* A step of the main goroutine that answers nobody keeps the invariant if it keeps the
\* relation of flag and secrets, and if it goes on only with an attempt that it holds.
LEMMA MainMoves ==
  ASSUME LifecycleInv, AuthTypeOK', NEW pc \in MainPC \ {"unlock"}, MainGoto(pc),
         UNCHANGED <<kept, requestVars, shutdownVars>>,
         isLocked' \in BOOLEAN, secrets' \in {"encrypted", "plain", "configured"},
         failed' \in BOOLEAN, dispatcher' \in {"none", "running", "done"},
         LockFollowsRun',
         pc \in {"decrypt", "configure", "accept", "refuse"} => Attempting,
         kept = "maFile" /\ pc \in {"configure", "accept"} => handler[main.client].pass = "right"
  PROVE  LifecycleInv'
<1>1. /\ main' \in [pc : MainPC, client : Clients]
      /\ main'.pc = pc /\ main'.client = main.client
  BY DEF LifecycleInv, TypeOK, MainGoto
<1>2. UNCHANGED <<kept, handler, resChan, answer, requests, stopping, cancelled>>
  BY DEF requestVars, shutdownVars
<1>3. TypeOK'
  BY <1>1, <1>2 DEF LifecycleInv, TypeOK
<1>4. AttemptHeld'
  BY <1>1, <1>2 DEF LifecycleInv, AttemptHeld, Attempting, At
<1>5. SuccessEarned'
  BY <1>1, <1>2 DEF LifecycleInv, SuccessEarned, Attempting
<1>6. QED  BY <1>3, <1>4, <1>5 DEF LifecycleInv

\* What a handler's goroutine becomes, and nobody else's.
LEMMA HandlerEnters ==
  ASSUME TypeOK, NEW c \in Clients, NEW pc \in HandlerPC, NEW pass \in Passphrases, Enter(c, pc, pass)
  PROVE  /\ handler' \in [Clients -> [pc : HandlerPC, pass : Passphrases]]
         /\ handler'[c].pc = pc /\ handler'[c].pass = pass
         /\ \A k \in Clients : k # c => handler'[k] = handler[k]
<1>1. handler \in [Clients -> [pc : HandlerPC, pass : Passphrases]]
  BY DEF TypeOK
<1>2. [pc |-> pc, pass |-> pass] \in [pc : HandlerPC, pass : Passphrases]
  OBVIOUS
<1>3. QED  BY <1>1, <1>2 DEF Enter

LEMMA HandlerReturns ==
  ASSUME TypeOK, NEW c \in Clients, Return(c)
  PROVE  /\ handler' \in [Clients -> [pc : HandlerPC, pass : Passphrases]]
         /\ handler'[c].pc = "idle" /\ handler'[c].pass = handler[c].pass
         /\ \A k \in Clients : k # c => handler'[k] = handler[k]
<1>1. handler \in [Clients -> [pc : HandlerPC, pass : Passphrases]]
  BY DEF TypeOK
<1>2. "idle" \in HandlerPC
  BY DEF HandlerPC
<1>3. QED  BY <1>1, <1>2 DEF Return

\* One result channel is written, the others are left alone.
LEMMA ResultWritten ==
  ASSUME TypeOK, NEW c \in Clients, NEW r \in Results, resChan' = [resChan EXCEPT ![c] = r]
  PROVE  /\ resChan' \in [Clients -> Results]
         /\ resChan'[c] = r
         /\ \A k \in Clients : k # c => resChan'[k] = resChan[k]
BY DEF TypeOK

\* The invariant is inductive: one step per action.
LEMMA LifecycleStep == LifecycleInv /\ [Next]_vars => LifecycleInv'
<1> SUFFICES ASSUME LifecycleInv, [Next]_vars PROVE LifecycleInv'
  OBVIOUS
<1>0. AuthTypeOK'
  BY AuthTypeStep DEF LifecycleInv, TypeOK
<1>i. TypeOK /\ LockFollowsRun /\ AttemptHeld /\ SuccessEarned
  BY DEF LifecycleInv
<1>t. /\ main \in [pc : MainPC, client : Clients] /\ main.client \in Clients
      /\ isLocked \in BOOLEAN /\ secrets \in {"encrypted", "plain", "configured"}
      /\ failed \in BOOLEAN /\ dispatcher \in {"none", "running", "done"}
      /\ handler \in [Clients -> [pc : HandlerPC, pass : Passphrases]]
      /\ resChan \in [Clients -> Results] /\ answer \in [Clients -> Answers]
      /\ requests \in 0 .. MaxRequests
  BY <1>i DEF TypeOK
<1>p. ASSUME NEW pc, MainGoto(pc) PROVE main'.pc = pc /\ main'.client = main.client
  BY <1>p, <1>t DEF MainGoto
<1>l. ASSUME UNCHANGED <<main, unlockVars>> PROVE LockFollowsRun'
  BY <1>i, <1>l DEF LockFollowsRun, unlockVars
<1>r. ASSUME NEW c \in Clients, Accept(c) PROVE requests' \in 0 .. MaxRequests
  BY <1>r, <1>t, LifecycleAssumption DEF Accept
<1>1. ASSUME NEW c \in Clients, ReceiveUnlock(c) PROVE LifecycleInv'
  <2>1. /\ main.pc = "unlock" /\ handler[c].pc = "unlock.send"
        /\ main' = [pc |-> "decrypt", client |-> c]
        /\ UNCHANGED <<isLocked, kept, secrets, resChan, answer, requests, stopping, cancelled,
                       failed, dispatcher>>
    BY <1>1 DEF ReceiveUnlock, MainAt, At, unlockVars, shutdownVars
  <2>2. /\ handler' \in [Clients -> [pc : HandlerPC, pass : Passphrases]]
        /\ handler'[c].pc = "unlock.wait" /\ handler'[c].pass = handler[c].pass
        /\ \A k \in Clients : k # c => handler'[k] = handler[k]
    BY <1>1, <1>i, <1>t, HandlerEnters DEF ReceiveUnlock, HandlerPC
  <2>3. main' \in [pc : MainPC, client : Clients] /\ main'.pc = "decrypt" /\ main'.client = c
    BY <2>1 DEF MainPC
  <2>4. TypeOK'
    BY <1>0, <1>i, <2>1, <2>2, <2>3 DEF TypeOK
  <2>5. LockFollowsRun'
    BY <1>i, <2>1, <2>3 DEF LockFollowsRun
  <2>6. AttemptHeld'
    BY <1>i, <2>1, <2>2, <2>3 DEF AttemptHeld, Attempting, At
  <2>7. SuccessEarned'
    BY <1>i, <2>1, <2>2, <2>3 DEF SuccessEarned, Attempting
  <2>8. QED  BY <2>4, <2>5, <2>6, <2>7 DEF LifecycleInv
<1>f. ASSUME RunFails PROVE LifecycleInv'
  <2>1. /\ MainGoto("drain") /\ failed' \in BOOLEAN
        /\ UNCHANGED <<isLocked, kept, secrets, requestVars, shutdownVars, dispatcher>>
    BY <1>f DEF RunFails, unlockVars
  <2>2. LockFollowsRun'
    BY <1>p, <2>1 DEF LockFollowsRun
  <2>3. QED  BY <1>0, <1>t, <2>1, <2>2, MainMoves DEF MainPC
<1>2. CASE UnlockCancelled
  BY <1>2, <1>f DEF UnlockCancelled
<1>3. CASE Decrypt
  <2>1. /\ main.pc = "decrypt" /\ isLocked
        /\ UNCHANGED <<kept, requestVars, shutdownVars, failed, dispatcher>>
    BY <1>3, <1>i DEF Decrypt, MainAt, unlockVars, LockFollowsRun
  <2>2. CASE MainGoto("configure") /\ secrets' = "plain" /\ isLocked' = FALSE
                /\ Decrypts(handler[main.client].pass)
    <3>1. LockFollowsRun'
      BY <1>p, <2>2 DEF LockFollowsRun
    <3>2. kept = "maFile" => handler[main.client].pass = "right"
      BY <2>2 DEF Decrypts
    <3>3. QED  BY <1>0, <1>t, <2>1, <2>2, <3>1, <3>2, MainMoves DEF MainPC, Attempting
  <2>3. CASE MainGoto("refuse") /\ UNCHANGED <<isLocked, secrets>>
    <3>1. LockFollowsRun'
      BY <1>p, <2>1, <2>3 DEF LockFollowsRun
    <3>2. QED  BY <1>0, <1>t, <2>1, <2>3, <3>1, MainMoves DEF MainPC, Attempting
  <2>4. QED  BY <1>3, <2>2, <2>3 DEF Decrypt, unlockVars
<1>4. CASE Configure
  <2>1. /\ main.pc = "configure" /\ ~isLocked
        /\ UNCHANGED <<kept, requestVars, shutdownVars, failed, dispatcher>>
    BY <1>4, <1>i DEF Configure, MainAt, LockFollowsRun
  <2>2. CASE MainGoto("accept") /\ secrets' = "configured" /\ UNCHANGED isLocked
    <3>1. LockFollowsRun'
      BY <1>p, <2>1, <2>2 DEF LockFollowsRun
    <3>2. kept = "maFile" => handler[main.client].pass = "right"
      BY <1>i, <2>1 DEF SuccessEarned
    <3>3. QED  BY <1>0, <1>t, <2>1, <2>2, <3>1, <3>2, MainMoves DEF MainPC, Attempting
  <2>3. CASE MainGoto("refuse") /\ isLocked' = TRUE /\ UNCHANGED secrets
    <3>1. LockFollowsRun'
      BY <1>p, <2>3 DEF LockFollowsRun
    <3>2. QED  BY <1>0, <1>t, <2>1, <2>3, <3>1, MainMoves DEF MainPC, Attempting
  <2>4. QED  BY <1>4, <2>2, <2>3 DEF Configure
<1>5. CASE AnswerUnlock
  <2> DEFINE r == IF MainAt("accept") THEN "ok" ELSE "error"
             pc == IF isLocked THEN "unlock" ELSE "start"
  <2>1. /\ main.pc \in {"accept", "refuse"} /\ MainGoto(pc)
        /\ resChan' = [resChan EXCEPT ![main.client] = r]
        /\ UNCHANGED <<isLocked, kept, secrets, handler, answer, requests, stopping, cancelled,
                       failed, dispatcher>>
    BY <1>5 DEF AnswerUnlock, MainAt, unlockVars, shutdownVars
  <2>2. /\ main.pc = "accept" => r = "ok" /\ pc = "start" /\ secrets = "configured"
        /\ main.pc = "refuse" => r = "error" /\ pc = "unlock"
    BY <1>i DEF MainAt, LockFollowsRun
  <2>3. r \in Results /\ pc \in {"unlock", "start"}
    BY DEF Results
  <2> HIDE DEF r, pc
  <2>4. /\ main' \in [pc : MainPC, client : Clients]
        /\ main'.pc = pc /\ main'.client = main.client
    BY <1>t, <2>1, <2>3 DEF MainGoto, MainPC
  <2>5. /\ resChan' \in [Clients -> Results]
        /\ resChan'[main.client] = r
        /\ \A k \in Clients : k # main.client => resChan'[k] = resChan[k]
    BY <1>i, <1>t, <2>1, <2>3, ResultWritten
  <2>6. TypeOK'
    BY <1>0, <1>i, <2>1, <2>4, <2>5 DEF TypeOK
  <2>7. LockFollowsRun'
    BY <1>i, <2>1, <2>2, <2>4 DEF LockFollowsRun
  <2>8. AttemptHeld'
    BY <1>i, <2>1, <2>3, <2>4, <2>5 DEF AttemptHeld, Attempting, At
  <2>9. SuccessEarned'
    <3>1. kept = "maFile" => \A k \in Clients : resChan[k] # "ok" /\ answer[k] # "unlocked"
      BY <1>i, <2>1 DEF SuccessEarned, Attempting
    <3>2. kept = "maFile" /\ main.pc = "accept" => handler[main.client].pass = "right"
      BY <1>i DEF SuccessEarned
    <3>3. CASE main.pc = "accept"
      BY <2>1, <2>2, <2>4, <2>5, <3>1, <3>2, <3>3 DEF SuccessEarned, Attempting
    <3>4. CASE main.pc = "refuse"
      BY <2>1, <2>2, <2>4, <2>5, <3>1, <3>4 DEF SuccessEarned, Attempting
    <3>5. QED  BY <2>1, <3>3, <3>4
  <2>10. QED  BY <2>6, <2>7, <2>8, <2>9 DEF LifecycleInv
<1>s. ASSUME main.pc \in {"start", "login", "up", "drain", "close"},
             NEW pc \in {"login", "up", "drain", "close", "exited"}, MainGoto(pc),
             pc \in {"login", "up"} => main.pc \in {"start", "login"},
             UNCHANGED <<unlockVars, requestVars, shutdownVars, failed>>,
             dispatcher' \in {"none", "running", "done"}
      PROVE  LifecycleInv'
  <2>1. UNCHANGED <<isLocked, kept, secrets>>
    BY <1>s DEF unlockVars
  <2>2. LockFollowsRun'
    BY <1>i, <1>p, <1>s, <2>1 DEF LockFollowsRun
  <2>3. pc \in MainPC \ {"unlock"} /\ pc \notin {"decrypt", "configure", "accept", "refuse"}
    BY <1>s DEF MainPC
  <2>4. QED  BY <1>0, <1>t, <1>s, <2>1, <2>2, <2>3, MainMoves
<1>6. CASE Start
  BY <1>6, <1>f, <1>s DEF Start, MainAt
<1>7. CASE Login
  BY <1>7, <1>f, <1>s, <1>t DEF Login, MainAt
<1>8. CASE AwaitShutdown
  BY <1>8, <1>s, <1>t DEF AwaitShutdown, MainAt
<1>9. CASE GracefulStop
  BY <1>9, <1>s, <1>t DEF GracefulStop, MainAt
<1>10. CASE Close
  BY <1>10, <1>s, <1>t DEF Close, MainAt
<1>u. ASSUME UNCHANGED <<main, unlockVars, handler, resChan, answer, failed>>,
             requests' \in 0 .. MaxRequests, stopping' \in BOOLEAN, cancelled' \in BOOLEAN,
             dispatcher' \in {"none", "running", "done"}
      PROVE  LifecycleInv'
  <2>1. UNCHANGED <<isLocked, kept, secrets>>
    BY <1>u DEF unlockVars
  <2>2. TypeOK'
    BY <1>0, <1>i, <1>u, <2>1 DEF TypeOK
  <2>3. AttemptHeld' /\ SuccessEarned'
    BY <1>i, <1>u, <2>1 DEF AttemptHeld, SuccessEarned, Attempting, At
  <2>4. QED  BY <1>l, <1>u, <2>2, <2>3 DEF LifecycleInv
<1>b. stopping \in BOOLEAN /\ cancelled \in BOOLEAN
  BY <1>i DEF TypeOK
<1>11. CASE DispatcherReturn
  BY <1>11, <1>b, <1>t, <1>u DEF DispatcherReturn, requestVars, shutdownVars
<1>12. ASSUME NEW c \in Clients, Request(c) PROVE LifecycleInv'
  <2>1. ASSUME NEW pc \in {"unlock.send", "stream"}, NEW pass \in Passphrases,
               Accept(c), Enter(c, pc, pass),
               kept = "maFile" => pass = handler[c].pass \/ isLocked,
               UNCHANGED <<main, unlockVars, resChan, answer, shutdownVars, failed, dispatcher>>
        PROVE  LifecycleInv'
    <3>1. /\ handler' \in [Clients -> [pc : HandlerPC, pass : Passphrases]]
          /\ handler'[c].pc = pc /\ handler'[c].pass = pass
          /\ \A k \in Clients : k # c => handler'[k] = handler[k]
      BY <1>i, <2>1, HandlerEnters DEF HandlerPC
    <3>2. UNCHANGED <<main, isLocked, kept, secrets, resChan, answer, stopping, cancelled,
                      failed, dispatcher>>
      BY <2>1 DEF unlockVars, shutdownVars
    <3>3. handler[c].pc = "idle" /\ resChan[c] = "empty"
      BY <1>i, <2>1 DEF Accept, At, AttemptHeld
    <3>4. TypeOK'
      BY <1>0, <1>i, <1>r, <2>1, <3>1, <3>2 DEF TypeOK
    <3>5. AttemptHeld'
      <4>1. Attempting => /\ main.client # c /\ handler[main.client].pc = "unlock.wait"
                          /\ resChan[main.client] = "empty"
        BY <1>i, <3>3 DEF AttemptHeld, At
      <4>2. Attempting' => handler'[main.client].pc = "unlock.wait" /\ resChan'[main.client] = "empty"
        BY <1>t, <3>1, <3>2, <4>1 DEF Attempting
      <4>3. \A k \in Clients : handler'[k].pc # "unlock.wait" => resChan'[k] = "empty"
        BY <1>i, <3>1, <3>2, <3>3 DEF AttemptHeld, At
      <4>4. QED  BY <3>2, <4>2, <4>3 DEF AttemptHeld, At
    <3>6. SuccessEarned'
      <4>1. isLocked => main.pc = "unlock" \/ Attempting
        BY <1>i, <1>t, <2>1 DEF Accept, ServerUp, MainAt, MainPC, LockFollowsRun, Attempting
      <4>2. kept = "maFile" /\ answer[c] = "unlocked" => handler'[c].pass = "right"
        BY <1>i, <2>1, <3>1, <4>1 DEF SuccessEarned
      <4>3. Attempting => main.client # c
        BY <1>i, <3>3 DEF AttemptHeld, At
      <4>4. main.pc \in {"configure", "accept"} => handler'[main.client] = handler[main.client]
        BY <1>t, <3>1, <4>3 DEF Attempting
      <4>5. QED  BY <1>i, <3>1, <3>2, <3>3, <4>2, <4>4 DEF SuccessEarned, Attempting
    <3>7. QED  BY <1>l, <2>1, <3>4, <3>5, <3>6 DEF LifecycleInv
  <2>2. ASSUME NEW pass \in Passphrases, GuardUnlock(c, pass) PROVE LifecycleInv'
    <3>1. CASE isLocked /\ Enter(c, "unlock.send", pass) /\ UNCHANGED answer
      BY <2>1, <2>2, <3>1 DEF GuardUnlock
    <3>2. CASE ~isLocked /\ answer' = [answer EXCEPT ![c] = "already"] /\ UNCHANGED handler
      <4>1. UNCHANGED <<main, isLocked, kept, secrets, resChan, stopping, cancelled,
                        failed, dispatcher>>
        BY <2>2 DEF GuardUnlock, unlockVars, shutdownVars
      <4>2. /\ answer' \in [Clients -> Answers] /\ answer'[c] = "already"
            /\ \A k \in Clients : k # c => answer'[k] = answer[k]
        BY <1>t, <3>2 DEF Answers
      <4>3. requests' \in 0 .. MaxRequests
        BY <1>r, <2>2 DEF GuardUnlock
      <4>4. TypeOK'
        BY <1>0, <1>i, <3>2, <4>1, <4>2, <4>3 DEF TypeOK
      <4>5. LockFollowsRun' /\ AttemptHeld'
        BY <1>i, <3>2, <4>1 DEF LockFollowsRun, AttemptHeld, Attempting, At
      <4>6. SuccessEarned'
        BY <1>i, <3>2, <4>1, <4>2 DEF SuccessEarned, Attempting
      <4>7. QED  BY <4>4, <4>5, <4>6 DEF LifecycleInv
    <3>3. QED  BY <2>2, <3>1, <3>2 DEF GuardUnlock
  <2>3. CASE StreamEvents(c)
    BY <1>t, <2>1, <2>3 DEF StreamEvents
  <2>4. CASE StopDaemon(c)
    BY <1>b, <1>r, <1>t, <1>u, <2>4 DEF StopDaemon
  <2>5. CASE GuardSubmitAuthCode(c)
    BY <1>b, <1>r, <1>t, <1>u, <2>5 DEF GuardSubmitAuthCode, shutdownVars
  <2>6. QED  BY <1>12, <2>2, <2>3, <2>4, <2>5 DEF Request
<1>13. ASSUME NEW c \in Clients, UnlockResult(c) PROVE LifecycleInv'
  <2>1. /\ handler[c].pc = "unlock.wait" /\ resChan[c] # "empty"
        /\ UNCHANGED <<main, isLocked, kept, secrets, requests, stopping, cancelled, failed,
                       dispatcher>>
    BY <1>13 DEF UnlockResult, At, unlockVars, shutdownVars
  <2>2. /\ handler' \in [Clients -> [pc : HandlerPC, pass : Passphrases]]
        /\ handler'[c].pc = "idle" /\ handler'[c].pass = handler[c].pass
        /\ \A k \in Clients : k # c => handler'[k] = handler[k]
    BY <1>13, <1>i, HandlerReturns DEF UnlockResult
  <2>3. /\ resChan' \in [Clients -> Results] /\ resChan'[c] = "empty"
        /\ \A k \in Clients : k # c => resChan'[k] = resChan[k]
    BY <1>13, <1>i, ResultWritten DEF UnlockResult, Results
  <2>4. /\ answer' \in [Clients -> Answers]
        /\ answer'[c] = "unlocked" => resChan[c] = "ok"
        /\ \A k \in Clients : k # c => answer'[k] = answer[k]
    BY <1>13, <1>t DEF UnlockResult, Answered, Answers
  <2>5. TypeOK'
    BY <1>0, <1>i, <2>1, <2>2, <2>3, <2>4 DEF TypeOK
  <2>6. LockFollowsRun'
    BY <1>i, <2>1 DEF LockFollowsRun
  <2>7. Attempting => main.client # c
    BY <1>i, <2>1 DEF AttemptHeld
  <2>8. AttemptHeld'
    BY <1>i, <1>t, <2>1, <2>2, <2>3, <2>7 DEF AttemptHeld, Attempting, At
  <2>9. SuccessEarned'
    <3>1. \A k \in Clients : handler'[k].pass = handler[k].pass
      BY <2>2
    <3>2. \A k \in Clients : resChan'[k] = "ok" \/ answer'[k] = "unlocked" =>
            resChan[k] = "ok" \/ answer[k] = "unlocked"
      BY <2>3, <2>4
    <3>3. QED  BY <1>i, <1>t, <2>1, <3>1, <3>2 DEF SuccessEarned, Attempting
  <2>10. QED  BY <2>5, <2>6, <2>8, <2>9 DEF LifecycleInv
<1>14. ASSUME NEW c \in Clients, StreamDisconnected(c) \/ StreamShutdown(c) PROVE LifecycleInv'
  <2>1. /\ At(c, "stream") /\ Return(c)
        /\ UNCHANGED <<main, isLocked, kept, secrets, resChan, answer, requests, stopping,
                       cancelled, failed, dispatcher>>
    BY <1>14 DEF StreamDisconnected, StreamShutdown, unlockVars, shutdownVars
  <2>2. /\ handler' \in [Clients -> [pc : HandlerPC, pass : Passphrases]]
        /\ \A k \in Clients : handler'[k].pass = handler[k].pass
        /\ \A k \in Clients : At(k, "unlock.wait")' <=> At(k, "unlock.wait")
    BY <1>i, <2>1, HandlerReturns DEF At
  <2>3. TypeOK'
    BY <1>0, <1>i, <2>1, <2>2 DEF TypeOK
  <2>4. LockFollowsRun'
    BY <1>i, <2>1 DEF LockFollowsRun
  <2>5. AttemptHeld'
    BY <1>i, <1>t, <2>1, <2>2 DEF AttemptHeld, Attempting
  <2>6. SuccessEarned'
    BY <1>i, <1>t, <2>1, <2>2 DEF SuccessEarned, Attempting
  <2>7. QED  BY <2>3, <2>4, <2>5, <2>6 DEF LifecycleInv
<1>15. CASE StopFires \/ Signal
  BY <1>15, <1>b, <1>t, <1>u DEF StopFires, Signal, requestVars
<1>16. CASE AskForCode \/ ConfirmedInApp \/ SteamGuardRequired
  BY <1>16, <1>b, <1>t, <1>u DEF AskForCode, ConfirmedInApp, SteamGuardRequired, requestVars,
                               shutdownVars
<1>17. CASE UNCHANGED vars
  BY <1>17, <1>b, <1>t, <1>u DEF vars, requestVars, shutdownVars
<1>18. QED
  BY <1>1, <1>2, <1>3, <1>4, <1>5, <1>6, <1>7, <1>8, <1>9, <1>10, <1>11, <1>12, <1>13, <1>14,
     <1>15, <1>16, <1>17
  DEF Next, Run

\* The invariant that the theorems share.
LEMMA LifecycleInvariant == Spec => []LifecycleInv
BY LifecycleInit, LifecycleStep, PTL DEF Spec

\* Every variable stays in its domain, for any number of clients and requests.
THEOREM LifecycleTypeCorrect == Spec => []TypeOK
<1>1. LifecycleInv => TypeOK
  BY DEF LifecycleInv
<1>2. QED  BY <1>1, LifecycleInvariant, PTL

\* The client is started and logs on only with secrets that were decrypted and that
\* the guardian module accepted, whatever attempts failed before (Daemon.Run).
THEOREM LifecycleServiceNeedsUnlock == Spec => []ServiceNeedsUnlock
<1>1. LifecycleInv => ServiceNeedsUnlock
  BY DEF LifecycleInv, LockFollowsRun, ServiceNeedsUnlock
<1>2. QED  BY <1>1, LifecycleInvariant, PTL

\* Concurrent unlock requests never receive one another's results: whoever is told
\* that the daemon was unlocked brought the right passphrase (GuardUnlock).
THEOREM LifecycleAnswerOwnAttempt == Spec => []AnswerOwnAttempt
<1>1. LifecycleInv => AnswerOwnAttempt
  BY DEF LifecycleInv, SuccessEarned, AnswerOwnAttempt
<1>2. QED  BY <1>1, LifecycleInvariant, PTL

-----------------------------------------------------------------------------
(* The contract with GracefulStop                                          *)

ServerPhase == IF ServerUp THEN "up" ELSE IF MainAt("drain") THEN "draining" ELSE "gone"
InProgress == {c \in Clients : ~At(c, "idle")}

Server == INSTANCE GracefulServer
            WITH Handlers <- Clients, Mortal <- FALSE, phase <- ServerPhase, pending <- InProgress

\* Where a handler has gone tells who is in progress.
LEMMA EnterInProgress ==
  ASSUME TypeOK, NEW c \in Clients, NEW pc \in HandlerPC, NEW pass, Enter(c, pc, pass)
  PROVE  InProgress' = IF pc = "idle" THEN InProgress \ {c} ELSE InProgress \cup {c}
BY DEF TypeOK, Enter, InProgress, At

LEMMA ReturnInProgress ==
  ASSUME TypeOK, NEW c \in Clients, Return(c)
  PROVE  InProgress' = InProgress \ {c}
BY DEF TypeOK, Return, InProgress, At

\* A step of the main goroutine moves the server on, or leaves it as it is.
LEMMA RunServer ==
  ASSUME TypeOK, Run
  PROVE  [Server!Next]_<<ServerPhase, InProgress>>
<1>1. ASSUME NEW c \in Clients, ReceiveUnlock(c) PROVE UNCHANGED <<ServerPhase, InProgress>>
  <2>1. InProgress' = InProgress
    <3>1. InProgress' = InProgress \cup {c}
      BY <1>1, EnterInProgress DEF ReceiveUnlock, HandlerPC
    <3>2. c \in InProgress
      BY <1>1 DEF ReceiveUnlock, InProgress, At
    <3>3. QED  BY <3>1, <3>2
  <2>2. ServerPhase' = ServerPhase
    BY <1>1 DEF ReceiveUnlock, ServerPhase, ServerUp, MainAt
  <2>3. QED  BY <2>1, <2>2
<1>2. ASSUME UNCHANGED handler PROVE InProgress' = InProgress
  BY <1>2 DEF InProgress, At
<1>3. CASE Decrypt \/ Configure \/ AnswerUnlock
  <2>1. UNCHANGED handler
    BY <1>3 DEF Decrypt, Configure, AnswerUnlock, requestVars
  <2>2. ServerPhase = "up" /\ ServerPhase' = "up"
    BY <1>3 DEF TypeOK, Decrypt, Configure, AnswerUnlock, ServerPhase, ServerUp, MainAt, MainGoto
  <2>3. QED  BY <1>2, <2>1, <2>2
<1>4. CASE UnlockCancelled \/ Start \/ Login \/ AwaitShutdown
  <2>1. UNCHANGED handler
    BY <1>4 DEF UnlockCancelled, Start, Login, AwaitShutdown, RunFails, requestVars
  <2>2. ServerPhase = "up" /\ ServerPhase' \in {"up", "draining"}
    BY <1>4 DEF TypeOK, UnlockCancelled, Start, Login, AwaitShutdown, RunFails,
                ServerPhase, ServerUp, MainAt, MainGoto
  <2>3. QED  BY <1>2, <2>1, <2>2 DEF Server!Next, Server!Drain
<1>5. CASE GracefulStop
  <2>1. UNCHANGED handler /\ InProgress = {}
    BY <1>5 DEF GracefulStop, requestVars, InProgress
  <2>2. ServerPhase = "draining" /\ ServerPhase' = "gone"
    BY <1>5 DEF TypeOK, GracefulStop, ServerPhase, ServerUp, MainAt, MainGoto
  <2>3. QED  BY <1>2, <2>1, <2>2 DEF Server!Next, Server!Leave
<1>6. CASE Close
  <2>1. UNCHANGED handler
    BY <1>6 DEF Close, requestVars
  <2>2. ServerPhase = "gone" /\ ServerPhase' = "gone"
    BY <1>6 DEF TypeOK, Close, ServerPhase, ServerUp, MainAt, MainGoto
  <2>3. QED  BY <1>2, <2>1, <2>2
<1>7. QED  BY <1>1, <1>3, <1>4, <1>5, <1>6 DEF Run

\* A step of a handler takes a request, returns from one, or leaves them as they are.
LEMMA HandlerServer ==
  ASSUME TypeOK, NEW c \in Clients,
         Request(c) \/ UnlockResult(c) \/ StreamDisconnected(c) \/ StreamShutdown(c)
  PROVE  [Server!Next]_<<ServerPhase, InProgress>>
<1>1. ServerPhase' = ServerPhase
  BY DEF Request, GuardUnlock, GuardSubmitAuthCode, StreamEvents, StopDaemon, UnlockResult,
         StreamDisconnected, StreamShutdown, ServerPhase, ServerUp, MainAt
<1>2. ASSUME UNCHANGED handler PROVE [Server!Next]_<<ServerPhase, InProgress>>
  BY <1>1, <1>2 DEF InProgress, At
<1>3. ASSUME Accept(c), NEW pc \in HandlerPC \ {"idle"}, NEW pass, Enter(c, pc, pass)
      PROVE  Server!Take
  <2>1. InProgress' = InProgress \cup {c} /\ c \in Clients \ InProgress
    BY <1>3, EnterInProgress DEF Accept, InProgress, At
  <2>2. ServerPhase = "up"
    BY <1>3 DEF Accept, ServerPhase
  <2>3. QED  BY <1>1, <2>1, <2>2 DEF Server!Take
<1>4. ASSUME Return(c), ~At(c, "idle") PROVE Server!Return
  BY <1>1, <1>4, ReturnInProgress DEF Server!Return, InProgress
<1>5. CASE Request(c)
  <2>1. ASSUME NEW pass \in Passphrases, GuardUnlock(c, pass)
        PROVE  UNCHANGED handler \/ Server!Take
    BY <2>1, <1>3 DEF GuardUnlock, HandlerPC
  <2>2. CASE StreamEvents(c)
    BY <2>2, <1>3 DEF StreamEvents, HandlerPC, Server!Next
  <2>3. CASE GuardSubmitAuthCode(c) \/ StopDaemon(c)
    BY <2>3, <1>2 DEF GuardSubmitAuthCode, StopDaemon
  <2>4. QED  BY <1>5, <1>2, <2>1, <2>2, <2>3 DEF Request, Server!Next
<1>6. CASE UnlockResult(c) \/ StreamDisconnected(c) \/ StreamShutdown(c)
  BY <1>6, <1>4 DEF UnlockResult, StreamDisconnected, StreamShutdown, At, Server!Next
<1>7. QED  BY <1>5, <1>6

\* The server of the daemon is a GracefulServer that nobody kills: no request is taken
\* once the daemon stops or Run has failed, and Close begins when all handlers have
\* returned, for any number of clients (run in main.go).
THEOREM LifecycleImplementsServer == Spec => Server!Spec
<1>1. Init => Server!Init
  BY DEF Init, Server!Init, ServerPhase, ServerUp, InProgress, At, MainAt
<1>2. TypeOK /\ [Next]_vars => [Server!Next]_<<ServerPhase, InProgress>>
  <2> SUFFICES ASSUME TypeOK, [Next]_vars PROVE [Server!Next]_<<ServerPhase, InProgress>>
    OBVIOUS
  <2>1. CASE Run
    BY <2>1, RunServer
  <2>2. ASSUME NEW c \in Clients,
               Request(c) \/ UnlockResult(c) \/ StreamDisconnected(c) \/ StreamShutdown(c)
        PROVE  [Server!Next]_<<ServerPhase, InProgress>>
    BY <2>2, HandlerServer
  <2>3. CASE \/ AskForCode \/ ConfirmedInApp \/ SteamGuardRequired \/ DispatcherReturn
             \/ StopFires \/ Signal \/ UNCHANGED vars
    <3>1. UNCHANGED <<main, handler>>
      BY <2>3 DEF AskForCode, ConfirmedInApp, SteamGuardRequired, DispatcherReturn, StopFires,
                  Signal, vars, requestVars
    <3>2. UNCHANGED <<ServerPhase, InProgress>>
      BY <3>1 DEF ServerPhase, ServerUp, InProgress, At, MainAt
    <3>3. QED  BY <3>2
  <2>4. QED  BY <2>1, <2>2, <2>3 DEF Next
<1>3. QED  BY <1>1, <1>2, LifecycleTypeCorrect, PTL DEF Spec, Server!Spec

-----------------------------------------------------------------------------
(* Who waits for whom: what keeps the liveness properties from failing     *)

\* An unlock request whose attempt is being made is in the hands of the loop, or has
\* its result in its channel; one that is still to be received finds the loop there,
\* unless the daemon has been unlocked or Run has failed (the request that the loop
\* does not come back for: UnlockAnswered).
NobodyForgotten ==
  \A c \in Clients :
    /\ At(c, "unlock.wait") => resChan[c] # "empty" \/ (Attempting /\ main.client = c)
    /\ At(c, "unlock.send") /\ main.pc \notin UnlockLoop => ~isLocked \/ failed

LoopLeftUnlocked == main.pc \notin UnlockLoop => ~isLocked \/ failed

\* No unlock request is forgotten while somebody works on it, for any number of
\* clients that unlock, stop or leave at once (GuardUnlock and handleUnlockLoop).
THEOREM LifecycleNobodyForgotten == Spec => []NobodyForgotten
<1> DEFINE Held == /\ LoopLeftUnlocked
                   /\ \A c \in Clients :
                        At(c, "unlock.wait") => resChan[c] # "empty" \/ (Attempting /\ main.client = c)
<1>1. Init => Held
  BY LifecycleAssumption DEF Init, LoopLeftUnlocked, UnlockLoop, At
<1>2. LifecycleInv /\ Held /\ [Next]_vars => Held'
  <2> SUFFICES ASSUME LifecycleInv, Held, [Next]_vars PROVE Held'
    OBVIOUS
  <2> USE DEF LifecycleInv, TypeOK, LoopLeftUnlocked, UnlockLoop, Attempting, At, MainAt,
              MainGoto, Enter, Return, unlockVars, requestVars, shutdownVars
  <2>1. ASSUME NEW c \in Clients, ReceiveUnlock(c) PROVE Held'
    BY <2>1 DEF ReceiveUnlock, AttemptHeld
  <2>2. CASE UnlockCancelled \/ Start \/ Login
    BY <2>2 DEF UnlockCancelled, Start, Login, RunFails
  <2>3. CASE Decrypt
    BY <2>3 DEF Decrypt
  <2>4. CASE Configure
    BY <2>4 DEF Configure
  <2>5. CASE AnswerUnlock
    <3>1. LoopLeftUnlocked'
      BY <2>5 DEF AnswerUnlock
    <3>2. ASSUME NEW c \in Clients, At(c, "unlock.wait") PROVE resChan'[c] # "empty"
      BY <2>5, <3>2 DEF AnswerUnlock
    <3>3. \A c \in Clients : At(c, "unlock.wait")' <=> At(c, "unlock.wait")
      BY <2>5 DEF AnswerUnlock
    <3>4. QED  BY <3>1, <3>2, <3>3
  <2>6. CASE AwaitShutdown \/ GracefulStop \/ Close
    BY <2>6 DEF AwaitShutdown, GracefulStop, Close
  <2>7. ASSUME NEW c \in Clients, Request(c) PROVE Held'
    BY <2>7 DEF Request, GuardUnlock, GuardSubmitAuthCode, StreamEvents, StopDaemon, Accept
  <2>8. ASSUME NEW c \in Clients, UnlockResult(c) PROVE Held'
    BY <2>8 DEF UnlockResult
  <2>9. ASSUME NEW c \in Clients, StreamDisconnected(c) \/ StreamShutdown(c) PROVE Held'
    BY <2>9 DEF StreamDisconnected, StreamShutdown
  <2>10. CASE \/ AskForCode \/ ConfirmedInApp \/ SteamGuardRequired \/ DispatcherReturn
              \/ StopFires \/ Signal \/ UNCHANGED vars
    <3>1. UNCHANGED <<main, isLocked, failed, handler, resChan>>
      BY <2>10 DEF AskForCode, ConfirmedInApp, SteamGuardRequired, DispatcherReturn, StopFires,
                   Signal, vars
    <3>2. QED  BY <3>1
  <2>11. QED
    BY <2>1, <2>2, <2>3, <2>4, <2>5, <2>6, <2>7, <2>8, <2>9, <2>10 DEF Next, Run
<1>3. Held => NobodyForgotten
  BY DEF LoopLeftUnlocked, NobodyForgotten
<1> HIDE DEF Held
<1>4. QED  BY <1>1, <1>2, <1>3, LifecycleInvariant, PTL DEF Spec

\* The callback in the slot is never an old one, and once the dispatcher has caught up
\* with Steam, a login that waits for a code finds its callback there: the code that is
\* submitted next reaches it.
CodeReaches ==
  /\ slot \in {0, handled}
  /\ waiting # 0 /\ handled = asked => slot = waiting

\* However logins are confirmed in the app, given up, asked for again and codes come too
\* late or twice, the dispatcher needs only to catch up for a code to be taken
\* (SteamGuardRequiredEvent in handleEvents, GuardSubmitAuthCode).
THEOREM LifecycleCodeReaches == Spec => []CodeReaches
<1> DEFINE Latest == waiting \in {0, asked} /\ CodeReaches
<1>1. Init => Latest
  BY DEF Init, CodeReaches
<1>2. TypeOK /\ Latest /\ [Next]_vars => Latest'
  <2> SUFFICES ASSUME TypeOK, Latest, [Next]_vars PROVE Latest'
    OBVIOUS
  <2>0. asked \in Nat /\ handled \in 0 .. asked
    BY LifecycleAssumption DEF TypeOK, AuthTypeOK
  <2> USE DEF CodeReaches
  <2>1. CASE UNCHANGED authVars
    BY <2>1 DEF authVars
  <2>2. CASE waiting' = 0 /\ UNCHANGED <<asked, handled, slot>>
    BY <2>2
  <2>3. CASE AskForCode
    BY <2>0, <2>3 DEF AskForCode
  <2>4. CASE SteamGuardRequired
    BY <2>0, <2>4 DEF SteamGuardRequired
  <2>5. ASSUME NEW c \in Clients, Request(c) PROVE Latest'
    <3>1. CASE GuardSubmitAuthCode(c)
      BY <2>0, <3>1 DEF GuardSubmitAuthCode
    <3>2. CASE ~GuardSubmitAuthCode(c)
      BY <2>1, <2>5, <3>2 DEF Request, GuardUnlock, StreamEvents, StopDaemon
    <3>3. QED  BY <3>1, <3>2
  <2>6. CASE Run
    <3>1. UNCHANGED authVars \/ (waiting' = 0 /\ UNCHANGED <<asked, handled, slot>>)
      BY <2>6 DEF Run, ReceiveUnlock, UnlockCancelled, Decrypt, Configure, AnswerUnlock, Start,
                  Login, AwaitShutdown, GracefulStop, Close, RunFails, authVars
    <3>2. QED  BY <2>1, <2>2, <3>1
  <2>7. CASE ConfirmedInApp
    BY <2>2, <2>7 DEF ConfirmedInApp
  <2>8. CASE DispatcherReturn \/ StopFires \/ Signal \/ UNCHANGED vars
    BY <2>1, <2>8 DEF DispatcherReturn, StopFires, Signal, vars, authVars
  <2>9. ASSUME NEW c \in Clients, UnlockResult(c) \/ StreamDisconnected(c) \/ StreamShutdown(c)
        PROVE  Latest'
    BY <2>1, <2>9 DEF UnlockResult, StreamDisconnected, StreamShutdown
  <2>10. QED  BY <2>3, <2>4, <2>5, <2>6, <2>7, <2>8, <2>9 DEF Next
<1>3. Latest => CodeReaches
  OBVIOUS
<1> HIDE DEF Latest
<1>4. QED  BY <1>1, <1>2, <1>3, LifecycleTypeCorrect, PTL DEF Spec

\* When the process exits, no handler and no dispatcher of it is at work any more.
ExitsAlone == MainAt("exited") => InProgress = {} /\ dispatcher # "running"

\* What GracefulServer promises of the goroutines of the handlers.
LEMMA ServerGoneAlone == Server!Spec => []Server!GoneAlone
<1>1. Server!Init => Server!GoneAlone
  BY DEF Server!Init, Server!GoneAlone
<1>2. Server!GoneAlone /\ [Server!Next]_<<ServerPhase, InProgress>> => Server!GoneAlone'
  BY DEF Server!GoneAlone, Server!Next, Server!Open, Server!Take, Server!Return, Server!Drain,
         Server!Leave, Server!Die
<1>3. QED  BY <1>1, <1>2, PTL DEF Server!Spec

\* The store and the log are closed after the last goroutine that uses them: the order
\* of the deferred calls in run, with the wait in Close.
THEOREM LifecycleExitsAlone == Spec => []ExitsAlone
<1> DEFINE Returned == MainAt("exited") => dispatcher # "running"
<1>1. Init => Returned
  BY DEF Init, MainAt
<1>2. TypeOK /\ Returned /\ [Next]_vars => Returned'
  <2> SUFFICES ASSUME TypeOK, Returned, [Next]_vars PROVE Returned'
    OBVIOUS
  <2> USE DEF TypeOK, MainAt, MainGoto
  <2>1. CASE Run
    <3>1. ASSUME NEW c \in Clients, ReceiveUnlock(c) PROVE Returned'
      BY <3>1 DEF ReceiveUnlock
    <3>2. CASE UnlockCancelled \/ Start \/ Login
      BY <3>2 DEF UnlockCancelled, Start, Login, RunFails
    <3>3. CASE Decrypt \/ Configure \/ AnswerUnlock
      BY <3>3 DEF Decrypt, Configure, AnswerUnlock
    <3>4. CASE AwaitShutdown \/ GracefulStop \/ Close
      BY <3>4 DEF AwaitShutdown, GracefulStop, Close
    <3>5. QED  BY <2>1, <3>1, <3>2, <3>3, <3>4 DEF Run
  <2>2. ASSUME NEW c \in Clients,
               Request(c) \/ UnlockResult(c) \/ StreamDisconnected(c) \/ StreamShutdown(c)
        PROVE  Returned'
    BY <2>2 DEF Request, GuardUnlock, GuardSubmitAuthCode, StreamEvents, StopDaemon,
                UnlockResult, StreamDisconnected, StreamShutdown
  <2>3. CASE \/ AskForCode \/ ConfirmedInApp \/ SteamGuardRequired \/ DispatcherReturn
             \/ StopFires \/ Signal \/ UNCHANGED vars
    BY <2>3 DEF AskForCode, ConfirmedInApp, SteamGuardRequired, DispatcherReturn, StopFires,
                Signal, vars
  <2>4. QED  BY <2>1, <2>2, <2>3 DEF Next
<1>3. Server!GoneAlone /\ Returned => ExitsAlone
  BY DEF Server!GoneAlone, ServerPhase, ServerUp, MainAt, ExitsAlone
<1> HIDE DEF Returned
<1>4. QED
  BY <1>1, <1>2, <1>3, LifecycleTypeCorrect, LifecycleImplementsServer, ServerGoneAlone, PTL
  DEF Spec

Stages == <<"start", "login", "up", "drain", "close", "exited">>
StageOf(pc) == CHOOSE n \in DOMAIN Stages : Stages[n] = pc

\* Out of the unlock loop there is no way back: the daemon is not locked again, its
\* secrets stay, and Run and main go through their stages in order.
ForwardOnly ==
  [][main.pc \notin UnlockLoop =>
       /\ main'.pc \notin UnlockLoop
       /\ StageOf(main.pc) <= StageOf(main'.pc)
       /\ UNCHANGED <<isLocked, secrets>>]_vars

LEMMA StageOrder ==
  /\ StageOf("start") = 1 /\ StageOf("login") = 2 /\ StageOf("up") = 3
  /\ StageOf("drain") = 4 /\ StageOf("close") = 5 /\ StageOf("exited") = 6
<1> DEFINE S == Stages
<1>1. /\ DOMAIN S = 1 .. 6
      /\ S[1] = "start" /\ S[2] = "login" /\ S[3] = "up"
      /\ S[4] = "drain" /\ S[5] = "close" /\ S[6] = "exited"
  BY DEF Stages
<1>2. \A n \in DOMAIN S : n = 1 \/ n = 2 \/ n = 3 \/ n = 4 \/ n = 5 \/ n = 6
  BY <1>1
<1> HIDE DEF S
<1>3. ASSUME NEW n \in DOMAIN S
      PROVE  (CHOOSE m \in DOMAIN S : S[m] = S[n]) = n
  <2>1. \A m \in DOMAIN S : S[m] = S[n] => m = n
    BY <1>1, <1>2
  <2>2. QED  BY <2>1
<1>4. \A n \in DOMAIN S : StageOf(S[n]) = n
  BY <1>3 DEF StageOf, S
<1>5. QED  BY <1>1, <1>4

\* Once the client has been started the daemon is not locked again, whatever fails
\* later: GuardUnlock goes on answering that it was unlocked already (daemon.go, Run).
THEOREM LifecycleForwardOnly == Spec => ForwardOnly
<1> DEFINE Forward == main.pc \notin UnlockLoop =>
                        /\ main'.pc \notin UnlockLoop
                        /\ StageOf(main.pc) <= StageOf(main'.pc)
                        /\ UNCHANGED <<isLocked, secrets>>
<1>1. TypeOK /\ [Next]_vars => [Forward]_vars
  <2> SUFFICES ASSUME TypeOK, [Next]_vars, main.pc \notin UnlockLoop
               PROVE  /\ main'.pc \notin UnlockLoop
                      /\ StageOf(main.pc) <= StageOf(main'.pc)
                      /\ UNCHANGED <<isLocked, secrets>>
    OBVIOUS
  <2>0. main.pc \in {"start", "login", "up", "drain", "close", "exited"}
    BY DEF TypeOK, MainPC, UnlockLoop
  <2>1. ASSUME UNCHANGED <<main, isLocked, secrets>>
        PROVE  /\ main'.pc \notin UnlockLoop
               /\ StageOf(main.pc) <= StageOf(main'.pc)
               /\ UNCHANGED <<isLocked, secrets>>
    BY <2>0, <2>1, StageOrder
  <2> USE DEF TypeOK, MainAt, MainGoto, UnlockLoop, unlockVars
  <2>2. CASE Run
    <3>1. ASSUME NEW c \in Clients PROVE ~ReceiveUnlock(c)
      BY DEF ReceiveUnlock
    <3>2. ~(UnlockCancelled \/ Decrypt \/ Configure \/ AnswerUnlock)
      BY DEF UnlockCancelled, Decrypt, Configure, AnswerUnlock
    <3>3. CASE Start \/ Login
      <4>1. /\ main.pc \in {"start", "login"} /\ UNCHANGED <<isLocked, secrets>>
            /\ main'.pc \in {"login", "up", "drain"} /\ (main.pc = "login" => main'.pc # "login")
        BY <3>3 DEF Start, Login, RunFails
      <4>2. QED  BY <4>1, StageOrder
    <3>4. CASE AwaitShutdown \/ GracefulStop \/ Close
      <4>1. /\ UNCHANGED <<isLocked, secrets>>
            /\ <<main.pc, main'.pc>> \in {<<"up", "drain">>, <<"drain", "close">>, <<"close", "exited">>}
        BY <3>4 DEF AwaitShutdown, GracefulStop, Close
      <4>2. QED  BY <4>1, StageOrder
    <3>5. QED  BY <2>2, <3>1, <3>2, <3>3, <3>4 DEF Run
  <2>3. CASE ~Run
    <3>1. UNCHANGED <<main, isLocked, secrets>>
      BY <2>3 DEF Next, AskForCode, ConfirmedInApp, SteamGuardRequired, DispatcherReturn,
                  Request, GuardUnlock, GuardSubmitAuthCode, StreamEvents, StopDaemon,
                  UnlockResult, StreamDisconnected, StreamShutdown, StopFires, Signal, vars
    <3>2. QED  BY <2>1, <3>1
  <2>4. QED  BY <2>2, <2>3
<1> HIDE DEF Forward
<1>2. Spec => [][Forward]_vars
  BY <1>1, LifecycleTypeCorrect, PTL DEF Spec
<1>3. QED  BY <1>2 DEF ForwardOnly, Forward
=============================================================================
