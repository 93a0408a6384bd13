---------------------------- MODULE Requests_proofs ----------------------------
(***************************************************************************)
(* Proofs about Requests, for any number of processes and clients, any     *)
(* commands and settings, and any number of retries and lost answers.      *)
(***************************************************************************)
EXTENDS Requests, TLAPS

-----------------------------------------------------------------------------
(* The address                                                             *)

\* With the settings that agree both programs compute the same address.
LEMMA AgreeingMeet ==
  ASSUME NEW host \in Hosts, NEW daemon \in DaemonEnvironments, NEW gmanctl \in Environments,
         Agreeing(host, daemon, gmanctl)
  PROVE  ClientAddress(host, gmanctl) = DaemonAddress(host, daemon)
<1>1. gmanctl.socket = Unset /\ gmanctl.tcp = Unset /\ gmanctl.net = daemon.net
      /\ gmanctl.addr = daemon.addr
  BY DEF Agreeing
<1> DEFINE net == EnvOr(daemon.net, DefaultNet(host))
<1>2. net \in {"unix", "tcp"}
  BY DEF EnvOr, DefaultNet, DaemonEnvironments, Environments
<1>3. ClientAddress(host, gmanctl) =
        [net |-> net, addr |-> EnvOr(daemon.addr,
           IF net = "tcp" THEN DefaultTCP ELSE DefaultSockPath(host))]
  BY <1>1 DEF ClientAddress, StringEnvOrFlag, EnvOr
<1>4. CASE daemon.addr # Unset \/ net = "tcp"
  BY <1>3, <1>4 DEF DaemonAddress, EnvOr
<1>5. CASE daemon.path = Unset /\ daemon.socket = Unset /\ ~daemon.container
  <2>1. ResolveSocketPath(host, daemon) = DefaultSockPath(host)
    BY <1>5 DEF ResolveSocketPath, StringEnvOrFlag, EnvOr
  <2>2. QED  BY <1>3, <2>1 DEF DaemonAddress
<1>6. QED  BY <1>4, <1>5 DEF Agreeing

-----------------------------------------------------------------------------
(* What Steam gets                                                         *)

\* The interceptor moves a query: it loses nothing and adds nothing.
LEMMA FixKeeps ==
  ASSUME NEW req, NEW method, NEW query, NEW form, NEW body, NEW m,
         query = NoParams \/ form = NoParams,
         m = SteamWebAPIFix(Message(req, method, query, form, body))
  PROVE  /\ m.to = req.type /\ m.method = method /\ m.body = body
         /\ m.version = IF req.version <= 0 THEN 1 ELSE req.version
         /\ \A key \in DOMAIN query : Carries(m, key, query[key])
         /\ \A key \in DOMAIN form : Carries(m, key, form[key])
         /\ DOMAIN m.query \cup DOMAIN m.form \subseteq DOMAIN query \cup DOMAIN form
         /\ m.query = NoParams \/ m.form = NoParams
<1> DEFINE raw == Message(req, method, query, form, body)
<1>1. /\ raw.to = req.type /\ raw.method = method /\ raw.body = body
      /\ raw.version = (IF req.version <= 0 THEN 1 ELSE req.version)
      /\ raw.query = query /\ raw.form = form
  BY DEF Message
<1>2. DOMAIN NoParams = {}
  BY DEF NoParams
<1>3. CASE raw.method = "POST" /\ raw.body = NoValue /\ raw.form = NoParams
  <2>1. m = [to |-> raw.to, method |-> raw.method, version |-> raw.version,
             query |-> NoParams, form |-> raw.query, body |-> raw.body]
    BY <1>3 DEF SteamWebAPIFix, Message
  <2>2. /\ m.to = raw.to /\ m.method = raw.method /\ m.version = raw.version
        /\ m.query = NoParams /\ m.form = raw.query /\ m.body = raw.body
    BY <2>1
  <2> HIDE DEF raw
  <2>3. \A key \in DOMAIN query : Carries(m, key, query[key])
    BY <1>1, <2>2 DEF Carries
  <2>4. DOMAIN form = {}
    BY <1>1, <1>2, <1>3
  <2>5. QED  BY <1>1, <1>2, <1>3, <2>2, <2>3, <2>4
<1>4. CASE ~(raw.method = "POST" /\ raw.body = NoValue /\ raw.form = NoParams)
  <2>1. m = raw
    BY <1>4 DEF SteamWebAPIFix
  <2> HIDE DEF raw
  <2>2. QED  BY <1>1, <2>1 DEF Carries
<1>5. QED  BY <1>3, <1>4

\* Of a request that gmanctl does not refuse Steam gets what its kind takes, and nothing
\* else but the session, whatever its words are and whether there is a session.
LEMMA SentAsTyped ==
  ASSUME NEW command, ~RequestMisused(command), NEW sid \in Sessions
  PROVE  AsTyped(command, sid)
<1> DEFINE args == command.args
           req == ParseKeyValArgs(command)
           type == RequestTypes[command.type]
           asked == Arg(command, "method", command.method)
           typed == Arg(command, "body", NoValue)
           version == IF Arg(command, "version", NoValue) = "2" THEN 2 ELSE 1
           form == Arg(command, "is_post_form", NoValue) \in {"true", "1"}
           raw == IF type = "community" THEN ExecCommunity(req, sid)
                  ELSE IF type = "unified" THEN ExecUnified(req)
                  ELSE ExecWebAPI(req)
           m == Sent(command, sid)
           keys == DOMAIN args \ Reserved
           empty == {key \in {"sessionid"} : Arg(command, key, NoValue) = NoValue}
<1>1. /\ req.type = type /\ req.method = asked
      /\ req.body = typed
      /\ req.version = Number(Arg(command, "version", NoValue))
      /\ req.form = form
      /\ req.params = [k \in keys |-> args[k]]
  BY DEF ParseKeyValArgs, Reserved
<1>2. type \in {"community", "unified", "webapi"}
  BY DEF RequestMisused, RequestTypes
<1>3. m = SteamWebAPIFix(raw)
  BY <1>1 DEF Sent
<1>4. (IF req.version <= 0 THEN 1 ELSE req.version) = version
  BY <1>1 DEF Number
<1>5. "method" \in DOMAIN args /\ args["method"] # NoValue =>
        \A fallback : MethodOr(asked, fallback) = args["method"]
  BY DEF Arg, MethodOr
<1>6. DOMAIN req.params = keys /\ \A key \in keys : req.params[key] = args[key]
  BY <1>1
<1>7. DOMAIN NoParams = {}
  BY DEF NoParams
<1> HIDE DEF req, m, form, asked, typed, version
<1>8. ASSUME NEW method, NEW query, NEW fields, NEW body,
             query = NoParams \/ fields = NoParams,
             raw = Message(req, method, query, fields, body)
      PROVE  /\ m.to = type /\ m.method = method /\ m.body = body /\ m.version = version
             /\ \A key \in DOMAIN query : Carries(m, key, query[key])
             /\ \A key \in DOMAIN fields : Carries(m, key, fields[key])
             /\ DOMAIN m.query \cup DOMAIN m.form \subseteq DOMAIN query \cup DOMAIN fields
             /\ m.query = NoParams \/ m.form = NoParams
  <2>1. m = SteamWebAPIFix(Message(req, method, query, fields, body))
    BY <1>3, <1>8
  <2> HIDE DEF raw, type
  <2>2. QED  BY <1>1, <1>4, <1>8, <2>1, FixKeeps
<1> DEFINE method == IF type = "community" THEN Upper(MethodOr(asked, "GET"))
                     ELSE IF type = "unified" THEN MethodOr(asked, "POST")
                     ELSE MethodOr(asked, "GET")
           posted == type = "community" /\ method = "POST"
           taken == IF type = "webapi" \/ (type = "community" /\ (posted => form))
                    THEN keys ELSE {}
           session == IF "sessionid" \in taken \ empty THEN args["sessionid"] ELSE sid
<1>9. "method" \in DOMAIN args /\ args["method"] # NoValue =>
        method = IF type = "community" THEN Upper(args["method"]) ELSE args["method"]
  BY <1>5
\* The parts of AsTyped that depend on the kind of request.
<1>10. ASSUME m.to = type, m.method = method, m.version = version,
              \A key \in IF posted THEN taken \ empty ELSE taken : Carries(m, key, args[key]),
              DOMAIN m.query \cup DOMAIN m.form
                \subseteq taken \cup (IF posted THEN {"sessionid"} ELSE {}),
              m.query = NoParams \/ m.form = NoParams,
              posted /\ session # NoValue => Carries(m, "sessionid", session),
              m.body = IF type = "unified" \/ (posted /\ ~form) THEN typed ELSE NoValue
       PROVE  AsTyped(command, sid)
  BY <1>9, <1>10, Zenon DEF AsTyped, m, form, typed, version
<1> HIDE DEF method, raw
<1>11. CASE type = "webapi" \/ (type = "community" /\ ~posted)
  <2>1. raw = Message(req, method, req.params, NoParams, NoValue)
    BY <1>1, <1>11 DEF ExecWebAPI, ExecCommunity, raw, method
  <2>2. ~posted /\ taken = keys /\ type # "unified"
    BY <1>11
  <2> HIDE DEF type, taken, posted, session
  <2>3. QED  BY <1>6, <1>7, <1>8, <1>10, <2>1, <2>2
<1>12. CASE type = "unified"
  <2>1. raw = Message(req, method, NoParams, NoParams, req.body)
    BY <1>1, <1>12 DEF ExecUnified, raw, method
  <2>2. ~posted /\ taken = {}
    BY <1>12
  <2> HIDE DEF taken, posted, session
  <2>3. QED  BY <1>1, <1>7, <1>8, <1>10, <1>12, <2>1, <2>2
<1>13. CASE posted /\ form
  <2> DEFINE fields == WithSession(req.params, sid)
  <2>1. raw = Message(req, method, NoParams, fields, NoValue)
    BY <1>1, <1>13 DEF ExecCommunity, raw, method
  <2>2. DOMAIN fields = keys \cup {"sessionid"}
    BY <1>6 DEF WithSession
  <2>3. \A key \in keys \ empty : fields[key] = args[key]
    BY <1>6 DEF WithSession, Arg, Reserved
  <2>4. fields["sessionid"] = session
    BY <1>6, <1>13 DEF WithSession, Arg, Reserved
  <2>5. taken = keys /\ type # "unified"
    BY <1>13
  <2> HIDE DEF fields, taken, session, type, empty
  <2>6. QED  BY <1>7, <1>8, <1>10, <1>13, <2>1, <2>2, <2>3, <2>4, <2>5
<1>14. CASE posted /\ ~form
  <2> DEFINE query == IF sid = NoValue THEN NoParams ELSE WithSession(NoParams, sid)
  <2>1. raw = Message(req, method, query, NoParams, req.body)
    BY <1>1, <1>14 DEF ExecCommunity, raw, method
  <2>2. DOMAIN query \subseteq {"sessionid"}
    BY <1>7 DEF WithSession
  <2>3. sid # NoValue => "sessionid" \in DOMAIN query /\ query["sessionid"] = sid
    BY <1>7 DEF WithSession
  <2>4. taken = {} /\ session = sid /\ type # "unified"
    BY <1>14
  <2> HIDE DEF query, taken, session, type
  <2>5. QED  BY <1>1, <1>7, <1>8, <1>10, <1>14, <2>1, <2>2, <2>3, <2>4
<1>15. QED  BY <1>2, <1>11, <1>12, <1>13, <1>14

-----------------------------------------------------------------------------
(* The inductive invariant                                                 *)

\* Processes that live together have met; a TCP address names a listener; the address
\* of a process that met nobody is free when it listens, and then names it.
ProcessesOK ==
  /\ \A p, q \in Processes : p # q /\ Alive(p) /\ Alive(q) => p \in met
  /\ named # Nobody /\ ~Unix => Listening(named)
  /\ \A p \in Processes \ met :
       /\ proc[p] # "barred"
       /\ proc[p] = "listen" => named = Nobody
       /\ Listening(p) => named = p

\* cancel-offer may be done twice.
Twice(command) == command.verb = "exec" /\ command.action = "cancel-offer"
MayBeOwn(command) == command.verb = "exec" /\ command.action = "check-escrow"

\* What may have happened to a request, by where it is: k its command, x and n where it
\* is and its attempts, r its result, t what was told, g and l how often Steam took it
\* and how often an answer was lost.
RequestOK(k, x, n, r, t, g, l) ==
  /\ x = "idle" => t = "none"
  /\ x # "done" => t \in {"none", "left"}
  /\ x \notin {"idle", "done"} \/ g > 0 => ~Misused(k)
  /\ x \in {"idle", "accepted"} => g = 0 /\ l = 0 /\ n = 0
  /\ x \in {"call", "wait"} => g = l
  /\ x = "wait" => n < MaxRetries
  /\ x = "post" => Twice(k) /\ r \in {"ok", "error"} /\ g <= 1 + l /\ (r = "error" => g = l)
  /\ x = "reply" => r \in {"ok", "error"} \cup (IF k.verb = "request" THEN {"turned"} ELSE {})
  /\ x = "reply" /\ r = "error" => g = l
  /\ x = "reply" /\ r = "ok" /\ Remote(k) /\ ~Twice(k) /\ ~MayBeOwn(k) => g >= 1
  /\ g <= 1 + l + (IF Twice(k) THEN 1 ELSE 0)
  /\ t = "ok" /\ Remote(k) /\ ~Twice(k) /\ ~MayBeOwn(k) =>
       g >= 1 \/ (k.verb = "request" /\ r = "turned" /\ x = "done")
  /\ t \in {"usage", "unavailable", "refused"} => g = 0
  /\ t = "error" => g = l

RequestKept(c) ==
  RequestOK(cmd[c], pc[c], attempt[c], result[c], told[c], received[c], lost[c])

\* A request that has gone out went to a process, and breaks off only with it.
Placed(c) ==
  /\ pc[c] = "accepted" \/ InHandler(c) => at[c] \in Processes
  /\ told[c] = "lost" => at[c] \in Processes /\ proc[at[c]] = "killed" /\ pc[c] = "done"

ClientsOK == \A c \in Clients : RequestKept(c) /\ Placed(c)

RequestsInv == TypeOK /\ ProcessesOK /\ ClientsOK
-----------------------------------------------------------------------------
(* Who changes what                                                        *)

ProcessActs(p) == Start(p) \/ Step(p) \/ Interrupted(p) \/ Kill(p)
ClientActs(c) == (\E command \in Commands : Run(c, command)) \/ Leave(c) \/ Handler(c)

\* A step is one process's, which leaves the clients alone unless it is killed, or one
\* client's, which leaves the processes alone.
LEMMA WhoActs ==
  ASSUME TypeOK, Next
  PROVE  \/ \E p \in Processes : ProcessActs(p)
         \/ \E c \in Clients : ClientActs(c)
<1>1. ASSUME NEW c \in Clients, NEW command \in Menus[scope.menu][c], Run(c, command)
      PROVE  ClientActs(c)
  <2>1. scope.menu \in DOMAIN Menus
    BY DEF TypeOK, ScopeOK
  <2>2. Menus[scope.menu] \in [Clients -> SUBSET Commands]
    BY <2>1, RequestsAssumption
  <2>3. command \in Commands
    BY <2>2
  <2>4. QED  BY <1>1, <2>3 DEF ClientActs
<1>2. QED  BY <1>1 DEF Next, ProcessActs, ClientActs

LEMMA ProcessFrame ==
  ASSUME NEW p \in Processes, ProcessActs(p)
  PROVE  /\ UNCHANGED scope
         /\ Kill(p) \/ UNCHANGED clientVars
BY DEF ProcessActs, Start, Step, PrepareUnixSocket, Listen, NewDaemon, StopFires, Interrupted,
       CloseListener, GracefulStop, Kill

LEMMA ClientFrame ==
  ASSUME NEW c \in Clients, ClientActs(c)
  PROVE  /\ UNCHANGED <<scope, proc, named, met>>
         /\ stopping' = stopping \/ (stopping' = stopping \cup {at[c]} /\ Handled(c))
<1>1. CASE \E command \in Commands : Run(c, command)
  BY <1>1 DEF Run, processVars
<1>2. CASE Leave(c) \/ Rejected(c) \/ LocalAction(c) \/ Dispatch(c)
  BY <1>2 DEF Leave, Rejected, LocalAction, Dispatch, processVars
<1>3. CASE StopDaemon(c)
  BY <1>3 DEF StopDaemon
<1>4. CASE Call(c) \/ Backoff(c) \/ GiveUp(c) \/ PostCancel(c) \/ Reply(c)
  BY <1>4 DEF Call, Backoff, GiveUp, PostCancel, Reply, processVars
<1>5. QED  BY <1>1, <1>2, <1>3, <1>4 DEF ClientActs, Handler

-----------------------------------------------------------------------------
(* The processes                                                           *)

ProcessTypeOK ==
  /\ ScopeOK(scope)
  /\ proc \in [Processes -> ProcessPC]
  /\ named \in Processes \cup {Nobody}
  /\ met \subseteq Processes /\ stopping \subseteq Processes

LEMMA ProcessTypeStep ==
  ASSUME RequestsInv, [Next]_vars
  PROVE  ProcessTypeOK'
<1>1. ProcessTypeOK
  BY DEF RequestsInv, TypeOK, ProcessTypeOK
<1>2. ASSUME NEW p \in Processes, ProcessActs(p) PROVE ProcessTypeOK'
  <2>1. UNCHANGED scope
    BY <1>2, ProcessFrame
  <2>2. CASE Start(p)
    BY <1>1, <2>1, <2>2 DEF Start, ProcessTypeOK, ProcessPC, Goto, Alive, clientVars
  <2>3. CASE PrepareUnixSocket(p) \/ Listen(p) \/ NewDaemon(p)
    BY <1>1, <2>1, <2>3
    DEF PrepareUnixSocket, Listen, NewDaemon, Freed, ProcessTypeOK, ProcessPC, Goto
  <2>4. CASE CloseListener(p) \/ GracefulStop(p) \/ Kill(p)
    BY <1>1, <2>1, <2>4
    DEF CloseListener, GracefulStop, Kill, Freed, ProcessTypeOK, ProcessPC, Goto
  <2>5. QED
    BY <1>2, <2>2, <2>3, <2>4 DEF ProcessActs, Step, StopFires, Interrupted
<1>3. ASSUME NEW c \in Clients, ClientActs(c) PROVE ProcessTypeOK'
  <2>1. Handled(c) => at[c] \in Processes
    BY <1>3 DEF Handled, RequestsInv, ClientsOK, Placed
  <2>2. QED  BY <1>1, <1>3, <2>1, ClientFrame DEF ProcessTypeOK
<1>4. CASE UNCHANGED vars
  BY <1>1, <1>4 DEF ProcessTypeOK, vars, processVars
<1>5. QED
  BY <1>2, <1>3, <1>4, WhoActs DEF RequestsInv

LEMMA ProcessesStep ==
  ASSUME RequestsInv, [Next]_vars
  PROVE  ProcessesOK'
<1>1. ProcessTypeOK /\ ProcessesOK
  BY DEF RequestsInv, TypeOK, ProcessTypeOK
<1>n. Nobody \notin Processes
  BY RequestsAssumption
<1>2. ASSUME NEW p \in Processes, ProcessActs(p) PROVE ProcessesOK'
  <2>1. UNCHANGED scope
    BY <1>2, ProcessFrame
  <2>2. Unix' = Unix
    BY <2>1 DEF Unix, Address
  <2> USE DEF ProcessTypeOK, ProcessesOK, ProcessPC, Alive, Listening, Goto
  <2>3. CASE Start(p)
    BY <1>1, <2>2, <2>3 DEF Start
  <2>4. CASE PrepareUnixSocket(p)
    BY <1>1, <1>n, <2>2, <2>4 DEF PrepareUnixSocket
  <2>5. CASE Listen(p)
    BY <1>1, <1>n, <2>2, <2>5 DEF Listen
  <2>6. CASE NewDaemon(p)
    BY <1>1, <1>n, <2>2, <2>6 DEF NewDaemon, Freed
  <2>7. CASE CloseListener(p)
    BY <1>1, <1>n, <2>2, <2>7 DEF CloseListener
  <2>8. CASE GracefulStop(p)
    BY <1>1, <1>n, <2>2, <2>8 DEF GracefulStop
  <2>9. CASE Kill(p)
    BY <1>1, <1>n, <2>2, <2>9 DEF Kill, Freed
  <2>10. QED
    BY <1>2, <2>3, <2>4, <2>5, <2>6, <2>7, <2>8, <2>9
    DEF ProcessActs, Step, StopFires, Interrupted
<1>3. CASE UNCHANGED <<scope, proc, named, met>>
  BY <1>1, <1>3 DEF ProcessesOK, Alive, Listening, Unix, Address
<1>4. CASE UNCHANGED vars
  BY <1>3, <1>4 DEF vars, processVars
<1>5. QED
  BY <1>2, <1>3, <1>4, WhoActs, ClientFrame DEF RequestsInv
-----------------------------------------------------------------------------
(* The clients                                                             *)

ClientTypeOK ==
  /\ pc \in [Clients -> ClientPC]
  /\ cmd \in [Clients -> Commands]
  /\ at \in [Clients -> Processes \cup {Nobody}]
  /\ attempt \in [Clients -> 0 .. MaxRetries]
  /\ result \in [Clients -> Results]
  /\ told \in [Clients -> Told]
  /\ received \in [Clients -> Nat]
  /\ lost \in [Clients -> 0 .. MaxLost]

\* The words the client is told are words it may be told.
LEMMA AnswerType ==
  ASSUME NEW c \in Clients, ClientTypeOK, NEW answer \in Told, Answer(c, answer)
  PROVE  pc' \in [Clients -> ClientPC] /\ told' \in [Clients -> Told]
BY DEF Answer, ClientTypeOK, ClientPC

LEMMA CountType ==
  ASSUME NEW c \in Clients, ClientTypeOK,
         Got(c) \/ UNCHANGED received, AnswerLost(c) \/ UNCHANGED lost
  PROVE  received' \in [Clients -> Nat] /\ lost' \in [Clients -> 0 .. MaxLost]
<1>1. received[c] + 1 \in Nat
  BY DEF ClientTypeOK
<1>2. AnswerLost(c) => lost[c] + 1 \in 0 .. MaxLost
  BY RequestsAssumption DEF ClientTypeOK, AnswerLost
<1>3. QED  BY <1>1, <1>2 DEF ClientTypeOK, Got, AnswerLost

LEMMA ClientTypeStep ==
  ASSUME RequestsInv, [Next]_vars
  PROVE  ClientTypeOK'
<1>1. ClientTypeOK
  BY DEF RequestsInv, TypeOK, ClientTypeOK
<1>2. CASE UNCHANGED clientVars
  BY <1>1, <1>2 DEF ClientTypeOK, clientVars
<1>3. ASSUME NEW p \in Processes, Kill(p) PROVE ClientTypeOK'
  <2>1. UNCHANGED <<cmd, at, attempt, result, received, lost>>
    BY <1>3 DEF Kill
  <2>2. pc' \in [Clients -> ClientPC] /\ told' \in [Clients -> Told]
    BY <1>1, <1>3 DEF Kill, ClientTypeOK, ClientPC, Told
  <2>3. QED  BY <1>1, <2>1, <2>2 DEF ClientTypeOK
<1>4. ASSUME NEW c \in Clients, ClientActs(c) PROVE ClientTypeOK'
  <2>1. ASSUME NEW command \in Commands, Run(c, command) PROVE ClientTypeOK'
    <3>1. cmd' \in [Clients -> Commands] /\ UNCHANGED <<attempt, result, received, lost>>
      BY <1>1, <2>1 DEF Run, ClientTypeOK
    <3>2. at' \in [Clients -> Processes \cup {Nobody}]
      BY <1>1, <2>1 DEF Run, ClientTypeOK
    <3>3. pc' \in [Clients -> ClientPC] /\ told' \in [Clients -> Told]
      BY <1>1, <2>1 DEF Run, Answer, ClientTypeOK, ClientPC, Told
    <3>4. QED  BY <1>1, <3>1, <3>2, <3>3 DEF ClientTypeOK
  <2>2. CASE Leave(c)
    BY <1>1, <2>2 DEF Leave, ClientTypeOK, Told
  <2>3. CASE Rejected(c)
    BY <1>1, <2>3, AnswerType DEF Rejected, ClientTypeOK, Told
  <2>4. CASE StopDaemon(c) \/ LocalAction(c)
    BY <1>1, <2>4 DEF StopDaemon, LocalAction, ClientTypeOK, ClientPC, Results
  <2>5. CASE Dispatch(c)
    <3>1. UNCHANGED <<cmd, at, attempt, received, lost>>
      BY <2>5 DEF Dispatch
    <3>2. pc' \in [Clients -> ClientPC] /\ told' \in [Clients -> Told]
      BY <1>1, <2>5 DEF Dispatch, Answer, ClientTypeOK, ClientPC, Told
    <3>3. result' \in [Clients -> Results]
      BY <1>1, <2>5 DEF Dispatch, ClientTypeOK, Results
    <3>4. QED  BY <1>1, <3>1, <3>2, <3>3 DEF ClientTypeOK
  <2>6. CASE Call(c)
    <3>1. UNCHANGED <<cmd, at, attempt, told>>
      BY <2>6 DEF Call
    <3>2. Delay(c) \/ Ends(c, "ok") \/ Ends(c, "error") \/ Ends(c, "turned")
      BY <2>6 DEF Call
    <3>3. pc' \in [Clients -> ClientPC] /\ result' \in [Clients -> Results]
      BY <1>1, <3>2 DEF Delay, Ends, ClientTypeOK, ClientPC, Results
    <3>4. (Got(c) \/ UNCHANGED received) /\ (AnswerLost(c) \/ UNCHANGED lost)
      BY <2>6 DEF Call
    <3>5. QED  BY <1>1, <3>1, <3>3, <3>4, CountType DEF ClientTypeOK
  <2>7. CASE Backoff(c)
    <3>1. attempt[c] + 1 \in 0 .. MaxRetries
      BY <1>1, <2>7, RequestsAssumption
      DEF Backoff, ClientTypeOK, RequestsInv, ClientsOK, RequestKept, RequestOK
    <3>2. QED  BY <1>1, <2>7, <3>1 DEF Backoff, ClientTypeOK, ClientPC
  <2>8. CASE GiveUp(c)
    BY <1>1, <2>8 DEF GiveUp, Ends, ClientTypeOK, ClientPC, Results
  <2>9. CASE PostCancel(c)
    <3>1. UNCHANGED <<cmd, at, attempt, told>>
      BY <2>9 DEF PostCancel
    <3>2. pc' \in [Clients -> ClientPC] /\ result' \in [Clients -> Results]
      BY <1>1, <2>9 DEF PostCancel, ClientTypeOK, ClientPC, Results
    <3>3. (Got(c) \/ UNCHANGED received) /\ (AnswerLost(c) \/ UNCHANGED lost)
      BY <2>9 DEF PostCancel
    <3>4. QED  BY <1>1, <3>1, <3>2, <3>3, CountType DEF ClientTypeOK
  <2>10. CASE Reply(c)
    <3>1. (IF result[c] = "turned" THEN "ok" ELSE result[c]) \in Told
      BY <1>1 DEF ClientTypeOK, Results, Told
    <3>2. QED  BY <1>1, <2>10, <3>1, AnswerType DEF Reply, ClientTypeOK
  <2>11. QED
    BY <1>4, <2>1, <2>2, <2>3, <2>4, <2>5, <2>6, <2>7, <2>8, <2>9, <2>10 DEF ClientActs, Handler
<1>5. QED
  BY <1>2, <1>3, <1>4, WhoActs, ProcessFrame DEF RequestsInv, vars

\* A client's step leaves the requests of the others alone.
LEMMA OthersUntouched ==
  ASSUME TypeOK, NEW c \in Clients, ClientActs(c), NEW k \in Clients, k # c
  PROVE  /\ cmd'[k] = cmd[k] /\ pc'[k] = pc[k] /\ at'[k] = at[k] /\ attempt'[k] = attempt[k]
         /\ result'[k] = result[k] /\ told'[k] = told[k]
         /\ received'[k] = received[k] /\ lost'[k] = lost[k]
<1> USE DEF TypeOK
<1>1. CASE \E command \in Commands : Run(c, command)
  BY <1>1 DEF Run, Answer
<1>2. CASE Leave(c) \/ Rejected(c) \/ StopDaemon(c) \/ LocalAction(c)
  BY <1>2 DEF Leave, Rejected, StopDaemon, LocalAction, Answer
<1>3. CASE Dispatch(c)
  BY <1>3 DEF Dispatch, Answer
<1>4. CASE Call(c)
  BY <1>4 DEF Call, Delay, Ends, Got, AnswerLost
<1>5. CASE Backoff(c) \/ GiveUp(c) \/ Reply(c)
  BY <1>5 DEF Backoff, GiveUp, Reply, Ends, Answer
<1>6. CASE PostCancel(c)
  BY <1>6 DEF PostCancel, Got, AnswerLost
<1>7. QED
  BY <1>1, <1>2, <1>3, <1>4, <1>5, <1>6 DEF ClientActs, Handler
\* The acting client's own request: one step per action.
LEMMA OwnRequestStep ==
  ASSUME RequestsInv, NEW c \in Clients, ClientActs(c)
  PROVE  RequestKept(c)'
<1>1. /\ pc[c] \in ClientPC /\ told[c] \in Told /\ result[c] \in Results
      /\ received[c] \in Nat /\ lost[c] \in Nat /\ attempt[c] \in Nat /\ MaxRetries \in Nat
  BY RequestsAssumption DEF RequestsInv, TypeOK
<1>2. RequestOK(cmd[c], pc[c], attempt[c], result[c], told[c], received[c], lost[c])
  BY DEF RequestsInv, ClientsOK, RequestKept
<1>3. TypeOK
  BY DEF RequestsInv
<1> USE DEF RequestOK, TypeOK
<1>4. ASSUME NEW command \in Commands, Run(c, command)
      PROVE  RequestKept(c)'
  <2>1. /\ pc[c] = "idle" /\ cmd'[c] = command
        /\ attempt'[c] = attempt[c] /\ result'[c] = result[c]
        /\ received'[c] = received[c] /\ lost'[c] = lost[c]
    BY <1>3, <1>4 DEF Run
  <2>2. \/ pc'[c] = "done" /\ told'[c] \in {"usage", "unavailable"}
        \/ pc'[c] = "accepted" /\ told'[c] = told[c] /\ ~Misused(command)
    BY <1>2, <1>3, <1>4, <2>1 DEF Run, Answer
  <2>3. QED  BY <1>1, <1>2, <2>1, <2>2 DEF RequestKept
<1>5. CASE Leave(c)
  <2>1. /\ pc[c] \notin {"idle", "done"} /\ told'[c] = "left"
        /\ UNCHANGED <<cmd, pc, attempt, result, received, lost>>
    BY <1>1, <1>3, <1>5 DEF Leave, InHandler
  <2>2. QED  BY <1>1, <1>2, <2>1 DEF RequestKept
<1>6. CASE Rejected(c)
  <2>1. /\ pc[c] = "accepted" /\ pc'[c] = "done"
        /\ told'[c] \in {"unavailable", "left"}
        /\ UNCHANGED <<cmd, attempt, result, received, lost>>
    BY <1>2, <1>3, <1>6 DEF Rejected, Answer
  <2>2. QED  BY <1>1, <1>2, <2>1 DEF RequestKept
<1>7. CASE StopDaemon(c) \/ LocalAction(c)
  <2>1. /\ pc[c] = "accepted" /\ pc'[c] = "reply" /\ result'[c] = "ok"
        /\ ~Remote(cmd[c])
        /\ UNCHANGED <<cmd, attempt, told, received, lost>>
    BY <1>3, <1>7 DEF StopDaemon, LocalAction, Handled, Remote
  <2>2. QED  BY <1>1, <1>2, <2>1 DEF RequestKept
<1>8. CASE Dispatch(c)
  <2>1. /\ pc[c] = "accepted"
        /\ UNCHANGED <<cmd, attempt, received, lost>>
    BY <1>8 DEF Dispatch, Handled
  <2>2. \/ pc'[c] = "call" /\ told'[c] = told[c] /\ result'[c] = result[c]
        \/ /\ pc'[c] = "reply" /\ told'[c] = told[c] /\ result'[c] \in {"ok", "error"}
           /\ ~Remote(cmd[c])
        \/ pc'[c] = "done" /\ told'[c] \in {"refused", "left"} /\ result'[c] = result[c]
    BY <1>2, <1>3, <1>8, <2>1 DEF Dispatch, Answer
  <2>3. QED  BY <1>1, <1>2, <2>1, <2>2 DEF RequestKept
<1>9. CASE Call(c)
  <2>1. /\ pc[c] = "call" /\ UNCHANGED <<cmd, attempt, told>>
    BY <1>9 DEF Call
  <2>2. received'[c] \in {received[c], received[c] + 1} /\ lost'[c] \in {lost[c], lost[c] + 1}
    BY <1>3, <1>9 DEF Call, Got, AnswerLost
  <2>3. CASE Delay(c)
    <3>1. pc'[c] = "wait" /\ result'[c] = result[c] /\ attempt[c] < Retries(c)
      BY <1>3, <2>3 DEF Delay
    <3>2. attempt[c] < MaxRetries
      BY <1>1, <3>1 DEF Retries
    <3>3. received'[c] = lost'[c]
      BY <1>2, <1>3, <1>9, <2>1, <2>3, <3>1 DEF Call, Got, AnswerLost, Ends
    <3>4. QED  BY <1>1, <1>2, <2>1, <2>2, <3>1, <3>2, <3>3 DEF RequestKept
  <2>4. CASE Ends(c, "error") /\ received'[c] = lost'[c]
    <3>1. pc'[c] = (IF Twice(cmd[c]) THEN "post" ELSE "reply") /\ result'[c] = "error"
      BY <1>3, <2>4 DEF Ends, Is, Twice
    <3>2. QED  BY <1>1, <1>2, <2>1, <2>2, <2>4, <3>1 DEF RequestKept
  <2>5. CASE /\ Ends(c, "ok")
             /\ received'[c] = lost'[c] + 1 \/ (MayBeOwn(cmd[c]) /\ received'[c] = lost'[c])
    <3>1. pc'[c] = (IF Twice(cmd[c]) THEN "post" ELSE "reply") /\ result'[c] = "ok"
      BY <1>3, <2>5 DEF Ends, Is, Twice
    <3>2. MayBeOwn(cmd[c]) => ~Twice(cmd[c])
      BY DEF MayBeOwn, Twice
    <3>3. QED  BY <1>1, <1>2, <2>1, <2>2, <2>5, <3>1, <3>2 DEF RequestKept
  <2>6. CASE Ends(c, "turned") /\ cmd[c].verb = "request" /\ UNCHANGED <<received, lost>>
    <3>1. ~Twice(cmd[c])
      BY <2>6 DEF Twice
    <3>2. pc'[c] = "reply" /\ result'[c] = "turned"
      BY <1>3, <2>6, <3>1 DEF Ends, Is, Twice
    <3>3. QED  BY <1>1, <1>2, <2>1, <2>6, <3>1, <3>2 DEF RequestKept
  <2>7. QED
    <3>1. received[c] = lost[c]
      BY <1>2, <2>1
    <3>2. \/ Delay(c)
          \/ Ends(c, "turned") /\ cmd[c].verb = "request" /\ UNCHANGED <<received, lost>>
          \/ Ends(c, "error") /\ received'[c] = lost'[c]
          \/ /\ Ends(c, "ok")
             /\ received'[c] = lost'[c] + 1 \/ (MayBeOwn(cmd[c]) /\ received'[c] = lost'[c])
      BY <1>3, <1>9, <3>1 DEF Call, Got, AnswerLost, Is, MayBeOwn
    <3>3. QED  BY <2>3, <2>4, <2>5, <2>6, <3>2
<1>10. CASE Backoff(c)
  <2>1. /\ pc[c] = "wait" /\ pc'[c] = "call"
        /\ UNCHANGED <<cmd, result, told, received, lost>>
    BY <1>3, <1>10 DEF Backoff
  <2>2. QED  BY <1>1, <1>2, <2>1 DEF RequestKept
<1>11. CASE GiveUp(c)
  <2>1. /\ pc[c] = "wait" /\ UNCHANGED <<cmd, attempt, told, received, lost>>
        /\ pc'[c] = (IF Twice(cmd[c]) THEN "post" ELSE "reply") /\ result'[c] = "error"
    BY <1>3, <1>11 DEF GiveUp, Ends, Is, Twice
  <2>2. QED  BY <1>1, <1>2, <2>1 DEF RequestKept
<1>12. CASE PostCancel(c)
  <2>1. /\ pc[c] = "post" /\ pc'[c] = "reply" /\ UNCHANGED <<cmd, attempt, told>>
    BY <1>3, <1>12 DEF PostCancel
  <2>2. \/ received'[c] = received[c] + 1 /\ result'[c] = "ok" /\ lost'[c] = lost[c]
        \/ received'[c] = received[c] + 1 /\ result'[c] = result[c] /\ lost'[c] = lost[c] + 1
        \/ received'[c] = received[c] /\ result'[c] \in {result[c], "ok"} /\ lost'[c] = lost[c]
    BY <1>3, <1>12 DEF PostCancel, Got, AnswerLost
  <2>3. QED  BY <1>1, <1>2, <2>1, <2>2 DEF RequestKept
<1>13. CASE Reply(c)
  <2>1. /\ pc[c] = "reply" /\ pc'[c] = "done"
        /\ told'[c] = IF told[c] # "none" THEN told[c]
                      ELSE IF result[c] = "turned" THEN "ok" ELSE result[c]
        /\ UNCHANGED <<cmd, attempt, result, received, lost>>
    BY <1>3, <1>13 DEF Reply, Answer
  <2>2. QED  BY <1>1, <1>2, <2>1 DEF RequestKept
<1>14. QED
  BY <1>4, <1>5, <1>6, <1>7, <1>8, <1>9, <1>10, <1>11, <1>12, <1>13 DEF ClientActs, Handler
\* The acting client's request is at a process, and nothing breaks it off.
LEMMA OwnPlaceStep ==
  ASSUME RequestsInv, NEW c \in Clients, ClientActs(c)
  PROVE  Placed(c)'
<1>1. TypeOK /\ Placed(c) /\ UNCHANGED proc
  BY ClientFrame DEF RequestsInv, ClientsOK
<1>2. RequestOK(cmd[c], pc[c], attempt[c], result[c], told[c], received[c], lost[c])
  BY DEF RequestsInv, ClientsOK, RequestKept
<1> USE DEF TypeOK, Placed, InHandler
<1>3. ASSUME NEW command \in Commands, Run(c, command) PROVE Placed(c)'
  <2>1. pc[c] = "idle" /\ told[c] # "lost"
    BY <1>2, <1>3 DEF Run, RequestOK
  <2>2. \/ pc'[c] = "done" /\ told'[c] # "lost"
        \/ pc'[c] = "accepted" /\ told'[c] = told[c] /\ at'[c] \in Processes
    BY <1>1, <1>3, <2>1 DEF Run, Answer
  <2>3. QED  BY <2>1, <2>2
<1>4. CASE /\ UNCHANGED at
           /\ pc[c] = "accepted" \/ InHandler(c)
           /\ told'[c] # "lost"
  BY <1>1, <1>4
<1>5. CASE Leave(c) \/ Rejected(c)
  <2>1. /\ UNCHANGED at
        /\ pc[c] = "accepted" \/ InHandler(c)
        /\ told'[c] \in {"left", "unavailable", told[c]}
    BY <1>1, <1>5 DEF Leave, Rejected, Answer
  <2>2. told'[c] # "lost"
    BY <1>2, <2>1 DEF RequestOK
  <2>3. QED  BY <1>4, <2>1, <2>2
<1>6. CASE StopDaemon(c) \/ LocalAction(c) \/ Dispatch(c)
  <2>1. /\ UNCHANGED at
        /\ pc[c] = "accepted"
        /\ told'[c] \in {"refused", told[c]}
    BY <1>1, <1>6 DEF StopDaemon, LocalAction, Dispatch, Handled, Answer
  <2>2. told'[c] # "lost"
    BY <1>2, <2>1 DEF RequestOK
  <2>3. QED  BY <1>4, <2>1, <2>2
<1>7. CASE Call(c) \/ Backoff(c) \/ GiveUp(c) \/ PostCancel(c)
  <2>1. UNCHANGED <<at, told>> /\ InHandler(c)
    BY <1>1, <1>7 DEF Call, Backoff, GiveUp, PostCancel
  <2>2. told'[c] # "lost"
    BY <1>2, <2>1 DEF RequestOK
  <2>3. QED  BY <1>4, <2>1, <2>2
<1>8. CASE Reply(c)
  <2>1. UNCHANGED at /\ pc[c] = "reply" /\ told'[c] \in {result[c], "ok", told[c]}
    BY <1>1, <1>8 DEF Reply, Answer
  <2>2. told'[c] # "lost"
    BY <1>2, <2>1 DEF RequestOK
  <2>3. QED  BY <1>4, <2>1, <2>2
<1>9. QED
  BY <1>3, <1>5, <1>6, <1>7, <1>8 DEF ClientActs, Handler

\* A process that is gone comes back no more.
LEMMA KilledStays ==
  ASSUME TypeOK, NEW p \in Processes, ProcessActs(p), NEW q \in Processes, proc[q] = "killed"
  PROVE  proc'[q] = "killed"
BY DEF TypeOK, ProcessActs, Start, Step, PrepareUnixSocket, Listen, NewDaemon, StopFires,
       Interrupted, CloseListener, GracefulStop, Kill, Alive, Goto

LEMMA ClientsStep ==
  ASSUME RequestsInv, [Next]_vars
  PROVE  ClientsOK'
<1>1. TypeOK /\ ClientsOK
  BY DEF RequestsInv
<1>2. ASSUME NEW c \in Clients, ClientActs(c), NEW k \in Clients
      PROVE  RequestKept(k)' /\ Placed(k)'
  <2>1. CASE k = c
    BY <1>2, <2>1, OwnRequestStep, OwnPlaceStep
  <2>2. CASE k # c
    <3>1. RequestKept(k) /\ Placed(k)
      BY <1>1 DEF ClientsOK
    <3>2. QED
      BY <1>1, <1>2, <2>2, <3>1, OthersUntouched, ClientFrame DEF RequestKept, Placed, InHandler
  <2>3. QED  BY <2>1, <2>2
<1>3. ASSUME NEW p \in Processes, Kill(p), NEW k \in Clients
      PROVE  RequestKept(k)' /\ Placed(k)'
  <2>1. RequestKept(k) /\ Placed(k)
    BY <1>1 DEF ClientsOK
  <2>2. UNCHANGED <<cmd, at, attempt, result, received, lost>> /\ proc'[p] = "killed"
    BY <1>1, <1>3 DEF Kill, Goto, TypeOK
  <2>3. CASE at[k] = p /\ InHandler(k)
    <3>1. pc'[k] = "done" /\ told'[k] = IF told[k] = "none" THEN "lost" ELSE told[k]
      BY <1>3, <2>3 DEF Kill
    <3>2. told[k] \in {"none", "left"}
      BY <2>1, <2>3 DEF RequestKept, RequestOK, InHandler
    <3>3. RequestKept(k)'
      BY <2>1, <2>2, <3>1, <3>2 DEF RequestKept, RequestOK
    <3>4. Placed(k)'
      BY <2>2, <2>3, <3>1, <3>2 DEF Placed, InHandler
    <3>5. QED  BY <3>3, <3>4
  <2>4. CASE ~(at[k] = p /\ InHandler(k))
    <3>1. pc'[k] = pc[k] /\ told'[k] = told[k]
      BY <1>3, <2>4 DEF Kill
    <3>2. told[k] = "lost" => proc'[at[k]] = "killed"
      BY <1>1, <1>3, <2>1, KilledStays DEF Placed, ProcessActs
    <3>3. QED  BY <2>1, <2>2, <3>1, <3>2 DEF RequestKept, Placed, InHandler
  <2>5. QED  BY <2>3, <2>4
<1>4. ASSUME NEW p \in Processes, ProcessActs(p), UNCHANGED clientVars, NEW k \in Clients
      PROVE  RequestKept(k)' /\ Placed(k)'
  <2>1. RequestKept(k) /\ Placed(k)
    BY <1>1 DEF ClientsOK
  <2>2. told[k] = "lost" => proc'[at[k]] = "killed"
    BY <1>1, <1>4, <2>1, KilledStays DEF Placed
  <2>3. QED  BY <1>4, <2>1, <2>2 DEF RequestKept, Placed, InHandler, clientVars
<1>5. CASE UNCHANGED vars
  BY <1>1, <1>5 DEF ClientsOK, RequestKept, Placed, InHandler, vars, processVars, clientVars
<1>6. QED
  BY <1>1, <1>2, <1>3, <1>4, <1>5, WhoActs, ProcessFrame DEF ClientsOK

-----------------------------------------------------------------------------
(* The theorems                                                            *)

LEMMA RequestsInit == Init => RequestsInv
<1> SUFFICES ASSUME Init PROVE RequestsInv
  OBVIOUS
<1>1. TypeOK
  <2>1. ScopeOK(scope) /\ (CHOOSE command \in Commands : TRUE) \in Commands
    BY RequestsAssumption DEF Init
  <2>2. 0 \in 0 .. MaxRetries /\ 0 \in 0 .. MaxLost
    BY RequestsAssumption
  <2>3. QED  BY <2>1, <2>2 DEF Init, TypeOK, ProcessPC, ClientPC, Results, Told
<1>2. ProcessesOK
  BY DEF Init, ProcessesOK, Alive, Listening
<1>3. ClientsOK
  BY DEF Init, ClientsOK, RequestKept, RequestOK, Placed, InHandler
<1>4. QED  BY <1>1, <1>2, <1>3 DEF RequestsInv

LEMMA RequestsInvariant == Spec => []RequestsInv
<1>1. RequestsInv /\ [Next]_vars => RequestsInv'
  BY ProcessTypeStep, ClientTypeStep, ProcessesStep, ClientsStep
  DEF RequestsInv, TypeOK, ProcessTypeOK, ClientTypeOK
<1>2. QED  BY <1>1, RequestsInit, PTL DEF Spec

\* Every variable stays in its domain, for any number of processes and clients.
THEOREM RequestsTypeCorrect == Spec => []TypeOK
<1>1. RequestsInv => TypeOK
  BY DEF RequestsInv
<1>2. QED  BY <1>1, RequestsInvariant, PTL

\* A process that met no other gets its address and keeps it while it serves, whatever
\* its predecessors left there, and an agreeing gmanctl reaches it (GetIPCListener).
THEOREM RequestsAddressOwned == Spec => []AddressOwned
<1>1. ASSUME RequestsInv, NEW p \in Processes \ met
      PROVE  /\ proc[p] # "barred"
             /\ proc[p] = "serve" =>
                  /\ named = p
                  /\ Agreeing(scope.host, scope.daemon, scope.gmanctl) => Reaches(p)
  <2>1. proc[p] # "barred" /\ (Listening(p) => named = p)
    BY <1>1 DEF RequestsInv, ProcessesOK
  <2>2. /\ scope.host \in Hosts /\ scope.daemon \in DaemonEnvironments
        /\ scope.gmanctl \in Environments
    BY <1>1 DEF RequestsInv, TypeOK, ScopeOK
  <2>3. QED  BY <2>1, <2>2, AgreeingMeet DEF Reaches, Listening, Address
<1>2. RequestsInv => AddressOwned
  BY <1>1 DEF AddressOwned
<1>3. QED  BY <1>2, RequestsInvariant, PTL

\* Whatever stops or fails, only a killed process leaves a request it took up without an
\* answer (GracefulStop).
THEOREM RequestsAnswersKept == Spec => []AnswersKept
<1>1. RequestsInv => AnswersKept
  BY DEF RequestsInv, ClientsOK, Placed, AnswersKept
<1>2. QED  BY <1>1, RequestsInvariant, PTL

\* What the user is told of a request is what became of it, as far as DoneAsTold says, and
\* of what was typed Steam gets what the kind of request takes, for all commands, with and
\* without a session, and any number of retries (retry.go, request.go, proxy.go).
THEOREM RequestsDoneAsTold == Spec => []DoneAsTold
<1>1. ASSUME RequestsInv, NEW c \in Clients
      PROVE  /\ told[c] = "ok" /\ Remote(cmd[c]) /\ ~Is(c, "cancel-offer")
                /\ ~Is(c, "check-escrow")
                => received[c] >= 1 \/ (cmd[c].verb = "request" /\ result[c] = "turned")
             /\ told[c] \in {"usage", "unavailable", "refused"} => received[c] = 0
             /\ told[c] = "error" /\ lost[c] = 0 => received[c] = 0
             /\ received[c] <= 1 + lost[c] + (IF Is(c, "cancel-offer") THEN 1 ELSE 0)
             /\ received[c] > 0 /\ cmd[c].verb = "request" =>
                  \A sid \in Sessions : AsTyped(cmd[c], sid)
  <2>1. RequestOK(cmd[c], pc[c], attempt[c], result[c], told[c], received[c], lost[c])
    BY <1>1 DEF RequestsInv, ClientsOK, RequestKept
  <2>2. Is(c, "cancel-offer") = Twice(cmd[c]) /\ Is(c, "check-escrow") = MayBeOwn(cmd[c])
    BY DEF Is, Twice, MayBeOwn
  <2>3. received[c] > 0 /\ cmd[c].verb = "request" => \A sid \in Sessions : AsTyped(cmd[c], sid)
    BY <2>1, SentAsTyped DEF RequestOK, Misused
  <2>4. QED  BY <2>1, <2>2, <2>3 DEF RequestOK
<1>2. RequestsInv => DoneAsTold
  BY <1>1 DEF DoneAsTold
<1>3. QED  BY <1>2, RequestsInvariant, PTL

-----------------------------------------------------------------------------
(* The contract with GracefulStop                                          *)

ServerPhase(p) ==
  IF proc[p] \in {"new", "prepare", "listen", "create"} THEN "before"
  ELSE IF proc[p] = "serve" THEN "up"
  ELSE IF proc[p] = "drain" THEN "draining" ELSE "gone"
InProgress(p) == {c \in Clients : at[c] = p /\ InHandler(c)}

Server(p) == INSTANCE GracefulServer
               WITH Handlers <- Clients, Mortal <- TRUE,
                    phase <- ServerPhase(p), pending <- InProgress(p)

\* A handler works in a process that serves, or waits for it.
ServedByLiving == \A c \in Clients : InHandler(c) => proc[at[c]] \in {"serve", "drain"}

\* A client's request enters a handler, goes on in it, or leaves it; nothing else of it
\* changes where it went.
LEMMA ClientServer ==
  ASSUME RequestsInv, NEW c \in Clients, ClientActs(c)
  PROVE  /\ InHandler(c)' /\ ~InHandler(c) => Handled(c) /\ at'[c] = at[c]
         /\ InHandler(c) => at'[c] = at[c]
<1> USE DEF RequestsInv, TypeOK, InHandler
<1>1. CASE \E command \in Commands : Run(c, command)
  BY <1>1 DEF Run, Answer
<1>2. CASE Leave(c) \/ Rejected(c) \/ StopDaemon(c) \/ LocalAction(c)
  BY <1>2 DEF Leave, Rejected, StopDaemon, LocalAction, Answer
<1>3. CASE Dispatch(c)
  BY <1>3 DEF Dispatch, Answer
<1>4. CASE Call(c) \/ Backoff(c) \/ GiveUp(c) \/ PostCancel(c)
  BY <1>4 DEF Call, Backoff, GiveUp, PostCancel
<1>5. CASE Reply(c)
  BY <1>5 DEF Reply, Answer
<1>6. QED  BY <1>1, <1>2, <1>3, <1>4, <1>5 DEF ClientActs, Handler

LEMMA ServedByLivingStep ==
  ASSUME RequestsInv, ServedByLiving, [Next]_vars
  PROVE  ServedByLiving'
<1>0. TypeOK
  BY DEF RequestsInv
<1>1. ASSUME NEW c \in Clients, ClientActs(c) PROVE ServedByLiving'
  <2>1. ASSUME NEW k \in Clients, InHandler(k)' PROVE proc'[at'[k]] \in {"serve", "drain"}
    <3>1. CASE k = c
      BY <1>1, <2>1, <3>1, ClientServer, ClientFrame DEF ServedByLiving, Handled
    <3>2. CASE k # c
      BY <1>0, <1>1, <2>1, <3>2, OthersUntouched, ClientFrame DEF ServedByLiving, InHandler
    <3>3. QED  BY <3>1, <3>2
  <2>2. QED  BY <2>1 DEF ServedByLiving
<1>2. ASSUME NEW p \in Processes, ProcessActs(p) PROVE ServedByLiving'
  <2>1. ASSUME NEW k \in Clients, InHandler(k)' PROVE proc'[at'[k]] \in {"serve", "drain"}
    <3>1. InHandler(k) /\ at'[k] = at[k] /\ (Kill(p) => at[k] # p)
      BY <1>0, <1>2, <2>1, ProcessFrame DEF InHandler, Kill, clientVars, TypeOK
    <3>2. proc[at[k]] \in {"serve", "drain"} /\ at[k] \in Processes
      BY <3>1 DEF ServedByLiving, RequestsInv, ClientsOK, Placed
    <3>3. CASE at[k] # p
      <4>1. proc'[at[k]] = proc[at[k]]
        BY <1>0, <1>2, <3>2, <3>3
        DEF TypeOK, ProcessActs, Start, Step, PrepareUnixSocket, Listen, NewDaemon, StopFires,
            Interrupted, CloseListener, GracefulStop, Kill, Goto
      <4>2. QED  BY <3>1, <3>2, <4>1
    <3>4. CASE at[k] = p
      <4>1. ~Kill(p) /\ ~GracefulStop(p)
        BY <3>1, <3>4 DEF GracefulStop
      <4>2. proc'[p] \in {"serve", "drain"}
        BY <1>0, <1>2, <3>2, <3>4, <4>1
        DEF TypeOK, ProcessActs, Start, Step, PrepareUnixSocket, Listen, NewDaemon, StopFires,
            Interrupted, CloseListener, Goto
      <4>3. QED  BY <3>1, <3>4, <4>2
    <3>5. QED  BY <3>3, <3>4
  <2>2. QED  BY <2>1 DEF ServedByLiving
<1>3. CASE UNCHANGED vars
  BY <1>3 DEF ServedByLiving, InHandler, vars, processVars, clientVars
<1>4. QED  BY <1>0, <1>1, <1>2, <1>3, WhoActs

\* A step of one client is a request taken, gone on with, or returned from.
LEMMA ClientServerStep ==
  ASSUME RequestsInv, NEW p \in Processes, NEW c \in Clients, ClientActs(c)
  PROVE  [Server(p)!Next]_<<ServerPhase(p), InProgress(p)>>
<1>1. TypeOK /\ ServerPhase(p)' = ServerPhase(p)
  BY ClientFrame DEF RequestsInv, ServerPhase
<1>2. \A k \in Clients : k # c => (k \in InProgress(p)' <=> k \in InProgress(p))
  BY <1>1, OthersUntouched DEF InProgress, InHandler
<1>3. CASE c \in InProgress(p)' /\ c \notin InProgress(p)
  <2>1. Handled(c) /\ at[c] = p
    BY <1>3, ClientServer DEF InProgress
  <2>2. ServerPhase(p) = "up"
    BY <2>1 DEF Handled, ServerPhase
  <2>3. InProgress(p)' = InProgress(p) \cup {c}
    BY <1>2, <1>3 DEF InProgress
  <2>4. QED  BY <1>1, <1>3, <2>2, <2>3 DEF Server!Next, Server!Take
<1>4. CASE c \in InProgress(p) /\ c \notin InProgress(p)'
  <2>1. InProgress(p)' = InProgress(p) \ {c}
    BY <1>2, <1>4 DEF InProgress
  <2>2. QED  BY <1>1, <1>4, <2>1 DEF Server!Next, Server!Return
<1>5. CASE c \in InProgress(p) <=> c \in InProgress(p)'
  <2>1. InProgress(p)' = InProgress(p)
    BY <1>2, <1>5 DEF InProgress
  <2>2. QED  BY <1>1, <2>1
<1>6. QED  BY <1>3, <1>4, <1>5

\* A step of the process itself opens its server, stops it, or ends it.
LEMMA OwnServerStep ==
  ASSUME RequestsInv, ServedByLiving, NEW p \in Processes, ProcessActs(p)
  PROVE  [Server(p)!Next]_<<ServerPhase(p), InProgress(p)>>
<1>0. TypeOK
  BY DEF RequestsInv
<1>1. UNCHANGED clientVars => InProgress(p)' = InProgress(p)
  BY DEF InProgress, InHandler, clientVars
<1>2. ServerPhase(p) = "before" => InProgress(p) = {}
  BY DEF ServerPhase, InProgress, ServedByLiving
<1> USE DEF TypeOK, Goto, ServerPhase
<1>3. CASE Start(p) \/ PrepareUnixSocket(p) \/ Listen(p) \/ NewDaemon(p)
  <2>1. UNCHANGED clientVars
    BY <1>3 DEF Start, PrepareUnixSocket, Listen, NewDaemon
  <2>2. ServerPhase(p) = "before" /\ ServerPhase(p)' \in {"before", "up", "gone"}
    BY <1>0, <1>3 DEF Start, PrepareUnixSocket, Listen, NewDaemon
  <2>3. QED  BY <1>1, <1>2, <2>1, <2>2 DEF Server!Next, Server!Open, Server!Leave
<1>4. CASE CloseListener(p)
  <2>1. UNCHANGED clientVars /\ ServerPhase(p) = "up" /\ ServerPhase(p)' = "draining"
    BY <1>0, <1>4 DEF CloseListener
  <2>2. QED  BY <1>1, <2>1 DEF Server!Next, Server!Drain
<1>5. CASE GracefulStop(p)
  <2>1. UNCHANGED clientVars /\ ServerPhase(p) = "draining" /\ ServerPhase(p)' = "gone"
    BY <1>0, <1>5 DEF GracefulStop
  <2>2. InProgress(p) = {}
    BY <1>5 DEF GracefulStop, InProgress
  <2>3. QED  BY <1>1, <2>1, <2>2 DEF Server!Next, Server!Leave
<1>6. CASE Kill(p)
  <2>1. ServerPhase(p)' = "gone"
    BY <1>0, <1>6 DEF Kill
  <2>2. InProgress(p)' = {}
    BY <1>0, <1>6 DEF Kill, InProgress, InHandler
  <2>3. QED  BY <2>1, <2>2 DEF Server!Next, Server!Die
<1>7. QED
  BY <1>3, <1>4, <1>5, <1>6 DEF ProcessActs, Step, StopFires, Interrupted

\* A step of another process changes nothing of it.
LEMMA OtherServerStep ==
  ASSUME RequestsInv, NEW p \in Processes, NEW q \in Processes, q # p, ProcessActs(q)
  PROVE  UNCHANGED <<ServerPhase(p), InProgress(p)>>
<1>1. proc'[p] = proc[p]
  BY DEF RequestsInv, TypeOK, ProcessActs, Start, Step, PrepareUnixSocket, Listen, NewDaemon,
         StopFires, Interrupted, CloseListener, GracefulStop, Kill, Goto
<1>2. CASE Kill(q)
  <2>1. \A c \in Clients : at'[c] = at[c] /\ (at[c] = p => pc'[c] = pc[c])
    BY <1>2 DEF Kill
  <2>2. QED  BY <1>1, <2>1 DEF ServerPhase, InProgress, InHandler
<1>3. CASE UNCHANGED clientVars
  BY <1>1, <1>3 DEF ServerPhase, InProgress, InHandler, clientVars
<1>4. QED  BY <1>2, <1>3, ProcessFrame

\* Each process of g-mand is a GracefulServer, whatever other processes do with its
\* address, however its start fails, and whenever it is killed: it takes requests only
\* while it serves and ends, unless it is killed, when they have all returned.
THEOREM RequestsImplementServer == ASSUME NEW p \in Processes PROVE Spec => Server(p)!Spec
<1>1. Init => Server(p)!Init /\ ServedByLiving
  BY DEF Init, Server!Init, ServerPhase, InProgress, InHandler, ServedByLiving
<1>2. RequestsInv /\ ServedByLiving /\ [Next]_vars => ServedByLiving'
  BY ServedByLivingStep
<1>3. RequestsInv /\ ServedByLiving /\ [Next]_vars
        => [Server(p)!Next]_<<ServerPhase(p), InProgress(p)>>
  <2> SUFFICES ASSUME RequestsInv, ServedByLiving, [Next]_vars
               PROVE  [Server(p)!Next]_<<ServerPhase(p), InProgress(p)>>
    OBVIOUS
  <2>1. CASE UNCHANGED vars
    BY <2>1 DEF ServerPhase, InProgress, InHandler, vars, processVars, clientVars
  <2>2. CASE Next
    BY <2>2, WhoActs, ClientServerStep, OwnServerStep, OtherServerStep DEF RequestsInv
  <2>3. QED  BY <2>1, <2>2
<1>4. QED  BY <1>1, <1>2, <1>3, RequestsInvariant, PTL DEF Spec, Server!Spec

-----------------------------------------------------------------------------
(* Answers are final                                                       *)

\* A user is told one thing, and when it is an answer Steam gets nothing more for the
\* request: no attempt is left behind that is still to be repeated.
AnsweredOnce ==
  [][\A c \in Clients : told[c] # "none" =>
       told'[c] = told[c] /\ (told[c] # "left" => received'[c] = received[c])]_vars

LEMMA AnsweredStep ==
  ASSUME RequestsInv, [Next]_vars, NEW k \in Clients, told[k] # "none"
  PROVE  told'[k] = told[k] /\ (told[k] # "left" => received'[k] = received[k])
<1>1. TypeOK /\ RequestOK(cmd[k], pc[k], attempt[k], result[k], told[k], received[k], lost[k])
  BY DEF RequestsInv, ClientsOK, RequestKept
<1>2. ASSUME NEW c \in Clients, ClientActs(c), c # k
      PROVE  told'[k] = told[k] /\ received'[k] = received[k]
  BY <1>1, <1>2, OthersUntouched
<1>3. CASE ClientActs(k)
  <2>1. pc[k] # "idle"
    BY <1>1 DEF RequestOK
  <2>2. ASSUME NEW said, Answer(k, said) PROVE told'[k] = told[k]
    BY <1>1, <2>2 DEF Answer, TypeOK
  <2>3. told'[k] = told[k]
    BY <1>3, <2>1, <2>2
    DEF ClientActs, Handler, Run, Leave, Rejected, StopDaemon, LocalAction, Dispatch, Call, Backoff,
        GiveUp, PostCancel, Reply
  <2>4. CASE Call(k) \/ PostCancel(k)
    BY <1>1, <2>3, <2>4 DEF Call, PostCancel, RequestOK
  <2>5. CASE ~(Call(k) \/ PostCancel(k))
    BY <1>3, <2>3, <2>5
    DEF ClientActs, Handler, Run, Leave, Rejected, StopDaemon, LocalAction, Dispatch, Backoff,
        GiveUp, Reply
  <2>6. QED  BY <2>4, <2>5
<1>4. ASSUME NEW p \in Processes, ProcessActs(p) PROVE told'[k] = told[k] /\ received'[k] = received[k]
  BY <1>1, <1>4, ProcessFrame DEF Kill, clientVars, TypeOK
<1>5. CASE UNCHANGED vars
  BY <1>5 DEF vars, clientVars
<1>6. QED  BY <1>1, <1>2, <1>3, <1>4, <1>5, WhoActs

\* No call to Steam outlives the answer it was made for, unless the user has left and is
\* not going to read it (retryOnRetriable in the driver, the handlers of ExecAction).
THEOREM RequestsAnsweredOnce == Spec => AnsweredOnce
<1>1. RequestsInv /\ [Next]_vars
        => [\A c \in Clients : told[c] # "none" =>
              told'[c] = told[c] /\ (told[c] # "left" => received'[c] = received[c])]_vars
  BY AnsweredStep
<1>2. QED  BY <1>1, RequestsInvariant, PTL DEF Spec, AnsweredOnce

-----------------------------------------------------------------------------
(* Requests get on                                                         *)

\* The most steps a request can still take, by where it is and its attempts.
Rank(x, n) ==
  IF x = "done" THEN 0
  ELSE IF x = "reply" THEN 1
  ELSE IF x = "post" THEN 2
  ELSE IF x = "wait" THEN 2 * (MaxRetries - n) + 2
  ELSE IF x = "call" THEN 2 * (MaxRetries - n) + 3
  ELSE IF x = "accepted" THEN 2 * MaxRetries + 4
  ELSE 2 * MaxRetries + 5

Shorter(c) == Rank(pc[c], attempt[c])' < Rank(pc[c], attempt[c])

\* A request never goes round in a circle, whatever Steam answers: each step of its
\* handler brings it closer to its end, and nobody else puts it back.
RequestsDescend ==
  [][\A c \in Clients :
       IF Handler(c) THEN Shorter(c) ELSE Shorter(c) \/ UNCHANGED <<pc[c], attempt[c]>>]_vars

\* What a step makes of the client's request: it goes forward.
LEMMA OwnShorter ==
  ASSUME RequestsInv, NEW c \in Clients, ClientActs(c)
  PROVE  Shorter(c) \/ (Leave(c) /\ ~Handler(c) /\ UNCHANGED <<pc, attempt>>)
<1>1. /\ TypeOK /\ attempt[c] \in 0 .. MaxRetries /\ MaxRetries \in Nat
      /\ pc[c] = "wait" => attempt[c] < MaxRetries
  BY RequestsAssumption DEF RequestsInv, TypeOK, ClientsOK, RequestKept, RequestOK
<1>2. \A command : Run(c, command) => /\ pc[c] = "idle" /\ pc'[c] \in {"done", "accepted"}
                                      /\ attempt'[c] = attempt[c]
  BY <1>1 DEF Run, Answer, TypeOK
<1>3. Rejected(c) \/ StopDaemon(c) \/ LocalAction(c) \/ Dispatch(c)
        => pc[c] = "accepted" /\ pc'[c] \in {"done", "reply", "call"} /\ attempt'[c] = attempt[c]
  BY <1>1 DEF Rejected, StopDaemon, LocalAction, Dispatch, Handled, Answer, TypeOK
<1>4. Call(c) => pc[c] = "call" /\ pc'[c] \in {"wait", "post", "reply"} /\ attempt'[c] = attempt[c]
  BY <1>1 DEF Call, Delay, Ends, TypeOK
<1>5. Backoff(c) => pc[c] = "wait" /\ pc'[c] = "call" /\ attempt'[c] = attempt[c] + 1
  BY <1>1 DEF Backoff, TypeOK
<1>6. GiveUp(c) => pc[c] = "wait" /\ pc'[c] \in {"post", "reply"} /\ attempt'[c] = attempt[c]
  BY <1>1 DEF GiveUp, Ends, TypeOK
<1>7. PostCancel(c) => pc[c] = "post" /\ pc'[c] = "reply" /\ attempt'[c] = attempt[c]
  BY <1>1 DEF PostCancel, TypeOK
<1>8. Reply(c) => pc[c] = "reply" /\ pc'[c] = "done" /\ attempt'[c] = attempt[c]
  BY <1>1 DEF Reply, Answer, TypeOK
<1>9. Leave(c) => UNCHANGED <<pc, attempt>> /\ pc[c] # "idle"
  BY <1>1 DEF Leave, InHandler
<1>10. CASE \/ \E command \in Commands : Run(c, command)
            \/ Handler(c)
  <2>1. CASE pc[c] = "idle" /\ pc'[c] \in {"done", "accepted"}
    BY <1>1, <2>1 DEF Shorter, Rank
  <2>2. CASE pc[c] = "accepted" /\ pc'[c] \in {"done", "reply", "call"} /\ attempt'[c] = attempt[c]
    BY <1>1, <2>2 DEF Shorter, Rank
  <2>3. CASE pc[c] = "call" /\ pc'[c] \in {"wait", "post", "reply"} /\ attempt'[c] = attempt[c]
    BY <1>1, <2>3 DEF Shorter, Rank
  <2>4. CASE pc[c] = "wait" /\ pc'[c] = "call" /\ attempt'[c] = attempt[c] + 1
    BY <1>1, <2>4 DEF Shorter, Rank
  <2>5. CASE pc[c] = "wait" /\ pc'[c] \in {"post", "reply"} /\ attempt'[c] = attempt[c]
    BY <1>1, <2>5 DEF Shorter, Rank
  <2>6. CASE (pc[c] = "post" /\ pc'[c] = "reply") \/ (pc[c] = "reply" /\ pc'[c] = "done")
    BY <1>1, <2>6 DEF Shorter, Rank
  <2>7. QED
    BY <1>2, <1>3, <1>4, <1>5, <1>6, <1>7, <1>8, <1>10, <2>1, <2>2, <2>3, <2>4, <2>5, <2>6 DEF Handler
<1>11. QED  BY <1>9, <1>10 DEF ClientActs

\* Nobody else's step sets it back: it is left alone, or its process was killed.
LEMMA ForeignShorter ==
  ASSUME RequestsInv, NEW p \in Processes, ProcessActs(p), NEW c \in Clients
  PROVE  Shorter(c) \/ UNCHANGED <<pc[c], attempt[c]>>
<1>1. TypeOK /\ attempt[c] \in 0 .. MaxRetries /\ MaxRetries \in Nat
  BY RequestsAssumption DEF RequestsInv, TypeOK
<1>2. CASE UNCHANGED clientVars
  BY <1>2 DEF clientVars
<1>3. CASE Kill(p) /\ at[c] = p /\ InHandler(c)
  <2>1. pc'[c] = "done"
    BY <1>3 DEF Kill
  <2>2. Rank(pc[c], attempt[c])' = 0
    BY <2>1 DEF Rank
  <2>3. Rank(pc[c], attempt[c]) > 0
    BY <1>1, <1>3 DEF Rank, InHandler
  <2>4. QED  BY <2>2, <2>3 DEF Shorter
<1>4. CASE Kill(p) /\ ~(at[c] = p /\ InHandler(c))
  BY <1>4 DEF Kill
<1>5. QED  BY <1>2, <1>3, <1>4, ProcessFrame

\* A handler's own steps bring its request closer to the end.
LEMMA HandlerMoves ==
  ASSUME RequestsInv, NEW c \in Clients, Handler(c)
  PROVE  Shorter(c)
<1>1. ClientActs(c)
  BY DEF ClientActs
<1>2. QED  BY <1>1, OwnShorter

\* The core of StopHonoured's argument: a request takes at most 2 * MaxRetries + 5 steps,
\* so that the daemon which waits for it waits for a bounded number of them (GracefulStop,
\* retryOnRetriable).
THEOREM RequestsGetOn == Spec => RequestsDescend
<1>1. ASSUME RequestsInv, Next, NEW c \in Clients
      PROVE  IF Handler(c) THEN Shorter(c) ELSE Shorter(c) \/ UNCHANGED <<pc[c], attempt[c]>>
  <2>1. CASE Handler(c)
    BY <1>1, <2>1, HandlerMoves
  <2>2. ASSUME NEW k \in Clients, ClientActs(k) PROVE Shorter(c) \/ UNCHANGED <<pc[c], attempt[c]>>
    <3>1. CASE k = c
      BY <1>1, <2>2, <3>1, OwnShorter
    <3>2. CASE k # c
      BY <1>1, <2>2, <3>2, OthersUntouched DEF RequestsInv
    <3>3. QED  BY <3>1, <3>2
  <2>3. QED  BY <1>1, <2>1, <2>2, ForeignShorter, WhoActs DEF RequestsInv
<1>2. RequestsInv /\ [Next]_vars
        => [\A c \in Clients :
              IF Handler(c) THEN Shorter(c) ELSE Shorter(c) \/ UNCHANGED <<pc[c], attempt[c]>>]_vars
  BY <1>1
<1>3. QED  BY <1>2, RequestsInvariant, PTL DEF Spec, RequestsDescend
=============================================================================
