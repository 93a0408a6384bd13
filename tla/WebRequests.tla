------------------------------- MODULE WebRequests -------------------------------
(***************************************************************************)
(* From a `request` command of gmanctl to the message Steam receives: what *)
(* the words become (cmd/gmanctl/request.go), what ExecRequest builds of   *)
(* them (cmd/g-mand/request.go) and what the HTTP client of the daemon     *)
(* still changes (the interceptor in proxy.go).                            *)
(*                                                                         *)
(* A command is [verb |-> "request", type, words, method, interface, args]:*)
(* words counts its words, method or interface is the second of them, and  *)
(* args is a function from the keys of the key=value words to the values.  *)
(* Values are atoms; NoValue is the empty one.                             *)
(***************************************************************************)
EXTENDS Integers

NoValue == "none"
NoParams == [k \in {} |-> NoValue]
Sessions == {NoValue, "session"}     \* what Community().SessionID may return
Known == {"Player"}                  \* interfaces whose protobuf types are linked in

RequestTypes ==
  [community |-> "community", comm |-> "community", unified |-> "unified", uni |-> "unified",
   webapi |-> "webapi", api |-> "webapi"]

\* The command line is refused by gmanctl itself.
RequestMisused(cmd) == cmd.type \notin DOMAIN RequestTypes \/ cmd.words < 3

Arg(cmd, key, fallback) == IF key \in DOMAIN cmd.args THEN cmd.args[key] ELSE fallback
Number(value) == IF value = "2" THEN 2 ELSE 0    \* Atoi; what is no number is ignored

\* The request that is sent to the daemon.
ParseKeyValArgs(cmd) ==
  [type |-> RequestTypes[cmd.type], interface |-> cmd.interface,
   method |-> Arg(cmd, "method", cmd.method),
   body |-> Arg(cmd, "body", NoValue),
   version |-> Number(Arg(cmd, "version", NoValue)),
   form |-> Arg(cmd, "is_post_form", NoValue) \in {"true", "1"},
   params |-> [k \in DOMAIN cmd.args \ {"body", "version", "is_post_form", "method"} |->
                 cmd.args[k]]]

-----------------------------------------------------------------------------
Upper(method) == IF method = "post" THEN "POST" ELSE method
MethodOr(method, fallback) == IF method = NoValue THEN fallback ELSE method

\* A form that has no session, or an empty one, gets the client's, which may be empty too.
WithSession(params, sid) ==
  [k \in DOMAIN params \cup {"sessionid"} |->
     IF k \in DOMAIN params /\ (k = "sessionid" => params[k] # NoValue) THEN params[k] ELSE sid]

Message(req, method, query, form, body) ==
  [to |-> req.type, method |-> method, version |-> IF req.version <= 0 THEN 1 ELSE req.version,
   query |-> query, form |-> form, body |-> body]

\* A POST that is no form has the session, if there is one, in its query, and no parameters.
ExecCommunity(req, sid) ==
  LET method == Upper(MethodOr(req.method, "GET"))
      session == IF sid = NoValue THEN NoParams ELSE WithSession(NoParams, sid)
  IN IF method # "POST" THEN Message(req, method, req.params, NoParams, NoValue)
     ELSE IF req.form THEN Message(req, method, NoParams, WithSession(req.params, sid), NoValue)
     ELSE Message(req, method, session, NoParams, req.body)

ExecUnified(req) ==
  Message(req, MethodOr(req.method, "POST"), NoParams, NoParams, req.body)

ExecWebAPI(req) ==
  Message(req, MethodOr(req.method, "GET"), req.params, NoParams, NoValue)

\* Mutant: the query is dropped, and never becomes the body.
SteamWebAPIFix_Dropped(m) ==
  IF m.method = "POST" /\ m.body = NoValue /\ m.form = NoParams
  THEN [m EXCEPT !.query = NoParams]
  ELSE m

\* The query of a POST without a body becomes its body.
SteamWebAPIFix(m) ==
  IF m.method = "POST" /\ m.body = NoValue /\ m.form = NoParams
  THEN [m EXCEPT !.form = m.query, !.query = NoParams]
  ELSE m

\* JSON is made into a protobuf message if its type is known, and must then fit it.
RequestAccepted(cmd, loggedIn) ==
  LET req == ParseKeyValArgs(cmd)
  IN /\ req.type = "community" => loggedIn
     /\ req.type = "unified" /\ req.interface \in Known => req.body # "unfit"

Sent(cmd, sid) ==
  LET req == ParseKeyValArgs(cmd)
  IN SteamWebAPIFix(IF req.type = "community" THEN ExecCommunity(req, sid)
                    ELSE IF req.type = "unified" THEN ExecUnified(req)
                    ELSE ExecWebAPI(req))

-----------------------------------------------------------------------------
Carries(m, key, value) ==
  \/ key \in DOMAIN m.query /\ m.query[key] = value
  \/ key \in DOMAIN m.form /\ m.form[key] = value

Reserved == {"body", "version", "is_post_form", "method"}

\* What a user may count on.  Of what was typed, Steam gets what the kind of request
\* takes: the web API, a form and a community request that is no POST take the
\* parameters; a unified request and a community POST that is no form take the body.
\* The rest is dropped without a word.  Nothing is added but the session of a community
\* POST, nothing arrives in the query and in the form, and version and method are kept.
AsTyped(cmd, sid) ==
  LET m == Sent(cmd, sid)
      posted == m.to = "community" /\ m.method = "POST"
      form == Arg(cmd, "is_post_form", NoValue) \in {"true", "1"}
      taken == IF m.to = "webapi" \/ (m.to = "community" /\ (posted => form))
               THEN DOMAIN cmd.args \ Reserved ELSE {}
      empty == {key \in {"sessionid"} : Arg(cmd, key, NoValue) = NoValue}
      session == IF "sessionid" \in taken \ empty THEN cmd.args["sessionid"] ELSE sid
  IN /\ \A key \in IF posted THEN taken \ empty ELSE taken : Carries(m, key, cmd.args[key])
     /\ DOMAIN m.query \cup DOMAIN m.form
          \subseteq taken \cup (IF posted THEN {"sessionid"} ELSE {})
     /\ m.query = NoParams \/ m.form = NoParams
     /\ posted /\ session # NoValue => Carries(m, "sessionid", session)
     /\ m.body = IF m.to = "unified" \/ (posted /\ ~form) THEN Arg(cmd, "body", NoValue)
                 ELSE NoValue
     /\ m.version = IF Arg(cmd, "version", NoValue) = "2" THEN 2 ELSE 1
     /\ "method" \in DOMAIN cmd.args /\ cmd.args["method"] # NoValue =>
          m.method = IF m.to = "community" THEN Upper(cmd.args["method"]) ELSE cmd.args["method"]
=============================================================================
