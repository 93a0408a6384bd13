------------------------------ MODULE MCRequests ------------------------------
(* A small instance of Requests for TLC: four menus, each with the settings     *)
(* it is meant for: large in one direction and small in the others.            *)
EXTENDS Requests

CONSTANTS g1, g2

TwoClients == {g1, g2}

Exec(app, action, args) == [verb |-> "exec", appid |-> app, action |-> action, args |-> args]
NoArgs == [k \in {} |-> "true"]
Arg1(name, value) == [k \in {name} |-> value]
SendOffer == Exec(TF2, "send-offer", Arg1("offer_params", "good"))
CancelOffer == Exec(TF2, "cancel-offer", Arg1("offer_id", "good"))
Stop == [verb |-> "stop"]

Request(type, words, method, interface, args) ==
  [verb |-> "request", type |-> type, words |-> words, method |-> method,
   interface |-> interface, args |-> args]

ExecCommands ==
  {SendOffer, CancelOffer,
   Exec(TF2, "send-offer", NoArgs), Exec(TF2, "send-offer", Arg1("offer_params", "bad")),
   Exec(TF2, "decline-offer", Arg1("offer_id", "bad")),
   Exec(TF2, "check-escrow", Arg1("offer_id", "good")),
   Exec(TF2, "check-escrow", Arg1("offer", "good")),
   Exec(TF2, "inventory", NoArgs), Exec(TF2, "list-backpack", NoArgs),
   Exec("730", "memprofile", NoArgs), Exec("730", "list", NoArgs),
   Exec(TF2, "help", NoArgs), Exec("no number", "inventory", NoArgs)}

Typed(keys) == [k \in keys |->
  CASE k = "method" -> "post" [] k = "is_post_form" -> "1" [] k = "version" -> "2"
    [] k = "body" -> "fit" [] OTHER -> "value"]

RequestCommands ==
  {Request(type, 3, NoValue, NoValue, Typed(keys)) : type \in {"comm", "api"},
     keys \in SUBSET {"method", "is_post_form", "version", "body", "steamid", "sessionid"}}
  \cup {Request("uni", words, method, interface, args) : words \in {2, 3},
          method \in {NoValue, "GET"}, interface \in {"Player", "Other"},
          args \in {NoArgs, Typed({"body", "version", "steamid"}), Arg1("body", "unfit")}}
  \cup {Request("gc", 3, NoValue, NoValue, NoArgs),
        Request("api", 3, NoValue, NoValue, Arg1("method", NoValue)),
        Request("community", 3, NoValue, NoValue, Arg1("sessionid", NoValue)),
        Request("community", 3, "post", NoValue,
                [k \in {"is_post_form", "sessionid", "steamid"} |->
                   IF k = "is_post_form" THEN "true" ELSE NoValue])}

AllCommands == ExecCommands \cup RequestCommands \cup {Stop}

Linux == [windows |-> FALSE, home |-> TRUE]
Windows == [Linux EXCEPT !.windows = TRUE]
Plain == [net |-> Unset, addr |-> Unset, path |-> Unset, container |-> FALSE,
          socket |-> Unset, tcp |-> Unset]
Setting(host, daemon, gmanctl, starts, menu) ==
  [host |-> host, daemon |-> daemon, gmanctl |-> gmanctl, starts |-> starts, menu |-> menu]

For(commands1, commands2) == [c \in TwoClients |-> IF c = g1 THEN commands1 ELSE commands2]
FourMenus ==
  [successors |-> For({SendOffer, Stop}, {}),
   together |-> For({SendOffer, CancelOffer, Stop}, {SendOffer, Stop}),
   all |-> For(AllCommands, {}),
   stop |-> For({Stop}, {})]

\* Three processes over a path, two over TCP; two requests at once, of those that are
\* repeated, asked twice, or stop the daemon; every command, one at a time; and the
\* environments, all of g-mand against all that gmanctl reads.
Settings ==
  {Setting(Linux, Plain, Plain, 3, "successors"), Setting(Windows, Plain, Plain, 2, "successors"),
   Setting(Linux, Plain, Plain, 1, "together"), Setting(Linux, Plain, Plain, 1, "all")}
  \cup {Setting(host, daemon, gmanctl, 1, "stop") :
           host \in {h \in Hosts : h.windows => h.home}, daemon \in DaemonEnvironments,
           gmanctl \in {e \in Environments : e.path = Unset /\ ~e.container}}
=============================================================================
