--------------------------------- MODULE Actions ---------------------------------
(***************************************************************************)
(* From an `exec` command of gmanctl to the handler of a game driver: what *)
(* the command line becomes (cmd/gmanctl/exec.go), what ExecAction lets    *)
(* through (cmd/g-mand/game.go), and the router of the TF2 driver          *)
(* (pkg/game/router.go, pkg/tf2/driver/actions.go) with the parameters it  *)
(* checks before a handler runs.                                           *)
(*                                                                         *)
(* A command is [verb |-> "exec", appid, action, args]: args is a function *)
(* from the words given to their values, "true" where a word has none.     *)
(***************************************************************************)

TF2 == "440"
Registered == {TF2}                \* the drivers NewDaemon registers
AppIDs == {TF2, "730", "no number"}

Def(name, required) == [name |-> name, required |-> required, aliases |-> {}]

ItemActions == {
  [Def("inventory", {}) EXCEPT !.aliases = {"list-backpack"}],
  Def("memprofile", {}), Def("backpack-value", {}),
  Def("targeted-smelt", {"item_id1", "item_id2"}),
  Def("sort-backpack", {}), Def("maintenance", {}), Def("craft-metal", {}),
  Def("delete-item", {"item_id"}), Def("use-item", {"item_id"}),
  Def("apply-tool", {"tool_id", "item_id", "type"}),
  Def("set-item-style", {"item_id", "style"}),
  Def("unwrap-gift", {"item_id"}), Def("deliver-gift", {"gift_id", "target_steam_id"}),
  Def("fulfill-dynamic-recipe-component", {"tool_id", "subject_id", "attribute_index"}),
  Def("remove-makers-mark", {"item_id"}), Def("remove-gifted-by", {"item_id"})}

MetalActions == {
  Def("acknowledge-all", {}), Def("schema", {}), Def("condense-metal", {}),
  Def("make-change", {"target_defindex", "target_count"}),
  Def("smelt-weapons", {"class"}), Def("craft", {"recipe", "items"})}

TradeActions == {
  Def("send-offer", {"offer_params"}),
  Def("accept-offer", {"offer_id"}), Def("decline-offer", {"offer_id"}),
  Def("cancel-offer", {"offer_id"}), Def("check-escrow", {"offer"}),
  Def("resolve-vanity-url", {"url"}), Def("get-partner-inventory", {"partner_id"}),
  Def("active-offers", {}), Def("active-sent-offers", {}),
  Def("active-offers-rich", {}), Def("active-sent-offers-rich", {}),
  Def("all-offers-rich", {}), Def("all-sent-offers-rich", {})}

ReportActions == {
  Def("batch-delete", {"item_ids"}), Def("batch-apply-tool", {"tool_id", "item_ids", "type"}),
  Def("item-details", {"item_id"}), Def("price-check", {"sku"}),
  Def("inventory-stats", {}), Def("craft-recipe-list", {}), Def("health-check", {}),
  Def("profit-report", {"stats_path"}), Def("activity-log", {})}

Defined == ItemActions \cup MetalActions \cup TradeActions \cup ReportActions

-----------------------------------------------------------------------------
\* The command line is refused by gmanctl itself.
ExecMisused(cmd) == cmd.appid = "no number"

\* No action, "help" and "list" ask for the list of actions.
ExecAction(cmd) ==
  IF cmd.action \in {"", "help", "list"} THEN "list-actions" ELSE cmd.action

Has(args, name) == name \in DOMAIN args

\* Execute: the action is defined, under its own name, and each required parameter is
\* there.  The aliases of a definition are never looked at.
Routed(action, args) ==
  \E def \in Defined : def.name = action /\ \A name \in def.required : Has(args, name)

\* What the handlers of offers refuse before their first call to Steam: numbers and
\* offers that do not parse; a usable offer_id lets check-escrow do without the offer.
HandlerAccepts(action, args) ==
  /\ action = "send-offer" => args["offer_params"] = "good"
  /\ action \in {"accept-offer", "decline-offer", "cancel-offer"} => args["offer_id"] = "good"
  /\ action = "check-escrow" =>
       (Has(args, "offer_id") /\ args["offer_id"] = "good") \/ args["offer"] = "good"

\* Answered by ExecAction itself, from the daemon's memory.
Local(cmd) ==
  \/ ExecAction(cmd) = "memprofile"
  \/ ExecAction(cmd) = "list-actions" /\ cmd.appid \in Registered

\* Everything ExecAction, the router and the handler check before Steam is called;
\* playing is the game the daemon believes to be running.
ExecAccepted(cmd, playing) ==
  /\ cmd.appid \in Registered
  /\ playing = cmd.appid
  /\ \/ ExecAction(cmd) = "inventory"
     \/ /\ Routed(ExecAction(cmd), cmd.args)
        /\ HandlerAccepts(ExecAction(cmd), cmd.args)

\* Handlers that answer from the caches and files of the daemon.
FromMemory == {"inventory", "inventory-stats", "item-details", "schema", "craft-recipe-list",
               "health-check", "profit-report", "activity-log"}

\* The handlers that call Steam in the loop of retry.go.
Retried == {"send-offer", "accept-offer", "decline-offer", "cancel-offer"}
=============================================================================
