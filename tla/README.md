# Verification of g-man-cli

TLA+ models, TLC runs and TLAPS proofs about the daemon `g-mand` and the
command-line tool `gmanctl`. Every definition is translated from the Go source;
`PROJECT.json` names, for each, the lines it stands for. Nothing here is needed to
build or run the program.

    tlc -workers 2 -config <run>.cfg <MC module>.tla     # one run
    tlapm <module>_proofs.tla                             # the proofs of a module

## 1. Inventory

The daemon owns one Steam session and serves gRPC on a local socket. `gmanctl` sends
one call per command. The daemon is built on the `g-man` library (client, event bus,
Steam modules), which is not in this repository: it appears in the models only as
the way the daemon uses it ("external" in the map).

| component | state | operations | talks to |
| --- | --- | --- | --- |
| **Game session** (`game.go`, `events.go`, `daemon.go` Close, `tf2/driver/driver.go`) | `currentAppID`, `desiredAppID` under `Daemon.mu`; per driver `cancelAutoAck` and its listener goroutine | PlayGame, ExitGame, the launch/quit/logged-on/backpack handlers, the resume goroutine, Close, OnStartGC/OnStopGC | the apps module (PlayGames, StopPlaying, its events), drivers |
| **Life cycle and unlock** (`main.go`, `daemon.go`, `guard.go`) | `isLocked`, the secrets in `cfg`, `unlockChan` and result channels, `shutdownCtx`, the streams | run, Run, unlock loop, GuardUnlock, StreamEvents, StopDaemon, signals, GracefulStop, Close | gRPC server, client, guardian module |
| **Manual prices** (`prices.go`) | map under its own mutex, JSON file and temporary file | Update, Get, load, saveLocked | the file system, `populateEcpEngine` |
| **Offer policy** (`events.go`) | none of its own: lists in `cfg`, offers at Steam | decision on each new offer, re-check of active offers after a login | trading module, drivers |
| **Trade chat** (`chatcmd.go`, `ecp.go`) | item locks of the backpack module, the code table of the ECP engine | chat commands, ECP messages | backpack, trading, prices |
| **Retry** (two `retry.go`) | attempt counter | call, wait, call again | every call to Steam |
| **Guard service** (`guard.go`, `guard/driver`) | `activeAuthCallback` (one place) | codes, confirmations, link, transfer, auth code | guardian module, `.env` |
| **Credential files** (`guard.go` of daemon and CLI, `guard/crypto`) | `.env`, maFile; the daemon's `cfg` and its guardian module | encrypt, decrypt, import, link, transfer, unlock, rewrite of the file | the file system, the other process |
| **Backpack** (`crafting.go`, `item_ops.go`, `driver.go` listener, `game.go` ExecAction) | `cancelAutoAck`, its goroutine and the channel of its subscription; the batch a handler works on | maintenance, item and crafting actions, acknowledging new items | the Game Coordinator and the cache of it, the event bus |
| **Action router** (`router.go`, `actions.go`, `registry.go`, ExecAction in `game.go`, `gmanctl exec`) | table of actions | Define, Execute, check of parameters | drivers |
| **IPC address** (`grpc.go`, `config.go`, `gmanctl/client.go`) | the listener, and the file its path names | resolve, prepare, listen, dial | processes of g-mand and gmanctl |
| **Requests of gmanctl** (`internal/cli/builder`, `cmd/gmanctl`) | none between commands | one call per command, answered, refused, left or lost | the daemon |
| **Generic web requests** (`request.go` on both sides, `proxy.go`) | none | parse the words, build the message, rewrite it on its way out | Steam's web interfaces |
| **Reports** (`inventory.go`, `diagnostics.go`, `trading.go` queries) | none | formatting of the cache | - |
| **Configuration** (the rest of `config.go`, `pkg/shared`) | environment and maFile, read once | precedence of sources | - |

### What is hard here

* **Concurrency.** Each gRPC call is a goroutine; next to them run the event
  dispatcher, goroutines spawned by events (resume, maintenance, offers), listeners of
  drivers, the goroutine of StopDaemon and the signal handler. Locks are short and the
  calls to Steam are made between them, so a handler's decision may be stale when it acts.
* **Ordering.** What the daemon records about the current game comes from two sides:
  from its own requests, and from events that arrive later, in order, on a queue.
* **Failure.** Calls to Steam fail and are rolled back; files are rewritten; the
  process may die; a decrypted configuration may still be refused.
* **Ends.** GracefulStop waits for handlers, Close for the dispatcher; whether the
  process ends depends on every one of them noticing the shutdown.
* **Many processes, one address.** A second daemon, or the successor of one that was
  killed, meets the file of another at the socket's path; daemon and gmanctl compute that
  path from their own flags and variables.
* **Two processes, one file.** The daemon and every `gmanctl` rewrite `.env` whole,
  without a lock, by truncating it first.

`PROJECT.json` lists the hazards at their lines, with the properties that watch them.

### What makes each component correct

* Game session: when nothing is in progress, the daemon believes what Steam shows, and
  exactly the driver of that game has exactly one listener; an exit stays an exit.
* Life cycle: each unlock request gets its own answer; nothing starts without accepted
  secrets; a stop ends the process; a login that waits for a code can be given it.
* Prices: an answered update survives everything that does not destroy the file;
  memory and file differ only while an update runs.
* Offer policy: an excluded partner's offer is never accepted, a trusted one's is
  handled once.
* Trade chat: an offer is worth what the prices say, to the half scrap, whatever amount
  they are; what is on offer stays locked, and of an attempt that fails no lock is left.
* Retry: at most four calls, never after a success, a final error or a cancelled context.
* Credential files: no value is encrypted twice, no command loses a line, and file,
  configuration and guardian module hold the same secrets after a command.
* Requests: a daemon that is alone can be reached, by whoever has the same settings; a
  request taken up is answered; what the user is told is what happened, as far as the
  daemon looks at Steam's answer; of what was typed Steam gets what the kind of request
  takes, and nothing else but the session.
* Backpack: no new item is forgotten; maintenance removes duplicates and ends.

## 2. Modules

### GracefulServer and ListenerHandle

Two small contracts hold the components together where they meet.

`GracefulServer` is what run in `main.go` relies on: requests are taken while the server
is up and none after that, each that was taken returns, and what follows GracefulStop
begins when all have. `GameSession`, `Lifecycle` and `Requests` each have such a server,
seen from the handlers of the game, from the main goroutine and from gmanctl. Each is
mapped onto it: `phase` is where the main goroutine or the process is, `pending` the
handlers at work. Only in `Requests` may the process be killed (`Mortal`).

`ListenerHandle` is what OnStartGC and OnStopGC of a driver promise: a start leaves a
listener alone that runs already, a stop cancels the one that runs. `GameSession` has all
their callers (requests, resume goroutines, dispatcher, Close) and only counts the
listeners; `Backpack` has the listeners, their subscriptions and what they miss, and
hardly a caller. Both are mapped onto it, `Backpack` by the number of listeners that
nobody has cancelled.

No run checks the two: the proofs of section 4 show the five refinements for every
instance.

### GameSession

One action per locked region and per unlocked call of PlayGame, ExitGame, the resume
goroutine of `handleLoggedOnEvent`, and Close; the dispatcher takes one event at a time
and then makes the driver call its handler makes. `task` is where each goroutine is and
the values it read earlier (the rollback of PlayGame restores `old`). `steamApp` and
`queue` are the world: what the account shows and the events not handled yet.
`listeners` is the multiset of auto-acknowledge goroutines of each driver, live or
cancelled; it tells a lost cancel handle from a called one.

External assumptions: the apps module publishes each presence change once and in
order; PlayGames and StopPlaying change what Steam shows at once or fail, and a failing
call may or may not have taken effect; subscribers get every event. Other modules of
the client (idling, achievements) may launch or quit games. What AcknowledgeAll and
RunMaintenance do with the backpack is left out.

What this module leaves open about the driver's goroutine, `Backpack` models: the
two meet in OnStartGC and OnStopGC (`ListenerHandle`). A resume goroutine may still play a
game after Close has asked for none: Close waits for the dispatcher, not for it.

### Lifecycle

`main` is the goroutine of `run`, through `Daemon.Run` (`"unlock"` .. `"up"`), the wait
for shutdown, GracefulStop (`"drain"`) and Close. A handler is in its channel send, its
wait for the result, or an open stream. The send on `unlockChan` and its receive are one
step, the channel being unbuffered. GracefulStop of grpc refuses new calls and returns
when all handlers have; a GuardUnlock handler does not look at its context, so a client
that goes away does not end it. `kept` says how the secrets are kept (in the clear, in
an encrypted maFile, as `ENC:` values) and never changes; `secrets` tells encrypted,
decrypted and configured. The two encrypted forms differ: a maFile is decrypted again at
each attempt, a value only once, so that a second attempt accepts any passphrase.
`isLocked` is cleared by Decrypt and set again if the guardian module refuses the secrets:
a request in between is answered that the daemon is unlocked already.
`Configurations` gives the initial states of a run.

The library's login asks for a Steam Guard code any number of times and may be confirmed
in the app instead. `handleEvents` puts the callback of each question into
`activeAuthCallback` in its turn, which `GuardSubmitAuthCode` takes out and calls: the
model keeps how many questions were asked and handled, which one the library waits for,
and which one is in the slot.

### PriceStore and ManualPrices

`PriceStore` is the promise: memory changes by updates, the stored map becomes memory in
one step, a restart starts from the stored map. `ManualPrices` is `prices.go` with a
step per file operation, deaths of the process at any of them (of the process, not of
the machine: what the kernel has accepted stays), failing reads, writes and renames, and
entries the JSON encoder refuses. `file` and `tmp` hold a map, nothing, or the torn start
of one. The refinement maps memory to the map (to the file's, while the process is down)
and the stored map to the file's.

### OfferPolicy and TradeOffers

`OfferPolicy` is what may become of an offer. `TradeOffers` is how the daemon goes about
it: the dispatcher takes events in order, decides by the lists, and after a poll goes
through the active offers again; operators use accept-offer, decline-offer and
cancel-offer. All of them call Steam in the loop of the two `retry.go`, one step per
attempt: an attempt may succeed, fail for good, fail in passing, or take effect while its
answer is lost. The mapping is the identity on `state`, `terms` and `asked`.

A partner is named by an account number or by a Steam ID (`Base` plus the number), as the
events and the listings name it; the lists hold Steam IDs. cancel-offer turns to the
community site if its loop fails, and is answered `"posted"` when that call went through,
whatever the site did with it; otherwise it takes an error with one of five words in it for
a sign that the offer is over, and is answered `"gone"`, whether or not it is. Only `"ok"` is
an answer that the call itself gave, and `AnswersTrue` is about it and about refusals.
`outage` says whether Steam
fails; `ListedHandled` asks only that it stops failing in the end. Delays between attempts
are left out: a waiting goroutine is a place of its own, in which anything else may happen.

### ChatTrade

One goroutine takes a message, reads the account's pool, fetches the partner's inventory,
reads the prices, selects, locks and sends. Each of these is a step where the code lets
others in: prices may be set, offers may end and items may be used in between. Metal is
counted in hundredths of a refined metal, the two decimals that prices are written with, as
integers where the code has floats; `ToScrap` rounds to the nearest scrap, as the currency
library does. Nobody looks at the value of a price on its way from gmanctl: an amount may be
negative, or `NaN`, or `Infinity`, which stands for all that no count of scrap can hold. The
comparisons with zero that decide whether metal is asked for or given are those of the code,
and are false of these. Amounts that are not hundredths are left out. `Variants` gives the words the engine makes of a name; that two names share a
word is possible, and the engine then yields either. A sale takes the keys of its entry
once per offer, whatever the quantity: this is what the code does.

### EnvFile

The credentials, wherever they are: in `.env`, in the daemon's configuration, in its
guardian module, and (external) in force at Steam. A value is the number of the command
that brought it, and the passphrases it is encrypted under. Every writer of the file is an
action with its own read, truncation and write, so that the daemon and any number of
`gmanctl` meet on it. The history variables say when they have met or a write did not end
(`disturbed`), and when two commands that set credentials ran at once (`overlapped`): the
code does nothing about either, and the properties that say that nothing is lost are
about behaviours without them, `OnceEncrypted` about all. The file may be missing, and the environment
then has the credentials and hides what a file says. There is one file: encrypt-env and
decrypt-env use `.env` even if `GMAN_ENV_PATH` names another one for the daemon, which is
a disagreement of the code with itself that the model does not show.

### Backpack

The items of the account are new, acknowledged, gone or not there yet. The listener that
OnStartGC starts has a channel of bounded capacity; the bus drops what does not fit, and
the listener throws away what waits before it acknowledges. `excused` (history) collects
the new items that it need not see to: those that came while none was subscribed or when
it was cancelled, or that the coordinator would not acknowledge. RunMaintenance has a step
per reading of the backpack and per call; a load starts one more of it each time, and
operators use up, craft and change the same items meanwhile.
A handler of ExecAction is the list of calls it makes: what each needs, uses up and may
produce. Which weapons the library picks is left open, and so is at every check and call
whether TF2 is played and connected. What is combined from metal and the layout are left out.

### Endpoint, Actions, WebRequests and Requests

The first three are functions. `Endpoint` is where the daemon listens and where gmanctl
looks for it, each from an environment of its own. `Actions` is the table that `initRouter`
defines and what `gmanctl exec`, ExecAction and the router refuse. `WebRequests` goes from
the words `key=value` of a command to the message Steam gets, through the parser, the
builder of each kind of request and the interceptor of the HTTP client, with a session of
the community or without one. `AsTyped` says what must arrive, and that nothing else does
but the session, and looks at none of these. Each kind of request takes parameters or a body
and drops the other: a community POST that is no form loses its parameters, a form, another
method and the web API their body, a unified request its parameters. The code says nothing
of it; `AsTyped` names what is taken, kind by kind.

`Requests` puts them to work. A process of g-mand prepares the path, listens, builds its
daemon, serves and drains; it may fail or be killed at each place, and others may run
before, after or beside it. `named` is the process whose listener the address names: a
path is taken by whoever binds it last and removed by whoever closes its listener, a port
is neither. A client dials, and its handler makes its call in the loop of `retry.go`,
attempt by attempt; it may leave, and the process may be killed, at each place. `told` is
what the user reads in the end, `received` how often Steam took what was sent, `lost` how
often its answer did not come. A generic request (`gmanctl request`) that Steam turns down is
answered like one that was done (`"turned"`). Actions on items are left to `Backpack`; here an action
makes one call or none.

## 3. Runs

Bounds are named in the modules (`MaxRequests`, `MaxUpdates`, ...) and given in the
`.cfg` files; they only limit how often the environment acts.

| run | instance | checks |
| --- | --- | --- |
| `session_agreement` | two operators, two resumptions, three requests, the world; no failing call | types; agreement with Steam at rest; the played driver listens; one operator alone gets the game it asked for and leaves no listener |
| `session_faults` | failing and late calls, shutdown at any moment | one listener per driver; Close ends |
| `lifecycle_all` | two clients, four requests, each way of keeping secrets, two questions for a code, every step of Run failing | types; own answers; nothing starts before the unlock; unlocks are answered; a stop, or a failure, ends the process; a code that is waited for can be submitted |
| `prices_durable` | two SKUs, two updaters, a refused entry, failing writes, a crash | types; answered updates are kept; memory is the file between updates; refinement of PriceStore |
| `offers_policy` | one offer, all combinations of lists, three retries, missing events, an outage, an operator, a shutdown | types; refinement of OfferPolicy; true answers; every listed partner's offer ends |
| `chat_trades` | two beginnings: two messages, a hat, a key and metal on each side, lost answers; one message for one or two, two hats and eight assets on each side, five entries (negative, NaN and infinite metal among them); a price change and a shared word in both | types; offers are worth their price; what is on offer stays locked; no lock is left by an attempt that failed |
| `env_agreement` | two users, three commands, two passphrases, failing writes, one death | types; encrypted once; no lost line; file, configuration and module agree |
| `requests` | up to three processes and two clients in four settings, the code's three retries, one lost answer | types; a lone daemon has its address and is reached; answers survive a graceful stop; users are told what happened, as far as the daemon knows; a stop ends the daemon |
| `backpack_kept` | three weapons of two classes, a tool, an operator, a load, two listeners, channel of one | types; no missed item; no duplicates left; maintenance ends |

Two of each actor are enough for the interleavings the code allows: all shared state is
one application number, one channel, one map or one file, and a third actor only repeats
what one of the two does. Two applications let one differ from the other, two SKUs let one
entry be overwritten while another is kept, three commands let two meet after a third has
left something behind. In `backpack_kept` one weapon belongs to both classes, so that a smelting
in one class changes what the other finds, and one is untradable; a channel of one is the
smallest that can be full, two listeners let a cancelled one run beside its successor.
In the second beginning of `chat_trades` prices round to scrap in both directions, differently for one hat and for
two, need all three kinds of metal, and are paid in keys with change; one entry is negative,
so that nothing is paid where it is taken, one is no number, and one is infinite. One message is enough
there, because what a deal is worth depends on no other; what two do to each other's locks
is the question of the first beginning. `lifecycle_all` asks for a code twice, which is what it takes to have a second question
overtake the answer to the first. `requests` is the union of four scopes, each large in
one direction: three processes over a path (a killed one, its successor, and one beside
it), two over a port; two requests at once, of those that are repeated, asked twice or
stop the daemon; some 130 command lines, one at a time, with every parameter an action or
request looks at present and absent; and all environments of g-mand against all that
gmanctl reads, on three kinds of machine. The scopes do not multiply, because the code
that they are about does not share state: settings are read before anything runs, and a
command line is parsed in its own process. Runs that include requests or budgets stop
when these are used up; they do not check for deadlock, and the liveness properties say
what must still happen.

The three remaining runs each find a behaviour that disagrees with what a comment or a
message of the program says; `PROJECT.json` "findings" quotes the sentence:

| run | what happens |
| --- | --- |
| `session_exit_ignored` | late events of an earlier game make ExitGame answer that nothing is played |
| `lifecycle_stuck_unlock` | a second unlock request waits for a loop that has ended |
| `prices_race` | the map is walked while it is written |

Consequences of the same code that the models can show and that no run is spent on: an
ExitGame between PlayGame's call and its OnStartGC leaves a listener behind
(`ListenerClosedAlone` is about one operator at a time); a failed PlayGames restores a game that has ended
meanwhile, hence no failing call in `session_agreement`; the resume goroutine
plays a game that was exited after it was spawned; a stuck unlock request keeps
GracefulStop waiting (`ShutdownCompletes` excepts it); a price file that cannot be read is
taken for none and overwritten, hence `SaveFaults` without `"read"`; an entry the encoder
refuses stays in memory and makes all later saves fail; a second daemon takes the address
of a live one and, when it leaves, the path is gone for both (`AddressOwned` is about
processes that met no other); an entry with negative metal gives the item away for the
keys of the entry, or for nothing, and a price of keys that is `NaN` passes the check for a
missing or invalid one and gives refined metal for no key (`PaidAsPriced` says what such an
entry is worth to the code, not that it should be); cancel-offer says "Offer ... is no longer
active" of an active offer, when a call that did nothing failed with one of the five words in
its error, such as the "invalid character" of an answer that is no JSON, and the community
site did not answer (`trading.go:158`, hence `"gone"`); a generic request that Steam turns
down is reported "Request completed successfully!", since no kind of request looks at the
status or the EResult it hands on (`request.go:142`, hence `"turned"`); an alias of an action,
`list-backpack` for `inventory`, is refused like any unknown name, since Execute looks names
up in the one table that has no aliases in it (`router.go:211`), although a comment says that
aliases register alternative names (`router.go:170`); `Routed` follows the code; gmanctl does not look at `GMAN_SOCKET_PATH`,
`GMAN_CONTAINER` or the daemon's flag, and misses a daemon that was given them unless it is
told too (`Agreeing`).

### Fairness

Weak fairness of the daemon's own goroutines: Go runs a goroutine that can run, and the
calls modelled as one step return (by an answer, an error or their context). For offers
also that the trading module polls. In `Requests` it is every process that is not killed and
every handler; the bounds on attempts are the code's, and the model has no fairness that
would make a call succeed. Nothing is assumed of operators, clients, signals,
Steam or other modules: none of them has to act, or to give a
code. `FailureExits` assumes that streams end,
`ListedHandled` that Steam stays reachable in the end; both say so in the property.

## 4. Proofs

Proved for every value of the constants, that is for any number of operators, clients,
applications, SKUs, offers, items, commands and passphrases, and without the bounds
mattering:

* `GameSession_proofs`: `TypeOK`, and `AckExclusive` (a driver never has two live
  listeners and holds the cancel handle of the live one) under every failure. The
  invariant relates `cancelAutoAck` to the listeners: it is set exactly when one is live.
  Also, if no call fails, `PresenceAgrees`. The invariant says what `currentAppID` will
  be once the queued events are handled: the last event in the queue, or else the record
  itself, tells what Steam shows, but for goroutines that have recorded a game and not
  called Steam yet. It is needed because agreement holds only
  when all is quiet, and says nothing about a step in the middle. `AckCoversPlay`, again if
  no call fails: the game that Steam shows is `Covered` at every step, by its listener, by
  the call that the dispatcher will make for a launch in the queue, or by an operator who
  is about to leave it. `ListenerClosedAlone`, whatever fails: of every other app the queue
  still holds the quit, if its listener runs (`Over`). `PlayHonoured`, if PlayGames does not
  fail: the request at work has recorded what Steam will show (`Recorded`, `Honoured`). The
  last two rest on there being one request at a time (`OneAtATime`). The two contracts:
  `SessionImplementsServer`, and `SessionImplementsHandle` for each driver, under every
  failure.
* `Lifecycle_proofs`: `TypeOK`; `ServiceNeedsUnlock`, by an invariant on what `isLocked`
  and `secrets` are at each place of the main goroutine; `AnswerOwnAttempt`, by an
  invariant that ties each result to the passphrase of the request the loop holds.
  `LifecycleImplementsServer`, and from it and the wait in Close that the process exits
  alone (`ExitsAlone`: the store and the log are closed after their last user). Out of the
  unlock loop there is no way back (`ForwardOnly`). Two invariants say who waits for whom,
  and are what `UnlockAnsweredInTime` and `CodeCanBeSubmitted` rest on: a request that
  waits has its result or is in the loop's hands, and finds a loop unless the daemon is
  unlocked or Run has failed (`NobodyForgotten`); the slot never holds an old callback, and
  has the one that the login waits for once the dispatcher has caught up (`CodeReaches`).
* `ManualPrices_proofs`: `TypeOK`, from which a torn file is excluded; `StoreSpec`, the
  refinement of PriceStore; `PromisedKept`, by the invariant that memory covers the file
  and both cover the updates that have reached them; `MemoryMatchesFile`, by the invariant
  that says what the temporary file holds at each step of a save and that memory differs
  from the file only for the one who holds the mutex or after a failed save; and
  `StaysPriced`, that no step takes a price out of the file. All but the
  types assume that a new process can read the file (`"read"` is not among the faults).
* `TradeOffers_proofs`: `TypeOK`; `PolicyKept`, the refinement; `AnswersTrue`. The
  invariant says what stands behind a call at any attempt: the dispatcher's fits the
  offer and is wanted by the lists, an operator's was asked for; events name the true
  partner; and what an operator will be told is already so: `"ok"` stands for the very
  outcome of the operation. That an offer which has ended stays ended is Steam's doing and
  an assumption here (`Effect`, `PartnerActs`). From the refinement follows that an end
  bears its reason (`EndsExplained`: by the lists, or by a request). `RefusedTrue`: a
  refusal is true as well, and stays so. Nothing is claimed of the two other answers of
  cancel-offer (see the consequences at the end of section 3).
* `ChatTrade_proofs`: all four invariants, for entries of any amounts, `NaN` and `Infinity`
  included. The change into metal is exact, the counts of
  the selected assets are those of the price, by the cardinality of disjoint sets, and
  locks belong to the message at work or to an offer. `OneOfferEach`: a message gets at
  most one offer, also if the call that made it is reported to have failed.
* `EnvFile_proofs`: `TypeOK` and `OnceEncrypted`, by one invariant on every place a
  value may be in: nothing is encrypted twice in the file, the configuration or the
  buffer of a command, and there is always a `"guard"` value. `LinesKept`, by the
  invariant that while nobody has disturbed the file at most one command is between its
  truncation and its write, with all the lines in its buffer, and otherwise all lines are
  in the file. `LinkedKept` and `SecretsAgree` follow the commands one by one: while none
  is disturbed, one rewrites the file at a time (`OneRewrites`), and while none overlaps,
  one sets credentials at a time (`OneSets`); `Settled`, `Stored` and `LinkOK` say what a
  link has in its hands or has stored at each place; `SetOK`, `FileAgrees` and
  `ModuleAgrees` say, for each place of the one that sets, which of file, configuration and
  module are already new. They are needed because the two properties speak of the moments
  between commands only.
* `Backpack_proofs`: `TypeOK`; `NoItemMissed`, by the invariant that there is a new item
  which is not excused only while the current listener is going to acknowledge (in its
  delay, at its call, or with an event in its channel): a full channel holds an event too;
  `DuplicatesSmelted`, by the invariant that a task which has not failed leaves at most
  one weapon, of those it found, of each class before its own, and that what is gone
  never comes back. `OneListener`: the only listener that was not cancelled is the one
  whose handle the driver keeps; from it `BackpackImplementsHandle`, with the cardinality
  of the set of listeners as the contract's count.
* `Requests_proofs`: all four invariants. `ProcessesOK` ties the name of the address to the
  process that listens there, and says that one which met nobody found nobody's;
  `RequestOK` counts, at each place of a handler, what Steam has received against attempts
  and lost answers; `Placed` says where a request with each answer is. What Steam gets of
  what was typed is proved for all command lines, with and without a session
  (`SentAsTyped`), the interceptor included, and that agreeing settings give one address for
  all environments (`AgreeingMeet`). `RequestsImplementServer` for each process, whatever the
  others do with its address; `AnsweredOnce`: what a user was told stands, and no attempt
  outlives it.

Three theorems are the safety cores of liveness properties: each gives a measure in a
well-founded order that every step of the goroutine lowers and no step of anybody else
raises, so that with fairness it must come to its end. `DispatcherDescends` (for
`ListedHandled`): the dispatcher has an event less in its queue, else an offer less to
fetch, else a step less of the call under way. `MaintenanceDescends` (for
`MaintenanceEnds`): a later part of RunMaintenance, else fewer weapons, else a class less,
whatever operators and other maintenance do to the same items. `RequestsDescend` (for
`StopHonoured`): a handler has at most `2 * MaxRetries + 5` steps, however Steam answers.
That the steps are taken, and hence the liveness itself, is what TLC checks.

The constants' assumptions are the named `ASSUME`s of the modules, evaluated by TLC in
every run. Liveness (`ShutdownCloses`, `UnlockAnsweredInTime`, `ShutdownCompletes`,
`FailureExits`, `CodeCanBeSubmitted`, `ListedHandled`, `MaintenanceEnds`, `StopHonoured`) is
model-checked only: it rests on fairness, which is out of the prover's reach. In
`UnlockAnsweredInTime` the bound on requests also bounds how many may come before the one
that waits; the code has no such bound, and a request's turn there depends on Go's
channels serving senders in order. Every safety
property of a passing run is proved, for those constants that its theorem assumes. The
theorems beyond those are about definitions of the `_proofs` modules; each was checked on
the instances of section 3 before it was proved.

## 5. Plan

Done, in this order: session, life cycle, prices, offers and retry, trade chat, credential
files, backpack; then the IPC address, the router, web requests and the requests of
gmanctl, the slot of the login code. What could follow:

1. Configuration: the precedence of environment, flags and maFile as functions, compared
   over bounded inputs. Questions it should settle: a plain maFile's refresh token wins
   over the environment's, an encrypted one's does not after the unlock; the device ID
   the other way round; the check for required credentials is skipped for an encrypted
   maFile; `ENC:` values beside an encrypted maFile stay encrypted.
2. The ECP codec as functions: what the words of a name are, and which names collide.
3. Combining metal and the layout of the backpack.
4. An action on items as a request: the loop of `Requests` around the calls of `Backpack`.

Runs of the smaller modules are merged where one instance can ask several questions.

## 6. Not modelled

Generated protocol code, the reports of `inventory.go` and `diagnostics.go`, the listings
of `trading.go`, output formatting, proxies and the coverage tool: no state, or
formatting. The precedence of the sources of credentials, and a configuration with both an
encrypted maFile and `ENC:` values. The commands of gmanctl that show a status or a stream:
each is one call, whose daemon side is modelled. The ciphers: what opens what is modelled,
not how. The inside of the `g-man` library: it is another repository. Loss of power after a
rename. A quantity in a chat message too large for a slice, which ends the process
(`chatcmd.go:588`). That NaN or an infinite amount among the prices cannot be encoded, so that they
are in memory only and no later update is saved, is the refused entry of `ManualPrices`.
Retries and rotation of web proxies below the calls that the models make.
