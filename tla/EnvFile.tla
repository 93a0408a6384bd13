-------------------------------- MODULE EnvFile --------------------------------
(***************************************************************************)
(* The credentials of g-mand in its .env file, in the daemon's             *)
(* configuration and in its guardian module.  gmanctl encrypts and         *)
(* decrypts the file in place and imports credentials, through the daemon  *)
(* or by itself (cmd/gmanctl/guard.go); the daemon rewrites the file       *)
(* whenever it configures its guardian module: after an import, a link, a  *)
(* transfer and an unlock (configureGuardian in cmd/g-mand/guard.go).      *)
(* Nobody locks the file, and os.WriteFile truncates it before it writes.  *)
(*                                                                         *)
(* A file or a configuration maps some keys to values: "pass" the          *)
(* password, "guard" the shared and the identity secret, "token" the       *)
(* refresh token.  The plain text of a value is the number of the command  *)
(* it came with, 0 for the first; under is what it is encrypted under.     *)
(***************************************************************************)
EXTENDS Naturals, Sequences, FiniteSets

CONSTANTS
  Users,         \* those who run commands, one at a time each
  Passphrases,   \* "none" where a command has none
  Faults,        \* what may fail: "save" writing the file, "guardian" making the module
  Missing,       \* there is no file
  MaxCommands,   \* bound: commands in a behaviour
  MaxRestarts    \* bound: deaths of the daemon or of a gmanctl

ASSUME EnvFileAssumption ==
  /\ Faults \subseteq {"save", "guardian"}
  /\ "none" \notin Passphrases
  /\ MaxCommands \in Nat /\ MaxRestarts \in Nat

VARIABLES
  file,          \* the .env file
  environment,   \* the credentials set in the daemon's environment (never change)
  up, locked,    \* the daemon runs; Daemon.isLocked
  cfg,           \* Daemon.cfg: its credentials
  guardian,      \* the guardian module's "guard" value, if the module is registered
  authenticator, \* external: the "guard" value in force at Steam
  task,          \* per user: the command in progress, and where it is
  commands, deaths,
  last,          \* history: the last command that ended having set credentials
  overlapped,    \* history: two commands that set credentials ran at the same time
  disturbed      \* history: the file was used by two at once, or a write did not end

daemonVars == <<up, locked, cfg, guardian>>
historyVars == <<last, overlapped, disturbed>>
vars == <<file, environment, daemonVars, authenticator, task, commands, deaths, historyVars>>

Keys == {"pass", "guard", "token"}
NoLines == [k \in {} |-> 0]

Value == [plain : 0 .. MaxCommands, under : Seq(Passphrases)]
IsLines(f) == \E K \in SUBSET Keys : f \in [K -> Value]
ASSUME MissingAssumption == ~IsLines(Missing)

Plain(n) == [plain |-> n, under |-> <<>>]
Initially == [k \in Keys |-> Plain(0)]

\* What runs in the daemon, and what in gmanctl.
HandlerOps == {"import", "link", "transfer", "unlock"}
LocalOps == {"local", "encrypt", "decrypt"}
Sets(op) == op \in HandlerOps \cup {"local"}

At(u, pc) == task[u].pc = pc
Now(u, pc, sets, buf) ==
  task' = [task EXCEPT ![u] = [pc |-> pc, op |-> task[u].op, n |-> task[u].n, sets |-> sets,
                               pass |-> task[u].pass, buf |-> buf]]
Goto(u, pc) == Now(u, pc, task[u].sets, task[u].buf)
Rest == [pc |-> "idle", op |-> "local", n |-> 0, sets |-> NoLines, pass |-> "none",
         buf |-> NoLines]
Busy(u) == ~At(u, "idle")
Others(u) == {t \in Users \ {u} : Busy(t)}

-----------------------------------------------------------------------------
(* Values and lines                                                        *)

IsEncrypted(v) == v.under # <<>>
Encrypt(v, p) == [plain |-> v.plain, under |-> <<p>> \o v.under]
Opens(v, p) == IsEncrypted(v) => Head(v.under) = p
Opened(v, p) == IF IsEncrypted(v) THEN [plain |-> v.plain, under |-> Tail(v.under)] ELSE v
AllOpen(lines, p) == \A k \in DOMAIN lines : Opens(lines[k], p)
AllOpened(lines, p) == [k \in DOMAIN lines |-> Opened(lines[k], p)]

\* Mutant: what is encrypted is encrypted again.
Encrypted_Again(lines, p) == [k \in DOMAIN lines |-> Encrypt(lines[k], p)]

Encrypted(lines, p) ==
  [k \in DOMAIN lines |-> IF IsEncrypted(lines[k]) THEN lines[k] ELSE Encrypt(lines[k], p)]

\* Mutant: only the new lines are written.
Rewritten_Only(lines, sets) == sets

\* The lines with new values, replaced in place or appended.
Rewritten(lines, sets) ==
  [k \in DOMAIN lines \cup DOMAIN sets |-> IF k \in DOMAIN sets THEN sets[k] ELSE lines[k]]

-----------------------------------------------------------------------------
(* Commands                                                                *)

Begin(u, op, pc, sets, p) ==
  /\ At(u, "idle")
  /\ commands < MaxCommands
  /\ commands' = commands + 1
  /\ task' = [task EXCEPT ![u] = [pc |-> pc, op |-> op, n |-> commands + 1, sets |-> sets,
                                  pass |-> p, buf |-> NoLines]]
  /\ overlapped' = (overlapped \/ (Sets(op) /\ \E t \in Others(u) : Sets(task[t].op)))
  /\ UNCHANGED <<file, environment, daemonVars, authenticator, deaths, last, disturbed>>

EncryptEnv(u, p) == Begin(u, "encrypt", "read", NoLines, p)
DecryptEnv(u, p) == Begin(u, "decrypt", "read", NoLines, p)

\* The import goes to the daemon if one runs, with a refresh token or without.
GuardImport(u, keys) ==
  LET sets == [k \in keys |-> Plain(commands + 1)]
  IN \/ up /\ Begin(u, "import", "configure", sets, "none")
     \/ ~up /\ Begin(u, "local", "read", sets, "none")

\* A link or a transfer has begun; the user is asked for the code.
GuardAsk(u, op) ==
  /\ up /\ ~locked
  /\ Begin(u, op, "code", [k \in {"guard"} |-> Plain(commands + 1)], "none")

\* The unlock loop takes one request at a time.
GuardUnlock(u, p) ==
  /\ up /\ locked
  /\ \A t \in Others(u) : task[t].op # "unlock"
  /\ Begin(u, "unlock", "decrypt", NoLines, p)

\* The command ends; last is for those that set credentials.
Return(u, ok) ==
  /\ task' = [task EXCEPT ![u] = Rest]
  /\ last' = IF Sets(task[u].op) THEN [op |-> task[u].op, n |-> task[u].n, ok |-> ok] ELSE last

\* gmanctl does an import by itself.
Again(t) == [pc |-> "read", op |-> "local", n |-> t.n, sets |-> t.sets, pass |-> "none",
             buf |-> NoLines]

-----------------------------------------------------------------------------
(* Handlers of the daemon                                                  *)

\* Mutant: a finished link is not configured.
Finalize_Only(u) ==
  /\ At(u, "code") /\ up
  /\ \/ authenticator' = task[u].n /\ Return(u, TRUE)
     \/ Return(u, FALSE) /\ (authenticator' = task[u].n \/ UNCHANGED authenticator)
  /\ UNCHANGED <<file, environment, daemonVars, commands, deaths, overlapped, disturbed>>

\* Steam finishes the link or the transfer, or fails, or its answer is lost.
Finalize(u) ==
  /\ At(u, "code") /\ up
  /\ \/ authenticator' = task[u].n /\ Goto(u, "configure") /\ UNCHANGED last
     \/ Return(u, FALSE) /\ (authenticator' = task[u].n \/ UNCHANGED authenticator)
  /\ UNCHANGED <<file, environment, daemonVars, commands, deaths, overlapped, disturbed>>

\* decryptConfigValues: every value opens, or nothing changes.
DecryptConfig(u) ==
  /\ At(u, "decrypt")
  /\ IF AllOpen(cfg, task[u].pass)
     THEN Now(u, "unlocked", AllOpened(cfg, task[u].pass), NoLines) /\ UNCHANGED last
     ELSE Return(u, FALSE)
  /\ UNCHANGED <<file, environment, daemonVars, authenticator, commands, deaths, overlapped,
                 disturbed>>

\* The decrypted values replace the configuration's; the password goes no further.
Unlocked(u) ==
  /\ At(u, "unlocked")
  /\ cfg' = Rewritten(cfg, task[u].sets)
  /\ locked' = FALSE
  /\ Now(u, "configure", [k \in DOMAIN task[u].sets \ {"pass"} |-> task[u].sets[k]], NoLines)
  /\ UNCHANGED <<file, environment, up, guardian, authenticator, commands, deaths, historyVars>>

\* Mutant: the refresh token is not taken over.
ConfigureGuardian_NoToken(u) ==
  /\ At(u, "configure")
  /\ cfg' = Rewritten(cfg, [k \in DOMAIN task[u].sets \ {"token"} |-> task[u].sets[k]])
  /\ Goto(u, "read")
  /\ UNCHANGED <<file, environment, up, locked, guardian, authenticator, commands, deaths,
                 historyVars>>

\* configureGuardian first sets the configuration, then calls updateEnvFile.
ConfigureGuardian(u) ==
  /\ At(u, "configure")
  /\ cfg' = Rewritten(cfg, task[u].sets)
  /\ Goto(u, "read")
  /\ UNCHANGED <<file, environment, up, locked, guardian, authenticator, commands, deaths,
                 historyVars>>

\* Mutant: a second module is registered.
SetGuardian_Registers(u) ==
  /\ At(u, "guardian")
  /\ guardian' = guardian \cup {task[u].sets["guard"]}
  /\ Return(u, TRUE)
  /\ UNCHANGED <<file, environment, up, locked, cfg, authenticator, commands, deaths,
                 overlapped, disturbed>>

\* At last the guardian module gets its secrets.  Making a new one may fail: an unlock is
\* taken back, a failed import is done again by gmanctl, a transfer is reported as done.
SetGuardian(u) ==
  /\ At(u, "guardian")
  /\ \/ /\ guardian' = {task[u].sets["guard"]}
        /\ Return(u, TRUE)
        /\ UNCHANGED locked
     \/ /\ guardian = {} /\ "guardian" \in Faults
        /\ UNCHANGED guardian
        /\ locked' = (locked \/ task[u].op = "unlock")
        /\ IF task[u].op = "import"
           THEN task' = [task EXCEPT ![u] = Again(@)] /\ UNCHANGED last
           ELSE Return(u, task[u].op = "transfer")
  /\ UNCHANGED <<file, environment, up, cfg, authenticator, commands, deaths, overlapped,
                 disturbed>>

-----------------------------------------------------------------------------
(* The file: read, truncate, write                                         *)

\* The command is through with the file.
AfterFile(u) ==
  IF task[u].op \in HandlerOps THEN Goto(u, "guardian") /\ UNCHANGED last ELSE Return(u, TRUE)

\* What the command makes of the lines it has read.
Edited(t, lines) ==
  IF t.op = "encrypt" THEN Encrypted(lines, t.pass)
  ELSE IF t.op = "decrypt" THEN AllOpened(lines, t.pass)
  ELSE Rewritten(lines, t.sets)

ReadFile(u) ==
  /\ At(u, "read")
  /\ file # Missing
  /\ LET t == task[u]
     IN \/ /\ t.op = "decrypt" /\ ~AllOpen(file, t.pass)
           /\ Return(u, FALSE)
        \/ /\ t.op = "decrypt" => AllOpen(file, t.pass)
           /\ t.op \in {"encrypt", "decrypt"} /\ Edited(t, file) = file
           /\ Return(u, TRUE)
        \/ /\ t.op = "decrypt" => AllOpen(file, t.pass)
           /\ t.op \in {"encrypt", "decrypt"} => Edited(t, file) # file
           /\ Now(u, "truncate", t.sets, Edited(t, file))
           /\ UNCHANGED last
  /\ disturbed' = (disturbed \/ \E t \in Others(u) : At(t, "truncate") \/ At(t, "write"))
  /\ UNCHANGED <<file, environment, daemonVars, authenticator, commands, deaths, overlapped>>

\* Without a file the daemon goes on, gmanctl makes one for an import and else gives up.
NoFile(u) ==
  /\ At(u, "read")
  /\ file = Missing
  /\ \/ task[u].op \in HandlerOps /\ AfterFile(u) /\ UNCHANGED file
     \/ task[u].op = "local" /\ file' = NoLines /\ UNCHANGED <<task, last>>
     \/ task[u].op \in {"encrypt", "decrypt"} /\ Return(u, FALSE) /\ UNCHANGED file
  /\ UNCHANGED <<environment, daemonVars, authenticator, commands, deaths, overlapped, disturbed>>

\* The write begins, or fails: that of an import is not reported, that of the others is.
Truncate(u) ==
  /\ At(u, "truncate")
  /\ \/ file' = NoLines /\ Goto(u, "write") /\ UNCHANGED <<last, disturbed>>
     \/ /\ "save" \in Faults
        /\ IF Sets(task[u].op) THEN AfterFile(u) ELSE Return(u, FALSE)
        /\ disturbed' = TRUE
        /\ UNCHANGED file
  /\ UNCHANGED <<environment, daemonVars, authenticator, commands, deaths, overlapped>>

WriteFile(u) ==
  /\ At(u, "write")
  /\ file' = task[u].buf
  /\ AfterFile(u)
  /\ UNCHANGED <<environment, daemonVars, authenticator, commands, deaths, overlapped, disturbed>>

-----------------------------------------------------------------------------
(* The processes                                                           *)

\* godotenv does not replace what the environment has set.
Loaded == IF file = Missing THEN environment ELSE Rewritten(file, environment)

\* A daemon starts with a password or a refresh token; without a device ID it registers
\* no guardian module.
StartDaemon ==
  /\ ~up
  /\ {"pass", "token"} \cap DOMAIN Loaded # {}
  /\ up' = TRUE
  /\ cfg' = Loaded
  /\ locked' = \E k \in DOMAIN Loaded : IsEncrypted(Loaded[k])
  /\ guardian' \in {{}, {Loaded[k] : k \in {"guard"} \cap DOMAIN Loaded}}
  /\ overlapped' = (overlapped \/ \E u \in Users : Busy(u) /\ Sets(task[u].op))
  /\ disturbed' = (disturbed \/ \E u \in Users : At(u, "truncate") \/ At(u, "write"))
  /\ UNCHANGED <<file, environment, authenticator, task, commands, deaths, last>>

InDaemon(u) == task[u].op \in HandlerOps /\ ~At(u, "code")

\* The daemon's handlers die with it; gmanctl then imports by itself.
StopDaemon ==
  /\ up /\ deaths < MaxRestarts
  /\ deaths' = deaths + 1
  /\ up' = FALSE /\ locked' = FALSE /\ cfg' = NoLines /\ guardian' = {}
  /\ task' = [u \in Users |->
       IF Busy(u) /\ task[u].op = "import"
       THEN Again(task[u])
       ELSE IF Busy(u) /\ task[u].op \in HandlerOps THEN Rest ELSE task[u]]
  /\ LET gone == {u \in Users : Busy(u) /\ InDaemon(u) /\ task[u].op # "import"}
     IN \/ gone = {} /\ UNCHANGED last
        \/ \E u \in gone : last' = [op |-> task[u].op, n |-> task[u].n, ok |-> FALSE]
  /\ disturbed' = (disturbed \/ \E u \in Users : InDaemon(u) /\ At(u, "write"))
  /\ UNCHANGED <<file, environment, authenticator, commands, overlapped>>

\* A user interrupts gmanctl; what runs in the daemon goes on.
KillCommand(u) ==
  /\ Busy(u) /\ ~InDaemon(u)
  /\ deaths < MaxRestarts
  /\ deaths' = deaths + 1
  /\ Return(u, FALSE)
  /\ disturbed' = (disturbed \/ At(u, "write"))
  /\ UNCHANGED <<file, environment, daemonVars, authenticator, commands, overlapped>>

-----------------------------------------------------------------------------
\* The credentials are in the file, in the clear, or in the environment alone.
Init ==
  /\ \/ file = Initially /\ environment = NoLines
     \/ file = Missing /\ environment = Initially
  /\ up = FALSE /\ locked = FALSE /\ cfg = NoLines /\ guardian = {}
  /\ authenticator = 0
  /\ task = [u \in Users |-> Rest]
  /\ commands = 0 /\ deaths = 0
  /\ last = [op |-> "local", n |-> 0, ok |-> TRUE]
  /\ overlapped = FALSE /\ disturbed = FALSE

Command(u) ==
  \/ \E p \in Passphrases : EncryptEnv(u, p) \/ DecryptEnv(u, p) \/ GuardUnlock(u, p)
  \/ \E keys \in {{"guard"}, {"guard", "token"}} : GuardImport(u, keys)
  \/ \E op \in {"link", "transfer"} : GuardAsk(u, op)

Step(u) ==
  \/ Finalize(u) \/ DecryptConfig(u) \/ Unlocked(u)
  \/ ConfigureGuardian(u) \/ SetGuardian(u)
  \/ ReadFile(u) \/ NoFile(u) \/ Truncate(u) \/ WriteFile(u)

Next ==
  \/ \E u \in Users : Command(u) \/ Step(u) \/ KillCommand(u)
  \/ StartDaemon \/ StopDaemon

Spec == Init /\ [][Next]_vars

-----------------------------------------------------------------------------
(* Properties                                                              *)

Places == {"idle", "code", "decrypt", "unlocked", "configure", "read", "truncate", "write",
           "guardian"}

\* Every variable stays in its domain; in particular one guardian module at most is
\* registered.
TypeOK ==
  /\ file = Missing \/ IsLines(file)
  /\ environment \in {NoLines, Initially}
  /\ up \in BOOLEAN /\ locked \in BOOLEAN /\ IsLines(cfg)
  /\ guardian \subseteq Value /\ \A v, w \in guardian : v = w
  /\ authenticator \in 0 .. MaxCommands
  /\ DOMAIN task = Users
  /\ \A u \in Users :
       /\ task[u].pc \in Places /\ task[u].op \in HandlerOps \cup LocalOps
       /\ task[u].n \in 0 .. MaxCommands /\ task[u].pass \in Passphrases \cup {"none"}
       /\ IsLines(task[u].sets) /\ IsLines(task[u].buf)
  /\ commands \in 0 .. MaxCommands /\ deaths \in 0 .. MaxRestarts
  /\ overlapped \in BOOLEAN /\ disturbed \in BOOLEAN

OnceAtMost(f) == \A k \in DOMAIN f : Len(f[k].under) <= 1

\* Whatever is encrypted, imported, unlocked and decrypted in whatever order and by
\* whomever, a value is never encrypted twice: one passphrase opens it (encryptEnvFile,
\* decryptEnvFile, decryptConfigValues, updateEnvFile).
OnceEncrypted == OnceAtMost(cfg) /\ (file # Missing => OnceAtMost(file))

\* As long as nobody reads the file while another rewrites it, and no write is cut short,
\* no command loses a line: the password stays what it was, and no secret vanishes.
LinesKept ==
  ~disturbed /\ environment = NoLines =>
    \/ DOMAIN file = Keys /\ file["pass"].plain = 0
    \/ \E u \in Users : At(u, "write")

Texts(f) == [k \in DOMAIN f |-> f[k].plain]
Undisturbed == ~overlapped /\ ~disturbed /\ \A u \in Users : ~(Busy(u) /\ Sets(task[u].op))

\* Credentials that were set one command at a time are the same in the file, in the
\* configuration of the daemon and in its guardian module, once the command is over: with
\* failures of the module and of Steam, deaths of the daemon and imports that gmanctl had
\* to do again by itself (configureGuardian, handleGuardImport).
SecretsAgree ==
  /\ Undisturbed /\ up /\ environment = NoLines
  /\ \A u \in Users : ~At(u, "write")
  => /\ Texts(cfg) = Texts(file)
     /\ \A v \in guardian : v.plain = cfg["guard"].plain

\* After a link or a transfer that was reported as done, with no other in between, the
\* secrets of the authenticator in force are kept in the file, if there is one.
LinkedKept ==
  /\ Undisturbed /\ last.ok /\ last.op \in {"link", "transfer"}
  /\ \A u \in Users : ~At(u, "write")
  => /\ authenticator = last.n
     /\ file = Missing \/ file["guard"].plain = last.n
=============================================================================
