---------------------------- MODULE EnvFile_proofs ----------------------------
(***************************************************************************)
(* Proofs about EnvFile: type correctness; that no value is encrypted      *)
(* twice, that undisturbed commands lose no line, that linked secrets are  *)
(* kept, and that file, configuration and module agree.                    *)
(***************************************************************************)
EXTENDS EnvFile, TLAPS

-----------------------------------------------------------------------------
(* Values and lines                                                        *)

Once(v) == v \in Value /\ Len(v.under) <= 1
Good(f) == \E K \in SUBSET Keys : f \in [K -> {v \in Value : Len(v.under) <= 1}]
Guarded(f) == DOMAIN f # {} => "guard" \in DOMAIN f

LEMMA GoodMeans ==
  ASSUME NEW f, Good(f)
  PROVE  IsLines(f) /\ OnceAtMost(f) /\ DOMAIN f \subseteq Keys /\ \A k \in DOMAIN f : Once(f[k])
<1>1. PICK K \in SUBSET Keys : f \in [K -> {v \in Value : Len(v.under) <= 1}]
  BY DEF Good
<1>2. DOMAIN f = K /\ f \in [K -> Value] /\ \A k \in K : Once(f[k])
  BY <1>1 DEF Once
<1> QED BY <1>2 DEF IsLines, OnceAtMost, Once

\* A passphrase goes on what is in the clear.
LEMMA EncryptOnce ==
  ASSUME NEW v, Once(v), ~IsEncrypted(v), NEW p \in Passphrases
  PROVE  Once(Encrypt(v, p)) /\ Encrypt(v, p).plain = v.plain
<1>1. v \in Value /\ v.under = <<>>
  BY DEF Once, IsEncrypted
<1>2. Encrypt(v, p) = [plain |-> v.plain, under |-> <<p>>]
  BY <1>1 DEF Encrypt, Value
<1>3. <<p>> \in Seq(Passphrases) /\ Len(<<p>>) = 1
  OBVIOUS
<1> QED BY <1>1, <1>2, <1>3 DEF Once, Value

LEMMA OpenedOnce ==
  ASSUME NEW v, Once(v)
  PROVE  Once(Opened(v, "none")) /\ Opened(v, "none").plain = v.plain
         /\ \A p : Opened(v, p) = Opened(v, "none")
<1>1. v \in Value /\ v.under \in Seq(Passphrases) /\ Len(v.under) <= 1
  BY DEF Once, Value
<1>2. IsEncrypted(v) => Tail(v.under) \in Seq(Passphrases) /\ Len(Tail(v.under)) <= 1
  BY <1>1 DEF IsEncrypted
<1> QED BY <1>1, <1>2 DEF Opened, Once, Value

LEMMA GoodIntro ==
  ASSUME NEW K \in SUBSET Keys, NEW f, f = [k \in K |-> f[k]], \A k \in K : Once(f[k])
  PROVE  Good(f) /\ DOMAIN f = K
<1>1. f \in [K -> {v \in Value : Len(v.under) <= 1}]
  BY DEF Once
<1> QED BY <1>1 DEF Good

LEMMA PlainGood ==
  ASSUME NEW K \in SUBSET Keys, NEW n \in 0 .. MaxCommands
  PROVE  Good([k \in K |-> Plain(n)]) /\ DOMAIN [k \in K |-> Plain(n)] = K
<1> DEFINE f == [k \in K |-> Plain(n)]
<1>1. <<>> \in Seq(Passphrases) /\ Len(<<>>) = 0
  OBVIOUS
<1>2. Once(Plain(n))
  BY <1>1 DEF Once, Plain, Value
<1>3. f = [k \in K |-> f[k]] /\ \A k \in K : Once(f[k])
  BY <1>2
<1> HIDE DEF f
<1>4. Good(f) /\ DOMAIN f = K
  BY <1>3, GoodIntro
<1> QED BY <1>4 DEF f

LEMMA NoLinesGood == Good(NoLines) /\ Guarded(NoLines) /\ DOMAIN NoLines = {}
<1>1. NoLines = [k \in {} |-> NoLines[k]] /\ {} \in SUBSET Keys /\ DOMAIN NoLines = {}
  BY DEF NoLines
<1>2. Good(NoLines)
  BY <1>1, GoodIntro
<1> QED BY <1>1, <1>2 DEF Guarded

LEMMA InitiallyGood ==
  /\ Good(Initially) /\ Guarded(Initially) /\ DOMAIN Initially = Keys
  /\ \A k \in Keys : Initially[k].plain = 0
<1>1. 0 \in 0 .. MaxCommands
  BY EnvFileAssumption
<1> QED BY <1>1, PlainGood DEF Initially, Plain, Guarded, Keys

LEMMA RewrittenGood ==
  ASSUME NEW f, NEW g, Good(f), Good(g)
  PROVE  /\ Good(Rewritten(f, g))
         /\ DOMAIN Rewritten(f, g) = DOMAIN f \cup DOMAIN g
         /\ \A k \in DOMAIN f \ DOMAIN g : Rewritten(f, g)[k] = f[k]
<1>1. DOMAIN f \subseteq Keys /\ DOMAIN g \subseteq Keys
  BY GoodMeans
<1>2. \A k \in DOMAIN f \cup DOMAIN g :
        Rewritten(f, g)[k] = IF k \in DOMAIN g THEN g[k] ELSE f[k]
  BY DEF Rewritten
<1>3. \A k \in DOMAIN f \cup DOMAIN g : Once(Rewritten(f, g)[k])
  BY <1>2, GoodMeans
<1>4. Rewritten(f, g) = [k \in DOMAIN f \cup DOMAIN g |-> Rewritten(f, g)[k]]
  BY DEF Rewritten
<1> QED BY <1>1, <1>2, <1>3, <1>4, GoodIntro

LEMMA EncryptedGood ==
  ASSUME NEW f, Good(f), NEW p \in Passphrases
  PROVE  /\ Good(Encrypted(f, p)) /\ DOMAIN Encrypted(f, p) = DOMAIN f
         /\ \A k \in DOMAIN f : Encrypted(f, p)[k].plain = f[k].plain
<1>1. \A k \in DOMAIN f : Once(f[k])
  BY GoodMeans
<1>2. \A k \in DOMAIN f : Encrypted(f, p)[k] = IF IsEncrypted(f[k]) THEN f[k] ELSE Encrypt(f[k], p)
  BY DEF Encrypted
<1>3. \A k \in DOMAIN f : Once(Encrypted(f, p)[k]) /\ Encrypted(f, p)[k].plain = f[k].plain
  BY <1>1, <1>2, EncryptOnce
<1>4. Encrypted(f, p) = [k \in DOMAIN f |-> Encrypted(f, p)[k]]
  BY DEF Encrypted
<1> QED BY <1>3, <1>4, GoodIntro, GoodMeans

LEMMA OpenedGood ==
  ASSUME NEW f, Good(f), NEW p
  PROVE  /\ Good(AllOpened(f, p)) /\ DOMAIN AllOpened(f, p) = DOMAIN f
         /\ \A k \in DOMAIN f : AllOpened(f, p)[k].plain = f[k].plain
<1>1. \A k \in DOMAIN f : Once(f[k])
  BY GoodMeans
<1>2. \A k \in DOMAIN f : AllOpened(f, p)[k] = Opened(f[k], p)
  BY DEF AllOpened
<1>3. \A k \in DOMAIN f : Once(AllOpened(f, p)[k]) /\ AllOpened(f, p)[k].plain = f[k].plain
  BY <1>1, <1>2, OpenedOnce
<1>4. AllOpened(f, p) = [k \in DOMAIN f |-> AllOpened(f, p)[k]]
  BY DEF AllOpened
<1> QED BY <1>3, <1>4, GoodIntro, GoodMeans

LEMMA RestrictedGood ==
  ASSUME NEW f, Good(f)
  PROVE  LET g == [k \in DOMAIN f \ {"pass"} |-> f[k]]
         IN Good(g) /\ DOMAIN g = DOMAIN f \ {"pass"}
<1> DEFINE g == [k \in DOMAIN f \ {"pass"} |-> f[k]]
<1>1. DOMAIN f \ {"pass"} \in SUBSET Keys /\ \A k \in DOMAIN f \ {"pass"} : Once(g[k])
  BY GoodMeans
<1>2. g = [k \in DOMAIN f \ {"pass"} |-> g[k]]
  OBVIOUS
<1> HIDE DEF g
<1>3. Good(g) /\ DOMAIN g = DOMAIN f \ {"pass"}
  BY <1>1, <1>2, GoodIntro
<1> QED BY <1>3 DEF g

-----------------------------------------------------------------------------
(* The inductive invariant: every line anywhere is encrypted once at most; *)
(* whatever is not empty has the secrets, and so has every command that    *)
(* sets credentials.                                                       *)

TaskOK(t, isUp) ==
  /\ t.pc \in Places /\ t.op \in HandlerOps \cup LocalOps
  /\ t.n \in 0 .. MaxCommands /\ t.pass \in Passphrases \cup {"none"}
  /\ Good(t.sets) /\ Good(t.buf) /\ Guarded(t.buf)
  /\ t.op = "encrypt" => t.pass \in Passphrases
  /\ t.op \in {"encrypt", "decrypt"} => t.pc \in {"read", "truncate", "write"}
  /\ t.pc = "decrypt" => isUp
  /\ t.pc \in {"decrypt", "unlocked"} => t.op = "unlock"
  /\ "pass" \in DOMAIN t.sets => t.pc = "unlocked"
  /\ t.pc \notin {"idle", "decrypt"} /\ t.op \notin {"encrypt", "decrypt"}
       => "guard" \in DOMAIN t.sets

TasksOK == DOMAIN task = Users /\ \A u \in Users : TaskOK(task[u], up)
FileOK == file = Missing \/ (Good(file) /\ Guarded(file))
CfgOK == Good(cfg) /\ (up => "guard" \in DOMAIN cfg)
GuardianOK == guardian \subseteq Value /\ \A v, w \in guardian : v = w
ScalarsOK ==
  /\ environment \in {NoLines, Initially}
  /\ up \in BOOLEAN /\ locked \in BOOLEAN
  /\ authenticator \in 0 .. MaxCommands
  /\ commands \in 0 .. MaxCommands /\ deaths \in 0 .. MaxRestarts
  /\ overlapped \in BOOLEAN /\ disturbed \in BOOLEAN
Inv == ScalarsOK /\ TasksOK /\ FileOK /\ CfgOK /\ GuardianOK

LEMMA InvTyped == Inv => TypeOK /\ OnceEncrypted
<1> SUFFICES ASSUME Inv PROVE TypeOK /\ OnceEncrypted
  OBVIOUS
<1>1. file # Missing => IsLines(file) /\ OnceAtMost(file)
  BY GoodMeans DEF Inv, FileOK
<1>2. IsLines(cfg) /\ OnceAtMost(cfg)
  BY GoodMeans DEF Inv, CfgOK
<1>3. ASSUME NEW u \in Users
      PROVE  /\ task[u].pc \in Places /\ task[u].op \in HandlerOps \cup LocalOps
             /\ task[u].n \in 0 .. MaxCommands /\ task[u].pass \in Passphrases \cup {"none"}
             /\ IsLines(task[u].sets) /\ IsLines(task[u].buf)
  BY GoodMeans DEF Inv, TasksOK, TaskOK
<1> QED BY <1>1, <1>2, <1>3 DEF TypeOK, OnceEncrypted, Inv, ScalarsOK, TasksOK, GuardianOK

LEMMA RestOK == \A b : TaskOK(Rest, b)
<1>1. 0 \in 0 .. MaxCommands
  BY EnvFileAssumption
<1> QED BY <1>1, NoLinesGood DEF TaskOK, Rest, Places, LocalOps

LEMMA InitInv == Init => Inv
<1> SUFFICES ASSUME Init PROVE Inv
  OBVIOUS
<1>1. ScalarsOK
  <2>1. environment \in {NoLines, Initially} /\ up \in BOOLEAN /\ locked \in BOOLEAN
    BY Zenon DEF Init
  <2>2. overlapped \in BOOLEAN /\ disturbed \in BOOLEAN
    BY DEF Init
  <2>3. authenticator \in 0 .. MaxCommands /\ commands \in 0 .. MaxCommands
        /\ deaths \in 0 .. MaxRestarts
    BY EnvFileAssumption DEF Init
  <2> QED BY <2>1, <2>2, <2>3 DEF ScalarsOK
<1>2. TasksOK
  BY RestOK DEF Init, TasksOK
<1>3. FileOK
  BY InitiallyGood DEF Init, FileOK
<1>4. CfgOK /\ GuardianOK
  BY NoLinesGood DEF Init, CfgOK, GuardianOK
<1> QED BY <1>1, <1>2, <1>3, <1>4 DEF Inv

LEMMA TaskChange ==
  ASSUME TasksOK, NEW u \in Users, NEW r, TaskOK(r, up), up' = up,
         task' = [task EXCEPT ![u] = r]
  PROVE  TasksOK'
<1>1. DOMAIN task' = Users /\ \A v \in Users : task'[v] = IF v = u THEN r ELSE task[v]
  BY DEF TasksOK
<1> QED BY <1>1 DEF TasksOK

LEMMA ReturnOK ==
  ASSUME TasksOK, NEW u \in Users, NEW ok, Return(u, ok), up' = up
  PROVE  TasksOK'
BY RestOK, TaskChange DEF Return

LEMMA NowOK ==
  ASSUME TasksOK, NEW u \in Users, NEW pc \in Places \ {"decrypt"}, NEW sets, NEW buf,
         Now(u, pc, sets, buf), up' = up,
         Good(sets), Good(buf), Guarded(buf),
         task[u].op \in {"encrypt", "decrypt"} => pc \in {"read", "truncate", "write"},
         task[u].op \notin {"encrypt", "decrypt"} => "guard" \in DOMAIN sets,
         pc = "unlocked" => task[u].op = "unlock",
         "pass" \in DOMAIN sets => pc = "unlocked"
  PROVE  TasksOK'
<1> DEFINE r == [pc |-> pc, op |-> task[u].op, n |-> task[u].n, sets |-> sets,
                 pass |-> task[u].pass, buf |-> buf]
<1>1. TaskOK(task[u], up)
  BY DEF TasksOK
<1>2. TaskOK(r, up)
  BY <1>1 DEF TaskOK
<1>3. task' = [task EXCEPT ![u] = r]
  BY DEF Now
<1> HIDE DEF r
<1> QED BY <1>2, <1>3, TaskChange

\* A task that names credentials goes on to another place of a command that does.
LEMMA GotoOK ==
  ASSUME TasksOK, NEW u \in Users, NEW pc \in Places \ {"decrypt", "unlocked", "idle"},
         Goto(u, pc), up' = up, task[u].pc \notin {"idle", "decrypt", "unlocked"},
         task[u].op \in {"encrypt", "decrypt"} => pc \in {"read", "truncate", "write"}
  PROVE  TasksOK'
<1>1. TaskOK(task[u], up)
  BY DEF TasksOK
<1> QED BY <1>1, NowOK DEF Goto, TaskOK, At

LEMMA AgainOK ==
  ASSUME NEW t, NEW b, TaskOK(t, b), t.op = "import", t.pc # "idle"
  PROVE  \A c : TaskOK(Again(t), c)
BY NoLinesGood DEF TaskOK, Again, Places, HandlerOps, LocalOps

-----------------------------------------------------------------------------
(* Commands                                                                *)

LEMMA BeginInv ==
  ASSUME Inv, NEW u \in Users, NEW op \in HandlerOps \cup LocalOps, NEW pc \in Places,
         NEW sets, NEW p \in Passphrases \cup {"none"}, Begin(u, op, pc, sets, p),
         Good(sets), op = "encrypt" => p \in Passphrases,
         op \in {"encrypt", "decrypt"} => pc = "read",
         pc \in {"decrypt", "unlocked"} => up /\ op = "unlock",
         pc \notin {"idle", "decrypt"} /\ op \notin {"encrypt", "decrypt"}
           => "guard" \in DOMAIN sets,
         "pass" \notin DOMAIN sets
  PROVE  Inv'
<1> DEFINE r == [pc |-> pc, op |-> op, n |-> commands + 1, sets |-> sets, pass |-> p,
                 buf |-> NoLines]
<1>1. commands + 1 \in 0 .. MaxCommands
  BY EnvFileAssumption DEF Inv, ScalarsOK, Begin
<1>2. TaskOK(r, up)
  BY <1>1, NoLinesGood DEF TaskOK
<1>3. task' = [task EXCEPT ![u] = r] /\ up' = up
  BY DEF Begin, daemonVars
<1>4. TasksOK
  BY DEF Inv
<1> HIDE DEF r
<1>5. TasksOK'
  BY <1>2, <1>3, <1>4, TaskChange
<1>6. FileOK' /\ CfgOK' /\ GuardianOK'
  BY DEF Inv, FileOK, CfgOK, GuardianOK, Begin, daemonVars
<1>7. ScalarsOK'
  <2>1. overlapped' \in BOOLEAN
    BY Zenon DEF Begin
  <2>2. /\ environment' = environment /\ up' = up /\ locked' = locked
        /\ authenticator' = authenticator /\ deaths' = deaths /\ disturbed' = disturbed
        /\ commands' = commands + 1
    BY DEF Begin, daemonVars
  <2> QED BY <1>1, <2>1, <2>2 DEF Inv, ScalarsOK
<1> QED BY <1>5, <1>6, <1>7 DEF Inv

LEMMA CommandInv ==
  ASSUME Inv, NEW u \in Users, Command(u)
  PROVE  Inv'
<1>1. ASSUME NEW p \in Passphrases, EncryptEnv(u, p) PROVE Inv'
  BY <1>1, BeginInv, NoLinesGood DEF EncryptEnv, LocalOps, Places
<1>2. ASSUME NEW p \in Passphrases, DecryptEnv(u, p) PROVE Inv'
  BY <1>2, BeginInv, NoLinesGood DEF DecryptEnv, LocalOps, Places
<1>3. ASSUME NEW p \in Passphrases, GuardUnlock(u, p) PROVE Inv'
  BY <1>3, BeginInv, NoLinesGood DEF GuardUnlock, HandlerOps, Places
<1>4. ASSUME commands < MaxCommands PROVE commands + 1 \in 0 .. MaxCommands
  BY <1>4, EnvFileAssumption DEF Inv, ScalarsOK
<1>5. ASSUME NEW keys \in {{"guard"}, {"guard", "token"}}, GuardImport(u, keys) PROVE Inv'
  <2> DEFINE sets == [k \in keys |-> Plain(commands + 1)]
  <2>1. commands < MaxCommands
    BY <1>5 DEF GuardImport, Begin
  <2>2. Good(sets) /\ "guard" \in DOMAIN sets /\ "pass" \notin DOMAIN sets
    BY <1>4, <2>1, PlainGood DEF Keys
  <2>3. CASE up
    <3>1. Begin(u, "import", "configure", sets, "none")
      BY <1>5, <2>3 DEF GuardImport
    <3> HIDE DEF sets
    <3> QED BY <2>2, <3>1, BeginInv DEF HandlerOps, Places
  <2>4. CASE ~up
    <3>1. Begin(u, "local", "read", sets, "none")
      BY <1>5, <2>4 DEF GuardImport
    <3> HIDE DEF sets
    <3> QED BY <2>2, <3>1, BeginInv DEF LocalOps, Places
  <2> QED BY <2>3, <2>4
<1>6. ASSUME NEW op \in {"link", "transfer"}, GuardAsk(u, op) PROVE Inv'
  <2> DEFINE sets == [k \in {"guard"} |-> Plain(commands + 1)]
  <2>1. commands < MaxCommands /\ Begin(u, op, "code", sets, "none")
    BY <1>6 DEF GuardAsk, Begin
  <2>2. Good(sets) /\ "guard" \in DOMAIN sets /\ "pass" \notin DOMAIN sets
    BY <1>4, <2>1, PlainGood DEF Keys
  <2> HIDE DEF sets
  <2> QED BY <2>1, <2>2, BeginInv DEF HandlerOps, Places
<1> QED BY <1>1, <1>2, <1>3, <1>5, <1>6 DEF Command

-----------------------------------------------------------------------------
(* Handlers of the daemon, and the steps on the file                       *)

\* What each step leaves alone.
LEMMA FrameInv ==
  ASSUME Inv, TasksOK',
         UNCHANGED <<environment, up, commands, deaths, overlapped>>,
         locked' \in BOOLEAN, disturbed' \in BOOLEAN, authenticator' \in 0 .. MaxCommands,
         FileOK', CfgOK', GuardianOK'
  PROVE  Inv'
BY DEF Inv, ScalarsOK

LEMMA CfgRewritten ==
  ASSUME CfgOK, NEW sets, Good(sets), "guard" \in DOMAIN sets, cfg' = Rewritten(cfg, sets)
  PROVE  CfgOK'
<1>1. Good(cfg)
  BY DEF CfgOK
<1>2. Good(Rewritten(cfg, sets)) /\ DOMAIN Rewritten(cfg, sets) = DOMAIN cfg \cup DOMAIN sets
  BY <1>1, RewrittenGood
<1>3. Good(cfg') /\ "guard" \in DOMAIN cfg'
  BY <1>2
<1> QED BY <1>3 DEF CfgOK

LEMMA HandlerInv ==
  ASSUME Inv, NEW u \in Users,
         Finalize(u) \/ DecryptConfig(u) \/ Unlocked(u) \/ ConfigureGuardian(u) \/ SetGuardian(u)
  PROVE  Inv'
<1>0. TasksOK /\ TaskOK(task[u], up)
  BY DEF Inv, TasksOK
<1>1. ASSUME Finalize(u) PROVE Inv'
  <2>1. task[u].n \in 0 .. MaxCommands /\ authenticator' \in {task[u].n, authenticator}
    BY <1>0, <1>1 DEF TaskOK, Finalize
  <2>2. authenticator' \in 0 .. MaxCommands
    BY <2>1 DEF Inv, ScalarsOK
  <2>3. UNCHANGED <<file, environment, up, locked, cfg, guardian, commands, deaths, overlapped,
                    disturbed>>
    BY <1>1 DEF Finalize, daemonVars
  <2>4. At(u, "code") /\ (Goto(u, "configure") \/ Return(u, FALSE))
    BY <1>1 DEF Finalize
  <2>5. TasksOK'
    BY <1>0, <2>3, <2>4, GotoOK, ReturnOK DEF Places, TaskOK, At
  <2>6. FileOK' /\ CfgOK' /\ GuardianOK'
    BY <2>3 DEF Inv, FileOK, CfgOK, GuardianOK
  <2> QED BY <2>2, <2>3, <2>5, <2>6, FrameInv DEF Inv, ScalarsOK
<1>2. ASSUME DecryptConfig(u) PROVE Inv'
  <2>1. UNCHANGED <<file, environment, up, locked, cfg, guardian, authenticator, commands, deaths,
                    overlapped, disturbed>>
    BY <1>2 DEF DecryptConfig, daemonVars
  <2>2. Good(cfg) /\ "guard" \in DOMAIN cfg /\ task[u].op = "unlock"
    BY <1>0, <1>2 DEF DecryptConfig, At, TaskOK, Inv, CfgOK
  <2>3. ASSUME Now(u, "unlocked", AllOpened(cfg, task[u].pass), NoLines) PROVE TasksOK'
    BY <1>0, <2>1, <2>2, <2>3, NowOK, OpenedGood, NoLinesGood DEF Places
  <2>4. TasksOK'
    BY <1>0, <1>2, <2>1, <2>3, ReturnOK DEF DecryptConfig
  <2>5. FileOK' /\ CfgOK' /\ GuardianOK'
    BY <2>1 DEF Inv, FileOK, CfgOK, GuardianOK
  <2> QED BY <2>1, <2>4, <2>5, FrameInv DEF Inv, ScalarsOK
<1>3. ASSUME Unlocked(u) PROVE Inv'
  <2> DEFINE sets == [k \in DOMAIN task[u].sets \ {"pass"} |-> task[u].sets[k]]
  <2>1. /\ UNCHANGED <<file, environment, up, guardian, authenticator, commands, deaths,
                       overlapped, disturbed>>
        /\ locked' = FALSE
        /\ cfg' = Rewritten(cfg, task[u].sets)
        /\ Now(u, "configure", sets, NoLines)
    BY <1>3 DEF Unlocked, historyVars
  <2>2. Good(task[u].sets) /\ "guard" \in DOMAIN task[u].sets
        /\ task[u].op \notin {"encrypt", "decrypt"}
    BY <1>0, <1>3 DEF Unlocked, At, TaskOK
  <2>3. Good(sets) /\ "guard" \in DOMAIN sets /\ "pass" \notin DOMAIN sets
    BY <2>2, RestrictedGood
  <2> HIDE DEF sets
  <2>4. TasksOK'
    BY <1>0, <2>1, <2>2, <2>3, NowOK, NoLinesGood DEF Places
  <2>5. FileOK' /\ GuardianOK'
    BY <2>1 DEF Inv, FileOK, GuardianOK
  <2>6. CfgOK'
    BY <2>1, <2>2, CfgRewritten DEF Inv
  <2> QED BY <2>1, <2>4, <2>5, <2>6, FrameInv DEF Inv, ScalarsOK
<1>4. ASSUME ConfigureGuardian(u) PROVE Inv'
  <2>1. /\ UNCHANGED <<file, environment, up, locked, guardian, authenticator, commands, deaths,
                       overlapped, disturbed>>
        /\ cfg' = Rewritten(cfg, task[u].sets)
        /\ At(u, "configure") /\ Goto(u, "read")
    BY <1>4 DEF ConfigureGuardian, historyVars
  <2>2. Good(task[u].sets) /\ "guard" \in DOMAIN task[u].sets
        /\ task[u].op \notin {"encrypt", "decrypt"}
    BY <1>0, <2>1 DEF At, TaskOK
  <2>3. TasksOK'
    BY <1>0, <2>1, GotoOK DEF Places, At
  <2>4. FileOK' /\ GuardianOK'
    BY <2>1 DEF Inv, FileOK, GuardianOK
  <2>5. CfgOK'
    BY <2>1, <2>2, CfgRewritten DEF Inv
  <2> QED BY <2>1, <2>3, <2>4, <2>5, FrameInv DEF Inv, ScalarsOK
<1>5. ASSUME SetGuardian(u) PROVE Inv'
  <2>1. /\ UNCHANGED <<file, environment, up, cfg, authenticator, commands, deaths, overlapped,
                       disturbed>>
        /\ At(u, "guardian")
        /\ guardian' \in {{task[u].sets["guard"]}, guardian}
    BY <1>5 DEF SetGuardian
  <2>2. locked' \in BOOLEAN
    <3>1. locked' = locked \/ locked' = (locked \/ task[u].op = "unlock")
      BY <1>5 DEF SetGuardian
    <3> QED BY <3>1 DEF Inv, ScalarsOK
  <2>3. Good(task[u].sets) /\ "guard" \in DOMAIN task[u].sets
    BY <1>0, <2>1 DEF At, TaskOK
  <2>4. task[u].sets["guard"] \in Value
    BY <2>3, GoodMeans DEF Once
  <2>5. GuardianOK'
    BY <2>1, <2>4 DEF Inv, GuardianOK
  <2>6. ASSUME task[u].op = "import", task' = [task EXCEPT ![u] = Again(@)] PROVE TasksOK'
    <3>1. TaskOK(Again(task[u]), up)
      BY <1>0, <2>1, <2>6, AgainOK DEF At
    <3> QED BY <1>0, <2>1, <2>6, <3>1, TaskChange
  <2>7. TasksOK'
    BY <1>0, <1>5, <2>1, <2>6, ReturnOK DEF SetGuardian
  <2>8. FileOK' /\ CfgOK'
    BY <2>1 DEF Inv, FileOK, CfgOK
  <2> QED BY <2>1, <2>2, <2>5, <2>7, <2>8, FrameInv DEF Inv, ScalarsOK
<1> QED BY <1>1, <1>2, <1>3, <1>4, <1>5

LEMMA EditedGood ==
  ASSUME NEW t, NEW b, TaskOK(t, b), t.pc # "idle", t.pc # "decrypt",
         NEW f, Good(f), Guarded(f)
  PROVE  Good(Edited(t, f)) /\ Guarded(Edited(t, f))
<1>1. CASE t.op = "encrypt"
  <2>1. Edited(t, f) = Encrypted(f, t.pass) /\ t.pass \in Passphrases
    BY <1>1 DEF Edited, TaskOK
  <2> QED BY <2>1, EncryptedGood DEF Guarded
<1>2. CASE t.op = "decrypt"
  <2>1. Edited(t, f) = AllOpened(f, t.pass)
    BY <1>2 DEF Edited
  <2> QED BY <2>1, OpenedGood DEF Guarded
<1>3. CASE t.op \notin {"encrypt", "decrypt"}
  <2>0. t.op # "encrypt" /\ t.op # "decrypt"
    BY <1>3
  <2>1. Edited(t, f) = Rewritten(f, t.sets)
    BY <2>0 DEF Edited
  <2>2. Good(t.sets) /\ "guard" \in DOMAIN t.sets
    BY <1>3 DEF TaskOK
  <2>3. Good(Rewritten(f, t.sets)) /\ DOMAIN Rewritten(f, t.sets) = DOMAIN f \cup DOMAIN t.sets
    BY <2>2, RewrittenGood
  <2> QED BY <2>1, <2>2, <2>3 DEF Guarded
<1> QED BY <1>1, <1>2, <1>3

\* After the file, a command goes on in the daemon or is over.
LEMMA AfterFileOK ==
  ASSUME TasksOK, NEW u \in Users, AfterFile(u), up' = up,
         task[u].pc \notin {"idle", "decrypt", "unlocked"}
  PROVE  TasksOK'
<1>1. CASE task[u].op \in HandlerOps
  BY <1>1, GotoOK DEF AfterFile, HandlerOps, Places
<1>2. CASE task[u].op \notin HandlerOps
  BY <1>2, ReturnOK DEF AfterFile
<1> QED BY <1>1, <1>2

LEMMA FileInv ==
  ASSUME Inv, NEW u \in Users, ReadFile(u) \/ NoFile(u) \/ Truncate(u) \/ WriteFile(u)
  PROVE  Inv'
<1>0. TasksOK /\ TaskOK(task[u], up)
  BY DEF Inv, TasksOK
<1>1. ASSUME ReadFile(u) PROVE Inv'
  <2>1. /\ UNCHANGED <<file, environment, up, locked, cfg, guardian, authenticator, commands,
                       deaths, overlapped>>
        /\ file # Missing /\ At(u, "read")
    BY <1>1 DEF ReadFile, daemonVars
  <2>2. disturbed' \in BOOLEAN
    BY <1>1, Zenon DEF ReadFile
  <2>3. ASSUME Now(u, "truncate", task[u].sets, Edited(task[u], file)) PROVE TasksOK'
    <3>1. Good(Edited(task[u], file)) /\ Guarded(Edited(task[u], file))
      BY <1>0, <2>1, EditedGood DEF Inv, FileOK, At
    <3>2. Good(task[u].sets)
          /\ (task[u].op \notin {"encrypt", "decrypt"} => "guard" \in DOMAIN task[u].sets)
          /\ "pass" \notin DOMAIN task[u].sets
      BY <1>0, <2>1 DEF TaskOK, At
    <3> QED BY <1>0, <2>1, <2>3, <3>1, <3>2, NowOK DEF Places
  <2>4. Return(u, FALSE) \/ Return(u, TRUE)
        \/ Now(u, "truncate", task[u].sets, Edited(task[u], file))
    BY <1>1 DEF ReadFile
  <2>5. TasksOK'
    BY <1>0, <2>1, <2>3, <2>4, ReturnOK
  <2>6. FileOK' /\ CfgOK' /\ GuardianOK'
    BY <2>1 DEF Inv, FileOK, CfgOK, GuardianOK
  <2> QED BY <2>1, <2>2, <2>5, <2>6, FrameInv DEF Inv, ScalarsOK
<1>2. ASSUME NoFile(u) PROVE Inv'
  <2>1. /\ UNCHANGED <<environment, up, locked, cfg, guardian, authenticator, commands,
                       deaths, overlapped, disturbed>>
        /\ At(u, "read")
        /\ file' \in {file, NoLines}
        /\ AfterFile(u) \/ UNCHANGED task \/ Return(u, FALSE)
    BY <1>2 DEF NoFile, daemonVars
  <2>2. TasksOK'
    <3>1. CASE AfterFile(u)
      BY <1>0, <2>1, <3>1, AfterFileOK DEF At
    <3>2. CASE UNCHANGED task
      BY <1>0, <2>1, <3>2 DEF TasksOK
    <3>3. CASE Return(u, FALSE)
      BY <1>0, <2>1, <3>3, ReturnOK
    <3> QED BY <2>1, <3>1, <3>2, <3>3
  <2>3. FileOK'
    BY <2>1, NoLinesGood DEF Inv, FileOK
  <2>4. CfgOK' /\ GuardianOK'
    BY <2>1 DEF Inv, CfgOK, GuardianOK
  <2> QED BY <2>1, <2>2, <2>3, <2>4, FrameInv DEF Inv, ScalarsOK
<1>3. ASSUME Truncate(u) PROVE Inv'
  <2>1. /\ UNCHANGED <<environment, up, locked, cfg, guardian, authenticator, commands,
                       deaths, overlapped>>
        /\ At(u, "truncate")
        /\ file' \in {file, NoLines} /\ disturbed' \in {disturbed, TRUE}
        /\ AfterFile(u) \/ Goto(u, "write") \/ Return(u, FALSE)
    BY <1>3 DEF Truncate, daemonVars
  <2>2. TasksOK'
    <3>1. CASE AfterFile(u)
      BY <1>0, <2>1, <3>1, AfterFileOK DEF At
    <3>2. CASE Goto(u, "write")
      BY <1>0, <2>1, <3>2, GotoOK DEF At, Places
    <3>3. CASE Return(u, FALSE)
      BY <1>0, <2>1, <3>3, ReturnOK
    <3> QED BY <2>1, <3>1, <3>2, <3>3
  <2>3. FileOK'
    BY <2>1, NoLinesGood DEF Inv, FileOK
  <2>4. CfgOK' /\ GuardianOK'
    BY <2>1 DEF Inv, CfgOK, GuardianOK
  <2>5. disturbed' \in BOOLEAN
    BY <2>1 DEF Inv, ScalarsOK
  <2> QED BY <2>1, <2>2, <2>3, <2>4, <2>5, FrameInv DEF Inv, ScalarsOK
<1>4. ASSUME WriteFile(u) PROVE Inv'
  <2>1. /\ UNCHANGED <<environment, up, locked, cfg, guardian, authenticator, commands,
                       deaths, overlapped, disturbed>>
        /\ At(u, "write")
        /\ file' = task[u].buf /\ AfterFile(u)
    BY <1>4 DEF WriteFile, daemonVars
  <2>2. TasksOK'
    BY <1>0, <2>1, AfterFileOK DEF At
  <2>3. FileOK'
    BY <1>0, <2>1 DEF FileOK, TaskOK
  <2>4. CfgOK' /\ GuardianOK'
    BY <2>1 DEF Inv, CfgOK, GuardianOK
  <2> QED BY <2>1, <2>2, <2>3, <2>4, FrameInv DEF Inv, ScalarsOK
<1> QED BY <1>1, <1>2, <1>3, <1>4

-----------------------------------------------------------------------------
(* The processes                                                           *)

LEMMA LoadedGood ==
  ASSUME Inv
  PROVE  Good(Loaded) /\ Guarded(Loaded)
<1>1. Good(environment) /\ Guarded(environment)
  BY NoLinesGood, InitiallyGood DEF Inv, ScalarsOK
<1>2. CASE file = Missing
  BY <1>1, <1>2 DEF Loaded
<1>3. CASE file # Missing
  <2>1. Good(file) /\ Guarded(file)
    BY <1>3 DEF Inv, FileOK
  <2>2. Good(Rewritten(file, environment))
        /\ DOMAIN Rewritten(file, environment) = DOMAIN file \cup DOMAIN environment
    BY <1>1, <2>1, RewrittenGood
  <2> QED BY <1>1, <1>3, <2>1, <2>2 DEF Loaded, Guarded
<1> QED BY <1>2, <1>3

LEMMA StartInv ==
  ASSUME Inv, StartDaemon
  PROVE  Inv'
<1>1. /\ UNCHANGED <<file, environment, authenticator, task, commands, deaths>>
      /\ ~up /\ up' = TRUE /\ cfg' = Loaded
      /\ {"pass", "token"} \cap DOMAIN Loaded # {}
      /\ guardian' \in {{}, {Loaded[k] : k \in {"guard"} \cap DOMAIN Loaded}}
  BY DEF StartDaemon
<1>2. locked' \in BOOLEAN /\ overlapped' \in BOOLEAN /\ disturbed' \in BOOLEAN
  BY Zenon DEF StartDaemon
<1>3. Good(Loaded) /\ "guard" \in DOMAIN Loaded
  BY <1>1, LoadedGood DEF Guarded
<1>4. TasksOK'
  <2>1. ASSUME NEW v \in Users PROVE TaskOK(task[v], TRUE)
    BY DEF Inv, TasksOK, TaskOK
  <2> QED BY <1>1, <2>1 DEF Inv, TasksOK
<1>5. FileOK'
  BY <1>1 DEF Inv, FileOK
<1>6. CfgOK'
  BY <1>1, <1>3 DEF CfgOK
<1>7. GuardianOK'
  <2>1. Loaded["guard"] \in Value
    BY <1>3, GoodMeans DEF Once
  <2>2. guardian' \in {{}, {Loaded["guard"]}}
    BY <1>1, <1>3
  <2> QED BY <2>1, <2>2 DEF GuardianOK
<1>8. ScalarsOK'
  BY <1>1, <1>2 DEF Inv, ScalarsOK
<1> QED BY <1>4, <1>5, <1>6, <1>7, <1>8 DEF Inv

LEMMA StopInv ==
  ASSUME Inv, StopDaemon
  PROVE  Inv'
<1>1. /\ UNCHANGED <<file, environment, authenticator, commands, overlapped>>
      /\ up' = FALSE /\ locked' = FALSE /\ cfg' = NoLines /\ guardian' = {}
      /\ deaths < MaxRestarts /\ deaths' = deaths + 1
      /\ task' = [u \in Users |->
           IF Busy(u) /\ task[u].op = "import"
           THEN Again(task[u])
           ELSE IF Busy(u) /\ task[u].op \in HandlerOps THEN Rest ELSE task[u]]
  BY DEF StopDaemon
<1>2. disturbed' \in BOOLEAN
  BY Zenon DEF StopDaemon
<1>3. TasksOK'
  <2>1. ASSUME NEW v \in Users PROVE TaskOK(task'[v], FALSE)
    <3>1. TaskOK(task[v], up)
      BY DEF Inv, TasksOK
    <3>2. CASE Busy(v) /\ task[v].op = "import"
      BY <1>1, <3>1, <3>2, AgainOK DEF Busy, At
    <3>3. CASE Busy(v) /\ task[v].op \in HandlerOps /\ task[v].op # "import"
      BY <1>1, <3>3, RestOK
    <3>4. CASE ~Busy(v) \/ task[v].op \notin HandlerOps
      <4>1. task'[v] = task[v]
        BY <1>1, <3>4 DEF HandlerOps
      <4> QED BY <3>1, <3>4, <4>1 DEF TaskOK, Busy, At, HandlerOps
    <3> QED BY <3>2, <3>3, <3>4
  <2>2. DOMAIN task' = Users
    BY <1>1
  <2> QED BY <1>1, <2>1, <2>2 DEF TasksOK
<1>4. FileOK'
  BY <1>1 DEF Inv, FileOK
<1>5. CfgOK' /\ GuardianOK'
  BY <1>1, NoLinesGood DEF CfgOK, GuardianOK
<1>6. ScalarsOK'
  <2>1. deaths' \in 0 .. MaxRestarts
    BY <1>1, EnvFileAssumption DEF Inv, ScalarsOK
  <2> QED BY <1>1, <1>2, <2>1 DEF Inv, ScalarsOK
<1> QED BY <1>3, <1>4, <1>5, <1>6 DEF Inv

LEMMA KillInv ==
  ASSUME Inv, NEW u \in Users, KillCommand(u)
  PROVE  Inv'
<1>1. /\ UNCHANGED <<file, environment, up, locked, cfg, guardian, authenticator, commands,
                     overlapped>>
      /\ deaths < MaxRestarts /\ deaths' = deaths + 1
      /\ Return(u, FALSE)
  BY DEF KillCommand, daemonVars
<1>2. disturbed' \in BOOLEAN
  BY Zenon DEF KillCommand
<1>3. TasksOK'
  BY <1>1, ReturnOK DEF Inv
<1>4. FileOK' /\ CfgOK' /\ GuardianOK'
  BY <1>1 DEF Inv, FileOK, CfgOK, GuardianOK
<1>5. deaths' \in 0 .. MaxRestarts
  BY <1>1, EnvFileAssumption DEF Inv, ScalarsOK
<1>6. ScalarsOK'
  BY <1>1, <1>2, <1>5 DEF Inv, ScalarsOK
<1> QED BY <1>3, <1>4, <1>6 DEF Inv

LEMMA NextInv == Inv /\ [Next]_vars => Inv'
<1> SUFFICES ASSUME Inv, [Next]_vars PROVE Inv'
  OBVIOUS
<1>1. ASSUME NEW u \in Users, Command(u) PROVE Inv'
  BY <1>1, CommandInv
<1>2. ASSUME NEW u \in Users, Step(u) PROVE Inv'
  BY <1>2, HandlerInv, FileInv DEF Step
<1>3. ASSUME NEW u \in Users, KillCommand(u) PROVE Inv'
  BY <1>3, KillInv
<1>4. CASE UNCHANGED vars
  <2>1. UNCHANGED <<file, environment, up, locked, cfg, guardian, authenticator, task, commands,
                    deaths, overlapped, disturbed>>
    BY <1>4 DEF vars, daemonVars, historyVars
  <2> QED BY <2>1 DEF Inv, ScalarsOK, TasksOK, FileOK, CfgOK, GuardianOK
<1> QED BY <1>1, <1>2, <1>3, <1>4, StartInv, StopInv DEF Next

THEOREM EnvInvariant == Spec => []Inv
<1> QED BY InitInv, NextInv, PTL DEF Spec

\* Every variable stays in its domain, whoever does what to the file: in particular what
\* is written back always has the secrets, and the guardian module is one at most
\* (configureGuardian, updateEnvFile).
THEOREM EnvTypeCorrect == Spec => []TypeOK
<1>1. Inv => TypeOK
  BY InvTyped
<1> QED BY <1>1, EnvInvariant, PTL

\* For every number of users, commands and passphrases, and whatever is interrupted or
\* fails: no value of the file or of the configuration is encrypted twice
\* (encryptEnvFile, decryptConfigValues).
THEOREM EnvOnceEncrypted == Spec => []OnceEncrypted
<1>1. Inv => OnceEncrypted
  BY InvTyped
<1> QED BY <1>1, EnvInvariant, PTL

-----------------------------------------------------------------------------
(* No line is lost: while nothing disturbs, one command at a time is on    *)
(* the point of rewriting the file, what it will write is complete, and so *)
(* is the file unless that command has truncated it.                       *)

Full(f) == DOMAIN f = Keys /\ f["pass"].plain = 0
Rewriting(u) == At(u, "truncate") \/ At(u, "write")
Kept ==
  /\ \A u \in Users : Rewriting(u) => Full(task[u].buf)
  /\ \A u, v \in Users : Rewriting(u) /\ Rewriting(v) => u = v
  /\ file # Missing
  /\ Full(file) \/ \E u \in Users : At(u, "write")
Calm == ~disturbed /\ environment = NoLines
KeptInv == Calm => Kept

LEMMA InitKept == Init => KeptInv
<1> SUFFICES ASSUME Init PROVE KeptInv
  OBVIOUS
<1>1. CASE file = Initially
  <2>1. Full(file) /\ file # Missing
    BY <1>1, InitiallyGood, GoodMeans, MissingAssumption DEF Full, Keys
  <2>2. \A u \in Users : ~Rewriting(u)
    BY DEF Init, Rewriting, At, Rest
  <2> QED BY <2>1, <2>2 DEF KeptInv, Kept
<1>2. CASE environment = Initially
  <2>1. environment # NoLines
    BY <1>2, InitiallyGood, NoLinesGood DEF Keys
  <2> QED BY <2>1 DEF KeptInv, Calm
<1> QED BY <1>1, <1>2 DEF Init

\* A step that starts no rewriting, ends none halfway and leaves the file alone.
LEMMA KeptFrame ==
  ASSUME KeptInv, Calm' => Calm, file' = file,
         \A v \in Users : Rewriting(v)' => task'[v].pc = task[v].pc /\ task'[v].buf = task[v].buf,
         Calm' => \A v \in Users : At(v, "write") => At(v, "write")'
  PROVE  KeptInv'
<1> SUFFICES ASSUME Calm' PROVE Kept'
  BY DEF KeptInv
<1>1. Kept
  BY DEF KeptInv
<1>2. \A v \in Users : Rewriting(v)' => Rewriting(v) /\ task'[v].buf = task[v].buf
  BY DEF Rewriting, At
<1>3. \A u \in Users : Rewriting(u)' => Full(task[u].buf)'
  BY <1>1, <1>2 DEF Kept, Full
<1>4. \A u, v \in Users : Rewriting(u)' /\ Rewriting(v)' => u = v
  BY <1>1, <1>2 DEF Kept
<1>5. Full(file)' \/ \E u \in Users : At(u, "write")'
  BY <1>1 DEF Kept, Full
<1>6. file' # Missing
  BY <1>1 DEF Kept
<1> QED BY <1>3, <1>4, <1>5, <1>6 DEF Kept

\* A step of one task that is not at the file, to a place where it does not rewrite it.
LEMMA KeptAlone ==
  ASSUME TasksOK, KeptInv, Calm' => Calm, file' = file, NEW u \in Users, NEW r,
         task' = [task EXCEPT ![u] = r], r.pc \notin {"truncate", "write"},
         Calm' => ~At(u, "write")
  PROVE  KeptInv'
<1>1. \A v \in Users : task'[v] = IF v = u THEN r ELSE task[v]
  BY DEF TasksOK
<1>2. \A v \in Users : Rewriting(v)' => task'[v].pc = task[v].pc /\ task'[v].buf = task[v].buf
  BY <1>1 DEF Rewriting, At
<1>3. ASSUME Calm' PROVE \A v \in Users : At(v, "write") => At(v, "write")'
  BY <1>1, <1>3 DEF At
<1> QED BY <1>2, <1>3, KeptFrame

LEMMA EditedFull ==
  ASSUME NEW t, NEW b, TaskOK(t, b), t.pc = "read", NEW f, Good(f), Full(f)
  PROVE  Full(Edited(t, f))
<1>1. DOMAIN f = Keys /\ "pass" \in Keys /\ f["pass"].plain = 0
  BY DEF Full, Keys
<1>2. CASE t.op = "encrypt"
  <2>1. Edited(t, f) = Encrypted(f, t.pass) /\ t.pass \in Passphrases
    BY <1>2 DEF Edited, TaskOK
  <2> QED BY <1>1, <2>1, EncryptedGood DEF Full
<1>3. CASE t.op = "decrypt"
  <2>1. Edited(t, f) = AllOpened(f, t.pass)
    BY <1>3 DEF Edited
  <2> QED BY <1>1, <2>1, OpenedGood DEF Full
<1>4. CASE t.op \notin {"encrypt", "decrypt"}
  <2>1. Edited(t, f) = Rewritten(f, t.sets)
    BY <1>4 DEF Edited
  <2>2. Good(t.sets) /\ "pass" \notin DOMAIN t.sets
    BY DEF TaskOK
  <2>3. DOMAIN t.sets \subseteq Keys
    BY <2>2, GoodMeans
  <2>4. /\ DOMAIN Rewritten(f, t.sets) = DOMAIN f \cup DOMAIN t.sets
        /\ \A k \in DOMAIN f \ DOMAIN t.sets : Rewritten(f, t.sets)[k] = f[k]
    BY <2>2, RewrittenGood
  <2>5. DOMAIN Rewritten(f, t.sets) = Keys /\ Rewritten(f, t.sets)["pass"] = f["pass"]
    BY <1>1, <2>2, <2>3, <2>4
  <2> QED BY <1>1, <2>1, <2>5 DEF Full
<1> QED BY <1>2, <1>3, <1>4

LEMMA KeptReturn ==
  ASSUME TasksOK, KeptInv, Calm' => Calm, file' = file, NEW u \in Users, NEW ok, Return(u, ok),
         Calm' => ~At(u, "write")
  PROVE  KeptInv'
<1>1. Rest.pc \notin {"truncate", "write"}
  BY DEF Rest
<1>2. task' = [task EXCEPT ![u] = Rest]
  BY DEF Return
<1> QED BY <1>1, <1>2, KeptAlone

LEMMA KeptNow ==
  ASSUME TasksOK, KeptInv, Calm' => Calm, file' = file, NEW u \in Users, NEW pc, NEW sets, NEW buf,
         Now(u, pc, sets, buf), pc \notin {"truncate", "write"}, Calm' => ~At(u, "write")
  PROVE  KeptInv'
<1> DEFINE r == [pc |-> pc, op |-> task[u].op, n |-> task[u].n, sets |-> sets,
                 pass |-> task[u].pass, buf |-> buf]
<1>1. r.pc \notin {"truncate", "write"} /\ task' = [task EXCEPT ![u] = r]
  BY DEF Now
<1> HIDE DEF r
<1> QED BY <1>1, KeptAlone

LEMMA KeptCommand ==
  ASSUME TasksOK, KeptInv, NEW u \in Users, Command(u)
  PROVE  KeptInv'
<1>1. PICK op, pc, sets, p :
        Begin(u, op, pc, sets, p) /\ pc \in {"read", "configure", "code", "decrypt"}
  <2>1. CASE \E p \in Passphrases : EncryptEnv(u, p) \/ DecryptEnv(u, p) \/ GuardUnlock(u, p)
    BY <2>1 DEF EncryptEnv, DecryptEnv, GuardUnlock
  <2>2. ASSUME NEW keys, GuardImport(u, keys)
        PROVE  \E op, pc, sets, p :
                 Begin(u, op, pc, sets, p) /\ pc \in {"read", "configure", "code", "decrypt"}
    BY <2>2 DEF GuardImport
  <2>3. CASE \E op \in {"link", "transfer"} : GuardAsk(u, op)
    BY <2>3 DEF GuardAsk
  <2> QED BY <2>1, <2>2, <2>3 DEF Command
<1> DEFINE r == [pc |-> pc, op |-> op, n |-> commands + 1, sets |-> sets, pass |-> p,
                 buf |-> NoLines]
<1>2. r.pc \notin {"truncate", "write"}
  BY <1>1
<1>3. task' = [task EXCEPT ![u] = r] /\ At(u, "idle") /\ file' = file
      /\ disturbed' = disturbed /\ environment' = environment
  BY <1>1 DEF Begin
<1> HIDE DEF r
<1>4. (Calm' => Calm) /\ ~At(u, "write")
  BY <1>3 DEF Calm, At
<1> QED BY <1>2, <1>3, <1>4, KeptAlone

LEMMA KeptHandler ==
  ASSUME TasksOK, KeptInv, NEW u \in Users,
         Finalize(u) \/ DecryptConfig(u) \/ Unlocked(u) \/ ConfigureGuardian(u) \/ SetGuardian(u)
  PROVE  KeptInv'
<1>1. UNCHANGED <<file, environment, disturbed>>
  BY DEF Finalize, DecryptConfig, Unlocked, ConfigureGuardian, SetGuardian, historyVars
<1>2. ~At(u, "write")
  BY DEF Finalize, DecryptConfig, Unlocked, ConfigureGuardian, SetGuardian, At
<1>3. Calm' => Calm
  BY <1>1 DEF Calm
<1>4. \/ \E ok : Return(u, ok)
      \/ \E pc, sets, buf : Now(u, pc, sets, buf) /\ pc \notin {"truncate", "write"}
      \/ task' = [task EXCEPT ![u] = Again(@)]
  <2>1. CASE Finalize(u)
    <3>1. Goto(u, "configure") \/ Return(u, FALSE)
      BY <2>1 DEF Finalize
    <3>2. ASSUME Goto(u, "configure") PROVE Now(u, "configure", task[u].sets, task[u].buf)
      BY <3>2 DEF Goto
    <3>3. "configure" \notin {"truncate", "write"}
      OBVIOUS
    <3> QED BY <3>1, <3>2, <3>3, Zenon
  <2>2. CASE DecryptConfig(u)
    <3>1. Now(u, "unlocked", AllOpened(cfg, task[u].pass), NoLines) \/ Return(u, FALSE)
      BY <2>2 DEF DecryptConfig
    <3>2. "unlocked" \notin {"truncate", "write"}
      OBVIOUS
    <3> QED BY <3>1, <3>2, Zenon
  <2>3. CASE Unlocked(u)
    BY <2>3 DEF Unlocked
  <2>4. CASE ConfigureGuardian(u)
    BY <2>4 DEF ConfigureGuardian, Goto
  <2>5. CASE SetGuardian(u)
    BY <2>5 DEF SetGuardian
  <2> QED BY <2>1, <2>2, <2>3, <2>4, <2>5
<1>5. ASSUME task' = [task EXCEPT ![u] = Again(@)] PROVE KeptInv'
  <2>1. task' = [task EXCEPT ![u] = Again(task[u])]
    BY <1>5
  <2>2. Again(task[u]).pc \notin {"truncate", "write"}
    BY DEF Again
  <2> QED BY <1>1, <1>2, <1>3, <2>1, <2>2, KeptAlone
<1> QED BY <1>1, <1>2, <1>3, <1>4, <1>5, KeptReturn, KeptNow

LEMMA KeptAfterFile ==
  ASSUME TasksOK, KeptInv, Calm' => Calm, file' = file, NEW u \in Users, AfterFile(u),
         Calm' => ~At(u, "write")
  PROVE  KeptInv'
<1>1. CASE task[u].op \in HandlerOps
  BY <1>1, KeptNow DEF AfterFile, Goto
<1>2. CASE task[u].op \notin HandlerOps
  BY <1>2, KeptReturn DEF AfterFile
<1> QED BY <1>1, <1>2

LEMMA KeptRead ==
  ASSUME TasksOK, FileOK, KeptInv, NEW u \in Users, ReadFile(u)
  PROVE  KeptInv'
<1>1. /\ UNCHANGED <<file, environment>> /\ At(u, "read") /\ file # Missing
      /\ disturbed' = (disturbed \/ \E t \in Others(u) : At(t, "truncate") \/ At(t, "write"))
  BY DEF ReadFile
<1>2. (Calm' => Calm) /\ ~At(u, "write")
  BY <1>1 DEF Calm, At
<1>3. ASSUME NEW ok, Return(u, ok) PROVE KeptInv'
  BY <1>1, <1>2, <1>3, KeptReturn
<1>4. ASSUME Now(u, "truncate", task[u].sets, Edited(task[u], file)), Calm'
      PROVE  Kept'
  <2>1. Kept
    BY <1>2, <1>4 DEF KeptInv
  <2>2. \A v \in Users : ~Rewriting(v)
    BY <1>1, <1>4 DEF Calm, Others, Busy, Rewriting, At
  <2>3. Good(file) /\ Full(file)
    BY <1>1, <2>1, <2>2 DEF FileOK, Kept, Rewriting
  <2>4. Full(Edited(task[u], file))
    BY <1>1, <2>3, EditedFull DEF TasksOK, At
  <2>5. \A v \in Users : Rewriting(v)' => v = u
    BY <1>4, <2>2 DEF Rewriting, At, Now, TasksOK
  <2>6. task'[u].buf = Edited(task[u], file)
    BY <1>4 DEF Now, TasksOK
  <2>7. \A v \in Users : Rewriting(v)' => Full(task[v].buf)'
    BY <2>4, <2>5, <2>6 DEF Full
  <2>8. Full(file)' /\ file' # Missing
    BY <1>1, <2>3 DEF Full
  <2> QED BY <2>5, <2>7, <2>8 DEF Kept
<1>5. Return(u, FALSE) \/ Return(u, TRUE)
      \/ Now(u, "truncate", task[u].sets, Edited(task[u], file))
  BY DEF ReadFile
<1> QED BY <1>3, <1>4, <1>5 DEF KeptInv

LEMMA KeptNoFile ==
  ASSUME KeptInv, NEW u \in Users, NoFile(u)
  PROVE  KeptInv'
<1>1. file = Missing /\ environment' = environment /\ disturbed' = disturbed
  BY DEF NoFile
<1>2. ~Calm
  BY <1>1 DEF KeptInv, Kept
<1> QED BY <1>1, <1>2 DEF KeptInv, Calm

LEMMA KeptTruncate ==
  ASSUME TasksOK, KeptInv, NEW u \in Users, Truncate(u)
  PROVE  KeptInv'
<1>1. At(u, "truncate") /\ environment' = environment
  BY DEF Truncate
<1>2. CASE disturbed'
  BY <1>2 DEF KeptInv, Calm
<1>3. CASE file' = NoLines /\ Goto(u, "write") /\ disturbed' = disturbed
  <2> SUFFICES ASSUME Calm PROVE Kept'
    BY <1>1, <1>3 DEF KeptInv, Calm
  <2>1. Kept
    BY DEF KeptInv
  <2>2. \A v \in Users : Rewriting(v) => v = u
    BY <1>1, <2>1 DEF Kept, Rewriting
  <2>3. Full(task[u].buf)
    BY <1>1, <2>1 DEF Kept, Rewriting
  <2>4. \A v \in Users : v # u => task'[v] = task[v]
    BY <1>3 DEF Goto, Now, TasksOK
  <2>5. task'[u].pc = "write" /\ task'[u].buf = task[u].buf
    BY <1>3 DEF Goto, Now, TasksOK
  <2>6. \A v \in Users : Rewriting(v)' => v = u
    BY <2>2, <2>4 DEF Rewriting, At
  <2>7. \A v \in Users : Rewriting(v)' => Full(task[v].buf)'
    BY <2>3, <2>5, <2>6 DEF Full
  <2>8. file' # Missing
    BY <1>3, NoLinesGood, GoodMeans, MissingAssumption
  <2>9. At(u, "write")'
    BY <2>5 DEF At
  <2> QED BY <2>6, <2>7, <2>8, <2>9 DEF Kept
<1> QED BY <1>2, <1>3 DEF Truncate

LEMMA KeptWrite ==
  ASSUME TasksOK, KeptInv, NEW u \in Users, WriteFile(u)
  PROVE  KeptInv'
<1>1. /\ At(u, "write") /\ environment' = environment /\ disturbed' = disturbed
      /\ file' = task[u].buf /\ AfterFile(u)
  BY DEF WriteFile
<1> SUFFICES ASSUME Calm PROVE Kept'
  BY <1>1 DEF KeptInv, Calm
<1>2. Kept
  BY DEF KeptInv
<1>3. Full(file')
  BY <1>1, <1>2 DEF Kept, Rewriting
<1>4. file' # Missing
  BY <1>1, GoodMeans, MissingAssumption DEF TasksOK, TaskOK
<1>5. \A v \in Users : Rewriting(v) => v = u
  BY <1>1, <1>2 DEF Kept, Rewriting
<1>6. \E r : task' = [task EXCEPT ![u] = r] /\ r.pc \in {"idle", "guardian"}
  <2>1. Goto(u, "guardian") \/ Return(u, TRUE)
    BY <1>1 DEF AfterFile
  <2>2. CASE Goto(u, "guardian")
    <3> DEFINE r == [pc |-> "guardian", op |-> task[u].op, n |-> task[u].n,
                     sets |-> task[u].sets, pass |-> task[u].pass, buf |-> task[u].buf]
    <3>1. r.pc = "guardian" /\ task' = [task EXCEPT ![u] = r]
      BY <2>2 DEF Goto, Now
    <3> HIDE DEF r
    <3> QED BY <3>1
  <2>3. CASE Return(u, TRUE)
    <3>1. Rest.pc = "idle" /\ task' = [task EXCEPT ![u] = Rest]
      BY <2>3 DEF Return, Rest
    <3> QED BY <3>1
  <2> QED BY <2>1, <2>2, <2>3
<1>7. PICK r : task' = [task EXCEPT ![u] = r] /\ r.pc \in {"idle", "guardian"}
  BY <1>6
<1>8. \A v \in Users : task'[v] = IF v = u THEN r ELSE task[v]
  BY <1>7 DEF TasksOK
<1>9. \A v \in Users : ~Rewriting(v)'
  BY <1>5, <1>7, <1>8 DEF Rewriting, At
<1> QED BY <1>3, <1>4, <1>9 DEF Kept, Full

LEMMA KeptStop ==
  ASSUME KeptInv, StopDaemon
  PROVE  KeptInv'
<1>1. /\ UNCHANGED <<file, environment>>
      /\ disturbed' = (disturbed \/ \E u \in Users : InDaemon(u) /\ At(u, "write"))
      /\ task' = [u \in Users |->
           IF Busy(u) /\ task[u].op = "import"
           THEN Again(task[u])
           ELSE IF Busy(u) /\ task[u].op \in HandlerOps THEN Rest ELSE task[u]]
  BY DEF StopDaemon
<1>2. Calm' => Calm
  BY <1>1 DEF Calm
<1>3. Rest.pc = "idle" /\ \A t : Again(t).pc = "read"
  BY DEF Rest, Again
<1>4. \A v \in Users : Rewriting(v)' => task'[v].pc = task[v].pc /\ task'[v].buf = task[v].buf
  BY <1>1, <1>3 DEF Rewriting, At
<1>5. ASSUME Calm' PROVE \A v \in Users : At(v, "write") => At(v, "write")'
  <2>1. ASSUME NEW v \in Users, At(v, "write") PROVE task'[v] = task[v]
    <3>1. task[v].op \notin HandlerOps
      BY <1>1, <1>5, <2>1 DEF Calm, InDaemon, At
    <3> QED BY <1>1, <3>1 DEF HandlerOps
  <2> QED BY <2>1 DEF At
<1> QED BY <1>1, <1>2, <1>4, <1>5, KeptFrame

LEMMA KeptNext == Inv /\ KeptInv /\ [Next]_vars => KeptInv'
<1> SUFFICES ASSUME Inv, KeptInv, [Next]_vars PROVE KeptInv'
  OBVIOUS
<1>0. TasksOK /\ FileOK
  BY DEF Inv
<1>1. ASSUME NEW u \in Users, Command(u) PROVE KeptInv'
  BY <1>0, <1>1, KeptCommand
<1>2. ASSUME NEW u \in Users, Step(u) PROVE KeptInv'
  BY <1>0, <1>2, KeptHandler, KeptRead, KeptNoFile, KeptTruncate, KeptWrite DEF Step
<1>3. ASSUME NEW u \in Users, KillCommand(u) PROVE KeptInv'
  <2>1. /\ UNCHANGED <<file, environment>> /\ Return(u, FALSE)
        /\ disturbed' = (disturbed \/ At(u, "write"))
    BY <1>3 DEF KillCommand
  <2>2. (Calm' => Calm) /\ (Calm' => ~At(u, "write"))
    BY <2>1 DEF Calm
  <2> QED BY <1>0, <2>1, <2>2, KeptReturn
<1>4. CASE StartDaemon
  <2>1. UNCHANGED <<file, environment, task>>
        /\ disturbed' = (disturbed \/ \E u \in Users : At(u, "truncate") \/ At(u, "write"))
    BY <1>4 DEF StartDaemon
  <2>2. Calm' => Calm
    BY <2>1 DEF Calm
  <2>3. \A v \in Users : (Rewriting(v)' => task'[v].pc = task[v].pc /\ task'[v].buf = task[v].buf)
                         /\ (At(v, "write") => At(v, "write")')
    BY <2>1 DEF At
  <2> QED BY <2>1, <2>2, <2>3, KeptFrame
<1>5. CASE UNCHANGED vars
  <2>1. UNCHANGED <<file, environment, task, disturbed>>
    BY <1>5 DEF vars, historyVars
  <2>2. \A v \in Users : (Rewriting(v)' => task'[v].pc = task[v].pc /\ task'[v].buf = task[v].buf)
                         /\ (At(v, "write") => At(v, "write")')
    BY <2>1 DEF At
  <2> QED BY <2>1, <2>2, KeptFrame DEF Calm
<1> QED BY <1>1, <1>2, <1>3, <1>4, <1>5, KeptStop DEF Next

\* For every number of users and commands: as long as the commands do not meet on the file
\* and no write is cut short, none of them loses a line of it (updateEnvFile,
\* updateLocalEnvFile, encryptEnvFile, decryptEnvFile).
THEOREM EnvLinesKept == Spec => []LinesKept
<1>1. KeptInv => LinesKept
  BY DEF KeptInv, Kept, Calm, Full, LinesKept
<1> QED BY <1>1, InitKept, InitInv, NextInv, KeptNext, PTL DEF Spec

-----------------------------------------------------------------------------
(* Order.  While nothing disturbs, one command at a time is on the point   *)
(* of rewriting the file; while nothing overlaps, one at a time sets       *)
(* credentials.                                                            *)

OneRewrites ==
  /\ \A u, v \in Users : Rewriting(u) /\ Rewriting(v) => u = v
  /\ \A u \in Users : Rewriting(u) => file # Missing
RewritesInv == ~disturbed => OneRewrites

Setting(u) == Busy(u) /\ Sets(task[u].op)
OneSets == \A u, v \in Users : Setting(u) /\ Setting(v) => u = v
SetsInv == ~overlapped => OneSets

Orderly == ~disturbed /\ ~overlapped

\* Only the task of u changes.
Alone(u) == \A v \in Users \ {u} : task'[v] = task[v]

LEMMA ReturnMeans ==
  ASSUME TasksOK, NEW u \in Users, NEW ok, Return(u, ok)
  PROVE  /\ Alone(u) /\ task'[u].pc = "idle"
         /\ last' = IF Sets(task[u].op) THEN [op |-> task[u].op, n |-> task[u].n, ok |-> ok]
                    ELSE last
<1>1. Rest.pc = "idle"
  BY DEF Rest
<1> QED BY <1>1 DEF Return, Alone, TasksOK

LEMMA NowMeans ==
  ASSUME TasksOK, NEW u \in Users, NEW pc, NEW sets, NEW buf, Now(u, pc, sets, buf)
  PROVE  /\ Alone(u) /\ task'[u].pc = pc /\ task'[u].op = task[u].op /\ task'[u].n = task[u].n
         /\ task'[u].sets = sets /\ task'[u].buf = buf
BY DEF Now, Alone, TasksOK

LEMMA GotoMeans ==
  ASSUME TasksOK, NEW u \in Users, NEW pc, Goto(u, pc)
  PROVE  /\ Alone(u) /\ task'[u].pc = pc /\ task'[u].op = task[u].op /\ task'[u].n = task[u].n
         /\ task'[u].sets = task[u].sets /\ task'[u].buf = task[u].buf
BY NowMeans DEF Goto

LEMMA AgainMeans ==
  ASSUME TasksOK, NEW u \in Users, task' = [task EXCEPT ![u] = Again(@)]
  PROVE  /\ Alone(u) /\ task'[u].pc = "read" /\ task'[u].op = "local"
         /\ task'[u].sets = task[u].sets
<1>1. task' = [task EXCEPT ![u] = Again(task[u])]
  OBVIOUS
<1> QED BY <1>1 DEF Again, Alone, TasksOK

LEMMA AfterFileMeans ==
  ASSUME TasksOK, NEW u \in Users, AfterFile(u)
  PROVE  /\ Alone(u)
         /\ \/ /\ task[u].op \in HandlerOps /\ last' = last
               /\ task'[u].pc = "guardian" /\ task'[u].op = task[u].op /\ task'[u].n = task[u].n
               /\ task'[u].sets = task[u].sets
            \/ task[u].op \notin HandlerOps /\ Return(u, TRUE) /\ task'[u].pc = "idle"
<1>1. CASE task[u].op \in HandlerOps
  BY <1>1, GotoMeans DEF AfterFile
<1>2. CASE task[u].op \notin HandlerOps
  BY <1>2, ReturnMeans DEF AfterFile
<1> QED BY <1>1, <1>2

\* What a command begins with.
LEMMA CommandMeans ==
  ASSUME TasksOK, NEW u \in Users, Command(u)
  PROVE  /\ At(u, "idle") /\ Alone(u)
         /\ UNCHANGED <<file, environment, daemonVars, authenticator, last, disturbed>>
         /\ overlapped' = (overlapped \/ (Sets(task'[u].op)
                                          /\ \E t \in Others(u) : Sets(task[t].op)))
         /\ \/ task'[u].pc = "read" /\ ~Sets(task'[u].op)
            \/ task'[u].pc = "read" /\ task'[u].op = "local" /\ ~up
            \/ task'[u].pc = "configure" /\ task'[u].op = "import"
            \/ task'[u].pc = "decrypt" /\ task'[u].op = "unlock"
            \/ /\ task'[u].pc = "code" /\ task'[u].op \in {"link", "transfer"}
               /\ task'[u].sets = [k \in {"guard"} |-> Plain(task'[u].n)]
<1>1. ASSUME NEW op, NEW pc, NEW sets, NEW p, Begin(u, op, pc, sets, p)
      PROVE  /\ At(u, "idle") /\ Alone(u)
             /\ UNCHANGED <<file, environment, daemonVars, authenticator, last, disturbed>>
             /\ overlapped' = (overlapped \/ (Sets(op) /\ \E t \in Others(u) : Sets(task[t].op)))
             /\ task'[u].pc = pc /\ task'[u].op = op /\ task'[u].sets = sets
             /\ task'[u].n = commands + 1
  BY <1>1 DEF Begin, Alone, TasksOK
<1>2. \A op \in {"encrypt", "decrypt"} : ~Sets(op)
  BY DEF Sets, HandlerOps
<1>3. ASSUME NEW p, EncryptEnv(u, p) \/ DecryptEnv(u, p)
      PROVE  \E op \in {"encrypt", "decrypt"} : Begin(u, op, "read", NoLines, p)
  BY <1>3 DEF EncryptEnv, DecryptEnv
<1>4. ASSUME NEW p, GuardUnlock(u, p) PROVE Begin(u, "unlock", "decrypt", NoLines, p)
  BY <1>4 DEF GuardUnlock
<1>5. ASSUME NEW keys, GuardImport(u, keys)
      PROVE  LET sets == [k \in keys |-> Plain(commands + 1)]
             IN Begin(u, "import", "configure", sets, "none")
                \/ (~up /\ Begin(u, "local", "read", sets, "none"))
  BY <1>5 DEF GuardImport
<1>6. ASSUME NEW op \in {"link", "transfer"}, GuardAsk(u, op)
      PROVE  Begin(u, op, "code", [k \in {"guard"} |-> Plain(commands + 1)], "none")
  BY <1>6 DEF GuardAsk
<1>7. CASE \E p \in Passphrases : EncryptEnv(u, p) \/ DecryptEnv(u, p)
  BY <1>1, <1>2, <1>3, <1>7
<1>8. CASE \E p \in Passphrases : GuardUnlock(u, p)
  BY <1>1, <1>4, <1>8
<1>9. CASE \E keys \in {{"guard"}, {"guard", "token"}} : GuardImport(u, keys)
  BY <1>1, <1>5, <1>9
<1>10. CASE \E op \in {"link", "transfer"} : GuardAsk(u, op)
  BY <1>1, <1>6, <1>10
<1> QED BY <1>7, <1>8, <1>9, <1>10 DEF Command

\* What StopDaemon makes of a task.
LEMMA StopMeans ==
  ASSUME TasksOK, StopDaemon, NEW v \in Users
  PROVE  \/ Busy(v) /\ task[v].op = "import" /\ task'[v] = Again(task[v])
         \/ Busy(v) /\ task[v].op \in HandlerOps \ {"import"} /\ task'[v].pc = "idle"
         \/ ~(Busy(v) /\ task[v].op \in HandlerOps) /\ task'[v] = task[v]
<1>1. task' = [u \in Users |->
         IF Busy(u) /\ task[u].op = "import"
         THEN Again(task[u])
         ELSE IF Busy(u) /\ task[u].op \in HandlerOps THEN Rest ELSE task[u]]
  BY DEF StopDaemon
<1>2. Rest.pc = "idle"
  BY DEF Rest
<1>3. "import" \in HandlerOps
  BY DEF HandlerOps
<1> QED BY <1>1, <1>2, <1>3

LEMMA RewritesFrame ==
  ASSUME RewritesInv, disturbed => disturbed', file # Missing => file' # Missing,
         \A u \in Users : Rewriting(u)' => Rewriting(u)
  PROVE  RewritesInv'
BY DEF RewritesInv, OneRewrites

LEMMA RewritesAlone ==
  ASSUME RewritesInv, disturbed => disturbed', file' = file,
         NEW u \in Users, Alone(u), task'[u].pc \notin {"truncate", "write"}
  PROVE  RewritesInv'
<1>1. \A v \in Users : Rewriting(v)' => Rewriting(v)
  BY DEF Rewriting, At, Alone
<1> QED BY <1>1, RewritesFrame

LEMMA RewritesFile ==
  ASSUME TasksOK, RewritesInv, NEW u \in Users,
         ReadFile(u) \/ NoFile(u) \/ Truncate(u) \/ WriteFile(u)
  PROVE  RewritesInv'
<1>1. CASE ReadFile(u)
  <2>1. /\ file' = file /\ file # Missing /\ At(u, "read")
        /\ disturbed' = (disturbed \/ \E t \in Others(u) : At(t, "truncate") \/ At(t, "write"))
        /\ \/ Return(u, FALSE) \/ Return(u, TRUE)
           \/ Now(u, "truncate", task[u].sets, Edited(task[u], file))
    BY <1>1 DEF ReadFile
  <2>2. Alone(u)
    BY <2>1, ReturnMeans, NowMeans
  <2>3. ~disturbed' => \A v \in Users : ~Rewriting(v)
    BY <2>1 DEF Others, Busy, Rewriting, At
  <2>4. ~disturbed' => \A v \in Users : Rewriting(v)' => v = u
    BY <2>2, <2>3 DEF Rewriting, At, Alone
  <2> QED BY <2>1, <2>4 DEF RewritesInv, OneRewrites
<1>2. CASE NoFile(u)
  <2>1. file = Missing /\ disturbed' = disturbed
        /\ (AfterFile(u) \/ task' = task \/ Return(u, FALSE))
    BY <1>2 DEF NoFile
  <2>2. \A v \in Users : Rewriting(v)' => Rewriting(v)
    BY <2>1, AfterFileMeans, ReturnMeans DEF Rewriting, At, Alone
  <2> QED BY <2>1, <2>2, RewritesFrame
<1>3. CASE Truncate(u)
  <2>1. At(u, "truncate") /\ (disturbed' \/ (Goto(u, "write") /\ disturbed' = disturbed
                                             /\ file' = NoLines))
    BY <1>3 DEF Truncate
  <2>2. CASE disturbed'
    BY <2>2 DEF RewritesInv
  <2>3. CASE Goto(u, "write") /\ disturbed' = disturbed /\ file' = NoLines
    <3>1. \A v \in Users : Rewriting(v)' => Rewriting(v)
      BY <2>1, <2>3, GotoMeans DEF Rewriting, At, Alone
    <3>2. file' # Missing
      BY <2>3, NoLinesGood, GoodMeans, MissingAssumption
    <3> QED BY <2>3, <3>1, <3>2, RewritesFrame
  <2> QED BY <2>1, <2>2, <2>3
<1>4. CASE WriteFile(u)
  <2>1. file' = task[u].buf /\ disturbed' = disturbed /\ AfterFile(u)
    BY <1>4 DEF WriteFile
  <2>2. file' # Missing
    BY <2>1, GoodMeans, MissingAssumption DEF TasksOK, TaskOK
  <2>3. \A v \in Users : Rewriting(v)' => Rewriting(v)
    BY <2>1, AfterFileMeans DEF Rewriting, At, Alone
  <2> QED BY <2>1, <2>2, <2>3, RewritesFrame
<1> QED BY <1>1, <1>2, <1>3, <1>4

\* A handler's step and what it does to its task.
LEMMA HandlerMeans ==
  ASSUME TasksOK, NEW u \in Users,
         Finalize(u) \/ DecryptConfig(u) \/ Unlocked(u) \/ ConfigureGuardian(u) \/ SetGuardian(u)
  PROVE  /\ UNCHANGED <<file, environment, up, disturbed, overlapped>>
         /\ Setting(u) /\ task[u].pc \notin {"read", "truncate", "write"}
         /\ Alone(u) /\ task'[u].pc \notin {"truncate", "write"}
<1>0. /\ UNCHANGED <<file, environment, up, disturbed, overlapped>>
      /\ task[u].pc \in {"code", "decrypt", "unlocked", "configure", "guardian"}
  BY DEF Finalize, DecryptConfig, Unlocked, ConfigureGuardian, SetGuardian, At, daemonVars,
         historyVars
<1>1. \/ \E ok : Return(u, ok)
      \/ \E pc, sets, buf : Now(u, pc, sets, buf) /\ pc \notin {"truncate", "write"}
      \/ task' = [task EXCEPT ![u] = Again(@)]
  <2>1. CASE Finalize(u)
    <3>1. (\E ok : Return(u, ok)) \/ Goto(u, "configure")
      BY <2>1 DEF Finalize
    <3>2. "configure" \notin {"truncate", "write"}
      OBVIOUS
    <3>3. Goto(u, "configure") => Now(u, "configure", task[u].sets, task[u].buf)
      BY DEF Goto
    <3> QED BY <3>1, <3>2, <3>3, Zenon
  <2>2. CASE DecryptConfig(u)
    <3>1. Now(u, "unlocked", AllOpened(cfg, task[u].pass), NoLines) \/ Return(u, FALSE)
      BY <2>2 DEF DecryptConfig
    <3>2. "unlocked" \notin {"truncate", "write"}
      OBVIOUS
    <3> QED BY <3>1, <3>2, Zenon
  <2>3. CASE Unlocked(u)
    BY <2>3 DEF Unlocked
  <2>4. CASE ConfigureGuardian(u)
    BY <2>4 DEF ConfigureGuardian, Goto
  <2>5. CASE SetGuardian(u)
    BY <2>5 DEF SetGuardian
  <2> QED BY <2>1, <2>2, <2>3, <2>4, <2>5
<1>2. Setting(u)
  <2>1. TaskOK(task[u], up)
    BY DEF TasksOK
  <2> QED BY <1>0, <2>1 DEF TaskOK, Setting, Busy, At, Sets, HandlerOps, LocalOps
<1> QED BY <1>0, <1>1, <1>2, ReturnMeans, NowMeans, AgainMeans

LEMMA RewritesNext == Inv /\ RewritesInv /\ [Next]_vars => RewritesInv'
<1> SUFFICES ASSUME Inv, RewritesInv, [Next]_vars PROVE RewritesInv'
  OBVIOUS
<1>0. TasksOK
  BY DEF Inv
<1>1. ASSUME NEW u \in Users, Command(u) PROVE RewritesInv'
  <2>1. /\ Alone(u) /\ UNCHANGED <<file, disturbed>>
        /\ task'[u].pc \notin {"truncate", "write"}
    BY <1>0, <1>1, CommandMeans
  <2> QED BY <2>1, RewritesAlone
<1>2. ASSUME NEW u \in Users, Step(u) PROVE RewritesInv'
  <2>1. CASE ReadFile(u) \/ NoFile(u) \/ Truncate(u) \/ WriteFile(u)
    BY <1>0, <2>1, RewritesFile
  <2>2. CASE Finalize(u) \/ DecryptConfig(u) \/ Unlocked(u) \/ ConfigureGuardian(u)
             \/ SetGuardian(u)
    <3>1. /\ Alone(u) /\ UNCHANGED <<file, disturbed>>
          /\ task'[u].pc \notin {"truncate", "write"}
      BY <1>0, <2>2, HandlerMeans
    <3> QED BY <3>1, RewritesAlone
  <2> QED BY <1>2, <2>1, <2>2 DEF Step
<1>3. ASSUME NEW u \in Users, KillCommand(u) PROVE RewritesInv'
  <2>1. file' = file /\ (disturbed => disturbed') /\ Return(u, FALSE)
    BY <1>3 DEF KillCommand
  <2>2. Alone(u) /\ task'[u].pc \notin {"truncate", "write"}
    BY <1>0, <2>1, ReturnMeans
  <2> QED BY <2>1, <2>2, RewritesAlone
<1>4. CASE StartDaemon
  <2>1. UNCHANGED <<file, task>> /\ (disturbed => disturbed')
    BY <1>4 DEF StartDaemon
  <2> QED BY <2>1, RewritesFrame DEF Rewriting, At
<1>5. CASE StopDaemon
  <2>1. file' = file /\ (disturbed => disturbed')
    BY <1>5 DEF StopDaemon
  <2>2. \A t : Again(t).pc = "read"
    BY DEF Again
  <2>3. \A v \in Users : Rewriting(v)' => Rewriting(v)
    BY <1>0, <1>5, <2>2, StopMeans DEF Rewriting, At
  <2> QED BY <2>1, <2>3, RewritesFrame
<1>6. CASE UNCHANGED vars
  <2>1. UNCHANGED <<file, task, disturbed>>
    BY <1>6 DEF vars, historyVars
  <2> QED BY <2>1, RewritesFrame DEF Rewriting, At
<1> QED BY <1>1, <1>2, <1>3, <1>4, <1>5, <1>6 DEF Next

LEMMA SetsFrame ==
  ASSUME SetsInv, overlapped => overlapped', \A u \in Users : Setting(u)' => Setting(u)
  PROVE  SetsInv'
BY DEF SetsInv, OneSets

LEMMA FileSets ==
  ASSUME TasksOK, NEW u \in Users,
         ReadFile(u) \/ NoFile(u) \/ Truncate(u) \/ WriteFile(u)
  PROVE  /\ overlapped' = overlapped /\ Alone(u)
         /\ Busy(u) /\ (task'[u].pc = "idle" \/ task'[u].op = task[u].op)
<1>1. overlapped' = overlapped /\ Busy(u)
  BY DEF ReadFile, NoFile, Truncate, WriteFile, Busy, At
<1>2. \/ \E ok : Return(u, ok)
      \/ \E pc, sets, buf : Now(u, pc, sets, buf)
      \/ AfterFile(u)
      \/ task' = task
  BY DEF ReadFile, NoFile, Truncate, WriteFile, Goto
<1>3. task' = task => Alone(u)
  BY DEF Alone
<1> QED BY <1>1, <1>2, <1>3, ReturnMeans, NowMeans, AfterFileMeans

LEMMA SetsNext == Inv /\ SetsInv /\ [Next]_vars => SetsInv'
<1> SUFFICES ASSUME Inv, SetsInv, [Next]_vars PROVE SetsInv'
  OBVIOUS
<1>0. TasksOK
  BY DEF Inv
<1>1. ASSUME NEW u \in Users, Command(u) PROVE SetsInv'
  <2>1. /\ At(u, "idle") /\ Alone(u)
        /\ overlapped' = (overlapped \/ (Sets(task'[u].op)
                                         /\ \E t \in Others(u) : Sets(task[t].op)))
    BY <1>0, <1>1, CommandMeans
  <2>2. \A v \in Users \ {u} : Setting(v)' = Setting(v)
    BY <2>1 DEF Setting, Busy, At, Alone
  <2>3. \A v \in Users \ {u} : Setting(v) => v \in Others(u) /\ Sets(task[v].op)
    BY DEF Setting, Others
  <2>4. ~overlapped' /\ Setting(u)' => \A v \in Users \ {u} : ~Setting(v)
    BY <2>1, <2>3 DEF Setting
  <2>5. ~Setting(u)
    BY <2>1 DEF Setting, Busy
  <2> QED BY <2>1, <2>2, <2>4, <2>5 DEF SetsInv, OneSets
<1>2. ASSUME NEW u \in Users, Step(u) PROVE SetsInv'
  <2>1. CASE ReadFile(u) \/ NoFile(u) \/ Truncate(u) \/ WriteFile(u)
    <3>1. /\ overlapped' = overlapped /\ Alone(u) /\ Busy(u)
          /\ task'[u].pc = "idle" \/ task'[u].op = task[u].op
      BY <1>0, <2>1, FileSets
    <3> QED BY <3>1, SetsFrame DEF Setting, Busy, At, Alone
  <2>2. CASE Finalize(u) \/ DecryptConfig(u) \/ Unlocked(u) \/ ConfigureGuardian(u)
             \/ SetGuardian(u)
    <3>1. overlapped' = overlapped /\ Alone(u) /\ Setting(u)
      BY <1>0, <2>2, HandlerMeans
    <3> QED BY <3>1, SetsFrame DEF Setting, Busy, At, Alone
  <2> QED BY <1>2, <2>1, <2>2 DEF Step
<1>3. ASSUME NEW u \in Users, KillCommand(u) PROVE SetsInv'
  <2>1. overlapped' = overlapped /\ Return(u, FALSE)
    BY <1>3 DEF KillCommand
  <2>2. Alone(u) /\ task'[u].pc = "idle"
    BY <1>0, <2>1, ReturnMeans
  <2> QED BY <2>1, <2>2, SetsFrame DEF Setting, Busy, At, Alone
<1>4. CASE StartDaemon
  <2>1. task' = task /\ (overlapped => overlapped')
    BY <1>4 DEF StartDaemon
  <2> QED BY <2>1, SetsFrame DEF Setting, Busy, At
<1>5. CASE StopDaemon
  <2>1. overlapped' = overlapped
    BY <1>5 DEF StopDaemon
  <2>2. \A v \in Users : Setting(v)' => Setting(v)
    <3>1. Sets("import")
      BY DEF Sets, HandlerOps
    <3> QED BY <1>0, <1>5, <3>1, StopMeans DEF Setting, Busy, At
  <2> QED BY <2>1, <2>2, SetsFrame
<1>6. CASE UNCHANGED vars
  <2>1. task' = task /\ overlapped' = overlapped
    BY <1>6 DEF vars, historyVars
  <2> QED BY <2>1, SetsFrame DEF Setting, Busy, At
<1> QED BY <1>1, <1>2, <1>3, <1>4, <1>5, <1>6 DEF Next

-----------------------------------------------------------------------------
(* The authenticator's secrets are kept: what a link or a transfer brings  *)
(* is in force at Steam and, from its write on, in the file or on its way  *)
(* into it, until another command sets credentials.                        *)

Has(f, n) == "guard" \in DOMAIN f /\ f["guard"].plain = n
Stored(f, t, n) ==
  /\ f = Missing \/ Has(f, n) \/ \E u \in Users : t[u].pc = "write"
  /\ \A u \in Users : t[u].pc \in {"truncate", "write"} => Has(t[u].buf, n)

Late(u) == Setting(u) /\ ~At(u, "code")
Linking(u) == Busy(u) /\ task[u].op \in {"link", "transfer"}
LinkOK(u) ==
  Linking(u) =>
    /\ Has(task[u].sets, task[u].n)
    /\ At(u, "code") \/ authenticator = task[u].n
    /\ Rewriting(u) => Has(task[u].buf, task[u].n)
    /\ At(u, "guardian") => Stored(file, task, task[u].n)
Reported == last.ok /\ last.op \in {"link", "transfer"}
Settled ==
  (\A u \in Users : ~Late(u)) /\ Reported
    => authenticator = last.n /\ Stored(file, task, last.n)
LinkInv == Orderly => Settled /\ \A u \in Users : LinkOK(u)

\* The secrets that are stored stay stored.
StaysStored == \A n : Stored(file, task, n) => Stored(file', task', n)

LEMMA InitLink == Init => LinkInv /\ RewritesInv /\ SetsInv
<1> SUFFICES ASSUME Init PROVE LinkInv /\ RewritesInv /\ SetsInv
  OBVIOUS
<1>1. \A u \in Users : task[u].pc = "idle"
  BY DEF Init, Rest
<1>2. ~Reported
  BY DEF Init, Reported
<1> QED BY <1>1, <1>2 DEF LinkInv, Settled, LinkOK, Linking, Busy, At, RewritesInv, OneRewrites,
             Rewriting, SetsInv, OneSets, Setting

LEMMA StoredAlone ==
  ASSUME file' = file, NEW u \in Users, Alone(u), task[u].pc # "write",
         task'[u].pc \notin {"truncate", "write"}
  PROVE  StaysStored
<1>1. \A v \in Users : task'[v].pc \in {"truncate", "write"} => task'[v] = task[v]
  BY DEF Alone
<1>2. \A v \in Users : task[v].pc = "write" => task'[v].pc = "write"
  BY DEF Alone
<1> QED BY <1>1, <1>2 DEF StaysStored, Stored

\* A step of a task that sets no credentials.
LEMMA LinkOther ==
  ASSUME LinkInv, Orderly, NEW u \in Users, Alone(u), ~Setting(u), ~Setting(u)',
         authenticator' = authenticator, last' = last, StaysStored
  PROVE  LinkInv'
<1>1. Settled /\ \A v \in Users : LinkOK(v)
  BY DEF LinkInv
<1>2. \A v \in Users \ {u} : Late(v)' = Late(v)
  BY DEF Late, Setting, Busy, At, Alone
<1>3. ~Late(u) /\ ~Late(u)'
  BY DEF Late
<1>4. Settled'
  BY <1>1, <1>2, <1>3 DEF Settled, Reported, StaysStored
<1>5. ASSUME NEW v \in Users \ {u} PROVE LinkOK(v)'
  <2>1. LinkOK(v) /\ task'[v] = task[v]
    BY <1>1 DEF Alone
  <2> QED BY <2>1 DEF LinkOK, Linking, Busy, At, Rewriting, StaysStored
<1>6. LinkOK(u)'
  BY DEF LinkOK, Linking, Setting, Sets, HandlerOps
<1> QED BY <1>4, <1>5, <1>6 DEF LinkInv

\* A step of the task that sets credentials.
LEMMA LinkSetter ==
  ASSUME OneSets, NEW u \in Users, Alone(u), Setting(u), LinkOK(u)',
         Late(u)' \/ (Reported' => authenticator' = last'.n /\ Stored(file', task', last'.n))
  PROVE  LinkInv'
<1>1. \A v \in Users \ {u} : ~Setting(v)
  BY DEF OneSets
<1>2. \A v \in Users \ {u} : ~Setting(v)'
  BY <1>1 DEF Setting, Busy, At, Alone
<1>3. \A v \in Users \ {u} : LinkOK(v)'
  BY <1>2 DEF LinkOK, Linking, Setting, Sets, HandlerOps
<1>4. Settled'
  BY DEF Settled
<1> QED BY <1>3, <1>4 DEF LinkInv

LEMMA LinkCommand ==
  ASSUME TasksOK, LinkInv, Orderly, OneSets', Orderly', NEW u \in Users, Command(u)
  PROVE  LinkInv'
<1>1. /\ At(u, "idle") /\ Alone(u)
      /\ UNCHANGED <<file, environment, daemonVars, authenticator, last, disturbed>>
      /\ \/ task'[u].pc = "read" /\ ~Sets(task'[u].op)
         \/ task'[u].pc = "read" /\ task'[u].op = "local" /\ ~up
         \/ task'[u].pc = "configure" /\ task'[u].op = "import"
         \/ task'[u].pc = "decrypt" /\ task'[u].op = "unlock"
         \/ /\ task'[u].pc = "code" /\ task'[u].op \in {"link", "transfer"}
            /\ task'[u].sets = [k \in {"guard"} |-> Plain(task'[u].n)]
  BY CommandMeans
<1>2. StaysStored
  <2>1. task[u].pc # "write" /\ task'[u].pc \notin {"truncate", "write"}
    BY <1>1 DEF At
  <2> QED BY <1>1, <2>1, StoredAlone
<1>3. ~Setting(u)
  BY <1>1 DEF Setting, Busy
<1>4. CASE ~Setting(u)'
  BY <1>1, <1>2, <1>3, <1>4, LinkOther
<1>5. CASE Setting(u)'
  <2>1. \A v \in Users \ {u} : ~Setting(v)'
    BY <1>5 DEF OneSets
  <2>2. \A v \in Users : ~Setting(v)
    BY <1>1, <1>3, <2>1 DEF Setting, Busy, At, Alone
  <2>3. Reported => authenticator = last.n /\ Stored(file, task, last.n)
    BY <2>2 DEF LinkInv, Settled, Late
  <2>4. Settled'
    BY <1>1, <1>2, <2>3 DEF Settled, Reported, StaysStored
  <2>5. \A v \in Users \ {u} : LinkOK(v)'
    BY <2>1 DEF LinkOK, Linking, Setting, Sets, HandlerOps
  <2>6. LinkOK(u)'
    <3>1. CASE task'[u].op \in {"link", "transfer"}
      <4>1. task'[u].pc = "code" /\ task'[u].sets = [k \in {"guard"} |-> Plain(task'[u].n)]
        BY <1>1, <3>1 DEF Sets, HandlerOps
      <4>2. Has(task'[u].sets, task'[u].n)
        BY <4>1 DEF Has, Plain
      <4> QED BY <4>1, <4>2 DEF LinkOK, At, Rewriting
    <3> QED BY <3>1 DEF LinkOK, Linking
  <2> QED BY <2>4, <2>5, <2>6 DEF LinkInv
<1> QED BY <1>4, <1>5

LEMMA LinkHandler ==
  ASSUME TasksOK, LinkInv, Orderly, OneSets, NEW u \in Users,
         Finalize(u) \/ DecryptConfig(u) \/ Unlocked(u) \/ ConfigureGuardian(u) \/ SetGuardian(u)
  PROVE  LinkInv'
<1>1. Setting(u) /\ Alone(u) /\ file' = file /\ task'[u].pc \notin {"truncate", "write"}
      /\ task[u].pc # "write"
  BY HandlerMeans
<1>2. TaskOK(task[u], up) /\ LinkOK(u)
  BY DEF TasksOK, LinkInv
<1>3. StaysStored
  BY <1>1, StoredAlone
\* What is left of a task that has ended says nothing; its report may.
<1>4. ASSUME NEW ok, Return(u, ok),
             ok /\ Linking(u) => /\ authenticator' = task[u].n
                                 /\ Stored(file', task', task[u].n)
      PROVE  LinkInv'
  <2>1. task'[u].pc = "idle" /\ last' = [op |-> task[u].op, n |-> task[u].n, ok |-> ok]
    BY <1>1, <1>4, ReturnMeans DEF Setting
  <2>2. LinkOK(u)'
    BY <2>1 DEF LinkOK, Linking, Busy, At
  <2>3. Reported' => authenticator' = last'.n /\ Stored(file', task', last'.n)
    BY <1>1, <1>4, <2>1 DEF Reported, Linking, Setting
  <2> QED BY <1>1, <2>2, <2>3, LinkSetter
\* Nor does a task that is not about a link or a transfer.
<1>5. ASSUME ~Linking(u)', Late(u)' PROVE LinkInv'
  <2>1. LinkOK(u)'
    BY <1>5 DEF LinkOK
  <2> QED BY <1>1, <1>5, <2>1, LinkSetter
<1>6. CASE Finalize(u)
  <2>1. CASE Return(u, FALSE)
    BY <1>4, <2>1
  <2>2. CASE authenticator' = task[u].n /\ Goto(u, "configure")
    <3>1. /\ task'[u].pc = "configure" /\ task'[u].op = task[u].op /\ task'[u].n = task[u].n
          /\ task'[u].sets = task[u].sets
      BY <2>2, GotoMeans
    <3>2. Late(u)'
      BY <1>1, <3>1 DEF Late, Setting, Busy, At
    <3>3. Linking(u)' => Linking(u)
      BY <1>1, <3>1 DEF Linking, Setting
    <3>4. LinkOK(u)'
      BY <1>2, <2>2, <3>1, <3>3 DEF LinkOK, Rewriting, At
    <3> QED BY <1>1, <3>2, <3>4, LinkSetter
  <2> QED BY <1>6, <2>1, <2>2 DEF Finalize
<1>7. CASE DecryptConfig(u)
  <2>1. At(u, "decrypt") /\ task[u].op = "unlock"
    BY <1>2, <1>7 DEF DecryptConfig, TaskOK, At
  <2>2. CASE Return(u, FALSE)
    BY <1>4, <2>2
  <2>3. CASE Now(u, "unlocked", AllOpened(cfg, task[u].pass), NoLines)
    <3>1. task'[u].pc = "unlocked" /\ task'[u].op = "unlock"
      BY <2>1, <2>3, NowMeans
    <3>2. ~Linking(u)' /\ Late(u)'
      BY <3>1 DEF Linking, Late, Setting, Busy, At, Sets, HandlerOps
    <3> QED BY <1>5, <3>2
  <2> QED BY <1>7, <2>2, <2>3 DEF DecryptConfig
<1>8. CASE Unlocked(u)
  <2>1. task[u].op = "unlock"
    BY <1>2, <1>8 DEF Unlocked, TaskOK, At
  <2>2. task'[u].pc = "configure" /\ task'[u].op = "unlock"
    BY <1>8, <2>1, NowMeans DEF Unlocked
  <2>3. ~Linking(u)' /\ Late(u)'
    BY <2>2 DEF Linking, Late, Setting, Busy, At, Sets, HandlerOps
  <2> QED BY <1>5, <2>3
<1>9. CASE ConfigureGuardian(u)
  <2>1. At(u, "configure") /\ Goto(u, "read") /\ authenticator' = authenticator
    BY <1>9 DEF ConfigureGuardian
  <2>2. /\ task'[u].pc = "read" /\ task'[u].op = task[u].op /\ task'[u].n = task[u].n
        /\ task'[u].sets = task[u].sets
    BY <2>1, GotoMeans
  <2>3. Late(u)'
    BY <1>1, <2>2 DEF Late, Setting, Busy, At
  <2>4. Linking(u)' => Linking(u)
    BY <1>1, <2>2 DEF Linking, Setting
  <2>5. LinkOK(u)'
    BY <1>2, <2>1, <2>2, <2>4 DEF LinkOK, Rewriting, At
  <2> QED BY <1>1, <2>3, <2>5, LinkSetter
<1>10. CASE SetGuardian(u)
  <2>1. At(u, "guardian") /\ authenticator' = authenticator
    BY <1>10 DEF SetGuardian
  <2>2. Linking(u) => authenticator' = task[u].n /\ Stored(file', task', task[u].n)
    BY <1>2, <1>3, <2>1 DEF LinkOK, StaysStored, At
  <2>3. ASSUME NEW ok, Return(u, ok) PROVE LinkInv'
    BY <1>4, <2>2, <2>3
  <2>4. ASSUME task' = [task EXCEPT ![u] = Again(@)] PROVE LinkInv'
    <3>1. task'[u].pc = "read" /\ task'[u].op = "local"
      BY <2>4, AgainMeans
    <3>2. ~Linking(u)' /\ Late(u)'
      BY <3>1 DEF Linking, Late, Setting, Busy, At, Sets
    <3> QED BY <1>5, <3>2
  <2>5. (\E ok : Return(u, ok)) \/ task' = [task EXCEPT ![u] = Again(@)]
    BY <1>10 DEF SetGuardian
  <2> QED BY <2>3, <2>4, <2>5
<1> QED BY <1>6, <1>7, <1>8, <1>9, <1>10

LEMMA EditedHas ==
  ASSUME NEW t, NEW b, TaskOK(t, b), NEW f, Good(f), NEW n,
         IF t.op \in {"encrypt", "decrypt"} THEN Has(f, n) ELSE Has(t.sets, n)
  PROVE  Has(Edited(t, f), n)
<1>1. CASE t.op = "encrypt"
  <2>1. Edited(t, f) = Encrypted(f, t.pass) /\ t.pass \in Passphrases
    BY <1>1 DEF Edited, TaskOK
  <2> QED BY <1>1, <2>1, EncryptedGood DEF Has
<1>2. CASE t.op = "decrypt"
  <2>1. Edited(t, f) = AllOpened(f, t.pass)
    BY <1>2 DEF Edited
  <2> QED BY <1>2, <2>1, OpenedGood DEF Has
<1>3. CASE t.op \notin {"encrypt", "decrypt"}
  <2>1. Edited(t, f) = Rewritten(f, t.sets)
    BY <1>3 DEF Edited
  <2> QED BY <1>3, <2>1 DEF Rewritten, Has
<1> QED BY <1>1, <1>2, <1>3

LEMMA LinkRead ==
  ASSUME TasksOK, FileOK, LinkInv, Orderly, OneSets, Orderly', NEW u \in Users, ReadFile(u)
  PROVE  LinkInv'
<1>1. /\ UNCHANGED <<file, authenticator>> /\ At(u, "read") /\ file # Missing
      /\ disturbed' = (disturbed \/ \E t \in Others(u) : At(t, "truncate") \/ At(t, "write"))
  BY DEF ReadFile
<1>2. TaskOK(task[u], up) /\ LinkOK(u) /\ Good(file)
  BY <1>1 DEF TasksOK, LinkInv, FileOK
<1>3. \A v \in Users : task[v].pc \notin {"truncate", "write"}
  BY <1>1 DEF Orderly, Others, Busy, At
<1>4. ASSUME NEW ok, Return(u, ok), ~Setting(u) PROVE LinkInv'
  <2>1. Alone(u) /\ task'[u].pc = "idle" /\ last' = last
    BY <1>1, <1>4, ReturnMeans DEF Setting, Busy, At
  <2>2. StaysStored
    BY <1>1, <1>3, <2>1, StoredAlone
  <2>3. ~Setting(u)'
    BY <2>1 DEF Setting, Busy, At
  <2> QED BY <1>1, <1>4, <2>1, <2>2, <2>3, LinkOther
<1>5. ASSUME Now(u, "truncate", task[u].sets, Edited(task[u], file)), last' = last
      PROVE  LinkInv'
  <2>1. /\ Alone(u) /\ task'[u].pc = "truncate" /\ task'[u].op = task[u].op
        /\ task'[u].n = task[u].n /\ task'[u].sets = task[u].sets
        /\ task'[u].buf = Edited(task[u], file)
    BY <1>5, NowMeans
  <2>2. Setting(u)' = Setting(u) /\ Linking(u)' = Linking(u)
    BY <1>1, <2>1 DEF Setting, Linking, Busy, At
  <2>3. CASE Setting(u)
    <3>1. Late(u)'
      BY <2>1, <2>2, <2>3 DEF Late, At
    <3>2. Linking(u) => Has(Edited(task[u], file), task[u].n)
      BY <1>2, EditedHas DEF LinkOK, Linking
    <3>3. LinkOK(u)'
      BY <1>1, <1>2, <2>1, <2>2, <3>2 DEF LinkOK, Rewriting, At
    <3> QED BY <2>1, <2>3, <3>1, <3>3, LinkSetter
  <2>4. CASE ~Setting(u)
    <3>1. task[u].op \in {"encrypt", "decrypt"}
      BY <1>1, <1>2, <2>4 DEF Setting, Busy, At, TaskOK, Sets, HandlerOps, LocalOps
    <3>2. ASSUME NEW n, Stored(file, task, n) PROVE Stored(file', task', n)
      <4>1. Has(file, n)
        BY <1>1, <1>3, <3>2 DEF Stored
      <4>2. Has(Edited(task[u], file), n)
        BY <1>2, <3>1, <4>1, EditedHas
      <4>3. \A v \in Users : task'[v].pc \in {"truncate", "write"} => v = u
        BY <1>3, <2>1 DEF Alone
      <4> QED BY <1>1, <2>1, <4>1, <4>2, <4>3 DEF Stored
    <3> QED BY <1>1, <1>5, <2>1, <2>2, <2>4, <3>2, LinkOther DEF StaysStored
  <2> QED BY <2>3, <2>4
<1>6. \/ ~Setting(u) /\ \E ok : Return(u, ok)
      \/ Now(u, "truncate", task[u].sets, Edited(task[u], file)) /\ last' = last
  <2>1. task[u].op \in {"encrypt", "decrypt"} => ~Setting(u)
    BY DEF Setting, Sets, HandlerOps
  <2> QED BY <2>1 DEF ReadFile
<1> QED BY <1>4, <1>5, <1>6

LEMMA LinkNoFile ==
  ASSUME TasksOK, LinkInv, Orderly, OneSets, OneRewrites, NEW u \in Users, NoFile(u)
  PROVE  LinkInv'
<1>1. At(u, "read") /\ file = Missing /\ authenticator' = authenticator
  BY DEF NoFile
<1>2. \A v \in Users : task[v].pc \notin {"truncate", "write"}
  BY <1>1 DEF OneRewrites, Rewriting, At
<1>3. LinkOK(u)
  BY DEF LinkInv
<1>4. CASE task[u].op \in HandlerOps /\ AfterFile(u) /\ UNCHANGED file
  <2>1. /\ Alone(u) /\ task'[u].pc = "guardian" /\ task'[u].op = task[u].op
        /\ task'[u].n = task[u].n /\ task'[u].sets = task[u].sets
    BY <1>4, AfterFileMeans
  <2>2. Setting(u) /\ Late(u)' /\ Linking(u)' = Linking(u)
    BY <1>1, <1>4, <2>1 DEF Setting, Late, Linking, Busy, At, Sets
  <2>3. Stored(file', task', task[u].n)
    BY <1>1, <1>2, <1>4, <2>1 DEF Stored, Alone
  <2>4. LinkOK(u)'
    BY <1>1, <1>3, <2>1, <2>2, <2>3 DEF LinkOK, Rewriting, At
  <2> QED BY <2>1, <2>2, <2>4, LinkSetter
<1>5. CASE task[u].op = "local" /\ UNCHANGED task
  <2>1. Setting(u) /\ Late(u)' /\ Alone(u) /\ ~Linking(u)'
    BY <1>1, <1>5 DEF Setting, Late, Alone, Linking, Busy, At, Sets
  <2>2. LinkOK(u)'
    BY <2>1 DEF LinkOK
  <2> QED BY <2>1, <2>2, LinkSetter
<1>6. CASE task[u].op \in {"encrypt", "decrypt"} /\ Return(u, FALSE) /\ UNCHANGED file
  <2>1. ~Setting(u)
    BY <1>6 DEF Setting, Sets, HandlerOps
  <2>2. Alone(u) /\ task'[u].pc = "idle" /\ last' = last
    BY <1>6, ReturnMeans DEF Sets, HandlerOps
  <2>3. ~Setting(u)' /\ StaysStored
    BY <1>2, <1>6, <2>2, StoredAlone DEF Setting, Busy, At
  <2> QED BY <1>1, <2>1, <2>2, <2>3, LinkOther
<1> QED BY <1>4, <1>5, <1>6 DEF NoFile

LEMMA LinkTruncate ==
  ASSUME TasksOK, LinkInv, Orderly, OneSets, Orderly', NEW u \in Users, Truncate(u)
  PROVE  LinkInv'
<1>1. /\ At(u, "truncate") /\ authenticator' = authenticator /\ last' = last
      /\ Goto(u, "write")
  BY DEF Truncate, Orderly
<1>2. /\ Alone(u) /\ task'[u].pc = "write" /\ task'[u].op = task[u].op
      /\ task'[u].n = task[u].n /\ task'[u].sets = task[u].sets /\ task'[u].buf = task[u].buf
  BY <1>1, GotoMeans
<1>3. Setting(u)' = Setting(u) /\ Linking(u)' = Linking(u)
  BY <1>1, <1>2 DEF Setting, Linking, Busy, At
<1>4. LinkOK(u)
  BY DEF LinkInv
<1>5. CASE Setting(u)
  <2>1. Late(u)' /\ LinkOK(u)'
    BY <1>1, <1>2, <1>3, <1>4, <1>5 DEF Late, LinkOK, Rewriting, At
  <2> QED BY <1>2, <1>5, <2>1, LinkSetter
<1>6. CASE ~Setting(u)
  <2>1. StaysStored
    <3>1. \A v \in Users : task'[v].pc \in {"truncate", "write"}
            => task[v].pc \in {"truncate", "write"} /\ task'[v].buf = task[v].buf
      BY <1>1, <1>2 DEF Alone, At
    <3> QED BY <1>2, <3>1 DEF StaysStored, Stored
  <2> QED BY <1>1, <1>2, <1>3, <1>6, <2>1, LinkOther
<1> QED BY <1>5, <1>6

LEMMA LinkWrite ==
  ASSUME TasksOK, LinkInv, Orderly, OneSets, OneRewrites, NEW u \in Users, WriteFile(u)
  PROVE  LinkInv'
<1>1. /\ At(u, "write") /\ authenticator' = authenticator /\ file' = task[u].buf
      /\ AfterFile(u)
  BY DEF WriteFile
<1>2. Alone(u) /\ task'[u].pc \in {"guardian", "idle"}
  BY <1>1, AfterFileMeans
<1>3. \A v \in Users : task'[v].pc \notin {"truncate", "write"}
  BY <1>1, <1>2 DEF OneRewrites, Rewriting, At, Alone
<1>4. \A n : Has(task[u].buf, n) => Stored(file', task', n)
  BY <1>1, <1>3 DEF Stored
<1>5. LinkOK(u)
  BY DEF LinkInv
<1>6. CASE task[u].op \in HandlerOps
  <2>1. /\ task'[u].pc = "guardian" /\ task'[u].op = task[u].op
        /\ task'[u].n = task[u].n /\ task'[u].sets = task[u].sets
    BY <1>1, <1>6, AfterFileMeans
  <2>2. Setting(u) /\ Late(u)' /\ Linking(u)' = Linking(u)
    BY <1>1, <1>6, <2>1 DEF Setting, Late, Linking, Busy, At, Sets
  <2>3. Linking(u) => Has(task[u].buf, task[u].n)
    BY <1>1, <1>5 DEF LinkOK, Rewriting
  <2>4. Linking(u) => Stored(file', task', task[u].n)
    BY <1>4, <2>3
  <2>5. LinkOK(u)'
    BY <1>1, <1>5, <2>1, <2>2, <2>4 DEF LinkOK, Rewriting, At
  <2> QED BY <1>2, <2>2, <2>5, LinkSetter
<1>7. CASE task[u].op \notin HandlerOps
  <2>1. Return(u, TRUE) /\ task'[u].pc = "idle"
    BY <1>1, <1>7, AfterFileMeans
  <2>2. last' = IF Sets(task[u].op) THEN [op |-> task[u].op, n |-> task[u].n, ok |-> TRUE]
                ELSE last
    BY <2>1, ReturnMeans
  <2>3. CASE Setting(u)
    <3>1. LinkOK(u)' /\ ~Reported'
      BY <1>7, <2>1, <2>2, <2>3 DEF LinkOK, Linking, Busy, At, Reported, Setting, HandlerOps
    <3> QED BY <1>2, <2>3, <3>1, LinkSetter
  <2>4. CASE ~Setting(u)
    <3>1. last' = last /\ ~Setting(u)'
      BY <1>1, <2>1, <2>2, <2>4 DEF Setting, Busy, At
    <3>2. StaysStored
      BY <1>1, <1>4 DEF StaysStored, Stored, At
    <3> QED BY <1>1, <1>2, <2>4, <3>1, <3>2, LinkOther
  <2> QED BY <2>3, <2>4
<1> QED BY <1>6, <1>7

LEMMA LinkKill ==
  ASSUME TasksOK, LinkInv, Orderly, OneSets, Orderly', NEW u \in Users, KillCommand(u)
  PROVE  LinkInv'
<1>1. /\ UNCHANGED <<file, authenticator>> /\ Busy(u) /\ Return(u, FALSE) /\ ~At(u, "write")
  BY DEF KillCommand, Orderly
<1>2. /\ Alone(u) /\ task'[u].pc = "idle"
      /\ last' = IF Sets(task[u].op) THEN [op |-> task[u].op, n |-> task[u].n, ok |-> FALSE]
                 ELSE last
  BY <1>1, ReturnMeans
<1>3. CASE Setting(u)
  <2>1. LinkOK(u)' /\ ~Reported'
    BY <1>2, <1>3 DEF LinkOK, Linking, Busy, At, Reported, Setting
  <2> QED BY <1>2, <1>3, <2>1, LinkSetter
<1>4. CASE ~Setting(u)
  <2>1. last' = last /\ ~Setting(u)'
    BY <1>1, <1>2, <1>4 DEF Setting, Busy, At
  <2>2. StaysStored
    BY <1>1, <1>2, StoredAlone DEF At
  <2> QED BY <1>1, <1>2, <1>4, <2>1, <2>2, LinkOther
<1> QED BY <1>3, <1>4

LEMMA LinkStop ==
  ASSUME TasksOK, LinkInv, Orderly, Orderly', StopDaemon
  PROVE  LinkInv'
<1> DEFINE gone == {u \in Users : Busy(u) /\ InDaemon(u) /\ task[u].op # "import"}
<1>1. /\ UNCHANGED <<file, authenticator>>
      /\ \A u \in Users : ~(InDaemon(u) /\ At(u, "write"))
      /\ \/ gone = {} /\ UNCHANGED last
         \/ \E u \in gone : last' = [op |-> task[u].op, n |-> task[u].n, ok |-> FALSE]
  BY DEF StopDaemon, Orderly
<1>2. \A t : Again(t).pc = "read" /\ Again(t).op = "local"
  BY DEF Again
<1>3. StaysStored
  <2>1. \A v \in Users : task'[v].pc \in {"truncate", "write"} => task'[v] = task[v]
    BY <1>2, StopMeans
  <2>2. \A v \in Users : task[v].pc = "write" => task'[v].pc = "write"
    BY <1>1, StopMeans DEF InDaemon, At, HandlerOps
  <2> QED BY <1>1, <2>1, <2>2 DEF StaysStored, Stored
<1>4. ASSUME NEW v \in Users PROVE LinkOK(v)'
  <2>1. ~Linking(v)'
    BY <1>2, StopMeans DEF Linking, Busy, At, HandlerOps
  <2> QED BY <2>1 DEF LinkOK
<1>5. ASSUME \A v \in Users : ~Late(v)', Reported'
      PROVE  authenticator' = last'.n /\ Stored(file', task', last'.n)
  <2>1. gone = {} /\ last' = last
    BY <1>1, <1>5 DEF Reported
  <2>2. ASSUME NEW v \in Users, Late(v) PROVE FALSE
    <3>1. CASE Busy(v) /\ task[v].op = "import"
      <4>1. task'[v].pc = "read" /\ task'[v].op = "local"
        BY <1>2, <3>1, StopMeans DEF HandlerOps
      <4> QED BY <1>5, <4>1 DEF Late, Setting, Busy, At, Sets
    <3>2. CASE task[v].op \in HandlerOps \ {"import"}
      BY <2>1, <2>2, <3>2 DEF Late, Setting, InDaemon
    <3>3. CASE task[v].op \notin HandlerOps
      <4>1. task'[v] = task[v]
        BY <3>3, StopMeans DEF HandlerOps
      <4> QED BY <1>5, <2>2, <4>1 DEF Late, Setting, Busy, At
    <3> QED BY <2>2, <3>1, <3>2, <3>3 DEF Late, Setting
  <2>3. Reported
    BY <1>5, <2>1 DEF Reported
  <2>4. authenticator = last.n /\ Stored(file, task, last.n)
    BY <2>2, <2>3 DEF LinkInv, Settled
  <2> QED BY <1>1, <1>3, <2>1, <2>4 DEF StaysStored
<1> QED BY <1>4, <1>5 DEF LinkInv, Settled

LEMMA LinkStutter ==
  ASSUME LinkInv, Orderly, UNCHANGED <<file, authenticator, task, last>>
  PROVE  LinkInv'
BY DEF LinkInv, Settled, Reported, LinkOK, Late, Linking, Setting, Rewriting, Busy, At

LEMMA OrderlyBefore ==
  ASSUME Inv, [Next]_vars, Orderly'
  PROVE  Orderly
<1>0. TasksOK
  BY DEF Inv
<1>1. ASSUME NEW u \in Users, Command(u) PROVE Orderly
  <2>1. disturbed' = disturbed /\ (overlapped => overlapped')
    BY <1>0, <1>1, CommandMeans
  <2> QED BY <2>1 DEF Orderly
<1>2. ASSUME NEW u \in Users, Step(u) \/ KillCommand(u) PROVE Orderly
  <2>1. CASE Finalize(u) \/ DecryptConfig(u) \/ Unlocked(u) \/ ConfigureGuardian(u)
             \/ SetGuardian(u)
    BY <1>0, <2>1, HandlerMeans DEF Orderly
  <2>2. CASE ReadFile(u) \/ NoFile(u) \/ Truncate(u) \/ WriteFile(u)
    <3>1. disturbed => disturbed'
      BY <2>2 DEF ReadFile, NoFile, Truncate, WriteFile
    <3> QED BY <1>0, <2>2, <3>1, FileSets DEF Orderly
  <2>3. CASE KillCommand(u)
    BY <2>3 DEF KillCommand, Orderly
  <2> QED BY <1>2, <2>1, <2>2, <2>3 DEF Step
<1>3. CASE StartDaemon \/ StopDaemon
  <2>1. CASE StartDaemon
    BY <2>1 DEF StartDaemon, Orderly
  <2>2. CASE StopDaemon
    BY <2>2 DEF StopDaemon, Orderly
  <2> QED BY <1>3, <2>1, <2>2
<1>4. CASE UNCHANGED vars
  BY <1>4 DEF vars, historyVars, Orderly
<1> QED BY <1>1, <1>2, <1>3, <1>4 DEF Next

LEMMA LinkNext ==
  ASSUME Inv, LinkInv, RewritesInv, SetsInv, SetsInv', [Next]_vars
  PROVE  LinkInv'
<1> SUFFICES ASSUME Orderly' PROVE LinkInv'
  BY DEF LinkInv
<1>0. TasksOK /\ FileOK /\ Orderly
  BY OrderlyBefore DEF Inv
<1>1. OneRewrites /\ OneSets /\ OneSets'
  BY <1>0 DEF Orderly, RewritesInv, SetsInv
<1>2. ASSUME NEW u \in Users, Command(u) PROVE LinkInv'
  BY <1>0, <1>1, <1>2, LinkCommand
<1>3. ASSUME NEW u \in Users, Step(u) PROVE LinkInv'
  BY <1>0, <1>1, <1>3, LinkHandler, LinkRead, LinkNoFile, LinkTruncate, LinkWrite DEF Step
<1>4. ASSUME NEW u \in Users, KillCommand(u) PROVE LinkInv'
  BY <1>0, <1>1, <1>4, LinkKill
<1>5. CASE StartDaemon
  <2>1. UNCHANGED <<file, authenticator, task, last>>
    BY <1>5 DEF StartDaemon
  <2> QED BY <1>0, <2>1, LinkStutter
<1>6. CASE UNCHANGED vars
  <2>1. UNCHANGED <<file, authenticator, task, last>>
    BY <1>6 DEF vars, historyVars
  <2> QED BY <1>0, <2>1, LinkStutter
<1> QED BY <1>0, <1>2, <1>3, <1>4, <1>5, <1>6, LinkStop DEF Next

\* For every number of users, commands and failures: after a link or a transfer that was
\* reported as done, the secrets in force at Steam are those in the file, whatever is
\* encrypted or decrypted meanwhile (configureGuardian, updateEnvFile).
THEOREM EnvLinkedKept == Spec => []LinkedKept
<1> DEFINE All == Inv /\ RewritesInv /\ SetsInv /\ LinkInv
<1>1. Init => All
  BY InitInv, InitLink
<1>2. All /\ [Next]_vars => All'
  BY NextInv, RewritesNext, SetsNext, LinkNext
<1>3. All => LinkedKept
  <2> SUFFICES ASSUME All, Undisturbed, Reported, \A u \in Users : ~At(u, "write")
               PROVE  authenticator = last.n /\ (file = Missing \/ file["guard"].plain = last.n)
    BY DEF LinkedKept, Reported
  <2>1. Orderly /\ \A u \in Users : ~Late(u)
    BY DEF Undisturbed, Orderly, Late, Setting
  <2>2. authenticator = last.n /\ Stored(file, task, last.n)
    BY <2>1 DEF LinkInv, Settled
  <2> QED BY <2>2 DEF Stored, Has, At
<1> HIDE DEF All
<1> QED BY <1>1, <1>2, <1>3, PTL DEF Spec

-----------------------------------------------------------------------------
(* The file, the configuration and the guardian module agree.  The file    *)
(* lags behind the configuration only while a handler is on its way to its *)
(* write, and the module until the handler has set it.                     *)

Agrees(f, g) == DOMAIN f = DOMAIN g /\ \A k \in DOMAIN f : f[k].plain = g[k].plain
Within(f, g) == DOMAIN f \subseteq DOMAIN g /\ \A k \in DOMAIN f : f[k].plain = g[k].plain

\* Setting s in the file f, or in what is about to be written to it, makes c of it.
Makes(c, f, t, s) ==
  /\ Agrees(c, Rewritten(f, s)) \/ \E u \in Users : t[u].pc = "write"
  /\ \A u \in Users : t[u].pc \in {"truncate", "write"} => Agrees(c, Rewritten(t[u].buf, s))

Handling(u) == Busy(u) /\ task[u].op \in HandlerOps
Behind(u) == Handling(u) /\ task[u].pc \in {"read", "truncate"}
Unset(u) == Handling(u) /\ task[u].pc \in {"read", "truncate", "write", "guardian"}
Configured(u) ==
  /\ Setting(u)
  /\ \/ task[u].pc \in {"read", "truncate", "write", "guardian"}
     \/ task[u].op = "unlock" /\ task[u].pc # "decrypt"
SetOK(u) ==
  /\ Configured(u) => Within(task[u].sets, cfg)
  /\ Handling(u) /\ At(u, "read") => Makes(cfg, file, task, task[u].sets)
  /\ Handling(u) /\ At(u, "truncate") => Agrees(cfg, task[u].buf)

PlacesOK ==
  \A u \in Users : task[u].pc \in {"code", "configure", "guardian"} => task[u].op \in HandlerOps
EncryptorsOK ==
  \A u \in Users : At(u, "truncate") /\ ~Sets(task[u].op) => Agrees(file, task[u].buf)
FileAgrees == (\A u \in Users : ~Behind(u)) => Makes(cfg, file, task, NoLines)
ModuleAgrees ==
  (\A u \in Users : ~Unset(u)) => \A v \in guardian : v.plain = cfg["guard"].plain
ConfigOK == up => (\A u \in Users : SetOK(u)) /\ FileAgrees /\ ModuleAgrees
Quiet == Orderly /\ environment = NoLines
AgreeInv == Quiet => EncryptorsOK /\ ConfigOK

MakesStay == \A c, s : Makes(c, file, task, s) => Makes(c, file', task', s)

LEMMA AgreesTrans ==
  ASSUME NEW f, NEW g, NEW h, Agrees(f, g), Agrees(g, h)
  PROVE  Agrees(f, h) /\ Agrees(g, f)
BY DEF Agrees

LEMMA RewrittenNothing ==
  ASSUME NEW f
  PROVE  Agrees(Rewritten(f, NoLines), f) /\ Agrees(f, Rewritten(f, NoLines))
<1>1. DOMAIN NoLines = {}
  BY NoLinesGood
<1>2. DOMAIN Rewritten(f, NoLines) = DOMAIN f
  BY <1>1 DEF Rewritten
<1>3. \A k \in DOMAIN f : Rewritten(f, NoLines)[k] = f[k]
  BY <1>1 DEF Rewritten
<1> QED BY <1>2, <1>3 DEF Agrees

LEMMA RewrittenWithin ==
  ASSUME NEW c, NEW f, NEW s, Agrees(c, f), Within(s, c)
  PROVE  Agrees(c, Rewritten(f, s))
<1>1. DOMAIN Rewritten(f, s) = DOMAIN f \cup DOMAIN s
  BY DEF Rewritten
<1>2. \A k \in DOMAIN f \cup DOMAIN s :
        Rewritten(f, s)[k] = IF k \in DOMAIN s THEN s[k] ELSE f[k]
  BY DEF Rewritten
<1> QED BY <1>1, <1>2 DEF Agrees, Within

LEMMA RewrittenBoth ==
  ASSUME NEW c, NEW f, NEW s, Agrees(c, f)
  PROVE  Agrees(Rewritten(c, s), Rewritten(f, s)) /\ Within(s, Rewritten(c, s))
<1>1. /\ DOMAIN Rewritten(c, s) = DOMAIN c \cup DOMAIN s
      /\ DOMAIN Rewritten(f, s) = DOMAIN f \cup DOMAIN s
  BY DEF Rewritten
<1>2. \A k \in DOMAIN c \cup DOMAIN s :
        Rewritten(c, s)[k] = IF k \in DOMAIN s THEN s[k] ELSE c[k]
  BY DEF Rewritten
<1>3. \A k \in DOMAIN f \cup DOMAIN s :
        Rewritten(f, s)[k] = IF k \in DOMAIN s THEN s[k] ELSE f[k]
  BY DEF Rewritten
<1>4. Agrees(Rewritten(c, s), Rewritten(f, s))
  BY <1>1, <1>2, <1>3 DEF Agrees
<1>5. Within(s, Rewritten(c, s))
  BY <1>1, <1>2 DEF Within
<1> QED BY <1>4, <1>5

\* Nothing to be set: the file is what the configuration is.
LEMMA MakesNothing ==
  ASSUME NEW c, NEW f, NEW t
  PROVE  Makes(c, f, t, NoLines) <=>
           /\ Agrees(c, f) \/ \E u \in Users : t[u].pc = "write"
           /\ \A u \in Users : t[u].pc \in {"truncate", "write"} => Agrees(c, t[u].buf)
<1>1. \A g : Agrees(c, Rewritten(g, NoLines)) <=> Agrees(c, g)
  BY RewrittenNothing, AgreesTrans
<1> QED BY <1>1 DEF Makes

LEMMA MakesMore ==
  ASSUME NEW c, NEW f, NEW t, NEW s, Makes(c, f, t, NoLines), Within(s, c)
  PROVE  Makes(c, f, t, s)
<1>1. \A g : Agrees(c, g) => Agrees(c, Rewritten(g, s))
  BY RewrittenWithin
<1> QED BY <1>1, MakesNothing DEF Makes

LEMMA MakesOver ==
  ASSUME NEW c, NEW f, NEW t, NEW s, Makes(c, f, t, NoLines)
  PROVE  Makes(Rewritten(c, s), f, t, s)
<1>1. \A g : Agrees(c, g) => Agrees(Rewritten(c, s), Rewritten(g, s))
  BY RewrittenBoth
<1> QED BY <1>1, MakesNothing DEF Makes

LEMMA MakesSwap ==
  ASSUME NEW c, NEW d, NEW f, NEW t, NEW s, Makes(c, f, t, s), Agrees(d, c)
  PROVE  Makes(d, f, t, s)
BY AgreesTrans DEF Makes

LEMMA MakesAlone ==
  ASSUME file' = file, NEW u \in Users, Alone(u), task[u].pc # "write",
         task'[u].pc \notin {"truncate", "write"}
  PROVE  MakesStay
<1>1. \A v \in Users : task'[v].pc \in {"truncate", "write"} => task'[v] = task[v]
  BY DEF Alone
<1>2. \A v \in Users : task[v].pc = "write" => task'[v].pc = "write"
  BY DEF Alone
<1> QED BY <1>1, <1>2 DEF MakesStay, Makes

\* A step of a task that sets no credentials.
LEMMA AgreeOther ==
  ASSUME ConfigOK, UNCHANGED <<up, cfg, guardian>>, NEW u \in Users, Alone(u),
         ~Setting(u), ~Setting(u)', MakesStay
  PROVE  ConfigOK'
<1> SUFFICES ASSUME up PROVE ((\A v \in Users : SetOK(v)) /\ FileAgrees /\ ModuleAgrees)'
  BY DEF ConfigOK
<1>1. (\A v \in Users : SetOK(v)) /\ FileAgrees /\ ModuleAgrees
  BY DEF ConfigOK
<1>2. \A v \in Users : Handling(v) => Setting(v)
  BY DEF Handling, Setting, Sets
<1>3. ~Handling(u) /\ ~Handling(u)' /\ ~Configured(u)'
  BY DEF Handling, Setting, Sets, Configured
<1>4. ASSUME NEW v \in Users \ {u} PROVE SetOK(v)'
  <2>1. SetOK(v) /\ task'[v] = task[v]
    BY <1>1 DEF Alone
  <2> QED BY <2>1 DEF SetOK, Configured, Handling, Setting, Busy, At, MakesStay
<1>5. SetOK(u)'
  BY <1>3 DEF SetOK
<1>6. \A v \in Users \ {u} : Behind(v)' = Behind(v) /\ Unset(v)' = Unset(v)
  BY DEF Behind, Unset, Handling, Busy, At, Alone
<1>7. ~Behind(u) /\ ~Behind(u)' /\ ~Unset(u) /\ ~Unset(u)'
  BY <1>3 DEF Behind, Unset
<1>8. FileAgrees' /\ ModuleAgrees'
  BY <1>1, <1>6, <1>7 DEF FileAgrees, ModuleAgrees, MakesStay
<1> QED BY <1>4, <1>5, <1>8

\* A step after which one task alone sets credentials, or none does.
LEMMA AgreeSetter ==
  ASSUME NEW u \in Users, \A v \in Users \ {u} : ~Setting(v)',
         up' => SetOK(u)',
         up' => Behind(u)' \/ Makes(cfg', file', task', NoLines),
         up' => Unset(u)' \/ \A v \in guardian' : v.plain = cfg'["guard"].plain
  PROVE  ConfigOK'
<1>1. \A v \in Users \ {u} : SetOK(v)'
  BY DEF SetOK, Configured, Handling, Setting, Sets
<1> QED BY <1>1 DEF ConfigOK, FileAgrees, ModuleAgrees

LEMMA AloneSets ==
  ASSUME OneSets, NEW u \in Users, Alone(u), Setting(u)
  PROVE  \A v \in Users \ {u} : ~Setting(v) /\ ~Setting(v)'
BY DEF OneSets, Setting, Busy, At, Alone

LEMMA InitAgree == Init => PlacesOK /\ AgreeInv /\ KeptInv
<1> SUFFICES ASSUME Init PROVE PlacesOK /\ AgreeInv
  BY InitKept
<1>1. \A u \in Users : task[u].pc = "idle"
  BY DEF Init, Rest
<1>2. ~up
  BY DEF Init
<1> QED BY <1>1, <1>2 DEF PlacesOK, AgreeInv, EncryptorsOK, ConfigOK, At

LEMMA PlacesFrame ==
  ASSUME PlacesOK, NEW u \in Users, Alone(u),
         task'[u].pc \in {"code", "configure", "guardian"} => task'[u].op \in HandlerOps
  PROVE  PlacesOK'
BY DEF PlacesOK, Alone

LEMMA PlacesNext == Inv /\ PlacesOK /\ [Next]_vars => PlacesOK'
<1> SUFFICES ASSUME Inv, PlacesOK, [Next]_vars PROVE PlacesOK'
  OBVIOUS
<1>0. TasksOK
  BY DEF Inv
<1>1. ASSUME NEW u \in Users, Command(u) PROVE PlacesOK'
  <2>1. Alone(u) /\ (task'[u].pc \in {"code", "configure", "guardian"}
                       => task'[u].op \in {"import", "link", "transfer"})
    BY <1>0, <1>1, CommandMeans
  <2> QED BY <2>1, PlacesFrame DEF HandlerOps
<1>2. ASSUME NEW u \in Users, Step(u) PROVE PlacesOK'
  <2>0. TaskOK(task[u], up)
    BY <1>0 DEF TasksOK
  <2>1. ASSUME NEW ok, Return(u, ok) PROVE PlacesOK'
    BY <1>0, <2>1, ReturnMeans, PlacesFrame
  <2>2. ASSUME NEW pc, NEW sets, NEW buf, Now(u, pc, sets, buf),
               pc \in {"code", "configure", "guardian"} => task[u].op \in HandlerOps
        PROVE  PlacesOK'
    BY <1>0, <2>2, NowMeans, PlacesFrame
  <2>3. ASSUME AfterFile(u) PROVE PlacesOK'
    BY <1>0, <2>3, AfterFileMeans, PlacesFrame
  <2>4. ASSUME task' = task PROVE PlacesOK'
    BY <2>4 DEF PlacesOK
  <2>5. CASE Finalize(u)
    <3>1. At(u, "code") /\ (Goto(u, "configure") \/ Return(u, FALSE))
      BY <2>5 DEF Finalize
    <3>2. task[u].op \in HandlerOps
      BY <3>1 DEF PlacesOK, At
    <3>3. Goto(u, "configure") => Now(u, "configure", task[u].sets, task[u].buf)
      BY DEF Goto
    <3> QED BY <2>1, <2>2, <3>1, <3>2, <3>3
  <2>6. CASE DecryptConfig(u)
    <3>1. Now(u, "unlocked", AllOpened(cfg, task[u].pass), NoLines) \/ Return(u, FALSE)
      BY <2>6 DEF DecryptConfig
    <3> QED BY <2>1, <2>2, <3>1
  <2>7. CASE Unlocked(u)
    <3>1. task[u].op = "unlock"
      BY <2>0, <2>7 DEF Unlocked, TaskOK, At
    <3> QED BY <2>2, <2>7, <3>1 DEF Unlocked, HandlerOps
  <2>8. CASE ConfigureGuardian(u)
    <3>1. Now(u, "read", task[u].sets, task[u].buf)
      BY <2>8 DEF ConfigureGuardian, Goto
    <3> QED BY <2>2, <3>1
  <2>9. CASE SetGuardian(u)
    <3>1. (\E ok : Return(u, ok)) \/ task' = [task EXCEPT ![u] = Again(@)]
      BY <2>9 DEF SetGuardian
    <3>2. CASE task' = [task EXCEPT ![u] = Again(@)]
      BY <1>0, <3>2, AgainMeans, PlacesFrame
    <3> QED BY <2>1, <3>1, <3>2
  <2>10. CASE ReadFile(u)
    <3>1. Return(u, FALSE) \/ Return(u, TRUE)
          \/ Now(u, "truncate", task[u].sets, Edited(task[u], file))
      BY <2>10 DEF ReadFile
    <3> QED BY <2>1, <2>2, <3>1
  <2>11. CASE NoFile(u)
    BY <2>1, <2>3, <2>4, <2>11 DEF NoFile
  <2>12. CASE Truncate(u)
    <3>1. Now(u, "write", task[u].sets, task[u].buf) \/ AfterFile(u) \/ Return(u, FALSE)
      BY <2>12 DEF Truncate, Goto
    <3> QED BY <2>1, <2>2, <2>3, <3>1
  <2>13. CASE WriteFile(u)
    BY <2>3, <2>13 DEF WriteFile
  <2> QED BY <1>2, <2>5, <2>6, <2>7, <2>8, <2>9, <2>10, <2>11, <2>12, <2>13 DEF Step
<1>3. ASSUME NEW u \in Users, KillCommand(u) PROVE PlacesOK'
  <2>1. Return(u, FALSE)
    BY <1>3 DEF KillCommand
  <2> QED BY <1>0, <2>1, ReturnMeans, PlacesFrame
<1>4. CASE StartDaemon
  BY <1>4 DEF StartDaemon, PlacesOK
<1>5. CASE StopDaemon
  <2>1. \A t : Again(t).pc = "read"
    BY DEF Again
  <2> QED BY <1>0, <1>5, <2>1, StopMeans DEF PlacesOK
<1>6. CASE UNCHANGED vars
  <2>1. task' = task
    BY <1>6 DEF vars
  <2> QED BY <2>1 DEF PlacesOK
<1> QED BY <1>1, <1>2, <1>3, <1>4, <1>5, <1>6 DEF Next

LEMMA AgreeCommand ==
  ASSUME TasksOK, EncryptorsOK, ConfigOK, OneSets', NEW u \in Users, Command(u)
  PROVE  EncryptorsOK' /\ ConfigOK'
<1>1. /\ At(u, "idle") /\ Alone(u)
      /\ UNCHANGED <<file, up, cfg, guardian>>
      /\ \/ task'[u].pc = "read" /\ ~Sets(task'[u].op)
         \/ task'[u].pc = "read" /\ task'[u].op = "local" /\ ~up
         \/ task'[u].pc = "configure" /\ task'[u].op = "import"
         \/ task'[u].pc = "decrypt" /\ task'[u].op = "unlock"
         \/ task'[u].pc = "code" /\ task'[u].op \in {"link", "transfer"}
  BY CommandMeans DEF daemonVars
<1>2. EncryptorsOK'
  BY <1>1 DEF EncryptorsOK, At, Alone
<1>3. MakesStay
  BY <1>1, MakesAlone DEF At
<1>4. ~Setting(u)
  BY <1>1 DEF Setting, Busy
<1>5. CASE ~Setting(u)'
  BY <1>1, <1>2, <1>3, <1>4, <1>5, AgreeOther
<1>6. CASE Setting(u)'
  <2>1. \A v \in Users \ {u} : ~Setting(v)'
    BY <1>6 DEF OneSets
  <2>2. \A v \in Users : ~Setting(v)
    BY <1>1, <1>4, <2>1 DEF Setting, Busy, At, Alone
  <2>3. \A v \in Users : ~Behind(v) /\ ~Unset(v)
    BY <2>2 DEF Behind, Unset, Handling, Setting, Sets
  <2>4. up' => SetOK(u)'
    BY <1>1, <1>6 DEF SetOK, Configured, Handling, Setting, Sets, At
  <2>5. up' => Makes(cfg', file', task', NoLines)
    BY <1>1, <1>3, <2>3 DEF ConfigOK, FileAgrees, MakesStay
  <2>6. up' => \A v \in guardian' : v.plain = cfg'["guard"].plain
    BY <1>1, <2>3 DEF ConfigOK, ModuleAgrees
  <2> QED BY <1>2, <2>1, <2>4, <2>5, <2>6, AgreeSetter
<1> QED BY <1>5, <1>6

LEMMA AgreeHandler ==
  ASSUME TasksOK, CfgOK, PlacesOK, EncryptorsOK, ConfigOK, OneSets, NEW u \in Users,
         Finalize(u) \/ DecryptConfig(u) \/ Unlocked(u) \/ ConfigureGuardian(u) \/ SetGuardian(u)
  PROVE  EncryptorsOK' /\ ConfigOK'
<1>1. /\ Setting(u) /\ Alone(u) /\ UNCHANGED <<file, up>>
      /\ task[u].pc \notin {"idle", "read", "truncate", "write"}
      /\ task'[u].pc \notin {"truncate", "write"}
  BY HandlerMeans DEF Setting, Busy, At
<1>2. EncryptorsOK'
  BY <1>1 DEF EncryptorsOK, At, Alone
<1> SUFFICES ASSUME up PROVE ConfigOK'
  BY <1>1, <1>2 DEF ConfigOK
<1>3. MakesStay
  BY <1>1, MakesAlone
<1>4. \A v \in Users \ {u} : ~Setting(v) /\ ~Setting(v)'
  BY <1>1, AloneSets
<1>5. \A v \in Users : ~Behind(v)
  BY <1>1, <1>4 DEF Behind, Handling, Setting, Sets
<1>6. Makes(cfg, file', task', NoLines)
  BY <1>3, <1>5 DEF ConfigOK, FileAgrees, MakesStay
<1>7. task[u].pc # "guardian" => \A v \in guardian : v.plain = cfg["guard"].plain
  BY <1>1, <1>4 DEF ConfigOK, ModuleAgrees, Unset, Handling, Setting, Sets
<1>8. TaskOK(task[u], up) /\ SetOK(u) /\ "guard" \in DOMAIN cfg
  BY DEF TasksOK, ConfigOK, CfgOK
<1>9. ASSUME task'[u].pc = "idle", Agrees(cfg', cfg),
             \A v \in guardian' : v.plain = cfg'["guard"].plain
      PROVE  ConfigOK'
  <2>1. SetOK(u)'
    BY <1>9 DEF SetOK, Configured, Handling, Setting, Busy, At
  <2>2. Makes(cfg', file', task', NoLines)
    BY <1>6, <1>9, MakesSwap
  <2> QED BY <1>4, <1>9, <2>1, <2>2, AgreeSetter
<1>10. Agrees(cfg, cfg)
  BY DEF Agrees
<1>11. CASE Finalize(u)
  <2>1. At(u, "code") /\ UNCHANGED <<cfg, guardian>>
    BY <1>11 DEF Finalize, daemonVars
  <2>2. CASE Return(u, FALSE)
    BY <1>7, <1>9, <1>10, <2>1, <2>2, ReturnMeans DEF At
  <2>3. CASE Goto(u, "configure")
    <3>1. task'[u].pc = "configure" /\ task'[u].op = task[u].op /\ task'[u].sets = task[u].sets
      BY <2>3, GotoMeans
    <3>2. SetOK(u)'
      BY <1>1, <1>8, <2>1, <3>1 DEF SetOK, Configured, Setting, Busy, At
    <3> QED BY <1>4, <1>6, <1>7, <2>1, <3>2, AgreeSetter DEF At
  <2> QED BY <1>11, <2>2, <2>3 DEF Finalize
<1>12. CASE DecryptConfig(u)
  <2>1. At(u, "decrypt") /\ UNCHANGED <<cfg, guardian>>
    BY <1>12 DEF DecryptConfig, daemonVars
  <2>2. CASE Return(u, FALSE)
    BY <1>7, <1>9, <1>10, <2>1, <2>2, ReturnMeans DEF At
  <2>3. CASE Now(u, "unlocked", AllOpened(cfg, task[u].pass), NoLines)
    <3>1. task'[u].pc = "unlocked" /\ task'[u].sets = AllOpened(cfg, task[u].pass)
      BY <2>3, NowMeans
    <3>2. Within(AllOpened(cfg, task[u].pass), cfg)
      BY OpenedGood DEF CfgOK, Within
    <3>3. SetOK(u)'
      BY <2>1, <3>1, <3>2 DEF SetOK, At
    <3> QED BY <1>4, <1>6, <1>7, <2>1, <3>3, AgreeSetter DEF At
  <2> QED BY <1>12, <2>2, <2>3 DEF DecryptConfig
<1>13. CASE Unlocked(u)
  <2>1. At(u, "unlocked") /\ guardian' = guardian /\ cfg' = Rewritten(cfg, task[u].sets)
    BY <1>13 DEF Unlocked
  <2>2. Within(task[u].sets, cfg)
    BY <1>1, <1>8, <2>1 DEF SetOK, Configured, TaskOK, At
  <2>3. Agrees(cfg, cfg')
    BY <1>10, <2>1, <2>2, RewrittenWithin
  <2>4. task'[u].pc = "configure"
        /\ task'[u].sets = [k \in DOMAIN task[u].sets \ {"pass"} |-> task[u].sets[k]]
    BY <1>13, NowMeans DEF Unlocked
  <2>5. Within(task'[u].sets, cfg')
    BY <2>2, <2>3, <2>4 DEF Within, Agrees
  <2>6. SetOK(u)'
    BY <2>4, <2>5 DEF SetOK, At
  <2>7. Makes(cfg', file', task', NoLines)
    <3>1. Agrees(cfg', cfg)
      BY <2>3 DEF Agrees
    <3> QED BY <1>6, <3>1, MakesSwap
  <2>8. cfg'["guard"].plain = cfg["guard"].plain
    BY <1>8, <2>3 DEF Agrees
  <2> QED BY <1>4, <1>7, <2>1, <2>6, <2>7, <2>8, AgreeSetter DEF At
<1>14. CASE ConfigureGuardian(u)
  <2>1. At(u, "configure") /\ cfg' = Rewritten(cfg, task[u].sets) /\ Goto(u, "read")
    BY <1>14 DEF ConfigureGuardian
  <2>2. task'[u].pc = "read" /\ task'[u].op = task[u].op /\ task'[u].sets = task[u].sets
    BY <2>1, GotoMeans
  <2>3. Handling(u)' /\ Behind(u)' /\ Unset(u)'
    BY <2>1, <2>2 DEF Handling, Behind, Unset, Busy, At, PlacesOK
  <2>4. Agrees(cfg, cfg) => Within(task[u].sets, cfg')
    BY <2>1, RewrittenBoth
  <2>5. Makes(cfg', file', task', task'[u].sets)
    BY <1>6, <2>1, <2>2, MakesOver
  <2>6. SetOK(u)'
    BY <1>10, <2>2, <2>4, <2>5 DEF SetOK, At
  <2> QED BY <1>4, <2>3, <2>6, AgreeSetter
<1>15. CASE SetGuardian(u)
  <2>1. At(u, "guardian") /\ cfg' = cfg
    BY <1>15 DEF SetGuardian
  <2>2. Within(task[u].sets, cfg) /\ "guard" \in DOMAIN task[u].sets
    BY <1>1, <1>8, <2>1 DEF SetOK, Configured, TaskOK, At
  <2>3. CASE guardian' = {task[u].sets["guard"]} /\ Return(u, TRUE)
    <3>1. \A v \in guardian' : v.plain = cfg["guard"].plain
      BY <2>2, <2>3 DEF Within
    <3> QED BY <1>9, <1>10, <2>1, <2>3, <3>1, ReturnMeans
  <2>4. CASE guardian' = {} /\ \E ok : Return(u, ok)
    BY <1>9, <1>10, <2>1, <2>4, ReturnMeans
  <2>5. CASE guardian' = {} /\ task' = [task EXCEPT ![u] = Again(@)]
    <3>1. task'[u].pc = "read" /\ task'[u].op = "local" /\ task'[u].sets = task[u].sets
      BY <2>5, AgainMeans
    <3>2. ~Handling(u)'
      BY <3>1 DEF Handling, HandlerOps
    <3>3. SetOK(u)'
      BY <2>1, <2>2, <3>1, <3>2 DEF SetOK
    <3> QED BY <1>4, <1>6, <2>1, <2>5, <3>3, AgreeSetter
  <2>6. \/ guardian' = {task[u].sets["guard"]} /\ Return(u, TRUE)
        \/ guardian' = {} /\ \E ok : Return(u, ok)
        \/ guardian' = {} /\ task' = [task EXCEPT ![u] = Again(@)]
    BY <1>15 DEF SetGuardian
  <2> QED BY <2>3, <2>4, <2>5, <2>6
<1> QED BY <1>11, <1>12, <1>13, <1>14, <1>15

LEMMA EditedAgrees ==
  ASSUME NEW t, NEW b, TaskOK(t, b), NEW f, Good(f), t.op \in {"encrypt", "decrypt"}
  PROVE  Agrees(f, Edited(t, f))
<1>1. CASE t.op = "encrypt"
  <2>1. Edited(t, f) = Encrypted(f, t.pass) /\ t.pass \in Passphrases
    BY <1>1 DEF Edited, TaskOK
  <2> QED BY <2>1, EncryptedGood DEF Agrees
<1>2. CASE t.op = "decrypt"
  <2>1. Edited(t, f) = AllOpened(f, t.pass)
    BY <1>2 DEF Edited
  <2> QED BY <2>1, OpenedGood DEF Agrees
<1> QED BY <1>1, <1>2

LEMMA AgreeRead ==
  ASSUME TasksOK, FileOK, EncryptorsOK, ConfigOK, OneSets, Orderly', NEW u \in Users, ReadFile(u)
  PROVE  EncryptorsOK' /\ ConfigOK'
<1>1. /\ UNCHANGED <<file, up, cfg, guardian>> /\ At(u, "read") /\ file # Missing
      /\ disturbed' = (disturbed \/ \E t \in Others(u) : At(t, "truncate") \/ At(t, "write"))
  BY DEF ReadFile, daemonVars
<1>2. TaskOK(task[u], up) /\ Good(file)
  BY <1>1 DEF TasksOK, FileOK
<1>3. \A v \in Users : task[v].pc \notin {"truncate", "write"}
  BY <1>1 DEF Orderly, Others, Busy, At
<1>4. ASSUME NEW ok, Return(u, ok), ~Setting(u) PROVE EncryptorsOK' /\ ConfigOK'
  <2>1. Alone(u) /\ task'[u].pc = "idle"
    BY <1>4, ReturnMeans
  <2>2. MakesStay /\ ~Setting(u)'
    BY <1>1, <1>3, <2>1, MakesAlone DEF Setting, Busy, At
  <2>3. EncryptorsOK'
    BY <1>1, <2>1 DEF EncryptorsOK, At, Alone
  <2> QED BY <1>1, <1>4, <2>1, <2>2, <2>3, AgreeOther
<1>5. ASSUME Now(u, "truncate", task[u].sets, Edited(task[u], file))
      PROVE  EncryptorsOK' /\ ConfigOK'
  <2>1. /\ Alone(u) /\ task'[u].pc = "truncate" /\ task'[u].op = task[u].op
        /\ task'[u].sets = task[u].sets /\ task'[u].buf = Edited(task[u], file)
    BY <1>5, NowMeans
  <2>2. Setting(u)' = Setting(u) /\ Handling(u)' = Handling(u)
    BY <1>1, <2>1 DEF Setting, Handling, Busy, At
  <2>3. \A v \in Users : task'[v].pc \in {"truncate", "write"} => v = u
    BY <1>3, <2>1 DEF Alone
  <2>4. CASE ~Setting(u)
    <3>1. task[u].op \in {"encrypt", "decrypt"}
      BY <1>1, <1>2, <2>4 DEF Setting, Busy, At, TaskOK, Sets, HandlerOps, LocalOps
    <3>2. Agrees(file, Edited(task[u], file))
      BY <1>2, <3>1, EditedAgrees
    <3>3. EncryptorsOK'
      BY <1>1, <2>1, <2>3, <3>2 DEF EncryptorsOK, At
    <3>4. MakesStay
      <4>1. \A s : Agrees(Rewritten(file, s), Rewritten(Edited(task[u], file), s))
        BY <3>2, RewrittenBoth
      <4>2. ASSUME NEW c, NEW s, Makes(c, file, task, s) PROVE Makes(c, file', task', s)
        <5>1. Agrees(c, Rewritten(file, s))
          BY <1>3, <4>2 DEF Makes
        <5>2. Agrees(c, Rewritten(Edited(task[u], file), s))
          BY <4>1, <5>1, AgreesTrans
        <5> QED BY <1>1, <2>1, <2>3, <5>1, <5>2 DEF Makes
      <4> QED BY <4>2 DEF MakesStay
    <3> QED BY <1>1, <2>1, <2>2, <2>4, <3>3, <3>4, AgreeOther
  <2>5. CASE Setting(u)
    <3>1. Edited(task[u], file) = Rewritten(file, task[u].sets)
      BY <2>5 DEF Edited, Setting, Sets, HandlerOps
    <3>2. \A v \in Users \ {u} : ~Setting(v) /\ ~Setting(v)'
      BY <2>1, <2>5, AloneSets
    <3>3. EncryptorsOK'
      BY <2>1, <2>2, <2>3, <2>5 DEF EncryptorsOK, Setting, At
    <3> SUFFICES ASSUME up PROVE ConfigOK'
      BY <1>1, <3>3 DEF ConfigOK
    <3>4. SetOK(u) /\ Within(task[u].sets, cfg)
      BY <1>1, <2>5 DEF ConfigOK, SetOK, Configured, At
    <3>5. Handling(u) => Agrees(cfg, Edited(task[u], file))
      BY <1>1, <1>3, <3>1, <3>4 DEF SetOK, Makes
    <3>6. SetOK(u)'
      BY <1>1, <2>1, <2>2, <3>4, <3>5 DEF SetOK, At
    <3>7. CASE Handling(u)
      <4>1. Behind(u)' /\ Unset(u)'
        BY <2>1, <2>2, <3>7 DEF Behind, Unset
      <4> QED BY <3>2, <3>6, <4>1, AgreeSetter
    <3>8. CASE ~Handling(u)
      <4>1. \A v \in Users : ~Handling(v)
        BY <3>2, <3>8 DEF Handling, Setting, Sets
      <4>2. Makes(cfg, file, task, NoLines) /\ \A v \in guardian : v.plain = cfg["guard"].plain
        BY <4>1 DEF ConfigOK, FileAgrees, ModuleAgrees, Behind, Unset
      <4>3. Agrees(cfg, file)
        BY <1>3, <4>2, MakesNothing
      <4>4. Agrees(cfg, Edited(task[u], file))
        BY <3>1, <3>4, <4>3, RewrittenWithin
      <4>5. Makes(cfg', file', task', NoLines)
        BY <1>1, <2>1, <2>3, <4>3, <4>4, MakesNothing
      <4> QED BY <1>1, <3>2, <3>6, <4>2, <4>5, AgreeSetter
    <3> QED BY <3>7, <3>8
  <2> QED BY <2>4, <2>5
<1>6. \/ ~Setting(u) /\ \E ok : Return(u, ok)
      \/ Now(u, "truncate", task[u].sets, Edited(task[u], file))
  <2>1. task[u].op \in {"encrypt", "decrypt"} => ~Setting(u)
    BY DEF Setting, Sets, HandlerOps
  <2> QED BY <2>1 DEF ReadFile
<1> QED BY <1>4, <1>5, <1>6

LEMMA AgreeTruncate ==
  ASSUME TasksOK, EncryptorsOK, ConfigOK, OneRewrites, OneSets, Orderly',
         NEW u \in Users, Truncate(u)
  PROVE  EncryptorsOK' /\ ConfigOK'
<1>1. At(u, "truncate") /\ UNCHANGED <<up, cfg, guardian>> /\ Goto(u, "write")
  BY DEF Truncate, Orderly, daemonVars
<1>2. /\ Alone(u) /\ task'[u].pc = "write" /\ task'[u].op = task[u].op
      /\ task'[u].sets = task[u].sets /\ task'[u].buf = task[u].buf
  BY <1>1, GotoMeans
<1>3. Setting(u)' = Setting(u) /\ Handling(u)' = Handling(u)
  BY <1>1, <1>2 DEF Setting, Handling, Busy, At
<1>4. \A v \in Users : task'[v].pc \in {"truncate", "write"} => v = u
  BY <1>1, <1>2 DEF OneRewrites, Rewriting, At, Alone
<1>5. EncryptorsOK'
  BY <1>2, <1>4 DEF EncryptorsOK, At
<1>6. MakesStay
  BY <1>1, <1>2, <1>4 DEF MakesStay, Makes, At
<1>7. CASE ~Setting(u)
  BY <1>1, <1>2, <1>3, <1>5, <1>6, <1>7, AgreeOther
<1>8. CASE Setting(u)
  <2>1. \A v \in Users \ {u} : ~Setting(v) /\ ~Setting(v)'
    BY <1>2, <1>8, AloneSets
  <2> SUFFICES ASSUME up PROVE ConfigOK'
    BY <1>1, <1>5 DEF ConfigOK
  <2>2. SetOK(u) /\ Within(task[u].sets, cfg)
    BY <1>1, <1>8 DEF ConfigOK, SetOK, Configured, At
  <2>3. SetOK(u)'
    BY <1>1, <1>2, <2>2 DEF SetOK, At
  <2>4. CASE Handling(u)
    <3>1. Agrees(cfg, task[u].buf)
      BY <1>1, <2>2, <2>4 DEF SetOK
    <3>2. Makes(cfg', file', task', NoLines)
      BY <1>1, <1>2, <1>4, <3>1, MakesNothing
    <3>3. Unset(u)'
      BY <1>2, <1>3, <2>4 DEF Unset
    <3> QED BY <2>1, <2>3, <3>2, <3>3, AgreeSetter
  <2>5. CASE ~Handling(u)
    <3>1. \A v \in Users : ~Handling(v)
      BY <2>1, <2>5 DEF Handling, Setting, Sets
    <3>2. Makes(cfg, file, task, NoLines) /\ \A v \in guardian : v.plain = cfg["guard"].plain
      BY <3>1 DEF ConfigOK, FileAgrees, ModuleAgrees, Behind, Unset
    <3>3. Makes(cfg', file', task', NoLines)
      BY <1>1, <1>6, <3>2 DEF MakesStay
    <3> QED BY <1>1, <2>1, <2>3, <3>2, <3>3, AgreeSetter
  <2> QED BY <2>4, <2>5
<1> QED BY <1>7, <1>8

LEMMA AgreeWrite ==
  ASSUME TasksOK, EncryptorsOK, ConfigOK, OneRewrites, OneSets, NEW u \in Users, WriteFile(u)
  PROVE  EncryptorsOK' /\ ConfigOK'
<1>1. /\ At(u, "write") /\ UNCHANGED <<up, cfg, guardian>> /\ file' = task[u].buf
      /\ AfterFile(u)
  BY DEF WriteFile, daemonVars
<1>2. /\ Alone(u)
      /\ \/ /\ task[u].op \in HandlerOps /\ task'[u].pc = "guardian"
            /\ task'[u].op = task[u].op /\ task'[u].sets = task[u].sets
         \/ task[u].op \notin HandlerOps /\ task'[u].pc = "idle"
  BY <1>1, AfterFileMeans
<1>3. \A v \in Users : task'[v].pc \notin {"truncate", "write"}
  BY <1>1, <1>2 DEF OneRewrites, Rewriting, At, Alone
<1>4. EncryptorsOK'
  BY <1>3 DEF EncryptorsOK, At
<1>5. MakesStay
  BY <1>1, <1>3 DEF MakesStay, Makes, At
<1>6. CASE ~Setting(u)
  <2>1. ~Setting(u)'
    BY <1>1, <1>2, <1>6 DEF Setting, Busy, At
  <2> QED BY <1>1, <1>2, <1>4, <1>5, <1>6, <2>1, AgreeOther
<1>7. CASE Setting(u)
  <2>1. \A v \in Users \ {u} : ~Setting(v) /\ ~Setting(v)'
    BY <1>2, <1>7, AloneSets
  <2> SUFFICES ASSUME up PROVE ConfigOK'
    BY <1>1, <1>4 DEF ConfigOK
  <2>2. \A v \in Users : ~Behind(v)
    BY <1>1, <2>1 DEF Behind, Handling, Setting, Sets, At
  <2>3. Makes(cfg', file', task', NoLines)
    BY <1>1, <1>5, <2>2 DEF ConfigOK, FileAgrees, MakesStay
  <2>4. Within(task[u].sets, cfg)
    BY <1>1, <1>7 DEF ConfigOK, SetOK, Configured, At
  <2>5. SetOK(u)'
    BY <1>1, <1>2, <2>4 DEF SetOK, Configured, Setting, Busy, At
  <2>6. CASE task[u].op \in HandlerOps
    <3>1. Unset(u)'
      BY <1>2, <2>6 DEF Unset, Handling, Busy, At
    <3> QED BY <2>1, <2>3, <2>5, <3>1, AgreeSetter
  <2>7. CASE task[u].op \notin HandlerOps
    <3>1. \A v \in Users : ~Unset(v)
      BY <2>1, <2>7 DEF Unset, Handling, Setting, Sets
    <3>2. \A v \in guardian : v.plain = cfg["guard"].plain
      BY <3>1 DEF ConfigOK, ModuleAgrees
    <3> QED BY <1>1, <2>1, <2>3, <2>5, <3>2, AgreeSetter
  <2> QED BY <2>6, <2>7
<1> QED BY <1>6, <1>7

LEMMA AgreeKill ==
  ASSUME TasksOK, EncryptorsOK, ConfigOK, OneSets, Orderly', NEW u \in Users, KillCommand(u)
  PROVE  EncryptorsOK' /\ ConfigOK'
<1>1. /\ UNCHANGED <<file, up, cfg, guardian>> /\ Return(u, FALSE) /\ ~At(u, "write")
      /\ task[u].op \notin HandlerOps \/ At(u, "code")
  BY DEF KillCommand, Orderly, daemonVars, InDaemon
<1>2. Alone(u) /\ task'[u].pc = "idle"
  BY <1>1, ReturnMeans
<1>3. EncryptorsOK'
  BY <1>1, <1>2 DEF EncryptorsOK, At, Alone
<1>4. MakesStay
  BY <1>1, <1>2, MakesAlone DEF At
<1>5. ~Setting(u)' /\ SetOK(u)'
  BY <1>2 DEF SetOK, Configured, Handling, Setting, Busy, At
<1>6. CASE ~Setting(u)
  BY <1>1, <1>2, <1>3, <1>4, <1>5, <1>6, AgreeOther
<1>7. CASE Setting(u)
  <2>1. \A v \in Users \ {u} : ~Setting(v) /\ ~Setting(v)'
    BY <1>2, <1>7, AloneSets
  <2>2. \A v \in Users : ~Behind(v) /\ ~Unset(v)
    BY <1>1, <2>1 DEF Behind, Unset, Handling, Setting, Sets, At
  <2>3. up' => Makes(cfg', file', task', NoLines)
               /\ \A v \in guardian' : v.plain = cfg'["guard"].plain
    BY <1>1, <1>4, <2>2 DEF ConfigOK, FileAgrees, ModuleAgrees, MakesStay
  <2> QED BY <1>3, <1>5, <2>1, <2>3, AgreeSetter
<1> QED BY <1>6, <1>7

LEMMA AgreeStart ==
  ASSUME EncryptorsOK, Quiet', StartDaemon, file # Missing
  PROVE  EncryptorsOK' /\ ConfigOK'
<1>1. /\ UNCHANGED <<file, environment, task>> /\ cfg' = Loaded
      /\ guardian' \in {{}, {Loaded[k] : k \in {"guard"} \cap DOMAIN Loaded}}
      /\ overlapped' = (overlapped \/ \E u \in Users : Busy(u) /\ Sets(task[u].op))
      /\ disturbed' = (disturbed \/ \E u \in Users : At(u, "truncate") \/ At(u, "write"))
  BY DEF StartDaemon
<1>2. EncryptorsOK'
  BY <1>1 DEF EncryptorsOK, At
<1>3. \A u \in Users : ~Setting(u)' /\ task'[u].pc \notin {"truncate", "write"}
  BY <1>1 DEF Quiet, Orderly, Setting, Busy, At
<1>4. Loaded = Rewritten(file, NoLines)
  BY <1>1 DEF Loaded, Quiet
<1>5. Makes(cfg', file', task', NoLines)
  <2>1. Agrees(Loaded, file)
    BY <1>4, RewrittenNothing
  <2> QED BY <1>1, <1>3, <2>1, MakesNothing
<1>6. \A v \in guardian' : v.plain = cfg'["guard"].plain
  BY <1>1
<1>7. \A u \in Users : SetOK(u)'
  BY <1>3 DEF SetOK, Configured, Handling, Setting, Sets
<1> QED BY <1>2, <1>5, <1>6, <1>7 DEF ConfigOK, FileAgrees, ModuleAgrees

LEMMA AgreeStop ==
  ASSUME TasksOK, EncryptorsOK, StopDaemon
  PROVE  EncryptorsOK' /\ ConfigOK'
<1>1. up' = FALSE /\ file' = file
  BY DEF StopDaemon
<1>2. \A t : Again(t).pc = "read"
  BY DEF Again
<1>3. ASSUME NEW v \in Users, At(v, "truncate")' PROVE task'[v] = task[v]
  BY <1>2, <1>3, StopMeans DEF At
<1>4. EncryptorsOK'
  BY <1>1, <1>3 DEF EncryptorsOK, At
<1> QED BY <1>1, <1>4 DEF ConfigOK

LEMMA AgreeStutter ==
  ASSUME EncryptorsOK, ConfigOK, UNCHANGED <<file, up, cfg, guardian, task>>
  PROVE  EncryptorsOK' /\ ConfigOK'
<1>1. EncryptorsOK'
  BY DEF EncryptorsOK, At
<1>2. \A u \in Users : SetOK(u)' = SetOK(u)
  BY DEF SetOK, Configured, Handling, Setting, Busy, At
<1>3. \A u \in Users : Behind(u)' = Behind(u) /\ Unset(u)' = Unset(u)
  BY DEF Behind, Unset, Handling, Busy, At
<1> QED BY <1>1, <1>2, <1>3 DEF ConfigOK, FileAgrees, ModuleAgrees

LEMMA QuietBefore ==
  ASSUME Inv, [Next]_vars, Quiet'
  PROVE  Quiet
<1>1. environment' = environment
  BY DEF Next, Command, Step, EncryptEnv, DecryptEnv, GuardUnlock, GuardImport, GuardAsk, Begin,
         Finalize, DecryptConfig, Unlocked, ConfigureGuardian, SetGuardian, ReadFile, NoFile,
         Truncate, WriteFile, KillCommand, StartDaemon, StopDaemon, vars
<1> QED BY <1>1, OrderlyBefore DEF Quiet

LEMMA AgreeNext ==
  ASSUME Inv, PlacesOK, KeptInv, RewritesInv, SetsInv, SetsInv', AgreeInv, [Next]_vars
  PROVE  AgreeInv'
<1> SUFFICES ASSUME Quiet' PROVE EncryptorsOK' /\ ConfigOK'
  BY DEF AgreeInv
<1>0. Quiet /\ Orderly' /\ TasksOK /\ FileOK /\ CfgOK /\ EncryptorsOK /\ ConfigOK
  BY QuietBefore DEF Inv, AgreeInv, Quiet
<1>1. OneRewrites /\ OneSets /\ OneSets' /\ file # Missing
  BY <1>0 DEF Quiet, Orderly, RewritesInv, SetsInv, KeptInv, Kept, Calm
<1>2. ASSUME NEW u \in Users, Command(u) PROVE EncryptorsOK' /\ ConfigOK'
  BY <1>0, <1>1, <1>2, AgreeCommand
<1>3. ASSUME NEW u \in Users, Step(u) PROVE EncryptorsOK' /\ ConfigOK'
  <2>1. ~NoFile(u)
    BY <1>1 DEF NoFile
  <2> QED BY <1>0, <1>1, <1>3, <2>1, AgreeHandler, AgreeRead, AgreeTruncate, AgreeWrite DEF Step
<1>4. ASSUME NEW u \in Users, KillCommand(u) PROVE EncryptorsOK' /\ ConfigOK'
  BY <1>0, <1>1, <1>4, AgreeKill
<1>5. CASE StartDaemon
  BY <1>0, <1>1, <1>5, AgreeStart
<1>6. CASE StopDaemon
  BY <1>0, <1>6, AgreeStop
<1>7. CASE UNCHANGED vars
  <2>1. UNCHANGED <<file, up, cfg, guardian, task>>
    BY <1>7 DEF vars, daemonVars
  <2> QED BY <1>0, <2>1, AgreeStutter
<1> QED BY <1>2, <1>3, <1>4, <1>5, <1>6, <1>7 DEF Next

\* For every number of users, commands and failures: credentials that were set one command
\* at a time are the same in the file, in the daemon's configuration and in its guardian
\* module once the command is over (configureGuardian, handleGuardImport, GuardUnlock).
THEOREM EnvSecretsAgree == Spec => []SecretsAgree
<1> DEFINE All == Inv /\ PlacesOK /\ KeptInv /\ RewritesInv /\ SetsInv /\ AgreeInv
<1>1. Init => All
  BY InitInv, InitLink, InitAgree
<1>2. All /\ [Next]_vars => All'
  BY NextInv, PlacesNext, KeptNext, RewritesNext, SetsNext, AgreeNext
<1>3. All => SecretsAgree
  <2> SUFFICES ASSUME All, Undisturbed, up, environment = NoLines,
                      \A u \in Users : ~At(u, "write")
               PROVE  /\ Texts(cfg) = Texts(file)
                      /\ \A v \in guardian : v.plain = cfg["guard"].plain
    BY DEF SecretsAgree
  <2>1. Quiet /\ \A u \in Users : ~Setting(u)
    BY DEF Undisturbed, Quiet, Orderly, Setting
  <2>2. \A u \in Users : ~Behind(u) /\ ~Unset(u)
    BY <2>1 DEF Behind, Unset, Handling, Setting, Sets
  <2>3. Makes(cfg, file, task, NoLines) /\ \A v \in guardian : v.plain = cfg["guard"].plain
    BY <2>1, <2>2 DEF AgreeInv, ConfigOK, FileAgrees, ModuleAgrees
  <2>4. Agrees(cfg, file)
    BY <2>3, MakesNothing DEF At
  <2> QED BY <2>3, <2>4 DEF Agrees, Texts
<1> HIDE DEF All
<1> QED BY <1>1, <1>2, <1>3, PTL DEF Spec
=============================================================================
