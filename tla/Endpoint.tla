-------------------------------- MODULE Endpoint --------------------------------
(***************************************************************************)
(* Where the daemon listens (resolveSocketPath in cmd/g-mand/config.go,    *)
(* resolveIPCAddress in grpc.go) and where gmanctl looks for it            *)
(* (getIPCConnection in cmd/gmanctl/client.go).  Both read the environment *)
(* and the flags of their own process, which may differ.                   *)
(*                                                                         *)
(* The environment of a process is a record: net, addr, path and container *)
(* are GMAN_IPC_NET, GMAN_IPC_ADDR, GMAN_SOCKET_PATH and GMAN_CONTAINER;   *)
(* socket and tcp are the flags.  g-mand has no tcp flag.                  *)
(***************************************************************************)

Unset == "unset"
Hosts == [windows : BOOLEAN, home : BOOLEAN]   \* the machine; home: it has one
Environments ==
  [net : {Unset, "unix", "tcp"}, addr : {Unset, "addr"}, path : {Unset, "path"},
   container : BOOLEAN, socket : {Unset, "socket"}, tcp : {Unset, "tcp"}]
DaemonEnvironments == {e \in Environments : e.tcp = Unset}

EnvOr(value, fallback) == IF value # Unset THEN value ELSE fallback
StringEnvOrFlag(flag, value, fallback) == EnvOr(flag, EnvOr(value, fallback))

DefaultNet(host) == IF host.windows THEN "tcp" ELSE "unix"
DefaultTCP == "127.0.0.1:50051"
DefaultSockPath(host) == IF host.home THEN "~/.config/gman/gman.sock" ELSE "gman.sock"

ResolveSocketPath(host, env) ==
  StringEnvOrFlag(env.socket, env.path,
                  IF env.container THEN "/tmp/gman.sock" ELSE DefaultSockPath(host))

DaemonAddress(host, env) ==
  LET net == EnvOr(env.net, DefaultNet(host))
  IN [net |-> net, addr |-> EnvOr(env.addr,
        IF net = "tcp" THEN DefaultTCP ELSE ResolveSocketPath(host, env))]

\* gmanctl knows neither GMAN_SOCKET_PATH nor GMAN_CONTAINER.
ClientAddress(host, env) ==
  LET net == IF env.socket # Unset THEN "unix"
             ELSE IF env.tcp # Unset THEN "tcp"
             ELSE EnvOr(env.net, DefaultNet(host))
      addr == StringEnvOrFlag(env.socket, env.tcp, env.addr)
  IN [net |-> net, addr |-> EnvOr(addr,
        IF net = "tcp" THEN DefaultTCP ELSE DefaultSockPath(host))]

\* The configurations in which the two are bound to meet: the same network and address
\* given to both, or none, and then nothing that only the daemon reads.
Agreeing(host, daemon, gmanctl) ==
  /\ gmanctl.socket = Unset /\ gmanctl.tcp = Unset
  /\ gmanctl.net = daemon.net /\ gmanctl.addr = daemon.addr
  /\ \/ daemon.addr # Unset
     \/ EnvOr(daemon.net, DefaultNet(host)) = "tcp"
     \/ daemon.path = Unset /\ daemon.socket = Unset /\ ~daemon.container
=============================================================================
