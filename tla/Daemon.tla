-------------------------------- MODULE Daemon --------------------------------
(***************************************************************************)
(* ex27_daemon: invocations of daemon.c that share a lock file, a socket   *)
(* path and a configuration file, and invocations of client.c.  A crash or *)
(* a kill ends an invocation; a restart is another one.                    *)
(*                                                                         *)
(* Signal handlers run on the only thread of a process: the SIGHUP handler *)
(* is one step, the SIGINT handler one step per system call, since other   *)
(* processes run between its calls.                                        *)
(***************************************************************************)
EXTENDS Integers, Sequences

CONSTANTS
    Daemons,     \* invocations of daemon.c
    Clients,     \* invocations of client.c
    Configs,     \* contents the configuration file may take
    ClientPath,  \* the socket path compiled into client.c
    NoConfig,    \* stands for a configuration file that cannot be opened
    Nobody,      \* no daemon
    MaxEdits, MaxHups, MaxKills   \* bounds: edits, SIGHUPs, kills

Tags == {"lockfile", "socket", "checkfile"}

\* A configured value is its name and its length: "" is a zeroed buffer,
\* "garbled" a name followed by the tail of a longer one.
Value(n, l) == [name |-> n, len |-> l]

Names == {"", "garbled", ClientPath} \cup
         UNION {{f[t].name : t \in DOMAIN f} : f \in Configs}

ClientStates == {"off", "waiting", "refused", "eof", "quit"}

ASSUME DaemonAssumption ==
    /\ \A f \in Configs : DOMAIN f \subseteq Tags
                         /\ {"lockfile", "socket"} \subseteq DOMAIN f
    /\ \A f \in Configs : \A t \in DOMAIN f :
           f[t].len \in Nat /\ f[t] = Value(f[t].name, f[t].len)
    /\ Configs # {} /\ NoConfig \notin Configs /\ Nobody \notin Daemons
    /\ Names \cap ClientStates = {}
    /\ {MaxEdits, MaxHups, MaxKills} \subseteq Nat

VARIABLES
    config, edits,  \* the configuration file; how often it was edited
    pc,             \* where each daemon is
    conf,           \* each daemon's lock_filename, socket_filename, filename
    hupOk,          \* the daemons that handle SIGHUP: those that daemonized
    locks,          \* owner of the lock on each lock file
    bound,          \* whose socket each path leads to, alive or not
    sock,           \* state of each daemon's socket_descriptor
    backlog,        \* clients a daemon has not answered yet, in order
    client,         \* where each client is, or the file whose size it was told
    hups, kills,    \* SIGHUPs and kills so far
    released        \* daemons that released the lock on line 238

vars == <<config, edits, pc, conf, hupOk, locks, bound, sock, backlog, client,
          hups, kills, released>>
file   == <<config, edits>>
proc   == <<conf, hupOk, released>>
net    == <<backlog, client>>
bounds == <<hups, kills>>

Ended    == {"off", "exited", "killed"}
Handling == {"hclose", "hunlink", "hunlock"}

Goto(d, l)        == pc' = [pc EXCEPT ![d] = l]
Move(d, from, to) == pc[d] = from /\ Goto(d, to)
Path(d)           == conf[d]["socket"].name
LockPath(d)       == conf[d]["lockfile"].name

Init ==
    /\ config \in Configs /\ edits = 0
    /\ pc = [d \in Daemons |-> "off"]
    /\ conf = [d \in Daemons |-> [t \in Tags |-> Value("", 0)]]
    /\ hupOk = {} /\ released = {}
    /\ locks = [n \in Names |-> Nobody]
    /\ bound = [n \in Names |-> Nobody]
    /\ sock = [d \in Daemons |-> "closed"]
    /\ backlog = [d \in Daemons |-> <<>>]
    /\ client = [c \in Clients |-> "off"]
    /\ hups = 0 /\ kills = 0

-----------------------------------------------------------------------------
(* The configuration.                                                      *)

\* The administrator replaces the file, or removes it.
EditConfig ==
    /\ edits < MaxEdits
    /\ config' \in (Configs \cup {NoConfig}) \ {config}
    /\ edits' = edits + 1
    /\ UNCHANGED <<pc, proc, locks, bound, sock, net, bounds>>

\* memcpy of strlen(value) bytes: without its terminator a shorter value does
\* not end the longer one that was there.
Overlay(old, new) == IF new.len >= old.len THEN new
                     ELSE Value("garbled", old.len)

\* read_config: each tag that the file has overwrites its buffer.
ReadConfig(old) ==
    [t \in Tags |-> IF t \in DOMAIN config THEN Overlay(old[t], config[t])
                    ELSE old[t]]

-----------------------------------------------------------------------------
(* How a process ends.                                                     *)

Unlocked(d) == [n \in Names |-> IF locks[n] = d THEN Nobody ELSE locks[n]]

\* Its locks go, its sockets close, the path of its socket stays; clients it
\* has not answered read the end of the stream.
End(d, how) ==
    /\ Goto(d, how)
    /\ locks' = Unlocked(d)
    /\ sock' = [sock EXCEPT ![d] = "closed"]
    /\ backlog' = [backlog EXCEPT ![d] = <<>>]
    /\ client' = [c \in Clients |->
           IF client[c] = "waiting" /\ \E n \in DOMAIN backlog[d] : backlog[d][n] = c
           THEN "eof" ELSE client[c]]
    /\ UNCHANGED <<file, proc, bound>>

-----------------------------------------------------------------------------
(* A daemon, from main to the accept loop.                                 *)

\* main installs the SIGINT handler and reads the configuration; its argument
\* decides whether it daemonizes.
Start(d) ==
    /\ pc[d] = "off"
    /\ IF config = NoConfig
       THEN Goto(d, "exited") /\ UNCHANGED conf
       ELSE /\ conf' = [conf EXCEPT ![d] = ReadConfig(conf[d])]
            /\ Goto(d, "daemonize") \/ Goto(d, "lock")
    /\ UNCHANGED <<file, hupOk, released, locks, bound, sock, net, bounds>>

\* The parents of the two forks exit; what goes on is one process.
Daemonize(d) ==
    /\ Move(d, "daemonize", "lock")
    /\ hupOk' = hupOk \cup {d}
    /\ UNCHANGED <<file, conf, released, locks, bound, sock, net, bounds>>

\* Variant: start_service goes on when lock_file reports that the lock is taken.
LockFileIgnored(d) ==
    /\ Move(d, "lock", "unlink")
    /\ locks' = [locks EXCEPT ![LockPath(d)] = IF @ = Nobody THEN d ELSE @]
    /\ UNCHANGED <<file, proc, bound, sock, net, bounds>>

\* lock_file does not wait: a lock that is taken, or a file that cannot be
\* opened, ends the invocation.
LockFile(d) ==
    /\ \/ /\ locks[LockPath(d)] = Nobody
          /\ Move(d, "lock", "unlink")
          /\ locks' = [locks EXCEPT ![LockPath(d)] = d]
       \/ Move(d, "lock", "exited") /\ UNCHANGED locks
    /\ UNCHANGED <<file, proc, bound, sock, net, bounds>>

\* Variant: the socket of an earlier run is not removed.
UnlinkOldSkipped(d) ==
    /\ Move(d, "unlink", "socket")
    /\ UNCHANGED <<file, proc, locks, bound, sock, net, bounds>>

UnlinkOld(d) ==
    /\ Move(d, "unlink", "socket")
    /\ bound' = [bound EXCEPT ![Path(d)] = Nobody]
    /\ UNCHANGED <<file, proc, locks, sock, net, bounds>>

\* socket(), which may fail.
Socket(d) ==
    /\ \/ Move(d, "socket", "bind") /\ sock' = [sock EXCEPT ![d] = "open"]
       \/ Move(d, "socket", "failed") /\ UNCHANGED sock
    /\ UNCHANGED <<file, proc, locks, bound, net, bounds>>

\* bind() fails when something is at the path.
Bind(d) ==
    /\ Move(d, "bind", IF bound[Path(d)] = Nobody THEN "listen" ELSE "failed")
    /\ bound' = [bound EXCEPT ![Path(d)] = IF @ = Nobody THEN d ELSE @]
    /\ UNCHANGED <<file, proc, locks, sock, net, bounds>>

\* listen(), which may fail.
Listen(d) ==
    /\ \/ Move(d, "listen", "accept") /\ sock' = [sock EXCEPT ![d] = "listening"]
       \/ Move(d, "listen", "failed") /\ UNCHANGED sock
    /\ UNCHANGED <<file, proc, locks, bound, net, bounds>>

\* Variant: an accept that is interrupted loses the connection it had taken
\* and waits for the next.
AcceptLosesClient(d) ==
    /\ backlog[d] # <<>>
    /\ \/ Move(d, "accept", "serve") /\ UNCHANGED backlog
       \/ pc[d] = "accept" /\ UNCHANGED pc
          /\ backlog' = [backlog EXCEPT ![d] = Tail(backlog[d])]
    /\ UNCHANGED <<file, proc, locks, bound, sock, client, bounds>>

Accept(d) ==
    /\ backlog[d] # <<>>
    /\ Move(d, "accept", "serve")
    /\ UNCHANGED <<file, proc, locks, bound, sock, net, bounds>>

\* accept fails at any time, for want of descriptors say: the loop is left.
AcceptFails(d) ==
    /\ Move(d, "accept", "failed")
    /\ UNCHANGED <<file, proc, locks, bound, sock, net, bounds>>

\* stat, write, close.
Answer(d) ==
    /\ Move(d, "serve", "accept")
    /\ client' = [client EXCEPT ![Head(backlog[d])] = conf[d]["checkfile"].name]
    /\ backlog' = [backlog EXCEPT ![d] = Tail(backlog[d])]
    /\ UNCHANGED <<file, proc, locks, bound, sock>>

\* A write that fails leaves the loop and the client's socket open.  A client
\* that is gone means SIGPIPE, which ends the daemon: nothing handles it.
Serve(d) ==
    /\ pc[d] = "serve"
    /\ IF client[Head(backlog[d])] = "waiting"
       THEN \/ Answer(d)
            \/ Goto(d, "failed") /\ UNCHANGED <<file, proc, locks, bound, sock, net>>
       ELSE End(d, "killed")
    /\ UNCHANGED bounds

\* setup_socket returned -1: line 238 releases the lock, and socket_descriptor
\* keeps its value.
ReleaseLock(d) ==
    /\ Move(d, "failed", "return")
    /\ locks' = Unlocked(d)
    /\ released' = released \cup {d}
    /\ UNCHANGED <<file, conf, hupOk, bound, sock, net, bounds>>

\* Variant: start_service leaves its socket to a process that goes on.
ReturnKeepsSocket(d) ==
    /\ Move(d, "return", "exited")
    /\ UNCHANGED <<file, proc, locks, bound, sock, net, bounds>>

Return(d) == pc[d] = "return" /\ End(d, "exited") /\ UNCHANGED bounds

-----------------------------------------------------------------------------
(* Signals.                                                                *)

\* SIGINT arrives anywhere; handle_shutdown does not return, has_interrupt is
\* never read.
Interrupt(d) ==
    /\ pc[d] \notin Ended \cup Handling
    /\ Goto(d, "hclose")
    /\ UNCHANGED <<file, proc, locks, bound, sock, net, bounds>>

\* Variant: the path is removed whether or not there is a socket.
ShutdownCloseAlways(d) ==
    /\ Move(d, "hclose", "hunlink")
    /\ sock' = [sock EXCEPT ![d] = "closed"]
    /\ UNCHANGED <<file, proc, locks, bound, net, bounds>>

\* Line 200: only with a socket is anything closed and unlinked.
ShutdownClose(d) ==
    /\ Move(d, "hclose", IF sock[d] = "closed" THEN "hunlock" ELSE "hunlink")
    /\ sock' = [sock EXCEPT ![d] = "closed"]
    /\ UNCHANGED <<file, proc, locks, bound, net, bounds>>

\* The path is the one configured now, which a SIGHUP may have changed.
ShutdownUnlink(d) ==
    /\ Move(d, "hunlink", "hunlock")
    /\ bound' = [bound EXCEPT ![Path(d)] = Nobody]
    /\ UNCHANGED <<file, proc, locks, sock, net, bounds>>

ShutdownExit(d) == pc[d] = "hunlock" /\ End(d, "exited") /\ UNCHANGED bounds

\* SIGHUP to a daemon that has a handler for it: read_config, on top of what
\* it was doing.  There is no SA_RESTART: an accept that blocks returns EINTR.
Reload(d) ==
    /\ d \in hupOk /\ pc[d] \notin Ended
    /\ hups < MaxHups /\ hups' = hups + 1
    /\ conf' = IF config = NoConfig THEN conf
               ELSE [conf EXCEPT ![d] = ReadConfig(conf[d])]
    /\ \/ UNCHANGED pc
       \/ backlog[d] = <<>> /\ Move(d, "accept", "failed")
    /\ UNCHANGED <<file, hupOk, released, locks, bound, sock, net, kills>>

\* SIGHUP to one that has none.
HangUp(d) ==
    /\ d \notin hupOk /\ pc[d] \notin Ended
    /\ hups < MaxHups /\ hups' = hups + 1
    /\ End(d, "killed")
    /\ UNCHANGED kills

\* SIGKILL or a crash.
Kill(d) ==
    /\ pc[d] \notin Ended
    /\ kills < MaxKills /\ kills' = kills + 1
    /\ End(d, "killed")
    /\ UNCHANGED hups

-----------------------------------------------------------------------------
(* A client.                                                               *)

\* connect: refused when the path leads to no listening socket.
Connect(c) ==
    LET d == bound[ClientPath]
    IN  /\ client[c] = "off"
        /\ IF d # Nobody /\ sock[d] = "listening"
           THEN /\ client' = [client EXCEPT ![c] = "waiting"]
                /\ backlog' = [backlog EXCEPT ![d] = Append(backlog[d], c)]
           ELSE /\ client' = [client EXCEPT ![c] = "refused"]
                /\ UNCHANGED backlog
        /\ UNCHANGED <<file, pc, proc, locks, bound, sock, bounds>>

\* A client that is killed before it reads its answer.
ClientQuits(c) ==
    /\ client[c] = "waiting"
    /\ kills < MaxKills /\ kills' = kills + 1
    /\ client' = [client EXCEPT ![c] = "quit"]
    /\ UNCHANGED <<file, pc, proc, locks, bound, sock, backlog, hups>>

-----------------------------------------------------------------------------
DaemonStep(d) ==
    \/ Daemonize(d) \/ LockFile(d) \/ UnlinkOld(d) \/ Socket(d) \/ Bind(d)
    \/ Listen(d) \/ Accept(d) \/ Serve(d) \/ ReleaseLock(d) \/ Return(d)
    \/ ShutdownClose(d) \/ ShutdownUnlink(d) \/ ShutdownExit(d)

Signal(d) == Interrupt(d) \/ Reload(d) \/ HangUp(d) \/ Kill(d)

Next == \/ \E d \in Daemons :
               Start(d) \/ DaemonStep(d) \/ AcceptFails(d) \/ Signal(d)
        \/ \E c \in Clients : Connect(c) \/ ClientQuits(c)
        \/ EditConfig

Spec == Init /\ [][Next]_vars

\* A daemon that was started keeps running; nobody has to start one, to send
\* a signal or to connect.
FairSpec == Spec /\ \A d \in Daemons : WF_vars(DaemonStep(d))

-----------------------------------------------------------------------------
(* Properties.                                                             *)

\* Types; a process that has ended holds no lock, socket or client.
TypeOK ==
    /\ config \in Configs \cup {NoConfig} /\ edits \in 0 .. MaxEdits
    /\ pc \in [Daemons -> Ended \cup Handling \cup
               {"daemonize", "lock", "unlink", "socket", "bind", "listen",
                "accept", "serve", "failed", "return"}]
    /\ \A d \in Daemons, t \in Tags : conf[d][t].name \in Names
    /\ hupOk \subseteq Daemons /\ released \subseteq Daemons
    /\ locks \in [Names -> Daemons \cup {Nobody}]
    /\ bound \in [Names -> Daemons \cup {Nobody}]
    /\ sock \in [Daemons -> {"closed", "open", "listening"}]
    /\ backlog \in [Daemons -> Seq(Clients)]
    /\ client \in [Clients -> Names \cup ClientStates]
    /\ hups \in 0 .. MaxHups /\ kills \in 0 .. MaxKills
    /\ \A d \in Daemons : pc[d] \in Ended =>
           sock[d] = "closed" /\ backlog[d] = <<>> /\ \A n \in Names : locks[n] # d

\* What the daemons have in common, whatever is edited.
SameFiles ==
    \A f, g \in Configs : f["lockfile"] = g["lockfile"] /\ f["socket"] = g["socket"]

\* Whatever an earlier run left behind, and whoever runs now, the path is free
\* when bind is called on it: the unlink of line 128 is done under the lock.
\* (With SameFiles.)
BindFindsPathFree ==
    \A d \in Daemons : pc[d] = "bind" => bound[Path(d)] = Nobody

\* Until it reaches line 238 a daemon with a socket keeps its path, in spite of
\* the others that start, stop and crash: only a daemon that did release its
\* lock there, and got SIGINT before it ended, may take the path away.
\* (handle_shutdown unlinks on line 202 before it unlocks on line 205, and does
\* nothing in an invocation that never had a socket.)
PathTakenOnlyAfterRelease ==
    [][\A n \in Names, d \in Daemons :
          bound[n] = d /\ bound'[n] # d /\ sock[d] # "closed" /\ d \notin released =>
              \E e \in released : pc[e] = "hunlink"]_vars

\* At most one daemon listens at a time, but for those that have released their
\* lock (line 238) and not ended: they listen on a socket nobody serves.
OneServer ==
    \A d, e \in Daemons :
        sock[d] = "listening" /\ sock[e] = "listening" /\ {d, e} \cap released = {}
        => d = e

\* The daemon that has c in its backlog leaves its clients: on its way out
\* after a failed call or SIGINT, by SIGPIPE for a client before c that is
\* gone (line 171), or by SIGHUP or a kill.
Deserted(c) ==
    \E d \in Daemons :
        /\ \E n \in DOMAIN backlog[d] : backlog[d][n] = c
        /\ pc'[d] \in Ended
        /\ \/ pc[d] \in {"return", "hunlock"}
           \/ pc[d] = "serve" /\ client[Head(backlog[d])] = "quit"
           \/ hups' # hups \/ kills' # kills

\* A client that connected is answered, or sees the end of the stream: no
\* failure, signal or crash of the daemon leaves it waiting.  It sees the end
\* of the stream without an answer only from a daemon that ends.
ClientHears ==
    /\ \A c \in Clients : client[c] = "waiting" ~> client[c] # "waiting"
    /\ [][\A c \in Clients :
             client[c] = "waiting" /\ client'[c] = "eof" => Deserted(c)]_vars

\* "reload via SIGHUP": a daemon that waits for clients and reloads its
\* configuration goes on waiting for clients.
ReloadKeepsServing ==
    [][\A d \in hupOk : hups' # hups /\ pc[d] = "accept" => pc'[d] # "failed"]_vars

\* After a reload clients are told of a file that was configured.
AnswersConfiguredFile == \A c \in Clients : client[c] # "garbled"
=============================================================================
