------------------------------ MODULE DaemonProof ------------------------------
(***************************************************************************)
(* For any number of daemons, clients, edits, signals and kills: one       *)
(* daemon at a time on the socket path, as long as all configurations name *)
(* the same lock file and the same socket; and no client forgotten,        *)
(* whatever they name.                                                     *)
(***************************************************************************)
EXTENDS Daemon, TLAPS

(***************************************************************************)
(* The inductive invariant.                                                *)
(***************************************************************************)

Values == [name : Names, len : Nat]

\* What a daemon has been told, and what one has before it takes the lock.
Typed ==
    /\ conf \in [Daemons -> [Tags -> Values]]
    /\ \A d \in Daemons : pc[d] \in Ended \cup {"daemonize", "lock"} =>
           sock[d] = "closed" /\ backlog[d] = <<>> /\ \A n \in Names : locks[n] # d
    /\ \A d \in Daemons : pc[d] = "serve" => backlog[d] # <<>>

\* The lock file and the socket that all daemons use.
TheConfig == CHOOSE f \in Configs : TRUE
LockValue   == TheConfig["lockfile"]
SocketValue == TheConfig["socket"]
LockName    == LockValue.name
SocketName  == SocketValue.name

Configured ==
    \A d \in Daemons :
        /\ pc[d] = "off" => conf[d] = [t \in Tags |-> Value("", 0)]
        /\ pc[d] \notin Ended => conf[d]["lockfile"] = LockValue /\ conf[d]["socket"] = SocketValue

\* A daemon between lock_file and line 238 holds the lock, and so does one that
\* SIGINT took from there until it has unlinked.
Serving == {"unlink", "socket", "bind", "listen", "accept", "serve", "failed"}

Locked ==
    \A d \in Daemons :
        /\ pc[d] \in Serving => d \notin released
        /\ d \notin released /\ (pc[d] \in Serving \cup {"hunlink"} \/ sock[d] # "closed")
              => locks[LockName] = d
        /\ pc[d] = "return" => d \in released
        /\ pc[d] \in {"daemonize", "lock"} => d \notin released
        /\ pc[d] = "off" => d \notin released
        /\ sock[d] # "closed" => pc[d] \in (Serving \ {"unlink", "socket"}) \cup {"return", "hclose"}
        /\ pc[d] \in {"socket", "bind"} => bound[SocketName] = Nobody

(***************************************************************************)
(* Types.                                                                  *)
(***************************************************************************)

USE DEF Ended, Handling, Tags

LEMMA NamesOfConfigs ==
    /\ "" \in Names /\ "garbled" \in Names
    /\ \A f \in Configs : \A t \in DOMAIN f : t \in Tags /\ f[t] \in Values
  <1>1. \A f \in Configs : \A t \in DOMAIN f : f[t].name \in Names
    <2>. SUFFICES ASSUME NEW f \in Configs, NEW t \in DOMAIN f PROVE f[t].name \in Names
      OBVIOUS
    <2>1. f[t].name \in {f[u].name : u \in DOMAIN f}
      OBVIOUS
    <2>2. {f[u].name : u \in DOMAIN f} \in {{g[u].name : u \in DOMAIN g} : g \in Configs}
      OBVIOUS
    <2>3. f[t].name \in UNION {{g[u].name : u \in DOMAIN g} : g \in Configs}
      BY <2>1, <2>2
    <2>. QED
      BY <2>3 DEF Names
  <1>2. \A f \in Configs : \A t \in DOMAIN f : f[t] = [name |-> f[t].name, len |-> f[t].len]
    BY DaemonAssumption DEF Value
  <1>. QED
    <2>1. "" \in Names /\ "garbled" \in Names
      BY DEF Names
    <2>2. \A f \in Configs : \A t \in DOMAIN f : t \in Tags /\ f[t].len \in Nat
      BY DaemonAssumption
    <2>3. \A f \in Configs : \A t \in DOMAIN f : f[t] \in Values
      BY <1>1, <1>2, <2>2 DEF Values
    <2>. QED
      BY <2>1, <2>2, <2>3

LEMMA OverlayType ==
    ASSUME NEW old \in Values, NEW new \in Values PROVE Overlay(old, new) \in Values
  BY NamesOfConfigs DEF Overlay, Value, Values

\* What is read is well formed, whatever was there before.
LEMMA ReadConfigType ==
    ASSUME NEW old \in [Tags -> Values], config \in Configs
    PROVE  ReadConfig(old) \in [Tags -> Values]
  <1>1. \A t \in Tags : (IF t \in DOMAIN config THEN Overlay(old[t], config[t]) ELSE old[t]) \in Values
    BY NamesOfConfigs, OverlayType
  <1>. QED
    BY <1>1 DEF ReadConfig

LEMMA UnlockedType ==
    ASSUME TypeOK, NEW d \in Daemons
    PROVE  /\ Unlocked(d) \in [Names -> Daemons \cup {Nobody}]
           /\ \A n \in Names : Unlocked(d)[n] # d
           /\ \A n \in Names, e \in Daemons : e # d => (Unlocked(d)[n] = e <=> locks[n] = e)
  BY DaemonAssumption DEF TypeOK, Unlocked

LEMMA PathType ==
    ASSUME Typed, NEW d \in Daemons PROVE Path(d) \in Names /\ LockPath(d) \in Names
  BY DEF Typed, Path, LockPath, Values

LEMMA QueueType ==
    ASSUME NEW S, NEW s \in Seq(S), NEW e \in S
    PROVE  /\ <<>> \in Seq(S) /\ Append(s, e) \in Seq(S)
           /\ s # <<>> => Head(s) \in S /\ Tail(s) \in Seq(S)
  OBVIOUS

LEMMA AppendNotEmpty == ASSUME NEW S, NEW s \in Seq(S), NEW e PROVE Append(s, e) # <<>>
  <1>1. Len(Append(s, e)) = Len(s) + 1 /\ Len(s) \in Nat /\ Len(<<>>) = 0
    OBVIOUS
  <1>. QED
    BY <1>1

LEMMA EndType ==
    ASSUME TypeOK, Typed, NEW d \in Daemons, NEW how \in Ended, End(d, how),
           hups' \in 0 .. MaxHups, kills' \in 0 .. MaxKills
    PROVE  TypeOK' /\ Typed'
  <1>. DEFINE cl == [c \in Clients |->
           IF client[c] = "waiting" /\ \E n \in DOMAIN backlog[d] : backlog[d][n] = c
           THEN "eof" ELSE client[c]]
  <1>1. cl \in [Clients -> Names \cup ClientStates]
    BY DEF TypeOK, ClientStates
  <1>2. /\ pc' = [pc EXCEPT ![d] = how] /\ locks' = Unlocked(d)
        /\ sock' = [sock EXCEPT ![d] = "closed"] /\ backlog' = [backlog EXCEPT ![d] = <<>>]
        /\ client' = cl /\ UNCHANGED <<config, edits, conf, hupOk, released, bound>>
    BY DEF End, Goto, file, proc
  <1>. HIDE DEF cl
  <1>3. <<>> \in Seq(Clients)
    OBVIOUS
  <1>4. /\ backlog' \in [Daemons -> Seq(Clients)] /\ backlog'[d] = <<>>
        /\ \A e \in Daemons : e # d => backlog'[e] = backlog[e]
    BY <1>2, <1>3 DEF TypeOK
  <1>5. /\ \A e \in Daemons : pc'[e] \in Ended \cup {"daemonize", "lock"} =>
             sock'[e] = "closed" /\ backlog'[e] = <<>>
        /\ \A e \in Daemons : pc'[e] = "serve" => backlog'[e] # <<>>
    BY <1>2, <1>4 DEF TypeOK, Typed
  <1>6. \A e \in Daemons : pc'[e] \in Ended \cup {"daemonize", "lock"} => \A n \in Names : locks'[n] # e
    <2>. SUFFICES ASSUME NEW e \in Daemons, pc'[e] \in Ended \cup {"daemonize", "lock"}, NEW n \in Names
                  PROVE  locks'[n] # e
      OBVIOUS
    <2>1. CASE e = d
      BY <1>2, <2>1, UnlockedType
    <2>2. CASE e # d
      BY <1>2, <2>2, UnlockedType DEF TypeOK, Typed
    <2>. QED
      BY <2>1, <2>2
  <1>7. Typed'
    BY <1>2, <1>5, <1>6 DEF Typed
  <1>8. TypeOK'
    BY <1>1, <1>2, <1>4, <1>5, <1>6, UnlockedType DEF TypeOK
  <1>. QED
    BY <1>7, <1>8

LEMMA InitType == Init => TypeOK /\ Typed
  <1>. SUFFICES ASSUME Init PROVE TypeOK /\ Typed
    OBVIOUS
  <1>1. Value("", 0) \in Values
    BY NamesOfConfigs DEF Value, Values
  <1>2. conf \in [Daemons -> [Tags -> Values]]
    BY <1>1 DEF Init
  <1>3. <<>> \in Seq(Clients) /\ Nobody \notin Daemons
    BY DaemonAssumption
  <1>4. /\ pc = [d \in Daemons |-> "off"] /\ sock = [d \in Daemons |-> "closed"]
        /\ backlog = [d \in Daemons |-> <<>>] /\ locks = [n \in Names |-> Nobody]
        /\ bound = [n \in Names |-> Nobody] /\ client = [c \in Clients |-> "off"]
        /\ config \in Configs /\ edits = 0 /\ hups = 0 /\ kills = 0 /\ hupOk = {} /\ released = {}
    BY DEF Init
  <1>5. Typed
    BY <1>2, <1>3, <1>4 DEF Typed
  <1>6. \A d \in Daemons, t \in Tags : conf[d][t].name \in Names
    BY <1>2 DEF Values
  <1>7. edits \in 0 .. MaxEdits /\ hups \in 0 .. MaxHups /\ kills \in 0 .. MaxKills
    BY <1>4, DaemonAssumption
  <1>8. client \in [Clients -> Names \cup ClientStates]
    BY <1>4 DEF ClientStates
  <1>9. backlog \in [Daemons -> Seq(Clients)]
    BY <1>3, <1>4
  <1>. QED
    BY <1>3, <1>4, <1>5, <1>6, <1>7, <1>8, <1>9 DEF TypeOK

\* What a daemon is told is well formed.
LEMMA ConfType ==
    ASSUME Typed, NEW d \in Daemons, config \in Configs,
           conf' = [conf EXCEPT ![d] = ReadConfig(conf[d])]
    PROVE  conf' \in [Daemons -> [Tags -> Values]]
  <1>1. ReadConfig(conf[d]) \in [Tags -> Values]
    BY ReadConfigType DEF Typed
  <1>. QED
    BY <1>1 DEF Typed

LEMMA ConfNames ==
    ASSUME conf \in [Daemons -> [Tags -> Values]]
    PROVE  \A d \in Daemons, t \in Tags : conf[d][t].name \in Names
  BY DEF Values

LEMMA DaemonTypes ==
    ASSUME TypeOK, Typed, NEW d \in Daemons, Start(d) \/ DaemonStep(d) \/ AcceptFails(d) \/ Signal(d)
    PROVE  TypeOK' /\ Typed'
  <1>. USE DEF Goto, Move, file, proc, net, bounds
  <1>1. CASE Start(d)
    <2>0. conf' \in [Daemons -> [Tags -> Values]]
      BY <1>1, ConfType DEF Start, Typed, TypeOK
    <2>3. \A e \in Daemons, t \in Tags : conf'[e][t].name \in Names
      BY <2>0, ConfNames DEF Values
    <2>1. Typed'
      BY <1>1, <2>0, <2>3 DEF Typed, TypeOK, Start
    <2>2. TypeOK'
      BY <1>1, <2>0, <2>3 DEF Typed, TypeOK, Start
    <2>. QED
      BY <2>1, <2>2
  <1>2. CASE Daemonize(d)
    <2>1. Typed'
      BY <1>2 DEF Typed, TypeOK, Daemonize
    <2>2. TypeOK'
      BY <1>2 DEF Typed, TypeOK, Daemonize
    <2>. QED
      BY <2>1, <2>2
  <1>3. CASE LockFile(d)
    <2>1. Typed'
      BY <1>3, PathType, DaemonAssumption DEF Typed, TypeOK, LockFile
    <2>2. TypeOK'
      <3>1. CASE pc' = [pc EXCEPT ![d] = "unlink"] /\ locks' = [locks EXCEPT ![LockPath(d)] = d]
        <4>1. UNCHANGED <<file, proc, bound, sock, net, bounds>>
          BY <1>3 DEF LockFile
        <4>2. locks' \in [Names -> Daemons \cup {Nobody}]
          BY <3>1, PathType DEF TypeOK
        <4>3. \A e \in Daemons : pc'[e] \in Ended => pc[e] \in Ended /\ e # d
          BY <3>1 DEF TypeOK
        <4>4. \A e \in Daemons : e # d => \A n \in Names : locks[n] # e => locks'[n] # e
          BY <3>1, PathType DEF TypeOK
        <4>. QED
          BY <3>1, <4>1, <4>2, <4>3, <4>4 DEF TypeOK
      <3>2. CASE pc' = [pc EXCEPT ![d] = "exited"] /\ UNCHANGED locks
        BY <1>3, <3>2 DEF Typed, TypeOK, LockFile
      <3>. QED
        BY <1>3, <3>1, <3>2 DEF LockFile
    <2>. QED
      BY <2>1, <2>2
  <1>4. CASE UnlinkOld(d)
    <2>1. Typed'
      BY <1>4, PathType DEF Typed, TypeOK, UnlinkOld
    <2>2. TypeOK'
      BY <1>4, PathType DEF Typed, TypeOK, UnlinkOld
    <2>. QED
      BY <2>1, <2>2
  <1>5. CASE Socket(d)
    <2>1. Typed'
      BY <1>5 DEF Typed, TypeOK, Socket
    <2>2. TypeOK'
      BY <1>5 DEF Typed, TypeOK, Socket
    <2>. QED
      BY <2>1, <2>2
  <1>6. CASE Bind(d)
    <2>1. Typed'
      BY <1>6, PathType DEF Typed, TypeOK, Bind
    <2>2. TypeOK'
      BY <1>6, PathType DEF Typed, TypeOK, Bind
    <2>. QED
      BY <2>1, <2>2
  <1>7. CASE Listen(d)
    <2>1. Typed'
      BY <1>7 DEF Typed, TypeOK, Listen
    <2>2. TypeOK'
      BY <1>7 DEF Typed, TypeOK, Listen
    <2>. QED
      BY <2>1, <2>2
  <1>8. CASE Accept(d)
    <2>1. Typed'
      BY <1>8 DEF Typed, TypeOK, Accept
    <2>2. TypeOK'
      BY <1>8 DEF Typed, TypeOK, Accept
    <2>. QED
      BY <2>1, <2>2
  <1>9. CASE Serve(d)
    <2>1. CASE End(d, "killed")
      BY <1>9, <2>1, EndType DEF Serve, TypeOK
    <2>2. CASE Answer(d)
      <3>1. /\ pc[d] = "serve" /\ pc' = [pc EXCEPT ![d] = "accept"]
            /\ client' = [client EXCEPT ![Head(backlog[d])] = conf[d]["checkfile"].name]
            /\ backlog' = [backlog EXCEPT ![d] = Tail(backlog[d])]
            /\ UNCHANGED <<file, proc, locks, bound, sock, bounds>>
        BY <1>9, <2>2 DEF Serve, Answer
      <3>2. backlog[d] \in Seq(Clients) /\ backlog[d] # <<>>
        BY <3>1 DEF TypeOK, Typed
      <3>3. Head(backlog[d]) \in Clients /\ Tail(backlog[d]) \in Seq(Clients)
        BY <3>2, QueueType
      <3>4. client' \in [Clients -> Names \cup ClientStates]
        BY <3>1, <3>3 DEF TypeOK
      <3>5. backlog' \in [Daemons -> Seq(Clients)]
        BY <3>1, <3>3 DEF TypeOK
      <3>6. TypeOK'
        BY <3>1, <3>4, <3>5 DEF TypeOK
      <3>7. Typed'
        BY <3>1 DEF Typed, TypeOK
      <3>. QED
        BY <3>6, <3>7
    <2>3. CASE Move(d, "serve", "failed") /\ UNCHANGED <<file, proc, locks, bound, sock, net, bounds>>
      <3>1. Typed'
        BY <2>3 DEF Typed, TypeOK
      <3>2. TypeOK'
        BY <2>3 DEF Typed, TypeOK
      <3>. QED
        BY <3>1, <3>2
    <2>. QED
      BY <1>9, <2>1, <2>2, <2>3 DEF Serve
  <1>19. CASE AcceptFails(d)
    <2>1. Typed'
      BY <1>19 DEF Typed, TypeOK, AcceptFails
    <2>2. TypeOK'
      BY <1>19 DEF Typed, TypeOK, AcceptFails
    <2>. QED
      BY <2>1, <2>2
  <1>10. CASE ReleaseLock(d)
    <2>1. Typed'
      BY <1>10, UnlockedType DEF Typed, TypeOK, ReleaseLock
    <2>2. TypeOK'
      BY <1>10, UnlockedType DEF Typed, TypeOK, ReleaseLock
    <2>. QED
      BY <2>1, <2>2
  <1>11. CASE Return(d)
    BY <1>11, EndType, DaemonAssumption DEF Return, TypeOK
  <1>12. CASE ShutdownClose(d)
    <2>1. Typed'
      BY <1>12 DEF Typed, TypeOK, ShutdownClose
    <2>2. TypeOK'
      BY <1>12 DEF Typed, TypeOK, ShutdownClose
    <2>. QED
      BY <2>1, <2>2
  <1>13. CASE ShutdownUnlink(d)
    <2>1. Typed'
      BY <1>13, PathType DEF Typed, TypeOK, ShutdownUnlink
    <2>2. TypeOK'
      BY <1>13, PathType DEF Typed, TypeOK, ShutdownUnlink
    <2>. QED
      BY <2>1, <2>2
  <1>14. CASE ShutdownExit(d)
    BY <1>14, EndType, DaemonAssumption DEF ShutdownExit, TypeOK
  <1>15. CASE Interrupt(d)
    <2>1. Typed'
      BY <1>15 DEF Typed, TypeOK, Interrupt
    <2>2. TypeOK'
      BY <1>15 DEF Typed, TypeOK, Interrupt
    <2>. QED
      BY <2>1, <2>2
  <1>16. CASE Reload(d)
    <2>0. conf' \in [Daemons -> [Tags -> Values]]
      BY <1>16, ConfType DEF Reload, Typed, TypeOK
    <2>3. \A e \in Daemons, t \in Tags : conf'[e][t].name \in Names
      BY <2>0, ConfNames DEF Values
    <2>1. Typed'
      BY <1>16, <2>0, <2>3 DEF Typed, TypeOK, Reload
    <2>2. TypeOK'
      <3>1. hups' \in 0 .. MaxHups
        BY <1>16, DaemonAssumption DEF TypeOK, Reload
      <3>2. /\ pc' = pc \/ pc' = [pc EXCEPT ![d] = "failed"]
            /\ UNCHANGED <<file, hupOk, released, locks, bound, sock, net, kills>>
        BY <1>16 DEF Reload
      <3>. QED
        BY <2>3, <3>1, <3>2 DEF TypeOK
    <2>. QED
      BY <2>1, <2>2
  <1>17. CASE HangUp(d)
    BY <1>17, EndType, DaemonAssumption DEF HangUp, TypeOK
  <1>18. CASE Kill(d)
    BY <1>18, EndType, DaemonAssumption DEF Kill, TypeOK
  <1>. QED
    BY <1>1, <1>2, <1>3, <1>4, <1>5, <1>6, <1>7, <1>8, <1>9, <1>10, <1>11, <1>12,
       <1>13, <1>14, <1>15, <1>16, <1>17, <1>18, <1>19 DEF DaemonStep, Signal

LEMMA TypesKept ==
    ASSUME TypeOK, Typed, [Next]_vars PROVE TypeOK' /\ Typed'
  <1>1. ASSUME NEW d \in Daemons, Start(d) \/ DaemonStep(d) \/ AcceptFails(d) \/ Signal(d)
        PROVE  TypeOK' /\ Typed'
    BY <1>1, DaemonTypes
  <1>2. ASSUME NEW c \in Clients, Connect(c) PROVE TypeOK' /\ Typed'
    <2>1. CASE bound[ClientPath] # Nobody /\ sock[bound[ClientPath]] = "listening"
      <3>. DEFINE d == bound[ClientPath]
      <3>1. ClientPath \in Names
        BY DEF Names
      <3>2. d \in Daemons /\ backlog[d] \in Seq(Clients)
        BY <2>1, <3>1 DEF TypeOK
      <3>3. /\ client' = [client EXCEPT ![c] = "waiting"]
            /\ backlog' = [backlog EXCEPT ![d] = Append(backlog[d], c)]
            /\ UNCHANGED <<file, pc, proc, locks, bound, sock, bounds>>
            /\ sock[d] = "listening"
        BY <1>2, <2>1 DEF Connect
      <3>. HIDE DEF d
      <3>4. Append(backlog[d], c) \in Seq(Clients) /\ Append(backlog[d], c) # <<>>
        BY <1>2, <3>2, QueueType, AppendNotEmpty
      <3>5. client' \in [Clients -> Names \cup ClientStates]
        BY <1>2, <3>3 DEF TypeOK, ClientStates
      <3>6. backlog' \in [Daemons -> Seq(Clients)]
        BY <3>2, <3>3, <3>4 DEF TypeOK
      <3>7. pc[d] \notin Ended \cup {"daemonize", "lock"}
        BY <3>2, <3>3 DEF Typed
      <3>8. TypeOK'
        BY <3>2, <3>3, <3>5, <3>6, <3>7 DEF TypeOK, file, proc, bounds
      <3>9. Typed'
        BY <3>2, <3>3, <3>4, <3>7 DEF Typed, TypeOK, file, proc, bounds
      <3>. QED
        BY <3>8, <3>9
    <2>2. CASE ~(bound[ClientPath] # Nobody /\ sock[bound[ClientPath]] = "listening")
      <3>1. /\ client' = [client EXCEPT ![c] = "refused"]
            /\ UNCHANGED <<file, pc, proc, locks, bound, sock, backlog, bounds>>
        BY <1>2, <2>2 DEF Connect
      <3>2. client' \in [Clients -> Names \cup ClientStates]
        BY <1>2, <3>1 DEF TypeOK, ClientStates
      <3>. QED
        BY <3>1, <3>2 DEF TypeOK, Typed, file, proc, bounds
    <2>. QED
      BY <2>1, <2>2
  <1>3. ASSUME NEW c \in Clients, ClientQuits(c) PROVE TypeOK' /\ Typed'
    <2>1. client' \in [Clients -> Names \cup ClientStates]
      BY <1>3 DEF ClientQuits, TypeOK, ClientStates
    <2>2. kills' \in 0 .. MaxKills
      BY <1>3, DaemonAssumption DEF ClientQuits, TypeOK
    <2>. QED
      BY <1>3, <2>1, <2>2 DEF ClientQuits, TypeOK, Typed, file, proc
  <1>4. CASE EditConfig
    <2>1. edits' \in 0 .. MaxEdits
      BY <1>4, DaemonAssumption DEF EditConfig, TypeOK
    <2>. QED
      BY <1>4, <2>1 DEF EditConfig, TypeOK, Typed, proc, net, bounds
  <1>5. CASE UNCHANGED vars
    BY <1>5 DEF vars, TypeOK, Typed
  <1>. QED
    BY <1>1, <1>2, <1>3, <1>4, <1>5 DEF Next

(***************************************************************************)
(* One lock, one path.                                                     *)
(***************************************************************************)

LEMMA SameValues ==
    ASSUME SameFiles
    PROVE  /\ LockValue \in Values /\ SocketValue \in Values
           /\ LockName \in Names /\ SocketName \in Names
           /\ \A f \in Configs : /\ {"lockfile", "socket"} \subseteq DOMAIN f
                                 /\ f["lockfile"] = LockValue /\ f["socket"] = SocketValue
  <1>1. TheConfig \in Configs
    BY DaemonAssumption DEF TheConfig
  <1>2. \A f \in Configs : {"lockfile", "socket"} \subseteq DOMAIN f
    BY DaemonAssumption
  <1>3. LockValue \in Values /\ SocketValue \in Values
    BY <1>1, <1>2, NamesOfConfigs DEF LockValue, SocketValue
  <1>4. \A f \in Configs : f["lockfile"] = LockValue /\ f["socket"] = SocketValue
    BY <1>1 DEF SameFiles, LockValue, SocketValue
  <1>. QED
    BY <1>2, <1>3, <1>4 DEF Values, LockName, SocketName

\* A reload leaves the lock file and the socket as they are.
LEMMA SameOverlay ==
    /\ \A v \in Values : Overlay(v, v) = v
    /\ \A v \in Values : Overlay(Value("", 0), v) = v
  BY DEF Overlay, Value, Values

LEMMA ConfiguredKept ==
    ASSUME SameFiles, TypeOK, Typed, Configured, NEW d \in Daemons,
           Start(d) \/ DaemonStep(d) \/ AcceptFails(d) \/ Signal(d)
    PROVE  Configured'
  <1>. USE DEF Goto, Move
  <1>1. CASE conf' = [conf EXCEPT ![d] = ReadConfig(conf[d])] /\ config \in Configs /\ pc[d] = "off"
             /\ (pc' = [pc EXCEPT ![d] = "daemonize"] \/ pc' = [pc EXCEPT ![d] = "lock"])
    <2>1. conf[d] = [t \in Tags |-> Value("", 0)]
      BY <1>1 DEF Configured
    <2>2. /\ ReadConfig(conf[d])["lockfile"] = LockValue /\ ReadConfig(conf[d])["socket"] = SocketValue
      BY <1>1, <2>1, SameValues, SameOverlay DEF ReadConfig
    <2>. QED
      BY <1>1, <2>2 DEF Configured, Typed, TypeOK
  <1>2. CASE conf' = [conf EXCEPT ![d] = ReadConfig(conf[d])] /\ config \in Configs /\ pc[d] \notin Ended
             /\ (pc' = pc \/ pc' = [pc EXCEPT ![d] = "failed"])
    <2>1. conf[d]["lockfile"] = LockValue /\ conf[d]["socket"] = SocketValue
      BY <1>2 DEF Configured
    <2>2. /\ ReadConfig(conf[d])["lockfile"] = LockValue /\ ReadConfig(conf[d])["socket"] = SocketValue
      BY <1>2, <2>1, SameValues, SameOverlay DEF ReadConfig
    <2>. QED
      BY <1>2, <2>2 DEF Configured, Typed, TypeOK
  <1>3. CASE conf' = conf /\ \E l : pc' = [pc EXCEPT ![d] = l] /\ (l = "exited" \/ (pc[d] \notin Ended /\ l # "off"))
    BY <1>3 DEF Configured, Typed, TypeOK
  <1>4. CASE conf' = conf /\ pc' = pc
    BY <1>4 DEF Configured
  <1>5. ASSUME Start(d) PROVE Configured'
    BY <1>5, <1>1, <1>3 DEF Start, TypeOK
  <1>6. ASSUME Reload(d) PROVE Configured'
    <2>1. CASE config = NoConfig
      <3>1. conf' = conf /\ (pc' = pc \/ (pc[d] = "accept" /\ pc' = [pc EXCEPT ![d] = "failed"]))
        BY <1>6, <2>1 DEF Reload
      <3>. QED
        BY <3>1, <1>3, <1>4
    <2>2. CASE config # NoConfig
      BY <1>6, <2>2, <1>2 DEF Reload, TypeOK
    <2>. QED
      BY <2>1, <2>2
  <1>7. ASSUME DaemonStep(d) \/ AcceptFails(d) \/ Interrupt(d) \/ HangUp(d) \/ Kill(d) PROVE Configured'
    <2>1. conf' = conf
      BY <1>7 DEF DaemonStep, Daemonize, LockFile, UnlinkOld, Socket, Bind, Listen, Accept, Serve,
                  AcceptFails, Answer, ReleaseLock, Return, ShutdownClose, ShutdownUnlink,
                  ShutdownExit, Interrupt, HangUp, Kill, End, proc
    <2>2. \E l : pc' = [pc EXCEPT ![d] = l] /\ pc[d] \notin Ended /\ l # "off"
      BY <1>7 DEF DaemonStep, Daemonize, LockFile, UnlinkOld, Socket, Bind, Listen, Accept, Serve,
                  AcceptFails, Answer, ReleaseLock, Return, ShutdownClose, ShutdownUnlink,
                  ShutdownExit, Interrupt, HangUp, Kill, End
    <2>. QED
      BY <2>1, <2>2, <1>3
  <1>. QED
    BY <1>5, <1>6, <1>7 DEF Signal

\* The lock file and the socket of a daemon that runs.
LEMMA TheirPaths ==
    ASSUME Configured, NEW d \in Daemons, pc[d] \notin Ended
    PROVE  LockPath(d) = LockName /\ Path(d) = SocketName
  BY DEF Configured, LockPath, Path, LockName, SocketName

LEMMA EndLocked ==
    ASSUME SameFiles, TypeOK, Locked, NEW d \in Daemons, NEW how \in {"exited", "killed"}, End(d, how)
    PROVE  Locked'
  <1>1. /\ pc' = [pc EXCEPT ![d] = how] /\ sock' = [sock EXCEPT ![d] = "closed"]
        /\ UNCHANGED <<released, bound>>
        /\ \A e \in Daemons : e # d => (locks[LockName] = e => locks'[LockName] = e)
    BY UnlockedType, SameValues DEF End, Goto, proc
  <1>. QED
    BY <1>1, SameValues DEF Locked, Serving, TypeOK

LEMMA LockedKept ==
    ASSUME SameFiles, TypeOK, Typed, Configured, Locked, NEW d \in Daemons,
           Start(d) \/ DaemonStep(d) \/ AcceptFails(d) \/ Signal(d)
    PROVE  Locked'
  <1>. USE DEF Goto, Move, file, proc, net, bounds
  <1>1. CASE Start(d)
    BY <1>1 DEF Start, Locked, Serving, TypeOK
  <1>2. CASE Daemonize(d)
    BY <1>2 DEF Daemonize, Locked, Serving, TypeOK
  <1>3. CASE LockFile(d)
    BY <1>3, TheirPaths, SameValues, DaemonAssumption DEF LockFile, Locked, Serving, TypeOK
  <1>4. CASE UnlinkOld(d)
    BY <1>4, TheirPaths, SameValues DEF UnlinkOld, Locked, Serving, TypeOK
  <1>5. CASE Socket(d)
    BY <1>5 DEF Socket, Locked, Serving, TypeOK
  <1>6. CASE Bind(d)
    BY <1>6, TheirPaths, SameValues DEF Bind, Locked, Serving, TypeOK
  <1>7. CASE Listen(d)
    BY <1>7 DEF Listen, Locked, Serving, TypeOK
  <1>8. CASE Accept(d)
    BY <1>8 DEF Accept, Locked, Serving, TypeOK
  <1>9. CASE Serve(d)
    BY <1>9, EndLocked DEF Serve, Answer, Locked, Serving, TypeOK
  <1>19. CASE AcceptFails(d)
    BY <1>19 DEF AcceptFails, Locked, Serving, TypeOK
  <1>10. CASE ReleaseLock(d)
    BY <1>10, UnlockedType, SameValues DEF ReleaseLock, Locked, Serving, TypeOK
  <1>11. CASE Return(d)
    BY <1>11, EndLocked DEF Return
  <1>12. CASE ShutdownClose(d)
    BY <1>12 DEF ShutdownClose, Locked, Serving, TypeOK
  <1>13. CASE ShutdownUnlink(d)
    BY <1>13, TheirPaths, SameValues DEF ShutdownUnlink, Locked, Serving, TypeOK
  <1>14. CASE ShutdownExit(d)
    BY <1>14, EndLocked DEF ShutdownExit
  <1>15. CASE Interrupt(d)
    BY <1>15 DEF Interrupt, Locked, Serving, TypeOK
  <1>16. CASE Reload(d)
    BY <1>16 DEF Reload, Locked, Serving, TypeOK
  <1>17. CASE HangUp(d)
    BY <1>17, EndLocked DEF HangUp
  <1>18. CASE Kill(d)
    BY <1>18, EndLocked DEF Kill
  <1>. QED
    BY <1>1, <1>2, <1>3, <1>4, <1>5, <1>6, <1>7, <1>8, <1>9, <1>10, <1>11, <1>12,
       <1>13, <1>14, <1>15, <1>16, <1>17, <1>18, <1>19 DEF DaemonStep, Signal

(***************************************************************************)
(* The theorems.                                                           *)
(***************************************************************************)

IInv == TypeOK /\ Typed /\ Configured /\ Locked

LEMMA Initial == ASSUME SameFiles, Init PROVE IInv
  <1>1. TypeOK /\ Typed
    BY InitType
  <1>2. Configured
    BY DEF Init, Configured
  <1>3. Locked
    BY DEF Init, Locked, Serving
  <1>. QED
    BY <1>1, <1>2, <1>3 DEF IInv

LEMMA Inductive == ASSUME SameFiles, IInv, [Next]_vars PROVE IInv'
  <1>1. TypeOK' /\ Typed'
    BY TypesKept DEF IInv
  <1>2. ASSUME NEW d \in Daemons, Start(d) \/ DaemonStep(d) \/ AcceptFails(d) \/ Signal(d)
        PROVE  Configured' /\ Locked'
    BY <1>2, ConfiguredKept, LockedKept DEF IInv
  <1>3. CASE UNCHANGED <<pc, proc, locks, bound, sock>>
    <2>1. UNCHANGED <<pc, conf, released, locks, bound, sock>>
      BY <1>3 DEF proc
    <2>2. Configured'
      BY <2>1 DEF IInv, Configured
    <2>3. Locked'
      BY <2>1 DEF IInv, Locked
    <2>. QED
      BY <1>1, <2>2, <2>3 DEF IInv
  <1>. QED
    BY <1>1, <1>2, <1>3 DEF IInv, Next, Connect, ClientQuits, EditConfig, vars, proc

\* Types; an invocation that has ended holds no lock, socket or client.
THEOREM TypeCorrect == Spec => []TypeOK
  <1>1. Init => TypeOK /\ Typed
    BY InitType
  <1>2. (TypeOK /\ Typed) /\ [Next]_vars => (TypeOK /\ Typed)'
    BY TypesKept
  <1>. HIDE DEF Ended, Handling, Tags
  <1>. QED
    BY <1>1, <1>2, PTL DEF Spec

LEMMA Invariant == ASSUME SameFiles PROVE Spec => []IInv
  <1>1. Init => IInv
    BY Initial
  <1>2. IInv /\ [Next]_vars => IInv'
    BY Inductive
  <1>. HIDE DEF Ended, Handling, Tags
  <1>. QED
    BY <1>1, <1>2, PTL DEF Spec

\* At most one daemon serves: the lock is held from lock_file to line 238, and
\* by a daemon that SIGINT took from there until it has unlinked.
THEOREM ServersExclude == ASSUME SameFiles PROVE Spec => []OneServer
  <1>1. IInv => OneServer
    BY DEF IInv, Locked, OneServer
  <1>. HIDE DEF Ended, Handling, Tags
  <1>. QED
    BY <1>1, Invariant, PTL

\* Whatever was left behind, bind finds the path free.
THEOREM BindSucceeds == ASSUME SameFiles PROVE Spec => []BindFindsPathFree
  <1>1. IInv => BindFindsPathFree
    BY TheirPaths DEF IInv, Locked, BindFindsPathFree
  <1>. HIDE DEF Ended, Handling, Tags
  <1>. QED
    BY <1>1, Invariant, PTL

\* The step of PathTakenOnlyAfterRelease.
Taken ==
    \A n \in Names, d \in Daemons :
        bound[n] = d /\ bound'[n] # d /\ sock[d] # "closed" /\ d \notin released =>
            \E e \in released : pc[e] = "hunlink"

LEMMA TakenStep == ASSUME SameFiles, IInv, [Next]_vars PROVE Taken
  <1>. SUFFICES ASSUME NEW n \in Names, NEW d \in Daemons, bound[n] = d, bound'[n] # d,
                       sock[d] # "closed", d \notin released
                PROVE  \E e \in released : pc[e] = "hunlink"
    BY DEF Taken
  <1>1. locks[LockName] = d /\ bound \in [Names -> Daemons \cup {Nobody}] /\ d # Nobody
    BY DaemonAssumption DEF IInv, Locked, TypeOK
  <1>2. ASSUME NEW e \in Daemons, UnlinkOld(e) PROVE FALSE
    <2>1. e = d
      BY <1>1, <1>2 DEF UnlinkOld, Move, IInv, Locked, Serving
    <2>. QED
      BY <1>2, <2>1 DEF UnlinkOld, Move, IInv, Locked, Serving
  <1>3. ASSUME NEW e \in Daemons, Bind(e) PROVE FALSE
    BY <1>1, <1>3, PathType DEF Bind, IInv
  <1>4. ASSUME NEW e \in Daemons, ShutdownUnlink(e) PROVE \E r \in released : pc[r] = "hunlink"
    <2>1. CASE e \in released
      BY <1>4, <2>1 DEF ShutdownUnlink, Move
    <2>2. CASE e \notin released
      <3>1. e = d
        BY <1>1, <1>4, <2>2 DEF ShutdownUnlink, Move, IInv, Locked
      <3>. QED
        BY <1>4, <3>1 DEF ShutdownUnlink, Move, IInv, Locked, Serving
    <2>. QED
      BY <2>1, <2>2
  <1>5. bound' # bound
    BY <1>1
  <1>6. CASE Next
    <2>1. \E e \in Daemons : UnlinkOld(e) \/ Bind(e) \/ ShutdownUnlink(e)
      BY <1>5, <1>6 DEF Next, Start, DaemonStep, Signal, Daemonize, LockFile, Socket, Listen, Accept,
                        AcceptFails, Answer, Serve, ReleaseLock, Return, ShutdownClose,
                        ShutdownExit, Interrupt, Reload, HangUp, Kill, End, Connect, ClientQuits, EditConfig
    <2>. QED
      BY <2>1, <1>2, <1>3, <1>4
  <1>. QED
    BY <1>5, <1>6 DEF vars

\* A daemon with a socket keeps its path until it reaches line 238, but for one
\* that has been there and is shut down by SIGINT.
THEOREM PathKept == ASSUME SameFiles PROVE Spec => PathTakenOnlyAfterRelease
  <1>1. IInv /\ [Next]_vars => [Taken]_vars
    BY TakenStep
  <1>2. Spec => [][Taken]_vars
    <2>. HIDE DEF Ended, Handling, Tags, Taken
    <2>. QED
      BY <1>1, Invariant, PTL DEF Spec
  <1>. QED
    BY <1>2 DEF PathTakenOnlyAfterRelease, Taken

(***************************************************************************)
(* Nobody is forgotten.  This needs nothing of the configurations.         *)
(***************************************************************************)

\* The calls a daemon can be at while clients are in its backlog: after listen,
\* and, once SIGINT took it, until it has ended.
Answering == {"accept", "serve", "failed", "return"} \cup Handling

InBacklog(c, d) == \E n \in DOMAIN backlog[d] : backlog[d][n] = c

\* Who is in a backlog has connected and was not answered.
Unanswered == \A d \in Daemons : \A n \in DOMAIN backlog[d] :
                  client[backlog[d][n]] \in {"waiting", "quit"}

\* Nobody is in two backlogs, or twice in one.
Once == \A d, e \in Daemons : \A m \in DOMAIN backlog[d], n \in DOMAIN backlog[e] :
            backlog[d][m] = backlog[e][n] => d = e /\ m = n

Found == \A c \in Clients : client[c] = "waiting" => \E d \in Daemons : InBacklog(c, d)

Attended ==
    \A d \in Daemons :
        /\ backlog[d] # <<>> => pc[d] \in Answering
        /\ sock[d] = "listening" => pc[d] \in {"accept", "serve", "failed", "return", "hclose"}

Heard == Unanswered /\ Once /\ Found /\ Attended

LEMMA BacklogDomain ==
    ASSUME NEW s \in Seq(Clients)
    PROVE  DOMAIN s = 1 .. Len(s) /\ Len(s) \in Nat /\ \A n \in DOMAIN s : s[n] \in Clients
  OBVIOUS

LEMMA BacklogAppend ==
    ASSUME NEW s \in Seq(Clients), NEW c \in Clients
    PROVE  /\ DOMAIN Append(s, c) = DOMAIN s \cup {Len(s) + 1} /\ Len(s) + 1 \notin DOMAIN s
           /\ \A n \in DOMAIN s : Append(s, c)[n] = s[n]
           /\ Append(s, c)[Len(s) + 1] = c
  <1>1. /\ Append(s, c) \in Seq(Clients) /\ Len(Append(s, c)) = Len(s) + 1
        /\ \A n \in 1 .. Len(s) : Append(s, c)[n] = s[n]
        /\ Append(s, c)[Len(s) + 1] = c
    OBVIOUS
  <1>2. /\ DOMAIN s = 1 .. Len(s) /\ Len(s) \in Nat
        /\ DOMAIN Append(s, c) = 1 .. Len(Append(s, c))
    BY <1>1, BacklogDomain
  <1>3. DOMAIN Append(s, c) = 1 .. (Len(s) + 1)
    BY <1>1, <1>2
  <1>. QED
    BY <1>1, <1>2, <1>3

LEMMA BacklogTail ==
    ASSUME NEW s \in Seq(Clients), s # <<>>
    PROVE  /\ 1 \in DOMAIN s /\ Head(s) = s[1]
           /\ \A n \in DOMAIN Tail(s) : n + 1 \in DOMAIN s /\ n + 1 # 1 /\ Tail(s)[n] = s[n + 1]
           /\ \A n \in DOMAIN s : n # 1 => n - 1 \in DOMAIN Tail(s) /\ Tail(s)[n - 1] = s[n]
           /\ \A m, n \in DOMAIN Tail(s) : m + 1 = n + 1 => m = n
  <1>1. /\ Tail(s) \in Seq(Clients) /\ Len(Tail(s)) = Len(s) - 1 /\ Head(s) = s[1]
        /\ \A n \in 1 .. Len(Tail(s)) : Tail(s)[n] = s[n + 1] /\ Len(s) # 0
    OBVIOUS
  <1>2. /\ DOMAIN s = 1 .. Len(s) /\ Len(s) \in Nat
        /\ DOMAIN Tail(s) = 1 .. Len(Tail(s))
    BY <1>1, BacklogDomain
  <1>3. Len(s) # 0
    OBVIOUS
  <1>4. DOMAIN Tail(s) = 1 .. (Len(s) - 1)
    BY <1>1, <1>2
  <1>5. \A n \in 1 .. (Len(s) - 1) : Tail(s)[n] = s[n + 1]
    BY <1>1
  <1>6. \A n \in DOMAIN s : n # 1 => n - 1 \in DOMAIN Tail(s) /\ Tail(s)[n - 1] = s[n]
    <2>. SUFFICES ASSUME NEW n \in DOMAIN s, n # 1
                  PROVE  n - 1 \in DOMAIN Tail(s) /\ Tail(s)[n - 1] = s[n]
      OBVIOUS
    <2>1. n \in Int /\ n - 1 \in 1 .. (Len(s) - 1) /\ (n - 1) + 1 = n
      BY <1>2
    <2>2. Tail(s)[n - 1] = s[(n - 1) + 1]
      BY <2>1, <1>5
    <2>. QED
      BY <2>1, <2>2, <1>4
  <1>. QED
    BY <1>1, <1>2, <1>3, <1>4, <1>5, <1>6

\* A step that leaves the backlogs and the clients alone.
LEMMA HeardOnTheWay ==
    ASSUME Heard, UNCHANGED net, Attended' PROVE Heard'
  <1>1. backlog' = backlog /\ client' = client
    BY DEF net
  <1>2. Unanswered' /\ Once'
    BY <1>1 DEF Heard, Unanswered, Once
  <1>3. Found'
    BY <1>1 DEF Heard, Found, InBacklog
  <1>. QED
    BY <1>2, <1>3 DEF Heard

\* A daemon that ends: its clients read the end of the stream.
LEMMA HeardAtEnd ==
    ASSUME TypeOK, Heard, NEW d \in Daemons, NEW how \in Ended, End(d, how)
    PROVE  Heard'
  <1>1. /\ pc' = [pc EXCEPT ![d] = how] /\ sock' = [sock EXCEPT ![d] = "closed"]
        /\ backlog' = [backlog EXCEPT ![d] = <<>>]
        /\ client' = [c \in Clients |-> IF client[c] = "waiting" /\ InBacklog(c, d)
                                        THEN "eof" ELSE client[c]]
    BY DEF End, Goto, InBacklog
  <1>2. DOMAIN (<<>>) = {}
    OBVIOUS
  <1>3. /\ DOMAIN (backlog'[d]) = {} /\ backlog'[d] = <<>>
        /\ \A e \in Daemons : e # d => backlog'[e] = backlog[e]
    BY <1>1, <1>2 DEF TypeOK
  <1>4. Unanswered'
    <2>. SUFFICES ASSUME NEW e \in Daemons, NEW n \in DOMAIN (backlog'[e])
                  PROVE  client'[backlog'[e][n]] \in {"waiting", "quit"}
      BY DEF Unanswered
    <2>. DEFINE c == backlog[e][n]
    <2>1. e # d /\ backlog'[e] = backlog[e]
      BY <1>3
    <2>2. c \in Clients /\ client[c] \in {"waiting", "quit"}
      BY <2>1, BacklogDomain DEF TypeOK, Heard, Unanswered
    <2>3. ~InBacklog(c, d)
      BY <2>1 DEF InBacklog, Heard, Once
    <2>. QED
      BY <1>1, <2>1, <2>2, <2>3
  <1>5. Once'
    BY <1>3 DEF Heard, Once
  <1>6. Found'
    <2>. SUFFICES ASSUME NEW c \in Clients, client'[c] = "waiting"
                  PROVE  \E e \in Daemons : InBacklog(c, e)'
      BY DEF Found
    <2>1. client[c] = "waiting" /\ ~InBacklog(c, d)
      BY <1>1
    <2>2. PICK e \in Daemons : InBacklog(c, e)
      BY <2>1 DEF Heard, Found
    <2>3. backlog'[e] = backlog[e]
      BY <1>3, <2>1, <2>2
    <2>. QED
      BY <2>2, <2>3 DEF InBacklog
  <1>7. Attended'
    BY <1>1, <1>3 DEF Heard, Attended, TypeOK
  <1>. QED
    BY <1>4, <1>5, <1>6, <1>7 DEF Heard

\* The first in the backlog is told of the file and leaves the backlog.
LEMMA HeardServe ==
    ASSUME TypeOK, Typed, Heard, NEW d \in Daemons, Serve(d)
    PROVE  Heard'
  <1>1. CASE End(d, "killed")
    BY <1>1, HeardAtEnd
  <1>3. CASE Move(d, "serve", "failed") /\ UNCHANGED <<sock, net>>
    <2>1. Attended'
      BY <1>3 DEF Move, Goto, Heard, Attended, Answering, net, TypeOK
    <2>. QED
      BY <1>3, <2>1, HeardOnTheWay
  <1>2. CASE Answer(d)
    <2>. DEFINE s == backlog[d]
                h == Head(s)
    <2>1. /\ pc[d] = "serve" /\ pc' = [pc EXCEPT ![d] = "accept"] /\ sock' = sock
          /\ client' = [client EXCEPT ![h] = conf[d]["checkfile"].name]
          /\ backlog' = [backlog EXCEPT ![d] = Tail(s)]
      BY <1>2 DEF Answer, Move, Goto
    <2>2. s \in Seq(Clients) /\ s # <<>>
      BY <2>1 DEF TypeOK, Typed
    <2>3. /\ 1 \in DOMAIN s /\ h = s[1]
          /\ \A n \in DOMAIN Tail(s) : n + 1 \in DOMAIN s /\ n + 1 # 1 /\ Tail(s)[n] = s[n + 1]
          /\ \A n \in DOMAIN s : n # 1 => n - 1 \in DOMAIN Tail(s) /\ Tail(s)[n - 1] = s[n]
          /\ \A m, n \in DOMAIN Tail(s) : m + 1 = n + 1 => m = n
      BY <2>2, BacklogTail
    <2>4. h \in Clients
      BY <2>2, QueueType
    <2>5. /\ client'[h] # "waiting"
          /\ \A c \in Clients : c # h => client'[c] = client[c]
      <3>1. conf[d]["checkfile"].name \in Names
        BY DEF TypeOK
      <3>2. conf[d]["checkfile"].name # "waiting"
        BY <3>1, DaemonAssumption DEF ClientStates
      <3>. QED
        BY <2>1, <2>4, <3>2 DEF TypeOK
    <2>6. /\ backlog'[d] = Tail(s)
          /\ \A e \in Daemons : e # d => backlog'[e] = backlog[e]
      BY <2>1 DEF TypeOK
    <2>. HIDE DEF h, s
    \* Where a client of the next backlogs was, and that it is not the first.
    <2>7. \A e \in Daemons : \A n \in DOMAIN (backlog'[e]) :
              \E k \in DOMAIN backlog[e] : /\ k = (IF e = d THEN n + 1 ELSE n)
                                           /\ backlog'[e][n] = backlog[e][k]
                                           /\ backlog[e][k] # h /\ backlog[e][k] \in Clients
      <3>. SUFFICES ASSUME NEW e \in Daemons, NEW n \in DOMAIN (backlog'[e])
                    PROVE  \E k \in DOMAIN backlog[e] : /\ k = (IF e = d THEN n + 1 ELSE n)
                                           /\ backlog'[e][n] = backlog[e][k]
                                           /\ backlog[e][k] # h /\ backlog[e][k] \in Clients
        OBVIOUS
      <3>0. backlog[e] \in Seq(Clients) /\ \A k \in DOMAIN backlog[e] : backlog[e][k] \in Clients
        BY BacklogDomain DEF TypeOK
      <3>1. CASE e = d
        <4>1. /\ n \in DOMAIN Tail(s) /\ backlog'[e][n] = Tail(s)[n] /\ backlog[e] = s
          BY <2>6, <3>1 DEF s
        <4>2. /\ n + 1 \in DOMAIN s /\ n + 1 # 1 /\ Tail(s)[n] = s[n + 1] /\ 1 \in DOMAIN s /\ h = s[1]
          BY <2>3, <4>1
        <4>3. s[n + 1] # s[1]
          BY <4>1, <4>2 DEF Heard, Once
        <4>. QED
          BY <3>0, <3>1, <4>1, <4>2, <4>3
      <3>2. CASE e # d
        BY <2>3, <2>6, <3>0, <3>2 DEF Heard, Once, s
      <3>. QED
        BY <3>1, <3>2
    <2>8. Unanswered'
      BY <2>5, <2>7 DEF Heard, Unanswered
    <2>9. Once'
      <3>. SUFFICES ASSUME NEW e \in Daemons, NEW g \in Daemons,
                           NEW m \in DOMAIN (backlog'[e]), NEW n \in DOMAIN (backlog'[g]),
                           backlog'[e][m] = backlog'[g][n]
                    PROVE  e = g /\ m = n
        BY DEF Once
      <3>1. PICK j \in DOMAIN backlog[e] : /\ j = (IF e = d THEN m + 1 ELSE m)
                                           /\ backlog'[e][m] = backlog[e][j]
        BY <2>7
      <3>2. PICK k \in DOMAIN backlog[g] : /\ k = (IF g = d THEN n + 1 ELSE n)
                                           /\ backlog'[g][n] = backlog[g][k]
        BY <2>7
      <3>3. e = g /\ j = k
        <4>1. backlog[e][j] = backlog[g][k]
          BY <3>1, <3>2
        <4>. QED
          BY <4>1 DEF Heard, Once
      <3>4. CASE e = d
        BY <2>3, <2>6, <3>1, <3>2, <3>3, <3>4
      <3>5. CASE e # d
        BY <3>1, <3>2, <3>3, <3>5
      <3>. QED
        BY <3>3, <3>4, <3>5
    <2>10. Found'
      <3>. SUFFICES ASSUME NEW c \in Clients, client'[c] = "waiting"
                    PROVE  \E e \in Daemons : InBacklog(c, e)'
        BY DEF Found
      <3>1. c # h /\ client[c] = "waiting"
        BY <2>5
      <3>2. PICK e \in Daemons : \E n \in DOMAIN backlog[e] : backlog[e][n] = c
        BY <3>1 DEF Heard, Found, InBacklog
      <3>5. PICK n \in DOMAIN backlog[e] : backlog[e][n] = c
        BY <3>2
      <3>3. CASE e = d
        <4>1. n \in DOMAIN s /\ s[n] = c /\ n # 1
          BY <3>1, <3>3, <3>5, <2>3 DEF s
        <4>2. n - 1 \in DOMAIN (backlog'[d]) /\ backlog'[d][n - 1] = c
          BY <4>1, <2>3, <2>6
        <4>. QED
          BY <4>2 DEF InBacklog
      <3>4. CASE e # d
        BY <3>4, <3>5, <2>6 DEF InBacklog
      <3>. QED
        BY <3>3, <3>4
    <2>11. Attended'
      BY <2>1, <2>6 DEF Heard, Attended, Answering, TypeOK
    <2>. QED
      BY <2>8, <2>9, <2>10, <2>11 DEF Heard
  <1>. QED
    BY <1>1, <1>2, <1>3 DEF Serve, Move

LEMMA HeardConnect ==
    ASSUME TypeOK, Heard, NEW c \in Clients, Connect(c)
    PROVE  Heard'
  <1>0. client[c] = "off" /\ UNCHANGED <<pc, sock>>
    BY DEF Connect
  <1>1. \A e \in Daemons : \A n \in DOMAIN backlog[e] : backlog[e][n] \in Clients /\ backlog[e][n] # c
    BY <1>0, BacklogDomain DEF TypeOK, Heard, Unanswered
  <1>2. CASE bound[ClientPath] # Nobody /\ sock[bound[ClientPath]] = "listening"
    <2>. DEFINE d == bound[ClientPath]
                s == backlog[d]
    <2>1. d \in Daemons /\ s \in Seq(Clients)
      BY <1>2 DEF TypeOK, Names
    <2>2. /\ client' = [client EXCEPT ![c] = "waiting"]
          /\ backlog' = [backlog EXCEPT ![d] = Append(s, c)]
          /\ sock[d] = "listening"
      BY <1>2 DEF Connect
    <2>. HIDE DEF d, s
    <2>3. /\ DOMAIN Append(s, c) = DOMAIN s \cup {Len(s) + 1} /\ Len(s) + 1 \notin DOMAIN s
          /\ \A n \in DOMAIN s : Append(s, c)[n] = s[n]
          /\ Append(s, c)[Len(s) + 1] = c
      BY <2>1, BacklogAppend
    <2>4. /\ backlog'[d] = Append(s, c) /\ s = backlog[d]
          /\ \A e \in Daemons : e # d => backlog'[e] = backlog[e]
      BY <2>1, <2>2 DEF TypeOK, s
    <2>5. /\ client'[c] = "waiting"
          /\ \A b \in Clients : b # c => client'[b] = client[b]
      BY <2>2 DEF TypeOK
    \* Who is in the next backlogs was there before, or is the new one.
    <2>6. \A e \in Daemons : \A n \in DOMAIN (backlog'[e]) :
              \/ n \in DOMAIN backlog[e] /\ backlog'[e][n] = backlog[e][n] /\ backlog'[e][n] # c
              \/ e = d /\ n = Len(s) + 1 /\ backlog'[e][n] = c
      BY <1>1, <2>3, <2>4
    <2>7. Unanswered'
      BY <1>1, <2>5, <2>6 DEF Heard, Unanswered
    <2>8. Once'
      BY <2>6 DEF Heard, Once
    <2>9. Found'
      <3>. SUFFICES ASSUME NEW b \in Clients, client'[b] = "waiting"
                    PROVE  \E e \in Daemons : InBacklog(b, e)'
        BY DEF Found
      <3>1. CASE b = c
        <4>1. Len(s) + 1 \in DOMAIN (backlog'[d]) /\ backlog'[d][Len(s) + 1] = c
          BY <2>3, <2>4
        <4>. QED
          BY <2>1, <3>1, <4>1 DEF InBacklog
      <3>2. CASE b # c
        <4>1. PICK e \in Daemons : \E n \in DOMAIN backlog[e] : backlog[e][n] = b
          BY <2>5, <3>2 DEF Heard, Found, InBacklog
        <4>2. \A n \in DOMAIN backlog[e] : n \in DOMAIN (backlog'[e]) /\ backlog'[e][n] = backlog[e][n]
          BY <2>3, <2>4
        <4>. QED
          BY <4>1, <4>2 DEF InBacklog
      <3>. QED
        BY <3>1, <3>2
    <2>10. Attended'
      BY <1>0, <2>1, <2>2, <2>4 DEF Heard, Attended, Answering
    <2>. QED
      BY <2>7, <2>8, <2>9, <2>10 DEF Heard
  <1>3. CASE ~(bound[ClientPath] # Nobody /\ sock[bound[ClientPath]] = "listening")
    <2>1. backlog' = backlog /\ client' = [client EXCEPT ![c] = "refused"]
      BY <1>3 DEF Connect
    <2>2. client'[c] = "refused" /\ \A b \in Clients : b # c => client'[b] = client[b]
      BY <2>1 DEF TypeOK
    <2>3. Unanswered'
      BY <1>1, <2>1, <2>2 DEF Heard, Unanswered
    <2>4. Once' /\ Attended'
      BY <1>0, <2>1 DEF Heard, Once, Attended
    <2>5. Found'
      BY <2>1, <2>2 DEF Heard, Found, InBacklog
    <2>. QED
      BY <2>3, <2>4, <2>5 DEF Heard
  <1>. QED
    BY <1>2, <1>3

LEMMA HeardQuit ==
    ASSUME TypeOK, Heard, NEW c \in Clients, ClientQuits(c)
    PROVE  Heard'
  <1>1. /\ client' = [client EXCEPT ![c] = "quit"] /\ UNCHANGED <<pc, sock, backlog>>
    BY DEF ClientQuits
  <1>2. client'[c] = "quit" /\ \A b \in Clients : b # c => client'[b] = client[b]
    BY <1>1 DEF TypeOK
  <1>3. Unanswered'
    BY <1>1, <1>2, BacklogDomain DEF TypeOK, Heard, Unanswered
  <1>4. Once' /\ Attended'
    BY <1>1 DEF Heard, Once, Attended
  <1>5. Found'
    BY <1>1, <1>2 DEF Heard, Found, InBacklog
  <1>. QED
    BY <1>3, <1>4, <1>5 DEF Heard

LEMMA HeardDaemon ==
    ASSUME TypeOK, Typed, Heard, NEW d \in Daemons, Start(d) \/ DaemonStep(d) \/ AcceptFails(d) \/ Signal(d)
    PROVE  Heard'
  <1>. USE DEF Goto, Move
  <1>1. CASE Start(d)
    <2>1. backlog[d] = <<>> /\ sock[d] = "closed" /\ UNCHANGED <<backlog, client, sock>>
      BY <1>1 DEF Start, Typed, net
    <2>2. PICK l : pc' = [pc EXCEPT ![d] = l]
      BY <1>1 DEF Start
    <2>3. Attended'
      BY <2>1, <2>2 DEF Heard, Attended, TypeOK
    <2>. QED
      BY <2>1, <2>3, HeardOnTheWay DEF net
  <1>2. CASE Daemonize(d) \/ LockFile(d) \/ UnlinkOld(d)
    <2>1. UNCHANGED <<net, sock>>
      BY <1>2 DEF Daemonize, LockFile, UnlinkOld
    <2>2. PICK l : pc' = [pc EXCEPT ![d] = l]
      BY <1>2 DEF Daemonize, LockFile, UnlinkOld
    <2>3. pc[d] \in {"daemonize", "lock", "unlink"}
      BY <1>2 DEF Daemonize, LockFile, UnlinkOld
    <2>4. backlog[d] = <<>> /\ sock[d] # "listening"
      BY <2>3 DEF Heard, Attended, Answering
    <2>5. Attended'
      BY <2>1, <2>2, <2>4 DEF net, Heard, Attended, TypeOK
    <2>. QED
      BY <2>1, <2>5, HeardOnTheWay
  <1>3. CASE Socket(d)
    <2>1. Attended'
      BY <1>3 DEF Socket, Heard, Attended, Answering, net, TypeOK
    <2>. QED
      BY <1>3, <2>1, HeardOnTheWay DEF Socket
  <1>4. CASE Bind(d)
    <2>1. Attended'
      BY <1>4 DEF Bind, Heard, Attended, Answering, net, TypeOK
    <2>. QED
      BY <1>4, <2>1, HeardOnTheWay DEF Bind
  <1>5. CASE Listen(d)
    <2>1. Attended'
      BY <1>5 DEF Listen, Heard, Attended, Answering, net, TypeOK
    <2>. QED
      BY <1>5, <2>1, HeardOnTheWay DEF Listen
  <1>6. CASE Accept(d) \/ AcceptFails(d)
    <2>1. Attended'
      BY <1>6 DEF Accept, AcceptFails, Heard, Attended, Answering, net, TypeOK
    <2>. QED
      BY <1>6, <2>1, HeardOnTheWay DEF Accept, AcceptFails
  <1>7. CASE Serve(d)
    BY <1>7, HeardServe
  <1>8. CASE ReleaseLock(d)
    <2>1. Attended'
      BY <1>8 DEF ReleaseLock, Heard, Attended, Answering, net, TypeOK
    <2>. QED
      BY <1>8, <2>1, HeardOnTheWay DEF ReleaseLock
  <1>9. CASE ShutdownClose(d)
    <2>1. Attended'
      BY <1>9 DEF ShutdownClose, Heard, Attended, Answering, net, TypeOK
    <2>. QED
      BY <1>9, <2>1, HeardOnTheWay DEF ShutdownClose
  <1>10. CASE ShutdownUnlink(d)
    <2>1. Attended'
      BY <1>10 DEF ShutdownUnlink, Heard, Attended, Answering, net, TypeOK
    <2>. QED
      BY <1>10, <2>1, HeardOnTheWay DEF ShutdownUnlink
  <1>11. CASE Interrupt(d)
    <2>1. Attended'
      BY <1>11 DEF Interrupt, Heard, Attended, Answering, net, TypeOK
    <2>. QED
      BY <1>11, <2>1, HeardOnTheWay DEF Interrupt
  <1>12. CASE Reload(d)
    <2>1. Attended'
      BY <1>12 DEF Reload, Heard, Attended, Answering, net, TypeOK
    <2>. QED
      BY <1>12, <2>1, HeardOnTheWay DEF Reload
  <1>13. CASE Return(d) \/ ShutdownExit(d) \/ HangUp(d) \/ Kill(d)
    BY <1>13, HeardAtEnd DEF Return, ShutdownExit, HangUp, Kill
  <1>. QED
    BY <1>1, <1>2, <1>3, <1>4, <1>5, <1>6, <1>7, <1>8, <1>9, <1>10, <1>11, <1>12, <1>13 DEF DaemonStep, Signal

LEMMA HeardAlways == Spec => [](TypeOK /\ Typed /\ Heard)
  <1>. DEFINE Inv == TypeOK /\ Typed /\ Heard
  <1>1. Init => Inv
    <2>. SUFFICES ASSUME Init PROVE Heard
      BY InitType
    <2>1. DOMAIN (<<>>) = {}
      OBVIOUS
    <2>2. \A d \in Daemons : backlog[d] = <<>> /\ DOMAIN (backlog[d]) = {} /\ sock[d] = "closed"
      BY <2>1 DEF Init
    <2>3. \A c \in Clients : client[c] = "off"
      BY DEF Init
    <2>. QED
      BY <2>2, <2>3 DEF Heard, Unanswered, Once, Found, Attended
  <1>2. Inv /\ [Next]_vars => Inv'
    <2>. SUFFICES ASSUME Inv, [Next]_vars PROVE Heard'
      BY TypesKept
    <2>1. ASSUME NEW d \in Daemons, Start(d) \/ DaemonStep(d) \/ AcceptFails(d) \/ Signal(d) PROVE Heard'
      BY <2>1, HeardDaemon
    <2>2. ASSUME NEW c \in Clients, Connect(c) \/ ClientQuits(c) PROVE Heard'
      BY <2>2, HeardConnect, HeardQuit
    <2>3. CASE EditConfig \/ UNCHANGED vars
      <3>1. UNCHANGED <<net, pc, sock>>
        BY <2>3 DEF EditConfig, vars, net
      <3>2. Attended'
        BY <3>1 DEF net, Heard, Attended
      <3>. QED
        BY <3>1, <3>2, HeardOnTheWay
    <2>. QED
      BY <2>1, <2>2, <2>3 DEF Next
  <1>. HIDE DEF Ended, Handling, Tags, Inv
  <1>3. Spec => []Inv
    BY <1>1, <1>2, PTL DEF Spec
  <1>. QED
    BY <1>3 DEF Inv

\* A client that waits is in one backlog, that of a daemon which has not ended
\* and is at a call after which it will take the client, or end: what ClientHears
\* needs of the state.  It holds with any configurations.
NobodyForgotten ==
    \A c \in Clients : client[c] = "waiting" =>
        \E d \in Daemons : /\ pc[d] \in Answering
                           /\ \A e \in Daemons : InBacklog(c, e) <=> e = d

\* Whatever daemons start, stop, reload and crash, no client that connected is
\* left to a daemon that is gone: handle_shutdown and every other end of the
\* process close the backlog, and accept takes each client once.
THEOREM ClientsNotForgotten == Spec => []NobodyForgotten
  <1>. DEFINE Inv == TypeOK /\ Typed /\ Heard
  <1>1. Inv => NobodyForgotten
    <2>. SUFFICES ASSUME Inv, NEW c \in Clients, client[c] = "waiting"
                  PROVE  \E d \in Daemons : /\ pc[d] \in Answering
                                            /\ \A e \in Daemons : InBacklog(c, e) <=> e = d
      BY DEF NobodyForgotten
    <2>1. PICK d \in Daemons : \E n \in DOMAIN backlog[d] : backlog[d][n] = c
      BY DEF Heard, Found, InBacklog
    <2>2. backlog[d] # <<>>
      <3>1. DOMAIN (<<>>) = {}
        OBVIOUS
      <3>. QED
        BY <2>1, <3>1
    <2>3. pc[d] \in Answering
      BY <2>2 DEF Heard, Attended
    <2>4. \A e \in Daemons : InBacklog(c, e) <=> e = d
      BY <2>1 DEF Heard, Once, InBacklog
    <2>. QED
      BY <2>3, <2>4
  <1>2. Spec => []Inv
    BY HeardAlways
  <1>. HIDE DEF Ended, Handling, Tags, Inv
  <1>. QED
    BY <1>1, <1>2, PTL

\* The step of the second part of ClientHears.
DesertedOnly ==
    \A c \in Clients : client[c] = "waiting" /\ client'[c] = "eof" => Deserted(c)

LEMMA EndDeserts ==
    ASSUME NEW d \in Daemons, NEW how \in {"exited", "killed"}, TypeOK, End(d, how),
           NEW c \in Clients, client[c] = "waiting", client'[c] = "eof"
    PROVE  (\E n \in DOMAIN backlog[d] : backlog[d][n] = c) /\ pc'[d] \in Ended
  BY DEF End, Goto, TypeOK

LEMMA DesertedStep == ASSUME TypeOK, Typed, Heard, [Next]_vars PROVE DesertedOnly
  <1>. SUFFICES ASSUME NEW c \in Clients, client[c] = "waiting", client'[c] = "eof"
                PROVE  Deserted(c)
    BY DEF DesertedOnly
  <1>1. client' # client
    OBVIOUS
  <1>2. CASE \E d \in Daemons : Answer(d)
    <2>1. PICK d \in Daemons : Answer(d)
      BY <1>2
    <2>2. client'[c] = client[c] \/ client'[c] = conf[d]["checkfile"].name
      BY <2>1 DEF Answer, TypeOK
    <2>3. conf[d]["checkfile"].name \in Names
      BY DEF TypeOK
    <2>. QED
      BY <2>2, <2>3, DaemonAssumption DEF ClientStates
  <1>3. ASSUME NEW b \in Clients, Connect(b) \/ ClientQuits(b) PROVE FALSE
    <2>1. client' = [client EXCEPT ![b] = "waiting"] \/ client' = [client EXCEPT ![b] = "refused"]
            \/ client' = [client EXCEPT ![b] = "quit"]
      BY <1>3 DEF Connect, ClientQuits
    <2>. QED
      BY <2>1 DEF TypeOK
  <1>4. ASSUME NEW d \in Daemons, Return(d) \/ ShutdownExit(d) PROVE Deserted(c)
    BY <1>4, EndDeserts DEF Return, ShutdownExit, Deserted
  <1>5. ASSUME NEW d \in Daemons, Serve(d), End(d, "killed"), client[Head(backlog[d])] # "waiting"
        PROVE  Deserted(c)
    <2>1. backlog[d] \in Seq(Clients) /\ backlog[d] # <<>> /\ pc[d] = "serve"
      BY <1>5 DEF TypeOK, Typed, Serve
    <2>2. 1 \in DOMAIN backlog[d] /\ Head(backlog[d]) = backlog[d][1]
      BY <2>1, BacklogTail
    <2>3. client[Head(backlog[d])] = "quit"
      BY <1>5, <2>2 DEF Heard, Unanswered
    <2>. QED
      BY <1>5, <2>1, <2>3, EndDeserts DEF Deserted
  <1>6. ASSUME NEW d \in Daemons, HangUp(d) \/ Kill(d) PROVE Deserted(c)
    <2>1. hups' # hups \/ kills' # kills
      <3>1. hups \in Nat /\ kills \in Nat
        BY DaemonAssumption DEF TypeOK
      <3>. QED
        BY <1>6, <3>1 DEF HangUp, Kill
    <2>. QED
      BY <1>6, <2>1, EndDeserts DEF HangUp, Kill, Deserted
  <1>. QED
    <2>1. ASSUME NEW d \in Daemons, \/ Start(d) \/ Daemonize(d) \/ LockFile(d) \/ UnlinkOld(d)
                                    \/ Socket(d) \/ Bind(d) \/ Listen(d) \/ Accept(d)
                                    \/ AcceptFails(d) \/ ReleaseLock(d) \/ ShutdownClose(d)
                                    \/ ShutdownUnlink(d) \/ Interrupt(d) \/ Reload(d)
          PROVE  FALSE
      BY <1>1, <2>1 DEF Start, Daemonize, LockFile, UnlinkOld, Socket, Bind, Listen, Accept, AcceptFails,
                  ReleaseLock, ShutdownClose, ShutdownUnlink, Interrupt, Reload, net
    <2>2. ASSUME NEW d \in Daemons, Serve(d)
          PROVE  Answer(d) \/ (End(d, "killed") /\ client[Head(backlog[d])] # "waiting")
      BY <1>1, <2>2 DEF Serve, net
    <2>3. ~EditConfig
      BY <1>1 DEF EditConfig, net
    <2>4. ASSUME NEW d \in Daemons, Start(d) \/ DaemonStep(d) \/ AcceptFails(d) \/ Signal(d)
          PROVE  Deserted(c)
      <3>1. CASE Serve(d)
        BY <3>1, <2>2, <1>2, <1>5
      <3>2. CASE Return(d) \/ ShutdownExit(d)
        BY <3>2, <1>4
      <3>3. CASE HangUp(d) \/ Kill(d)
        BY <3>3, <1>6
      <3>. QED
        BY <2>1, <2>4, <3>1, <3>2, <3>3 DEF DaemonStep, Signal
    <2>5. CASE Next
      BY <2>3, <2>4, <2>5, <1>3 DEF Next
    <2>. QED
      BY <1>1, <2>5 DEF vars

\* For any number of daemons and clients, one that is not answered was left by
\* a daemon that ended: by a signal, a failed call, or SIGPIPE for a client that
\* had quit.  Nothing else makes a client lose its answer.
THEOREM NobodyDropped == Spec => [][DesertedOnly]_vars
  <1>1. TypeOK /\ Typed /\ Heard /\ [Next]_vars => [DesertedOnly]_vars
    BY DesertedStep
  <1>. HIDE DEF Ended, Handling, Tags, Typed, Heard, DesertedOnly
  <1>. QED
    BY <1>1, HeardAlways, PTL DEF Spec
===============================================================================
