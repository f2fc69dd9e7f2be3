------------------------------ MODULE Multiplex ------------------------------
(***************************************************************************)
(* ex29_multiplexing.c, an echo server over TCP with one thread, and its   *)
(* clients, ex29_multiplexing_client.c.  The three builds of the server    *)
(* are the values of mode: they differ in the order in which a wakeup is   *)
(* handled, in what they count and in when they are full.                  *)
(*                                                                         *)
(* The client's message, "Hi server!" with its terminator, is TEXT units   *)
(* of text and a Nul.  TCP keeps their order but not the borders of what   *)
(* was sent: each recv that stops short of what has arrived is a split.    *)
(* A handler is one step: clients cannot tell its recv from its send.      *)
(***************************************************************************)
EXTENDS Integers, Sequences, FiniteSets

CONSTANTS
    Modes,        \* the builds considered, a subset of AllModes
    Clients,      \* invocations of the client
    Listener,     \* stands for server_fd in a set of ready descriptors
    Nul,          \* the terminator of a string
    ROUNDS,       \* messages a client sends, 3 in the code
    TEXT,         \* units of text in a message
    CNT_TRYOUTS,  \* wakeups after which the server leaves, 20
    MAX_FDS,      \* MAX_FDS and FD_SETSIZE, 1024
    SIZE_BUFFER,  \* units in the server's buffer
    BACKLOG,      \* connections that wait for accept, 10
    MaxSplits, MaxFaults   \* bounds: short reads; failed calls and killed clients

AllModes == {"select", "poll", "epoll"}

ASSUME MultiplexAssumption ==
    /\ Modes \subseteq AllModes
    /\ Listener \notin Clients /\ Nul \notin Clients
    /\ {ROUNDS, TEXT, CNT_TRYOUTS, MAX_FDS, SIZE_BUFFER} \subseteq Nat \ {0}
    /\ {BACKLOG, MaxSplits, MaxFaults} \subseteq Nat
    /\ CNT_TRYOUTS + 1 < MAX_FDS
    /\ ROUNDS * (TEXT + 1) < SIZE_BUFFER

VARIABLES
    mode,      \* which of the builds runs
    spc,       \* the server: "run", "done" or "killed"
    cnt,       \* its wakeups so far
    fds,       \* cnt_fds, in the poll build numfds
    batch,     \* ready descriptors of this wakeup, not handled yet
    buffer,    \* the one buffer all connections share
    queue,     \* connections that wait for accept
    conn,      \* server's side of each connection
    toServer, toClient,  \* what is on its way, in order
    reset,     \* clients whose side of the connection was reset
    pc, round, got,      \* client: where it is, rounds done, text received
    splits, faults       \* short reads and failures so far

vars == <<mode, spc, cnt, fds, batch, buffer, queue, conn, toServer, toClient,
          reset, pc, round, got, splits, faults>>
server == <<spc, cnt, fds, batch, buffer>>
client == <<pc, round, got>>
wires  == <<toServer, toClient, reset>>

Message(c) == [n \in 1 .. TEXT + 1 |-> IF n <= TEXT THEN c ELSE Nul]
Gone(c)    == pc[c] \in {"done", "killed"}
Zeroed     == [n \in 1 .. SIZE_BUFFER |-> Nul]

Init ==
    /\ mode \in Modes
    /\ spc = "run" /\ cnt = 0 /\ fds = 1 /\ batch = {} /\ buffer = Zeroed
    /\ queue = <<>> /\ reset = {}
    /\ conn = [c \in Clients |-> "none"]
    /\ toServer = [c \in Clients |-> <<>>] /\ toClient = [c \in Clients |-> <<>>]
    /\ pc = [c \in Clients |-> "off"] /\ round = [c \in Clients |-> 0]
    /\ got = [c \in Clients |-> <<>>]
    /\ splits = 0 /\ faults = 0

\* A recv that finds n units returns k of them.
Read(n, k) == /\ k \in 1 .. n
              /\ k < n => splits < MaxSplits
              /\ splits' = IF k < n THEN splits + 1 ELSE splits

From(s, k) == SubSeq(s, k + 1, Len(s))

-----------------------------------------------------------------------------
(* The clients.                                                            *)

\* connect waits for room in the queue, and fails when nobody listens.
Connect(c) ==
    /\ pc[c] = "off"
    /\ IF spc = "run"
       THEN /\ Len(queue) <= BACKLOG
            /\ queue' = Append(queue, c)
            /\ conn' = [conn EXCEPT ![c] = "queued"]
            /\ pc' = [pc EXCEPT ![c] = "send"]
       ELSE pc' = [pc EXCEPT ![c] = "refused"] /\ UNCHANGED <<queue, conn>>
    /\ UNCHANGED <<mode, server, wires, round, got, splits, faults>>

\* Nothing stops the client when send fails, but SIGPIPE may end it.
ClientSend(c) ==
    /\ pc[c] = "send"
    /\ IF conn[c] = "closed"
       THEN \E l \in {"recv", "killed"} : pc' = [pc EXCEPT ![c] = l] /\ UNCHANGED toServer
       ELSE /\ pc' = [pc EXCEPT ![c] = "recv"]
            /\ toServer' = [toServer EXCEPT ![c] = @ \o Message(c)]
    /\ UNCHANGED <<mode, server, queue, conn, toClient, reset, round, got, splits, faults>>

\* Closing a socket with something unread in it resets the connection.
Leave(c, unread) == reset' = IF unread = <<>> THEN reset ELSE reset \cup {c}

\* One recv answers one send, whatever it brings: also nothing, at the end of
\* the stream.
ClientRecv(c) ==
    /\ pc[c] = "recv"
    /\ \/ \E k \in 1 .. Len(toClient[c]) :
             /\ Read(Len(toClient[c]), k)
             /\ got' = [got EXCEPT ![c] = @ \o SubSeq(toClient[c], 1, k)]
             /\ toClient' = [toClient EXCEPT ![c] = From(@, k)]
       \/ /\ toClient[c] = <<>> /\ conn[c] = "closed"
          /\ UNCHANGED <<got, toClient, splits>>
    /\ round' = [round EXCEPT ![c] = @ + 1]
    /\ IF round[c] + 1 < ROUNDS
       THEN pc' = [pc EXCEPT ![c] = "send"] /\ UNCHANGED reset
       ELSE pc' = [pc EXCEPT ![c] = "done"] /\ Leave(c, toClient'[c])
    /\ UNCHANGED <<mode, server, queue, conn, toServer, faults>>

ClientKill(c) ==
    /\ pc[c] \in {"send", "recv"}
    /\ faults < MaxFaults /\ faults' = faults + 1
    /\ pc' = [pc EXCEPT ![c] = "killed"]
    /\ Leave(c, toClient[c])
    /\ UNCHANGED <<mode, server, queue, conn, toServer, toClient, round, got, splits>>

-----------------------------------------------------------------------------
(* The server.                                                             *)

Ready(c) == conn[c] = "open" /\ (toServer[c] # <<>> \/ Gone(c) \/ c \in reset)

Events == {c \in Clients : Ready(c)} \cup (IF queue = <<>> THEN {} ELSE {Listener})

\* Variant: a call that times out counts as a wakeup.
WakeupOrTimeout ==
    /\ spc = "run" /\ batch = {} /\ cnt < CNT_TRYOUTS
    /\ batch' = Events
    /\ cnt' = cnt + 1
    /\ UNCHANGED <<mode, spc, fds, buffer, queue, conn, wires, client, splits, faults>>

\* Variant: only a wakeup without a new connection counts.
WakeupUncounted ==
    /\ spc = "run" /\ batch = {} /\ cnt < CNT_TRYOUTS
    /\ Events # {}
    /\ batch' = Events
    /\ cnt' = IF Listener \in Events THEN cnt ELSE cnt + 1
    /\ UNCHANGED <<mode, spc, fds, buffer, queue, conn, wires, client, splits, faults>>

\* select, poll or epoll_wait returns with all that is ready; one that times
\* out or fails changes nothing.
Wakeup ==
    /\ spc = "run" /\ batch = {} /\ cnt < CNT_TRYOUTS
    /\ Events # {}
    /\ batch' = Events
    /\ cnt' = cnt + 1
    /\ UNCHANGED <<mode, spc, fds, buffer, queue, conn, wires, client, splits, faults>>

\* The loop reaches e: the listener is the first descriptor and the first slot,
\* epoll keeps no order.
Handle(e) ==
    /\ spc = "run" /\ e \in batch
    /\ mode # "epoll" /\ Listener \in batch => e = Listener
    /\ batch' = batch \ {e}

Full == fds + (IF mode = "poll" THEN 0 ELSE 1) = MAX_FDS

Accepted(state, n) ==
    /\ conn' = [conn EXCEPT ![Head(queue)] = state]
    /\ queue' = Tail(queue)
    /\ fds' = fds + n

\* Variant: the new descriptor is not added to the set.
AcceptUnwatched ==
    /\ Handle(Listener)
    /\ Accepted("unwatched", 1) /\ UNCHANGED faults
    /\ UNCHANGED <<mode, spc, cnt, buffer, wires, client, splits>>

Accept ==
    /\ Handle(Listener)
    /\ \/ ~Full /\ Accepted("open", 1) /\ UNCHANGED faults
       \/ Full /\ Accepted("closed", 0) /\ UNCHANGED faults
       \/ /\ faults < MaxFaults /\ faults' = faults + 1
          /\ \/ UNCHANGED <<conn, queue, fds>>                \* accept fails
             \/ mode = "epoll" /\ ~Full /\ Accepted("closed", 0)  \* epoll_ctl fails
    /\ UNCHANGED <<mode, spc, cnt, buffer, wires, client, splits>>

\* recv gives 0 or an error, which what was on its way does not survive.
Hangup(c) ==
    /\ Handle(c)
    /\ toServer[c] = <<>> \/ c \in reset
    /\ conn' = [conn EXCEPT ![c] = "closed"]
    /\ toServer' = [toServer EXCEPT ![c] = <<>>]
    /\ fds' = IF mode = "select" THEN fds - 1 ELSE fds
    /\ UNCHANGED <<mode, spc, cnt, buffer, queue, toClient, reset, client, splits, faults>>

\* The process ends: the kernel closes what it had open.
Ended(how) ==
    /\ spc' = how
    /\ conn' = [c \in Clients |-> IF conn[c] = "none" THEN "none" ELSE "closed"]
    /\ queue' = <<>>

\* What the buffer holds after recv has written s into it.
Filled(s) == [n \in 1 .. SIZE_BUFFER |-> IF n <= Len(s) THEN s[n] ELSE buffer[n]]

\* strlen: the units before the first Nul.
CString(b) == LET End(n) == b[n] = Nul /\ \A m \in 1 .. n - 1 : b[m] # Nul
              IN  SubSeq(b, 1, (CHOOSE n \in 1 .. SIZE_BUFFER : End(n)) - 1)

\* Variant: send is called again for what it reports as not sent.
SendTwice(c, text) ==
    \/ /\ ~Gone(c)
       /\ toClient' = [toClient EXCEPT ![c] = @ \o text]
       /\ UNCHANGED <<reset, spc, conn, queue>>
    \/ /\ Gone(c)
       /\ reset' = IF text = <<>> THEN reset ELSE reset \cup {c}
       /\ UNCHANGED <<toClient, spc, conn, queue>>
    \/ /\ Gone(c) /\ text # <<>>
       /\ Ended("killed")
       /\ UNCHANGED <<toClient, reset>>

\* send to a client that is gone is answered by a reset; the next one is SIGPIPE,
\* or fails and is ignored.
Send(c, text) ==
    \/ /\ ~Gone(c)
       /\ toClient' = [toClient EXCEPT ![c] = @ \o text]
       /\ UNCHANGED <<reset, spc, conn, queue>>
    \/ /\ Gone(c)
       /\ reset' = IF text = <<>> THEN reset ELSE reset \cup {c}
       /\ UNCHANGED <<toClient, spc, conn, queue>>
    \/ /\ Gone(c) /\ c \in reset
       /\ Ended("killed")
       /\ UNCHANGED <<toClient, reset>>

\* Variant: the buffer is not cleared.
EchoKeepsBuffer(c) ==
    /\ Handle(c)
    /\ toServer[c] # <<>>
    /\ \E k \in 1 .. Len(toServer[c]) :
          /\ Read(Len(toServer[c]), k)
          /\ toServer' = [toServer EXCEPT ![c] = From(@, k)]
          /\ buffer' = Filled(SubSeq(toServer[c], 1, k))
          /\ Send(c, CString(Filled(SubSeq(toServer[c], 1, k))))
    /\ UNCHANGED <<mode, cnt, fds, client, faults>>

\* Variant: what was received is sent back in full, terminator included.
EchoAll(c) ==
    /\ Handle(c)
    /\ toServer[c] # <<>>
    /\ \E k \in 1 .. Len(toServer[c]) :
          /\ Read(Len(toServer[c]), k)
          /\ toServer' = [toServer EXCEPT ![c] = From(@, k)]
          /\ Send(c, SubSeq(toServer[c], 1, k))
    /\ buffer' = Zeroed
    /\ UNCHANGED <<mode, cnt, fds, client, faults>>

Echo(c) ==
    /\ Handle(c)
    /\ toServer[c] # <<>>
    /\ \E k \in 1 .. Len(toServer[c]) :
          /\ Read(Len(toServer[c]), k)
          /\ toServer' = [toServer EXCEPT ![c] = From(@, k)]
          /\ Send(c, CString(Filled(SubSeq(toServer[c], 1, k))))
    /\ buffer' = Zeroed
    /\ UNCHANGED <<mode, cnt, fds, client, faults>>

\* epoll_create1 or the first epoll_ctl fails: nothing was waited for yet.
EpollFails ==
    /\ mode = "epoll" /\ spc = "run" /\ cnt = 0
    /\ faults < MaxFaults /\ faults' = faults + 1
    /\ Ended("done")
    /\ UNCHANGED <<mode, cnt, fds, batch, buffer, wires, client, splits>>

Exit ==
    /\ spc = "run" /\ batch = {} /\ cnt = CNT_TRYOUTS
    /\ Ended("done")
    /\ UNCHANGED <<mode, cnt, fds, batch, buffer, wires, client, splits, faults>>

-----------------------------------------------------------------------------
ServerStep    == Wakeup \/ Accept \/ Exit \/ \E c \in Clients : Hangup(c) \/ Echo(c)
ClientStep(c) == ClientSend(c) \/ ClientRecv(c)

Next == \/ ServerStep \/ EpollFails
        \/ \E c \in Clients : Connect(c) \/ ClientStep(c) \/ ClientKill(c)

Spec == Init /\ [][Next]_vars

\* Processes the kernel keeps scheduling; nobody has to start a client.
FairSpec == Spec /\ WF_vars(ServerStep) /\ \A c \in Clients : WF_vars(ClientStep(c))

-----------------------------------------------------------------------------
(* Properties.                                                             *)

\* Slots are not given back in the poll and epoll builds, but each costs a
\* wakeup: with CNT_TRYOUTS + 1 < MAX_FDS no build ever turns a client away and
\* "i <= nfds" (line 143) stays inside the array.
TypeOK ==
    /\ mode \in Modes /\ spc \in {"run", "done", "killed"}
    /\ cnt \in 0 .. CNT_TRYOUTS /\ fds \in 1 .. cnt + 1
    /\ batch \subseteq Clients \cup {Listener}
    /\ buffer \in [1 .. SIZE_BUFFER -> Clients \cup {Nul}]
    /\ queue \in Seq(Clients)
    /\ conn \in [Clients -> {"none", "queued", "open", "closed"}]
    /\ toServer \in [Clients -> Seq(Clients \cup {Nul})]
    /\ toClient \in [Clients -> Seq(Clients)]
    /\ reset \subseteq Clients
    /\ pc \in [Clients -> {"off", "send", "recv", "done", "killed", "refused"}]
    /\ round \in [Clients -> 0 .. ROUNDS] /\ got \in [Clients -> Seq(Clients)]
    /\ splits \in 0 .. MaxSplits /\ faults \in 0 .. MaxFaults

\* One buffer serves all connections, and strlen looks beyond what recv wrote:
\* still a client is only ever sent its own text.
OwnEcho ==
    \A c \in Clients :
        LET s == got[c] \o toClient[c] IN \A n \in 1 .. Len(s) : s[n] = c

\* As long as no read is short, each message of a served client is in exactly
\* one place and each of its rounds brought one whole text.
EchoPerRound ==
    splits = 0 =>
        \A c \in Clients : conn[c] \in {"queued", "open"} /\ ~Gone(c) =>
            /\ Len(got[c]) = round[c] * TEXT
            /\ {Len(toServer[c]), Len(toClient[c])} =
                  (IF pc[c] # "recv" THEN {0}
                   ELSE IF toClient[c] = <<>> THEN {0, TEXT + 1} ELSE {0, TEXT})

\* The loop may end in the middle of a conversation, but not if its wakeups
\* are enough for one accept, one end and ROUNDS messages of every client, and
\* for the calls that failed.  Waiting does not use them up.
NotCutShort ==
    /\ spc = "done" /\ cnt > 0 /\ splits = 0
    /\ CNT_TRYOUTS + 1 >= Cardinality(Clients) * (ROUNDS + 2) + faults
    => \A c \in Clients : pc[c] # "killed" =>
           Len(got[c]) + Len(toClient[c]) = ROUNDS * TEXT

\* A client that leaves ends the server (SIGPIPE) only after a short read: else
\* at most one send is made to a client that is gone.
ServerSurvives == spc = "killed" => splits > 0

\* What a short read may do: a recv that brought the server nothing but a
\* terminator was not answered (line 279), and c waits for the answer.
NotEchoed(c) ==
    /\ splits > 0 /\ spc = "run"
    /\ pc[c] = "recv" /\ conn[c] = "open"
    /\ toServer[c] = <<>> /\ toClient[c] = <<>>

\* A client that connected is served to the end, or the server leaves; nothing
\* but an empty echo after a short read leaves one waiting.
ClientsEnd ==
    \A c \in Clients : pc[c] \in {"send", "recv"} ~> Gone(c) \/ NotEchoed(c)
=============================================================================
