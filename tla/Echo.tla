--------------------------------- MODULE Echo ---------------------------------
(***************************************************************************)
(* The echo servers ex16_echo_server.c, over TCP and then over UDP, and    *)
(* ex25_echo_server.c, over a local socket, and their clients: the values  *)
(* "inet" and "local" of transport.  A server serves one connection; it    *)
(* may be started again when it has ended.                                 *)
(*                                                                         *)
(* All clients send the same text.  On this host it is with the server     *)
(* when send returns, and it arrives in one piece.  What of it is printed  *)
(* is left out.                                                            *)
(***************************************************************************)
EXTENDS Host

CONSTANTS
    Transports,   \* those considered, a subset of {"inet", "local"}
    Nobody,       \* no client
    BACKLOG,      \* connections that may wait for accept, 10 in the code
    MaxStarts     \* bound: how often the server is started, for each transport

ASSUME EchoAssumption ==
    /\ Transports \subseteq {"inet", "local"}
    /\ Nobody \notin Clients \cup {Group}
    /\ BACKLOG \in Nat
    /\ MaxStarts \in [Transports -> Nat]

VARIABLES
    transport, starts,
    spc,       \* the call the server is at
    path,      \* 1 while SOCK_PATH exists
    backlog,   \* connections that wait for accept
    conn,      \* client of connect_fd, or the sender of the last datagram
    buffer,    \* "" or what the server received, "text" or "message"
    cpc,       \* the call each client is at
    unread,    \* clients that sent their text and whose text was not read
    answer,    \* per client, what its recv finds: "none", "text", "closed"
    reply,     \* and what it found: "none", "text", "nothing"
    echo,      \* the answer to its datagram: "none" or the text
    served     \* clients whose connection was accepted

stream     == <<backlog, conn, served>>
serverVars == <<transport, starts, spc, path, buffer, stream>>
clientVars == <<cpc, unread, answer, reply, echo>>
echoVars   == <<serverVars, clientVars>>

Ended     == {"off", "done", "inuse", "killed"}
Gone(c)   == cpc[c] \in {"done", "refused", "killed"}
Listening == {"accept", "recv", "send", "close", "unlisten"}
Waiting   == {backlog[n] : n \in DOMAIN backlog}

Goto(from, to) == spc = from /\ spc' = to
Move(c, from, to) == cpc[c] = from /\ cpc' = [cpc EXCEPT ![c] = to]

EchoInit ==
    /\ transport \in Transports /\ starts = 0
    /\ spc = "off" /\ path = 0 /\ buffer = ""
    /\ backlog = <<>> /\ conn = Nobody /\ served = {}
    /\ cpc = [c \in Clients |-> "off"] /\ unread = {}
    /\ answer = [c \in Clients |-> "none"] /\ reply = answer /\ echo = answer

-------------------------------------------------------------------------------
(* The server and its stream socket.                                       *)

StartServer ==
    /\ spc \in Ended /\ starts < MaxStarts[transport]
    /\ spc' = "bind" /\ starts' = starts + 1
    /\ UNCHANGED <<transport, path, buffer, stream, clientVars, port, faults>>

\* SO_REUSEADDR lets a port be bound again; nothing does so for a path.
Bind ==
    /\ Goto("bind", IF path = 1 THEN "inuse" ELSE "listen")
    /\ path' = IF transport = "local" THEN 1 ELSE path
    /\ UNCHANGED <<transport, starts, buffer, stream, clientVars, port, faults>>

Listen ==
    /\ Goto("listen", "accept")
    /\ UNCHANGED <<transport, starts, path, buffer, stream, clientVars, port, faults>>

Accept ==
    /\ Goto("accept", "recv")
    /\ backlog # <<>>
    /\ conn' = Head(backlog) /\ backlog' = Tail(backlog)
    /\ served' = served \cup {conn'}
    /\ UNCHANGED <<transport, starts, path, buffer, clientVars, port, faults>>

Received ==
    /\ buffer' = IF conn \in unread THEN "text" ELSE ""
    /\ unread' = unread \ {conn}

\* Variant: MSG_DONTWAIT in both programs.
ReceiveDontWait ==
    /\ Goto("recv", "send")
    /\ Received
    /\ UNCHANGED <<transport, starts, path, stream, cpc, answer, reply, echo, port, faults>>

\* ex16 does not wait for the text (MSG_DONTWAIT), ex25 does, or for the end
\* of the stream.
Receive ==
    /\ Goto("recv", "send")
    /\ transport = "local" => conn \in unread \/ Gone(conn)
    /\ Received
    /\ UNCHANGED <<transport, starts, path, stream, cpc, answer, reply, echo, port, faults>>

\* Their connections end: what was sent on them is still read.
Hangup(C) == answer' = [c \in Clients |-> IF c \in C /\ answer[c] = "none" THEN "closed"
                                          ELSE answer[c]]

\* The process ends without its last calls: its sockets close, the path stays.
Die ==
    /\ spc' = "killed" /\ buffer' = ""
    /\ Hangup(Waiting \cup {conn})
    /\ backlog' = <<>> /\ conn' = Nobody
    /\ Close("server")
    /\ UNCHANGED <<transport, starts, path, served, cpc, unread, reply, echo, losses>>

\* strlen(buffer) units.  Writing to a local client that is gone is SIGPIPE.
Send ==
    /\ spc = "send"
    /\ IF transport = "local" /\ Gone(conn) THEN Die
       ELSE /\ spc' = "close"
            /\ answer' = [answer EXCEPT ![conn] = IF buffer = "text" THEN "text" ELSE @]
            /\ buffer' = ""
            /\ UNCHANGED <<transport, starts, path, stream, cpc, unread, reply, echo, port>>
    /\ UNCHANGED faults

\* Variant: connect_fd is not closed.
CloseSkipped ==
    /\ Goto("close", "unlisten")
    /\ conn' = Nobody
    /\ UNCHANGED <<transport, starts, path, buffer, backlog, served, clientVars, port, faults>>

CloseConnection ==
    /\ Goto("close", "unlisten")
    /\ Hangup({conn})
    /\ conn' = Nobody
    /\ UNCHANGED <<transport, starts, path, buffer, backlog, served, cpc, unread, reply, echo,
                   port, faults>>

\* Whoever still waits for accept is reset.
CloseListener ==
    /\ Goto("unlisten", IF transport = "local" THEN "unlink" ELSE "udpBind")
    /\ Hangup(Waiting)
    /\ backlog' = <<>>
    /\ UNCHANGED <<transport, starts, path, buffer, conn, served, cpc, unread, reply, echo,
                   port, faults>>

\* Variant: the path is left to the next start.
UnlinkSkipped ==
    /\ Goto("unlink", "done")
    /\ UNCHANGED <<transport, starts, path, buffer, stream, clientVars, port, faults>>

Unlink ==
    /\ Goto("unlink", "done")
    /\ path' = 0
    /\ UNCHANGED <<transport, starts, buffer, stream, clientVars, port, faults>>

-------------------------------------------------------------------------------
(* The server and its datagram socket, ex16 only.                          *)

UdpBind ==
    /\ Goto("udpBind", "recvfrom")
    /\ Open("server")
    /\ UNCHANGED <<transport, starts, path, buffer, stream, clientVars, faults>>

\* The first datagram is the only one that is read, whoever sent it.
UdpReceive ==
    /\ Goto("recvfrom", "sendto")
    /\ inbox["server"] # <<>>
    /\ conn' = Head(inbox["server"])[1]
    /\ buffer' = IF conn' \in Clients THEN "text" ELSE "message"
    /\ inbox' = [inbox EXCEPT !["server"] = Tail(@)]
    /\ UNCHANGED <<transport, starts, path, backlog, served, clientVars, open, losses, faults>>

\* Back to where it came from: the multicast sender's socket, or that of a
\* client that has ended, does not read it.
UdpSend ==
    /\ Goto("sendto", "done")
    /\ \/ echo' = [c \in Clients |-> IF c = conn /\ cpc[c] = "recvfrom" THEN buffer ELSE echo[c]]
          /\ UNCHANGED losses
       \/ Lost /\ UNCHANGED echo
    /\ conn' = Nobody /\ buffer' = ""
    /\ Close("server")
    /\ UNCHANGED <<transport, starts, path, backlog, served, cpc, unread, answer, reply, faults>>

\* A kill, or a call of the set-up that fails.
ServerFault == spc \notin Ended /\ Fault /\ Die

-------------------------------------------------------------------------------
(* A client.                                                               *)

\* connect waits while the backlog is full; Linux queues one more than listen asks.
Connect(c) ==
    /\ IF spc \in Listening
       THEN /\ Len(backlog) <= BACKLOG
            /\ Move(c, "off", "send") /\ backlog' = Append(backlog, c)
       ELSE Move(c, "off", "refused") /\ UNCHANGED backlog
    /\ UNCHANGED <<transport, starts, spc, path, buffer, conn, served, unread, answer, reply,
                   echo, port, faults>>

\* When the server has hung up a local client gets SIGPIPE; over TCP send may
\* fail, and the client goes on.
ClientSend(c) ==
    /\ IF transport = "local" /\ answer[c] = "closed"
       THEN Move(c, "send", "killed") /\ UNCHANGED unread
       ELSE Move(c, "send", "recv") /\ unread' = unread \cup {c}
    /\ UNCHANGED <<serverVars, answer, reply, echo, port, faults>>

ClientRecv(c) ==
    /\ Move(c, "recv", IF transport = "local" THEN "done" ELSE "sendto")
    /\ answer[c] # "none"
    /\ reply' = [reply EXCEPT ![c] = IF answer[c] = "text" THEN "text" ELSE "nothing"]
    /\ UNCHANGED <<serverVars, unread, answer, echo, port, faults>>

\* The sleep of one second before it orders nothing.
ClientUdpSend(c) ==
    /\ Move(c, "sendto", "recvfrom")
    /\ Unicast(<<c, 0>>)
    /\ UNCHANGED <<serverVars, unread, answer, reply, echo, faults>>

\* No timeout: without an answer it waits for ever.
ClientUdpRecv(c) ==
    /\ Move(c, "recvfrom", "done")
    /\ echo[c] # "none"
    /\ UNCHANGED <<serverVars, unread, answer, reply, echo, port, faults>>

ClientKill(c) ==
    /\ cpc[c] # "off" /\ ~Gone(c)
    /\ Fault
    /\ cpc' = [cpc EXCEPT ![c] = "killed"]
    /\ UNCHANGED <<serverVars, unread, answer, reply, echo, port>>

-------------------------------------------------------------------------------
ServerStep ==
    \/ Bind \/ Listen \/ Accept \/ Receive \/ Send \/ CloseConnection \/ CloseListener
    \/ Unlink \/ UdpBind \/ UdpReceive \/ UdpSend

ClientStep(c) == ClientSend(c) \/ ClientRecv(c) \/ ClientUdpSend(c) \/ ClientUdpRecv(c)

EchoNext == \/ StartServer \/ ServerStep \/ ServerFault
            \/ \E c \in Clients : Connect(c) \/ ClientStep(c) \/ ClientKill(c)

EchoTypeOK ==
    /\ transport \in Transports /\ starts \in 0 .. MaxStarts[transport]
    /\ spc \in Ended \cup Listening \cup
              {"bind", "listen", "unlink", "udpBind", "recvfrom", "sendto"}
    /\ path \in {0, 1} /\ buffer \in {"", "text", "message"}
    /\ spc = "sendto" /\ conn \in Clients => buffer = "text"
    /\ backlog \in Seq(Clients) /\ conn \in Clients \cup {Nobody, Group}
    /\ served \subseteq Clients /\ unread \subseteq Clients
    /\ cpc \in [Clients -> {"off", "send", "recv", "sendto", "recvfrom",
                            "done", "refused", "killed"}]
    /\ answer \in [Clients -> {"none", "text", "closed"}]
    /\ reply \in [Clients -> {"none", "text", "nothing"}]
    /\ echo \in [Clients -> {"none", "text"}]
===============================================================================
