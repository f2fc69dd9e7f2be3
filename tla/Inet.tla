--------------------------------- MODULE Inet ---------------------------------
(***************************************************************************)
(* The echo programs and the multicast programs on one host: they share    *)
(* nothing but the port.                                                   *)
(***************************************************************************)
EXTENDS Echo, Multicasting

vars == <<echoVars, groupVars, port, faults>>

Init == HostInit /\ EchoInit /\ GroupInit

\* Next to the programs of ex25, which do not touch the port, ex16_multicast.c
\* would be on its own.
Next == \/ EchoNext /\ UNCHANGED groupVars
        \/ transport = "inet" /\ GroupNext /\ UNCHANGED echoVars

Spec == Init /\ [][Next]_vars

\* Processes the kernel keeps scheduling, once they are started.
Fairness ==
    /\ WF_vars(ServerStep /\ UNCHANGED groupVars)
    /\ \A c \in Clients : WF_vars(ClientStep(c) /\ UNCHANGED groupVars)
    /\ WF_vars(SenderStep /\ UNCHANGED echoVars)
    /\ WF_vars(ReceiverStep /\ UNCHANGED echoVars)

FairSpec == Spec /\ Fairness

-------------------------------------------------------------------------------
(* Properties.                                                             *)

TypeOK == HostTypeOK /\ EchoTypeOK /\ GroupTypeOK

\* A text that the server has read is answered: as long as nothing is killed, a
\* client reads nothing only if its text was never read.  Over TCP that happens
\* to the client being served, when recv comes before the text (line 87); over
\* the local socket, where read waits (line 82), only to one that was not served.
ReadMeansAnswered ==
    faults = 0 => \A c \in Clients :
        reply[c] = "nothing" => /\ c \in unread
                                /\ transport = "local" => c \notin served

\* The socket path outlives a server only if something was killed: then no start
\* after it succeeds, else every one does.
PathLeftMeansKilled ==
    (path = 1 /\ spc \in Ended) \/ spc = "inuse" => faults > 0

\* The client whose datagram the server has read stays without an answer only
\* because the server was killed or the answer lost.
Unanswered(c) ==
    cpc[c] = "recvfrom" /\ echo[c] = "none" /\ (spc = "killed" \/ (spc = "done" /\ losses > 0))

\* Whatever is killed, and whoever else is served, a client that connected gets
\* through its stream.  Over UDP it is answered if its datagram is the first the
\* server finds, and waits for ever only when the server has ended, or waits for a
\* datagram itself: its own was lost, sent too early or taken by the receiver.
ExchangeEnds ==
    \A c \in Clients :
        /\ cpc[c] \in {"send", "recv"} ~> cpc[c] \notin {"send", "recv"}
        /\ spc = "recvfrom" /\ inbox["server"] # <<>> /\ Head(inbox["server"]) = <<c, 0>>
              ~> Gone(c) \/ Unanswered(c)
        /\ cpc[c] = "recvfrom"
              ~> Gone(c) \/ spc \in Ended \/ (spc = "recvfrom" /\ inbox["server"] = <<>>)

Messages(s) == SelectSeq(s, LAMBDA d : d[1] = Group)

\* The sender has ended with the receiver in its loop and nothing to read: it was
\* killed, or of its messages the first n were sent too early and some were lost.
LeftWaiting(n) ==
    /\ rpc = "loop" /\ inbox["receiver"] = <<>>
    /\ mpc = "killed" \/ (mpc = "done" /\ Len(got) + n + losses >= COUNT)

\* A receiver that has joined before message n + 1 ends, with messages in the
\* order they were sent, or waits for ever as above.  Before the first and with
\* none lost it misses none, but what a client of the echo server sent to the port
\* counts as a message too.
ReceiverEnds ==
    \A n \in 0 .. COUNT - 1 :
        rpc = "loop" /\ mpc = "loop" /\ cnt = n ~>
            \/ rpc = "killed" \/ LeftWaiting(n)
            \/ rpc = "done" /\ LET m == Messages(got) IN
                  /\ \A k \in 2 .. Len(m) : m[k - 1][2] < m[k][2]
                  /\ n + losses = 0 => m = [k \in 1 .. Len(m) |-> <<Group, k>>]
===============================================================================
