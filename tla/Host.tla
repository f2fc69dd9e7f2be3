--------------------------------- MODULE Host ---------------------------------
(***************************************************************************)
(* UDP port 2000 of the host that the programs of ex16 run on, and what    *)
(* may happen to them.  The echo server and the multicast receiver both    *)
(* bind the port to INADDR_ANY with SO_REUSEADDR (ex16_echo_server.c:119,  *)
(* ex16_multicast.c:56), so that both can have it at once.                 *)
(*                                                                         *)
(* A datagram is where it comes from and a number: <<c, 0>> is the text of *)
(* client c, <<Group, n>> the n-th message of the multicast sender.        *)
(***************************************************************************)
EXTENDS Integers, Sequences

CONSTANTS
    Clients,   \* invocations of ex16_client.c or ex25_client.c
    Group,     \* stands for the multicast sender, as the origin of a datagram
    COUNT,     \* messages of the multicast sender, 10 in the code
    MaxFaults  \* bound: lost datagrams, kills and failed calls together

ASSUME HostAssumption ==
    /\ Group \notin Clients
    /\ COUNT \in Nat \ {0}
    /\ MaxFaults \in Nat

VARIABLES
    open,     \* who has the port
    inbox,    \* what the socket of each holds, in order
    losses, faults

port == <<open, inbox, losses>>

Sockets   == {"server", "receiver"}
Datagrams == (Clients \X {0}) \cup ({Group} \X (1 .. COUNT))

HostInit ==
    /\ open = {} /\ inbox = [s \in Sockets |-> <<>>]
    /\ losses = 0 /\ faults = 0

Fault == losses + faults < MaxFaults /\ faults' = faults + 1
Lost  == losses + faults < MaxFaults /\ losses' = losses + 1

Open(s) == open' = open \cup {s} /\ UNCHANGED <<inbox, losses>>

\* What nobody has read is gone.
Close(s) == /\ open' = open \ {s}
            /\ inbox' = [inbox EXCEPT ![s] = <<>>]

Deliver(d, S) == inbox' = [s \in Sockets |-> IF s \in S THEN Append(inbox[s], d) ELSE inbox[s]]

\* To an address of the host: one of the sockets gets it, or none is there.
Unicast(d) ==
    /\ \/ \E s \in open : Deliver(d, {s}) /\ UNCHANGED losses
       \/ open = {} /\ UNCHANGED <<inbox, losses>>
       \/ Lost /\ UNCHANGED inbox
    /\ UNCHANGED open

\* To the group: when the receiver has joined it, every socket of the port may
\* get it, the echo server's too; each may miss it, and that the receiver does is
\* a loss.
Multicast(d, joined) ==
    /\ \/ /\ joined
          /\ \E S \in SUBSET open : /\ Deliver(d, S)
                                    /\ IF "receiver" \in S THEN UNCHANGED losses ELSE Lost
       \/ ~joined /\ UNCHANGED <<inbox, losses>>
    /\ UNCHANGED open

HostTypeOK ==
    /\ open \subseteq Sockets
    /\ inbox \in [Sockets -> Seq(Datagrams)]
    /\ {losses, faults} \subseteq Nat /\ losses + faults <= MaxFaults
===============================================================================
