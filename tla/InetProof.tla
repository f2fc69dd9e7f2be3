------------------------------- MODULE InetProof -------------------------------
(***************************************************************************)
(* Type correctness of Inet, and who is answered by its servers: for any   *)
(* number of clients, starts, messages and faults.                         *)
(***************************************************************************)
EXTENDS Inet, SequenceTheorems, TLAPS

(***************************************************************************)
(* Types.                                                                  *)
(***************************************************************************)

USE DEF Sockets, Ended, Listening

\* The kernel's part of a step: what a socket is given, it may hold.
LEMMA DeliverType ==
    ASSUME HostTypeOK, NEW d \in Datagrams, NEW S, Deliver(d, S)
    PROVE  inbox' \in [Sockets -> Seq(Datagrams)]
  BY DEF HostTypeOK, Deliver

\* The datagrams are those of the clients and of the multicast sender.
LEMMA FromClient == ASSUME NEW c \in Clients PROVE <<c, 0>> \in Datagrams
  BY DEF Datagrams

LEMMA FromGroup == ASSUME NEW n \in 1 .. COUNT PROVE <<Group, n>> \in Datagrams
  BY DEF Datagrams

LEMMA Origin == ASSUME NEW d \in Datagrams PROVE d[1] \in Clients \cup {Group}
  BY DEF Datagrams

\* What happens to the port and to the counts of failures keeps the types.
LEMMA LostType ==
    ASSUME HostTypeOK, Lost, UNCHANGED <<open, inbox, faults>> PROVE HostTypeOK'
  BY HostAssumption DEF HostTypeOK, Lost

LEMMA FaultType ==
    ASSUME HostTypeOK, Fault PROVE {losses, faults'} \subseteq Nat /\ losses + faults' <= MaxFaults
  BY HostAssumption DEF HostTypeOK, Fault

LEMMA OpenType ==
    ASSUME HostTypeOK, NEW s \in Sockets, Open(s), UNCHANGED faults PROVE HostTypeOK'
  BY DEF HostTypeOK, Open

LEMMA CloseType ==
    ASSUME HostTypeOK, NEW s \in Sockets, Close(s)
    PROVE  open' \subseteq Sockets /\ inbox' \in [Sockets -> Seq(Datagrams)]
  BY DEF HostTypeOK, Close

LEMMA TakeType ==
    ASSUME HostTypeOK, NEW s \in Sockets, inbox[s] # <<>>
    PROVE  /\ Head(inbox[s]) \in Datagrams
           /\ [inbox EXCEPT ![s] = Tail(@)] \in [Sockets -> Seq(Datagrams)]
  <1>. DEFINE q == inbox[s]
  <1>1. q \in Seq(Datagrams) /\ q # <<>> /\ inbox \in [Sockets -> Seq(Datagrams)]
    BY DEF HostTypeOK
  <1>. HIDE DEF q
  <1>2. Head(q) \in Datagrams /\ Tail(q) \in Seq(Datagrams)
    BY <1>1
  <1>. QED
    BY <1>1, <1>2 DEF q

\* Sending to the port keeps the types.
LEMMA UnicastType ==
    ASSUME HostTypeOK, NEW d \in Datagrams, Unicast(d), UNCHANGED faults
    PROVE  HostTypeOK'
  <1>1. CASE \E s \in open : Deliver(d, {s}) /\ UNCHANGED losses
    BY <1>1, DeliverType DEF HostTypeOK, Unicast
  <1>2. CASE open = {} /\ UNCHANGED <<inbox, losses>>
    BY <1>2 DEF HostTypeOK, Unicast
  <1>3. CASE Lost /\ UNCHANGED inbox
    BY <1>3, LostType DEF Unicast
  <1>. QED
    BY <1>1, <1>2, <1>3 DEF Unicast

LEMMA MulticastType ==
    ASSUME HostTypeOK, NEW d \in Datagrams, NEW j, Multicast(d, j), UNCHANGED faults
    PROVE  HostTypeOK'
  <1>1. ASSUME NEW S \in SUBSET open, Deliver(d, S), UNCHANGED losses \/ Lost PROVE HostTypeOK'
    BY <1>1, DeliverType, HostAssumption DEF HostTypeOK, Multicast, Lost
  <1>2. CASE UNCHANGED <<inbox, losses>>
    BY <1>2 DEF HostTypeOK, Multicast
  <1>. QED
    BY <1>1, <1>2 DEF Multicast

\* The bound on the starts, and what a server tells the clients it drops.
LEMMA Counts ==
    ASSUME NEW m \in Nat, NEW n \in 0 .. m
    PROVE  0 \in 0 .. m /\ (n < m => n + 1 \in 0 .. m)
  OBVIOUS

LEMMA HeadTail ==
    ASSUME NEW S, NEW s \in Seq(S), s # <<>> PROVE Head(s) \in S /\ Tail(s) \in Seq(S)
  OBVIOUS

LEMMA AppendType ==
    ASSUME NEW S, NEW s \in Seq(S), NEW e \in S PROVE <<>> \in Seq(S) /\ Append(s, e) \in Seq(S)
  OBVIOUS

LEMMA StartsType == ASSUME EchoTypeOK PROVE MaxStarts[transport] \in Nat
  BY EchoAssumption DEF EchoTypeOK

LEMMA HangupType ==
    ASSUME EchoTypeOK, NEW C, Hangup(C) PROVE answer' \in [Clients -> {"none", "text", "closed"}]
  BY DEF EchoTypeOK, Hangup

LEMMA DieType ==
    ASSUME EchoTypeOK, Die PROVE EchoTypeOK'
  <1>1. answer' \in [Clients -> {"none", "text", "closed"}]
    BY HangupType DEF Die
  <1>2. <<>> \in Seq(Clients)
    OBVIOUS
  <1>. QED
    BY <1>1, <1>2 DEF EchoTypeOK, Die

LEMMA InitType == Init => TypeOK
  <1>. SUFFICES ASSUME Init PROVE TypeOK
    OBVIOUS
  <1>1. HostTypeOK
    BY HostAssumption DEF Init, HostInit, HostTypeOK
  <1>2. EchoTypeOK
    <2>1. MaxStarts[transport] \in Nat
      BY EchoAssumption DEF Init, EchoInit
    <2>. QED
      <3>1. starts \in 0 .. MaxStarts[transport]
        <4>1. starts = 0
          BY DEF Init, EchoInit
        <4>. QED
          BY <4>1, <2>1, Counts
      <3>2. \A f : f = [c \in Clients |-> "none"] =>
               /\ f \in [Clients -> {"none", "text", "closed"}]
               /\ f \in [Clients -> {"none", "text", "nothing"}]
               /\ f \in [Clients -> {"none", "text"}]
        OBVIOUS
      <3>3. cpc \in [Clients -> {"off", "send", "recv", "sendto", "recvfrom",
                                 "done", "refused", "killed"}]
        BY DEF Init, EchoInit
      <3>4. /\ answer \in [Clients -> {"none", "text", "closed"}]
            /\ reply \in [Clients -> {"none", "text", "nothing"}]
            /\ echo \in [Clients -> {"none", "text"}]
        BY <3>2 DEF Init, EchoInit
      <3>. QED
        <4>1. /\ transport \in Transports /\ spc = "off" /\ path = 0 /\ buffer = ""
              /\ backlog = <<>> /\ conn = Nobody /\ served = {} /\ unread = {}
          BY DEF Init, EchoInit
        <4>2. <<>> \in Seq(Clients)
          OBVIOUS
        <4>. QED
          BY <3>1, <3>3, <3>4, <4>1, <4>2 DEF EchoTypeOK
  <1>3. GroupTypeOK
    BY HostAssumption DEF Init, GroupInit, GroupTypeOK
  <1>. QED
    BY <1>1, <1>2, <1>3 DEF TypeOK

\* The echo programs keep their types and those of the port.
LEMMA EchoType ==
    ASSUME EchoTypeOK, HostTypeOK, EchoNext PROVE EchoTypeOK' /\ HostTypeOK'
  <1>. USE DEF Goto, Move, Gone, serverVars, clientVars, stream, port
  <1>1. CASE StartServer
    <2>1. EchoTypeOK'
      <3>1. starts' \in 0 .. MaxStarts[transport] /\ transport' = transport
        <4>1. /\ starts \in 0 .. MaxStarts[transport] /\ starts < MaxStarts[transport]
              /\ starts' = starts + 1 /\ transport' = transport
          BY <1>1 DEF EchoTypeOK, StartServer
        <4>. QED
          BY <4>1, StartsType, Counts
      <3>. QED
        BY <1>1, <3>1 DEF EchoTypeOK, StartServer
    <2>2. HostTypeOK'
      BY <1>1 DEF HostTypeOK, StartServer
    <2>. QED
      BY <2>1, <2>2
  <1>2. CASE Bind
    <2>1. EchoTypeOK'
      BY <1>2, StartsType, HangupType DEF EchoTypeOK, Bind
    <2>2. HostTypeOK'
      BY <1>2 DEF HostTypeOK, Bind
    <2>. QED
      BY <2>1, <2>2
  <1>3. CASE Listen
    <2>1. EchoTypeOK'
      BY <1>3, StartsType, HangupType DEF EchoTypeOK, Listen
    <2>2. HostTypeOK'
      BY <1>3 DEF HostTypeOK, Listen
    <2>. QED
      BY <2>1, <2>2
  <1>4. CASE Accept
    <2>1. EchoTypeOK'
      <3>1. Head(backlog) \in Clients /\ Tail(backlog) \in Seq(Clients)
        <4>1. backlog \in Seq(Clients) /\ backlog # <<>>
          BY <1>4 DEF EchoTypeOK, Accept
        <4>. QED
          BY <4>1, HeadTail
      <3>. QED
        BY <1>4, <3>1 DEF EchoTypeOK, Accept
    <2>2. HostTypeOK'
      BY <1>4 DEF HostTypeOK, Accept
    <2>. QED
      BY <2>1, <2>2
  <1>5. CASE Receive
    <2>1. EchoTypeOK'
      BY <1>5, StartsType, HangupType DEF EchoTypeOK, Receive, Received
    <2>2. HostTypeOK'
      BY <1>5 DEF HostTypeOK, Receive
    <2>. QED
      BY <2>1, <2>2
  <1>6. CASE Send
    <2>1. EchoTypeOK'
      <3>1. CASE Die
        BY <1>6, <3>1, DieType DEF Send
      <3>2. CASE ~Die
        BY <1>6, <3>2 DEF EchoTypeOK, Send
      <3>. QED
        BY <3>1, <3>2
    <2>2. HostTypeOK'
      BY <1>6, CloseType DEF HostTypeOK, Send, Die
    <2>. QED
      BY <2>1, <2>2
  <1>7. CASE CloseConnection
    <2>1. EchoTypeOK'
      BY <1>7, StartsType, HangupType DEF EchoTypeOK, CloseConnection
    <2>2. HostTypeOK'
      BY <1>7 DEF HostTypeOK, CloseConnection
    <2>. QED
      BY <2>1, <2>2
  <1>8. CASE CloseListener
    <2>1. EchoTypeOK'
      <3>1. answer' \in [Clients -> {"none", "text", "closed"}]
        BY <1>8, HangupType DEF CloseListener
      <3>2. <<>> \in Seq(Clients)
        OBVIOUS
      <3>. QED
        BY <1>8, <3>1, <3>2 DEF EchoTypeOK, CloseListener
    <2>2. HostTypeOK'
      BY <1>8 DEF HostTypeOK, CloseListener
    <2>. QED
      BY <2>1, <2>2
  <1>9. CASE Unlink
    <2>1. EchoTypeOK'
      BY <1>9, StartsType, HangupType DEF EchoTypeOK, Unlink
    <2>2. HostTypeOK'
      BY <1>9 DEF HostTypeOK, Unlink
    <2>. QED
      BY <2>1, <2>2
  <1>10. CASE UdpBind
    <2>1. EchoTypeOK'
      BY <1>10, StartsType, HangupType DEF EchoTypeOK, UdpBind
    <2>2. HostTypeOK'
      BY <1>10, OpenType DEF HostTypeOK, UdpBind
    <2>. QED
      BY <2>1, <2>2
  <1>11. CASE UdpReceive
    <2>1. EchoTypeOK'
      BY <1>11, StartsType, TakeType, Origin DEF EchoTypeOK, UdpReceive, HostTypeOK
    <2>2. HostTypeOK'
      BY <1>11, TakeType DEF HostTypeOK, UdpReceive
    <2>. QED
      BY <2>1, <2>2
  <1>12. CASE UdpSend
    <2>1. EchoTypeOK'
      <3>1. echo' \in [Clients -> {"none", "text"}]
        <4>1. CASE UNCHANGED echo
          BY <4>1 DEF EchoTypeOK
        <4>2. CASE echo' = [c \in Clients |-> IF c = conn /\ cpc[c] = "recvfrom"
                                             THEN buffer ELSE echo[c]]
          <5>1. \A c \in Clients : c = conn => buffer = "text"
            BY <1>12 DEF EchoTypeOK, UdpSend
          <5>2. echo \in [Clients -> {"none", "text"}]
            BY DEF EchoTypeOK
          <5>. QED
            BY <4>2, <5>1, <5>2
        <4>. QED
          BY <1>12, <4>1, <4>2 DEF UdpSend
      <3>. QED
        BY <1>12, <3>1 DEF EchoTypeOK, UdpSend
    <2>2. HostTypeOK'
      <3>1. Close("server") /\ UNCHANGED faults /\ (UNCHANGED losses \/ Lost)
        BY <1>12 DEF UdpSend
      <3>. QED
        BY <3>1, CloseType, HostAssumption DEF HostTypeOK, Lost
    <2>. QED
      BY <2>1, <2>2
  <1>13. CASE ServerFault
    <2>1. EchoTypeOK'
      BY <1>13, DieType DEF ServerFault
    <2>2. HostTypeOK'
      BY <1>13, CloseType, FaultType DEF HostTypeOK, ServerFault, Die
    <2>. QED
      BY <2>1, <2>2
  <1>14. ASSUME NEW c \in Clients, Connect(c) PROVE EchoTypeOK' /\ HostTypeOK'
    <2>1. EchoTypeOK'
      <3>1. Append(backlog, c) \in Seq(Clients)
        <4>1. backlog \in Seq(Clients) /\ c \in Clients
          BY <1>14 DEF EchoTypeOK
        <4>. QED
          BY <4>1, AppendType
      <3>2. backlog' \in Seq(Clients)
        BY <1>14, <3>1 DEF EchoTypeOK, Connect
      <3>. QED
        BY <1>14, <3>2 DEF EchoTypeOK, Connect
    <2>2. HostTypeOK'
      BY <1>14 DEF HostTypeOK, Connect
    <2>. QED
      BY <2>1, <2>2
  <1>15. ASSUME NEW c \in Clients, ClientSend(c) PROVE EchoTypeOK' /\ HostTypeOK'
    <2>1. EchoTypeOK'
      BY <1>15 DEF EchoTypeOK, ClientSend
    <2>2. HostTypeOK'
      BY <1>15 DEF HostTypeOK, ClientSend
    <2>. QED
      BY <2>1, <2>2
  <1>16. ASSUME NEW c \in Clients, ClientRecv(c) PROVE EchoTypeOK' /\ HostTypeOK'
    <2>1. EchoTypeOK'
      BY <1>16 DEF EchoTypeOK, ClientRecv
    <2>2. HostTypeOK'
      BY <1>16 DEF HostTypeOK, ClientRecv
    <2>. QED
      BY <2>1, <2>2
  <1>17. ASSUME NEW c \in Clients, ClientUdpSend(c) PROVE EchoTypeOK' /\ HostTypeOK'
    <2>1. EchoTypeOK'
      BY <1>17 DEF EchoTypeOK, ClientUdpSend
    <2>2. HostTypeOK'
      BY <1>17, UnicastType, FromClient DEF HostTypeOK, ClientUdpSend
    <2>. QED
      BY <2>1, <2>2
  <1>18. ASSUME NEW c \in Clients, ClientUdpRecv(c) PROVE EchoTypeOK' /\ HostTypeOK'
    <2>1. EchoTypeOK'
      BY <1>18 DEF EchoTypeOK, ClientUdpRecv
    <2>2. HostTypeOK'
      BY <1>18 DEF HostTypeOK, ClientUdpRecv
    <2>. QED
      BY <2>1, <2>2
  <1>19. ASSUME NEW c \in Clients, ClientKill(c) PROVE EchoTypeOK' /\ HostTypeOK'
    <2>1. EchoTypeOK'
      BY <1>19 DEF EchoTypeOK, ClientKill
    <2>2. HostTypeOK'
      BY <1>19, FaultType DEF HostTypeOK, ClientKill
    <2>. QED
      BY <2>1, <2>2
  <1>. QED
    BY <1>1, <1>2, <1>3, <1>4, <1>5, <1>6, <1>7, <1>8, <1>9, <1>10, <1>11, <1>12, <1>13, <1>14, <1>15, <1>16, <1>17, <1>18, <1>19 DEF EchoNext, ServerStep, ClientStep

\* So do the multicast programs.
LEMMA GroupType ==
    ASSUME GroupTypeOK, HostTypeOK, GroupNext PROVE GroupTypeOK' /\ HostTypeOK'
  <1>. USE HostAssumption DEF port
  <1>1. CASE StartSender
    <2>1. GroupTypeOK'
      BY <1>1 DEF GroupTypeOK, HostTypeOK, StartSender
    <2>2. HostTypeOK'
      BY <1>1 DEF HostTypeOK, StartSender
    <2>. QED
      BY <2>1, <2>2
  <1>2. CASE SendMessage
    <2>1. GroupTypeOK'
      BY <1>2 DEF GroupTypeOK, HostTypeOK, SendMessage
    <2>2. HostTypeOK'
      <3>1. cnt + 1 \in 1 .. COUNT
        BY <1>2 DEF GroupTypeOK, SendMessage
      <3>2. <<Group, cnt + 1>> \in Datagrams
        BY <3>1, FromGroup
      <3>. QED
        BY <1>2, <3>2, MulticastType DEF SendMessage
    <2>. QED
      BY <2>1, <2>2
  <1>3. CASE ReceiverBind
    <2>1. GroupTypeOK'
      BY <1>3 DEF GroupTypeOK, HostTypeOK, ReceiverBind
    <2>2. HostTypeOK'
      BY <1>3, OpenType DEF HostTypeOK, ReceiverBind
    <2>. QED
      BY <2>1, <2>2
  <1>4. CASE Join
    <2>1. GroupTypeOK'
      BY <1>4 DEF GroupTypeOK, HostTypeOK, Join
    <2>2. HostTypeOK'
      BY <1>4 DEF HostTypeOK, Join
    <2>. QED
      BY <2>1, <2>2
  <1>5. CASE ReceiveMessage
    <2>1. GroupTypeOK'
      BY <1>5 DEF GroupTypeOK, HostTypeOK, ReceiveMessage
    <2>2. HostTypeOK'
      BY <1>5, CloseType, TakeType DEF HostTypeOK, ReceiveMessage
    <2>. QED
      BY <2>1, <2>2
  <1>6. CASE GroupFault
    <2>1. GroupTypeOK'
      BY <1>6 DEF GroupTypeOK, HostTypeOK, GroupFault
    <2>2. HostTypeOK'
      BY <1>6, CloseType, FaultType DEF HostTypeOK, GroupFault
    <2>. QED
      BY <2>1, <2>2
  <1>. QED
    BY <1>1, <1>2, <1>3, <1>4, <1>5, <1>6 DEF GroupNext, SenderStep, ReceiverStep

(***************************************************************************)
(* Who is answered, as long as nothing is killed.                          *)
(***************************************************************************)

\* Each client that connected waits in the backlog, unserved and unanswered, or
\* its connection has been taken: once.  A text that was read is on its way.
Waits(c)  == \E n \in DOMAIN backlog : backlog[n] = c
InHand(c) == spc \in {"recv", "send"} /\ conn = c

Once ==
    /\ \A m, n \in DOMAIN backlog : backlog[m] = backlog[n] => m = n
    /\ \A c \in Clients : Waits(c) \/ InHand(c) =>
           cpc[c] \in {"send", "recv"} /\ answer[c] = "none"
    /\ \A c \in Clients : Waits(c) => c \notin served /\ ~(spc \in {"recv", "send", "close"} /\ conn = c)
    /\ spc \in {"recv", "send", "close"} => conn \in Clients /\ cpc[conn] # "off"

Kept ==
    /\ \A c \in Clients : cpc[c] = "recv" =>
           c \in unread \/ answer[c] = "text" \/ (spc = "send" /\ conn = c /\ buffer = "text")
    /\ \A c \in Clients : cpc[c] = "off" => answer[c] = "none" /\ c \notin served
    /\ \A c \in Clients : reply[c] = "nothing" => c \in unread /\ answer[c] = "closed"

\* A local server waits for the text of its client.
WaitedFor ==
    transport = "local" =>
        /\ \A c \in served : answer[c] = "text" \/ InHand(c)
        /\ spc = "send" => buffer = "text"
        /\ spc = "close" => answer[conn] = "text"

\* The path is there from bind to unlink.
PathInPlace ==
    /\ spc \in Ended \cup {"bind"} => path = 0
    /\ spc # "inuse"
    /\ transport = "inet" => path = 0
    /\ spc \in {"udpBind", "recvfrom", "sendto"} => transport = "inet"

Answering == faults = 0 => Once /\ Kept /\ WaitedFor /\ PathInPlace

\* The positions of a backlog before and after a step.
LEMMA Dequeue ==
    ASSUME NEW S, NEW s \in Seq(S), s # <<>>
    PROVE  /\ 1 \in DOMAIN s /\ s[1] = Head(s)
           /\ \A n \in DOMAIN Tail(s) :
                  n \in Nat /\ n + 1 # 1 /\ n + 1 \in DOMAIN s /\ Tail(s)[n] = s[n + 1]
  OBVIOUS

LEMMA Enqueue ==
    ASSUME NEW S, NEW s \in Seq(S), NEW e
    PROVE  \A n \in DOMAIN Append(s, e) :
               \/ n \in DOMAIN s /\ Append(s, e)[n] = s[n]
               \/ n = Len(s) + 1 /\ Append(s, e)[n] = e
  OBVIOUS

LEMMA Shifted ==
    ASSUME NEW S, NEW s \in Seq(S), s # <<>>
    PROVE  \A n \in DOMAIN s : n # 1 => n - 1 \in DOMAIN Tail(s) /\ Tail(s)[n - 1] = s[n]
  <1>1. /\ Len(Tail(s)) = Len(s) - 1 /\ DOMAIN Tail(s) = 1 .. Len(Tail(s))
        /\ DOMAIN s = 1 .. Len(s) /\ Len(s) \in Nat
        /\ \A n \in 1 .. Len(Tail(s)) : Tail(s)[n] = s[n + 1]
    <2>1. Tail(s) \in Seq(S) /\ Len(Tail(s)) = Len(s) - 1
      BY HeadTailProperties
    <2>2. \A n \in 1 .. Len(Tail(s)) : Tail(s)[n] = s[n + 1]
      BY HeadTailProperties
    <2>. QED
      BY <2>1, <2>2, LenProperties
  <1>. SUFFICES ASSUME NEW n \in DOMAIN s, n # 1
                PROVE  n - 1 \in DOMAIN Tail(s) /\ Tail(s)[n - 1] = s[n]
    OBVIOUS
  <1>2. n \in Int /\ n - 1 \in 1 .. (Len(s) - 1) /\ (n - 1) + 1 = n
    BY <1>1
  <1>3. n - 1 \in 1 .. Len(Tail(s))
    BY <1>1, <1>2
  <1>4. Tail(s)[n - 1] = s[(n - 1) + 1]
    BY <1>1, <1>3
  <1>. QED
    BY <1>1, <1>2, <1>3, <1>4

LEMMA Grown ==
    ASSUME NEW S, NEW s \in Seq(S), NEW e \in S
    PROVE  /\ \A n \in DOMAIN s : n \in DOMAIN Append(s, e) /\ Append(s, e)[n] = s[n]
           /\ Len(s) + 1 \in DOMAIN Append(s, e) /\ Append(s, e)[Len(s) + 1] = e
  OBVIOUS

LEMMA Empty == DOMAIN <<>> = {}
  OBVIOUS

LEMMA InitAnswering == Init => Answering
  <1>. SUFFICES ASSUME Init PROVE Once /\ Kept /\ WaitedFor /\ PathInPlace
    BY DEF Answering
  <1>1. /\ spc = "off" /\ path = 0 /\ served = {} /\ DOMAIN backlog = {}
        /\ \A c \in Clients : cpc[c] = "off" /\ answer[c] = "none" /\ reply[c] = "none"
    BY Empty DEF Init, EchoInit
  <1>. QED
    BY <1>1 DEF Once, Kept, WaitedFor, PathInPlace, Waits, InHand

\* No step of the echo programs but a kill disturbs any of it.
LEMMA EchoAnswering ==
    ASSUME EchoTypeOK, HostTypeOK, Answering, EchoNext PROVE Answering'
  <1>. USE DEF Goto, Move, Gone, serverVars, clientVars, stream, port, Waits, InHand
  <1>0. SUFFICES ASSUME faults' = 0 PROVE (Once /\ Kept /\ WaitedFor /\ PathInPlace)'
    BY DEF Answering
  <1>1. CASE StartServer
    <2>0. faults = 0 /\ Once /\ Kept /\ WaitedFor /\ PathInPlace
      BY <1>0, <1>1 DEF Answering, StartServer
    <2>2. Once'
      BY <1>1, <2>0 DEF EchoTypeOK, Once, StartServer
    <2>3. Kept'
      BY <1>1, <2>0 DEF EchoTypeOK, Kept, Once, StartServer
    <2>4. WaitedFor'
      BY <1>1, <2>0 DEF EchoTypeOK, WaitedFor, Once, StartServer
    <2>5. PathInPlace'
      BY <1>1, <2>0 DEF EchoTypeOK, PathInPlace, Once, StartServer
    <2>. QED
      BY <2>2, <2>3, <2>4, <2>5
  <1>2. CASE Bind
    <2>0. faults = 0 /\ Once /\ Kept /\ WaitedFor /\ PathInPlace
      BY <1>0, <1>2 DEF Answering, Bind
    <2>2. Once'
      BY <1>2, <2>0 DEF EchoTypeOK, Once, Bind
    <2>3. Kept'
      BY <1>2, <2>0 DEF EchoTypeOK, Kept, Once, Bind
    <2>4. WaitedFor'
      BY <1>2, <2>0 DEF EchoTypeOK, WaitedFor, Once, Bind
    <2>5. PathInPlace'
      BY <1>2, <2>0 DEF PathInPlace, Bind
    <2>. QED
      BY <2>2, <2>3, <2>4, <2>5
  <1>3. CASE Listen
    <2>0. faults = 0 /\ Once /\ Kept /\ WaitedFor /\ PathInPlace
      BY <1>0, <1>3 DEF Answering, Listen
    <2>2. Once'
      BY <1>3, <2>0 DEF EchoTypeOK, Once, Listen
    <2>3. Kept'
      BY <1>3, <2>0 DEF EchoTypeOK, Kept, Once, Listen
    <2>4. WaitedFor'
      BY <1>3, <2>0 DEF EchoTypeOK, WaitedFor, Once, Listen
    <2>5. PathInPlace'
      BY <1>3, <2>0 DEF EchoTypeOK, PathInPlace, Once, Listen
    <2>. QED
      BY <2>2, <2>3, <2>4, <2>5
  <1>4. CASE Accept
    <2>0. faults = 0 /\ Once /\ Kept /\ WaitedFor /\ PathInPlace
      BY <1>0, <1>4 DEF Answering, Accept
    <2>1. /\ 1 \in DOMAIN backlog /\ conn' = backlog[1] /\ conn' \in Clients
          /\ \A n \in DOMAIN backlog' :
                 n \in Nat /\ n + 1 # 1 /\ n + 1 \in DOMAIN backlog /\ backlog'[n] = backlog[n + 1]
          /\ served' = served \cup {conn'} /\ spc = "accept" /\ spc' = "recv"
          /\ UNCHANGED <<cpc, answer, unread, reply>>
      BY <1>4, Dequeue, HeadTail DEF EchoTypeOK, Accept
    <2>2. Once'
      <3>1. \A c \in Clients : Waits(c)' => Waits(c) /\ c # conn'
        BY <2>0, <2>1 DEF Once
      <3>2. \A m, n \in DOMAIN backlog' : backlog'[m] = backlog'[n] => m = n
        <4>. SUFFICES ASSUME NEW m \in DOMAIN backlog', NEW n \in DOMAIN backlog',
                             backlog'[m] = backlog'[n]
                      PROVE  m = n
          OBVIOUS
        <4>1. m + 1 = n + 1
          BY <2>0, <2>1 DEF Once
        <4>. QED
          BY <2>1, <4>1
      <3>3. cpc[conn'] \in {"send", "recv"} /\ answer[conn'] = "none"
        BY <2>0, <2>1 DEF Once
      <3>. HIDE DEF Waits
      <3>. QED
        BY <2>0, <2>1, <3>1, <3>2, <3>3 DEF Once
    <2>3. Kept'
      <3>1. cpc[conn'] # "off"
        BY <2>0, <2>1 DEF Once
      <3>. QED
        BY <2>0, <2>1, <3>1 DEF Kept
    <2>4. WaitedFor'
      BY <1>4, <2>0 DEF EchoTypeOK, WaitedFor, Once, Accept
    <2>5. PathInPlace'
      BY <1>4, <2>0 DEF EchoTypeOK, PathInPlace, Once, Accept
    <2>. QED
      BY <2>2, <2>3, <2>4, <2>5
  <1>5. CASE Receive
    <2>0. faults = 0 /\ Once /\ Kept /\ WaitedFor /\ PathInPlace
      BY <1>0, <1>5 DEF Answering, Receive
    <2>2. Once'
      BY <1>5, <2>0 DEF EchoTypeOK, Once, Receive, Received
    <2>3. Kept'
      BY <1>5, <2>0 DEF EchoTypeOK, Kept, Once, Receive, Received
    <2>4. WaitedFor'
      BY <1>5, <2>0 DEF EchoTypeOK, WaitedFor, Once, Receive, Received
    <2>5. PathInPlace'
      BY <1>5, <2>0 DEF EchoTypeOK, PathInPlace, Once, Receive, Received
    <2>. QED
      BY <2>2, <2>3, <2>4, <2>5
  <1>6. CASE Send
    <2>0. faults = 0 /\ Once /\ Kept /\ WaitedFor /\ PathInPlace
      BY <1>0, <1>6 DEF Answering, Send
    <2>1. /\ conn \in Clients /\ spc = "send" /\ spc' = "close" /\ buffer' = ""
          /\ answer' = [answer EXCEPT ![conn] = IF buffer = "text" THEN "text" ELSE @]
          /\ UNCHANGED <<transport, path, conn, backlog, served, cpc, unread, reply>>
          /\ cpc[conn] \in {"send", "recv"} /\ answer[conn] = "none"
          /\ answer \in [Clients -> {"none", "text", "closed"}]
          /\ buffer \in {"", "text", "message"}
      <3>1. spc = "send" /\ conn \in Clients /\ cpc[conn] \in {"send", "recv"} /\ answer[conn] = "none"
        BY <1>6, <2>0 DEF Send, Once
      <3>. QED
        BY <1>6, <3>1 DEF Send, EchoTypeOK
    <2>2. Once'
      BY <2>0, <2>1 DEF Once
    <2>3. Kept'
      BY <2>0, <2>1 DEF Kept, Once
    <2>4. WaitedFor'
      <3>1. served \subseteq Clients
        BY DEF EchoTypeOK
      <3>. QED
        BY <2>0, <2>1, <3>1 DEF WaitedFor
    <2>5. PathInPlace'
      BY <1>6, <2>0, <2>1 DEF EchoTypeOK, PathInPlace, Once, Send
    <2>. QED
      BY <2>2, <2>3, <2>4, <2>5
  <1>7. CASE CloseConnection
    <2>0. faults = 0 /\ Once /\ Kept /\ WaitedFor /\ PathInPlace
      BY <1>0, <1>7 DEF Answering, CloseConnection
    <2>2. Once'
      BY <1>7, <2>0 DEF EchoTypeOK, Once, CloseConnection, Hangup
    <2>3. Kept'
      BY <1>7, <2>0 DEF EchoTypeOK, Kept, Once, CloseConnection, Hangup
    <2>4. WaitedFor'
      BY <1>7, <2>0 DEF EchoTypeOK, WaitedFor, Once, CloseConnection, Hangup
    <2>5. PathInPlace'
      BY <1>7, <2>0 DEF EchoTypeOK, PathInPlace, Once, CloseConnection, Hangup
    <2>. QED
      BY <2>2, <2>3, <2>4, <2>5
  <1>8. CASE CloseListener
    <2>0. faults = 0 /\ Once /\ Kept /\ WaitedFor /\ PathInPlace
      BY <1>0, <1>8 DEF Answering, CloseListener
    <2>1. /\ spc = "unlisten" /\ spc' \notin {"recv", "send", "close"} /\ DOMAIN backlog' = {}
          /\ UNCHANGED <<cpc, unread, reply, served>>
          /\ \A c \in Clients : answer'[c] = IF Waits(c) /\ answer[c] = "none" THEN "closed" ELSE answer[c]
      BY <1>8, Empty DEF CloseListener, Hangup, Waiting
    <2>2. Once'
      BY <2>1 DEF Once
    <2>3. Kept'
      <3>1. \A c \in Clients : Waits(c) => cpc[c] # "off"
        BY <2>0 DEF Once
      <3>. HIDE DEF Waits
      <3>. QED
        BY <2>0, <2>1, <3>1 DEF Kept
    <2>4. WaitedFor'
      BY <1>8, <2>0 DEF EchoTypeOK, WaitedFor, Once, CloseListener, Hangup, Waiting
    <2>5. PathInPlace'
      BY <1>8, <2>0, EchoAssumption DEF EchoTypeOK, PathInPlace, CloseListener
    <2>. QED
      BY <2>2, <2>3, <2>4, <2>5
  <1>9. CASE Unlink
    <2>0. faults = 0 /\ Once /\ Kept /\ WaitedFor /\ PathInPlace
      BY <1>0, <1>9 DEF Answering, Unlink
    <2>2. Once'
      BY <1>9, <2>0 DEF EchoTypeOK, Once, Unlink
    <2>3. Kept'
      BY <1>9, <2>0 DEF EchoTypeOK, Kept, Once, Unlink
    <2>4. WaitedFor'
      BY <1>9, <2>0 DEF EchoTypeOK, WaitedFor, Once, Unlink
    <2>5. PathInPlace'
      BY <1>9, <2>0 DEF EchoTypeOK, PathInPlace, Once, Unlink
    <2>. QED
      BY <2>2, <2>3, <2>4, <2>5
  <1>10. CASE UdpBind
    <2>0. faults = 0 /\ Once /\ Kept /\ WaitedFor /\ PathInPlace
      BY <1>0, <1>10 DEF Answering, UdpBind
    <2>2. Once'
      BY <1>10, <2>0 DEF EchoTypeOK, Once, UdpBind
    <2>3. Kept'
      BY <1>10, <2>0 DEF EchoTypeOK, Kept, Once, UdpBind
    <2>4. WaitedFor'
      BY <1>10, <2>0 DEF EchoTypeOK, WaitedFor, Once, UdpBind
    <2>5. PathInPlace'
      BY <1>10, <2>0 DEF EchoTypeOK, PathInPlace, Once, UdpBind
    <2>. QED
      BY <2>2, <2>3, <2>4, <2>5
  <1>11. CASE UdpReceive
    <2>0. faults = 0 /\ Once /\ Kept /\ WaitedFor /\ PathInPlace
      BY <1>0, <1>11 DEF Answering, UdpReceive
    <2>2. Once'
      BY <1>11, <2>0 DEF EchoTypeOK, Once, UdpReceive
    <2>3. Kept'
      BY <1>11, <2>0 DEF EchoTypeOK, Kept, Once, UdpReceive
    <2>4. WaitedFor'
      BY <1>11, <2>0 DEF EchoTypeOK, WaitedFor, Once, UdpReceive
    <2>5. PathInPlace'
      BY <1>11, <2>0 DEF EchoTypeOK, PathInPlace, Once, UdpReceive
    <2>. QED
      BY <2>2, <2>3, <2>4, <2>5
  <1>12. CASE UdpSend
    <2>0. faults = 0 /\ Once /\ Kept /\ WaitedFor /\ PathInPlace
      BY <1>0, <1>12 DEF Answering, UdpSend
    <2>2. Once'
      BY <1>12, <2>0 DEF EchoTypeOK, Once, UdpSend
    <2>3. Kept'
      BY <1>12, <2>0 DEF EchoTypeOK, Kept, Once, UdpSend
    <2>4. WaitedFor'
      BY <1>12, <2>0 DEF EchoTypeOK, WaitedFor, Once, UdpSend
    <2>5. PathInPlace'
      BY <1>12, <2>0 DEF EchoTypeOK, PathInPlace, Once, UdpSend
    <2>. QED
      BY <2>2, <2>3, <2>4, <2>5
  <1>13. ASSUME NEW c \in Clients, Connect(c) PROVE (Once /\ Kept /\ WaitedFor /\ PathInPlace)'
    <2>0. faults = 0 /\ Once /\ Kept /\ WaitedFor /\ PathInPlace
      BY <1>0, <1>13 DEF Answering, Connect
    <2>1. /\ cpc[c] = "off" /\ UNCHANGED <<spc, conn, answer, unread, reply, served, buffer>>
          /\ answer[c] = "none" /\ c \notin served /\ reply[c] # "nothing"
          /\ \/ cpc' = [cpc EXCEPT ![c] = "send"] /\ backlog' = Append(backlog, c)
             \/ cpc' = [cpc EXCEPT ![c] = "refused"] /\ backlog' = backlog
          /\ cpc \in [Clients -> {"off", "send", "recv", "sendto", "recvfrom",
                                  "done", "refused", "killed"}]
          /\ \A n \in DOMAIN Append(backlog, c) :
                 \/ n \in DOMAIN backlog /\ Append(backlog, c)[n] = backlog[n]
                 \/ n = Len(backlog) + 1 /\ Append(backlog, c)[n] = c
      <3>1. backlog \in Seq(Clients)
        BY DEF EchoTypeOK
      <3>2. \A n \in DOMAIN Append(backlog, c) :
               \/ n \in DOMAIN backlog /\ Append(backlog, c)[n] = backlog[n]
               \/ n = Len(backlog) + 1 /\ Append(backlog, c)[n] = c
        BY <3>1, Enqueue
      <3>. QED
        BY <1>13, <2>0, <3>2 DEF EchoTypeOK, Connect, Kept
    <2>2. Once'
      <3>1. ~Waits(c) /\ ~(spc \in {"recv", "send", "close"} /\ conn = c)
        BY <1>13, <2>0, <2>1 DEF Once
      <3>2. \A b \in Clients : Waits(b)' => Waits(b) \/ (b = c /\ cpc'[c] = "send")
        BY <1>13, <2>1
      <3>3. \A m, n \in DOMAIN backlog' : backlog'[m] = backlog'[n] => m = n
        BY <2>0, <2>1, <3>1 DEF Once
      <3>. HIDE DEF Waits
      <3>. QED
        BY <1>13, <2>0, <2>1, <3>1, <3>2, <3>3 DEF Once
    <2>3. Kept'
      BY <1>13, <2>0, <2>1 DEF Kept
    <2>4. WaitedFor'
      BY <1>13, <2>0 DEF EchoTypeOK, WaitedFor, Once, Connect
    <2>5. PathInPlace'
      BY <1>13, <2>0 DEF EchoTypeOK, PathInPlace, Once, Connect
    <2>. QED
      BY <2>2, <2>3, <2>4, <2>5
  <1>14. ASSUME NEW c \in Clients, ClientSend(c) PROVE (Once /\ Kept /\ WaitedFor /\ PathInPlace)'
    <2>0. faults = 0 /\ Once /\ Kept /\ WaitedFor /\ PathInPlace
      BY <1>0, <1>14 DEF Answering, ClientSend
    <2>2. Once'
      BY <1>14, <2>0 DEF EchoTypeOK, Once, ClientSend
    <2>3. Kept'
      <3>1. /\ cpc[c] = "send" /\ UNCHANGED <<spc, conn, buffer, answer, reply, served>>
            /\ \/ cpc' = [cpc EXCEPT ![c] = "killed"] /\ unread' = unread
               \/ cpc' = [cpc EXCEPT ![c] = "recv"] /\ unread' = unread \cup {c}
            /\ cpc \in [Clients -> {"off", "send", "recv", "sendto", "recvfrom",
                                    "done", "refused", "killed"}]
        BY <1>14 DEF EchoTypeOK, ClientSend
      <3>. QED
        BY <1>14, <2>0, <3>1 DEF Kept
    <2>4. WaitedFor'
      BY <1>14, <2>0 DEF EchoTypeOK, WaitedFor, Once, ClientSend
    <2>5. PathInPlace'
      BY <1>14, <2>0 DEF EchoTypeOK, PathInPlace, Once, ClientSend
    <2>. QED
      BY <2>2, <2>3, <2>4, <2>5
  <1>15. ASSUME NEW c \in Clients, ClientRecv(c) PROVE (Once /\ Kept /\ WaitedFor /\ PathInPlace)'
    <2>0. faults = 0 /\ Once /\ Kept /\ WaitedFor /\ PathInPlace
      BY <1>0, <1>15 DEF Answering, ClientRecv
    <2>2. Once'
      BY <1>15, <2>0 DEF EchoTypeOK, Once, ClientRecv
    <2>3. Kept'
      BY <1>15, <2>0 DEF EchoTypeOK, Kept, Once, ClientRecv
    <2>4. WaitedFor'
      BY <1>15, <2>0 DEF EchoTypeOK, WaitedFor, Once, ClientRecv
    <2>5. PathInPlace'
      BY <1>15, <2>0 DEF EchoTypeOK, PathInPlace, Once, ClientRecv
    <2>. QED
      BY <2>2, <2>3, <2>4, <2>5
  <1>16. ASSUME NEW c \in Clients, ClientUdpSend(c) PROVE (Once /\ Kept /\ WaitedFor /\ PathInPlace)'
    <2>0. faults = 0 /\ Once /\ Kept /\ WaitedFor /\ PathInPlace
      BY <1>0, <1>16 DEF Answering, ClientUdpSend
    <2>2. Once'
      BY <1>16, <2>0 DEF EchoTypeOK, Once, ClientUdpSend
    <2>3. Kept'
      BY <1>16, <2>0 DEF EchoTypeOK, Kept, Once, ClientUdpSend
    <2>4. WaitedFor'
      BY <1>16, <2>0 DEF EchoTypeOK, WaitedFor, Once, ClientUdpSend
    <2>5. PathInPlace'
      BY <1>16, <2>0 DEF EchoTypeOK, PathInPlace, Once, ClientUdpSend
    <2>. QED
      BY <2>2, <2>3, <2>4, <2>5
  <1>17. ASSUME NEW c \in Clients, ClientUdpRecv(c) PROVE (Once /\ Kept /\ WaitedFor /\ PathInPlace)'
    <2>0. faults = 0 /\ Once /\ Kept /\ WaitedFor /\ PathInPlace
      BY <1>0, <1>17 DEF Answering, ClientUdpRecv
    <2>2. Once'
      BY <1>17, <2>0 DEF EchoTypeOK, Once, ClientUdpRecv
    <2>3. Kept'
      BY <1>17, <2>0 DEF EchoTypeOK, Kept, Once, ClientUdpRecv
    <2>4. WaitedFor'
      BY <1>17, <2>0 DEF EchoTypeOK, WaitedFor, Once, ClientUdpRecv
    <2>5. PathInPlace'
      BY <1>17, <2>0 DEF EchoTypeOK, PathInPlace, Once, ClientUdpRecv
    <2>. QED
      BY <2>2, <2>3, <2>4, <2>5
  <1>18. CASE ServerFault
    BY <1>0, <1>18 DEF ServerFault, Fault, HostTypeOK
  <1>19. ASSUME NEW c \in Clients, ClientKill(c) PROVE FALSE
    BY <1>0, <1>19 DEF ClientKill, Fault, HostTypeOK
  <1>. QED
    BY <1>1, <1>2, <1>3, <1>4, <1>5, <1>6, <1>7, <1>8, <1>9, <1>10, <1>11, <1>12, <1>13, <1>14, <1>15, <1>16, <1>17, <1>18, <1>19 DEF EchoNext, ServerStep, ClientStep

\* The multicast programs have no part in it.
LEMMA GroupAnswering ==
    ASSUME HostTypeOK, Answering, GroupNext, UNCHANGED echoVars PROVE Answering'
  <1>1. faults' = faults \/ faults' = faults + 1
    BY DEF GroupNext, SenderStep, ReceiverStep, StartSender, SendMessage, ReceiverBind, Join,
           ReceiveMessage, GroupFault, Fault
  <1>2. faults' = 0 => faults = 0
    BY <1>1 DEF HostTypeOK
  <1>. QED
    BY <1>2 DEF Answering, Once, Kept, WaitedFor, PathInPlace, Waits, InHand, echoVars,
                serverVars, clientVars, stream

\* The inductive invariant.
IInv == TypeOK /\ Answering

LEMMA Inductive == IInv /\ [Next]_vars => IInv'
  <1>. SUFFICES ASSUME IInv, [Next]_vars PROVE IInv'
    OBVIOUS
  <1>1. CASE EchoNext /\ UNCHANGED groupVars
    <2>1. EchoTypeOK' /\ HostTypeOK'
      BY <1>1, EchoType DEF IInv, TypeOK
    <2>2. GroupTypeOK'
      BY <1>1 DEF IInv, TypeOK, GroupTypeOK, groupVars
    <2>3. Answering'
      BY <1>1, EchoAnswering DEF IInv, TypeOK
    <2>. QED
      BY <2>1, <2>2, <2>3 DEF IInv, TypeOK
  <1>2. CASE GroupNext /\ UNCHANGED echoVars
    <2>1. GroupTypeOK' /\ HostTypeOK'
      BY <1>2, GroupType DEF IInv, TypeOK
    <2>2. EchoTypeOK'
      BY <1>2 DEF IInv, TypeOK, EchoTypeOK, echoVars, serverVars, clientVars, stream
    <2>3. Answering'
      BY <1>2, GroupAnswering DEF IInv, TypeOK
    <2>. QED
      BY <2>1, <2>2, <2>3 DEF IInv, TypeOK
  <1>3. CASE UNCHANGED vars
    <2>1. UNCHANGED <<echoVars, groupVars, port, faults>>
      BY <1>3 DEF vars
    <2>2. EchoTypeOK' /\ HostTypeOK' /\ GroupTypeOK'
      <3>1. EchoTypeOK'
        BY <2>1 DEF IInv, TypeOK, EchoTypeOK, echoVars, serverVars, clientVars, stream
      <3>2. HostTypeOK'
        BY <2>1 DEF IInv, TypeOK, HostTypeOK, port
      <3>3. GroupTypeOK'
        BY <2>1 DEF IInv, TypeOK, GroupTypeOK, groupVars
      <3>. QED
        BY <3>1, <3>2, <3>3
    <2>3. Answering'
      BY <2>1 DEF IInv, Answering, Once, Kept, WaitedFor, PathInPlace, Waits, InHand,
                  echoVars, serverVars, clientVars, stream
    <2>. QED
      BY <2>2, <2>3 DEF IInv, TypeOK
  <1>. QED
    BY <1>1, <1>2, <1>3 DEF Next

LEMMA Invariant == Spec => []IInv
  <1>1. Init => IInv
    BY InitType, InitAnswering DEF IInv
  <1>. HIDE DEF Sockets, Ended, Listening
  <1>. QED
    BY <1>1, Inductive, PTL DEF Spec

\* Types, for any number of clients, starts, messages and faults.
THEOREM TypeCorrect == Spec => []TypeOK
  <1>1. IInv => TypeOK
    BY DEF IInv
  <1>. QED
    BY <1>1, Invariant, PTL

\* A text that was read is answered: over TCP only the race of line 87 leaves a
\* client that is served without an answer, over the local socket nothing does.
THEOREM ReadIsAnswered == Spec => []ReadMeansAnswered
  <1>1. IInv => ReadMeansAnswered
    BY DEF IInv, Answering, Once, Kept, WaitedFor, InHand, ReadMeansAnswered
  <1>. HIDE DEF Sockets, Ended, Listening
  <1>. QED
    BY <1>1, Invariant, PTL

\* Without a kill no server leaves its path behind, and every later one starts.
THEOREM PathLeftByKill == Spec => []PathLeftMeansKilled
  <1>1. IInv => PathLeftMeansKilled
    BY DEF IInv, TypeOK, HostTypeOK, Answering, PathInPlace, PathLeftMeansKilled
  <1>. HIDE DEF Sockets, Ended, Listening
  <1>. QED
    BY <1>1, Invariant, PTL

(***************************************************************************)
(* What the multicast receiver counts.                                     *)
(***************************************************************************)

\* In a sequence of datagrams: the sender's messages, in the order they were sent,
\* none twice and none after the n-th; all of them from one to the n-th; and all of
\* those between two.
FromSender(s) == {m \in DOMAIN s : s[m][1] = Group}
Rising(s)     == \A m, n \in FromSender(s) : m < n => s[m][2] < s[n][2]
Sound(s, n)   == Rising(s) /\ \A m \in FromSender(s) : s[m][2] <= n
Has(s, i)     == \E p \in DOMAIN s : s[p] = <<Group, i>>
UpTo(s, n)    == \A m \in FromSender(s) : \A i \in s[m][2] .. n : Has(s, i)
Gapless(s)    == \A m, n \in FromSender(s) : \A i \in s[m][2] .. s[n][2] : Has(s, i)

InOrder == Rising(got) /\ (losses = 0 => Gapless(got))

\* The inductive invariant: what was counted together with what the socket holds.
\* Before the receiver joins nothing of the sender's comes to it.
Queue == got \o inbox["receiver"]

Order ==
    /\ Sound(Queue, cnt)
    /\ rpc \in {"off", "join"} => FromSender(Queue) = {}
    /\ losses = 0 /\ rpc = "loop" => UpTo(Queue, cnt)
    /\ losses = 0 => Gapless(got)

LEMMA Numbers ==
    ASSUME NEW s \in Seq(Datagrams)
    PROVE  /\ Len(s) \in Nat /\ DOMAIN s = 1 .. Len(s)
           /\ \A m \in DOMAIN s : s[m][2] \in Nat
           /\ \A m \in FromSender(s) : m \in DOMAIN s /\ s[m] = <<Group, s[m][2]>>
  <1>1. Len(s) \in Nat /\ DOMAIN s = 1 .. Len(s) /\ \A m \in DOMAIN s : s[m] \in Datagrams
    OBVIOUS
  <1>2. ASSUME NEW d \in Datagrams
        PROVE  d[2] \in Nat /\ d = <<d[1], d[2]>>
    BY <1>2, HostAssumption DEF Datagrams
  <1>. QED
    BY <1>1, <1>2 DEF FromSender

\* The beginning of a sequence.
LEMMA BeginningOf ==
    ASSUME NEW s \in Seq(Datagrams), NEW t \in Seq(Datagrams), NEW n \in Nat,
           Len(t) <= Len(s), \A m \in DOMAIN t : t[m] = s[m]
    PROVE  /\ Sound(s, n) => Sound(t, n)
           /\ Sound(s, n) /\ UpTo(s, n) => Gapless(t)
           /\ FromSender(s) = {} => FromSender(t) = {}
  <1>1. /\ Len(s) \in Nat /\ DOMAIN s = 1 .. Len(s) /\ Len(t) \in Nat /\ DOMAIN t = 1 .. Len(t)
        /\ \A m \in DOMAIN s : s[m][2] \in Nat
    BY Numbers
  <1>2. DOMAIN t \subseteq DOMAIN s
    BY <1>1
  <1>3. \A m \in FromSender(t) : m \in FromSender(s) /\ m \in DOMAIN t /\ t[m] = s[m]
    BY <1>2 DEF FromSender
  <1>4. Sound(s, n) => Sound(t, n)
    BY <1>3 DEF Sound, Rising
  <1>5. ASSUME Sound(s, n), UpTo(s, n), NEW a \in FromSender(t), NEW b \in FromSender(t),
               NEW i \in t[a][2] .. t[b][2]
        PROVE  Has(t, i)
    <2>1. /\ a \in FromSender(s) /\ b \in FromSender(s) /\ a \in DOMAIN t /\ b \in DOMAIN t
          /\ t[a] = s[a] /\ t[b] = s[b]
      BY <1>3
    <2>2. s[a][2] \in Nat /\ s[b][2] \in Nat /\ s[b][2] <= n
      BY <1>1, <1>2, <1>5, <2>1 DEF Sound
    <2>3. i \in Nat /\ i <= s[b][2] /\ i \in s[a][2] .. n
      BY <2>1, <2>2
    <2>4. PICK p \in DOMAIN s : s[p] = <<Group, i>>
      BY <1>5, <2>1, <2>3 DEF UpTo, Has
    <2>5. p \in FromSender(s) /\ s[p][2] = i
      BY <2>4 DEF FromSender
    <2>6. ~(b < p)
      BY <1>5, <2>1, <2>2, <2>3, <2>5 DEF Sound, Rising
    <2>7. p \in DOMAIN t
      BY <1>1, <2>1, <2>4, <2>6
    <2>. QED
      BY <2>4, <2>7 DEF Has
  <1>6. Sound(s, n) /\ UpTo(s, n) => Gapless(t)
    BY <1>5 DEF Gapless
  <1>. QED
    BY <1>3, <1>4, <1>6

\* A datagram of a client.
LEMMA OneOther ==
    ASSUME NEW s \in Seq(Datagrams), NEW d \in Datagrams, d[1] # Group, NEW n \in Nat
    PROVE  /\ FromSender(Append(s, d)) = FromSender(s)
           /\ Sound(s, n) => Sound(Append(s, d), n)
           /\ UpTo(s, n) => UpTo(Append(s, d), n)
  <1>. DEFINE t == Append(s, d)
  <1>1. /\ Len(s) \in Nat /\ DOMAIN s = 1 .. Len(s) /\ t \in Seq(Datagrams)
        /\ Len(t) = Len(s) + 1 /\ t[Len(s) + 1] = d
        /\ \A m \in 1 .. Len(s) : t[m] = s[m]
    BY AppendProperties, LenProperties
  <1>. HIDE DEF t
  <1>2. DOMAIN t = DOMAIN s \cup {Len(s) + 1} /\ \A m \in DOMAIN s : t[m] = s[m]
    <2>1. DOMAIN t = 1 .. Len(t)
      BY <1>1, LenProperties
    <2>. QED
      BY <1>1, <2>1
  <1>3. FromSender(t) = FromSender(s) /\ \A m \in FromSender(s) : t[m] = s[m]
    BY <1>1, <1>2 DEF FromSender
  <1>4. \A i : Has(s, i) => Has(t, i)
    BY <1>2 DEF Has
  <1>5. Sound(s, n) => Sound(t, n)
    BY <1>3 DEF Sound, Rising
  <1>6. UpTo(s, n) => UpTo(t, n)
    BY <1>3, <1>4 DEF UpTo
  <1>. QED
    BY <1>3, <1>5, <1>6 DEF t

\* The next message of the sender.
LEMMA OneMessage ==
    ASSUME NEW s \in Seq(Datagrams), NEW n \in Nat, <<Group, n + 1>> \in Datagrams, Sound(s, n)
    PROVE  /\ Sound(Append(s, <<Group, n + 1>>), n + 1)
           /\ UpTo(s, n) => UpTo(Append(s, <<Group, n + 1>>), n + 1)
  <1>. DEFINE d == <<Group, n + 1>>
              t == Append(s, d)
              last == Len(s) + 1
  <1>1. d \in Datagrams /\ d[1] = Group /\ d[2] = n + 1 /\ d = <<Group, n + 1>>
    OBVIOUS
  <1>. HIDE DEF d
  <1>2. /\ Len(s) \in Nat /\ DOMAIN s = 1 .. Len(s) /\ t \in Seq(Datagrams)
        /\ Len(t) = Len(s) + 1 /\ t[Len(s) + 1] = d
        /\ \A m \in 1 .. Len(s) : t[m] = s[m]
    BY <1>1, AppendProperties, LenProperties
  <1>. HIDE DEF t
  <1>3. /\ DOMAIN t = DOMAIN s \cup {last} /\ last \notin DOMAIN s
        /\ \A m \in DOMAIN s : t[m] = s[m] /\ m < last /\ m \in Nat
        /\ t[last] = d /\ last \in Nat
    <2>1. DOMAIN t = 1 .. Len(t)
      BY <1>2, LenProperties
    <2>. QED
      BY <1>2, <2>1
  <1>. HIDE DEF last
  <1>4. /\ FromSender(t) = FromSender(s) \cup {last}
        /\ \A m \in FromSender(s) : t[m] = s[m] /\ m < last /\ m # last /\ m \in DOMAIN s
                                    /\ s[m][2] \in Nat /\ s[m][2] <= n /\ m \in Nat
    <2>1. \A m \in DOMAIN s : s[m][2] \in Nat
      BY Numbers
    <2>. QED
      BY <1>1, <1>3, <2>1 DEF FromSender, Sound
  <1>5. ASSUME NEW a \in FromSender(t), NEW b \in FromSender(t), a < b
        PROVE  t[a][2] < t[b][2]
    <2>1. CASE b \in FromSender(s)
      <3>1. a \in FromSender(s)
        BY <1>3, <1>4, <1>5, <2>1
      <3>. QED
        BY <1>4, <1>5, <2>1, <3>1 DEF Sound, Rising
    <2>2. CASE b = last
      <3>1. a \in FromSender(s)
        BY <1>3, <1>4, <1>5, <2>2
      <3>2. t[b][2] = n + 1
        BY <1>1, <1>3, <2>2
      <3>3. t[a][2] \in Nat /\ t[a][2] <= n
        BY <1>4, <3>1
      <3>. QED
        BY <3>2, <3>3
    <2>. QED
      BY <1>4, <2>1, <2>2
  <1>6. ASSUME NEW a \in FromSender(t) PROVE t[a][2] <= n + 1
    BY <1>1, <1>3, <1>4
  <1>7. Sound(t, n + 1)
    BY <1>5, <1>6 DEF Sound, Rising
  <1>8. ASSUME UpTo(s, n), NEW a \in FromSender(t), NEW i \in t[a][2] .. n + 1
        PROVE  Has(t, i)
    <2>1. CASE i = n + 1
      BY <1>1, <1>3, <2>1 DEF Has
    <2>2. CASE i # n + 1
      <3>1. a \in FromSender(s)
        BY <1>1, <1>3, <1>4, <2>2
      <3>2. i \in s[a][2] .. n
        BY <1>4, <2>2, <3>1
      <3>3. PICK p \in DOMAIN s : s[p] = <<Group, i>>
        BY <1>8, <3>1, <3>2 DEF UpTo, Has
      <3>. QED
        BY <1>3, <3>3 DEF Has
    <2>. QED
      BY <2>1, <2>2
  <1>9. UpTo(s, n) => UpTo(t, n + 1)
    BY <1>8 DEF UpTo
  <1>. QED
    BY <1>7, <1>9 DEF t, d

LEMMA Later ==
    ASSUME NEW s \in Seq(Datagrams), NEW n \in Nat, Sound(s, n)
    PROVE  Sound(s, n + 1)
  <1>1. \A m \in FromSender(s) : s[m][2] \in Nat
    BY Numbers DEF FromSender
  <1>. QED
    BY <1>1 DEF Sound

\* What was counted and what is held, in one sequence.
LEMMA Joined ==
    ASSUME NEW a \in Seq(Datagrams), NEW b \in Seq(Datagrams)
    PROVE  /\ a \o b \in Seq(Datagrams) /\ a \o <<>> = a
           /\ Len(a) <= Len(a \o b) /\ \A m \in DOMAIN a : a[m] = (a \o b)[m]
           /\ \A d \in Datagrams : a \o Append(b, d) = Append(a \o b, d)
           /\ b # <<>> => Append(a, Head(b)) \o Tail(b) = a \o b
  <1>1. /\ a \o b \in Seq(Datagrams) /\ Len(a \o b) = Len(a) + Len(b)
        /\ Len(a) \in Nat /\ Len(b) \in Nat /\ DOMAIN a = 1 .. Len(a)
        /\ \A i \in 1 .. Len(a) + Len(b) : (a \o b)[i] = IF i <= Len(a) THEN a[i] ELSE b[i - Len(a)]
    BY ConcatProperties, LenProperties
  <1>2. Len(a) <= Len(a \o b) /\ \A m \in DOMAIN a : a[m] = (a \o b)[m]
    BY <1>1
  <1>3. a \o <<>> = a
    BY ConcatEmptySeq
  <1>4. ASSUME NEW d \in Datagrams PROVE a \o Append(b, d) = Append(a \o b, d)
    <2>1. <<d>> \in Seq(Datagrams)
      OBVIOUS
    <2>2. Append(b, d) = b \o <<d>> /\ Append(a \o b, d) = (a \o b) \o <<d>>
      BY <1>1, AppendIsConcat
    <2>3. (a \o b) \o <<d>> = a \o (b \o <<d>>)
      BY <2>1, ConcatAssociative
    <2>. QED
      BY <2>2, <2>3
  <1>5. ASSUME b # <<>> PROVE Append(a, Head(b)) \o Tail(b) = a \o b
    <2>1. Head(b) \in Datagrams /\ Tail(b) \in Seq(Datagrams)
      BY <1>5, HeadTailProperties
    <2>2. <<Head(b)>> \in Seq(Datagrams) /\ b = <<Head(b)>> \o Tail(b)
      BY <1>5, <2>1
    <2>3. Append(a, Head(b)) = a \o <<Head(b)>>
      BY <2>1, AppendIsConcat
    <2>4. (a \o <<Head(b)>>) \o Tail(b) = a \o (<<Head(b)>> \o Tail(b))
      BY <2>1, <2>2, ConcatAssociative
    <2>. QED
      BY <2>2, <2>3, <2>4
  <1>. QED
    BY <1>1, <1>2, <1>3, <1>4, <1>5

LEMMA OrderTypes ==
    ASSUME TypeOK
    PROVE  /\ got \in Seq(Datagrams) /\ inbox["receiver"] \in Seq(Datagrams)
           /\ inbox \in [Sockets -> Seq(Datagrams)]
           /\ Queue \in Seq(Datagrams) /\ cnt \in Nat /\ losses \in Nat
  <1>1. /\ got \in Seq(Datagrams) /\ inbox \in [Sockets -> Seq(Datagrams)]
        /\ cnt \in Nat /\ losses \in Nat
    BY HostAssumption DEF TypeOK, HostTypeOK, GroupTypeOK
  <1>2. inbox["receiver"] \in Seq(Datagrams)
    BY <1>1
  <1>. QED
    BY <1>1, <1>2, ConcatProperties DEF Queue

LEMMA InitOrder == Init => Order
  <1>. SUFFICES ASSUME Init PROVE Order
    OBVIOUS
  <1>1. got = <<>> /\ inbox["receiver"] = <<>> /\ cnt = 0
    BY DEF Init, HostInit, GroupInit
  <1>2. <<>> \o <<>> = <<>> /\ DOMAIN <<>> = {}
    BY Empty, EmptySeq, ConcatEmptySeq
  <1>3. Queue = <<>> /\ FromSender(<<>>) = {}
    BY <1>1, <1>2 DEF Queue, FromSender
  <1>. QED
    BY <1>1, <1>3 DEF Order, Sound, Rising, UpTo, Gapless

\* The receiver's queue is left alone, but something may be lost.
LEMMA OrderKept ==
    ASSUME TypeOK, Order, UNCHANGED <<got, cnt, rpc>>, inbox'["receiver"] = inbox["receiver"],
           losses' = 0 => losses = 0
    PROVE  Order'
  <1>1. Queue' = Queue
    BY DEF Queue
  <1>. QED
    BY <1>1 DEF Order

\* What is sent to the port by a client.
LEMMA UnicastOrder ==
    ASSUME TypeOK, Order, NEW c \in Clients, Unicast(<<c, 0>>), UNCHANGED <<got, cnt, rpc>>
    PROVE  Order'
  <1>. DEFINE d == <<c, 0>>
              q == inbox["receiver"]
  <1>1. /\ got \in Seq(Datagrams) /\ q \in Seq(Datagrams) /\ losses \in Nat
        /\ inbox \in [Sockets -> Seq(Datagrams)] /\ Queue \in Seq(Datagrams) /\ cnt \in Nat
    BY OrderTypes
  <1>2. d \in Datagrams /\ d[1] # Group
    BY FromClient, HostAssumption
  <1>3. CASE inbox'["receiver"] = q /\ (losses' = 0 => losses = 0)
    BY <1>3, OrderKept
  <1>4. CASE inbox'["receiver"] = Append(q, d) /\ losses' = losses
    <2>. HIDE DEF d
    <2>1. Queue' = Append(Queue, d)
      BY <1>1, <1>2, <1>4, Joined DEF Queue
    <2>2. /\ FromSender(Queue') = FromSender(Queue)
          /\ Sound(Queue, cnt) => Sound(Queue', cnt)
          /\ UpTo(Queue, cnt) => UpTo(Queue', cnt)
      BY <1>1, <1>2, <2>1, OneOther
    <2>. QED
      BY <1>4, <2>2 DEF Order
  <1>5. \/ inbox'["receiver"] = q /\ (losses' = 0 => losses = 0)
        \/ inbox'["receiver"] = Append(q, d) /\ losses' = losses
    <2>1. CASE \E s \in open : Deliver(d, {s}) /\ UNCHANGED losses
      BY <1>1, <2>1 DEF Deliver
    <2>2. CASE open = {} /\ UNCHANGED <<inbox, losses>>
      BY <2>2
    <2>3. CASE Lost /\ UNCHANGED inbox
      BY <1>1, <2>3 DEF Lost
    <2>. QED
      BY <2>1, <2>2, <2>3 DEF Unicast
  <1>. QED
    BY <1>3, <1>4, <1>5

\* What is sent to the group.
LEMMA MessageOrder ==
    ASSUME TypeOK, Order, SendMessage
    PROVE  Order'
  <1>. DEFINE d == <<Group, cnt + 1>>
              q == inbox["receiver"]
  <1>1. /\ got \in Seq(Datagrams) /\ q \in Seq(Datagrams) /\ losses \in Nat
        /\ inbox \in [Sockets -> Seq(Datagrams)] /\ Queue \in Seq(Datagrams) /\ cnt \in Nat
    BY OrderTypes
  <1>2. UNCHANGED <<rpc, got>> /\ cnt' = cnt + 1 /\ Multicast(d, rpc = "loop")
    BY DEF SendMessage
  <1>3. d \in Datagrams
    <2>1. cnt + 1 \in 1 .. COUNT
      BY HostAssumption DEF TypeOK, GroupTypeOK, SendMessage
    <2>. QED
      BY <2>1, FromGroup
  <1>4. Sound(Queue, cnt) /\ Sound(Queue, cnt')
    BY <1>1, <1>2, Later DEF Order
  <1>5. CASE inbox'["receiver"] = q /\ (rpc # "loop" \/ losses' # 0) /\ (losses' = 0 => losses = 0)
    <2>1. Queue' = Queue
      BY <1>2, <1>5 DEF Queue
    <2>. QED
      BY <1>2, <1>4, <1>5, <2>1 DEF Order
  <1>6. CASE inbox'["receiver"] = Append(q, d) /\ losses' = losses /\ rpc = "loop"
    <2>1. Queue' = Append(Queue, d)
      <3>. HIDE DEF d
      <3>. QED
        BY <1>1, <1>2, <1>3, <1>6, Joined DEF Queue
    <2>2. /\ Sound(Append(Queue, <<Group, cnt + 1>>), cnt + 1)
          /\ UpTo(Queue, cnt) => UpTo(Append(Queue, <<Group, cnt + 1>>), cnt + 1)
      BY <1>1, <1>3, <1>4, OneMessage
    <2>3. Sound(Queue', cnt') /\ (UpTo(Queue, cnt) => UpTo(Queue', cnt'))
      BY <1>2, <2>1, <2>2
    <2>. QED
      BY <1>2, <1>6, <2>3 DEF Order
  <1>7. \/ /\ inbox'["receiver"] = q /\ (rpc # "loop" \/ losses' # 0)
           /\ losses' = 0 => losses = 0
        \/ inbox'["receiver"] = Append(q, d) /\ losses' = losses /\ rpc = "loop"
    <2>1. ASSUME NEW S \in SUBSET open, rpc = "loop", "receiver" \in S,
                 Deliver(d, S), UNCHANGED losses
          PROVE  inbox'["receiver"] = Append(q, d) /\ losses' = losses /\ rpc = "loop"
      BY <1>1, <2>1 DEF Deliver
    <2>2. ASSUME NEW S \in SUBSET open, "receiver" \notin S, Deliver(d, S), Lost
          PROVE  inbox'["receiver"] = q /\ losses' # 0
      BY <1>1, <2>2 DEF Deliver, Lost
    <2>3. CASE rpc # "loop" /\ UNCHANGED <<inbox, losses>>
      BY <2>3
    <2>. QED
      BY <1>2, <2>1, <2>2, <2>3 DEF Multicast
  <1>. QED
    BY <1>5, <1>6, <1>7

\* The receiver takes a datagram, or ends.
LEMMA TakenOrder ==
    ASSUME TypeOK, Order, ReceiveMessage
    PROVE  Order'
  <1>. DEFINE q == inbox["receiver"]
  <1>1. /\ got \in Seq(Datagrams) /\ q \in Seq(Datagrams) /\ q # <<>>
        /\ inbox \in [Sockets -> Seq(Datagrams)] /\ Queue \in Seq(Datagrams) /\ cnt \in Nat
        /\ got' = Append(got, Head(q)) /\ UNCHANGED <<cnt, losses>>
        /\ rpc = "loop" /\ rpc' \in {"loop", "done"}
    BY OrderTypes DEF ReceiveMessage
  <1>2. /\ \/ inbox'["receiver"] = Tail(q)
           \/ inbox'["receiver"] = <<>> /\ rpc' = "done"
        /\ inbox'["receiver"] = Tail(q) \/ inbox'["receiver"] = <<>>
    BY <1>1 DEF ReceiveMessage, Close
  <1>3. PICK g \in Seq(Datagrams) : g = Append(got, Head(q))
    BY <1>1, HeadTail, AppendType
  <1>4. PICK r \in Seq(Datagrams) : r = Tail(q)
    BY <1>1, HeadTail
  <1>. HIDE DEF q
  <1>5. g \o r = Queue
    BY <1>1, <1>3, <1>4, Joined DEF Queue, q
  <1>6. Len(g) <= Len(Queue) /\ \A m \in DOMAIN g : g[m] = Queue[m]
    BY <1>5, Joined
  <1>7. Sound(g, cnt) /\ (losses = 0 => Gapless(g))
    BY <1>1, <1>6, BeginningOf DEF Order
  <1>8. got' = g
    BY <1>1, <1>3
  <1>9. CASE inbox'["receiver"] = Tail(q)
    <2>1. Queue' = Queue
      BY <1>4, <1>5, <1>8, <1>9 DEF Queue
    <2>. QED
      BY <1>1, <1>7, <1>8, <2>1 DEF Order
  <1>10. CASE inbox'["receiver"] = <<>> /\ rpc' = "done"
    <2>1. Queue' = g
      BY <1>8, <1>10, Joined DEF Queue
    <2>. QED
      BY <1>1, <1>7, <1>8, <1>10, <2>1 DEF Order
  <1>. QED
    BY <1>2, <1>9, <1>10

\* The receiver is killed.
LEMMA KilledOrder ==
    ASSUME TypeOK, Order, UNCHANGED <<got, cnt, losses>>, inbox'["receiver"] = <<>>,
           rpc' = "killed"
    PROVE  Order'
  <1>1. /\ got \in Seq(Datagrams) /\ inbox["receiver"] \in Seq(Datagrams)
        /\ Queue \in Seq(Datagrams) /\ cnt \in Nat
    BY OrderTypes
  <1>2. Len(got) <= Len(Queue) /\ \A m \in DOMAIN got : got[m] = Queue[m]
    BY <1>1, Joined DEF Queue
  <1>3. Sound(got, cnt)
    BY <1>1, <1>2, BeginningOf DEF Order
  <1>4. Queue' = got
    BY <1>1, Joined DEF Queue
  <1>. QED
    BY <1>3, <1>4 DEF Order

LEMMA GroupOrder ==
    ASSUME TypeOK, Order, GroupNext
    PROVE  Order'
  <1>1. CASE StartSender
    BY <1>1, OrderKept DEF StartSender, port
  <1>2. CASE SendMessage
    BY <1>2, MessageOrder
  <1>3. CASE ReceiverBind
    <2>1. Queue' = Queue /\ UNCHANGED <<got, cnt, losses>> /\ rpc = "off" /\ rpc' = "join"
      BY <1>3 DEF ReceiverBind, Open, Queue
    <2>. QED
      BY <2>1 DEF Order
  <1>4. CASE Join
    <2>1. Queue' = Queue /\ UNCHANGED <<got, cnt, losses>> /\ rpc = "join" /\ rpc' = "loop"
      BY <1>4 DEF Join, port, Queue
    <2>2. UpTo(Queue, cnt)
      BY <2>1 DEF Order, UpTo
    <2>. QED
      BY <2>1, <2>2 DEF Order
  <1>5. CASE ReceiveMessage
    BY <1>5, TakenOrder
  <1>6. CASE GroupFault
    <2>1. CASE mpc = "loop" /\ mpc' = "killed" /\ UNCHANGED <<rpc, port>>
      BY <1>6, <2>1, OrderKept DEF GroupFault, port
    <2>2. CASE rpc' = "killed" /\ Close("receiver") /\ UNCHANGED <<mpc, losses>>
      <3>1. inbox'["receiver"] = <<>>
        BY <2>2, OrderTypes DEF Close
      <3>. QED
        BY <1>6, <2>2, <3>1, KilledOrder DEF GroupFault
    <2>. QED
      BY <1>6, <2>1, <2>2 DEF GroupFault
  <1>. QED
    BY <1>1, <1>2, <1>3, <1>4, <1>5, <1>6 DEF GroupNext, SenderStep, ReceiverStep

\* The echo programs only send to the receiver.
LEMMA EchoOrder ==
    ASSUME TypeOK, Order, EchoNext, UNCHANGED groupVars
    PROVE  Order'
  <1>1. UNCHANGED <<got, cnt, rpc>>
    BY DEF groupVars
  <1>2. CASE \E c \in Clients : ClientUdpSend(c)
    BY <1>1, <1>2, UnicastOrder DEF ClientUdpSend
  <1>3. CASE inbox'["receiver"] = inbox["receiver"] /\ (losses' = 0 => losses = 0)
    BY <1>1, <1>3, OrderKept
  <1>. DEFINE Alone == inbox'["receiver"] = inbox["receiver"] /\ (losses' = 0 => losses = 0)
  <1>4. UNCHANGED <<inbox, losses>> => Alone
    OBVIOUS
  <1>5. \A s : s # "receiver" /\ Close(s) /\ losses' = losses => Alone
    BY OrderTypes DEF Close
  <1>6. Die => Alone
    BY <1>5 DEF Die
  <1>7. UdpSend => Alone
    <2>1. Lost => losses' # 0
      BY OrderTypes DEF Lost
    <2>2. ASSUME UdpSend PROVE Close("server") /\ (losses' = losses \/ Lost)
      BY <2>2 DEF UdpSend
    <2>3. Close("server") => inbox'["receiver"] = inbox["receiver"]
      BY OrderTypes DEF Close
    <2>. QED
      BY <2>1, <2>2, <2>3
  <1>8. UdpReceive => Alone
    <2>1. UdpReceive => losses' = losses /\ inbox' = [inbox EXCEPT !["server"] = Tail(@)]
      BY DEF UdpReceive
    <2>. QED
      BY <2>1, OrderTypes
  <1>9. ServerStep => Alone
    <2>1. Bind \/ Listen \/ Accept \/ Receive \/ CloseConnection \/ CloseListener \/ Unlink
             => UNCHANGED <<inbox, losses>>
      BY DEF Bind, Listen, Accept, Receive, CloseConnection, CloseListener, Unlink, port
    <2>2. Send => Die \/ UNCHANGED <<inbox, losses>>
      BY DEF Send, port
    <2>3. UdpBind => UNCHANGED <<inbox, losses>>
      BY DEF UdpBind, Open
    <2>. HIDE DEF Alone
    <2>. QED
      BY <1>4, <1>6, <1>7, <1>8, <2>1, <2>2, <2>3 DEF ServerStep
  <1>10. StartServer \/ ServerFault => Alone
    <2>1. StartServer => UNCHANGED <<inbox, losses>>
      BY DEF StartServer, port
    <2>. HIDE DEF Alone
    <2>. QED
      BY <1>4, <1>6, <2>1 DEF ServerFault
  <1>11. ASSUME NEW c \in Clients, Connect(c) \/ ClientStep(c) \/ ClientKill(c)
         PROVE  ClientUdpSend(c) \/ UNCHANGED <<inbox, losses>>
    BY <1>11 DEF Connect, ClientStep, ClientSend, ClientRecv, ClientUdpRecv, ClientKill, port
  <1>12. Alone \/ \E c \in Clients : ClientUdpSend(c)
    <2>. HIDE DEF Alone
    <2>. QED
      BY <1>4, <1>9, <1>10, <1>11 DEF EchoNext
  <1>. QED
    BY <1>2, <1>3, <1>12

LEMMA OrderInvariant == Spec => []Order
  <1>1. TypeOK /\ Order /\ [Next]_vars => Order'
    <2>. SUFFICES ASSUME TypeOK, Order, [Next]_vars PROVE Order'
      OBVIOUS
    <2>1. CASE UNCHANGED vars
      BY <2>1, OrderKept DEF vars, groupVars, port
    <2>. QED
      BY <2>1, EchoOrder, GroupOrder DEF Next
  <1>. HIDE DEF Sockets, Ended, Listening
  <1>. QED
    BY <1>1, InitOrder, TypeCorrect, PTL DEF Spec

\* The order ReceiverEnds speaks of, whatever is killed or lost and whoever else
\* sends to the port: the receiver counts the sender's messages in the order they
\* were sent, each once, and unless a datagram was lost all of those between two
\* that it counted.
THEOREM MessagesInOrder == Spec => []InOrder
  <1>1. TypeOK /\ Order => InOrder
    <2>. SUFFICES ASSUME TypeOK, Order PROVE InOrder
      OBVIOUS
    <2>1. /\ got \in Seq(Datagrams) /\ inbox["receiver"] \in Seq(Datagrams)
          /\ Queue \in Seq(Datagrams) /\ cnt \in Nat
      BY OrderTypes
    <2>2. Len(got) <= Len(Queue) /\ \A m \in DOMAIN got : got[m] = Queue[m]
      BY <2>1, Joined DEF Queue
    <2>3. Sound(got, cnt)
      BY <2>1, <2>2, BeginningOf DEF Order
    <2>. QED
      BY <2>3 DEF Order, Sound, InOrder
  <1>. HIDE DEF Sockets, Ended, Listening
  <1>. QED
    BY <1>1, OrderInvariant, TypeCorrect, PTL

(***************************************************************************)
(* No client and server wait for each other, whatever is killed.           *)
(***************************************************************************)

\* From accept to the close of connect_fd the server has the client conn.
Taken   == {"recv", "send", "close"}
Hold(c) == Waits(c) \/ (spc \in Taken /\ conn = c)

\* A connection is in the backlog of a server that listens, in one place; or it is
\* the one the server has.
InOnePlace ==
    /\ \A m, n \in DOMAIN backlog : backlog[m] = backlog[n] => m = n
    /\ \A c \in Clients : Waits(c) => /\ spc \in Listening /\ cpc[c] # "off"
                                      /\ ~(spc \in Taken /\ conn = c)
    /\ spc \in Taken => conn \in Clients /\ cpc[conn] # "off"

\* Who has connected and has no answer, not even the end of the stream, is there.
Held == \A c \in Clients : cpc[c] \in {"send", "recv"} /\ answer[c] = "none" => Hold(c)

\* What it has sent lies with the server until the server reads it.
Lies == \A c \in Clients :
            /\ cpc[c] = "recv" /\ answer[c] = "none"
            /\ Waits(c) \/ (spc = "recv" /\ conn = c)
            => c \in unread

Streams == InOnePlace /\ Held /\ Lies

\* A step of a server that does not listen.
LEMMA StreamsAside ==
    ASSUME Streams, spc \notin Listening, spc' \notin Taken,
           UNCHANGED <<backlog, cpc, answer, unread>>
    PROVE  Streams'
  <1>1. \A c \in Clients : ~Waits(c) /\ ~Hold(c)
    BY DEF Streams, InOnePlace, Taken, Hold
  <1>2. \A c \in Clients : ~Waits(c)'
    BY <1>1 DEF Waits
  <1>3. InOnePlace'
    <2>1. \A m, n \in DOMAIN backlog' : backlog'[m] = backlog'[n] => m = n
      BY DEF Streams, InOnePlace
    <2>. QED
      BY <1>2, <2>1 DEF InOnePlace
  <1>4. Held'
    BY <1>1 DEF Streams, Held
  <1>5. Lies'
    BY <1>2 DEF Lies, Taken
  <1>. QED
    BY <1>3, <1>4, <1>5 DEF Streams

\* A server that ends hangs up on all it holds.
LEMMA StreamsDie ==
    ASSUME EchoTypeOK, Streams, Die PROVE Streams'
  <1>1. /\ spc' = "killed" /\ DOMAIN (backlog') = {} /\ UNCHANGED <<cpc, unread>>
        /\ \A c \in Clients : answer'[c] = "none" =>
               answer[c] = "none" /\ c \notin Waiting /\ c # conn
    BY Empty DEF Die, Hangup
  <1>2. \A c \in Clients : ~Waits(c)'
    BY <1>1 DEF Waits
  <1>3. \A c \in Clients : answer'[c] = "none" => ~Hold(c)
    BY <1>1 DEF Hold, Waits, Waiting
  <1>4. InOnePlace'
    BY <1>1, <1>2 DEF InOnePlace, Taken
  <1>5. Held'
    BY <1>1, <1>3 DEF Streams, Held
  <1>6. Lies'
    BY <1>1, <1>2 DEF Lies
  <1>. QED
    BY <1>4, <1>5, <1>6 DEF Streams

LEMMA StreamsAccept ==
    ASSUME EchoTypeOK, Streams, Accept PROVE Streams'
  <1>1. /\ 1 \in DOMAIN backlog /\ conn' = backlog[1] /\ conn' \in Clients
        /\ \A n \in DOMAIN backlog' :
               n \in Nat /\ n + 1 # 1 /\ n + 1 \in DOMAIN backlog /\ backlog'[n] = backlog[n + 1]
        /\ spc = "accept" /\ spc' = "recv"
        /\ UNCHANGED <<cpc, answer, unread>>
    BY Dequeue, HeadTail DEF EchoTypeOK, Accept, Goto, clientVars
  <1>2. \A c \in Clients : Waits(c)' => Waits(c) /\ c # conn'
    BY <1>1 DEF Streams, InOnePlace, Waits
  <1>3. Waits(conn')
    BY <1>1 DEF Waits
  <1>4. \A m, n \in DOMAIN backlog' : backlog'[m] = backlog'[n] => m = n
    <2>. SUFFICES ASSUME NEW m \in DOMAIN backlog', NEW n \in DOMAIN backlog',
                         backlog'[m] = backlog'[n]
                  PROVE  m = n
      OBVIOUS
    <2>1. m + 1 = n + 1
      BY <1>1 DEF Streams, InOnePlace
    <2>. QED
      BY <1>1, <2>1
  <1>5. InOnePlace'
    <2>1. \A c \in Clients : Waits(c)' => cpc'[c] # "off" /\ conn' # c
      BY <1>1, <1>2 DEF Streams, InOnePlace
    <2>2. cpc'[conn'] # "off"
      BY <1>1, <1>3 DEF Streams, InOnePlace
    <2>. QED
      BY <1>1, <1>4, <2>1, <2>2 DEF InOnePlace
  <1>6. \A c \in Clients : Hold(c) => Hold(c)'
    <2>. SUFFICES ASSUME NEW c \in Clients, Hold(c), c # conn' PROVE Waits(c)'
      BY <1>1 DEF Hold, Taken
    <2>1. PICK n \in DOMAIN backlog : backlog[n] = c
      BY <1>1 DEF Hold, Waits, Taken
    <2>2. \A m \in DOMAIN backlog : m # 1 => m - 1 \in DOMAIN backlog' /\ backlog'[m - 1] = backlog[m]
      BY Shifted DEF Accept, EchoTypeOK
    <2>3. n - 1 \in DOMAIN backlog' /\ backlog'[n - 1] = c
      BY <1>1, <2>1, <2>2
    <2>. QED
      BY <2>3 DEF Waits
  <1>7. Held'
    BY <1>1, <1>6 DEF Streams, Held
  <1>8. Lies'
    BY <1>1, <1>2, <1>3 DEF Streams, Lies
  <1>. QED
    BY <1>5, <1>7, <1>8 DEF Streams

\* The steps of a server that has a connection.
LEMMA StreamsServe ==
    ASSUME EchoTypeOK, Streams, Receive \/ Send \/ CloseConnection \/ CloseListener
    PROVE  Streams'
  <1>. USE DEF Goto, serverVars, clientVars, stream, port
  <1>1. CASE Receive
    <2>1. /\ spc = "recv" /\ spc' = "send" /\ unread' = unread \ {conn}
          /\ UNCHANGED <<backlog, conn, cpc, answer>>
      BY <1>1 DEF Receive, Received
    <2>2. \A c \in Clients : (Waits(c)' <=> Waits(c)) /\ (Hold(c)' <=> Hold(c))
      BY <2>1 DEF Waits, Hold, Taken
    <2>3. InOnePlace'
      BY <2>1, <2>2 DEF Streams, InOnePlace, Taken
    <2>4. Held'
      BY <2>1, <2>2 DEF Streams, Held
    <2>5. Lies'
      BY <2>1, <2>2 DEF Streams, InOnePlace, Lies, Taken
    <2>. QED
      BY <2>3, <2>4, <2>5 DEF Streams
  <1>2. CASE Send
    <2>1. CASE Die
      BY <2>1, StreamsDie
    <2>2. CASE ~Die
      <3>1. /\ spc = "send" /\ spc' = "close" /\ UNCHANGED <<backlog, conn, cpc, unread>>
            /\ answer' = [answer EXCEPT ![conn] = IF buffer = "text" THEN "text" ELSE @]
        BY <1>2, <2>2 DEF Send
      <3>2. \A c \in Clients : answer'[c] = "none" => answer[c] = "none"
        BY <3>1 DEF EchoTypeOK
      <3>3. \A c \in Clients : (Waits(c)' <=> Waits(c)) /\ (Hold(c)' <=> Hold(c))
        BY <3>1 DEF Waits, Hold, Taken
      <3>4. InOnePlace'
        BY <3>1, <3>3 DEF Streams, InOnePlace, Taken
      <3>5. Held'
        BY <3>1, <3>2, <3>3 DEF Streams, Held
      <3>6. Lies'
        BY <3>1, <3>2, <3>3 DEF Streams, Lies
      <3>. QED
        BY <3>4, <3>5, <3>6 DEF Streams
    <2>. QED
      BY <2>1, <2>2
  <1>3. CASE CloseConnection
    <2>1. /\ spc = "close" /\ spc' = "unlisten" /\ UNCHANGED <<backlog, cpc, unread>>
          /\ \A c \in Clients : answer'[c] = "none" => answer[c] = "none" /\ c # conn
      BY <1>3 DEF CloseConnection, Hangup
    <2>2. \A c \in Clients : Waits(c)' <=> Waits(c)
      BY <2>1 DEF Waits
    <2>3. \A c \in Clients : answer'[c] = "none" /\ Hold(c) => Hold(c)'
      BY <2>1, <2>2 DEF Hold
    <2>4. InOnePlace'
      BY <2>1, <2>2 DEF Streams, InOnePlace, Taken
    <2>5. Held'
      BY <2>1, <2>3 DEF Streams, Held
    <2>6. Lies'
      BY <2>1, <2>2 DEF Streams, Lies
    <2>. QED
      BY <2>4, <2>5, <2>6 DEF Streams
  <1>4. CASE CloseListener
    <2>1. /\ spc = "unlisten" /\ spc' \in {"unlink", "udpBind"} /\ DOMAIN (backlog') = {}
          /\ UNCHANGED <<cpc, unread>>
          /\ \A c \in Clients : answer'[c] = "none" => answer[c] = "none" /\ c \notin Waiting
      BY <1>4, Empty DEF CloseListener, Hangup
    <2>2. \A c \in Clients : ~Waits(c)'
      BY <2>1 DEF Waits
    <2>3. \A c \in Clients : answer'[c] = "none" => ~Hold(c)
      BY <2>1 DEF Hold, Waits, Waiting, Taken
    <2>4. InOnePlace'
      BY <2>1, <2>2 DEF InOnePlace, Taken
    <2>5. Held'
      BY <2>1, <2>3 DEF Streams, Held
    <2>6. Lies'
      BY <2>1, <2>2 DEF Lies
    <2>. QED
      BY <2>4, <2>5, <2>6 DEF Streams
  <1>. QED
    BY <1>1, <1>2, <1>3, <1>4

LEMMA StreamsConnect ==
    ASSUME EchoTypeOK, Streams, NEW c \in Clients, Connect(c) PROVE Streams'
  <1>. USE DEF Move
  <1>0. /\ cpc[c] = "off" /\ UNCHANGED <<spc, conn, unread, answer>>
        /\ \A b \in Clients : b # c => cpc'[b] = cpc[b]
    BY DEF Connect, EchoTypeOK
  <1>1. CASE spc \in Listening
    <2>0. backlog \in Seq(Clients)
      BY DEF EchoTypeOK
    <2>1. /\ cpc'[c] = "send" /\ backlog' = Append(backlog, c)
      BY <1>1 DEF Connect, EchoTypeOK
    <2>2. \A n \in DOMAIN backlog' : \/ n \in DOMAIN backlog /\ backlog'[n] = backlog[n]
                                     \/ n = Len(backlog) + 1 /\ backlog'[n] = c
      <3>1. \A n \in DOMAIN Append(backlog, c) :
                 \/ n \in DOMAIN backlog /\ Append(backlog, c)[n] = backlog[n]
                 \/ n = Len(backlog) + 1 /\ Append(backlog, c)[n] = c
        BY <2>0, Enqueue
      <3>. QED
        BY <2>1, <3>1
    <2>3. /\ \A n \in DOMAIN backlog : n \in DOMAIN backlog' /\ backlog'[n] = backlog[n]
          /\ Len(backlog) + 1 \in DOMAIN backlog' /\ backlog'[Len(backlog) + 1] = c
      <3>1. /\ \A n \in DOMAIN backlog :
                   n \in DOMAIN Append(backlog, c) /\ Append(backlog, c)[n] = backlog[n]
            /\ Len(backlog) + 1 \in DOMAIN Append(backlog, c)
            /\ Append(backlog, c)[Len(backlog) + 1] = c
        BY <2>0, Grown
      <3>. QED
        BY <2>1, <3>1
    <2>4. ~Waits(c) /\ ~(spc \in Taken /\ conn = c)
      BY <1>0 DEF Streams, InOnePlace
    <2>5. /\ \A b \in Clients : Waits(b)' <=> Waits(b) \/ b = c
          /\ Waits(c)'
      BY <2>2, <2>3 DEF Waits
    <2>6. \A m, n \in DOMAIN backlog' : backlog'[m] = backlog'[n] => m = n
      BY <2>2, <2>4 DEF Waits, Streams, InOnePlace
    <2>7. InOnePlace'
      BY <1>0, <1>1, <2>1, <2>4, <2>5, <2>6 DEF Streams, InOnePlace, Taken
    <2>8. Held'
      BY <1>0, <2>5 DEF Streams, Held, Hold
    <2>9. Lies'
      BY <1>0, <2>1, <2>5 DEF Streams, Lies
    <2>. QED
      BY <2>7, <2>8, <2>9 DEF Streams
  <1>2. CASE spc \notin Listening
    <2>1. cpc'[c] = "refused" /\ backlog' = backlog
      BY <1>2 DEF Connect, EchoTypeOK
    <2>2. \A b \in Clients : Waits(b)' <=> Waits(b)
      BY <2>1 DEF Waits
    <2>3. spc \notin Taken
      BY <1>2 DEF Taken
    <2>4. InOnePlace'
      BY <1>0, <1>2, <2>1, <2>2, <2>3 DEF Streams, InOnePlace
    <2>5. Held'
      BY <1>0, <2>1, <2>2 DEF Streams, Held, Hold
    <2>6. Lies'
      BY <1>0, <2>1, <2>2 DEF Streams, Lies
    <2>. QED
      BY <2>4, <2>5, <2>6 DEF Streams
  <1>. QED
    BY <1>1, <1>2

\* The other steps of a client, and its end.
LEMMA StreamsClient ==
    ASSUME EchoTypeOK, Streams, NEW c \in Clients, ClientStep(c) \/ ClientKill(c)
    PROVE  Streams'
  <1>1. /\ UNCHANGED <<spc, conn, backlog, answer>> /\ unread \subseteq unread'
        /\ \A b \in Clients : b # c => cpc'[b] = cpc[b]
        /\ cpc[c] # "off" /\ cpc'[c] # "off"
        /\ \/ cpc[c] = "send" /\ cpc'[c] = "recv" /\ c \in unread'
           \/ cpc'[c] \notin {"send", "recv"}
    BY DEF ClientStep, ClientKill, ClientSend, ClientRecv, ClientUdpSend, ClientUdpRecv, Move,
           EchoTypeOK, serverVars, stream, Gone
  <1>2. \A b \in Clients : (Waits(b)' <=> Waits(b)) /\ (Hold(b)' <=> Hold(b))
    BY <1>1 DEF Waits, Hold
  <1>3. InOnePlace'
    BY <1>1, <1>2 DEF Streams, InOnePlace
  <1>4. Held'
    BY <1>1, <1>2 DEF Streams, Held
  <1>5. Lies'
    BY <1>1, <1>2 DEF Streams, Lies
  <1>. QED
    BY <1>3, <1>4, <1>5 DEF Streams

\* A client without an answer has a server that runs and listens: it is in its
\* backlog, or the one it serves.  The server does not wait for the text of a
\* client that waits for the answer.  This is what the first part of ExchangeEnds
\* needs of the state.
NobodyLeftHanging ==
    /\ \A c \in Clients : cpc[c] \in {"send", "recv"} /\ answer[c] = "none" =>
           spc \in Listening /\ Hold(c)
    /\ spc = "recv" /\ cpc[conn] = "recv" /\ answer[conn] = "none" => conn \in unread

\* Whoever is killed and whatever fails: a server that ends, by itself or not,
\* hangs up on the client it has (ex25_echo_server.c:92) and on all it has not
\* accepted (line 94), and each of the two reads only what the other has already sent.
THEOREM NobodyHangs == Spec => []NobodyLeftHanging
  <1>. DEFINE Inv == TypeOK /\ Streams
  <1>1. Init => Streams
    <2>. SUFFICES ASSUME Init PROVE Streams
      OBVIOUS
    <2>1. /\ spc = "off" /\ DOMAIN backlog = {} /\ \A c \in Clients : cpc[c] = "off"
      BY Empty DEF Init, EchoInit
    <2>. QED
      BY <2>1 DEF Streams, InOnePlace, Held, Lies, Waits, Taken
  <1>2. TypeOK /\ Streams /\ [Next]_vars => Streams'
    <2>. SUFFICES ASSUME TypeOK, Streams, [Next]_vars PROVE Streams'
      OBVIOUS
    <2>0. EchoTypeOK
      BY DEF TypeOK
    <2>1. CASE UNCHANGED echoVars
      <3>1. UNCHANGED <<spc, conn, backlog, cpc, answer, unread>>
        BY <2>1 DEF echoVars, serverVars, clientVars, stream
      <3>. QED
        BY <3>1 DEF Streams, InOnePlace, Held, Lies, Waits, Hold
    <2>2. CASE StartServer \/ Bind \/ Listen \/ Unlink \/ UdpBind \/ UdpReceive \/ UdpSend
      <3>1. /\ spc \notin Listening /\ spc' \notin Taken
            /\ UNCHANGED <<backlog, cpc, answer, unread>>
        BY <2>2 DEF StartServer, Bind, Listen, Unlink, UdpBind, UdpReceive, UdpSend, Goto, Taken,
                    stream, clientVars
      <3>. QED
        BY <3>1, StreamsAside
    <2>3. CASE Accept \/ Receive \/ Send \/ CloseConnection \/ CloseListener
      BY <2>0, <2>3, StreamsAccept, StreamsServe
    <2>4. CASE ServerFault
      BY <2>0, <2>4, StreamsDie DEF ServerFault
    <2>5. ASSUME NEW c \in Clients, Connect(c) \/ ClientStep(c) \/ ClientKill(c) PROVE Streams'
      BY <2>0, <2>5, StreamsConnect, StreamsClient
    <2>. QED
      BY <2>1, <2>2, <2>3, <2>4, <2>5 DEF Next, EchoNext, ServerStep, vars
  <1>3. TypeOK /\ Streams => NobodyLeftHanging
    <2>. SUFFICES ASSUME Streams PROVE NobodyLeftHanging
      OBVIOUS
    <2>1. \A c \in Clients : Hold(c) => spc \in Listening
      BY DEF Streams, InOnePlace, Hold, Taken
    <2>2. spc = "recv" => conn \in Clients
      BY DEF Streams, InOnePlace, Taken
    <2>. QED
      BY <2>1, <2>2 DEF Streams, Held, Lies, NobodyLeftHanging
  <1>. QED
    BY <1>1, <1>2, <1>3, TypeCorrect, PTL DEF Spec

(***************************************************************************)
(* Over UDP: whoever's datagram the server has still waits for the answer. *)
(***************************************************************************)

Mailbox    == inbox["server"]
Lying(c)   == \E n \in DOMAIN Mailbox : Mailbox[n] = <<c, 0>>
InReply(c) == spc = "sendto" /\ conn = c

\* A client's datagram is there once: with the server, which has not answered it,
\* and with no answer on its way the client has not ended.
OneEach ==
    \A m, n \in DOMAIN Mailbox :
        Mailbox[m] = Mailbox[n] /\ Mailbox[m][1] \in Clients => m = n
StillWaits ==
    \A c \in Clients :
        /\ Lying(c) \/ InReply(c) => cpc[c] = "recvfrom" /\ echo[c] = "none"
        /\ ~(Lying(c) /\ InReply(c))
        /\ cpc[c] \in {"off", "send", "recv", "sendto"} => echo[c] = "none"

NoTrouble == losses + faults = 0
Addressed == NoTrouble => OneEach /\ StillWaits

\* What went wrong stays so.
LEMMA Trouble ==
    ASSUME TypeOK, TypeOK', NoTrouble',
           losses' = losses \/ Lost, faults' = faults \/ Fault
    PROVE  NoTrouble /\ ~Lost /\ ~Fault /\ losses' = losses /\ faults' = faults
  <1>1. losses \in Nat /\ faults \in Nat /\ losses' \in Nat /\ faults' \in Nat
    BY DEF TypeOK, HostTypeOK
  <1>2. losses' = 0 /\ faults' = 0
    <2>1. losses' + faults' = 0
      BY DEF NoTrouble
    <2>2. \A m, n \in Nat : m + n = 0 => m = 0 /\ n = 0
      OBVIOUS
    <2>. QED
      BY <1>1, <2>1, <2>2, Zenon
  <1>3. ~Lost /\ ~Fault
    BY <1>1, <1>2 DEF Lost, Fault
  <1>. QED
    BY <1>2, <1>3 DEF NoTrouble

\* A step that leaves the server's datagrams alone.
LEMMA AddressedKept ==
    ASSUME EchoTypeOK, OneEach, StillWaits, Mailbox' = Mailbox,
           spc' = "sendto" => spc = "sendto" /\ conn' = conn,
           \A c \in Clients :
               /\ cpc[c] = "recvfrom" /\ echo[c] = "none" => cpc'[c] = "recvfrom"
               /\ cpc[c] = "recvfrom" => cpc'[c] \in {"recvfrom", "done", "killed"}
               /\ cpc[c] \in {"done", "refused", "killed"} => cpc'[c] = cpc[c]
               /\ echo'[c] = echo[c]
    PROVE  (OneEach /\ StillWaits)'
  <1>1. \A c \in Clients : (Lying(c)' <=> Lying(c)) /\ (InReply(c)' => InReply(c))
    BY DEF Lying, InReply
  <1>2. \A c \in Clients : cpc'[c] \in {"off", "send", "recv", "sendto"} => echo[c] = "none"
    BY DEF EchoTypeOK, StillWaits
  <1>. QED
    BY <1>1, <1>2 DEF OneEach, StillWaits

\* A step after which the server has no datagram.
LEMMA AddressedClosed ==
    ASSUME StillWaits, EchoTypeOK, Mailbox' = <<>>, spc' # "sendto", cpc' = cpc,
           \A c \in Clients : echo'[c] = echo[c] \/ cpc[c] = "recvfrom"
    PROVE  (OneEach /\ StillWaits)'
  <1>1. DOMAIN Mailbox' = {}
    BY Empty
  <1>. QED
    BY <1>1 DEF OneEach, StillWaits, Lying, InReply

\* A datagram more, from a client that had none there or from the multicast sender.
LEMMA AddressedMore ==
    ASSUME TypeOK, OneEach, StillWaits, NEW d \in Datagrams,
           Mailbox' = Append(Mailbox, d), UNCHANGED <<spc, conn, echo>>,
           d[1] = Group => cpc' = cpc,
           \A c \in Clients : d = <<c, 0>> =>
               cpc[c] = "sendto" /\ cpc' = [cpc EXCEPT ![c] = "recvfrom"]
    PROVE  (OneEach /\ StillWaits)'
  <1>1. Mailbox \in Seq(Datagrams)
    BY DEF TypeOK, HostTypeOK, Mailbox
  <1>2. /\ \A n \in DOMAIN Mailbox' :
               \/ n \in DOMAIN Mailbox /\ Mailbox'[n] = Mailbox[n]
               \/ n = Len(Mailbox) + 1 /\ Mailbox'[n] = d
        /\ \A n \in DOMAIN Mailbox : n \in DOMAIN Mailbox' /\ Mailbox'[n] = Mailbox[n]
        /\ \A n \in DOMAIN Mailbox : Mailbox[n] \in Datagrams
    <2>1. \A n \in DOMAIN Append(Mailbox, d) :
               \/ n \in DOMAIN Mailbox /\ Append(Mailbox, d)[n] = Mailbox[n]
               \/ n = Len(Mailbox) + 1 /\ Append(Mailbox, d)[n] = d
      BY <1>1, Enqueue
    <2>2. \A n \in DOMAIN Mailbox :
              n \in DOMAIN Append(Mailbox, d) /\ Append(Mailbox, d)[n] = Mailbox[n]
      BY <1>1, Grown
    <2>3. \A n \in DOMAIN Mailbox : Mailbox[n] \in Datagrams
      BY <1>1
    <2>. QED
      BY <2>1, <2>2, <2>3
  <1>3. \A e \in Datagrams : \/ e[1] = Group /\ \A c \in Clients : e # <<c, 0>>
                             \/ e[1] \in Clients /\ e = <<e[1], 0>>
    BY HostAssumption DEF Datagrams
  <1>4. \A n \in DOMAIN Mailbox : d[1] \in Clients => Mailbox[n] # d
    <2>. SUFFICES ASSUME NEW n \in DOMAIN Mailbox, d[1] \in Clients, Mailbox[n] = d PROVE FALSE
      OBVIOUS
    <2>1. d = <<d[1], 0>> /\ Lying(d[1])
      BY <1>3, HostAssumption DEF Lying
    <2>. QED
      BY <2>1 DEF StillWaits
  <1>5. OneEach'
    BY <1>2, <1>4 DEF OneEach
  <1>6. StillWaits'
    <2>. SUFFICES ASSUME NEW c \in Clients
                  PROVE  /\ Lying(c)' \/ InReply(c)' => cpc'[c] = "recvfrom" /\ echo'[c] = "none"
                         /\ ~(Lying(c)' /\ InReply(c)')
                         /\ cpc'[c] \in {"off", "send", "recv", "sendto"} => echo'[c] = "none"
      BY DEF StillWaits
    <2>1. Lying(c)' => Lying(c) \/ d = <<c, 0>>
      BY <1>2 DEF Lying
    <2>2. (InReply(c)' => InReply(c)) /\ echo'[c] = echo[c]
      BY DEF InReply
    <2>3. CASE d = <<c, 0>>
      <3>1. cpc[c] = "sendto" /\ cpc'[c] = "recvfrom" /\ echo[c] = "none" /\ ~InReply(c)
        BY <2>3 DEF StillWaits, TypeOK, EchoTypeOK
      <3>. QED
        BY <2>2, <3>1
    <2>4. CASE d # <<c, 0>>
      <3>1. cpc'[c] = cpc[c]
        <4>1. CASE d[1] = Group
          BY <4>1
        <4>2. CASE d[1] \in Clients
          <5>1. d = <<d[1], 0>> /\ d[1] # c
            BY <1>3, <2>4, <4>2, HostAssumption
          <5>. QED
            BY <4>2, <5>1 DEF TypeOK, EchoTypeOK
        <4>. QED
          BY <1>3, <4>1, <4>2
      <3>. QED
        BY <2>1, <2>2, <2>4, <3>1 DEF StillWaits
    <2>. QED
      BY <2>3, <2>4
  <1>. QED
    BY <1>5, <1>6

\* The server takes the first one.
LEMMA AddressedTaken ==
    ASSUME TypeOK, OneEach, StillWaits, UdpReceive PROVE (OneEach /\ StillWaits)'
  <1>1. /\ Mailbox \in Seq(Datagrams) /\ Mailbox # <<>> /\ Mailbox' = Tail(Mailbox)
        /\ conn' = Head(Mailbox)[1] /\ spc = "recvfrom" /\ spc' = "sendto"
        /\ UNCHANGED <<cpc, echo>>
    BY DEF UdpReceive, Goto, Mailbox, TypeOK, HostTypeOK, clientVars
  <1>2. /\ 1 \in DOMAIN Mailbox /\ Mailbox[1] = Head(Mailbox)
        /\ \A n \in DOMAIN Mailbox' :
               n \in Nat /\ n + 1 # 1 /\ n + 1 \in DOMAIN Mailbox /\ Mailbox'[n] = Mailbox[n + 1]
    <2>1. /\ 1 \in DOMAIN Mailbox /\ Mailbox[1] = Head(Mailbox)
          /\ \A n \in DOMAIN Tail(Mailbox) :
                 n \in Nat /\ n + 1 # 1 /\ n + 1 \in DOMAIN Mailbox
                 /\ Tail(Mailbox)[n] = Mailbox[n + 1]
      BY <1>1, Dequeue
    <2>. QED
      BY <1>1, <2>1
  <1>3. OneEach'
    <2>. SUFFICES ASSUME NEW m \in DOMAIN Mailbox', NEW n \in DOMAIN Mailbox',
                         Mailbox'[m] = Mailbox'[n], Mailbox'[m][1] \in Clients
                  PROVE  m = n
      BY DEF OneEach
    <2>1. m + 1 = n + 1
      BY <1>2 DEF OneEach
    <2>. QED
      BY <1>2, <2>1
  <1>4. \A c \in Clients : conn' = c => Mailbox[1] = <<c, 0>>
    <2>1. Mailbox[1] \in Datagrams
      BY <1>1, <1>2
    <2>. QED
      BY <1>1, <1>2, <2>1, HostAssumption DEF Datagrams
  <1>5. \A c \in Clients : Lying(c)' => Lying(c) /\ c # conn'
    <2>. SUFFICES ASSUME NEW c \in Clients, NEW n \in DOMAIN Mailbox', Mailbox'[n] = <<c, 0>>
                  PROVE  Lying(c) /\ c # conn'
      BY DEF Lying
    <2>1. n + 1 \in DOMAIN Mailbox /\ Mailbox[n + 1] = <<c, 0>> /\ n + 1 # 1
      BY <1>2
    <2>2. <<c, 0>>[1] \in Clients
      OBVIOUS
    <2>. QED
      BY <1>2, <1>4, <2>1, <2>2 DEF OneEach, Lying
  <1>6. \A c \in Clients : InReply(c)' => Lying(c)
    BY <1>2, <1>4 DEF InReply, Lying
  <1>. QED
    BY <1>1, <1>3, <1>5, <1>6 DEF StillWaits, InReply

\* The steps of the echo programs.
LEMMA EchoAddressed ==
    ASSUME TypeOK, TypeOK', Addressed, EchoNext, NoTrouble' PROVE (OneEach /\ StillWaits)'
  <1>. USE DEF Goto, Move, Gone, serverVars, clientVars, stream, port, Mailbox
  <1>0. EchoTypeOK /\ EchoTypeOK' /\ inbox \in [Sockets -> Seq(Datagrams)]
    BY DEF TypeOK, HostTypeOK
  <1>1. CASE StartServer \/ Bind \/ Listen \/ Accept \/ Receive \/ CloseConnection \/ CloseListener
             \/ Unlink \/ UdpBind
    <2>1. /\ Mailbox' = Mailbox /\ spc' # "sendto" /\ UNCHANGED <<cpc, echo, losses, faults>>
      BY <1>1 DEF StartServer, Bind, Listen, Accept, Receive, CloseConnection, CloseListener,
                  Unlink, UdpBind, Open
    <2>. QED
      BY <1>0, <2>1, Trouble, AddressedKept DEF Addressed
  <1>2. ASSUME Die, faults' = faults \/ Fault PROVE (OneEach /\ StillWaits)'
    <2>1. Mailbox' = <<>> /\ spc' = "killed" /\ UNCHANGED <<cpc, echo, losses>>
      BY <1>0, <1>2 DEF Die, Close
    <2>. QED
      BY <1>0, <1>2, <2>1, Trouble, AddressedClosed DEF Addressed
  <1>3. CASE Send
    <2>1. CASE ~Die
      <3>1. /\ Mailbox' = Mailbox /\ spc' = "close" /\ UNCHANGED <<cpc, echo, losses, faults>>
        BY <1>3, <2>1 DEF Send
      <3>. QED
        BY <1>0, <3>1, Trouble, AddressedKept DEF Addressed
    <2>. QED
      BY <1>2, <1>3, <2>1 DEF Send
  <1>4. CASE UdpReceive
    <2>1. UNCHANGED <<losses, faults>>
      BY <1>4 DEF UdpReceive
    <2>. QED
      BY <1>4, <2>1, Trouble, AddressedTaken DEF Addressed
  <1>5. CASE UdpSend
    <2>1. /\ Mailbox' = <<>> /\ spc' = "done" /\ UNCHANGED <<cpc, faults>>
          /\ losses' = losses \/ Lost
      BY <1>0, <1>5 DEF UdpSend, Close
    <2>2. \A c \in Clients : echo'[c] = echo[c] \/ cpc[c] = "recvfrom"
      BY <1>5 DEF UdpSend
    <2>. QED
      BY <1>0, <2>1, <2>2, Trouble, AddressedClosed DEF Addressed
  <1>6. CASE ServerFault
    BY <1>2, <1>6 DEF ServerFault
  <1>7. ASSUME NEW c \in Clients, Connect(c) \/ ClientSend(c) \/ ClientRecv(c)
        PROVE  (OneEach /\ StillWaits)'
    <2>1. /\ Mailbox' = Mailbox /\ UNCHANGED <<spc, conn, echo, losses, faults>>
          /\ cpc[c] \in {"off", "send", "recv"}
          /\ \A b \in Clients : b # c => cpc'[b] = cpc[b]
      <3>1. CASE Connect(c)
        BY <1>0, <3>1 DEF Connect, EchoTypeOK
      <3>2. CASE ClientSend(c)
        BY <1>0, <3>2 DEF ClientSend, EchoTypeOK
      <3>3. CASE ClientRecv(c)
        BY <1>0, <3>3 DEF ClientRecv, EchoTypeOK
      <3>. QED
        BY <1>7, <3>1, <3>2, <3>3
    <2>. QED
      BY <1>0, <2>1, Trouble, AddressedKept DEF Addressed
  <1>8. ASSUME NEW c \in Clients, ClientUdpSend(c) PROVE (OneEach /\ StillWaits)'
    <2>1. /\ cpc[c] = "sendto" /\ cpc' = [cpc EXCEPT ![c] = "recvfrom"]
          /\ UNCHANGED <<spc, conn, echo, faults>> /\ Unicast(<<c, 0>>)
      BY <1>8 DEF ClientUdpSend
    <2>2. losses' = losses \/ Lost
      BY <2>1 DEF Unicast
    <2>3. NoTrouble /\ ~Lost /\ OneEach /\ StillWaits
      BY <2>1, <2>2, Trouble DEF Addressed
    <2>4. Mailbox' = Mailbox \/ Mailbox' = Append(Mailbox, <<c, 0>>)
      BY <1>0, <2>1, <2>3 DEF Unicast, Deliver
    <2>5. CASE Mailbox' = Mailbox
      BY <1>0, <2>1, <2>3, <2>5, AddressedKept DEF EchoTypeOK
    <2>6. CASE Mailbox' = Append(Mailbox, <<c, 0>>)
      <3>. DEFINE d == <<c, 0>>
      <3>1. d \in Datagrams /\ d[1] # Group /\ \A b \in Clients : d = <<b, 0>> => b = c
        BY FromClient, HostAssumption
      <3>2. \A b \in Clients : d = <<b, 0>> =>
                cpc[b] = "sendto" /\ cpc' = [cpc EXCEPT ![b] = "recvfrom"]
        BY <2>1, <3>1
      <3>3. Mailbox' = Append(Mailbox, d)
        BY <2>6
      <3>. HIDE DEF d, Mailbox
      <3>. QED
        BY <2>1, <2>3, <3>1, <3>2, <3>3, AddressedMore
    <2>. QED
      BY <2>4, <2>5, <2>6
  <1>9. ASSUME NEW c \in Clients, ClientUdpRecv(c) PROVE (OneEach /\ StillWaits)'
    <2>1. /\ Mailbox' = Mailbox /\ UNCHANGED <<spc, conn, echo, losses, faults>>
          /\ cpc[c] = "recvfrom" /\ echo[c] # "none" /\ cpc'[c] = "done"
          /\ \A b \in Clients : b # c => cpc'[b] = cpc[b]
      BY <1>0, <1>9 DEF ClientUdpRecv, EchoTypeOK
    <2>. QED
      BY <1>0, <2>1, Trouble, AddressedKept DEF Addressed
  <1>10. ASSUME NEW c \in Clients, ClientKill(c) PROVE FALSE
    <2>1. Fault /\ UNCHANGED losses
      BY <1>10 DEF ClientKill
    <2>. QED
      BY <2>1, Trouble
  <1>. QED
    BY <1>1, <1>3, <1>4, <1>5, <1>6, <1>7, <1>8, <1>9, <1>10 DEF EchoNext, ServerStep, ClientStep

\* The multicast programs: a message may come to the server too.
LEMMA GroupAddressed ==
    ASSUME TypeOK, TypeOK', Addressed, GroupNext, UNCHANGED echoVars, NoTrouble'
    PROVE  (OneEach /\ StillWaits)'
  <1>0. /\ inbox \in [Sockets -> Seq(Datagrams)] /\ EchoTypeOK
        /\ UNCHANGED <<spc, conn, cpc, echo>>
    BY DEF TypeOK, HostTypeOK, echoVars, serverVars, clientVars, stream
  <1>1. ASSUME Mailbox' = Mailbox, losses' = losses \/ Lost, faults' = faults \/ Fault
        PROVE  (OneEach /\ StillWaits)'
    BY <1>0, <1>1, Trouble, AddressedKept DEF Addressed
  <1>2. CASE SendMessage
    <2>1. Multicast(<<Group, cnt + 1>>, rpc = "loop") /\ UNCHANGED faults /\ mpc = "loop"
      BY <1>2 DEF SendMessage
    <2>2. losses' = losses \/ Lost
      BY <2>1 DEF Multicast
    <2>3. cnt + 1 \in 1 .. COUNT
      BY <2>1, HostAssumption DEF TypeOK, GroupTypeOK
    <2>. DEFINE d == <<Group, cnt + 1>>
    <2>4. d \in Datagrams /\ d[1] = Group /\ \A b \in Clients : d # <<b, 0>>
      BY <2>3, FromGroup, HostAssumption
    <2>5. Mailbox' = Mailbox \/ Mailbox' = Append(Mailbox, d)
      BY <1>0, <2>1 DEF Multicast, Deliver, Mailbox
    <2>6. OneEach /\ StillWaits
      BY <2>1, <2>2, Trouble DEF Addressed
    <2>. HIDE DEF d
    <2>7. CASE Mailbox' = Append(Mailbox, d)
      BY <1>0, <2>4, <2>6, <2>7, AddressedMore
    <2>. QED
      BY <1>1, <2>1, <2>2, <2>5, <2>7
  <1>3. CASE StartSender \/ ReceiverBind \/ Join
    <2>1. Mailbox' = Mailbox /\ UNCHANGED <<losses, faults>>
      BY <1>3 DEF StartSender, ReceiverBind, Join, Open, port, Mailbox
    <2>. QED
      BY <1>1, <2>1
  <1>4. CASE ReceiveMessage
    <2>1. Mailbox' = Mailbox /\ UNCHANGED <<losses, faults>>
      BY <1>0, <1>4 DEF ReceiveMessage, Close, Mailbox
    <2>. QED
      BY <1>1, <2>1
  <1>5. CASE GroupFault
    <2>1. Mailbox' = Mailbox /\ UNCHANGED losses /\ Fault
      BY <1>0, <1>5 DEF GroupFault, Close, port, Mailbox
    <2>. QED
      BY <1>1, <2>1
  <1>. QED
    BY <1>2, <1>3, <1>4, <1>5 DEF GroupNext, SenderStep, ReceiverStep

LEMMA AddressedInvariant == Spec => [](TypeOK /\ Addressed)
  <1>1. Init => Addressed
    <2>. SUFFICES ASSUME Init PROVE OneEach /\ StillWaits
      BY DEF Addressed
    <2>1. /\ spc = "off" /\ DOMAIN Mailbox = {}
          /\ \A c \in Clients : echo[c] = "none"
      BY Empty DEF Init, EchoInit, HostInit, Mailbox
    <2>. QED
      BY <2>1 DEF OneEach, StillWaits, Lying, InReply
  <1>2. TypeOK /\ TypeOK' /\ Addressed /\ [Next]_vars => Addressed'
    <2>. SUFFICES ASSUME TypeOK, TypeOK', Addressed, [Next]_vars, NoTrouble'
                  PROVE  (OneEach /\ StillWaits)'
      BY DEF Addressed
    <2>1. CASE UNCHANGED vars
      <3>1. Mailbox' = Mailbox /\ UNCHANGED <<spc, conn, cpc, echo, losses, faults>>
        BY <2>1 DEF vars, echoVars, serverVars, clientVars, stream, port, Mailbox
      <3>. QED
        BY <3>1, Trouble, AddressedKept DEF Addressed, TypeOK
    <2>. QED
      BY <2>1, EchoAddressed, GroupAddressed DEF Next
  <1>. QED
    BY <1>1, <1>2, TypeCorrect, PTL DEF Spec

\* When the server answers a client's datagram and neither a datagram was lost nor
\* anything killed, the client is still in recvfrom and gets the text.
AnswerArrives ==
    /\ spc = "sendto" /\ conn \in Clients /\ spc' = "done" /\ NoTrouble'
    => cpc[conn] = "recvfrom" /\ echo'[conn] = "text"

\* Whoever else uses the port: no second datagram of the client, no message of the
\* multicast sender and no earlier answer makes the one recvfrom and the one sendto
\* of the server (ex16_echo_server.c:132, 154) miss the client whose datagram it took.
THEOREM DatagramsAnswered == Spec => [][AnswerArrives]_vars
  <1>1. TypeOK /\ TypeOK' /\ Addressed /\ [Next]_vars => [AnswerArrives]_vars
    <2>. SUFFICES ASSUME TypeOK, TypeOK', Addressed, Next,
                         spc = "sendto", conn \in Clients, spc' = "done", NoTrouble'
                  PROVE  cpc[conn] = "recvfrom" /\ echo'[conn] = "text"
      BY DEF AnswerArrives
    <2>1. UdpSend
      BY DEF Next, EchoNext, ServerStep, ServerFault, StartServer, Bind, Listen, Accept, Receive,
             Send, Die, CloseConnection, CloseListener, Unlink, UdpBind, UdpReceive, Goto, Connect,
             ClientStep, ClientSend, ClientRecv, ClientUdpSend, ClientUdpRecv, ClientKill,
             echoVars, serverVars
    <2>2. (losses' = losses \/ Lost) /\ UNCHANGED faults
      BY <2>1 DEF UdpSend
    <2>3. NoTrouble /\ ~Lost /\ StillWaits
      BY <2>2, Trouble DEF Addressed
    <2>4. cpc[conn] = "recvfrom"
      BY <2>3 DEF StillWaits, InReply
    <2>5. buffer = "text"
      BY DEF TypeOK, EchoTypeOK
    <2>. QED
      BY <2>1, <2>3, <2>4, <2>5 DEF UdpSend
  <1>. QED
    BY <1>1, AddressedInvariant, PTL DEF Spec
=============================================================================
