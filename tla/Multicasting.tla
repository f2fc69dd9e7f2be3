----------------------------- MODULE Multicasting -----------------------------
(***************************************************************************)
(* ex16_multicast.c, started once as sender and once as receiver.          *)
(***************************************************************************)
EXTENDS Host

VARIABLES
    mpc, cnt,   \* sender: where it is, messages sent
    rpc, got    \* receiver: where it is, the datagrams it counted

groupVars == <<mpc, cnt, rpc, got>>

GroupInit == mpc = "off" /\ cnt = 0 /\ rpc = "off" /\ got = <<>>

StartSender ==
    /\ mpc = "off" /\ mpc' = "loop"
    /\ UNCHANGED <<cnt, rpc, got, port, faults>>

\* Variant: the sender's loop ends one message early.
SendOneLess ==
    /\ mpc = "loop"
    /\ Multicast(<<Group, cnt + 1>>, rpc = "loop")
    /\ cnt' = cnt + 1
    /\ mpc' = IF cnt + 2 < COUNT THEN "loop" ELSE "done"
    /\ UNCHANGED <<rpc, got, faults>>

\* Variant: it ends one message late.
SendOneMore ==
    /\ mpc = "loop"
    /\ Multicast(<<Group, cnt + 1>>, rpc = "loop")
    /\ cnt' = cnt + 1
    /\ mpc' = IF cnt < COUNT THEN "loop" ELSE "done"
    /\ UNCHANGED <<rpc, got, faults>>

SendMessage ==
    /\ mpc = "loop"
    /\ Multicast(<<Group, cnt + 1>>, rpc = "loop")
    /\ cnt' = cnt + 1
    /\ mpc' = IF cnt + 1 < COUNT THEN "loop" ELSE "done"
    /\ UNCHANGED <<rpc, got, faults>>

\* socket and bind: from here on the receiver has the port.
ReceiverBind ==
    /\ rpc = "off" /\ rpc' = "join"
    /\ Open("receiver")
    /\ UNCHANGED <<mpc, cnt, got, faults>>

Join ==
    /\ rpc = "join" /\ rpc' = "loop"
    /\ UNCHANGED <<mpc, cnt, got, port, faults>>

\* Whatever comes to the port counts, and nothing else ends the loop.
ReceiveMessage ==
    /\ rpc = "loop" /\ inbox["receiver"] # <<>>
    /\ got' = Append(got, Head(inbox["receiver"]))
    /\ IF Len(got) + 1 < COUNT
       THEN /\ inbox' = [inbox EXCEPT !["receiver"] = Tail(@)]
            /\ UNCHANGED <<rpc, open>>
       ELSE rpc' = "done" /\ Close("receiver")
    /\ UNCHANGED <<mpc, cnt, losses, faults>>

\* A kill, or a failed call after which the program returns.
GroupFault ==
    /\ Fault
    /\ \/ mpc = "loop" /\ mpc' = "killed" /\ UNCHANGED <<rpc, port>>
       \/ /\ rpc \in {"join", "loop"} /\ rpc' = "killed"
          /\ Close("receiver")
          /\ UNCHANGED <<mpc, losses>>
    /\ UNCHANGED <<cnt, got>>

SenderStep   == SendMessage
ReceiverStep == Join \/ ReceiveMessage

GroupNext == StartSender \/ SenderStep \/ ReceiverBind \/ ReceiverStep \/ GroupFault

GroupTypeOK ==
    /\ mpc \in {"off", "loop", "done", "killed"} /\ cnt \in 0 .. COUNT
    /\ mpc \in {"off", "loop"} => cnt < COUNT
    /\ rpc \in {"off", "join", "loop", "done", "killed"}
    /\ got \in Seq(Datagrams) /\ Len(got) <= COUNT
    /\ rpc \in {"off", "join", "loop"} => Len(got) < COUNT
===============================================================================
