-------------------------------- MODULE Queues --------------------------------
(***************************************************************************)
(* ex26_sender.c and ex26_receiver.c over something that queues: a named   *)
(* pipe (FIFO), a POSIX queue (XQUEUE) or a System V queue (VQUEUE), the   *)
(* values of mode.                                                         *)
(*                                                                         *)
(* A message is its number, 1 .. COUNT.  A pipe has no messages: there     *)
(* number n is WIDTH units n, and a read returns at most READ units.  In a *)
(* queue an earlier run may have left messages, which are 0, and the queue *)
(* itself.  Either program may be killed; GiveUp is a call of the set-up   *)
(* that fails.                                                             *)
(***************************************************************************)
EXTENDS Integers, Sequences

CONSTANTS
    Modes,      \* the builds considered, a subset of AllModes
    COUNT,      \* messages sent, 10 in the code
    CAPACITY,   \* mq_maxmsg, 10
    WIDTH,      \* units of a message in the pipe, 9 bytes
    READ,       \* units a read of the pipe returns at most, 55 bytes
    MaxStale, MaxKills   \* bounds: messages left by an earlier run; kills

AllModes == {"FIFO", "XQUEUE", "VQUEUE"}

ASSUME QueuesAssumption ==
    /\ Modes \subseteq AllModes
    /\ {COUNT, CAPACITY, WIDTH, READ} \subseteq Nat \ {0}
    /\ {MaxStale, MaxKills} \subseteq Nat
    /\ MaxStale <= CAPACITY /\ COUNT <= CAPACITY

VARIABLES
    mode,    \* which of the builds runs
    exists,  \* 1 while the queue has its name
    attr,    \* how a POSIX queue was made: "asked" or "default"
    q,       \* what is queued
    sent,    \* all that ever went into the queue that is in use
    spc, i,  \* sender: where it is, messages sent
    rpc, j,  \* receiver: where it is, messages received
    got,     \* what was received, in order
    stale, kills

vars == <<mode, exists, attr, q, sent, spc, i, rpc, j, got, stale, kills>>
object   == <<exists, attr, q, sent>>
sender   == <<spc, i>>
receiver == <<rpc, j, got>>
history  == <<mode, stale, kills>>

Repeat(m, n) == [k \in 1 .. n |-> m]

Ended == {"done", "killed"}

Init ==
    /\ mode \in Modes
    /\ exists \in {0, 1} /\ attr \in {"asked", "default"}
    /\ stale \in 0 .. MaxStale
    /\ stale > 0 => exists = 1
    /\ exists = 1 => mode # "FIFO"
    /\ attr = "default" => exists = 1 /\ mode = "XQUEUE"
    /\ q = Repeat(0, stale) /\ sent = q
    /\ spc = "open" /\ i = 0
    /\ rpc = "open" /\ j = 0 /\ got = <<>>
    /\ kills = 0

-----------------------------------------------------------------------------
(* Opening.                                                                *)

\* open of a pipe returns when the other end is opened too.
OpenPipe ==
    /\ mode = "FIFO" /\ spc = "open" /\ rpc = "open"
    /\ spc' = "loop" /\ rpc' = "loop"
    /\ UNCHANGED <<object, i, j, got, history>>

\* mq_open is given the attributes by value where it takes a pointer: it may
\* find them, find NULL and use the defaults, or fail.  msgget has none.
SenderOpen ==
    /\ mode # "FIFO" /\ spc = "open"
    /\ spc' = "loop"
    /\ exists' = 1
    /\ attr' \in IF mode = "XQUEUE" /\ exists = 0 THEN {"asked", "default"} ELSE {attr}
    /\ UNCHANGED <<q, sent, i, receiver, history>>

\* The receiver does not create the queue.
ReceiverOpen ==
    /\ mode # "FIFO" /\ rpc = "open"
    /\ rpc' = IF exists = 1 THEN "loop" ELSE "done"
    /\ UNCHANGED <<object, sender, j, got, history>>

GiveUp ==
    /\ \/ spc = "open" /\ spc' = "done" /\ UNCHANGED rpc
       \/ rpc = "open" /\ rpc' = "done" /\ UNCHANGED spc
    /\ UNCHANGED <<object, i, j, got, history>>

-----------------------------------------------------------------------------
(* Sending.                                                                *)

Put(s) == q' = q \o s /\ sent' = sent \o s

AfterSend == IF i + 1 < COUNT THEN "loop" ELSE "done"

\* Nine bytes go into a pipe in one piece; without a reader write is SIGPIPE.
Write ==
    /\ mode = "FIFO" /\ spc = "loop"
    /\ IF rpc \in Ended
       THEN spc' = "killed" /\ UNCHANGED <<q, sent, i>>
       ELSE spc' = AfterSend /\ i' = i + 1 /\ Put(Repeat(i + 1, WIDTH))
    /\ UNCHANGED <<exists, attr, receiver, history>>

\* Variant: the queue is full one message early.
MqSendEarlyFull ==
    /\ mode = "XQUEUE" /\ spc = "loop"
    /\ Len(q) + 1 < CAPACITY
    /\ spc' = AfterSend /\ i' = i + 1
    /\ Put(<<i + 1>>)
    /\ UNCHANGED <<exists, attr, receiver, history>>

\* Variant: the queue takes any number of messages.
MqSendNeverFull ==
    /\ mode = "XQUEUE" /\ spc = "loop"
    /\ spc' = AfterSend /\ i' = i + 1
    /\ Put(<<i + 1>>)
    /\ UNCHANGED <<exists, attr, receiver, history>>

\* mq_send waits while the queue is full.
MqSend ==
    /\ mode = "XQUEUE" /\ spc = "loop"
    /\ Len(q) < CAPACITY
    /\ spc' = AfterSend /\ i' = i + 1
    /\ Put(<<i + 1>>)
    /\ UNCHANGED <<exists, attr, receiver, history>>

\* msgsnd fails when the receiver has removed the queue; the loop goes on.
MsgSnd ==
    /\ mode = "VQUEUE" /\ spc = "loop"
    /\ spc' = AfterSend /\ i' = i + 1
    /\ IF exists = 1 THEN Put(<<i + 1>>) ELSE UNCHANGED <<q, sent>>
    /\ UNCHANGED <<exists, attr, receiver, history>>

-----------------------------------------------------------------------------
(* Receiving.                                                              *)

Take(n) == /\ got' = got \o SubSeq(q, 1, n)
           /\ q' = SubSeq(q, n + 1, Len(q))

\* Variant: a short read is taken for the end.
ReadShortEnds ==
    /\ mode = "FIFO" /\ rpc = "loop" /\ q # <<>>
    /\ LET n == IF Len(q) < READ THEN Len(q) ELSE READ
       IN  Take(n) /\ rpc' = (IF n < READ THEN "done" ELSE "loop")
    /\ UNCHANGED <<exists, attr, sent, sender, j, history>>

\* read takes what is there, over the borders of messages.
ReadPipe ==
    /\ mode = "FIFO" /\ rpc = "loop" /\ q # <<>>
    /\ Take(IF Len(q) < READ THEN Len(q) ELSE READ)
    /\ UNCHANGED <<exists, attr, sent, sender, rpc, j, history>>

\* read returns 0 when nothing is left and the sender is gone.
EndOfPipe ==
    /\ mode = "FIFO" /\ rpc = "loop"
    /\ q = <<>> /\ spc \in Ended
    /\ rpc' = "done"
    /\ UNCHANGED <<object, sender, j, got, history>>

\* In a queue with the default message size each receive fails (EMSGSIZE), and
\* the loop tries again at once: that is not a step.
MqReceive ==
    /\ mode = "XQUEUE" /\ rpc = "loop" /\ attr = "asked"
    /\ q # <<>>
    /\ Take(1)
    /\ UNCHANGED <<exists, attr, sent, sender, rpc, j, history>>

\* Five seconds without a message.
MqTimeout ==
    /\ mode = "XQUEUE" /\ rpc = "loop" /\ attr = "asked"
    /\ q = <<>>
    /\ rpc' = "done"
    /\ UNCHANGED <<object, sender, j, got, history>>

\* Variant: the last message that came is taken first.
MsgRcvLast ==
    /\ mode = "VQUEUE" /\ rpc = "loop"
    /\ q # <<>>
    /\ got' = Append(got, q[Len(q)]) /\ q' = SubSeq(q, 1, Len(q) - 1)
    /\ j' = j + 1
    /\ rpc' = IF j + 1 < COUNT THEN "loop" ELSE "remove"
    /\ UNCHANGED <<exists, attr, sent, sender, history>>

\* Variant: the loop is left one message early.
MsgRcvOneLess ==
    /\ mode = "VQUEUE" /\ rpc = "loop"
    /\ q # <<>>
    /\ Take(1)
    /\ j' = j + 1
    /\ rpc' = IF j + 2 < COUNT THEN "loop" ELSE "remove"
    /\ UNCHANGED <<exists, attr, sent, sender, history>>

\* Variant: the loop of shared memory, "i <= 10".
MsgRcvOneMore ==
    /\ mode = "VQUEUE" /\ rpc = "loop"
    /\ q # <<>>
    /\ Take(1)
    /\ j' = j + 1
    /\ rpc' = IF j < COUNT THEN "loop" ELSE "remove"
    /\ UNCHANGED <<exists, attr, sent, sender, history>>

\* msgrcv waits; nothing else removes the queue, so it does not fail.
MsgRcv ==
    /\ mode = "VQUEUE" /\ rpc = "loop"
    /\ q # <<>>
    /\ Take(1)
    /\ j' = j + 1
    /\ rpc' = IF j + 1 < COUNT THEN "loop" ELSE "remove"
    /\ UNCHANGED <<exists, attr, sent, sender, history>>

\* msgctl(IPC_RMID): what is still queued is gone.
MsgRemove ==
    /\ mode = "VQUEUE" /\ rpc = "remove"
    /\ exists' = 0 /\ q' = <<>>
    /\ rpc' = "done"
    /\ UNCHANGED <<attr, sent, sender, j, got, history>>

-----------------------------------------------------------------------------
Kill ==
    /\ kills < MaxKills /\ kills' = kills + 1
    /\ \/ spc \notin Ended /\ spc' = "killed" /\ UNCHANGED rpc
       \/ rpc \notin Ended /\ rpc' = "killed" /\ UNCHANGED spc
    /\ UNCHANGED <<object, i, j, got, mode, stale>>

Sender   == SenderOpen \/ Write \/ MqSend \/ MsgSnd
Receiver == \/ ReceiverOpen \/ ReadPipe \/ EndOfPipe \/ MqReceive \/ MqTimeout
            \/ MsgRcv \/ MsgRemove

Next == OpenPipe \/ Sender \/ Receiver \/ GiveUp \/ Kill

Spec == Init /\ [][Next]_vars

\* Two processes the kernel keeps scheduling.
FairSpec == Spec /\ WF_vars(Sender) /\ WF_vars(Receiver) /\ WF_vars(OpenPipe)

-----------------------------------------------------------------------------
(* Properties.                                                             *)

TypeOK ==
    /\ mode \in Modes
    /\ exists \in {0, 1} /\ attr \in {"asked", "default"}
    /\ q \in Seq(0 .. COUNT) /\ sent \in Seq(0 .. COUNT)
    /\ mode = "XQUEUE" => Len(q) <= CAPACITY
    /\ spc \in {"open", "loop", "done", "killed"} /\ i \in 0 .. COUNT
    /\ rpc \in {"open", "loop", "remove", "done", "killed"} /\ j \in 0 .. COUNT
    /\ got \in Seq(0 .. COUNT)
    /\ stale \in 0 .. MaxStale /\ kills \in 0 .. MaxKills

\* Whatever is killed or fails, messages come out in the order they went in,
\* without gaps: what is lost is lost at the end.
ToChannel == INSTANCE Channel WITH received <- got
ChannelSpec == ToChannel!Spec

\* The receiver of a pipe stops only when it has read all that was written,
\* however it was cut into pieces: that is all there is to write, unless
\* something was killed.  So it never ends the sender by SIGPIPE.
PipeReadToTheEnd ==
    mode = "FIFO" /\ rpc = "done" =>
        got = sent /\ (kills = 0 /\ sent # <<>> => i = COUNT)

\* The receiver that removes the queue has received COUNT messages, whoever sent
\* them: first what an earlier run left and then this run's in order, so that it
\* loses with the queue at most as many of its own as it found.
RemovedWhenEmpty ==
    mode = "VQUEUE" /\ rpc = "remove" =>
        /\ Len(got) = COUNT /\ Len(q) <= stale
        /\ \A n \in 1 .. COUNT : got[n] = IF n <= stale THEN 0 ELSE n - stale

\* The sender waits for ever in two places only: in mq_send, for a queue that an
\* earlier run left messages in, full, and nobody to receive them, because the
\* receiver ended or cannot receive from a queue with the default size; and in the
\* open of the pipe, for a receiver that ended before its own.  COUNT messages
\* alone fit into the queue.
SenderEnds ==
    /\ mode = "VQUEUE" => <>(spc \in Ended)
    /\ mode = "XQUEUE" =>
          <>(\/ spc \in Ended
             \/ stale > 0 /\ Len(q) = CAPACITY /\ (rpc \in Ended \/ attr = "default"))
    /\ mode = "FIFO" => <>(spc \in Ended \/ (spc = "open" /\ rpc \in Ended))

\* A receiver ends: by the end of the pipe, unless it waits in open for a sender
\* that ended before its own; by the timeout once it is in its loop, unless the
\* queue has the default size, when it tries for ever; or because COUNT messages
\* come, as long as nothing is killed and the sender is there too.
ReceiverEnds ==
    /\ mode = "FIFO" => <>(rpc \in Ended \/ (rpc = "open" /\ spc \in Ended))
    /\ mode = "XQUEUE" /\ rpc = "loop" ~> rpc \in Ended \/ attr = "default"
    /\ mode = "VQUEUE" /\ rpc = "loop" /\ spc = "loop" ~> rpc \in Ended \/ kills > 0
=============================================================================
