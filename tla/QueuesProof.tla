------------------------------ MODULE QueuesProof ------------------------------
(***************************************************************************)
(* Proofs about the builds of ex26 over a pipe or a queue: nothing is      *)
(* reordered or left out, for every number of messages, every size of a    *)
(* message and of a read, and every leftover of an earlier run.            *)
(***************************************************************************)
EXTENDS Queues, SequenceTheorems, TLAPS

Message == 0 .. COUNT
Extends(s, t) == ToChannel!Extends(s, t)

-----------------------------------------------------------------------------
(* Facts about sequences.                                                  *)

LEMMA ExtendsItself == ASSUME NEW S, NEW s \in Seq(S) PROVE Extends(s, s)
  BY SubSeqFull, LenProperties DEF Extends, ToChannel!Extends

LEMMA ConcatExtends ==
    ASSUME NEW S, NEW s \in Seq(S), NEW t \in Seq(S) PROVE Extends(s, s \o t)
  <1>1. Len(s) \in Nat /\ Len(t) \in Nat /\ Len(s \o t) = Len(s) + Len(t)
    BY LenProperties, ConcatProperties
  <1>2. CASE Len(s) = 0
    <2>1. s = <<>>
      BY <1>2, EmptySeq
    <2>2. SubSeq(s \o t, 1, Len(s)) = <<>>
      BY <1>2, SubSeqEmpty
    <2>. QED
      BY <1>1, <1>2, <2>1, <2>2 DEF Extends, ToChannel!Extends
  <1>3. CASE Len(s) > 0
    <2>1. 1 \in 1 .. Len(s) /\ Len(s) \in 1 .. Len(s)
      BY <1>1, <1>3
    <2>2. SubSeq(s \o t, 1, Len(s)) = SubSeq(s, 1, Len(s))
      BY <2>1, SubSeqOfConcat1
    <2>3. SubSeq(s, 1, Len(s)) = s
      BY SubSeqFull
    <2>. QED
      BY <1>1, <2>2, <2>3 DEF Extends, ToChannel!Extends
  <1>. QED
    BY <1>1, <1>2, <1>3

LEMMA ExtendsTransitive ==
    ASSUME NEW S, NEW r \in Seq(S), NEW s \in Seq(S), NEW t \in Seq(S),
           Extends(r, s), Extends(s, t)
    PROVE  Extends(r, t)
  <1>1. /\ Len(r) \in Nat /\ Len(s) \in Nat /\ Len(t) \in Nat
        /\ Len(r) <= Len(s) /\ Len(s) <= Len(t)
        /\ SubSeq(s, 1, Len(r)) = r /\ SubSeq(t, 1, Len(s)) = s
    BY LenProperties DEF Extends, ToChannel!Extends
  <1>2. SubSeq(t, 1, Len(r)) = r
    <2>1. CASE Len(r) = 0
      <3>1. r = <<>> /\ SubSeq(t, 1, Len(r)) = <<>>
        BY <2>1, EmptySeq, SubSeqEmpty
      <3>. QED
        BY <3>1
    <2>2. CASE Len(r) > 0
      <3>1. /\ 1 \in 1 .. Len(t) /\ Len(s) \in 1 .. Len(t)
            /\ 1 \in 1 .. Len(s) - 1 + 1 /\ Len(r) \in 1 .. Len(s) - 1 + 1
        BY <1>1, <2>2
      <3>2. SubSeq(SubSeq(t, 1, Len(s)), 1, Len(r)) = SubSeq(t, 1 + 1 - 1, 1 + Len(r) - 1)
        BY <3>1, SubSeqOfSubSeq
      <3>. QED
        BY <1>1, <3>2
    <2>. QED
      BY <1>1, <2>1, <2>2
  <1>. QED
    BY <1>1, <1>2 DEF Extends, ToChannel!Extends

LEMMA RepeatIsSeq ==
    ASSUME NEW m, NEW n \in Nat
    PROVE  Repeat(m, n) \in Seq({m}) /\ Len(Repeat(m, n)) = n
  BY DEF Repeat

-----------------------------------------------------------------------------
(* The invariant.                                                          *)

\* What was received is the beginning of what was sent; while the receiver
\* lives, and always in a pipe, the rest of it is in the queue.
Order ==
    /\ Extends(got, sent)
    /\ mode = "FIFO" \/ rpc \notin Ended => sent = got \o q

\* The pipe: who ends how, when nobody is killed.
Pipe ==
    mode = "FIFO" =>
        /\ spc = "open" \/ rpc = "open" => sent = <<>>
        /\ spc = "loop" => rpc # "open"
        /\ kills = 0 /\ spc = "killed" => rpc \in Ended
        /\ spc = "done" /\ sent # <<>> => i = COUNT
        /\ rpc = "done" => q = <<>> /\ (kills = 0 /\ sent # <<>> => i = COUNT)

\* The System V queue: no more messages than an earlier run left and this one
\* sent, and as many received as the receiver counted.
Counts ==
    mode = "VQUEUE" =>
        /\ Len(sent) <= stale + i
        /\ rpc \in {"open", "loop", "remove"} => Len(got) = j
        /\ rpc \in {"open", "loop"} => j < COUNT
        /\ rpc = "remove" => j = COUNT

Loop == spc \in {"open", "loop"} => i < COUNT

IInv == TypeOK /\ Order /\ Pipe /\ Counts /\ Loop

LEMMA InitHolds == Init => IInv
  <1>. SUFFICES ASSUME Init PROVE IInv
    OBVIOUS
  <1>1. q \in Seq({0}) /\ Len(q) = stale /\ stale \in Nat
    BY RepeatIsSeq, QueuesAssumption DEF Init
  <1>2. q \in Seq(Message)
    BY <1>1, SeqMonotonic, QueuesAssumption DEF Message
  <1>3. got = <<>> /\ <<>> \in Seq(Message) /\ Len(<<>>) = 0
    BY EmptySeq DEF Init
  <1>4. <<>> \o q = q
    BY <1>2, ConcatEmptySeq
  <1>5. Order
    BY <1>2, <1>3, <1>4, ConcatExtends DEF Init, Order
  <1>6. mode = "FIFO" => q = <<>>
    <2>. SUFFICES ASSUME mode = "FIFO" PROVE q = <<>>
      OBVIOUS
    <2>1. stale = 0
      BY <1>1 DEF Init
    <2>. QED
      BY <1>1, <2>1, EmptySeq
  <1>7. TypeOK
    BY <1>1, <1>2, <1>3, QueuesAssumption DEF Init, TypeOK, Message
  <1>. QED
    BY <1>1, <1>3, <1>5, <1>6, <1>7, QueuesAssumption
    DEF Init, IInv, Pipe, Counts, Loop, Ended

\* What a step of the sender that puts s into the queue does to the order.
LEMMA PutHolds ==
    ASSUME IInv, NEW s \in Seq(Message), Put(s), UNCHANGED got
    PROVE  /\ q' \in Seq(Message) /\ sent' \in Seq(Message)
           /\ Len(q') = Len(q) + Len(s) /\ Len(sent') = Len(sent) + Len(s)
           /\ sent = got \o q => sent' = got' \o q'
           /\ Extends(sent, sent')
  <1>1. q \in Seq(Message) /\ sent \in Seq(Message) /\ got \in Seq(Message)
    BY DEF IInv, TypeOK, Message
  <1>2. q' = q \o s /\ sent' = sent \o s
    BY DEF Put
  <1>3. (got \o q) \o s = got \o (q \o s)
    BY ONLY <1>1, s \in Seq(Message), ConcatAssociative
  <1>. QED
    BY <1>1, <1>2, <1>3, ConcatProperties, ConcatExtends

\* A step of the receiver that takes n units from the front of the queue moves
\* the border between what was received and what is queued, and nothing else.
LEMMA TakeHolds ==
    ASSUME IInv, NEW n \in Nat, n <= Len(q), Take(n), UNCHANGED sent, sent = got \o q
    PROVE  /\ q' \in Seq(Message) /\ got' \in Seq(Message)
           /\ Len(q') = Len(q) - n /\ Len(got') = Len(got) + n
           /\ sent' = got' \o q'
           /\ Extends(got, got') /\ Extends(got', sent)
  <1>. DEFINE front == SubSeq(q, 1, n)
              rest  == SubSeq(q, n + 1, Len(q))
  <1>1. q \in Seq(Message) /\ got \in Seq(Message)
    BY DEF IInv, TypeOK, Message
  <1>2. q' = rest /\ got' = got \o front
    BY DEF Take
  <1>3. Len(q) \in Nat /\ \A m \in 1 .. Len(q) : q[m] \in Message
    BY <1>1, LenProperties, ElementOfSeq
  <1>4. front \in Seq(Message) /\ Len(front) = n
    BY <1>3, SubSeqProperties
  <1>5. rest \in Seq(Message) /\ Len(rest) = Len(q) - n
    BY <1>3, SubSeqProperties
  <1>6. front \o rest = q
    <2>1. 1 \in 1 .. Len(q) + 1 /\ n \in 1 - 1 .. Len(q) /\ Len(q) \in n .. Len(q)
      BY <1>3
    <2>2. front \o rest = SubSeq(q, 1, Len(q))
      BY ONLY <2>1, <1>1, ConcatAdjacentSubSeq
    <2>. QED
      BY <2>2, <1>1, SubSeqFull
  <1>. HIDE DEF front, rest
  <1>7. (got \o front) \o rest = got \o q
    <2>1. got \in Seq(Message) /\ front \in Seq(Message) /\ rest \in Seq(Message)
      BY <1>1, <1>4, <1>5
    <2>2. (got \o front) \o rest = got \o (front \o rest)
      BY ONLY <2>1, ConcatAssociative
    <2>. QED
      BY <2>2, <1>6
  <1>8. got \o front \in Seq(Message) /\ Len(got \o front) = Len(got) + n
    BY <1>1, <1>4, ConcatProperties
  <1>9. Extends(got, got \o front)
    BY ONLY <1>1, <1>4, ConcatExtends
  <1>10. Extends(got \o front, (got \o front) \o rest)
    BY ONLY <1>5, <1>8, ConcatExtends
  <1>. QED
    BY <1>2, <1>5, <1>7, <1>8, <1>9, <1>10

-----------------------------------------------------------------------------
(* Every step keeps the invariant, and is a step of the channel or none.   *)

\* What a step may do to what was sent and what was received.
ChannelStep ==
    \/ Extends(sent, sent') /\ UNCHANGED got
    \/ Extends(got, got') /\ Extends(got', sent) /\ UNCHANGED sent

LEMMA StillOrder ==
    ASSUME IInv, UNCHANGED <<sent, got>>
    PROVE  ChannelStep /\ Extends(got', sent')
  <1>1. sent \in Seq(Message)
    BY DEF IInv, TypeOK, Message
  <1>. QED
    BY <1>1, ExtendsItself DEF ChannelStep, IInv, Order

LEMMA SenderHolds == ASSUME IInv, Sender PROVE IInv' /\ ChannelStep
  <1>. USE QueuesAssumption DEF IInv
  <1>1. /\ q \in Seq(Message) /\ sent \in Seq(Message) /\ got \in Seq(Message)
        /\ Len(q) \in Nat /\ Len(sent) \in Nat /\ i \in 0 .. COUNT /\ j \in 0 .. COUNT
        /\ stale \in Nat /\ kills \in Nat /\ COUNT \in Nat
    BY LenProperties DEF TypeOK, Message
  <1>2. CASE SenderOpen
    BY <1>1, <1>2, StillOrder
    DEF SenderOpen, TypeOK, Order, Pipe, Counts, Loop, receiver, history, Ended
  <1>3. ASSUME NEW s \in Seq(Message), Put(s), UNCHANGED <<receiver, mode>>
        PROVE  ChannelStep /\ Order'
    <2>1. /\ q' \in Seq(Message) /\ sent' \in Seq(Message)
          /\ sent = got \o q => sent' = got' \o q'
          /\ Extends(sent, sent')
      BY <1>3, PutHolds DEF receiver
    <2>2. Extends(got, sent')
      BY <1>1, <2>1, ExtendsTransitive DEF Order
    <2>. QED
      BY <1>3, <2>1, <2>2 DEF ChannelStep, Order, receiver
  <1>4. i < COUNT => <<i + 1>> \in Seq(Message) /\ Len(<<i + 1>>) = 1
    BY <1>1 DEF Message
  <1>5. i < COUNT => Repeat(i + 1, WIDTH) \in Seq(Message)
    <2>. SUFFICES ASSUME i < COUNT PROVE Repeat(i + 1, WIDTH) \in Seq(Message)
      OBVIOUS
    <2>1. Repeat(i + 1, WIDTH) \in Seq({i + 1}) /\ {i + 1} \subseteq Message
      BY <1>1, RepeatIsSeq DEF Message
    <2>. QED
      BY <2>1, SeqMonotonic
  <1>6. CASE Write
    <2>1. i < COUNT
      BY <1>6 DEF Write, Loop
    <2>2. CASE rpc \in Ended
      BY <1>1, <1>6, <2>1, <2>2, StillOrder
      DEF Write, TypeOK, Order, Pipe, Counts, Loop, receiver, history, Ended
    <2>3. CASE rpc \notin Ended
      <3>1. Put(Repeat(i + 1, WIDTH)) /\ UNCHANGED <<receiver, history>>
        BY <1>6, <2>3 DEF Write
      <3>2. /\ q' \in Seq(Message) /\ sent' \in Seq(Message)
            /\ ChannelStep /\ Order'
        BY <1>3, <1>5, <2>1, <3>1, PutHolds DEF receiver, history
      <3>. QED
        BY <1>1, <1>6, <2>1, <2>3, <3>2
        DEF Write, AfterSend, TypeOK, Pipe, Counts, Loop, receiver, history, Ended, Message
    <2>. QED
      BY <2>2, <2>3
  <1>7. CASE MqSend
    <2>1. i < COUNT
      BY <1>7 DEF MqSend, Loop
    <2>2. /\ q' \in Seq(Message) /\ sent' \in Seq(Message) /\ Len(q') = Len(q) + 1
          /\ ChannelStep /\ Order'
      BY <1>3, <1>4, <1>7, <2>1, PutHolds DEF MqSend, receiver, history
    <2>. QED
      BY <1>1, <1>7, <2>1, <2>2
      DEF MqSend, AfterSend, TypeOK, Pipe, Counts, Loop, receiver, history, Ended, Message
  <1>8. CASE MsgSnd
    <2>1. i < COUNT
      BY <1>8 DEF MsgSnd, Loop
    <2>2. CASE exists = 1
      <3>1. /\ q' \in Seq(Message) /\ sent' \in Seq(Message)
            /\ Len(sent') = Len(sent) + 1 /\ ChannelStep /\ Order'
        BY <1>3, <1>4, <1>8, <2>1, <2>2, PutHolds DEF MsgSnd, receiver, history
      <3>. QED
        BY <1>1, <1>8, <2>1, <3>1
        DEF MsgSnd, AfterSend, TypeOK, Pipe, Counts, Loop, receiver, history, Ended, Message
    <2>3. CASE exists # 1
      BY <1>1, <1>8, <2>1, <2>3, StillOrder
      DEF MsgSnd, AfterSend, TypeOK, Order, Pipe, Counts, Loop, receiver, history, Ended
    <2>. QED
      BY <2>2, <2>3
  <1>. QED
    BY <1>2, <1>6, <1>7, <1>8 DEF Sender

LEMMA ReceiverHolds == ASSUME IInv, Receiver PROVE IInv' /\ ChannelStep
  <1>. USE QueuesAssumption DEF IInv
  <1>1. /\ q \in Seq(Message) /\ sent \in Seq(Message) /\ got \in Seq(Message)
        /\ Len(q) \in Nat /\ Len(got) \in Nat /\ i \in 0 .. COUNT /\ j \in 0 .. COUNT
        /\ stale \in Nat /\ kills \in Nat /\ COUNT \in Nat
    BY LenProperties DEF TypeOK, Message
  <1>2. ASSUME NEW n \in Nat, n <= Len(q), Take(n), UNCHANGED <<sent, mode>>, rpc = "loop"
        PROVE  /\ q' \in Seq(Message) /\ got' \in Seq(Message)
               /\ Len(q') = Len(q) - n /\ Len(got') = Len(got) + n
               /\ ChannelStep /\ Order'
    <2>1. sent = got \o q
      BY <1>2 DEF Order, Ended
    <2>2. /\ q' \in Seq(Message) /\ got' \in Seq(Message)
          /\ Len(q') = Len(q) - n /\ Len(got') = Len(got) + n
          /\ sent' = got' \o q' /\ Extends(got, got') /\ Extends(got', sent)
      BY <1>2, <2>1, TakeHolds
    <2>. QED
      BY <1>2, <2>2 DEF ChannelStep, Order
  <1>3. q # <<>> => 1 <= Len(q)
    BY <1>1, EmptySeq
  <1>4. CASE ReceiverOpen
    BY <1>1, <1>4, StillOrder
    DEF ReceiverOpen, TypeOK, Order, Pipe, Counts, Loop, object, sender, history, Ended
  <1>5. CASE ReadPipe
    <2>. DEFINE n == IF Len(q) < READ THEN Len(q) ELSE READ
    <2>1. n \in Nat /\ n <= Len(q)
      BY <1>1
    <2>2. Take(n) /\ rpc = "loop" /\ UNCHANGED <<sent, mode>>
      BY <1>5 DEF ReadPipe, history
    <2>. HIDE DEF n
    <2>3. q' \in Seq(Message) /\ got' \in Seq(Message) /\ ChannelStep /\ Order'
      BY <1>2, <2>1, <2>2
    <2>. QED
      BY <1>1, <1>5, <2>3
      DEF ReadPipe, TypeOK, Pipe, Counts, Loop, sender, history, Ended, Message
  <1>6. CASE EndOfPipe
    BY <1>1, <1>6, StillOrder
    DEF EndOfPipe, TypeOK, Order, Pipe, Counts, Loop, object, sender, history, Ended
  <1>7. CASE MqReceive
    <2>1. Take(1) /\ rpc = "loop" /\ UNCHANGED <<sent, mode>> /\ 1 <= Len(q)
      BY <1>3, <1>7 DEF MqReceive, history
    <2>2. /\ q' \in Seq(Message) /\ got' \in Seq(Message) /\ Len(q') = Len(q) - 1
          /\ ChannelStep /\ Order'
      BY <1>2, <2>1
    <2>. QED
      BY <1>1, <1>7, <2>2
      DEF MqReceive, TypeOK, Pipe, Counts, Loop, sender, history, Ended, Message
  <1>8. CASE MqTimeout
    BY <1>1, <1>8, StillOrder
    DEF MqTimeout, TypeOK, Order, Pipe, Counts, Loop, object, sender, history, Ended
  <1>9. CASE MsgRcv
    <2>1. Take(1) /\ rpc = "loop" /\ UNCHANGED <<sent, mode>> /\ 1 <= Len(q)
      BY <1>3, <1>9 DEF MsgRcv, history
    <2>2. /\ q' \in Seq(Message) /\ got' \in Seq(Message) /\ Len(got') = Len(got) + 1
          /\ ChannelStep /\ Order'
      BY <1>2, <2>1
    <2>3. j < COUNT /\ Len(got) = j
      BY <1>9 DEF MsgRcv, Counts
    <2>4. Counts' /\ Pipe' /\ Loop'
      BY <1>1, <1>9, <2>2, <2>3 DEF MsgRcv, Counts, Pipe, Loop, sender, history
    <2>5. TypeOK'
      BY <1>1, <1>9, <2>2, <2>3 DEF MsgRcv, TypeOK, sender, history, Message
    <2>. QED
      BY <2>2, <2>4, <2>5
  <1>10. CASE MsgRemove
    <2>1. <<>> \in Seq(Message)
      BY EmptySeq
    <2>. QED
      BY <1>1, <1>10, <2>1, StillOrder
      DEF MsgRemove, TypeOK, Order, Pipe, Counts, Loop, sender, history, Ended, Message
  <1>. QED
    BY <1>4, <1>5, <1>6, <1>7, <1>8, <1>9, <1>10 DEF Receiver

LEMMA NextHolds == IInv /\ [Next]_vars => IInv' /\ (ChannelStep \/ UNCHANGED <<sent, got>>)
  <1>. SUFFICES ASSUME IInv, [Next]_vars
                PROVE  IInv' /\ (ChannelStep \/ UNCHANGED <<sent, got>>)
    OBVIOUS
  <1>. USE DEF IInv
  <1>1. i \in 0 .. COUNT /\ kills \in Nat /\ COUNT \in Nat
    BY QueuesAssumption DEF TypeOK
  <1>2. CASE OpenPipe
    BY <1>1, <1>2, StillOrder
    DEF OpenPipe, TypeOK, Order, Pipe, Counts, Loop, object, history, Ended
  <1>3. CASE GiveUp
    BY <1>1, <1>3, StillOrder
    DEF GiveUp, TypeOK, Order, Pipe, Counts, Loop, object, history, Ended
  <1>4. CASE Kill
    <2>1. /\ kills' = kills + 1 /\ kills < MaxKills /\ MaxKills \in Nat
          /\ UNCHANGED <<exists, attr, q, sent, i, j, got, mode, stale>>
      BY <1>4, QueuesAssumption DEF Kill, object
    <2>2. \/ spc \notin Ended /\ spc' = "killed" /\ UNCHANGED rpc
          \/ rpc \notin Ended /\ rpc' = "killed" /\ UNCHANGED spc
      BY <1>4 DEF Kill
    <2>3. TypeOK'
      BY <1>1, <2>1, <2>2 DEF TypeOK
    <2>4. Order' /\ ChannelStep
      BY <2>1, <2>2, StillOrder DEF Order, Ended
    <2>5. Pipe'
      BY <1>1, <2>1, <2>2 DEF Pipe, Ended
    <2>6. Counts' /\ Loop'
      BY <2>1, <2>2 DEF Counts, Loop
    <2>. QED
      BY <2>3, <2>4, <2>5, <2>6
  <1>5. CASE UNCHANGED vars
    <2>1. Extends(got', sent')
      BY <1>5, StillOrder DEF vars
    <2>. QED
      BY <1>5, <2>1 DEF vars, TypeOK, Order, Pipe, Counts, Loop, Ended
  <1>. QED
    BY <1>2, <1>3, <1>4, <1>5, SenderHolds, ReceiverHolds DEF Next

LEMMA Invariance == Spec => []IInv
  BY InitHolds, NextHolds, PTL DEF Spec

-----------------------------------------------------------------------------
(* The theorems.                                                           *)

\* Types; no more than mq_maxmsg messages are in the POSIX queue (line 91).
THEOREM TypeCorrect == Spec => []TypeOK
  <1>1. IInv => TypeOK
    BY DEF IInv
  <1>. QED
    BY <1>1, Invariance, PTL

\* The loop that reads the pipe (ex26_receiver.c:73) leaves nothing unread.
THEOREM PipeIsReadToTheEnd == Spec => []PipeReadToTheEnd
  <1>1. IInv => PipeReadToTheEnd
    <2>. SUFFICES ASSUME IInv, mode = "FIFO", rpc = "done"
                  PROVE  got = sent /\ (kills = 0 /\ sent # <<>> => i = COUNT)
      BY DEF PipeReadToTheEnd
    <2>1. sent = got \o q /\ q = <<>> /\ (kills = 0 /\ sent # <<>> => i = COUNT)
      BY DEF IInv, Order, Pipe
    <2>2. got \in Seq(Message)
      BY DEF IInv, TypeOK, Message
    <2>3. got \o <<>> = got
      BY <2>2, ConcatEmptySeq
    <2>. QED
      BY <2>1, <2>3
  <1>. QED
    BY <1>1, Invariance, PTL

\* Whatever is killed or fails, the three builds implement an ordered channel:
\* each step extends what was sent, or what was received by more of it.
THEOREM ImplementsChannel == Spec => ChannelSpec
  <1>1. Init => ToChannel!Init
    BY InitHolds DEF IInv, Order, Extends, ToChannel!Init
  <1>2. IInv /\ [Next]_vars => [ToChannel!Next]_<<sent, got>>
    BY NextHolds
    DEF ChannelStep, Extends, ToChannel!Next, ToChannel!Send, ToChannel!Receive
  <1>. QED
    BY <1>1, <1>2, Invariance, PTL DEF Spec, ChannelSpec, ToChannel!Spec

-----------------------------------------------------------------------------
(* Nobody waits in vain.                                                   *)

\* With nothing left by an earlier run mq_send (ex26_sender.c:106) never finds the
\* queue full, and msgrcv (ex26_receiver.c:139) never waits when all messages have
\* been sent: what SenderEnds and ReceiverEnds rest on.
NobodyInVain ==
    /\ mode = "XQUEUE" /\ stale = 0 /\ spc = "loop" => Len(q) < CAPACITY
    /\ mode = "VQUEUE" /\ rpc = "loop" /\ i = COUNT => q # <<>>

\* A message is queued by a send only, and each send queues one, with the next
\* number: the System V queue is there from the sender's open until the receiver
\* is done.
Arrived ==
    /\ mode = "XQUEUE" => Len(q) <= stale + i
    /\ mode = "VQUEUE" /\ rpc # "done" =>
          /\ Len(sent) = stale + i /\ (spc = "loop" => exists = 1)
          /\ \A n \in 1 .. Len(sent) : sent[n] = IF n <= stale THEN 0 ELSE n - stale

LEMMA InitArrived == Init => Arrived
  <1>. SUFFICES ASSUME Init PROVE Arrived
    OBVIOUS
  <1>1. q \in Seq({0}) /\ Len(q) = stale /\ stale \in Nat
    BY RepeatIsSeq, QueuesAssumption DEF Init
  <1>2. sent = q /\ i = 0 /\ spc = "open"
    BY DEF Init
  <1>3. \A n \in 1 .. Len(sent) : sent[n] \in {0} /\ n <= stale
    BY <1>1, <1>2, ElementOfSeq
  <1>. QED
    BY <1>1, <1>2, <1>3 DEF Arrived

LEMMA NextArrived == IInv /\ Arrived /\ [Next]_vars => Arrived'
  <1>. SUFFICES ASSUME IInv, Arrived, [Next]_vars PROVE Arrived'
    OBVIOUS
  <1>. USE DEF object, sender, receiver, history
  <1>1. /\ stale \in Nat /\ i \in Nat /\ mode \in Modes
        /\ q \in Seq(Message) /\ Len(q) \in Nat /\ Len(sent) \in Nat
        /\ i < COUNT /\ spc = "loop" => i + 1 \in 0 .. COUNT
    <2>1. /\ q \in Seq(Message) /\ sent \in Seq(Message) /\ stale \in Nat /\ i \in 0 .. COUNT
          /\ mode \in Modes /\ COUNT \in Nat
      BY QueuesAssumption DEF IInv, TypeOK, Message
    <2>. QED
      BY <2>1, LenProperties
  <1>2. ASSUME NEW n \in Message, Put(<<n>>), UNCHANGED got
        PROVE  Len(q') = Len(q) + 1 /\ Len(sent') = Len(sent) + 1
    <2>1. <<n>> \in Seq(Message) /\ Len(<<n>>) = 1
      OBVIOUS
    <2>. QED
      BY <1>2, <2>1, PutHolds
  <1>3. spc = "loop" => i + 1 \in Message
    BY <1>1 DEF IInv, Loop, Message
  <1>4. CASE MqSend
    <2>1. Len(q') = Len(q) + 1
      BY <1>2, <1>3, <1>4 DEF MqSend
    <2>. QED
      BY <1>1, <1>4, <2>1 DEF MqSend, Arrived
  <1>5. CASE MsgSnd
    <2>1. CASE exists = 1
      <3>1. Len(sent') = Len(sent) + 1
        BY <1>2, <1>3, <1>5, <2>1 DEF MsgSnd
      <3>2. /\ \A n \in 1 .. Len(sent) : sent'[n] = sent[n]
            /\ sent'[Len(sent) + 1] = i + 1
        <4>1. sent' = sent \o <<i + 1>> /\ sent \in Seq(Message)
          BY <1>5, <2>1 DEF MsgSnd, Put, IInv, TypeOK, Message
        <4>. QED
          BY <4>1, <1>1
      <3>3. mode = "VQUEUE" /\ rpc # "done" =>
              \A n \in 1 .. Len(sent') : sent'[n] = IF n <= stale THEN 0 ELSE n - stale
        BY <1>1, <3>1, <3>2 DEF Arrived
      <3>. QED
        BY <1>1, <1>5, <2>1, <3>1, <3>3 DEF MsgSnd, Arrived
    <2>2. CASE exists # 1
      BY <1>5, <2>2 DEF MsgSnd, Arrived
    <2>. QED
      BY <2>1, <2>2
  <1>6. CASE MqReceive
    <2>1. 1 <= Len(q)
      BY <1>1, <1>6, EmptySeq DEF MqReceive
    <2>2. sent = got \o q /\ Take(1) /\ UNCHANGED sent
      BY <1>6 DEF MqReceive, IInv, Order, Ended
    <2>3. Len(q') = Len(q) - 1
      BY <2>1, <2>2, TakeHolds
    <2>. QED
      BY <1>1, <1>6, <2>3 DEF MqReceive, Arrived
  <1>7. CASE OpenPipe \/ SenderOpen \/ Write \/ ReceiverOpen \/ GiveUp \/ Kill
    <2>1. CASE OpenPipe \/ Write
      BY <2>1 DEF OpenPipe, Write, Arrived
    <2>2. CASE SenderOpen
      BY <2>2 DEF SenderOpen, Arrived
    <2>3. CASE ReceiverOpen \/ GiveUp
      BY <2>3 DEF ReceiverOpen, GiveUp, Arrived
    <2>4. CASE Kill
      BY <2>4 DEF Kill, Ended, Arrived
    <2>. QED
      BY <1>7, <2>1, <2>2, <2>3, <2>4
  <1>8. CASE ReadPipe \/ EndOfPipe \/ MqTimeout \/ MsgRcv \/ MsgRemove
    <2>1. CASE ReadPipe \/ EndOfPipe
      BY <2>1 DEF ReadPipe, EndOfPipe, Arrived
    <2>2. CASE MqTimeout \/ MsgRcv \/ MsgRemove
      BY <2>2 DEF MqTimeout, MsgRcv, MsgRemove, Arrived
    <2>. QED
      BY <1>8, <2>1, <2>2
  <1>9. CASE UNCHANGED vars
    BY <1>9 DEF vars, Arrived
  <1>. QED
    BY <1>4, <1>5, <1>6, <1>7, <1>8, <1>9 DEF Next, Sender, Receiver

\* For any number of messages and any capacity that takes them.
THEOREM NobodyWaitsInVain == Spec => []NobodyInVain
  <1>1. IInv /\ Arrived => NobodyInVain
    <2>. SUFFICES ASSUME IInv, Arrived PROVE NobodyInVain
      OBVIOUS
    <2>1. /\ stale \in Nat /\ i \in 0 .. COUNT /\ COUNT \in Nat /\ CAPACITY \in Nat
          /\ COUNT <= CAPACITY /\ j \in Nat
          /\ q \in Seq(Message) /\ got \in Seq(Message)
      BY QueuesAssumption DEF IInv, TypeOK, Message
    <2>2. Len(q) \in Nat /\ Len(got) \in Nat /\ Len(got \o q) = Len(got) + Len(q)
      BY <2>1, LenProperties, ConcatProperties
    <2>3. mode = "XQUEUE" /\ stale = 0 /\ spc = "loop" => Len(q) < CAPACITY
      BY <2>1, <2>2 DEF IInv, Loop, Arrived
    <2>4. ASSUME mode = "VQUEUE", rpc = "loop", i = COUNT PROVE q # <<>>
      <3>1. /\ sent = got \o q /\ Len(sent) = stale + COUNT /\ Len(got) < COUNT
        BY <2>4 DEF IInv, Order, Counts, Arrived, Ended
      <3>2. Len(q) # 0
        BY <2>1, <2>2, <3>1
      <3>. QED
        BY <2>1, <3>2, EmptySeq
    <2>. QED
      BY <2>3, <2>4 DEF NobodyInVain
  <1>. QED
    BY <1>1, InitArrived, NextArrived, Invariance, PTL DEF Spec

\* The receiver that removes the System V queue (ex26_receiver.c:152) has
\* received COUNT messages in order, and loses no more than an earlier run left.
THEOREM QueueRemovedEmpty == Spec => []RemovedWhenEmpty
  <1>1. IInv /\ Arrived => RemovedWhenEmpty
    <2>. SUFFICES ASSUME IInv, Arrived, mode = "VQUEUE", rpc = "remove"
                  PROVE  /\ Len(got) = COUNT /\ Len(q) <= stale
                         /\ \A n \in 1 .. COUNT :
                               got[n] = IF n <= stale THEN 0 ELSE n - stale
      BY DEF RemovedWhenEmpty
    <2>1. /\ Len(got) = COUNT /\ sent = got \o q
          /\ i \in 0 .. COUNT /\ COUNT \in Nat /\ stale \in Nat
          /\ q \in Seq(Message) /\ got \in Seq(Message)
      BY QueuesAssumption DEF IInv, TypeOK, Counts, Order, Ended, Message
    <2>2. /\ Len(sent) = stale + i
          /\ \A n \in 1 .. Len(sent) : sent[n] = IF n <= stale THEN 0 ELSE n - stale
      BY DEF Arrived
    <2>3. /\ Len(got \o q) = Len(got) + Len(q)
          /\ \A n \in 1 .. Len(got) + Len(q) : (got \o q)[n] =
                 IF n <= Len(got) THEN got[n] ELSE q[n - Len(got)]
      BY ONLY <2>1, ConcatProperties
    <2>4. Len(q) \in Nat /\ Len(sent) = COUNT + Len(q) /\ Len(q) <= stale
      BY <2>1, <2>2, <2>3, LenProperties
    <2>5. \A n \in 1 .. COUNT : sent[n] = got[n]
      BY <2>1, <2>3, <2>4
    <2>. QED
      BY <2>1, <2>2, <2>4, <2>5
  <1>. QED
    BY <1>1, InitArrived, NextArrived, Invariance, PTL DEF Spec
=============================================================================
