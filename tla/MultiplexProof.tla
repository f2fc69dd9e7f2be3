---------------------------- MODULE MultiplexProof ----------------------------
(***************************************************************************)
(* Proofs about the echo server of ex29, for every number of clients,      *)
(* rounds and wakeups, every split of the streams and every failure.       *)
(***************************************************************************)
EXTENDS Multiplex, SequenceTheorems, FiniteSetTheorems, WellFoundedInduction, TLAPS

-----------------------------------------------------------------------------
(* The inductive invariant.                                                *)

Open == {c \in Clients : conn[c] = "open"}

\* Each slot but the listener's was paid for by a wakeup, and the connection
\* that waits by the one of now.  select counts the connections that are open.
Slots ==
    /\ fds + (IF Listener \in batch THEN 1 ELSE 0) <= cnt + 1
    /\ mode = "select" /\ spc = "run" =>
           IsFiniteSet(Open) /\ fds = 1 + Cardinality(Open)

\* Where a connection is, on both sides.
Off(c) == /\ conn[c] = "none" /\ c \notin reset /\ round[c] = 0
          /\ got[c] = <<>> /\ toServer[c] = <<>> /\ toClient[c] = <<>>

Places ==
    /\ \A n \in 1 .. Len(queue) :
           /\ conn[queue[n]] = "queued"
           /\ \A m \in 1 .. Len(queue) : m # n => queue[m] # queue[n]
    /\ spc = "run" =>
           /\ Listener \in batch => queue # <<>>
           /\ \A c \in Clients : c \in batch => conn[c] = "open"
    /\ \A c \in Clients :
           /\ pc[c] = "off" => Off(c)
           /\ pc[c] = "refused" => conn[c] = "none"
           /\ c \in reset => Gone(c)
           /\ pc[c] \in {"send", "recv"} => round[c] < ROUNDS

\* What c has sent in r rounds.
Bound(r) == r * (TEXT + 1)

\* All that is on its way to c or from c is its own, and the terminator is
\* always found: what a client sends in all fits into the buffer.
Own ==
    /\ buffer = Zeroed
    /\ \A c \in Clients :
           /\ toServer[c] \in Seq({c, Nul})
           /\ toClient[c] \in Seq({c}) /\ got[c] \in Seq({c})
           /\ Len(toServer[c]) <= Bound(ROUNDS)
           /\ pc[c] = "send" => Len(toServer[c]) <= Bound(round[c])
           /\ pc[c] = "recv" => Len(toServer[c]) <= Bound(round[c] + 1)

\* Without short reads a message is in one place, in full.
Turn(c) ==
    /\ Len(got[c]) = round[c] * TEXT
    /\ pc[c] # "recv" => toServer[c] = <<>> /\ toClient[c] = <<>>
    /\ pc[c] = "recv" => \/ toServer[c] = Message(c) /\ toClient[c] = <<>>
                         \/ toServer[c] = <<>> /\ Len(toClient[c]) = TEXT

Flight ==
    splits = 0 =>
        /\ spc # "killed"
        /\ \A c \in Clients :
               /\ conn[c] \in {"queued", "open"} /\ ~Gone(c) => Turn(c)
               /\ conn[c] \in {"queued", "open"} /\ c \in reset => toServer[c] = <<>>

IInv == TypeOK /\ Slots /\ Places /\ Own /\ Flight

-----------------------------------------------------------------------------
(* Facts about sequences and about the buffer.                             *)

LEMMA Constants ==
    /\ ROUNDS \in Nat /\ ROUNDS > 0 /\ TEXT \in Nat /\ TEXT > 0
    /\ CNT_TRYOUTS \in Nat /\ MAX_FDS \in Nat /\ SIZE_BUFFER \in Nat
    /\ BACKLOG \in Nat /\ MaxSplits \in Nat /\ MaxFaults \in Nat
    /\ CNT_TRYOUTS + 1 < MAX_FDS
    /\ Listener \notin Clients /\ Nul \notin Clients
    /\ Modes \subseteq AllModes
  BY MultiplexAssumption

\* The multiplications the prover is told of once: what is sent grows with the
\* rounds and is shorter than the buffer.
LEMMA Bounds ==
    /\ Bound(0) = 0 /\ Bound(ROUNDS) \in Nat /\ Bound(ROUNDS) < SIZE_BUFFER
    /\ \A r \in Nat :
           /\ Bound(r) \in Nat
           /\ Bound(r + 1) = Bound(r) + TEXT + 1
           /\ r <= ROUNDS => Bound(r) <= Bound(ROUNDS)
           /\ r < ROUNDS => Bound(r + 1) <= Bound(ROUNDS)
  <1>1. TEXT + 1 \in Nat /\ ROUNDS \in Nat
    BY Constants
  <1>2. ASSUME NEW r \in Nat, NEW t \in Nat
        PROVE  r * t \in Nat /\ (r + 1) * t = r * t + t
    OBVIOUS
  <1>3. ASSUME NEW r \in Nat, NEW q \in Nat, NEW t \in Nat, r <= q
        PROVE  r * t <= q * t
    <2>1. PICK d \in Nat : q = r + d
      BY <1>3
    <2>2. q * t = r * t + d * t /\ d * t \in Nat /\ r * t \in Nat
      BY <2>1
    <2>. QED
      BY <2>2
  <1>4. ROUNDS * (TEXT + 1) < SIZE_BUFFER
    BY MultiplexAssumption
  <1>5. ASSUME NEW r \in Nat
        PROVE  Bound(r) \in Nat /\ Bound(r + 1) = Bound(r) + TEXT + 1
    BY <1>1, <1>2, Constants DEF Bound
  <1>6. ASSUME NEW r \in Nat, r <= ROUNDS
        PROVE  Bound(r) <= Bound(ROUNDS)
    BY <1>1, <1>3, <1>6 DEF Bound
  <1>7. ASSUME NEW r \in Nat, r < ROUNDS
        PROVE  Bound(r + 1) <= Bound(ROUNDS)
    BY <1>1, <1>6, <1>7
  <1>8. Bound(0) = 0
    BY <1>1 DEF Bound
  <1>9. Bound(ROUNDS) \in Nat /\ Bound(ROUNDS) < SIZE_BUFFER
    BY <1>1, <1>4, <1>5 DEF Bound
  <1>. QED
    BY <1>5, <1>6, <1>7, <1>8, <1>9

\* One more in a queue.
LEMMA OneMore ==
    ASSUME NEW S, NEW s \in Seq(S), NEW e \in S
    PROVE  /\ Append(s, e) \in Seq(S) /\ Append(s, e) # <<>>
           /\ Len(s) \in Nat /\ Len(Append(s, e)) = Len(s) + 1
           /\ Append(s, e)[Len(s) + 1] = e
           /\ \A n \in 1 .. Len(s) : Append(s, e)[n] = s[n]
  OBVIOUS

\* One less in a queue.
LEMMA OneLess ==
    ASSUME NEW S, NEW s \in Seq(S), s # <<>>
    PROVE  /\ Head(s) \in S /\ Head(s) = s[1] /\ Tail(s) \in Seq(S)
           /\ Len(s) \in Nat /\ Len(s) > 0 /\ Len(Tail(s)) = Len(s) - 1
           /\ \A n \in 1 .. Len(Tail(s)) : Tail(s)[n] = s[n + 1]
  OBVIOUS

LEMMA Nothing == ASSUME NEW S PROVE <<>> \in Seq(S) /\ Len(<<>>) = 0
  OBVIOUS

LEMMA NotEmpty ==
    ASSUME NEW S, NEW s \in Seq(S)
    PROVE  Len(s) \in Nat /\ (s = <<>> <=> Len(s) = 0)
  BY LenProperties, EmptySeq

\* What a recv takes and what it leaves.
LEMMA Cut ==
    ASSUME NEW S, NEW s \in Seq(S), NEW k \in 1 .. Len(s)
    PROVE  /\ SubSeq(s, 1, k) \in Seq(S) /\ Len(SubSeq(s, 1, k)) = k
           /\ From(s, k) \in Seq(S) /\ Len(From(s, k)) = Len(s) - k
           /\ k = Len(s) => SubSeq(s, 1, k) = s /\ From(s, k) = <<>>
  <1>1. Len(s) \in Nat /\ \A i \in 1 .. Len(s) : s[i] \in S
    BY LenProperties, ElementOfSeq
  <1>2. SubSeq(s, 1, k) \in Seq(S) /\ Len(SubSeq(s, 1, k)) = k
    <2>1. \A i \in 1 .. k : s[i] \in S
      BY <1>1
    <2>. QED
      BY <2>1, <1>1, SubSeqProperties
  <1>3. From(s, k) \in Seq(S) /\ Len(From(s, k)) = Len(s) - k
    <2>1. \A i \in k + 1 .. Len(s) : s[i] \in S
      BY <1>1
    <2>2. /\ SubSeq(s, k + 1, Len(s)) \in Seq(S)
          /\ Len(SubSeq(s, k + 1, Len(s)))
                 = IF k + 1 <= Len(s) THEN Len(s) - (k + 1) + 1 ELSE 0
      BY <2>1, <1>1, SubSeqProperties
    <2>. QED
      BY <2>2, <1>1 DEF From
  <1>4. k = Len(s) => SubSeq(s, 1, k) = s
    BY SubSeqFull
  <1>5. k = Len(s) => From(s, k) = <<>>
    BY <1>1, <1>3, NotEmpty
  <1>. QED
    BY <1>2, <1>3, <1>4, <1>5

LEMMA Joined ==
    ASSUME NEW S, NEW s \in Seq(S), NEW t \in Seq(S)
    PROVE  /\ s \o t \in Seq(S) /\ Len(s \o t) = Len(s) + Len(t)
           /\ s = <<>> => s \o t = t
           /\ t = <<>> => s \o t = s
  BY ConcatProperties, ConcatEmptySeq

\* A sequence over {c} is one over any set that has c.
LEMMA Wider ==
    ASSUME NEW c \in Clients, NEW s
    PROVE  /\ s \in Seq({c}) => s \in Seq(Clients)
           /\ s \in Seq({c, Nul}) => s \in Seq(Clients \cup {Nul})
  <1>1. {c} \subseteq Clients /\ {c, Nul} \subseteq Clients \cup {Nul}
    OBVIOUS
  <1>. QED
    BY <1>1, SeqMonotonic

LEMMA MessageIs ==
    ASSUME NEW c \in Clients
    PROVE  /\ Message(c) \in Seq({c, Nul}) /\ Len(Message(c)) = TEXT + 1
           /\ Message(c) # <<>>
           /\ \A n \in 1 .. TEXT + 1 : Message(c)[n] = IF n <= TEXT THEN c ELSE Nul
  <1>1. TEXT + 1 \in Nat /\ TEXT + 1 > 0
    BY Constants
  <1>2. Message(c) \in [1 .. TEXT + 1 -> {c, Nul}]
    BY DEF Message
  <1>3. Message(c) \in Seq({c, Nul}) /\ Len(Message(c)) = TEXT + 1
    BY <1>1, <1>2
  <1>. QED
    BY <1>1, <1>3, NotEmpty DEF Message

\* The least of a set of numbers.
LEMMA Least ==
    ASSUME NEW T, T \subseteq Nat, T # {}
    PROVE  \E x \in T : \A y \in T : ~(y < x)
  <1>. DEFINE R == {ss \in Nat \X Nat : ss[1] < ss[2]}
  <1>1. IsWellFoundedOn(R, Nat)
    BY ONLY NatLessThanWellFounded, Zenon DEF OpToRel
  <1>2. ASSUME NEW x \in Nat, NEW y \in Nat, y < x
        PROVE  <<y, x>> \in R
    BY ONLY x \in Nat, y \in Nat, y < x
  <1>. HIDE DEF R
  <1>3. PICK x \in T : \A y \in T : ~(<<y, x>> \in R)
    BY <1>1, WFMin
  <1>. QED
    BY <1>2, <1>3

\* strlen stops at the first Nul.
LEMMA CStringIs ==
    ASSUME NEW b, \E n \in 1 .. SIZE_BUFFER : b[n] = Nul
    PROVE  \E e \in 1 .. SIZE_BUFFER :
               /\ b[e] = Nul /\ \A m \in 1 .. e - 1 : b[m] # Nul
               /\ CString(b) = SubSeq(b, 1, e - 1)
  <1>. DEFINE End(n) == b[n] = Nul /\ \A m \in 1 .. n - 1 : b[m] # Nul
              T == {n \in 1 .. SIZE_BUFFER : b[n] = Nul}
  <1>0. SIZE_BUFFER \in Nat
    BY Constants
  <1>1. T \subseteq Nat /\ T # {}
    BY <1>0
  <1>2. PICK x \in T : \A y \in T : ~(y < x)
    <2>. HIDE DEF T
    <2>. QED
      BY <1>1, Least
  <1>3. x \in 1 .. SIZE_BUFFER /\ End(x)
    BY <1>0, <1>2
  <1>4. CString(b) = SubSeq(b, 1, (CHOOSE n \in 1 .. SIZE_BUFFER : End(n)) - 1)
    BY DEF CString
  <1>5. /\ (CHOOSE n \in 1 .. SIZE_BUFFER : End(n)) \in 1 .. SIZE_BUFFER
        /\ End(CHOOSE n \in 1 .. SIZE_BUFFER : End(n))
    <2>. HIDE DEF End
    <2>. QED
      BY <1>3
  <1>. QED
    BY <1>4, <1>5

\* A client's own text comes out of the buffer, whatever part of it came in.
LEMMA TextOf ==
    ASSUME buffer = Zeroed, NEW c \in Clients,
           NEW s \in Seq({c, Nul}), Len(s) < SIZE_BUFFER
    PROVE  CString(Filled(s)) \in Seq({c})
  <1>. DEFINE b == Filled(s)
  <1>1. Len(s) \in Nat /\ \A i \in 1 .. Len(s) : s[i] \in {c, Nul}
    BY LenProperties, ElementOfSeq
  <1>2. \A n \in 1 .. SIZE_BUFFER : b[n] = IF n <= Len(s) THEN s[n] ELSE Nul
    BY DEF Filled, Zeroed
  <1>3. Len(s) + 1 \in 1 .. SIZE_BUFFER
    BY <1>1, Constants
  <1>. HIDE DEF b
  <1>4. b[Len(s) + 1] = Nul
    BY <1>1, <1>2, <1>3
  <1>5. \E n \in 1 .. SIZE_BUFFER : b[n] = Nul
    BY <1>3, <1>4
  <1>6. PICK e \in 1 .. SIZE_BUFFER :
               /\ b[e] = Nul /\ \A m \in 1 .. e - 1 : b[m] # Nul
               /\ CString(b) = SubSeq(b, 1, e - 1)
    BY <1>5, CStringIs
  <1>7. \A m \in 1 .. e - 1 : b[m] \in {c}
    BY <1>1, <1>2, <1>6, Constants
  <1>8. SubSeq(b, 1, e - 1) \in Seq({c})
    BY <1>7, Constants, SubSeqProperties
  <1>. QED
    BY <1>6, <1>8 DEF b

LEMMA TextOfMessage ==
    ASSUME buffer = Zeroed, NEW c \in Clients, TEXT + 1 < SIZE_BUFFER
    PROVE  Len(CString(Filled(Message(c)))) = TEXT
  <1>. DEFINE b == Filled(Message(c))
  <1>1. TEXT \in Nat /\ SIZE_BUFFER \in Nat /\ c # Nul
    BY Constants
  <1>2. \A n \in 1 .. SIZE_BUFFER : b[n] = IF n <= TEXT THEN c ELSE Nul
    <2>1. ASSUME NEW n \in 1 .. SIZE_BUFFER
          PROVE  b[n] = IF n <= TEXT THEN c ELSE Nul
      <3>1. b[n] = IF n <= TEXT + 1 THEN Message(c)[n] ELSE Nul
        BY MessageIs DEF Filled, Zeroed
      <3>2. n <= TEXT + 1 => n \in 1 .. TEXT + 1
        BY <1>1
      <3>3. n <= TEXT => n <= TEXT + 1
        BY <1>1
      <3>. HIDE DEF b
      <3>. QED
        BY <3>1, <3>2, <3>3, MessageIs
    <2>. QED
      BY <2>1
  <1>. HIDE DEF b
  <1>3. TEXT + 1 \in 1 .. SIZE_BUFFER /\ b[TEXT + 1] = Nul
    BY <1>1, <1>2
  <1>4. PICK e \in 1 .. SIZE_BUFFER :
               /\ b[e] = Nul /\ \A m \in 1 .. e - 1 : b[m] # Nul
               /\ CString(b) = SubSeq(b, 1, e - 1)
    BY <1>3, CStringIs
  <1>5. e = TEXT + 1
    BY <1>1, <1>2, <1>3, <1>4
  <1>6. \A m \in 1 .. e - 1 : b[m] \in {c}
    BY <1>1, <1>2, <1>5
  <1>7. Len(SubSeq(b, 1, e - 1)) = IF 1 <= e - 1 THEN (e - 1) - 1 + 1 ELSE 0
    BY <1>6, SubSeqProperties
  <1>. QED
    BY <1>1, <1>4, <1>5, <1>7 DEF b

-----------------------------------------------------------------------------
(* Each action keeps the invariant.                                        *)

LEMMA ConnectKeeps ==
    ASSUME IInv, NEW c \in Clients, Connect(c)
    PROVE  IInv'
  <1>1. /\ pc[c] = "off" /\ Off(c) /\ c \notin reset
        /\ pc \in [Clients -> {"off", "send", "recv", "done", "killed", "refused"}]
        /\ conn \in [Clients -> {"none", "queued", "open", "closed"}]
        /\ queue \in Seq(Clients)
    BY DEF Connect, IInv, Places, Off, TypeOK
  <1>2. /\ UNCHANGED <<mode, spc, cnt, fds, batch, buffer, toServer, toClient,
                       reset, round, got, splits, faults>>
        /\ Open' = {x \in Clients : conn'[x] = "open"}
    BY DEF Connect, server, wires, Open
  <1>3. CASE spc = "run"
    <2>1. /\ queue' = Append(queue, c)
          /\ conn' = [conn EXCEPT ![c] = "queued"]
          /\ pc' = [pc EXCEPT ![c] = "send"]
      BY <1>3 DEF Connect
    <2>2. /\ queue' \in Seq(Clients) /\ queue' # <<>>
          /\ Len(queue) \in Nat /\ Len(queue') = Len(queue) + 1
          /\ queue'[Len(queue) + 1] = c
          /\ \A n \in 1 .. Len(queue) : queue'[n] = queue[n]
      BY <1>1, <2>1, OneMore
    <2>3. TypeOK'
      BY <1>1, <1>2, <2>1, <2>2 DEF IInv, TypeOK
    <2>4. Open' = Open
      BY <1>1, <1>2, <2>1 DEF Off, Open
    <2>5. Slots'
      BY <1>2, <2>4 DEF IInv, Slots
    <2>6. Places'
      <3>1. \A n \in 1 .. Len(queue) : queue[n] # c
        BY <1>1 DEF IInv, Places, Off
      <3>2. \A n \in 1 .. Len(queue') :
               /\ conn'[queue'[n]] = "queued"
               /\ \A m \in 1 .. Len(queue') : m # n => queue'[m] # queue'[n]
        <4>1. \A n \in 1 .. Len(queue) : queue[n] \in Clients
          BY <1>1, ElementOfSeq
        <4>2. \A n \in 1 .. Len(queue') : n \in 1 .. Len(queue) \/ n = Len(queue) + 1
          BY <2>2
        <4>3. \A n \in 1 .. Len(queue) :
                 /\ conn[queue[n]] = "queued"
                 /\ \A m \in 1 .. Len(queue) : m # n => queue[m] # queue[n]
          BY DEF IInv, Places
        <4>. QED
          BY <1>1, <2>1, <2>2, <3>1, <4>1, <4>2, <4>3
      <3>3. \A x \in Clients : x \in batch' => conn'[x] = "open"
        BY <1>1, <1>2, <1>3, <2>1 DEF IInv, Places, Off
      <3>4. \A x \in Clients :
               /\ pc'[x] = "off" => Off(x)'
               /\ pc'[x] = "refused" => conn'[x] = "none"
               /\ x \in reset' => Gone(x)'
               /\ pc'[x] \in {"send", "recv"} => round'[x] < ROUNDS
        BY <1>1, <1>2, <2>1, Constants DEF IInv, Places, Off, Gone
      <3>. QED
        BY <2>2, <3>2, <3>3, <3>4 DEF Places
    <2>7. Own'
      <3>1. pc'[c] = "send" /\ round'[c] = 0 /\ toServer'[c] = <<>>
        BY <1>1, <1>2, <2>1 DEF Off
      <3>2. Len(toServer'[c]) <= Bound(round'[c])
        BY <3>1, Bounds, Nothing
      <3>. QED
        BY <1>1, <1>2, <2>1, <3>1, <3>2 DEF IInv, Own, Zeroed
    <2>8. Flight'
      <3>1. Turn(c)'
        <4>1. 0 * TEXT = 0
          BY Constants
        <4>2. /\ pc'[c] = "send" /\ round'[c] = 0 /\ toServer'[c] = <<>>
              /\ toClient'[c] = <<>> /\ got'[c] = <<>>
          BY <1>1, <1>2, <2>1 DEF Off
        <4>. QED
          BY <4>1, <4>2, Nothing DEF Turn
      <3>2. ASSUME NEW x \in Clients, x # c
            PROVE  /\ conn'[x] = conn[x] /\ Gone(x)' = Gone(x) /\ Turn(x)' = Turn(x)
                   /\ toServer'[x] = toServer[x]
        BY <1>1, <1>2, <2>1, <3>2 DEF Gone, Turn, Message
      <3>. QED
        BY <1>1, <1>2, <2>1, <3>1, <3>2 DEF IInv, Flight
    <2>. QED
      BY <2>3, <2>5, <2>6, <2>7, <2>8 DEF IInv
  <1>4. CASE spc # "run"
    <2>1. pc' = [pc EXCEPT ![c] = "refused"] /\ UNCHANGED <<queue, conn>>
      BY <1>4 DEF Connect
    <2>2. TypeOK'
      BY <1>1, <1>2, <2>1 DEF IInv, TypeOK
    <2>3. Slots'
      BY <1>2, <1>4 DEF IInv, Slots
    <2>4. Places'
      BY <1>1, <1>2, <1>4, <2>1 DEF IInv, Places, Off, Gone
    <2>5. Own'
      BY <1>1, <1>2, <2>1 DEF IInv, Own, Zeroed
    <2>6. Flight'
      <3>1. ASSUME NEW x \in Clients, x # c
            PROVE  Gone(x)' = Gone(x) /\ Turn(x)' = Turn(x)
        BY <1>1, <1>2, <2>1, <3>1 DEF Gone, Turn, Message
      <3>. QED
        BY <1>1, <1>2, <2>1, <3>1 DEF IInv, Flight, Off
    <2>. QED
      BY <2>2, <2>3, <2>4, <2>5, <2>6 DEF IInv
  <1>. QED
    BY <1>3, <1>4

\* What a step of one client leaves as it was.
Untouched(x) ==
    /\ pc'[x] = pc[x] /\ round'[x] = round[x] /\ got'[x] = got[x]
    /\ toServer'[x] = toServer[x] /\ toClient'[x] = toClient[x]
    /\ x \in reset' <=> x \in reset

\* A step of client c that leaves the server's side alone: the rest is about c.
LEMMA OneClient ==
    ASSUME IInv, NEW c \in Clients, TypeOK',
           UNCHANGED <<mode, server, queue, conn>>,
           splits' = 0 => splits = 0,
           \A x \in Clients : x # c => Untouched(x),
           pc[c] \in {"send", "recv"}, pc'[c] \notin {"off", "refused"},
           c \in reset' => Gone(c)',
           pc'[c] \in {"send", "recv"} => round'[c] < ROUNDS,
           toServer'[c] \in Seq({c, Nul}),
           toClient'[c] \in Seq({c}), got'[c] \in Seq({c}),
           Len(toServer'[c]) <= Bound(ROUNDS),
           pc'[c] = "send" => Len(toServer'[c]) <= Bound(round'[c]),
           pc'[c] = "recv" => Len(toServer'[c]) <= Bound(round'[c] + 1),
           splits' = 0 /\ conn[c] \in {"queued", "open"} /\ ~Gone(c)' => Turn(c)',
           splits' = 0 /\ conn[c] \in {"queued", "open"} /\ c \in reset' => toServer'[c] = <<>>
    PROVE  IInv'
  <1>1. Slots'
    BY DEF IInv, Slots, Open, server
  <1>2. Places'
    <2>1. \A n \in 1 .. Len(queue') :
               /\ conn'[queue'[n]] = "queued"
               /\ \A m \in 1 .. Len(queue') : m # n => queue'[m] # queue'[n]
      BY DEF IInv, Places
    <2>2. spc' = "run" =>
               /\ Listener \in batch' => queue' # <<>>
               /\ \A x \in Clients : x \in batch' => conn'[x] = "open"
      BY DEF IInv, Places, server
    <2>3. ASSUME NEW x \in Clients
          PROVE  /\ pc'[x] = "off" => Off(x)'
                 /\ pc'[x] = "refused" => conn'[x] = "none"
                 /\ x \in reset' => Gone(x)'
                 /\ pc'[x] \in {"send", "recv"} => round'[x] < ROUNDS
      <3>1. CASE x = c
        BY <3>1
      <3>2. CASE x # c
        BY <3>2 DEF IInv, Places, Untouched, Off, Gone
      <3>. QED
        BY <3>1, <3>2
    <2>. QED
      BY <2>1, <2>2, <2>3 DEF Places
  <1>3. Own'
    BY DEF IInv, Own, Untouched, Zeroed, server
  <1>4. Flight'
    <2>1. ASSUME NEW x \in Clients, x # c
          PROVE  Gone(x)' = Gone(x) /\ Turn(x)' = Turn(x)
      BY <2>1 DEF Untouched, Gone, Turn, Message
    <2>. QED
      BY <2>1 DEF IInv, Flight, Untouched, server
  <1>. QED
    BY <1>1, <1>2, <1>3, <1>4 DEF IInv

LEMMA ClientSendKeeps ==
    ASSUME IInv, NEW c \in Clients, ClientSend(c)
    PROVE  IInv'
  <1>1. /\ pc[c] = "send" /\ round[c] \in 0 .. ROUNDS /\ round[c] < ROUNDS
        /\ c \notin reset /\ ~Gone(c)
        /\ pc \in [Clients -> {"off", "send", "recv", "done", "killed", "refused"}]
        /\ toServer \in [Clients -> Seq(Clients \cup {Nul})]
        /\ toServer[c] \in Seq({c, Nul}) /\ Len(toServer[c]) <= Bound(round[c])
        /\ toClient[c] \in Seq({c}) /\ got[c] \in Seq({c})
        /\ Len(toServer[c]) <= Bound(ROUNDS)
    BY DEF ClientSend, IInv, Places, Own, TypeOK, Gone
  <1>2. UNCHANGED <<mode, server, queue, conn, toClient, reset, round, got,
                    splits, faults>>
    BY DEF ClientSend
  <1>3. CASE conn[c] = "closed"
    <2>1. /\ \E l \in {"recv", "killed"} : pc' = [pc EXCEPT ![c] = l]
          /\ UNCHANGED toServer
      BY <1>3 DEF ClientSend
    <2>2. TypeOK'
      BY <1>1, <1>2, <2>1 DEF IInv, TypeOK, server
    <2>3. /\ pc'[c] \in {"recv", "killed"} /\ toServer'[c] = toServer[c]
          /\ \A x \in Clients : x # c => Untouched(x)
      BY <1>1, <1>2, <2>1 DEF Untouched
    <2>4. Len(toServer[c]) <= Bound(round[c] + 1)
      <3>1. Len(toServer[c]) \in Nat
        BY <1>1, NotEmpty
      <3>2. ASSUME NEW r \in Nat
            PROVE  Bound(r) \in Nat /\ Bound(r + 1) = Bound(r) + TEXT + 1
        BY <3>2, Bounds
      <3>3. round[c] \in Nat
        BY <1>1, Constants
      <3>4. Bound(round[c]) \in Nat /\ Bound(round[c] + 1) = Bound(round[c]) + TEXT + 1
        BY <3>2, <3>3
      <3>. QED
        BY <1>1, <3>1, <3>4, Constants
    <2>. QED
      BY <1>1, <1>2, <1>3, <2>2, <2>3, <2>4, OneClient
  <1>4. CASE conn[c] # "closed"
    <2>1. /\ pc' = [pc EXCEPT ![c] = "recv"]
          /\ toServer' = [toServer EXCEPT ![c] = @ \o Message(c)]
      BY <1>4 DEF ClientSend
    <2>2. /\ toServer'[c] = toServer[c] \o Message(c) /\ pc'[c] = "recv"
          /\ \A x \in Clients : x # c => Untouched(x)
      BY <1>1, <1>2, <2>1 DEF Untouched
    <2>3. /\ toServer'[c] \in Seq({c, Nul})
          /\ Len(toServer'[c]) = Len(toServer[c]) + TEXT + 1
          /\ toServer[c] = <<>> => toServer'[c] = Message(c)
      <3>. DEFINE s == toServer[c]
                  m == Message(c)
      <3>0. s \in Seq({c, Nul}) /\ m \in Seq({c, Nul}) /\ toServer'[c] = s \o m
        BY <1>1, <2>2, MessageIs
      <3>1. /\ toServer'[c] \in Seq({c, Nul})
            /\ Len(toServer'[c]) = Len(toServer[c]) + Len(Message(c))
            /\ toServer[c] = <<>> => toServer'[c] = Message(c)
        <4>. HIDE DEF s, m
        <4>1. /\ s \o m \in Seq({c, Nul}) /\ Len(s \o m) = Len(s) + Len(m)
              /\ s = <<>> => s \o m = m
          BY <3>0, Joined
        <4>. QED
          BY <3>0, <4>1 DEF s, m
      <3>2. Len(toServer[c]) \in Nat
        BY <1>1, NotEmpty
      <3>. QED
        BY <3>1, <3>2, MessageIs, Constants
    <2>4. /\ Len(toServer'[c]) <= Bound(round[c] + 1)
          /\ Len(toServer'[c]) <= Bound(ROUNDS)
      <3>1. Len(toServer[c]) \in Nat
        BY <1>1, NotEmpty
      <3>2. /\ round[c] \in Nat /\ Bound(round[c]) \in Nat
            /\ Bound(round[c] + 1) = Bound(round[c]) + TEXT + 1
            /\ Bound(round[c] + 1) <= Bound(ROUNDS)
        <4>. DEFINE r == round[c]
        <4>1. r \in Nat /\ r < ROUNDS
          BY <1>1, Constants
        <4>. HIDE DEF r
        <4>2. /\ Bound(r) \in Nat /\ Bound(r + 1) = Bound(r) + TEXT + 1
              /\ Bound(r + 1) <= Bound(ROUNDS)
          BY <4>1, Bounds
        <4>. QED
          BY <4>1, <4>2 DEF r
      <3>3. Bound(ROUNDS) \in Nat /\ TEXT \in Nat
        BY Bounds, Constants
      <3>4. Len(toServer[c]) + TEXT + 1 <= Bound(round[c]) + TEXT + 1
        BY <1>1, <3>1, <3>2, <3>3
      <3>. QED
        BY <2>3, <3>1, <3>2, <3>3, <3>4
    <2>5. TypeOK'
      <3>1. toServer'[c] \in Seq(Clients \cup {Nul})
        BY <2>3, Wider
      <3>. QED
        BY <1>1, <1>2, <2>1, <2>2, <3>1 DEF IInv, TypeOK, server
    <2>6. splits' = 0 /\ conn[c] \in {"queued", "open"} /\ ~Gone(c)' => Turn(c)'
      <3>1. ASSUME splits' = 0, conn[c] \in {"queued", "open"}
            PROVE  /\ Len(got[c]) = round[c] * TEXT
                   /\ toServer[c] = <<>> /\ toClient[c] = <<>>
        BY <1>1, <1>2, <3>1 DEF IInv, Flight, Turn
      <3>. QED
        BY <1>2, <2>2, <2>3, <3>1 DEF Turn, Message
    <2>. QED
      BY <1>1, <1>2, <2>2, <2>3, <2>4, <2>5, <2>6, OneClient
  <1>. QED
    BY <1>3, <1>4

LEMMA ClientKillKeeps ==
    ASSUME IInv, NEW c \in Clients, ClientKill(c)
    PROVE  IInv'
  <1>1. /\ pc[c] \in {"send", "recv"} /\ c \notin reset /\ ~Gone(c)
        /\ pc \in [Clients -> {"off", "send", "recv", "done", "killed", "refused"}]
        /\ toServer[c] \in Seq({c, Nul})
        /\ toClient[c] \in Seq({c}) /\ got[c] \in Seq({c})
        /\ Len(toServer[c]) <= Bound(ROUNDS)
    BY DEF ClientKill, IInv, Places, Own, TypeOK, Gone
  <1>2. /\ UNCHANGED <<mode, server, queue, conn, toServer, toClient, round, got, splits>>
        /\ pc' = [pc EXCEPT ![c] = "killed"]
        /\ faults < MaxFaults /\ faults' = faults + 1
        /\ reset' = IF toClient[c] = <<>> THEN reset ELSE reset \cup {c}
    BY DEF ClientKill, Leave
  <1>3. TypeOK'
    BY <1>1, <1>2, Constants DEF IInv, TypeOK, server
  <1>4. /\ pc'[c] = "killed" /\ Gone(c)' /\ toServer'[c] = toServer[c]
        /\ toClient'[c] = toClient[c] /\ got'[c] = got[c]
        /\ \A x \in Clients : x # c => Untouched(x)
    BY <1>1, <1>2 DEF Untouched, Gone
  <1>5. splits' = 0 /\ conn[c] \in {"queued", "open"} /\ c \in reset' => toServer'[c] = <<>>
    <2>1. ASSUME splits' = 0, conn[c] \in {"queued", "open"}, c \in reset'
          PROVE  toServer[c] = <<>>
      <3>1. toClient[c] # <<>> /\ Turn(c)
        BY <1>1, <1>2, <2>1 DEF IInv, Flight
      <3>. QED
        BY <1>1, <3>1 DEF Turn
    <2>. QED
      BY <1>4, <2>1
  <1>. QED
    BY <1>1, <1>2, <1>3, <1>4, <1>5, OneClient

LEMMA ClientRecvKeeps ==
    ASSUME IInv, NEW c \in Clients, ClientRecv(c)
    PROVE  IInv'
  <1>1. /\ pc[c] = "recv" /\ c \notin reset /\ ~Gone(c)
        /\ round[c] \in 0 .. ROUNDS /\ round[c] < ROUNDS
        /\ pc \in [Clients -> {"off", "send", "recv", "done", "killed", "refused"}]
        /\ round \in [Clients -> 0 .. ROUNDS]
        /\ toClient \in [Clients -> Seq(Clients)] /\ got \in [Clients -> Seq(Clients)]
        /\ splits \in 0 .. MaxSplits
        /\ toServer[c] \in Seq({c, Nul})
        /\ toClient[c] \in Seq({c}) /\ got[c] \in Seq({c})
        /\ Len(toServer[c]) <= Bound(ROUNDS)
        /\ Len(toServer[c]) <= Bound(round[c] + 1)
    BY DEF ClientRecv, IInv, Places, Own, TypeOK, Gone
  <1>2. /\ UNCHANGED <<mode, server, queue, conn, toServer, faults>>
        /\ round' = [round EXCEPT ![c] = @ + 1]
        /\ IF round[c] + 1 < ROUNDS
           THEN pc' = [pc EXCEPT ![c] = "send"] /\ UNCHANGED reset
           ELSE /\ pc' = [pc EXCEPT ![c] = "done"]
                /\ reset' = IF toClient'[c] = <<>> THEN reset ELSE reset \cup {c}
    BY DEF ClientRecv, Leave
  <1>3. /\ got' = [got EXCEPT ![c] = got'[c]] /\ got'[c] \in Seq({c})
        /\ toClient' = [toClient EXCEPT ![c] = toClient'[c]] /\ toClient'[c] \in Seq({c})
        /\ splits' \in 0 .. MaxSplits /\ (splits' = 0 => splits = 0)
        /\ splits' = 0 => \/ /\ got'[c] = got[c] \o toClient[c] /\ toClient'[c] = <<>>
                             /\ toClient[c] # <<>>
                          \/ conn[c] = "closed" /\ toClient[c] = <<>> /\ toClient'[c] = <<>>
    <2>1. CASE \E k \in 1 .. Len(toClient[c]) :
                  /\ Read(Len(toClient[c]), k)
                  /\ got' = [got EXCEPT ![c] = @ \o SubSeq(toClient[c], 1, k)]
                  /\ toClient' = [toClient EXCEPT ![c] = From(@, k)]
      <3>1. PICK k \in 1 .. Len(toClient[c]) :
                  /\ Read(Len(toClient[c]), k)
                  /\ got' = [got EXCEPT ![c] = @ \o SubSeq(toClient[c], 1, k)]
                  /\ toClient' = [toClient EXCEPT ![c] = From(@, k)]
        BY <2>1
      <3>2. /\ got'[c] = got[c] \o SubSeq(toClient[c], 1, k)
            /\ toClient'[c] = From(toClient[c], k)
            /\ got' = [got EXCEPT ![c] = got'[c]]
            /\ toClient' = [toClient EXCEPT ![c] = toClient'[c]]
        BY <1>1, <3>1
      <3>3. /\ SubSeq(toClient[c], 1, k) \in Seq({c}) /\ From(toClient[c], k) \in Seq({c})
            /\ k = Len(toClient[c]) => /\ SubSeq(toClient[c], 1, k) = toClient[c]
                                       /\ From(toClient[c], k) = <<>>
        BY <1>1, Cut
      <3>4. got'[c] \in Seq({c})
        BY <1>1, <3>2, <3>3, Joined
      <3>5. Len(toClient[c]) \in Nat /\ (toClient[c] = <<>> <=> Len(toClient[c]) = 0)
        BY <1>1, NotEmpty
      <3>6. /\ splits' \in 0 .. MaxSplits /\ (splits' = 0 => splits = 0)
            /\ splits' = 0 => k = Len(toClient[c])
        BY <1>1, <3>1, <3>5, Constants DEF Read
      <3>7. splits' = 0 => /\ got'[c] = got[c] \o toClient[c] /\ toClient'[c] = <<>>
                           /\ toClient[c] # <<>>
        <4>1. ASSUME splits' = 0
              PROVE  SubSeq(toClient[c], 1, k) = toClient[c] /\ From(toClient[c], k) = <<>>
          BY <3>3, <3>6, <4>1
        <4>2. toClient[c] # <<>>
          BY <3>5
        <4>. QED
          BY <3>2, <4>1, <4>2
      <3>. QED
        BY <3>2, <3>3, <3>4, <3>6, <3>7
    <2>2. CASE toClient[c] = <<>> /\ conn[c] = "closed" /\ UNCHANGED <<got, toClient, splits>>
      BY <1>1, <2>2
    <2>. QED
      BY <2>1, <2>2 DEF ClientRecv
  <1>4. /\ pc'[c] \in {"send", "done"} /\ round'[c] = round[c] + 1
        /\ pc'[c] = "send" => round'[c] < ROUNDS
        /\ c \in reset' => pc'[c] = "done" /\ toClient'[c] # <<>>
        /\ toServer'[c] = toServer[c]
        /\ Gone(c)' <=> pc'[c] = "done"
    BY <1>1, <1>2 DEF Gone
  <1>5. \A x \in Clients : x # c => Untouched(x)
    BY <1>1, <1>2, <1>3 DEF Untouched
  <1>6. TypeOK'
    <2>1. got'[c] \in Seq(Clients) /\ toClient'[c] \in Seq(Clients)
      BY <1>3, Wider
    <2>2. pc' \in [Clients -> {"off", "send", "recv", "done", "killed", "refused"}]
      BY <1>1, <1>2
    <2>3. round' \in [Clients -> 0 .. ROUNDS]
      BY <1>1, <1>2, Constants
    <2>4. got' \in [Clients -> Seq(Clients)] /\ toClient' \in [Clients -> Seq(Clients)]
      BY <1>1, <1>3, <2>1
    <2>5. reset' \subseteq Clients
      BY <1>2 DEF IInv, TypeOK
    <2>. QED
      BY <1>2, <1>3, <2>2, <2>3, <2>4, <2>5 DEF IInv, TypeOK, server
  <1>7. splits' = 0 /\ conn[c] \in {"queued", "open"} /\ ~Gone(c)' => Turn(c)'
    <2>1. ASSUME splits' = 0, conn[c] \in {"queued", "open"}, ~Gone(c)'
          PROVE  Turn(c)'
      <3>1. Turn(c)
        BY <1>1, <1>3, <2>1 DEF IInv, Flight
      <3>2. /\ got'[c] = got[c] \o toClient[c] /\ toClient'[c] = <<>>
            /\ toClient[c] # <<>>
        BY <1>3, <2>1
      <3>3. /\ toServer[c] = <<>> /\ Len(toClient[c]) = TEXT
            /\ Len(got[c]) = round[c] * TEXT
        BY <1>1, <3>1, <3>2 DEF Turn
      <3>4. Len(got'[c]) = Len(got[c]) + Len(toClient[c])
        BY <1>1, <3>2, Joined
      <3>5. (round[c] + 1) * TEXT = round[c] * TEXT + TEXT
        BY <1>1, Constants
      <3>6. Len(got'[c]) = round'[c] * TEXT
        BY <1>4, <3>3, <3>4, <3>5
      <3>. QED
        BY <1>4, <2>1, <3>2, <3>3, <3>6 DEF Turn
    <2>. QED
      BY <2>1
  <1>8. splits' = 0 /\ conn[c] \in {"queued", "open"} /\ c \in reset' => toServer'[c] = <<>>
    BY <1>3, <1>4
  <1>. QED
    BY <1>1, <1>2, <1>3, <1>4, <1>5, <1>6, <1>7, <1>8, OneClient

LEMMA WakeupKeeps ==
    ASSUME IInv, Wakeup
    PROVE  IInv'
  <1>1. /\ spc = "run" /\ batch = {} /\ cnt < CNT_TRYOUTS
        /\ batch' = Events /\ cnt' = cnt + 1
        /\ UNCHANGED <<mode, spc, fds, buffer, queue, conn, toServer, toClient, reset,
                       pc, round, got, splits, faults>>
    BY DEF Wakeup, wires, client
  <1>2. /\ batch' \subseteq Clients \cup {Listener}
        /\ Listener \in batch' => queue # <<>>
        /\ \A c \in Clients : c \in batch' => conn[c] = "open"
    BY <1>1, Constants DEF Events, Ready
  <1>3. TypeOK'
    BY <1>1, <1>2, Constants DEF IInv, TypeOK
  <1>4. Slots'
    BY <1>1, Constants DEF IInv, TypeOK, Slots, Open
  <1>5. Places'
    BY <1>1, <1>2 DEF IInv, Places, Off, Gone
  <1>6. Own'
    BY <1>1 DEF IInv, Own, Zeroed
  <1>7. Flight'
    BY <1>1 DEF IInv, Flight, Turn, Gone, Message
  <1>. QED
    BY <1>3, <1>4, <1>5, <1>6, <1>7 DEF IInv

\* One connection less that waits.
LEMMA AcceptedKeeps ==
    ASSUME IInv, NEW state \in {"open", "closed"},
           NEW n \in {0, 1}, n = 1 <=> state = "open",
           Listener \in batch, batch' = batch \ {Listener}, spc = "run",
           Accepted(state, n), faults' \in 0 .. MaxFaults,
           UNCHANGED <<mode, spc, cnt, buffer, wires, client, splits>>
    PROVE  IInv'
  <1>. DEFINE h == Head(queue)
  <1>1. /\ conn \in [Clients -> {"none", "queued", "open", "closed"}]
        /\ queue \in Seq(Clients) /\ queue # <<>>
        /\ fds \in Nat /\ cnt \in Nat /\ cnt <= CNT_TRYOUTS /\ fds + 1 <= cnt + 1
        /\ n \in Nat /\ CNT_TRYOUTS \in Nat
    BY Constants DEF IInv, TypeOK, Slots, Places
  <1>2. /\ h \in Clients /\ h = queue[1] /\ Tail(queue) \in Seq(Clients)
        /\ Len(queue) \in Nat /\ Len(queue) > 0 /\ Len(Tail(queue)) = Len(queue) - 1
        /\ \A m \in 1 .. Len(Tail(queue)) : Tail(queue)[m] = queue[m + 1]
    BY <1>1, OneLess
  <1>3. conn[h] = "queued" /\ \A m \in 1 .. Len(queue) : m # 1 => queue[m] # h
    BY <1>2 DEF IInv, Places
  <1>4. /\ conn' = [conn EXCEPT ![h] = state] /\ queue' = Tail(queue) /\ fds' = fds + n
        /\ UNCHANGED <<mode, spc, cnt, buffer, toServer, toClient, reset,
                       pc, round, got, splits>>
    BY DEF Accepted, wires, client
  <1>. HIDE DEF h
  <1>5. \A x \in Clients : conn'[x] = IF x = h THEN state ELSE conn[x]
    BY <1>1, <1>4
  <1>6. TypeOK'
    <2>1. fds' \in 1 .. cnt' + 1
      BY <1>1, <1>4 DEF IInv, TypeOK
    <2>2. conn' \in [Clients -> {"none", "queued", "open", "closed"}]
      BY <1>1, <1>2, <1>4
    <2>3. batch' \subseteq Clients \cup {Listener}
      BY DEF IInv, TypeOK
    <2>. QED
      BY <1>2, <1>4, <2>1, <2>2, <2>3 DEF IInv, TypeOK
  <1>7. Slots'
    <2>1. fds' + (IF Listener \in batch' THEN 1 ELSE 0) <= cnt' + 1
      BY <1>1, <1>4
    <2>2. ASSUME mode' = "select", spc' = "run"
          PROVE  IsFiniteSet(Open') /\ fds' = 1 + Cardinality(Open')
      <3>1. IsFiniteSet(Open) /\ fds = 1 + Cardinality(Open)
        BY <1>4, <2>2 DEF IInv, Slots
      <3>2. CASE state = "open"
        <4>1. Open' = Open \cup {h} /\ h \notin Open
          BY <1>2, <1>3, <1>5, <3>2 DEF Open
        <4>2. IsFiniteSet(Open') /\ Cardinality(Open') = Cardinality(Open) + 1
          BY <3>1, <4>1, FS_AddElement
        <4>3. fds' = fds + 1
          BY <1>4, <3>2
        <4>4. Cardinality(Open) \in Nat
          BY <3>1, FS_CardinalityType
        <4>. QED
          BY <1>1, <3>1, <4>2, <4>3, <4>4
      <3>3. CASE state = "closed"
        <4>1. Open' = Open
          BY <1>2, <1>3, <1>5, <3>3 DEF Open
        <4>2. fds' = fds
          BY <1>1, <1>4, <3>3
        <4>. QED
          BY <3>1, <4>1, <4>2
      <3>. QED
        BY <3>2, <3>3
    <2>. QED
      BY <2>1, <2>2 DEF Slots
  <1>8. Places'
    <2>1. \A i \in 1 .. Len(queue') :
               /\ conn'[queue'[i]] = "queued"
               /\ \A m \in 1 .. Len(queue') : m # i => queue'[m] # queue'[i]
      <3>1. ASSUME NEW i \in 1 .. Len(queue')
            PROVE  /\ i + 1 \in 1 .. Len(queue) /\ queue'[i] = queue[i + 1]
                   /\ queue[i + 1] \in Clients /\ queue[i + 1] # h
                   /\ conn[queue[i + 1]] = "queued"
        <4>1. i + 1 \in 1 .. Len(queue) /\ i + 1 # 1 /\ queue'[i] = queue[i + 1]
          BY <1>2, <1>4
        <4>. QED
          BY <1>1, <1>3, <4>1, ElementOfSeq DEF IInv, Places
      <3>2. ASSUME NEW i \in 1 .. Len(queue'), NEW m \in 1 .. Len(queue'), m # i
            PROVE  queue'[m] # queue'[i]
        <4>1. m + 1 # i + 1
          BY <3>2, <1>2, <1>4
        <4>2. \A a, b \in 1 .. Len(queue) : a # b => queue[a] # queue[b]
          BY DEF IInv, Places
        <4>3. /\ i + 1 \in 1 .. Len(queue) /\ queue'[i] = queue[i + 1]
              /\ m + 1 \in 1 .. Len(queue) /\ queue'[m] = queue[m + 1]
          BY <3>1
        <4>. QED
          BY <4>1, <4>2, <4>3, Zenon
      <3>. QED
        BY <1>5, <3>1, <3>2
    <2>2. ~(Listener \in batch')
      OBVIOUS
    <2>3. \A x \in Clients : x \in batch' => conn'[x] = "open"
      BY <1>3, <1>5 DEF IInv, Places
    <2>4. \A x \in Clients :
               /\ pc'[x] = "off" => Off(x)'
               /\ pc'[x] = "refused" => conn'[x] = "none"
               /\ x \in reset' => Gone(x)'
               /\ pc'[x] \in {"send", "recv"} => round'[x] < ROUNDS
      BY <1>3, <1>4, <1>5 DEF IInv, Places, Off, Gone
    <2>. QED
      BY <2>1, <2>2, <2>3, <2>4 DEF Places
  <1>9. Own'
    BY <1>4 DEF IInv, Own, Zeroed
  <1>10. Flight'
    <2>1. ASSUME splits = 0, NEW x \in Clients
          PROVE  /\ conn'[x] \in {"queued", "open"} /\ ~Gone(x) => Turn(x)
                 /\ conn'[x] \in {"queued", "open"} /\ x \in reset => toServer[x] = <<>>
      <3>. HIDE DEF Turn
      <3>1. conn[x] \in {"queued", "open"} /\ ~Gone(x) => Turn(x)
        BY <2>1 DEF IInv, Flight
      <3>2. x # h => conn'[x] = conn[x]
        BY <1>5
      <3>. QED
        BY <1>3, <2>1, <3>1, <3>2 DEF IInv, Flight
    <2>2. \A x \in Clients : Gone(x)' = Gone(x) /\ Turn(x)' = Turn(x)
      BY <1>4 DEF Gone, Turn, Message
    <2>. QED
      BY <1>4, <2>1, <2>2 DEF IInv, Flight
  <1>. QED
    BY <1>6, <1>7, <1>8, <1>9, <1>10 DEF IInv

LEMMA AcceptKeeps ==
    ASSUME IInv, Accept
    PROVE  IInv'
  <1>1. /\ spc = "run" /\ Listener \in batch /\ batch' = batch \ {Listener}
        /\ UNCHANGED <<mode, spc, cnt, buffer, wires, client, splits>>
        /\ faults \in 0 .. MaxFaults
    BY DEF Accept, Handle, IInv, TypeOK
  <1>2. CASE UNCHANGED <<conn, queue, fds>> /\ faults < MaxFaults /\ faults' = faults + 1
    <2>1. TypeOK'
      BY <1>1, <1>2, Constants DEF IInv, TypeOK, wires, client
    <2>2. Slots'
      BY <1>1, <1>2 DEF IInv, TypeOK, Slots, Open
    <2>3. Places'
      BY <1>1, <1>2 DEF IInv, Places, Off, Gone, wires, client
    <2>4. Own'
      BY <1>1 DEF IInv, Own, Zeroed, wires, client
    <2>5. Flight'
      BY <1>1, <1>2 DEF IInv, Flight, Turn, Gone, Message, wires, client
    <2>. QED
      BY <2>1, <2>2, <2>3, <2>4, <2>5 DEF IInv
  <1>3. CASE Accepted("open", 1) /\ UNCHANGED faults
    <2>1. faults' \in 0 .. MaxFaults
      BY <1>1, <1>3
    <2>. QED
      BY <1>1, <1>3, <2>1, AcceptedKeeps
  <1>4. CASE Accepted("closed", 0) /\ UNCHANGED faults
    <2>1. faults' \in 0 .. MaxFaults
      BY <1>1, <1>4
    <2>. QED
      BY <1>1, <1>4, <2>1, AcceptedKeeps
  <1>5. CASE Accepted("closed", 0) /\ faults < MaxFaults /\ faults' = faults + 1
    <2>1. faults' \in 0 .. MaxFaults
      BY <1>1, <1>5, Constants
    <2>. QED
      BY <1>1, <1>5, <2>1, AcceptedKeeps
  <1>. QED
    BY <1>2, <1>3, <1>4, <1>5 DEF Accept

LEMMA HangupKeeps ==
    ASSUME IInv, NEW c \in Clients, Hangup(c)
    PROVE  IInv'
  <1>1. /\ spc = "run" /\ c \in batch /\ batch' = batch \ {c}
        /\ conn' = [conn EXCEPT ![c] = "closed"]
        /\ toServer' = [toServer EXCEPT ![c] = <<>>]
        /\ fds' = IF mode = "select" THEN fds - 1 ELSE fds
        /\ UNCHANGED <<mode, spc, cnt, buffer, queue, toClient, reset,
                       pc, round, got, splits, faults>>
    BY DEF Hangup, Handle, client
  <1>2. /\ conn \in [Clients -> {"none", "queued", "open", "closed"}]
        /\ toServer \in [Clients -> Seq(Clients \cup {Nul})]
        /\ conn[c] = "open" /\ c # Listener
    BY <1>1, Constants DEF IInv, TypeOK, Places
  <1>3. \A x \in Clients :
           /\ conn'[x] = IF x = c THEN "closed" ELSE conn[x]
           /\ toServer'[x] = IF x = c THEN <<>> ELSE toServer[x]
    BY <1>1, <1>2
  <1>4. /\ fds' \in Nat /\ fds' >= 1 /\ fds' <= fds
        /\ mode = "select" => IsFiniteSet(Open') /\ fds' = 1 + Cardinality(Open')
    <2>1. CASE mode = "select"
      <3>1. IsFiniteSet(Open) /\ fds = 1 + Cardinality(Open)
        BY <1>1, <2>1 DEF IInv, Slots
      <3>2. Open' = Open \ {c} /\ c \in Open
        BY <1>2, <1>3 DEF Open
      <3>3. IsFiniteSet(Open') /\ Cardinality(Open') = Cardinality(Open) - 1
        BY <3>1, <3>2, FS_RemoveElement
      <3>4. Cardinality(Open) \in Nat /\ Cardinality(Open') \in Nat
        BY <3>1, <3>3, FS_CardinalityType
      <3>5. fds' = fds - 1
        BY <1>1, <2>1
      <3>. QED
        BY <3>1, <3>3, <3>4, <3>5
    <2>2. CASE mode # "select"
      BY <1>1, <2>2 DEF IInv, TypeOK
    <2>. QED
      BY <2>1, <2>2
  <1>5. TypeOK'
    <2>1. fds' \in 1 .. cnt' + 1
      BY <1>1, <1>4 DEF IInv, TypeOK
    <2>2. conn' \in [Clients -> {"none", "queued", "open", "closed"}]
      BY <1>1, <1>2
    <2>3. toServer' \in [Clients -> Seq(Clients \cup {Nul})]
      BY <1>1, <1>2, Nothing
    <2>. QED
      BY <1>1, <2>1, <2>2, <2>3 DEF IInv, TypeOK
  <1>6. Slots'
    BY <1>1, <1>2, <1>4 DEF IInv, TypeOK, Slots
  <1>7. Places'
    <2>1. \A n \in 1 .. Len(queue) : conn'[queue[n]] = "queued"
      <3>1. \A n \in 1 .. Len(queue) : queue[n] \in Clients /\ conn[queue[n]] = "queued"
        BY ElementOfSeq DEF IInv, TypeOK, Places
      <3>. QED
        BY <1>2, <1>3, <3>1
    <2>2. \A x \in Clients : x \in batch' => conn'[x] = "open"
      BY <1>1, <1>3 DEF IInv, Places
    <2>3. \A x \in Clients :
               /\ pc'[x] = "off" => Off(x)'
               /\ pc'[x] = "refused" => conn'[x] = "none"
               /\ x \in reset' => Gone(x)'
               /\ pc'[x] \in {"send", "recv"} => round'[x] < ROUNDS
      BY <1>1, <1>2, <1>3 DEF IInv, Places, Off, Gone
    <2>. QED
      BY <1>1, <2>1, <2>2, <2>3 DEF IInv, Places
  <1>8. Own'
    <2>1. ASSUME NEW x \in Clients
          PROVE  /\ toServer'[x] \in Seq({x, Nul})
                 /\ Len(toServer'[x]) <= Bound(ROUNDS)
                 /\ pc'[x] = "send" => Len(toServer'[x]) <= Bound(round'[x])
                 /\ pc'[x] = "recv" => Len(toServer'[x]) <= Bound(round'[x] + 1)
      <3>1. CASE x # c
        BY <1>1, <1>3, <3>1 DEF IInv, Own
      <3>2. CASE x = c
        <4>1. toServer'[x] = <<>> /\ Len(toServer'[x]) = 0 /\ <<>> \in Seq({x, Nul})
          BY <1>3, <3>2, Nothing
        <4>2. round'[x] \in Nat
          BY <1>1 DEF IInv, TypeOK
        <4>3. Bound(round'[x]) \in Nat /\ Bound(round'[x] + 1) \in Nat /\ Bound(ROUNDS) \in Nat
          BY <4>2, Bounds
        <4>. QED
          BY <4>1, <4>3
      <3>. QED
        BY <3>1, <3>2
    <2>. QED
      BY <1>1, <2>1 DEF IInv, Own, Zeroed
  <1>9. Flight'
    <2>1. ASSUME NEW x \in Clients, x # c
          PROVE  Gone(x)' = Gone(x) /\ Turn(x)' = Turn(x)
      BY <1>1, <1>3, <2>1 DEF Gone, Turn, Message
    <2>. QED
      BY <1>1, <1>3, <2>1 DEF IInv, Flight
  <1>. QED
    BY <1>5, <1>6, <1>7, <1>8, <1>9 DEF IInv

\* A shorter way to the server keeps the bounds.
LEMMA Shorter ==
    ASSUME IInv, NEW x \in Clients, UNCHANGED <<pc, round>>,
           toServer'[x] \in Seq({x, Nul}), Len(toServer'[x]) <= Len(toServer[x])
    PROVE  /\ Len(toServer'[x]) <= Bound(ROUNDS)
           /\ pc'[x] = "send" => Len(toServer'[x]) <= Bound(round'[x])
           /\ pc'[x] = "recv" => Len(toServer'[x]) <= Bound(round'[x] + 1)
  <1>1. /\ Len(toServer[x]) <= Bound(ROUNDS)
        /\ pc[x] = "send" => Len(toServer[x]) <= Bound(round[x])
        /\ pc[x] = "recv" => Len(toServer[x]) <= Bound(round[x] + 1)
        /\ toServer[x] \in Seq({x, Nul})
    BY DEF IInv, Own
  <1>2. round[x] \in Nat /\ round[x] + 1 \in Nat
    <2>1. round[x] \in 0 .. ROUNDS
      BY DEF IInv, TypeOK
    <2>. QED
      BY <2>1, Constants
  <1>3. Len(toServer[x]) \in Nat /\ Len(toServer'[x]) \in Nat
    BY <1>1, NotEmpty
  <1>4. Bound(round[x]) \in Nat /\ Bound(round[x] + 1) \in Nat /\ Bound(ROUNDS) \in Nat
    <2>1. \A r \in Nat : Bound(r) \in Nat
      BY Bounds
    <2>. QED
      BY <1>2, <2>1, Constants
  <1>. QED
    BY <1>1, <1>3, <1>4

\* When the server's process ends, nothing is open any more.
LEMMA EndedKeeps ==
    ASSUME IInv, NEW how \in {"done", "killed"}, Ended(how),
           UNCHANGED <<mode, cnt, fds, buffer, client, toClient, reset>>,
           batch' \subseteq batch, splits' \in 0 .. MaxSplits, faults' \in 0 .. MaxFaults,
           splits' = 0 => how # "killed",
           toServer' \in [Clients -> Seq(Clients \cup {Nul})],
           \A c \in Clients :
               /\ toServer'[c] \in Seq({c, Nul}) /\ Len(toServer'[c]) <= Len(toServer[c])
               /\ toServer[c] = <<>> => toServer'[c] = <<>>
    PROVE  IInv'
  <1>1. /\ spc' = how /\ spc' # "run" /\ queue' = <<>>
        /\ conn' = [c \in Clients |-> IF conn[c] = "none" THEN "none" ELSE "closed"]
        /\ UNCHANGED <<mode, cnt, fds, buffer, pc, round, got, toClient, reset>>
    BY DEF Ended, client
  <1>2. \A c \in Clients : conn'[c] = IF conn[c] = "none" THEN "none" ELSE "closed"
    BY <1>1
  <1>3. TypeOK'
    <2>1. queue' \in Seq(Clients)
      BY <1>1, Nothing
    <2>2. conn' \in [Clients -> {"none", "queued", "open", "closed"}]
      BY <1>1
    <2>3. batch' \subseteq Clients \cup {Listener}
      BY DEF IInv, TypeOK
    <2>. QED
      BY <1>1, <2>1, <2>2, <2>3 DEF IInv, TypeOK
  <1>4. Slots'
    BY <1>1 DEF IInv, TypeOK, Slots
  <1>5. Places'
    <2>1. Len(queue') = 0
      BY <1>1, Nothing
    <2>2. \A x \in Clients :
               /\ pc'[x] = "off" => Off(x)'
               /\ pc'[x] = "refused" => conn'[x] = "none"
               /\ x \in reset' => Gone(x)'
               /\ pc'[x] \in {"send", "recv"} => round'[x] < ROUNDS
      BY <1>1, <1>2 DEF IInv, Places, Off, Gone
    <2>. QED
      BY <1>1, <2>1, <2>2 DEF Places
  <1>6. Own'
    <2>1. ASSUME NEW x \in Clients
          PROVE  /\ Len(toServer'[x]) <= Bound(ROUNDS)
                 /\ pc'[x] = "send" => Len(toServer'[x]) <= Bound(round'[x])
                 /\ pc'[x] = "recv" => Len(toServer'[x]) <= Bound(round'[x] + 1)
      BY <1>1, Shorter
    <2>. QED
      BY <1>1, <2>1 DEF IInv, Own, Zeroed
  <1>7. Flight'
    BY <1>1, <1>2 DEF Flight
  <1>. QED
    BY <1>3, <1>4, <1>5, <1>6, <1>7 DEF IInv

LEMMA ExitKeeps ==
    ASSUME IInv, Exit \/ EpollFails
    PROVE  IInv'
  <1>1. /\ Ended("done")
        /\ UNCHANGED <<mode, cnt, fds, batch, buffer, toServer, toClient, reset,
                       client, splits>>
    BY DEF Exit, EpollFails, wires
  <1>4. faults' \in 0 .. MaxFaults
    BY MultiplexAssumption DEF Exit, EpollFails, IInv, TypeOK
  <1>2. /\ splits' \in 0 .. MaxSplits /\ batch' \subseteq batch
        /\ toServer' \in [Clients -> Seq(Clients \cup {Nul})]
    BY <1>1 DEF IInv, TypeOK
  <1>3. \A c \in Clients :
               /\ toServer'[c] \in Seq({c, Nul}) /\ Len(toServer'[c]) <= Len(toServer[c])
               /\ toServer[c] = <<>> => toServer'[c] = <<>>
    <2>1. \A c \in Clients : toServer[c] \in Seq({c, Nul}) /\ Len(toServer[c]) \in Nat
      BY NotEmpty DEF IInv, Own
    <2>. QED
      BY <1>1, <2>1
  <1>. QED
    BY <1>1, <1>2, <1>3, <1>4, EndedKeeps

LEMMA EchoKeeps ==
    ASSUME IInv, NEW c \in Clients, Echo(c)
    PROVE  IInv'
  <1>1. PICK k \in 1 .. Len(toServer[c]) :
               /\ Read(Len(toServer[c]), k)
               /\ toServer' = [toServer EXCEPT ![c] = From(@, k)]
               /\ Send(c, CString(Filled(SubSeq(toServer[c], 1, k))))
    BY DEF Echo
  <1>. DEFINE text == CString(Filled(SubSeq(toServer[c], 1, k)))
  <1>2. /\ spc = "run" /\ c \in batch /\ batch' = batch \ {c} /\ toServer[c] # <<>>
        /\ buffer = Zeroed /\ buffer' = Zeroed
        /\ UNCHANGED <<mode, cnt, fds, client, faults>>
    BY DEF Echo, Handle, IInv, Own
  <1>3. /\ toServer \in [Clients -> Seq(Clients \cup {Nul})]
        /\ toClient \in [Clients -> Seq(Clients)]
        /\ toServer[c] \in Seq({c, Nul}) /\ toClient[c] \in Seq({c})
        /\ Len(toServer[c]) <= Bound(ROUNDS) /\ round[c] \in Nat
        /\ conn[c] = "open" /\ splits \in 0 .. MaxSplits
        /\ c # Listener
    <2>1. /\ toServer \in [Clients -> Seq(Clients \cup {Nul})]
          /\ toClient \in [Clients -> Seq(Clients)]
          /\ splits \in 0 .. MaxSplits /\ round[c] \in 0 .. ROUNDS
      BY DEF IInv, TypeOK
    <2>2. /\ toServer[c] \in Seq({c, Nul}) /\ toClient[c] \in Seq({c})
          /\ Len(toServer[c]) <= Bound(ROUNDS)
      BY DEF IInv, Own
    <2>3. conn[c] = "open"
      BY <1>2 DEF IInv, Places
    <2>4. round[c] \in Nat /\ c # Listener
      BY <2>1, Constants
    <2>. QED
      BY <2>1, <2>2, <2>3, <2>4
  <1>4. /\ SubSeq(toServer[c], 1, k) \in Seq({c, Nul}) /\ Len(SubSeq(toServer[c], 1, k)) = k
        /\ From(toServer[c], k) \in Seq({c, Nul})
        /\ Len(From(toServer[c], k)) = Len(toServer[c]) - k
        /\ k = Len(toServer[c]) => /\ SubSeq(toServer[c], 1, k) = toServer[c]
                                   /\ From(toServer[c], k) = <<>>
    BY <1>3, Cut
  <1>5. Len(toServer[c]) \in Nat /\ k \in Nat /\ k > 0 /\ k <= Len(toServer[c])
    BY <1>3, NotEmpty
  <1>6. text \in Seq({c})
    <2>1. k < SIZE_BUFFER
      BY <1>3, <1>5, Bounds, Constants
    <2>. QED
      BY <1>2, <1>4, <2>1, TextOf
  <1>7. /\ splits' \in 0 .. MaxSplits
        /\ splits' = 0 => splits = 0 /\ k = Len(toServer[c])
    BY <1>1, <1>3, <1>5, Constants DEF Read
  <1>8. \A x \in Clients : toServer'[x] = IF x = c THEN From(toServer[c], k) ELSE toServer[x]
    BY <1>1, <1>3
  <1>9. \A x \in Clients :
           /\ toServer'[x] \in Seq({x, Nul}) /\ Len(toServer'[x]) <= Len(toServer[x])
           /\ toServer[x] = <<>> => toServer'[x] = <<>>
    <2>1. \A x \in Clients : toServer[x] \in Seq({x, Nul}) /\ Len(toServer[x]) \in Nat
      BY NotEmpty DEF IInv, Own
    <2>2. Len(From(toServer[c], k)) <= Len(toServer[c])
      BY <1>4, <1>5
    <2>3. ASSUME NEW x \in Clients
          PROVE  /\ toServer'[x] \in Seq({x, Nul}) /\ Len(toServer'[x]) <= Len(toServer[x])
                 /\ toServer[x] = <<>> => toServer'[x] = <<>>
      <3>1. CASE x = c
        BY <1>2, <1>4, <1>8, <2>2, <3>1
      <3>2. CASE x # c
        BY <1>8, <2>1, <3>2
      <3>. QED
        BY <3>1, <3>2
    <2>. QED
      BY <2>3
  <1>10. toServer' \in [Clients -> Seq(Clients \cup {Nul})]
    <2>1. From(toServer[c], k) \in Seq(Clients \cup {Nul})
      BY <1>4, Wider
    <2>. QED
      BY <1>1, <1>3, <2>1
  <1>11. Send(c, text)
    BY <1>1
  <1>. HIDE DEF text
  <1>12. CASE Gone(c) /\ c \in reset /\ Ended("killed") /\ UNCHANGED <<toClient, reset>>
    <2>1. splits' # 0
      BY <1>2, <1>3, <1>7, <1>12 DEF IInv, Flight
    <2>2. batch' \subseteq batch
      BY <1>2
    <2>3. /\ UNCHANGED <<mode, cnt, fds, buffer, client, toClient, reset>>
          /\ faults' \in 0 .. MaxFaults
      BY <1>2, <1>12 DEF IInv, TypeOK
    <2>. QED
      BY <1>7, <1>9, <1>10, <1>12, <2>1, <2>2, <2>3, EndedKeeps
  <1>13. CASE UNCHANGED <<spc, conn, queue>>
              /\ \/ /\ ~Gone(c) /\ toClient' = [toClient EXCEPT ![c] = @ \o text]
                    /\ UNCHANGED reset
                 \/ /\ Gone(c) /\ UNCHANGED toClient
                    /\ reset' = IF text = <<>> THEN reset ELSE reset \cup {c}
    <2>1. /\ UNCHANGED <<mode, spc, cnt, fds, buffer, conn, queue, pc, round, got, faults>>
          /\ buffer' = Zeroed
      BY <1>2, <1>13 DEF client
    <2>2. /\ toClient' = [toClient EXCEPT ![c] = toClient'[c]] /\ toClient'[c] \in Seq({c})
          /\ ~Gone(c) => toClient'[c] = toClient[c] \o text
          /\ toClient[c] = <<>> /\ ~Gone(c) => toClient'[c] = text
      <3>. DEFINE s == toClient[c]
      <3>1. s \in Seq({c})
        BY <1>3
      <3>. HIDE DEF s
      <3>2. s \o text \in Seq({c}) /\ (s = <<>> => s \o text = text)
        BY <1>6, <3>1, Joined
      <3>3. /\ ~Gone(c) => toClient'[c] = s \o text
            /\ Gone(c) => toClient'[c] = s
            /\ toClient' = [toClient EXCEPT ![c] = toClient'[c]]
        BY <1>3, <1>13 DEF s
      <3>. QED
        BY <3>1, <3>2, <3>3 DEF s
    <2>3. /\ \A x \in Clients : x # c =>
                 toClient'[x] = toClient[x] /\ (x \in reset' <=> x \in reset)
          /\ c \in reset' => Gone(c)
          /\ reset' \subseteq Clients
      BY <1>3, <1>13 DEF IInv, Places, TypeOK
    <2>4. TypeOK'
      <3>1. toClient' \in [Clients -> Seq(Clients)]
        <4>1. toClient'[c] \in Seq(Clients)
          BY <2>2, Wider
        <4>. QED
          BY <1>3, <2>2, <4>1
      <3>2. batch' \subseteq Clients \cup {Listener}
        BY <1>2 DEF IInv, TypeOK
      <3>. QED
        BY <1>7, <1>10, <2>1, <2>3, <3>1, <3>2 DEF IInv, TypeOK
    <2>5. Slots'
      <3>1. Listener \in batch' <=> Listener \in batch
        BY <1>2, <1>3
      <3>. QED
        BY <2>1, <3>1 DEF IInv, Slots, Open
    <2>6. Places'
      <3>1. \A x \in Clients : pc'[x] = "off" => Off(x)'
        <4>1. ASSUME NEW x \in Clients, pc[x] = "off"
              PROVE  x # c /\ Off(x)
          BY <1>3, <4>1 DEF IInv, Places, Off
        <4>. QED
          BY <2>1, <2>3, <1>8, <4>1 DEF Off
      <3>2. \A x \in Clients :
               /\ pc'[x] = "refused" => conn'[x] = "none"
               /\ x \in reset' => Gone(x)'
               /\ pc'[x] \in {"send", "recv"} => round'[x] < ROUNDS
        BY <2>1, <2>3 DEF IInv, Places, Gone
      <3>. QED
        BY <1>2, <1>3, <2>1, <3>1, <3>2 DEF IInv, Places
    <2>7. Own'
      <3>1. ASSUME NEW x \in Clients
            PROVE  /\ Len(toServer'[x]) <= Bound(ROUNDS)
                   /\ pc'[x] = "send" => Len(toServer'[x]) <= Bound(round'[x])
                   /\ pc'[x] = "recv" => Len(toServer'[x]) <= Bound(round'[x] + 1)
        BY <1>9, <2>1, Shorter
      <3>2. \A x \in Clients : toClient'[x] \in Seq({x}) /\ got'[x] \in Seq({x})
        BY <2>1, <2>2, <2>3 DEF IInv, Own
      <3>3. buffer' = Zeroed'
        BY <2>1 DEF Zeroed
      <3>. QED
        BY <1>9, <3>1, <3>2, <3>3 DEF Own
    <2>8. Flight'
      <3>1. ASSUME NEW x \in Clients, x # c
            PROVE  Gone(x)' = Gone(x) /\ Turn(x)' = Turn(x)
        BY <1>8, <2>1, <2>3, <3>1 DEF Gone, Turn, Message
      <3>2. ASSUME splits' = 0, ~Gone(c)
            PROVE  Turn(c)'
        <4>1. Turn(c) /\ splits = 0 /\ k = Len(toServer[c])
          BY <1>3, <1>7, <3>2 DEF IInv, Flight
        <4>2. pc[c] = "recv" /\ toServer[c] = Message(c) /\ toClient[c] = <<>>
          BY <1>2, <4>1 DEF Turn
        <4>3. toServer'[c] = <<>> /\ text = CString(Filled(Message(c)))
          BY <1>4, <1>8, <4>1, <4>2 DEF text
        <4>4. Len(text) = TEXT
          <5>1. TEXT + 1 < SIZE_BUFFER
            <6>1. Len(toServer[c]) = TEXT + 1
              BY <4>2, MessageIs
            <6>2. Bound(ROUNDS) \in Nat /\ Bound(ROUNDS) < SIZE_BUFFER
              BY Bounds
            <6>. QED
              BY <1>3, <1>5, <6>1, <6>2, Constants
          <5>. QED
            BY <1>2, <4>3, <5>1, TextOfMessage
        <4>5. toClient'[c] = text
          BY <2>2, <3>2, <4>2
        <4>. QED
          BY <2>1, <4>1, <4>2, <4>3, <4>4, <4>5 DEF Turn
      <3>3. splits' = 0 => toServer'[c] = <<>>
        BY <1>4, <1>7, <1>8
      <3>4. Gone(c)' <=> Gone(c)
        BY <2>1 DEF Gone
      <3>5. ASSUME splits' = 0, NEW x \in Clients
            PROVE  /\ conn[x] \in {"queued", "open"} /\ ~Gone(x)' => Turn(x)'
                   /\ conn[x] \in {"queued", "open"} /\ x \in reset' => toServer'[x] = <<>>
        <4>1. CASE x = c
          BY <3>2, <3>3, <3>4, <3>5, <4>1
        <4>2. CASE x # c
          BY <1>7, <1>8, <2>3, <3>1, <3>5, <4>2 DEF IInv, Flight
        <4>. QED
          BY <4>1, <4>2
      <3>6. spc' # "killed"
        BY <1>2, <2>1
      <3>. QED
        BY <2>1, <3>5, <3>6 DEF Flight
    <2>. QED
      BY <2>4, <2>5, <2>6, <2>7, <2>8 DEF IInv
  <1>. QED
    BY <1>11, <1>12, <1>13 DEF Send

-----------------------------------------------------------------------------
(* The theorems.                                                           *)

LEMMA InitHolds == Init => IInv
  <1>. SUFFICES ASSUME Init PROVE IInv
    OBVIOUS
  <1>1. TypeOK
    BY Constants, Nothing DEF Init, TypeOK, Zeroed
  <1>2. Slots
    <2>1. Open = {}
      BY DEF Init, Open
    <2>2. IsFiniteSet(Open) /\ Cardinality(Open) = 0
      BY <2>1, FS_EmptySet
    <2>. QED
      BY <2>2 DEF Init, Slots
  <1>3. Places
    BY Constants, Nothing DEF Init, Places, Off, Gone
  <1>4. Own
    <2>1. Len(<<>>) = 0 /\ Bound(ROUNDS) \in Nat
      BY Nothing, Bounds
    <2>. QED
      BY <2>1, Nothing DEF Init, Own
  <1>5. Flight
    BY DEF Init, Flight
  <1>. QED
    BY <1>1, <1>2, <1>3, <1>4, <1>5 DEF IInv

LEMMA StutterKeeps == ASSUME IInv, UNCHANGED vars PROVE IInv'
  <1>1. TypeOK'
    BY DEF IInv, TypeOK, vars
  <1>2. Slots'
    BY DEF IInv, Slots, Open, vars
  <1>3. Places'
    BY DEF IInv, Places, Off, Gone, vars
  <1>4. Own'
    BY DEF IInv, Own, Zeroed, vars
  <1>5. Flight'
    BY DEF IInv, Flight, Turn, Gone, Message, vars
  <1>. QED
    BY <1>1, <1>2, <1>3, <1>4, <1>5 DEF IInv

LEMMA Inductive == IInv /\ [Next]_vars => IInv'
  <1>. SUFFICES ASSUME IInv, [Next]_vars PROVE IInv'
    OBVIOUS
  <1>1. CASE Wakeup
    BY <1>1, WakeupKeeps
  <1>2. CASE Accept
    BY <1>2, AcceptKeeps
  <1>3. CASE Exit \/ EpollFails
    BY <1>3, ExitKeeps
  <1>4. ASSUME NEW c \in Clients, Hangup(c) PROVE IInv'
    BY <1>4, HangupKeeps
  <1>5. ASSUME NEW c \in Clients, Echo(c) PROVE IInv'
    BY <1>5, EchoKeeps
  <1>6. ASSUME NEW c \in Clients, Connect(c) PROVE IInv'
    BY <1>6, ConnectKeeps
  <1>7. ASSUME NEW c \in Clients, ClientSend(c) PROVE IInv'
    BY <1>7, ClientSendKeeps
  <1>8. ASSUME NEW c \in Clients, ClientRecv(c) PROVE IInv'
    BY <1>8, ClientRecvKeeps
  <1>9. ASSUME NEW c \in Clients, ClientKill(c) PROVE IInv'
    BY <1>9, ClientKillKeeps
  <1>10. CASE UNCHANGED vars
    BY <1>10, StutterKeeps
  <1>. QED
    BY <1>1, <1>2, <1>3, <1>4, <1>5, <1>6, <1>7, <1>8, <1>9, <1>10
       DEF Next, ServerStep, ClientStep

LEMMA Invariant == Spec => []IInv
  BY InitHolds, Inductive, PTL DEF Spec

\* Types; the count of slots stays within the wakeups, for any number of them.
THEOREM TypeCorrect == Spec => []TypeOK
  <1>1. IInv => TypeOK
    BY DEF IInv
  <1>. QED
    BY <1>1, Invariant, PTL

\* No build of the server is ever full when a client connects.
NobodyTurnedAway == Listener \in batch => ~Full

THEOREM SlotsSuffice == Spec => []NobodyTurnedAway
  <1>1. IInv => NobodyTurnedAway
    <2>1. ASSUME IInv, Listener \in batch
          PROVE  fds + 1 < MAX_FDS /\ fds \in Nat /\ MAX_FDS \in Nat
      <3>1. fds + 1 <= cnt + 1 /\ fds \in 1 .. cnt + 1 /\ cnt \in 0 .. CNT_TRYOUTS
        BY <2>1 DEF IInv, TypeOK, Slots
      <3>. QED
        BY <3>1, Constants
    <2>. QED
      BY <2>1 DEF NobodyTurnedAway, Full
  <1>. QED
    BY <1>1, Invariant, PTL

\* A client is only ever sent its own text, however the streams are split.
THEOREM RepliesNotMixed == Spec => []OwnEcho
  <1>1. IInv => OwnEcho
    <2>1. ASSUME IInv, NEW c \in Clients, NEW n \in 1 .. Len(got[c] \o toClient[c])
          PROVE  (got[c] \o toClient[c])[n] = c
      <3>1. got[c] \in Seq({c}) /\ toClient[c] \in Seq({c})
        BY <2>1 DEF IInv, Own
      <3>2. got[c] \o toClient[c] \in Seq({c})
        BY <3>1, ConcatProperties
      <3>3. (got[c] \o toClient[c])[n] \in {c}
        BY <3>2, ElementOfSeq
      <3>. QED
        BY <3>3
    <2>. QED
      BY <2>1 DEF OwnEcho
  <1>. QED
    BY <1>1, Invariant, PTL

\* Without short reads each round of a served client brings one whole text.
THEOREM OneTextPerRound == Spec => []EchoPerRound
  <1>1. IInv => EchoPerRound
    <2>1. ASSUME IInv, splits = 0, NEW c \in Clients,
                 conn[c] \in {"queued", "open"}, ~Gone(c)
          PROVE  /\ Len(got[c]) = round[c] * TEXT
                 /\ {Len(toServer[c]), Len(toClient[c])} =
                       (IF pc[c] # "recv" THEN {0}
                        ELSE IF toClient[c] = <<>> THEN {0, TEXT + 1} ELSE {0, TEXT})
      <3>1. Turn(c)
        BY <2>1 DEF IInv, Flight
      <3>2. Len(toClient[c]) \in Nat /\ (toClient[c] = <<>> <=> Len(toClient[c]) = 0)
        BY <2>1, NotEmpty DEF IInv, Own
      <3>3. /\ pc[c] # "recv" => Len(toServer[c]) = 0 /\ Len(toClient[c]) = 0
            /\ pc[c] = "recv" =>
                  \/ Len(toServer[c]) = TEXT + 1 /\ Len(toClient[c]) = 0 /\ toClient[c] = <<>>
                  \/ Len(toServer[c]) = 0 /\ Len(toClient[c]) = TEXT /\ toClient[c] # <<>>
        <4>1. Len(<<>>) = 0 /\ Len(Message(c)) = TEXT + 1
          BY Nothing, MessageIs
        <4>2. CASE pc[c] # "recv"
          BY <3>1, <4>1, <4>2 DEF Turn
        <4>3. CASE pc[c] = "recv" /\ toServer[c] = Message(c) /\ toClient[c] = <<>>
          BY <4>1, <4>3
        <4>4. CASE pc[c] = "recv" /\ toServer[c] = <<>> /\ Len(toClient[c]) = TEXT
          BY <3>2, <4>1, <4>4, Constants
        <4>. QED
          BY <3>1, <4>2, <4>3, <4>4 DEF Turn
      <3>4. Len(got[c]) = round[c] * TEXT
        BY <3>1 DEF Turn
      <3>. QED
        BY <3>3, <3>4
    <2>. QED
      BY <2>1 DEF EchoPerRound
  <1>. QED
    BY <1>1, Invariant, PTL

\* Without short reads no client that leaves takes the server with it.
THEOREM SurvivesLeavers == Spec => []ServerSurvives
  <1>1. IInv => ServerSurvives
    <2>1. IInv => splits \in Nat
      BY Constants DEF IInv, TypeOK
    <2>. QED
      BY <2>1 DEF IInv, Flight, ServerSurvives
  <1>. QED
    BY <1>1, Invariant, PTL

-----------------------------------------------------------------------------
(* What the wakeups were spent on.                                         *)

\* What came back to a client is all it asked for.
Whole(c) == Len(got[c]) + Len(toClient[c]) = ROUNDS * TEXT

\* Messages of a client that the server has taken, as far as it still counts.
Echoed(c) == IF pc[c] \in {"recv", "killed"} /\ toServer[c] = <<>>
             THEN round[c] + 1 ELSE round[c]

\* Descriptors a client has kept ready so far: one accept, its messages, its end.
Cost(c) ==
    IF conn[c] \in {"none", "queued"} THEN 0
    ELSE IF conn[c] = "open" THEN 1 + Echoed(c)
    ELSE IF pc[c] = "killed" \/ Whole(c) THEN ROUNDS + 2 ELSE 0

Spent == {s \in Clients \X (1 .. ROUNDS + 2) : s[2] <= Cost(s[1])}

\* What a wakeup has found ready stays so until the loop reaches it.
BatchReady == spc = "run" => \A c \in Clients : c \in batch => Ready(c)

\* Without short reads a client that is done has left nothing undone.
Finished ==
    splits = 0 /\ spc = "run" =>
        \A c \in Clients :
            /\ pc[c] = "done" /\ conn[c] \in {"queued", "open"} =>
                   Whole(c) /\ toServer[c] = <<>> /\ round[c] = ROUNDS
            /\ pc[c] = "killed" => round[c] < ROUNDS

\* Each wakeup but the one of now was spent on a client or on a failed call.
Paid ==
    splits = 0 /\ spc = "run" =>
        cnt <= Cardinality(Spent) + faults + (IF batch = {} THEN 0 ELSE 1)

Account == BatchReady /\ Finished /\ Paid /\ NotCutShort

\* What was spent is a finite part of what all clients together may cost.
LEMMA SpentFinite ==
    ASSUME IsFiniteSet(Clients)
    PROVE  /\ IsFiniteSet(Clients \X (1 .. ROUNDS + 2))
           /\ Cardinality(Clients) \in Nat
           /\ Cardinality(Clients \X (1 .. ROUNDS + 2)) = Cardinality(Clients) * (ROUNDS + 2)
           /\ IsFiniteSet(Spent) /\ Cardinality(Spent) \in Nat
           /\ IsFiniteSet(Spent') /\ Cardinality(Spent') \in Nat
  <1>1. 1 \in Int /\ ROUNDS + 2 \in Int /\ (ROUNDS + 2) - 1 + 1 = ROUNDS + 2 /\ 1 <= ROUNDS + 2
    BY Constants
  <1>2. /\ IsFiniteSet(1 .. ROUNDS + 2)
        /\ Cardinality(1 .. ROUNDS + 2) = ROUNDS + 2
    BY <1>1, FS_Interval
  <1>3. /\ IsFiniteSet(Clients \X (1 .. ROUNDS + 2))
        /\ Cardinality(Clients \X (1 .. ROUNDS + 2)) = Cardinality(Clients) * (ROUNDS + 2)
    BY <1>2, FS_Product
  <1>4. /\ Spent \subseteq Clients \X (1 .. ROUNDS + 2)
        /\ Spent' \subseteq Clients \X (1 .. ROUNDS + 2)
    BY DEF Spent
  <1>5. IsFiniteSet(Spent) /\ IsFiniteSet(Spent')
    BY <1>3, <1>4, FS_Subset
  <1>. QED
    BY <1>3, <1>5, FS_CardinalityType

\* What was spent is not given back, and grows by a unit for each that a client's
\* cost grows.
LEMMA Spending ==
    ASSUME IsFiniteSet(Clients),
           \A c \in Clients : Cost(c) \in Nat /\ Cost(c)' \in Nat /\ Cost(c) <= Cost(c)'
    PROVE  /\ Cardinality(Spent) <= Cardinality(Spent')
           /\ \A c \in Clients, n \in 1 .. ROUNDS + 2 :
                  Cost(c) < n /\ n <= Cost(c)' =>
                      Cardinality(Spent) + 1 <= Cardinality(Spent')
  <1>1. Spent \subseteq Spent'
    <2>1. ASSUME NEW c \in Clients, NEW n \in 1 .. ROUNDS + 2, n <= Cost(c)
          PROVE  n <= Cost(c)'
      <3>1. Cost(c) \in Nat /\ Cost(c)' \in Nat /\ Cost(c) <= Cost(c)'
        OBVIOUS
      <3>2. n \in Nat
        BY Constants
      <3>. HIDE DEF Cost
      <3>. QED
        BY <2>1, <3>1, <3>2
    <2>2. \A s \in Clients \X (1 .. ROUNDS + 2) : s[1] \in Clients /\ s[2] \in 1 .. ROUNDS + 2
      OBVIOUS
    <2>3. \A s \in Clients \X (1 .. ROUNDS + 2) : s[2] <= Cost(s[1]) => s[2] <= Cost(s[1])'
      BY <2>1, <2>2
    <2>. QED
      BY <2>3 DEF Spent
  <1>2. /\ IsFiniteSet(Spent) /\ Cardinality(Spent) \in Nat
        /\ IsFiniteSet(Spent') /\ Cardinality(Spent') \in Nat
    BY SpentFinite
  <1>3. Cardinality(Spent) <= Cardinality(Spent')
    BY <1>1, <1>2, FS_Subset
  <1>4. ASSUME NEW c \in Clients, NEW n \in 1 .. ROUNDS + 2,
               Cost(c) < n, n <= Cost(c)'
        PROVE  Cardinality(Spent) + 1 <= Cardinality(Spent')
    <2>. DEFINE More == Spent \cup {<<c, n>>}
    <2>1. <<c, n>> \in Spent'
      BY <1>4 DEF Spent
    <2>2. <<c, n>> \notin Spent
      <3>1. Cost(c) \in Nat /\ n \in Nat
        BY Constants
      <3>2. ~(n <= Cost(c))
        <4>. HIDE DEF Cost
        <4>. QED
          BY <1>4, <3>1
      <3>. QED
        BY <3>2 DEF Spent
    <2>3. IsFiniteSet(More) /\ Cardinality(More) = Cardinality(Spent) + 1
      BY <1>2, <2>2, FS_AddElement
    <2>4. More \subseteq Spent'
      BY <1>1, <2>1
    <2>5. Cardinality(More) <= Cardinality(Spent')
      BY <1>2, <2>4, FS_Subset
    <2>. HIDE DEF More
    <2>. QED
      BY <2>3, <2>5
  <1>. QED
    BY <1>3, <1>4

\* Costs are numbers, before a step and after it.
LEMMA CostIs ==
    ASSUME NEW c \in Clients
    PROVE  /\ TypeOK => round[c] \in Nat /\ Echoed(c) \in Nat /\ Cost(c) \in Nat
           /\ TypeOK' => round'[c] \in Nat /\ Echoed(c)' \in Nat /\ Cost(c)' \in Nat
  <1>1. /\ TypeOK => round[c] \in 0 .. ROUNDS
        /\ TypeOK' => round'[c] \in 0 .. ROUNDS
    BY DEF TypeOK
  <1>2. \A n \in 0 .. ROUNDS : n \in Nat /\ n + 1 \in Nat
    BY Constants
  <1>3. \A n \in Nat : 1 + n \in Nat
    OBVIOUS
  <1>4. ROUNDS + 2 \in Nat
    BY Constants
  <1>5. /\ TypeOK => round[c] \in Nat /\ Echoed(c) \in Nat
        /\ TypeOK' => round'[c] \in Nat /\ Echoed(c)' \in Nat
    BY <1>1, <1>2 DEF Echoed
  <1>6. TypeOK => Cost(c) \in Nat
    <2>. HIDE DEF Echoed, TypeOK
    <2>. QED
      BY <1>3, <1>4, <1>5 DEF Cost
  <1>7. TypeOK' => Cost(c)' \in Nat
    <2>. HIDE DEF Echoed, TypeOK
    <2>. QED
      BY <1>3, <1>4, <1>5 DEF Cost
  <1>. QED
    BY <1>5, <1>6, <1>7

\* Lengths of what a client has and what is on its way to it.
LEMMA LengthsAre ==
    ASSUME NEW c \in Clients
    PROVE  /\ TypeOK => Len(got[c]) \in Nat /\ Len(toClient[c]) \in Nat
           /\ TypeOK' => Len(got'[c]) \in Nat /\ Len(toClient'[c]) \in Nat
  <1>1. /\ TypeOK => got[c] \in Seq(Clients) /\ toClient[c] \in Seq(Clients)
        /\ TypeOK' => got'[c] \in Seq(Clients) /\ toClient'[c] \in Seq(Clients)
    BY DEF TypeOK
  <1>. QED
    BY <1>1, LenProperties

\* A client whose side and whose connection a step leaves alone.
LEMMA Apart ==
    ASSUME NEW x \in Clients, Untouched(x), conn'[x] = conn[x]
    PROVE  /\ Cost(x)' = Cost(x) /\ (Whole(x)' <=> Whole(x)) /\ (Ready(x)' <=> Ready(x))
           /\ round'[x] = round[x] /\ pc'[x] = pc[x] /\ toServer'[x] = toServer[x]
  BY DEF Untouched, Cost, Echoed, Whole, Ready, Gone

\* Steps of a client.
LEMMA ClientPays ==
    ASSUME IsFiniteSet(Clients), IInv, IInv', Account, NEW c \in Clients,
           UNCHANGED server,
           \A x \in Clients : x # c => Untouched(x) /\ conn'[x] = conn[x],
           splits' = 0 => splits = 0,
           faults' \in {faults, faults + 1},
           spc = "run" /\ c \in batch /\ Ready(c) => Ready(c)',
           splits' = 0 /\ spc = "run" =>
               /\ Cost(c) <= Cost(c)'
               /\ pc'[c] = "done" /\ conn'[c] \in {"queued", "open"} =>
                      Whole(c)' /\ toServer'[c] = <<>> /\ round'[c] = ROUNDS
               /\ pc'[c] = "killed" => round'[c] < ROUNDS,
           splits' = 0 /\ pc'[c] # "killed" =>
               pc[c] # "killed" /\ (Whole(c) => Whole(c)')
    PROVE  Account'
  <1>1. UNCHANGED <<spc, cnt, batch>> /\ faults \in Nat /\ cnt \in Nat /\ faults' \in Nat
    <2>1. faults \in 0 .. MaxFaults /\ cnt \in 0 .. CNT_TRYOUTS
      BY DEF IInv, TypeOK
    <2>2. faults \in Nat /\ cnt \in Nat /\ faults + 1 \in Nat
      BY <2>1, Constants
    <2>. QED
      BY <2>2 DEF server
  <1>2. ASSUME NEW x \in Clients, x # c
        PROVE  /\ Cost(x)' = Cost(x) /\ (Whole(x)' <=> Whole(x)) /\ (Ready(x)' <=> Ready(x))
               /\ round'[x] = round[x] /\ pc'[x] = pc[x] /\ toServer'[x] = toServer[x]
               /\ conn'[x] = conn[x]
    BY <1>2, Apart
  <1>3. \A x \in Clients : Cost(x) \in Nat /\ Cost(x)' \in Nat
    BY CostIs DEF IInv
  <1>4. BatchReady'
    BY <1>1, <1>2 DEF Account, BatchReady
  <1>5. Finished'
    BY <1>1, <1>2 DEF Account, Finished
  <1>6. Paid'
    <2>1. ASSUME splits' = 0, spc = "run"
          PROVE  cnt' <= Cardinality(Spent') + faults' + (IF batch' = {} THEN 0 ELSE 1)
      <3>1. ASSUME NEW x \in Clients PROVE Cost(x) <= Cost(x)'
        <4>1. CASE x = c
          BY <2>1, <4>1
        <4>2. CASE x # c
          <5>. HIDE DEF Cost
          <5>. QED
            BY <1>2, <1>3, <4>2
        <4>. QED
          BY <4>1, <4>2
      <3>2. Cardinality(Spent) <= Cardinality(Spent')
        BY <1>3, <3>1, Spending
      <3>3. Cardinality(Spent) \in Nat /\ Cardinality(Spent') \in Nat
        BY SpentFinite
      <3>4. cnt <= Cardinality(Spent) + faults + (IF batch = {} THEN 0 ELSE 1)
        BY <2>1 DEF Account, Paid
      <3>. HIDE DEF Spent
      <3>5. faults <= faults'
        BY <1>1
      <3>. QED
        BY <1>1, <3>2, <3>3, <3>4, <3>5
    <2>. QED
      BY <1>1, <2>1 DEF Paid
  <1>7. NotCutShort'
    <2>1. ASSUME spc = "done", cnt > 0, splits' = 0,
                 CNT_TRYOUTS + 1 >= Cardinality(Clients) * (ROUNDS + 2) + faults'
          PROVE  CNT_TRYOUTS + 1 >= Cardinality(Clients) * (ROUNDS + 2) + faults
      <3>. DEFINE all == Cardinality(Clients) * (ROUNDS + 2)
      <3>1. all \in Nat
        <4>1. Cardinality(Clients) \in Nat /\ ROUNDS + 2 \in Nat
          BY SpentFinite, Constants
        <4>. QED
          BY <4>1
      <3>. HIDE DEF all
      <3>2. CNT_TRYOUTS + 1 >= all + faults'
        BY <2>1 DEF all
      <3>3. CNT_TRYOUTS + 1 >= all + faults
        <4>1. /\ faults \in Nat /\ faults' \in Nat /\ faults <= faults'
              /\ CNT_TRYOUTS \in Nat
          BY <1>1, Constants
        <4>2. ASSUME NEW n \in Nat, NEW a \in Nat, NEW f \in Nat, NEW g \in Nat,
                     f <= g, n + 1 >= a + g
              PROVE  n + 1 >= a + f
          BY <4>2
        <4>. QED
          BY <3>1, <3>2, <4>1, <4>2
      <3>. QED
        BY <3>3 DEF all
    <2>2. ASSUME spc = "done", cnt > 0, splits' = 0,
                 CNT_TRYOUTS + 1 >= Cardinality(Clients) * (ROUNDS + 2) + faults',
                 NEW x \in Clients, pc'[x] # "killed"
          PROVE  Whole(x)'
      <3>1. pc[x] # "killed" => Whole(x)
        BY <2>1, <2>2 DEF Account, NotCutShort, Whole
      <3>. QED
        BY <1>2, <2>2, <3>1
    <2>. QED
      BY <1>1, <2>2 DEF NotCutShort, Whole
  <1>. QED
    BY <1>4, <1>5, <1>6, <1>7 DEF Account

\* Steps of the server that deal with something of the batch.
LEMMA ServerPays ==
    ASSUME IsFiniteSet(Clients), IInv, IInv', Account,
           spc = "run", spc' = "run", batch # {}, cnt' = cnt,
           splits' = 0 => splits = 0,
           BatchReady', Finished',
           splits' = 0 => \A c \in Clients : Cost(c) <= Cost(c)',
           splits' = 0 =>
               \/ faults' = faults + 1
               \/ /\ faults' = faults
                  /\ \E c \in Clients, n \in 1 .. ROUNDS + 2 : Cost(c) < n /\ n <= Cost(c)'
    PROVE  Account'
  <1>1. faults \in Nat /\ cnt \in Nat /\ faults' \in Nat
    <2>1. faults \in 0 .. MaxFaults /\ cnt \in 0 .. CNT_TRYOUTS /\ faults' \in 0 .. MaxFaults
      BY DEF IInv, TypeOK
    <2>. QED
      BY <2>1, Constants
  <1>2. Paid'
    <2>1. ASSUME splits' = 0
          PROVE  cnt <= Cardinality(Spent') + faults' + (IF batch' = {} THEN 0 ELSE 1)
      <3>1. \A c \in Clients : Cost(c) \in Nat /\ Cost(c)' \in Nat /\ Cost(c) <= Cost(c)'
        BY <2>1, CostIs DEF IInv
      <3>2. /\ Cardinality(Spent) <= Cardinality(Spent')
            /\ \/ faults' = faults + 1
               \/ faults' = faults /\ Cardinality(Spent) + 1 <= Cardinality(Spent')
        BY <2>1, <3>1, Spending
      <3>3. Cardinality(Spent) \in Nat /\ Cardinality(Spent') \in Nat
        BY SpentFinite
      <3>4. cnt <= Cardinality(Spent) + faults + 1
        BY <2>1 DEF Account, Paid
      <3>. HIDE DEF Spent
      <3>. QED
        BY <1>1, <3>2, <3>3, <3>4
    <2>. QED
      BY <2>1 DEF Paid
  <1>3. NotCutShort'
    BY DEF NotCutShort
  <1>. QED
    BY <1>2, <1>3 DEF Account

\* Each action keeps the account.
LEMMA ConnectPays ==
    ASSUME IsFiniteSet(Clients), IInv, IInv', Account, NEW c \in Clients, Connect(c)
    PROVE  Account'
  <1>1. /\ pc[c] = "off" /\ conn[c] = "none"
        /\ pc \in [Clients -> {"off", "send", "recv", "done", "killed", "refused"}]
        /\ conn \in [Clients -> {"none", "queued", "open", "closed"}]
    BY DEF Connect, IInv, Places, Off, TypeOK
  <1>2. /\ UNCHANGED <<mode, server, wires, round, got, splits, faults>>
        /\ \/ conn' = [conn EXCEPT ![c] = "queued"] /\ pc' = [pc EXCEPT ![c] = "send"]
           \/ conn' = conn /\ pc' = [pc EXCEPT ![c] = "refused"]
    BY DEF Connect
  <1>3. \A x \in Clients : x # c => Untouched(x) /\ conn'[x] = conn[x]
    BY <1>1, <1>2 DEF Untouched, wires
  <1>4. pc'[c] \in {"send", "refused"} /\ conn'[c] \in {"none", "queued"}
    BY <1>1, <1>2
  <1>5. Cost(c) = 0 /\ Cost(c)' = 0 /\ ~Ready(c) /\ (Whole(c) => Whole(c)')
    BY <1>1, <1>2, <1>4 DEF Cost, Ready, Whole, wires
  <1>6. 0 <= 0
    OBVIOUS
  <1>. HIDE DEF Cost, Ready, Whole
  <1>. QED
    BY <1>1, <1>2, <1>3, <1>4, <1>5, <1>6, ClientPays

LEMMA ClientSendPays ==
    ASSUME IsFiniteSet(Clients), IInv, IInv', Account, NEW c \in Clients, ClientSend(c)
    PROVE  Account'
  <1>1. /\ pc[c] = "send" /\ round[c] < ROUNDS
        /\ pc \in [Clients -> {"off", "send", "recv", "done", "killed", "refused"}]
        /\ toServer \in [Clients -> Seq(Clients \cup {Nul})]
    BY DEF ClientSend, IInv, Places, TypeOK
  <1>2. UNCHANGED <<mode, server, queue, conn, toClient, reset, round, got,
                    splits, faults>>
    BY DEF ClientSend
  <1>3. /\ \/ conn[c] = "closed" /\ pc'[c] \in {"recv", "killed"} /\ UNCHANGED toServer
           \/ /\ conn[c] # "closed" /\ pc'[c] = "recv"
              /\ toServer' = [toServer EXCEPT ![c] = @ \o Message(c)]
        /\ \A x \in Clients : x # c => pc'[x] = pc[x]
    BY <1>1 DEF ClientSend
  <1>4. \A x \in Clients : x # c => Untouched(x) /\ conn'[x] = conn[x]
    BY <1>1, <1>2, <1>3 DEF Untouched
  <1>5. toServer[c] # <<>> \/ conn[c] # "closed" => toServer'[c] # <<>>
    <2>1. CASE conn[c] = "closed"
      BY <1>3, <2>1
    <2>2. CASE conn[c] # "closed"
      <3>. DEFINE s == toServer[c]
                  m == Message(c)
      <3>1. s \in Seq({c, Nul}) /\ m \in Seq({c, Nul}) /\ toServer'[c] = s \o m
            /\ Len(m) = TEXT + 1
        BY <1>1, <1>3, <2>2, MessageIs DEF IInv, Own
      <3>. HIDE DEF s, m
      <3>2. /\ s \o m \in Seq({c, Nul}) /\ Len(s \o m) = Len(s) + Len(m)
            /\ Len(s) \in Nat
        BY <3>1, Joined, LenProperties
      <3>3. Len(s \o m) # 0
        BY <3>1, <3>2, Constants
      <3>. QED
        BY <3>1, <3>3, Nothing
    <2>. QED
      BY <2>1, <2>2
  <1>6. Whole(c)' <=> Whole(c)
    BY <1>2 DEF Whole
  <1>7. Ready(c) => Ready(c)'
    BY <1>1, <1>2, <1>5 DEF Ready, Gone
  <1>8. Cost(c) <= Cost(c)'
    <2>1. Cost(c) \in Nat /\ Cost(c)' \in Nat /\ ROUNDS + 2 \in Nat
      BY CostIs, Constants DEF IInv
    <2>2. Cost(c)' = Cost(c) \/ (Cost(c) = 0 /\ Cost(c)' = ROUNDS + 2)
      <3>1. conn[c] = "open" => Echoed(c)' = Echoed(c)
        BY <1>1, <1>2, <1>3, <1>5 DEF Echoed
      <3>2. conn[c] \notin {"none", "queued", "open"} => conn[c] = "closed"
        BY DEF IInv, TypeOK
      <3>. QED
        BY <1>1, <1>2, <1>3, <1>6, <3>1, <3>2 DEF Cost
    <2>. HIDE DEF Cost
    <2>. QED
      BY <2>1, <2>2
  <1>9. faults' = faults /\ splits' = splits /\ UNCHANGED server /\ round'[c] < ROUNDS
        /\ pc'[c] # "done" /\ pc[c] # "killed"
    BY <1>1, <1>2, <1>3
  <1>. HIDE DEF Cost, Whole, Ready
  <1>. QED
    BY <1>4, <1>6, <1>7, <1>8, <1>9, ClientPays

LEMMA ClientKillPays ==
    ASSUME IsFiniteSet(Clients), IInv, IInv', Account, NEW c \in Clients, ClientKill(c)
    PROVE  Account'
  <1>1. /\ pc[c] \in {"send", "recv"} /\ round[c] < ROUNDS /\ ~Gone(c)
        /\ pc \in [Clients -> {"off", "send", "recv", "done", "killed", "refused"}]
    BY DEF ClientKill, IInv, Places, TypeOK, Gone
  <1>2. /\ UNCHANGED <<mode, server, queue, conn, toServer, toClient, round, got, splits>>
        /\ faults' = faults + 1 /\ pc' = [pc EXCEPT ![c] = "killed"]
        /\ reset \subseteq reset' /\ \A x \in Clients : x # c => (x \in reset' <=> x \in reset)
    BY DEF ClientKill, Leave
  <1>3. pc'[c] = "killed" /\ \A x \in Clients : x # c => Untouched(x) /\ conn'[x] = conn[x]
    BY <1>1, <1>2 DEF Untouched
  <1>4. Ready(c) => Ready(c)'
    BY <1>2, <1>3 DEF Ready, Gone
  <1>5. Cost(c) <= Cost(c)'
    <2>1. /\ Cost(c) \in Nat /\ Cost(c)' \in Nat /\ ROUNDS + 2 \in Nat
          /\ Echoed(c) \in Nat /\ Echoed(c)' \in Nat
      BY CostIs, Constants DEF IInv
    <2>2. CASE conn[c] \in {"none", "queued"}
      <3>1. Cost(c) = 0
        BY <2>2 DEF Cost
      <3>. HIDE DEF Cost
      <3>. QED
        BY <2>1, <3>1
    <2>3. CASE conn[c] = "open"
      <3>1. Echoed(c)' = Echoed(c) \/ Echoed(c)' = Echoed(c) + 1
        <4>1. round[c] \in Nat
          BY CostIs DEF IInv
        <4>. QED
          BY <1>1, <1>2, <1>3, <4>1 DEF Echoed
      <3>2. Cost(c) = 1 + Echoed(c) /\ Cost(c)' = 1 + Echoed(c)'
        BY <1>2, <2>3 DEF Cost
      <3>. HIDE DEF Cost, Echoed
      <3>. QED
        BY <2>1, <3>1, <3>2
    <2>4. CASE conn[c] \notin {"none", "queued", "open"}
      <3>1. Cost(c)' = ROUNDS + 2 /\ Cost(c) \in {0, ROUNDS + 2}
        BY <1>2, <1>3, <2>4 DEF Cost
      <3>. HIDE DEF Cost
      <3>. QED
        BY <2>1, <3>1
    <2>. QED
      BY <2>2, <2>3, <2>4
  <1>6. splits' = splits /\ UNCHANGED server /\ round'[c] < ROUNDS
    BY <1>1, <1>2
  <1>. HIDE DEF Cost, Whole, Ready
  <1>. QED
    BY <1>2, <1>3, <1>4, <1>5, <1>6, ClientPays

LEMMA ClientRecvPays ==
    ASSUME IsFiniteSet(Clients), IInv, IInv', Account, NEW c \in Clients, ClientRecv(c)
    PROVE  Account'
  <1>1. /\ pc[c] = "recv" /\ round[c] \in Nat /\ round[c] < ROUNDS /\ c \notin reset /\ ~Gone(c)
        /\ pc \in [Clients -> {"off", "send", "recv", "done", "killed", "refused"}]
        /\ round \in [Clients -> 0 .. ROUNDS]
        /\ got \in [Clients -> Seq(Clients)] /\ toClient \in [Clients -> Seq(Clients)]
    <2>1. round[c] \in Nat
      BY CostIs DEF IInv
    <2>. QED
      BY <2>1 DEF ClientRecv, IInv, Places, TypeOK, Gone
  <1>2. /\ UNCHANGED <<mode, server, queue, conn, toServer, faults>>
        /\ round' = [round EXCEPT ![c] = @ + 1]
        /\ \/ round[c] + 1 < ROUNDS /\ pc' = [pc EXCEPT ![c] = "send"]
           \/ ~(round[c] + 1 < ROUNDS) /\ pc' = [pc EXCEPT ![c] = "done"]
        /\ reset \subseteq reset' /\ \A x \in Clients : x # c => (x \in reset' <=> x \in reset)
    BY DEF ClientRecv, Leave
  <1>3. /\ \A x \in Clients : x # c => got'[x] = got[x] /\ toClient'[x] = toClient[x]
        /\ splits' = 0 => splits = 0
        /\ Whole(c)' <=> Whole(c)
        /\ splits' = 0 /\ conn[c] # "closed" =>
               toClient[c] # <<>> /\ toClient'[c] = <<>>
    <2>1. CASE UNCHANGED <<got, toClient, splits>> /\ conn[c] = "closed"
      BY <2>1 DEF Whole
    <2>2. ASSUME NEW k \in 1 .. Len(toClient[c]), Read(Len(toClient[c]), k),
                 got' = [got EXCEPT ![c] = @ \o SubSeq(toClient[c], 1, k)],
                 toClient' = [toClient EXCEPT ![c] = From(@, k)]
          PROVE  /\ \A x \in Clients : x # c => got'[x] = got[x] /\ toClient'[x] = toClient[x]
                 /\ splits' = 0 => splits = 0
                 /\ Whole(c)' <=> Whole(c)
                 /\ splits' = 0 => toClient[c] # <<>> /\ toClient'[c] = <<>>
      <3>. DEFINE s == toClient[c]
                  g == got[c]
      <3>1. s \in Seq(Clients) /\ g \in Seq(Clients)
        BY <1>1
      <3>2. got'[c] = g \o SubSeq(s, 1, k) /\ toClient'[c] = From(s, k)
        BY <1>1, <2>2
      <3>3. k \in 1 .. Len(s)
        OBVIOUS
      <3>. HIDE DEF s, g
      <3>4. /\ SubSeq(s, 1, k) \in Seq(Clients) /\ Len(SubSeq(s, 1, k)) = k
            /\ Len(From(s, k)) = Len(s) - k
            /\ k = Len(s) => From(s, k) = <<>>
        BY <3>1, <3>3, Cut
      <3>5. Len(got'[c]) = Len(g) + k /\ Len(g) \in Nat /\ Len(s) \in Nat
        BY <3>1, <3>2, <3>4, Joined, LenProperties
      <3>6. Len(got'[c]) + Len(toClient'[c]) = Len(g) + Len(s)
        BY <3>2, <3>3, <3>4, <3>5
      <3>7. splits' = 0 => splits = 0 /\ k = Len(s)
        <4>1. splits \in 0 .. MaxSplits /\ Read(Len(s), k)
          BY <2>2 DEF IInv, TypeOK, s
        <4>. QED
          BY <3>3, <3>5, <4>1, Constants DEF Read
      <3>8. s # <<>>
        BY <3>3, <3>5, NotEmpty, Nothing
      <3>. QED
        BY <1>1, <2>2, <3>2, <3>4, <3>6, <3>7, <3>8 DEF Whole, s, g
    <2>. QED
      BY <2>1, <2>2 DEF ClientRecv
  <1>4. \A x \in Clients : x # c => Untouched(x) /\ conn'[x] = conn[x]
    BY <1>1, <1>2, <1>3 DEF Untouched
  <1>5. pc'[c] \in {"send", "done"} /\ round'[c] = round[c] + 1 /\ toServer'[c] = toServer[c]
        /\ conn'[c] = conn[c] /\ (pc'[c] = "done" => round'[c] = ROUNDS)
    <2>1. ~(round[c] + 1 < ROUNDS) => round[c] + 1 = ROUNDS
      BY <1>1, Constants
    <2>. QED
      BY <1>1, <1>2, <2>1
  <1>6. Ready(c) => Ready(c)'
    BY <1>1, <1>2, <1>5 DEF Ready, Gone
  <1>7. ASSUME splits' = 0, conn[c] \in {"queued", "open"}
        PROVE  /\ toServer[c] = <<>> /\ Len(toClient[c]) = TEXT
               /\ Len(got[c]) = round[c] * TEXT
    <2>1. Turn(c) /\ toClient[c] # <<>>
      BY <1>1, <1>3, <1>7 DEF IInv, Flight
    <2>. QED
      BY <1>1, <2>1 DEF Turn
  <1>8. ASSUME splits' = 0, conn[c] \in {"queued", "open"}, pc'[c] = "done"
        PROVE  Whole(c)'
    <2>1. round[c] + 1 = ROUNDS /\ TEXT \in Nat
      BY <1>5, <1>8, Constants
    <2>2. \A r \in Nat, t \in Nat : r * t + t = (r + 1) * t
      OBVIOUS
    <2>3. Len(got[c]) + Len(toClient[c]) = ROUNDS * TEXT
      BY <1>1, <1>7, <1>8, <2>1, <2>2
    <2>. QED
      BY <1>3, <2>3 DEF Whole
  <1>9. splits' = 0 => Cost(c) <= Cost(c)'
    <2>1. Cost(c) \in Nat /\ Cost(c)' \in Nat
      BY CostIs DEF IInv
    <2>2. splits' = 0 => Cost(c)' = Cost(c)
      <3>1. splits' = 0 /\ conn[c] = "open" => Echoed(c)' = Echoed(c)
        BY <1>1, <1>5, <1>7 DEF Echoed
      <3>. QED
        BY <1>1, <1>3, <1>5, <3>1 DEF Cost
    <2>. HIDE DEF Cost
    <2>. QED
      BY <2>1, <2>2
  <1>10. faults' = faults /\ UNCHANGED server /\ pc'[c] # "killed" /\ pc[c] # "killed"
    BY <1>1, <1>2, <1>5
  <1>11. pc'[c] = "done" /\ conn'[c] \in {"queued", "open"} /\ splits' = 0 =>
             Whole(c)' /\ toServer'[c] = <<>> /\ round'[c] = ROUNDS
    BY <1>5, <1>7, <1>8
  <1>. HIDE DEF Cost, Whole, Ready
  <1>. QED
    BY <1>3, <1>4, <1>6, <1>9, <1>10, <1>11, ClientPays

LEMMA WakeupPays ==
    ASSUME IsFiniteSet(Clients), IInv, IInv', Account, Wakeup
    PROVE  Account'
  <1>1. /\ spc = "run" /\ batch = {} /\ batch' = Events /\ Events # {} /\ cnt' = cnt + 1
        /\ UNCHANGED <<mode, spc, fds, buffer, queue, conn, wires, client, splits, faults>>
    BY DEF Wakeup
  <1>2. \A x \in Clients : Untouched(x) /\ conn'[x] = conn[x]
    BY <1>1 DEF Untouched, wires, client
  <1>3. \A x \in Clients :
           /\ Cost(x)' = Cost(x) /\ (Whole(x)' <=> Whole(x)) /\ (Ready(x)' <=> Ready(x))
           /\ round'[x] = round[x] /\ pc'[x] = pc[x] /\ toServer'[x] = toServer[x]
    BY <1>2, Apart
  <1>4. BatchReady'
    BY <1>1, <1>3, Constants DEF BatchReady, Events
  <1>5. Finished'
    BY <1>1, <1>2, <1>3 DEF Account, Finished
  <1>6. Paid'
    <2>1. Spent' = Spent
      BY <1>3 DEF Spent
    <2>2. splits = 0 => cnt <= Cardinality(Spent) + faults
      <3>1. Cardinality(Spent) \in Nat /\ faults \in 0 .. MaxFaults
        BY SpentFinite DEF IInv, TypeOK
      <3>2. splits = 0 => cnt <= Cardinality(Spent) + faults + 0
        BY <1>1 DEF Account, Paid
      <3>3. \A n \in Nat, f \in Nat : n + f + 0 = n + f
        OBVIOUS
      <3>. QED
        BY <3>1, <3>2, <3>3, Constants
    <2>3. Cardinality(Spent) \in Nat /\ faults \in Nat /\ cnt \in Nat
      <3>1. faults \in 0 .. MaxFaults /\ cnt \in 0 .. CNT_TRYOUTS
        BY DEF IInv, TypeOK
      <3>. QED
        BY <3>1, SpentFinite, Constants
    <2>. HIDE DEF Spent
    <2>4. splits = 0 => cnt + 1 <= Cardinality(Spent) + faults + 1
      BY <2>2, <2>3
    <2>. QED
      BY <1>1, <2>1, <2>4 DEF Paid
  <1>7. NotCutShort'
    BY <1>1 DEF NotCutShort
  <1>. QED
    BY <1>4, <1>5, <1>6, <1>7 DEF Account

LEMMA AcceptPays ==
    ASSUME IsFiniteSet(Clients), IInv, IInv', Account, Accept
    PROVE  Account'
  <1>1. /\ spc = "run" /\ Listener \in batch /\ batch' = batch \ {Listener}
        /\ UNCHANGED <<mode, spc, cnt, buffer, wires, client, splits>>
    BY DEF Accept, Handle
  <1>2. ~Full
    <2>1. fds + 1 <= cnt + 1 /\ fds \in 1 .. cnt + 1 /\ cnt \in 0 .. CNT_TRYOUTS
      BY <1>1 DEF IInv, TypeOK, Slots
    <2>2. fds + 1 < MAX_FDS /\ fds \in Nat /\ MAX_FDS \in Nat
      BY <2>1, Constants
    <2>. QED
      BY <2>2 DEF Full
  <1>3. PICK h \in Clients : h = Head(queue) /\ conn[h] = "queued"
    <2>1. queue \in Seq(Clients) /\ queue # <<>>
      BY <1>1 DEF IInv, TypeOK, Places
    <2>2. Head(queue) \in Clients /\ Head(queue) = queue[1] /\ Len(queue) \in Nat /\ Len(queue) > 0
      BY <2>1, OneLess
    <2>. QED
      BY <2>2 DEF IInv, Places
  <1>4. \/ /\ conn' = [conn EXCEPT ![h] = "open"] /\ faults' = faults
        \/ /\ conn' \in {conn, [conn EXCEPT ![h] = "closed"]} /\ faults' = faults + 1
    BY <1>2, <1>3 DEF Accept, Accepted
  <1>5. conn \in [Clients -> {"none", "queued", "open", "closed"}]
    BY DEF IInv, TypeOK
  <1>6. ASSUME NEW x \in Clients
        PROVE  /\ Untouched(x) /\ (Whole(x)' <=> Whole(x))
               /\ round'[x] = round[x] /\ pc'[x] = pc[x] /\ toServer'[x] = toServer[x]
               /\ x # h => conn'[x] = conn[x]
    BY <1>1, <1>4, <1>5 DEF Untouched, wires, client, Whole
  <1>7. ASSUME NEW x \in Clients, x # h
        PROVE  /\ Cost(x)' = Cost(x) /\ (Whole(x)' <=> Whole(x)) /\ (Ready(x)' <=> Ready(x))
               /\ conn'[x] = conn[x]
    BY <1>6, <1>7, Apart
  <1>8. BatchReady'
    <2>1. ~Ready(h)
      BY <1>3 DEF Ready
    <2>. QED
      BY <1>1, <1>7, <2>1 DEF Account, BatchReady
  <1>9. Finished'
    <2>1. conn[h] \in {"queued", "open"}
      BY <1>3
    <2>. QED
      BY <1>1, <1>6, <2>1 DEF Account, Finished
  <1>10. Cost(h) = 0 /\ Cost(h)' \in Nat /\ \A x \in Clients : Cost(x) \in Nat
    BY <1>3, CostIs DEF IInv, Cost
  <1>11. \A x \in Clients : Cost(x) <= Cost(x)'
    <2>1. \A x \in Clients : x # h => Cost(x)' = Cost(x)
      BY <1>7
    <2>. HIDE DEF Cost
    <2>. QED
      BY <1>10, <2>1
  <1>12. conn' = [conn EXCEPT ![h] = "open"] => 0 < 1 /\ 1 <= Cost(h)'
    <2>1. Echoed(h)' \in Nat
      BY <1>3, CostIs DEF IInv
    <2>2. conn' = [conn EXCEPT ![h] = "open"] => conn'[h] = "open"
      BY <1>3, <1>5
    <2>3. conn' = [conn EXCEPT ![h] = "open"] => Cost(h)' = 1 + Echoed(h)'
      BY <2>2 DEF Cost
    <2>. HIDE DEF Cost, Echoed
    <2>. QED
      BY <2>1, <2>3
  <1>13. 1 \in 1 .. ROUNDS + 2 /\ batch # {} /\ cnt' = cnt /\ spc' = "run" /\ splits' = splits
    BY <1>1, Constants
  <1>14. faults' = faults + 1
         \/ (faults' = faults /\ \E c \in Clients, n \in 1 .. ROUNDS + 2 :
                                     Cost(c) < n /\ n <= Cost(c)')
    <2>. HIDE DEF Cost
    <2>. QED
      BY <1>3, <1>4, <1>10, <1>12, <1>13
  <1>. HIDE DEF Cost
  <1>. QED
    BY <1>1, <1>8, <1>9, <1>11, <1>13, <1>14, ServerPays

LEMMA HangupPays ==
    ASSUME IsFiniteSet(Clients), IInv, IInv', Account, NEW c \in Clients, Hangup(c)
    PROVE  Account'
  <1>1. /\ spc = "run" /\ c \in batch /\ batch' = batch \ {c}
        /\ toServer[c] = <<>> \/ c \in reset
        /\ conn' = [conn EXCEPT ![c] = "closed"]
        /\ toServer' = [toServer EXCEPT ![c] = <<>>]
        /\ UNCHANGED <<mode, spc, cnt, buffer, queue, toClient, reset, client, splits, faults>>
    BY DEF Hangup, Handle
  <1>2. /\ conn \in [Clients -> {"none", "queued", "open", "closed"}]
        /\ toServer \in [Clients -> Seq(Clients \cup {Nul})]
    BY DEF IInv, TypeOK
  <1>3. conn[c] = "open" /\ Gone(c)
    BY <1>1 DEF Account, BatchReady, Ready, IInv, Places
  <1>4. ASSUME NEW x \in Clients, x # c
        PROVE  /\ Cost(x)' = Cost(x) /\ (Whole(x)' <=> Whole(x)) /\ (Ready(x)' <=> Ready(x))
               /\ round'[x] = round[x] /\ pc'[x] = pc[x] /\ toServer'[x] = toServer[x]
               /\ conn'[x] = conn[x]
    <2>1. Untouched(x) /\ conn'[x] = conn[x]
      BY <1>1, <1>2, <1>4 DEF Untouched, client
    <2>. QED
      BY <2>1, Apart
  <1>5. /\ conn'[c] = "closed" /\ pc'[c] = pc[c] /\ round'[c] = round[c]
        /\ Whole(c)' <=> Whole(c)
    BY <1>1, <1>2 DEF client, Whole
  <1>6. BatchReady'
    BY <1>1, <1>4 DEF Account, BatchReady
  <1>7. Finished'
    BY <1>1, <1>4, <1>5 DEF Account, Finished
  <1>8. \A x \in Clients : Cost(x) \in Nat /\ Cost(x)' \in Nat
    BY CostIs DEF IInv
  <1>9. splits = 0 => Cost(c) <= ROUNDS + 1 /\ Cost(c)' = ROUNDS + 2
    <2>1. round[c] \in Nat /\ Echoed(c) \in Nat
      BY CostIs DEF IInv
    <2>2. splits = 0 => Echoed(c) <= ROUNDS /\ (pc[c] = "killed" \/ Whole(c))
      <3>1. CASE pc[c] = "done"
        <4>1. splits = 0 => Echoed(c) = ROUNDS /\ Whole(c)
          BY <1>1, <1>3, <3>1 DEF Account, Finished, Echoed
        <4>. HIDE DEF Echoed, Whole
        <4>. QED
          BY <4>1, Constants
      <3>2. CASE pc[c] = "killed"
        <4>1. splits = 0 => round[c] < ROUNDS
          BY <1>1, <3>2 DEF Account, Finished
        <4>2. Echoed(c) \in {round[c], round[c] + 1}
          BY DEF Echoed
        <4>. HIDE DEF Echoed, Whole
        <4>. QED
          BY <2>1, <3>2, <4>1, <4>2, Constants
      <3>. QED
        BY <1>3, <3>1, <3>2 DEF Gone
    <2>3. Cost(c) = 1 + Echoed(c)
      BY <1>3 DEF Cost
    <2>4. pc[c] = "killed" \/ Whole(c) => Cost(c)' = ROUNDS + 2
      BY <1>5 DEF Cost
    <2>. HIDE DEF Cost, Echoed, Whole
    <2>. QED
      BY <2>1, <2>2, <2>3, <2>4, Constants
  <1>10. splits = 0 => \A x \in Clients : Cost(x) <= Cost(x)'
    <2>1. \A x \in Clients : x # c => Cost(x)' = Cost(x)
      BY <1>4
    <2>. HIDE DEF Cost
    <2>. QED
      BY <1>8, <1>9, <2>1, Constants
  <1>11. splits = 0 => Cost(c) < ROUNDS + 2 /\ ROUNDS + 2 <= Cost(c)' /\ ROUNDS + 2 \in 1 .. ROUNDS + 2
    <2>1. Cost(c) \in Nat
      BY <1>8
    <2>. HIDE DEF Cost
    <2>. QED
      BY <1>9, <2>1, Constants
  <1>12. batch # {} /\ cnt' = cnt /\ spc' = "run" /\ splits' = splits /\ faults' = faults
    BY <1>1
  <1>. HIDE DEF Cost
  <1>. QED
    BY <1>1, <1>6, <1>7, <1>10, <1>11, <1>12, ServerPays

LEMMA EchoPays ==
    ASSUME IsFiniteSet(Clients), IInv, IInv', Account, NEW c \in Clients, Echo(c)
    PROVE  Account'
  <1>1. PICK k \in 1 .. Len(toServer[c]) :
               /\ Read(Len(toServer[c]), k)
               /\ toServer' = [toServer EXCEPT ![c] = From(@, k)]
               /\ Send(c, CString(Filled(SubSeq(toServer[c], 1, k))))
    BY DEF Echo
  <1>2. /\ spc = "run" /\ c \in batch /\ batch' = batch \ {c} /\ toServer[c] # <<>>
        /\ UNCHANGED <<mode, cnt, fds, client, faults>>
    BY DEF Echo, Handle
  <1>3. CASE spc' = "killed"
    BY <1>3 DEF Account, BatchReady, Finished, Paid, NotCutShort
  <1>4. CASE spc' # "killed"
    <2>1. UNCHANGED <<spc, conn, queue>>
          /\ \A x \in Clients : x # c =>
                 toClient'[x] = toClient[x] /\ (x \in reset' <=> x \in reset)
      BY <1>1, <1>4 DEF Send, Ended, IInv, TypeOK
    <2>2. toServer \in [Clients -> Seq(Clients \cup {Nul})] /\ conn[c] = "open"
          /\ toServer[c] \in Seq(Clients \cup {Nul})
      BY <1>2 DEF IInv, TypeOK, Places
    <2>3. ASSUME NEW x \in Clients, x # c
          PROVE  /\ Cost(x)' = Cost(x) /\ (Whole(x)' <=> Whole(x)) /\ (Ready(x)' <=> Ready(x))
                 /\ round'[x] = round[x] /\ pc'[x] = pc[x] /\ toServer'[x] = toServer[x]
                 /\ conn'[x] = conn[x]
      <3>1. Untouched(x) /\ conn'[x] = conn[x]
        BY <1>1, <1>2, <2>1, <2>2, <2>3 DEF Untouched, client
      <3>. QED
        BY <3>1, Apart
    <2>4. splits' = 0 => splits = 0 /\ toServer'[c] = <<>>
      <3>1. splits \in 0 .. MaxSplits /\ Len(toServer[c]) \in Nat
        BY <2>2, LenProperties DEF IInv, TypeOK
      <3>2. k = Len(toServer[c]) => From(toServer[c], k) = <<>>
        BY <2>2, Cut
      <3>. QED
        BY <1>1, <2>2, <3>1, <3>2, Constants DEF Read
    <2>5. BatchReady'
      BY <1>2, <2>1, <2>3 DEF Account, BatchReady
    <2>6. Finished'
      <3>1. splits' = 0 => pc[c] # "done"
        BY <1>2, <2>2, <2>4 DEF Account, Finished
      <3>2. pc'[c] = pc[c] /\ round'[c] = round[c]
        BY <1>2 DEF client
      <3>. QED
        BY <1>2, <2>1, <2>3, <2>4, <3>1, <3>2 DEF Account, Finished
    <2>7. \A x \in Clients : Cost(x) \in Nat /\ Cost(x)' \in Nat
      BY CostIs DEF IInv
    <2>8. splits' = 0 => Cost(c)' = Cost(c) + 1 /\ Cost(c) + 1 \in 1 .. ROUNDS + 2
      <3>1. splits' = 0 => pc[c] \in {"recv", "killed"} /\ round[c] < ROUNDS
        <4>1. CASE Gone(c)
          BY <1>2, <2>2, <2>4, <4>1 DEF Gone, Account, Finished
        <4>2. CASE ~Gone(c)
          <5>1. splits' = 0 => Turn(c)
            BY <2>2, <2>4, <4>2 DEF IInv, Flight
          <5>2. splits' = 0 => pc[c] = "recv"
            BY <1>2, <5>1 DEF Turn
          <5>. QED
            BY <5>2 DEF IInv, Places
        <4>. QED
          BY <4>1, <4>2
      <3>2. /\ Cost(c) = 1 + Echoed(c) /\ Cost(c)' = 1 + Echoed(c)'
            /\ Echoed(c) = round[c] /\ pc'[c] = pc[c] /\ round'[c] = round[c]
        <4>1. pc'[c] = pc[c] /\ round'[c] = round[c] /\ conn'[c] = "open"
          BY <1>2, <2>1, <2>2 DEF client
        <4>. QED
          BY <1>2, <2>2, <4>1 DEF Cost, Echoed
      <3>3. splits' = 0 => Echoed(c)' = round[c] + 1
        BY <2>4, <3>1, <3>2 DEF Echoed
      <3>4. round[c] \in Nat
        BY CostIs DEF IInv
      <3>. HIDE DEF Cost, Echoed
      <3>. QED
        BY <3>1, <3>2, <3>3, <3>4, Constants
    <2>9. splits' = 0 => \A x \in Clients : Cost(x) <= Cost(x)'
      <3>1. \A x \in Clients : x # c => Cost(x)' = Cost(x)
        BY <2>3
      <3>. HIDE DEF Cost
      <3>. QED
        BY <2>7, <2>8, <3>1
    <2>10. splits' = 0 => \E n \in 1 .. ROUNDS + 2 : Cost(c) < n /\ n <= Cost(c)'
      <3>1. Cost(c) \in Nat
        BY <2>7
      <3>. HIDE DEF Cost
      <3>. QED
        BY <2>8, <3>1
    <2>11. /\ batch # {} /\ cnt' = cnt /\ spc' = "run" /\ faults' = faults
           /\ splits' = 0 => splits = 0
      BY <1>2, <2>1, <2>4
    <2>. HIDE DEF Cost
    <2>. QED
      BY <1>2, <2>5, <2>6, <2>9, <2>10, <2>11, ServerPays
  <1>. QED
    BY <1>3, <1>4

\* What a client that is still owed something can have cost.
LEMMA OwedCost ==
    ASSUME IInv, Account, splits = 0, spc = "run", NEW c \in Clients,
           pc[c] # "killed", ~Whole(c)
    PROVE  Cost(c) <= ROUNDS
  <1>1. round[c] \in Nat /\ Echoed(c) \in Nat /\ Cost(c) \in Nat
    BY CostIs DEF IInv
  <1>2. CASE conn[c] # "open"
    <2>1. Cost(c) = 0
      BY <1>2 DEF Cost
    <2>. HIDE DEF Cost
    <2>. QED
      BY <2>1, Constants
  <1>3. CASE conn[c] = "open"
    <2>1. pc[c] \in {"send", "recv"} /\ ~Gone(c) /\ round[c] < ROUNDS
      <3>1. pc[c] # "done"
        BY <1>3 DEF Account, Finished
      <3>2. pc[c] \notin {"off", "refused"}
        BY <1>3 DEF IInv, Places, Off
      <3>3. pc[c] \in {"send", "recv"}
        BY <3>1, <3>2 DEF IInv, TypeOK
      <3>. QED
        BY <3>3 DEF IInv, Places, Gone
    <2>2. Turn(c)
      BY <1>3, <2>1 DEF IInv, Flight
    <2>3. Echoed(c) < ROUNDS
      <3>1. CASE Echoed(c) = round[c]
        BY <2>1, <3>1
      <3>2. CASE Echoed(c) # round[c]
        <4>1. pc[c] = "recv" /\ toServer[c] = <<>> /\ Echoed(c) = round[c] + 1
          BY <2>1, <3>2 DEF Echoed
        <4>2. Len(got[c]) = round[c] * TEXT /\ Len(toClient[c]) = TEXT
          BY <2>2, <4>1, MessageIs DEF Turn
        <4>3. \A r \in Nat, t \in Nat : r * t + t = (r + 1) * t
          OBVIOUS
        <4>4. Len(got[c]) + Len(toClient[c]) = (round[c] + 1) * TEXT
          BY <1>1, <4>2, <4>3, Constants
        <4>5. round[c] + 1 # ROUNDS
          BY <4>4 DEF Whole
        <4>. HIDE DEF Echoed
        <4>. QED
          BY <1>1, <2>1, <4>1, <4>5, Constants
      <3>. QED
        BY <3>1, <3>2
    <2>4. Cost(c) = 1 + Echoed(c)
      BY <1>3 DEF Cost
    <2>. HIDE DEF Cost, Echoed
    <2>. QED
      BY <1>1, <2>3, <2>4, Constants
  <1>. QED
    BY <1>2, <1>3

\* When the wakeups are used up and were enough, nobody is owed anything.
LEMMA ExitPays ==
    ASSUME IsFiniteSet(Clients), IInv, IInv', Account, Exit
    PROVE  Account'
  <1>1. /\ spc = "run" /\ batch = {} /\ cnt = CNT_TRYOUTS /\ spc' = "done"
        /\ UNCHANGED <<mode, cnt, fds, batch, buffer, wires, client, splits, faults>>
    BY DEF Exit, Ended
  <1>. DEFINE N == ROUNDS + 2
              All == Clients \X (1 .. N)
  <1>2. ASSUME splits = 0, NEW c \in Clients, pc[c] # "killed", ~Whole(c),
               CNT_TRYOUTS + 1 >= Cardinality(Clients) * N + faults
        PROVE  FALSE
    <2>1. Cost(c) \in Nat /\ Cost(c) <= ROUNDS /\ N \in Nat /\ N - 1 \in Nat
          /\ N \in 1 .. N /\ N - 1 \in 1 .. N /\ N # N - 1
          /\ ~(N <= Cost(c)) /\ ~(N - 1 <= Cost(c))
      <3>1. Cost(c) \in Nat /\ Cost(c) <= ROUNDS
        BY <1>1, <1>2, OwedCost, CostIs DEF IInv
      <3>. HIDE DEF Cost
      <3>. QED
        BY <3>1, Constants
    <2>. DEFINE Less == (All \ {<<c, N>>}) \ {<<c, N - 1>>}
    <2>2. Spent \subseteq Less
      <3>1. <<c, N>> \notin Spent /\ <<c, N - 1>> \notin Spent
        BY <2>1 DEF Spent
      <3>. QED
        BY <3>1 DEF Spent
    <2>3. /\ IsFiniteSet(All) /\ Cardinality(All) = Cardinality(Clients) * N
          /\ Cardinality(Clients) \in Nat /\ Cardinality(Spent) \in Nat
      BY SpentFinite
    <2>4. <<c, N>> \in All /\ <<c, N - 1>> \in All \ {<<c, N>>}
      BY <2>1
    <2>. HIDE DEF All, Spent
    <2>5. /\ IsFiniteSet(All \ {<<c, N>>})
          /\ Cardinality(All \ {<<c, N>>}) = Cardinality(All) - 1
      BY <2>3, <2>4, FS_RemoveElement
    <2>6. IsFiniteSet(Less) /\ Cardinality(Less) = Cardinality(All \ {<<c, N>>}) - 1
      BY <2>4, <2>5, FS_RemoveElement
    <2>7. Cardinality(Spent) <= Cardinality(Less)
      BY <2>2, <2>6, FS_Subset
    <2>8. CNT_TRYOUTS <= Cardinality(Spent) + faults + 0
      BY <1>1, <1>2 DEF Account, Paid
    <2>9. faults \in Nat /\ CNT_TRYOUTS \in Nat /\ Cardinality(Clients) * N \in Nat
      <3>1. faults \in 0 .. MaxFaults
        BY DEF IInv, TypeOK
      <3>2. \A a \in Nat, b \in Nat : a * b \in Nat
        OBVIOUS
      <3>. HIDE DEF N
      <3>. QED
        BY <2>1, <2>3, <3>1, <3>2, Constants
    <2>. HIDE DEF Less, N
    <2>. QED
      BY <1>2, <2>3, <2>5, <2>6, <2>7, <2>8, <2>9
  <1>3. \A c \in Clients : pc'[c] = pc[c] /\ (Whole(c)' <=> Whole(c))
    BY <1>1 DEF wires, client, Whole
  <1>4. NotCutShort'
    <2>1. ASSUME splits' = 0, CNT_TRYOUTS + 1 >= Cardinality(Clients) * (ROUNDS + 2) + faults',
                 NEW c \in Clients, pc'[c] # "killed"
          PROVE  Whole(c)'
      <3>. HIDE DEF Whole
      <3>. QED
        BY <1>1, <1>2, <1>3, <2>1
    <2>. QED
      BY <2>1 DEF NotCutShort, Whole
  <1>5. BatchReady' /\ Finished' /\ Paid'
    BY <1>1 DEF BatchReady, Finished, Paid
  <1>. QED
    BY <1>4, <1>5 DEF Account

\* A server that could not set its epoll up has had no wakeup.
LEMMA EpollFailsPays == ASSUME IInv, EpollFails PROVE Account'
  <1>1. spc' = "done" /\ cnt' = 0
    BY DEF EpollFails, Ended
  <1>. QED
    BY <1>1 DEF Account, BatchReady, Finished, Paid, NotCutShort

LEMMA InitPays == ASSUME IsFiniteSet(Clients), Init PROVE Account
  <1>1. BatchReady /\ Finished /\ NotCutShort
    BY DEF Init, BatchReady, Finished, NotCutShort
  <1>2. Paid
    <2>1. Cardinality(Spent) \in Nat
      BY SpentFinite
    <2>2. cnt = 0 /\ faults = 0 /\ batch = {}
      BY DEF Init
    <2>. HIDE DEF Spent
    <2>3. 0 <= Cardinality(Spent) + 0 + 0
      BY <2>1
    <2>. QED
      BY <2>2, <2>3 DEF Paid
  <1>. QED
    BY <1>1, <1>2 DEF Account

LEMMA StutterPays == ASSUME Account, UNCHANGED vars PROVE Account'
  BY DEF Account, BatchReady, Finished, Paid, NotCutShort, Spent, Cost, Echoed,
         Whole, Ready, Gone, vars

\* When the server leaves, and its wakeups were enough for what every client may
\* need, each client that lives has all its replies.
THEOREM EnoughWakeups == ASSUME IsFiniteSet(Clients) PROVE Spec => []NotCutShort
  <1>1. Init => Account
    BY InitPays
  <1>2. ASSUME IInv, IInv', Account, [Next]_vars PROVE Account'
    <2>1. CASE Wakeup
      BY <1>2, <2>1, WakeupPays
    <2>2. CASE Accept
      BY <1>2, <2>2, AcceptPays
    <2>3. CASE Exit
      BY <1>2, <2>3, ExitPays
    <2>11. CASE EpollFails
      BY <1>2, <2>11, EpollFailsPays
    <2>4. ASSUME NEW c \in Clients, Hangup(c) PROVE Account'
      BY <1>2, <2>4, HangupPays
    <2>5. ASSUME NEW c \in Clients, Echo(c) PROVE Account'
      BY <1>2, <2>5, EchoPays
    <2>6. ASSUME NEW c \in Clients, Connect(c) PROVE Account'
      BY <1>2, <2>6, ConnectPays
    <2>7. ASSUME NEW c \in Clients, ClientSend(c) PROVE Account'
      BY <1>2, <2>7, ClientSendPays
    <2>8. ASSUME NEW c \in Clients, ClientRecv(c) PROVE Account'
      BY <1>2, <2>8, ClientRecvPays
    <2>9. ASSUME NEW c \in Clients, ClientKill(c) PROVE Account'
      BY <1>2, <2>9, ClientKillPays
    <2>10. CASE UNCHANGED vars
      BY <1>2, <2>10, StutterPays
    <2>. QED
      BY <1>2, <2>1, <2>2, <2>3, <2>4, <2>5, <2>6, <2>7, <2>8, <2>9, <2>10, <2>11
         DEF Next, ServerStep, ClientStep
  <1>3. Account => NotCutShort
    BY DEF Account
  <1>. QED
    BY <1>1, <1>2, <1>3, Invariant, PTL DEF Spec

-----------------------------------------------------------------------------
(* Nobody waits in vain.                                                   *)

\* The server's sockets block: recv and accept are called because select, poll or
\* epoll_wait has found the descriptor ready, maybe some handlers before.
NeverBlocks ==
    spc = "run" =>
        /\ \A c \in Clients : c \in batch => Ready(c)
        /\ Listener \in batch => queue # <<>>

\* Without short reads a client that waits for its reply waits for a server that
\* runs and that select, poll or epoll_wait will wake up: its message is there, or its
\* connection is to be accepted.
NobodyInVain ==
    splits = 0 =>
        \A c \in Clients : pc[c] = "recv" /\ toClient[c] = <<>> /\ conn[c] # "closed" =>
            /\ spc = "run"
            /\ Ready(c) \/ (conn[c] = "queued" /\ Listener \in Events)

\* Who is connected is known to the server, and a server that has ended has closed
\* all connections.
Connected ==
    /\ \A c \in Clients : pc[c] \in {"send", "recv"} => conn[c] # "none"
    /\ \A c \in Clients : conn[c] = "queued" => \E n \in 1 .. Len(queue) : queue[n] = c
    /\ spc # "run" => \A c \in Clients : conn[c] \in {"none", "closed"}

Watched == Connected /\ BatchReady

LEMMA EndedWatched ==
    ASSUME IInv, Connected, NEW how \in {"done", "killed"}, Ended(how), UNCHANGED pc
    PROVE  Watched'
  <1>1. /\ spc' # "run"
        /\ \A c \in Clients : conn'[c] = IF conn[c] = "none" THEN "none" ELSE "closed"
    BY DEF Ended
  <1>2. Connected'
    BY <1>1 DEF Connected
  <1>. QED
    BY <1>1, <1>2 DEF Watched, BatchReady

LEMMA ConnectWatched ==
    ASSUME IInv, Watched, NEW c \in Clients, Connect(c) PROVE Watched'
  <1>0. /\ pc[c] = "off" /\ UNCHANGED <<spc, batch, toServer, reset>>
        /\ \A b \in Clients : b # c => pc'[b] = pc[b]
        /\ pc \in [Clients -> {"off", "send", "recv", "done", "killed", "refused"}]
        /\ conn \in [Clients -> {"none", "queued", "open", "closed"}]
        /\ queue \in Seq(Clients)
    BY DEF Connect, server, wires, IInv, TypeOK
  <1>00. conn[c] = "none"
    BY <1>0 DEF IInv, Places, Off
  <1>1. CASE spc = "run"
    <2>1. /\ queue' = Append(queue, c) /\ pc'[c] = "send"
          /\ conn' = [conn EXCEPT ![c] = "queued"]
      BY <1>0, <1>1 DEF Connect
    <2>2. /\ Len(Append(queue, c)) = Len(queue) + 1 /\ Len(queue) \in Nat
          /\ Append(queue, c)[Len(queue) + 1] = c
          /\ \A n \in 1 .. Len(queue) : Append(queue, c)[n] = queue[n]
      BY <1>0, OneMore
    <2>3. /\ Len(queue) + 1 \in 1 .. Len(queue') /\ queue'[Len(queue) + 1] = c
          /\ \A n \in 1 .. Len(queue) : n \in 1 .. Len(queue') /\ queue'[n] = queue[n]
      BY <2>1, <2>2
    <2>4. conn'[c] = "queued" /\ \A b \in Clients : b # c => conn'[b] = conn[b]
      BY <1>0, <2>1
    <2>5. \A b \in Clients : conn'[b] = "queued" => \E n \in 1 .. Len(queue') : queue'[n] = b
      BY <2>3, <2>4 DEF Watched, Connected
    <2>6. Connected'
      BY <1>0, <1>1, <2>4, <2>5 DEF Watched, Connected
    <2>7. BatchReady'
      <3>1. \A b \in Clients : b \in batch => b # c
        BY <1>00, <1>1 DEF IInv, Places
      <3>. QED
        BY <1>0, <2>4, <3>1 DEF Watched, BatchReady, Ready, Gone
    <2>. QED
      BY <2>6, <2>7 DEF Watched
  <1>2. CASE spc # "run"
    <2>1. UNCHANGED <<queue, conn>> /\ pc'[c] = "refused"
      BY <1>0, <1>2 DEF Connect
    <2>. QED
      BY <1>0, <1>2, <2>1 DEF Watched, Connected, BatchReady
  <1>. QED
    BY <1>1, <1>2

\* The other steps of a client: what was ready for the server stays so.
LEMMA ClientWatched ==
    ASSUME IInv, Watched, NEW c \in Clients, ClientStep(c) \/ ClientKill(c) PROVE Watched'
  <1>1. /\ UNCHANGED <<spc, batch, queue, conn>> /\ pc[c] \in {"send", "recv"} /\ reset \subseteq reset'
        /\ \A b \in Clients : b # c => pc'[b] = pc[b]
    BY DEF ClientStep, ClientSend, ClientRecv, ClientKill, Leave, server, wires, IInv, TypeOK
  <1>2. \A b \in Clients : toServer[b] # <<>> => toServer'[b] # <<>>
    <2>1. CASE UNCHANGED toServer
      BY <2>1
    <2>2. CASE toServer' = [toServer EXCEPT ![c] = @ \o Message(c)]
      <3>1. toServer[c] \in Seq(Clients \cup {Nul}) /\ Message(c) \in Seq(Clients \cup {Nul})
        BY MessageIs, Wider DEF IInv, TypeOK
      <3>2. Len(toServer[c] \o Message(c)) = Len(toServer[c]) + Len(Message(c))
            /\ Len(toServer[c]) \in Nat /\ Len(Message(c)) \in Nat
        BY <3>1
      <3>3. toServer[c] # <<>> => toServer[c] \o Message(c) # <<>>
        <4>1. toServer[c] # <<>> => Len(toServer[c]) > 0
          BY <3>1, NotEmpty
        <4>2. Len(<<>>) = 0
          OBVIOUS
        <4>. QED
          BY <3>2, <4>1, <4>2
      <3>4. \A b \in Clients : toServer'[b] = IF b = c THEN toServer[c] \o Message(c) ELSE toServer[b]
        BY <2>2 DEF IInv, TypeOK
      <3>. QED
        BY <3>3, <3>4
    <2>. QED
      BY <2>1, <2>2 DEF ClientStep, ClientSend, ClientRecv, ClientKill, wires
  <1>3. Connected'
    BY <1>1 DEF Watched, Connected
  <1>4. BatchReady'
    BY <1>1, <1>2 DEF Watched, BatchReady, Ready, Gone
  <1>. QED
    BY <1>3, <1>4 DEF Watched

LEMMA AcceptWatched ==
    ASSUME IInv, Watched, Accept PROVE Watched'
  <1>1. /\ spc = "run" /\ Listener \in batch /\ batch' = batch \ {Listener}
        /\ UNCHANGED <<spc, toServer, reset, pc>>
        /\ conn \in [Clients -> {"none", "queued", "open", "closed"}]
        /\ queue \in Seq(Clients) /\ queue # <<>>
    BY DEF Accept, Handle, wires, client, IInv, TypeOK, Places
  <1>2. CASE UNCHANGED <<conn, queue>>
    BY <1>1, <1>2 DEF Watched, Connected, BatchReady, Ready, Gone
  <1>3. CASE \E state \in {"open", "closed"} :
                 conn' = [conn EXCEPT ![Head(queue)] = state] /\ queue' = Tail(queue)
    <2>. DEFINE h == Head(queue)
    <2>1. PICK state \in {"open", "closed"} : conn' = [conn EXCEPT ![h] = state]
      BY <1>3
    <2>2. /\ h \in Clients /\ h = queue[1] /\ Len(queue) \in Nat
          /\ Len(Tail(queue)) = Len(queue) - 1
          /\ \A m \in 1 .. Len(Tail(queue)) : Tail(queue)[m] = queue[m + 1]
      BY <1>1, OneLess
    <2>3. queue' = Tail(queue)
      BY <1>3
    <2>4. conn[h] = "queued"
      BY <1>1, <2>2, NotEmpty DEF IInv, Places
    <2>. HIDE DEF h
    <2>5. \A b \in Clients : conn'[b] = IF b = h THEN state ELSE conn[b]
      BY <1>1, <2>1
    <2>6. ASSUME NEW b \in Clients, conn'[b] = "queued"
          PROVE  \E n \in 1 .. Len(queue') : queue'[n] = b
      <3>1. b # h /\ conn[b] = "queued"
        BY <2>5, <2>6
      <3>2. PICK n \in 1 .. Len(queue) : queue[n] = b
        BY <3>1 DEF Watched, Connected
      <3>3. n \in Int /\ n - 1 \in 1 .. (Len(queue) - 1) /\ (n - 1) + 1 = n
        BY <2>2, <3>1, <3>2
      <3>4. n - 1 \in 1 .. Len(Tail(queue))
        BY <2>2, <3>3
      <3>5. Tail(queue)[n - 1] = queue[(n - 1) + 1]
        BY <2>2, <3>4
      <3>6. n - 1 \in 1 .. Len(queue') /\ queue'[n - 1] = b
        BY <2>3, <3>2, <3>3, <3>4, <3>5
      <3>. QED
        BY <3>6
    <2>7. Connected'
      BY <1>1, <2>4, <2>5, <2>6 DEF Watched, Connected
    <2>8. BatchReady'
      BY <1>1, <2>4, <2>5 DEF Watched, BatchReady, Ready, Gone
    <2>. QED
      BY <2>7, <2>8 DEF Watched
  <1>. QED
    BY <1>2, <1>3 DEF Accept, Accepted

\* A handler leaves alone what the others in the batch are ready for.
LEMMA HandleWatched ==
    ASSUME IInv, Watched, NEW c \in Clients, Hangup(c) \/ Echo(c) PROVE Watched'
  <1>1. /\ spc = "run" /\ c \in batch /\ batch' = batch \ {c} /\ UNCHANGED pc
        /\ conn[c] = "open"
    BY DEF Hangup, Echo, Handle, client, IInv, Places
  <1>2. CASE Hangup(c)
    <2>1. /\ UNCHANGED <<spc, queue, reset>>
          /\ \A b \in Clients : conn'[b] = IF b = c THEN "closed" ELSE conn[b]
          /\ \A b \in Clients : b # c => toServer'[b] = toServer[b]
      BY <1>2 DEF Hangup, IInv, TypeOK
    <2>2. Connected'
      BY <1>1, <2>1 DEF Watched, Connected
    <2>3. BatchReady'
      BY <1>1, <2>1 DEF Watched, BatchReady, Ready, Gone
    <2>. QED
      BY <2>2, <2>3 DEF Watched
  <1>3. CASE Echo(c)
    <2>1. \A b \in Clients : b # c => toServer'[b] = toServer[b]
      BY <1>3 DEF Echo, IInv, TypeOK
    <2>2. CASE Ended("killed")
      BY <1>1, <2>2, EndedWatched DEF Watched
    <2>3. CASE UNCHANGED <<spc, conn, queue>> /\ reset \subseteq reset'
      <3>1. Connected'
        BY <1>1, <2>3 DEF Watched, Connected
      <3>2. BatchReady'
        BY <1>1, <2>1, <2>3 DEF Watched, BatchReady, Ready, Gone
      <3>. QED
        BY <3>1, <3>2 DEF Watched
    <2>. QED
      BY <1>3, <2>2, <2>3 DEF Echo, Send
  <1>. QED
    BY <1>2, <1>3

LEMMA WatchedInvariant == Spec => [](IInv /\ Watched)
  <1>1. Init => Watched
    <2>. SUFFICES ASSUME Init PROVE Watched
      OBVIOUS
    <2>1. /\ spc = "run" /\ batch = {}
          /\ \A c \in Clients : conn[c] = "none" /\ pc[c] = "off"
      BY DEF Init
    <2>. QED
      BY <2>1 DEF Watched, Connected, BatchReady
  <1>2. IInv /\ Watched /\ [Next]_vars => Watched'
    <2>. SUFFICES ASSUME IInv, Watched, [Next]_vars PROVE Watched'
      OBVIOUS
    <2>1. CASE Wakeup
      <3>1. UNCHANGED <<spc, conn, queue, toServer, reset, pc>> /\ batch' = Events
        BY <2>1 DEF Wakeup, wires, client
      <3>2. \A c \in Clients : c \in batch' => Ready(c)
        BY <3>1, Constants DEF Events
      <3>. QED
        BY <3>1, <3>2 DEF Watched, Connected, BatchReady, Ready, Gone
    <2>2. CASE Accept
      BY <2>2, AcceptWatched
    <2>3. CASE Exit \/ EpollFails
      BY <2>3, EndedWatched DEF Exit, EpollFails, client, Watched
    <2>4. ASSUME NEW c \in Clients, Hangup(c) \/ Echo(c) PROVE Watched'
      BY <2>4, HandleWatched
    <2>5. ASSUME NEW c \in Clients, Connect(c) \/ ClientStep(c) \/ ClientKill(c) PROVE Watched'
      BY <2>5, ConnectWatched, ClientWatched
    <2>6. CASE UNCHANGED vars
      BY <2>6 DEF vars, Watched, Connected, BatchReady, Ready, Gone
    <2>. QED
      BY <2>1, <2>2, <2>3, <2>4, <2>5, <2>6 DEF Next, ServerStep
  <1>. QED
    BY <1>1, <1>2, Invariant, PTL DEF Spec

\* However the streams are split, whoever disappears and whatever fails, recv and
\* accept find what they were called for: one connection never holds up the others.
THEOREM ServerNeverBlocks == Spec => []NeverBlocks
  <1>1. IInv /\ Watched => NeverBlocks
    BY DEF IInv, Places, Watched, BatchReady, NeverBlocks
  <1>. QED
    BY <1>1, WatchedInvariant, PTL

\* What ClientsEnd needs of the state: nobody waits for a message that is lost or for
\* a server that does not know of it.
THEOREM NobodyWaitsInVain == Spec => []NobodyInVain
  <1>1. IInv /\ Watched => NobodyInVain
    <2>. SUFFICES ASSUME IInv, Watched, splits = 0, NEW c \in Clients, pc[c] = "recv",
                         toClient[c] = <<>>, conn[c] # "closed"
                  PROVE  /\ spc = "run"
                         /\ Ready(c) \/ (conn[c] = "queued" /\ Listener \in Events)
      BY DEF NobodyInVain
    <2>1. spc = "run" /\ conn[c] \in {"queued", "open"}
      BY DEF Watched, Connected, IInv, TypeOK
    <2>2. CASE conn[c] = "open"
      <3>1. Turn(c)
        BY <2>2 DEF IInv, Flight, Gone
      <3>2. toServer[c] = Message(c)
        <4>1. Len(<<>>) = 0 /\ TEXT > 0
          BY Constants
        <4>. QED
          BY <3>1, <4>1 DEF Turn
      <3>3. Len(Message(c)) = TEXT + 1 /\ Len(<<>>) = 0 /\ TEXT \in Nat
        BY MessageIs, Constants
      <3>4. toServer[c] # <<>>
        BY <3>2, <3>3
      <3>. QED
        BY <2>1, <2>2, <3>4 DEF Ready
    <2>3. CASE conn[c] = "queued"
      <3>1. PICK n \in 1 .. Len(queue) : queue[n] = c
        BY <2>3 DEF Watched, Connected
      <3>2. Len(<<>>) = 0
        OBVIOUS
      <3>3. queue # <<>>
        BY <3>1, <3>2
      <3>. QED
        BY <2>1, <2>3, <3>3 DEF Events
    <2>. QED
      BY <2>1, <2>2, <2>3
  <1>. QED
    BY <1>1, WatchedInvariant, PTL
=============================================================================
