-------------------------- MODULE SharedMemoryProof --------------------------
(***************************************************************************)
(* Proofs about SharedMemory for every number of messages.                 *)
(***************************************************************************)
EXTENDS SharedMemory, SequenceTheorems, TLAPS

\* How far each program has come.
SetUp == {"openSem", "setval", "openShm", "truncate"}

SenderInv ==
    /\ spc \in SetUp => i = 0
    /\ spc \in {"spin", "copy", "post"} => i < COUNT
    /\ spc \in {"spin", "truncate", "unlinkShm", "unlinkSem"} => mode = "x"
    /\ spc = "setval" => mode = "v"
    /\ size = 0 => i = 0 /\ spc \in SetUp \cup {"done"}
    /\ mode = "v" /\ "shm" \in names => size = 1
    /\ mem = IF spc = "post" THEN i + 1 ELSE i

ReceiverInv ==
    /\ Len(got) <= j
    /\ rpc \in {"openSem", "openShm"} => j = 0
    /\ rpc \in {"removeShm", "removeSem"} => mode = "v"
    /\ rpc \in {"wait", "copy", "crashed"} =>
         j <= COUNT /\ (mode = "x" => j < COUNT)

\* Every token was left over or posted by this sender, and in XSMEM none is
\* lost: the ones still in the semaphore and the ones taken add up.
TokenInv ==
    /\ Taken + sem <= stale + i
    /\ mode = "x" =>
         /\ Taken + sem = stale + i /\ sem <= 1
         /\ spc \in {"copy", "post"} => sem = 0
         /\ spc \notin {"openSem", "done"} => "sem" \in names
         /\ spc = "openSem" /\ "sem" \notin names => sem = 0
    /\ mode = "v" /\ spc \in {"openShm", "copy", "post"} => sem <= i

\* Nothing was received that is newer than the buffer.
Received == \A n \in 1 .. Len(got) : got[n] <= mem

IInv == /\ TypeOK /\ SenderInv /\ ReceiverInv /\ TokenInv /\ Received
        /\ AtMostOneAhead /\ NeverBehind /\ SizedBeforeUse

USE SharedMemoryAssumption DEF IInv, TypeOK, SetUp, SenderInv, ReceiverInv,
    TokenInv, Received, AtMostOneAhead, NeverBehind, SizedBeforeUse, Taken,
    SenderLabels, ReceiverLabels, object, sender, receiver, AfterPost,
    AfterIteration

LEMMA InitInv == Init => IInv
BY DEF Init, Leftover

LEMMA Facts ==
    IInv => /\ Len(got) \in Nat /\ Taken \in Nat
            /\ \A n \in 1 .. Len(got) : got[n] \in 0 .. COUNT
OBVIOUS

\* Opening the semaphore keeps the count of tokens: a new one has none.
LEMMA OpenKeepsTokens ==
    ASSUME IInv, SenderOpenSem, UNCHANGED mode PROVE TokenInv'
<1>1. Taken' = Taken
  BY DEF SenderOpenSem
<1>2. CASE mode = "x"
  <2>1. (Taken + sem = stale + i)' /\ sem' <= 1
    BY Facts, <1>1, <1>2 DEF SenderOpenSem
  <2>2. "sem" \in names'
    BY <1>2 DEF SenderOpenSem
  <2> HIDE DEF Taken
  <2> QED BY Facts, <1>1, <1>2, <2>1, <2>2 DEF SenderOpenSem
<1>3. CASE mode = "v"
  <2> HIDE DEF Taken
  <2> QED BY Facts, <1>1, <1>3 DEF SenderOpenSem
<1> QED BY <1>2, <1>3

\* A post adds one token and counts one message.
LEMMA PostKeepsTokens ==
    ASSUME IInv, SenderPost, UNCHANGED mode PROVE TokenInv'
<1>1. Taken' = Taken
  BY DEF SenderPost
<1> HIDE DEF Taken
<1>2. CASE mode = "x"
  <2>1. (Taken + sem = stale + i)' /\ sem' <= 1
    BY Facts, <1>1, <1>2 DEF SenderPost
  <2>2. "sem" \in names' /\ spc' \notin {"copy", "post", "openSem"}
    BY <1>2 DEF SenderPost
  <2> QED BY Facts, <1>1, <1>2, <2>1, <2>2 DEF SenderPost
<1>3. CASE mode = "v"
  BY Facts, <1>1, <1>3 DEF SenderPost
<1> QED BY <1>2, <1>3

\* One step of the sender keeps the invariant.
LEMMA SenderKeeps == ASSUME IInv, SenderStep PROVE IInv'
<1>1. CASE SenderOpenSem
  <2>1. (TypeOK /\ SenderInv /\ ReceiverInv)'
    BY <1>1, Facts DEF SenderOpenSem, SenderStep
  <2>2. TokenInv'
    BY <1>1, OpenKeepsTokens DEF SenderOpenSem, SenderStep
  <2>3. (Received /\ AtMostOneAhead /\ NeverBehind /\ SizedBeforeUse)'
    BY <1>1, Facts DEF SenderOpenSem, SenderStep
  <2> QED BY <2>1, <2>2, <2>3
<1>2. CASE SenderSetval
  <2>1. (TypeOK /\ SenderInv /\ ReceiverInv)'
    BY <1>2, Facts DEF SenderSetval, SenderStep
  <2>2. TokenInv'
    BY <1>2, Facts DEF SenderSetval, SenderStep
  <2>3. (Received /\ AtMostOneAhead /\ NeverBehind /\ SizedBeforeUse)'
    BY <1>2, Facts DEF SenderSetval, SenderStep
  <2> QED BY <2>1, <2>2, <2>3
<1>3. CASE SenderOpenShm
  <2>1. (TypeOK /\ SenderInv /\ ReceiverInv)'
    BY <1>3, Facts DEF SenderOpenShm, SenderStep
  <2>2. TokenInv'
    BY <1>3, Facts DEF SenderOpenShm, SenderStep
  <2>3. (Received /\ AtMostOneAhead /\ NeverBehind /\ SizedBeforeUse)'
    BY <1>3, Facts DEF SenderOpenShm, SenderStep
  <2> QED BY <2>1, <2>2, <2>3
<1>4. CASE SenderTruncate
  BY <1>4, Facts DEF SenderTruncate, SenderStep
<1>5. CASE SenderSpin
  BY <1>5, Facts DEF SenderSpin, SenderStep
<1>6. CASE SenderCopy
  BY <1>6, Facts DEF SenderCopy, SenderStep
<1>7. CASE SenderPost
  <2>1. (TypeOK /\ SenderInv /\ ReceiverInv)'
    BY <1>7, Facts DEF SenderPost, SenderStep
  <2>2. TokenInv'
    BY <1>7, PostKeepsTokens DEF SenderPost, SenderStep
  <2>3. (Received /\ AtMostOneAhead /\ NeverBehind /\ SizedBeforeUse)'
    BY <1>7, Facts DEF SenderPost, SenderStep
  <2> QED BY <2>1, <2>2, <2>3
<1>8. CASE SenderUnlink
  BY <1>8, Facts DEF SenderUnlink, SenderStep
<1> QED BY <1>1, <1>2, <1>3, <1>4, <1>5, <1>6, <1>7, <1>8 DEF SenderStep, Sender

\* The copy of line 244 is where the order of the other steps shows: the
\* message it finds is the one its token stands for, or the next.
LEMMA CopyKeeps == ASSUME IInv, ReceiverCopy, UNCHANGED mode PROVE IInv'
<1>1. CASE size = 0
  BY <1>1, Facts DEF ReceiverCopy
<1>2. CASE size # 0
  <2>1. /\ got' = Append(got, mem) /\ mem \in 0 .. COUNT
        /\ got \in Seq(0 .. COUNT) /\ Len(got) \in Nat
    BY <1>2, Facts DEF ReceiverCopy
  <2>2. /\ got' \in Seq(0 .. COUNT)
        /\ Len(got') = Len(got) + 1
        /\ got'[Len(got) + 1] = mem
        /\ \A n \in 1 .. Len(got) : got'[n] = got[n]
    BY ONLY <2>1, AppendProperties
  <2>3. /\ Taken = Len(got) + 1 /\ Taken' = Taken
        /\ UNCHANGED <<stale, i, mem, sem, spc>>
    BY <1>2, <2>2, Facts DEF ReceiverCopy
  <2>4. (TypeOK /\ SenderInv /\ ReceiverInv /\ TokenInv)'
    BY <1>2, <2>2, <2>3, Facts DEF ReceiverCopy
  <2>5. AtMostOneAhead'
    <3>1. mode = "x" => mem \in {Taken - stale, Taken - stale + 1}
      <4> HIDE DEF Taken, AtMostOneAhead, NeverBehind, SizedBeforeUse
      <4> QED BY Facts
    <3>2. ASSUME mode = "x", NEW n \in 1 .. Len(got)
          PROVE  got'[n] \in {n - stale, n - stale + 1}
      BY <2>2, <3>2 DEF AtMostOneAhead
    <3>3. mode = "x" =>
            \A n \in 1 .. Len(got) + 1 : got'[n] \in {n - stale, n - stale + 1}
      BY Facts, <2>2, <2>3, <3>1, <3>2
    <3> QED BY ONLY <2>2, <2>3, <3>3, UNCHANGED mode DEF AtMostOneAhead
  <2>6. NeverBehind'
    <3>1. mode = "v" => mem >= Taken - stale
      <4> HIDE DEF Taken, AtMostOneAhead, NeverBehind, SizedBeforeUse
      <4> QED BY Facts
    <3>2. ASSUME mode = "v", NEW n \in 1 .. Len(got)
          PROVE  got'[n] >= n - stale /\ \A m \in 1 .. n : got'[m] <= got'[n]
      <4>1. \A m \in 1 .. n : m \in 1 .. Len(got)
        BY <2>1
      <4> QED BY <2>2, <3>2, <4>1 DEF NeverBehind
    <3>3. mode = "v" =>
            /\ got'[Len(got) + 1] >= Len(got) + 1 - stale
            /\ \A m \in 1 .. Len(got) + 1 : got'[m] <= got'[Len(got) + 1]
      <4>1. \A m \in 1 .. Len(got) + 1 : m \in 1 .. Len(got) \/ m = Len(got) + 1
        BY <2>1
      <4>2. \A m \in 1 .. Len(got) + 1 : got'[m] <= mem
        BY <2>1, <2>2, <4>1 DEF Received
      <4> QED BY Facts, <2>2, <2>3, <3>1, <4>2
    <3>4. mode = "v" => \A n \in 1 .. Len(got) + 1 :
            got'[n] >= n - stale /\ \A m \in 1 .. n : got'[m] <= got'[n]
      <4> SUFFICES ASSUME mode = "v", NEW n \in 1 .. Len(got) + 1
                   PROVE  /\ got'[n] >= n - stale
                          /\ \A m \in 1 .. n : got'[m] <= got'[n]
        OBVIOUS
      <4>1. CASE n \in 1 .. Len(got)
        BY <3>2, <4>1
      <4>2. CASE n = Len(got) + 1
        BY <3>3, <4>2
      <4> QED BY <2>1, <4>1, <4>2
    <3> QED BY ONLY <2>2, <2>3, <3>4, UNCHANGED mode DEF NeverBehind
  <2>7. SizedBeforeUse'
    BY <1>2, <2>2 DEF ReceiverCopy
  <2>8. Received'
    BY <2>1, <2>2, <2>3 DEF Received
  <2> QED BY <2>4, <2>5, <2>6, <2>7, <2>8
<1> QED BY <1>1, <1>2

\* One step of the receiver keeps the invariant.
LEMMA ReceiverKeeps == ASSUME IInv, ReceiverStep PROVE IInv'
<1>1. CASE ReceiverOpenSem
  BY <1>1, Facts DEF ReceiverOpenSem, ReceiverStep
<1>2. CASE ReceiverOpenShm
  BY <1>2, Facts DEF ReceiverOpenShm, ReceiverStep
<1>3. CASE ReceiverWait
  BY <1>3, Facts DEF ReceiverWait, ReceiverStep
<1>4. CASE ReceiverTimeout
  BY <1>4, Facts DEF ReceiverTimeout, ReceiverStep
<1>5. CASE ReceiverCopy
  BY <1>5, CopyKeeps DEF ReceiverStep
<1>6. CASE ReceiverRemove
  BY <1>6, Facts DEF ReceiverRemove, ReceiverStep
<1> QED BY <1>1, <1>2, <1>3, <1>4, <1>5, <1>6 DEF ReceiverStep, Receiver

LEMMA NextInv == IInv /\ [Next]_vars => IInv'
<1> SUFFICES ASSUME IInv, [Next]_vars PROVE IInv'
  OBVIOUS
<1>1. CASE GiveUp
  <2>1. CASE SenderGiveUp
    BY <1>1, <2>1, Facts DEF GiveUp, SenderGiveUp
  <2>2. CASE ReceiverGiveUp
    BY <1>1, <2>2, Facts DEF GiveUp, ReceiverGiveUp
  <2> QED BY <1>1, <2>1, <2>2 DEF GiveUp
<1>2. CASE UNCHANGED vars
  BY <1>2, Facts DEF vars
<1> QED BY <1>1, <1>2, SenderKeeps, ReceiverKeeps DEF Next

LEMMA Consequences ==
    IInv => TypeOK /\ AtMostOneAhead /\ NeverBehind /\ SizedBeforeUse
OBVIOUS

HIDE DEF IInv, TypeOK, SetUp, SenderInv, ReceiverInv,
    TokenInv, Received, AtMostOneAhead, NeverBehind, SizedBeforeUse, Taken,
    SenderLabels, ReceiverLabels, object, sender, receiver, AfterPost,
    AfterIteration

\* The inductive invariant holds in every reachable state.
THEOREM Invariant == Spec => []IInv
BY InitInv, NextInv, PTL DEF Spec

\* Both loops stay in their bounds and no counter leaves its range.
THEOREM TypeCorrect == Spec => []TypeOK
BY Invariant, Consequences, PTL

\* XSMEM: spinning on the semaphore keeps the sender at most one message
\* ahead of the copy the receiver makes.
THEOREM OneAhead == Spec => []AtMostOneAhead
BY Invariant, Consequences, PTL

\* VSMEM: a token never delivers a message older than its own, and the
\* messages arrive in order.
THEOREM NotBehind == Spec => []NeverBehind
BY Invariant, Consequences, PTL

\* Only a token left by a killed run lets the receiver touch memory that has
\* no size yet.
THEOREM NoEarlyUse == Spec => []SizedBeforeUse
BY Invariant, Consequences, PTL

\* XSMEM: nobody waits in vain for the other.  When all messages were posted a
\* receiver in its loop has a token to take, and the sender, once the receiver
\* has all it asked for, finds the semaphore at 0 (line 238) although a killed
\* run may have left a token: what Completes rests on.
NobodyInVain ==
    mode = "x" => /\ rpc = "wait" /\ i = COUNT => sem > 0
                  /\ spc = "spin" /\ Len(got) = COUNT => sem = 0

\* A killed run leaves at most one token.
OneLeft == mode = "x" => stale <= 1

\* For any number of messages.
THEOREM NobodyWaitsInVain == Spec => []NobodyInVain
<1>1. Init => OneLeft
  BY DEF Init, OneLeft
<1>2. IInv /\ OneLeft /\ [Next]_vars => OneLeft'
  <2>1. SenderStep => mode' = mode /\ (stale' = stale \/ SenderSetval)
    BY DEF SenderStep, Sender, SenderOpenSem, SenderOpenShm, SenderTruncate,
           SenderSpin, SenderCopy, SenderPost, SenderUnlink
  <2>2. ReceiverStep => mode' = mode /\ stale' = stale
    BY DEF ReceiverStep, Receiver, ReceiverOpenSem, ReceiverOpenShm,
           ReceiverWait, ReceiverTimeout, ReceiverCopy, ReceiverRemove
  <2>3. GiveUp => mode' = mode /\ stale' = stale
    BY DEF GiveUp, SenderGiveUp, ReceiverGiveUp
  <2>4. IInv /\ SenderSetval => mode = "v"
    BY DEF SenderSetval, IInv, SenderInv
  <2>. QED
    BY <2>1, <2>2, <2>3, <2>4 DEF Next, OneLeft, vars
<1>3. IInv /\ OneLeft => NobodyInVain
  <2> SUFFICES ASSUME IInv, OneLeft, mode = "x"
               PROVE  /\ rpc = "wait" /\ i = COUNT => sem > 0
                      /\ spc = "spin" /\ Len(got) = COUNT => sem = 0
    BY DEF NobodyInVain
  <2>1. /\ sem \in Nat /\ stale \in Nat /\ stale <= 1 /\ i \in 0 .. COUNT /\ COUNT \in Nat
        /\ Len(got) \in Nat /\ Taken + sem = stale + i /\ Taken \in Nat
        /\ Len(got) <= j /\ j \in Nat
    BY Facts, SharedMemoryAssumption DEF IInv, TypeOK, TokenInv, ReceiverInv, OneLeft
  <2>2. ASSUME rpc = "wait", i = COUNT PROVE sem > 0
    <3>1. Taken = Len(got) /\ j < COUNT
      BY <2>1, <2>2 DEF Taken, IInv, ReceiverInv
    <3>. QED
      BY <2>1, <2>2, <3>1
  <2>3. ASSUME spc = "spin", Len(got) = COUNT PROVE sem = 0
    <3>1. i < COUNT /\ Taken >= Len(got)
      BY <2>1, <2>3 DEF Taken, IInv, SenderInv
    <3>. QED
      BY <2>1, <2>3, <3>1
  <2>. QED
    BY <2>2, <2>3
<1>. QED
  BY <1>1, <1>2, <1>3, Invariant, PTL DEF Spec
=============================================================================
