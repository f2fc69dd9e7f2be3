---------------------------- MODULE ThreadsProof ----------------------------
(***************************************************************************)
(* Proofs about Threads for every number of consumers, every number of     *)
(* items and every width of the counters.                                  *)
(***************************************************************************)
EXTENDS Threads, FiniteSets, FiniteSetTheorems, TLAPS

\* Labels of main once is_active is cleared, and once it has posted.
MainStopping == {"lock", "broadcast", "unlock", "post", "join"}
MainPosted   == {"join", "destroy", "returned", "crashed"}
InLoop       == {"lock", "loadP", "storeP", "signal", "unlock", "post", "sleep"}

\* Who has been created, who has stopped and what main has done so far.
PhaseInv ==
    /\ pc[Main] = "init" => k = 0
    /\ pc[Main] \in {"init", "create"} =>
         \A t \in Threads : t >= k /\ t # Main => pc[t] = "none"
    /\ pc[Main] \in MainStopping => active = 0
    /\ active = 0 => pc[Main] \in MainStopping \cup MainPosted
    /\ active = 0 \/ pc[Main] \in {"cancel", "deactivate"} =>
         pc[Producer] \in {"done", "none"}
    /\ pc[Producer] \in InLoop => i < PRODUCE_CNT
    /\ active = 1 => \A c \in Consumers : pc[c] # "stop"
    /\ Locking => \A c \in Consumers : pc[c] # "semwait"

\* No more tokens than posts: line 131 once per item, line 208 once.
SemInv == sem <= i + (IF pc[Producer] = "sleep" THEN 1 ELSE 0)
                   + (IF pc[Main] \in MainPosted THEN 1 ELSE 0)

\* Until main clears is_active, a thread that believes it holds the lock does.
\* Afterwards the unlock of thread_clear may break this (line 98).
LockInv == Locking /\ active = 1 =>
               \A t \in Threads : pc[t] \in InLock => owner = t

\* A register in use still equals the counter it was loaded from.
RegInv == Locking =>
    \A t \in Threads : /\ pc[t] = "storeP" => reg[t] = produced
                       /\ pc[t] = "storeC" => reg[t] = consumed

IInv == /\ TypeOK /\ PhaseInv /\ SemInv
        /\ LockInv /\ ExclusiveCounters /\ RegInv /\ Conservation

-----------------------------------------------------------------------------
(* Facts about the thread ids.                                             *)

LEMMA Ids ==
    /\ Consumers \subseteq Threads /\ Producer \in Threads /\ Main \in Threads
    /\ Producer \notin Consumers /\ Main \notin Consumers /\ Main # Producer
    /\ Nobody \notin Threads /\ Cancelled \in Consumers
    /\ Threads = Consumers \cup {Producer, Main} /\ Threads \subseteq Int
BY ThreadsAssumption DEF Consumers, Producer, Main, Threads, Nobody, Cancelled

-----------------------------------------------------------------------------
(* The invariant: it holds at the start and every step of every thread     *)
(* keeps it.                                                               *)

USE Ids, ThreadsAssumption DEF AllSyncModes, Locking, Goto, Move, Ended,
    Waiting, others, counters, Inc, Dec, ConsumerLabels, ProducerLabels,
    MainLabels, MainStopping, MainPosted, InLoop, Touching, InLock, InFlight,
    Taking, Made, AfterLock, AfterConsume, NeverCreated, Joined,
    IInv, TypeOK, PhaseInv, SemInv, LockInv, ExclusiveCounters, RegInv,
    Conservation

LEMMA InitInv == Init => IInv
BY DEF Init

\* One step of thread_consumer (lines 68 to 102), of thread_clear, or a
\* spurious return of pthread_cond_wait, keeps the invariant.
LEMMA ConsumerInv ==
    ASSUME NEW c \in Consumers, IInv, ~Ended, UNCHANGED sync,
           ConsumerStep(c) \/ SpuriousWakeup(c)
    PROVE  IInv'
<1>1. CASE ConsumerStart(c)
  BY <1>1 DEF ConsumerStart
<1>2. CASE ConsumerTest(c)
  BY <1>2 DEF ConsumerTest
<1>3. CASE Acquire(c)
  BY <1>3 DEF Acquire
<1>4. CASE CondWait(c)
  BY <1>4 DEF CondWait
<1>5. CASE SemWait(c)
  BY <1>5 DEF SemWait
<1>6. CASE ConsumeCheck(c)
  BY <1>6 DEF ConsumeCheck
<1>7. CASE LoadProduced(c)
  BY <1>7 DEF LoadProduced
<1>8. CASE ConsumeStoreProduced(c)
  BY <1>8 DEF ConsumeStoreProduced
<1>9. CASE ConsumeLoadConsumed(c)
  BY <1>9 DEF ConsumeLoadConsumed
<1>10. CASE ConsumeStoreConsumed(c)
  BY <1>10 DEF ConsumeStoreConsumed
<1>11. CASE ConsumePrint(c)
  BY <1>11 DEF ConsumePrint
<1>12. CASE Release(c)
  BY <1>12 DEF Release
<1>13. CASE ConsumerStop(c)
  BY <1>13 DEF ConsumerStop
<1>14. CASE ActOnCancel(c)
  BY <1>14 DEF ActOnCancel
<1>15. CASE ThreadClear(c)
  BY <1>15 DEF ThreadClear
<1>16. CASE SpuriousWakeup(c)
  BY <1>16 DEF SpuriousWakeup
<1> QED BY <1>1, <1>2, <1>3, <1>4, <1>5, <1>6, <1>7, <1>8, <1>9, <1>10, <1>11, <1>12, <1>13, <1>14, <1>15, <1>16 DEF ConsumerStep

\* One step of thread_producer (lines 104 to 140) keeps the invariant.
LEMMA ProducerInv ==
    ASSUME IInv, ~Ended, UNCHANGED sync, ProducerStep PROVE IInv'
<1>1. CASE ProducerStart
  BY <1>1 DEF ProducerStart
<1>2. CASE ProducerTest
  BY <1>2 DEF ProducerTest
<1>3. CASE Acquire(Producer)
  BY <1>3 DEF Acquire
<1>4. CASE LoadProduced(Producer)
  BY <1>4 DEF LoadProduced
<1>5. CASE ProducerStoreProduced
  BY <1>5 DEF ProducerStoreProduced
<1>6. CASE ProducerSignal
  BY <1>6 DEF ProducerSignal
<1>7. CASE ProducerPost
  BY <1>7 DEF ProducerPost
<1>8. CASE Release(Producer)
  BY <1>8 DEF Release
<1>9. CASE ProducerSleep
  BY <1>9 DEF ProducerSleep
<1>10. CASE ProducerStop
  BY <1>10 DEF ProducerStop
<1> QED BY <1>1, <1>2, <1>3, <1>4, <1>5, <1>6, <1>7, <1>8, <1>9, <1>10 DEF ProducerStep

\* One step of main (lines 142 to 240) keeps the invariant.
LEMMA MainInv ==
    ASSUME IInv, ~Ended, UNCHANGED sync, MainStep PROVE IInv'
<1>1. CASE MainInit
  BY <1>1 DEF MainInit
<1>2. CASE MainCreate
  <2>1. PICK made \in CreateOutcomes :
            pc' = [pc EXCEPT ![k] = made,
                             ![Main] = IF k = Producer THEN "joinP" ELSE "create"]
    BY <1>2 DEF MainCreate
  <2>2. /\ made \in {"start", "none"}
        /\ k \in Threads /\ k # Main /\ k' = k + 1 /\ k <= NCONSUMERS
        /\ (k # Producer => k' <= NCONSUMERS)
    BY <1>2 DEF MainCreate, Threads, Main, Producer
  <2>3. pc' \in [Threads -> ConsumerLabels \cup ProducerLabels \cup MainLabels]
    BY <2>1, <2>2
  <2>4. /\ \A c \in Consumers : pc'[c] \in ConsumerLabels
        /\ pc'[Producer] \in ProducerLabels /\ pc'[Main] \in MainLabels
        /\ pc'[Main] = "create" => k' <= NCONSUMERS
    BY <2>1, <2>2
  <2>5. TypeOK'
    BY <1>2, <2>2, <2>3, <2>4 DEF MainCreate
  <2>6. (PhaseInv /\ SemInv /\ LockInv)'
    BY <1>2, <2>1, <2>2 DEF MainCreate
  <2>7. (ExclusiveCounters /\ RegInv /\ Conservation)'
    BY <1>2, <2>1, <2>2 DEF MainCreate
  <2> QED BY <2>5, <2>6, <2>7
<1>3. CASE MainJoinProducer
  BY <1>3 DEF MainJoinProducer
<1>4. CASE MainCancel
  BY <1>4 DEF MainCancel
<1>5. CASE MainDeactivate
  BY <1>5 DEF MainDeactivate
<1>6. CASE Acquire(Main)
  BY <1>6 DEF Acquire
<1>7. CASE MainBroadcast
  BY <1>7 DEF MainBroadcast
<1>8. CASE Release(Main)
  BY <1>8 DEF Release
<1>9. CASE MainPost
  BY <1>9 DEF MainPost
<1>10. CASE MainJoin
  BY <1>10 DEF MainJoin
<1>11. CASE MainDestroy
  BY <1>11 DEF MainDestroy
<1> QED BY <1>1, <1>2, <1>3, <1>4, <1>5, <1>6, <1>7, <1>8, <1>9, <1>10, <1>11 DEF MainStep

LEMMA StutterInv == IInv /\ UNCHANGED vars => IInv'
BY DEF vars

LEMMA NextInv == IInv /\ [Next]_vars => IInv'
<1> SUFFICES ASSUME IInv, [Next]_vars PROVE IInv'
  OBVIOUS
<1>1. ASSUME NEW t \in Threads, ThreadStep(t) PROVE IInv'
  <2>1. CASE t \in Consumers
    BY <1>1, <2>1, ConsumerInv DEF ThreadStep, Run
  <2>2. CASE t = Producer
    BY <1>1, <2>2, ProducerInv DEF ThreadStep, Run
  <2>3. CASE t = Main
    BY <1>1, <2>3, MainInv DEF ThreadStep, Run
  <2> QED BY <2>1, <2>2, <2>3
<1>2. ASSUME NEW c \in Consumers, Run(SpuriousWakeup(c)) PROVE IInv'
  BY <1>2, ConsumerInv DEF Run
<1>3. CASE UNCHANGED vars
  BY <1>3, StutterInv
<1> QED BY <1>1, <1>2, <1>3 DEF Next

HIDE DEF AllSyncModes, Locking, Goto, Move, Ended,
    Waiting, others, counters, Inc, Dec, ConsumerLabels, ProducerLabels,
    MainLabels, MainStopping, MainPosted, InLoop, Touching, InLock, InFlight,
    Taking, Made, AfterLock, AfterConsume, NeverCreated, Joined,
    IInv, TypeOK, PhaseInv, SemInv, LockInv, ExclusiveCounters, RegInv,
    Conservation

\* The inductive invariant holds in every reachable state.
THEOREM Invariant == Spec => []IInv
BY InitInv, NextInv, PTL DEF Spec

\* Every variable keeps its type: in particular the loop counters stop at
\* their bounds and the semaphore never exceeds PRODUCE_CNT + 1.
THEOREM TypeCorrect == Spec => []TypeOK
<1>1. IInv => TypeOK
  BY DEF IInv
<1> QED BY <1>1, Invariant, PTL

\* No two threads are inside the unsynchronised updates of the counters.
THEOREM CountersExclusive == Spec => []ExclusiveCounters
<1>1. IInv => ExclusiveCounters
  BY DEF IInv
<1> QED BY <1>1, Invariant, PTL

\* No update of the two counters is ever lost.
THEOREM CountersConserved == Spec => []Conservation
<1>1. IInv => Conservation
  BY DEF IInv
<1> QED BY <1>1, Invariant, PTL

-----------------------------------------------------------------------------
(* The refinement: with a lock, every step is a step of Ledger or leaves   *)
(* its five variables alone.                                               *)

USE Ids, ThreadsAssumption DEF AllSyncModes, Locking, Goto, Move, Ended,
    Waiting, others, counters, Inc, Dec, ConsumerLabels, ProducerLabels,
    MainLabels, MainStopping, MainPosted, InLoop, Touching, InLock, InFlight,
    Taking, Made, AfterLock, AfterConsume, NeverCreated, Joined, Stock, Grace,
    IInv, TypeOK, PhaseInv, LockInv, ExclusiveCounters, RegInv,
    L!Inc, L!Dec, L!ledgerVars

LEMMA LedgerInit == Init => L!Init
BY DEF Init, L!Init


\* The store of consumed++ is the Take; every other step is invisible.
LEMMA ConsumerLedger ==
    ASSUME NEW c \in Consumers, IInv, Locking, ~Ended, UNCHANGED sync,
           ConsumerStep(c) \/ SpuriousWakeup(c)
    PROVE  [L!Next]_(L!ledgerVars)
<1>1. CASE ConsumerStart(c)
  BY <1>1 DEF ConsumerStart
<1>2. CASE ConsumerTest(c)
  BY <1>2 DEF ConsumerTest
<1>3. CASE Acquire(c)
  BY <1>3 DEF Acquire
<1>4. CASE CondWait(c)
  BY <1>4 DEF CondWait
<1>5. CASE SemWait(c)
  BY <1>5 DEF SemWait
<1>6. CASE ConsumeCheck(c)
  BY <1>6 DEF ConsumeCheck
<1>7. CASE LoadProduced(c)
  BY <1>7 DEF LoadProduced
<1>8. CASE ConsumeStoreProduced(c)
  BY <1>8 DEF ConsumeStoreProduced
<1>9. CASE ConsumeLoadConsumed(c)
  BY <1>9 DEF ConsumeLoadConsumed
<1>10. CASE ConsumeStoreConsumed(c)
  BY <1>10 DEF ConsumeStoreConsumed, L!Next, L!Take
<1>11. CASE ConsumePrint(c)
  BY <1>11 DEF ConsumePrint
<1>12. CASE Release(c)
  BY <1>12 DEF Release
<1>13. CASE ConsumerStop(c)
  BY <1>13 DEF ConsumerStop
<1>14. CASE ActOnCancel(c)
  BY <1>14 DEF ActOnCancel
<1>15. CASE ThreadClear(c)
  BY <1>15 DEF ThreadClear
<1>16. CASE SpuriousWakeup(c)
  BY <1>16 DEF SpuriousWakeup
<1> QED BY <1>1, <1>2, <1>3, <1>4, <1>5, <1>6, <1>7, <1>8, <1>9, <1>10, <1>11, <1>12, <1>13, <1>14, <1>15, <1>16 DEF ConsumerStep

\* The store of produced++ is the Make.
LEMMA ProducerLedger ==
    ASSUME IInv, Locking, ~Ended, UNCHANGED sync, ProducerStep
    PROVE  [L!Next]_(L!ledgerVars)
<1>1. CASE ProducerStart
  BY <1>1 DEF ProducerStart
<1>2. CASE ProducerTest
  BY <1>2 DEF ProducerTest
<1>3. CASE Acquire(Producer)
  BY <1>3 DEF Acquire
<1>4. CASE LoadProduced(Producer)
  BY <1>4 DEF LoadProduced
<1>5. CASE ProducerStoreProduced
  BY <1>5 DEF ProducerStoreProduced, L!Next, L!Make
<1>6. CASE ProducerSignal
  BY <1>6 DEF ProducerSignal
<1>7. CASE ProducerPost
  BY <1>7 DEF ProducerPost
<1>8. CASE Release(Producer)
  BY <1>8 DEF Release
<1>9. CASE ProducerSleep
  BY <1>9 DEF ProducerSleep
<1>10. CASE ProducerStop
  BY <1>10 DEF ProducerStop
<1> QED BY <1>1, <1>2, <1>3, <1>4, <1>5, <1>6, <1>7, <1>8, <1>9, <1>10 DEF ProducerStep

\* The store to is_active is the Close.
LEMMA MainLedger ==
    ASSUME IInv, Locking, ~Ended, UNCHANGED sync, MainStep
    PROVE  [L!Next]_(L!ledgerVars)
<1>1. CASE MainInit
  BY <1>1 DEF MainInit
<1>2. CASE MainCreate
  BY <1>2 DEF MainCreate
<1>3. CASE MainJoinProducer
  BY <1>3 DEF MainJoinProducer
<1>4. CASE MainCancel
  BY <1>4 DEF MainCancel
<1>5. CASE MainDeactivate
  BY <1>5 DEF MainDeactivate, L!Next, L!Close
<1>6. CASE Acquire(Main)
  BY <1>6 DEF Acquire
<1>7. CASE MainBroadcast
  BY <1>7 DEF MainBroadcast
<1>8. CASE Release(Main)
  BY <1>8 DEF Release
<1>9. CASE MainPost
  BY <1>9 DEF MainPost
<1>10. CASE MainJoin
  BY <1>10 DEF MainJoin
<1>11. CASE MainDestroy
  BY <1>11 DEF MainDestroy
<1> QED BY <1>1, <1>2, <1>3, <1>4, <1>5, <1>6, <1>7, <1>8, <1>9, <1>10, <1>11 DEF MainStep

LEMMA NextLedger ==
    IInv /\ Locking /\ [Next]_vars => [L!Next]_(L!ledgerVars)
<1> SUFFICES ASSUME IInv, Locking, [Next]_vars PROVE [L!Next]_(L!ledgerVars)
  OBVIOUS
<1>1. ASSUME NEW t \in Threads, ThreadStep(t) PROVE [L!Next]_(L!ledgerVars)
  <2>1. CASE t \in Consumers
    BY <1>1, <2>1, ConsumerLedger DEF ThreadStep, Run
  <2>2. CASE t = Producer
    BY <1>1, <2>2, ProducerLedger DEF ThreadStep, Run
  <2>3. CASE t = Main
    BY <1>1, <2>3, MainLedger DEF ThreadStep, Run
  <2> QED BY <2>1, <2>2, <2>3
<1>2. ASSUME NEW c \in Consumers, Run(SpuriousWakeup(c))
      PROVE  [L!Next]_(L!ledgerVars)
  BY <1>2, ConsumerLedger DEF Run
<1>3. CASE UNCHANGED vars
  BY <1>3 DEF vars
<1> QED BY <1>1, <1>2, <1>3 DEF Next

\* What the ledger does not speak of.
LEMMA Unledgered == ~Locking => [Locking => L!Next]_(L!ledgerVars)
OBVIOUS

HIDE DEF AllSyncModes, Locking, Goto, Move, Ended,
    Waiting, others, counters, Inc, Dec, ConsumerLabels, ProducerLabels,
    MainLabels, MainStopping, MainPosted, InLoop, Touching, InLock, InFlight,
    Taking, Made, AfterLock, AfterConsume, NeverCreated, Joined, Stock, Grace,
    IInv, TypeOK, PhaseInv, LockInv, ExclusiveCounters, RegInv,
    L!Inc, L!Dec, L!ledgerVars

\* The builds with a lock implement the ledger: items are made and taken in
\* single steps, and at most one take follows the stop.
THEOREM ImplementsLedger == Spec => LedgerSpec
<1>1. IInv /\ [Next]_vars => [Locking => L!Next]_(L!ledgerVars)
  BY NextLedger, Unledgered
<1> QED BY <1>1, Invariant, LedgerInit, PTL DEF Spec, LedgerSpec

-----------------------------------------------------------------------------
(* No overconsumption: in the builds where consumers wait to be told of an *)
(* item, they take no more than was made.                                  *)

Counting == sync \in {"cond", "sem"}

\* Consumers that were told of an item and will still count it.
Due == {c \in Consumers : \/ pc[c] \in Touching
                          \/ active = 1 /\ pc[c] \in {"relock", "check"}}

\* Items the producer has told of, and tokens nobody has taken yet.
Told   == IF pc[Producer] \in {"unlock", "sleep"} THEN i + 1 ELSE i
Tokens == IF sync = "sem" /\ active = 1 THEN sem ELSE 0

\* With a count of n, everything due fits into what was told.
Fits(n) == n + Cardinality(Due) + Tokens <= Told + spurious

\* The counter fits, and so does each register that will be stored in it:
\* with a semaphore a stale register may be stored, but never one too large.
CountInv ==
    Counting => /\ Fits(consumed)
                /\ \A c \in Consumers : pc[c] = "storeC" => Fits(reg[c])
                /\ sync = "sem" => \A c \in Consumers : pc[c] # "lock"

-----------------------------------------------------------------------------
(* Counting who is due.                                                    *)

LEMMA DueFinite ==
    /\ IsFiniteSet(Due) /\ Cardinality(Due) \in Nat
    /\ IsFiniteSet(Due') /\ Cardinality(Due') \in Nat
<1>1. IsFiniteSet(0 .. NCONSUMERS - 1)
  BY ThreadsAssumption, FS_Interval
<1>2. Due \subseteq 0 .. NCONSUMERS - 1 /\ Due' \subseteq 0 .. NCONSUMERS - 1
  BY DEF Due, Consumers
<1> QED BY <1>1, <1>2, FS_Subset, FS_CardinalityType

\* What a step does to the number of consumers that are due.
LEMMA DueAfter ==
    /\ Cardinality(Due') \in Nat
    /\ Due' \subseteq Due => Cardinality(Due') <= Cardinality(Due)
    /\ \A c : Due' \subseteq Due \cup {c} =>
                  Cardinality(Due') <= Cardinality(Due) + 1
    /\ \A c : c \in Due /\ Due' \subseteq Due \ {c} =>
                  Cardinality(Due') <= Cardinality(Due) - 1
<1>1. IsFiniteSet(Due) /\ IsFiniteSet(Due') /\ Cardinality(Due) \in Nat
      /\ Cardinality(Due') \in Nat
  BY DueFinite
<1>2. \A S, T : IsFiniteSet(S) /\ T \subseteq S => Cardinality(T) <= Cardinality(S)
  BY FS_Subset
<1>3. ASSUME NEW c, Due' \subseteq Due \cup {c}
      PROVE  Cardinality(Due') <= Cardinality(Due) + 1
  <2>1. /\ IsFiniteSet(Due \cup {c})
        /\ Cardinality(Due \cup {c}) \in {Cardinality(Due), Cardinality(Due) + 1}
    BY <1>1, FS_AddElement
  <2>2. Cardinality(Due') <= Cardinality(Due \cup {c})
    BY <1>2, <1>3, <2>1
  <2> QED BY <1>1, <2>1, <2>2
<1>4. ASSUME NEW c \in Due, Due' \subseteq Due \ {c}
      PROVE  Cardinality(Due') <= Cardinality(Due) - 1
  <2>1. /\ IsFiniteSet(Due \ {c})
        /\ Cardinality(Due \ {c}) = Cardinality(Due) - 1
    BY <1>1, FS_RemoveElement
  <2>2. Cardinality(Due') <= Cardinality(Due \ {c})
    BY <1>2, <1>4, <2>1
  <2> QED BY <2>1, <2>2
<1> QED BY <1>1, <1>2, <1>3, <1>4

LEMMA CountInit == Init => CountInv
<1> SUFFICES ASSUME Init PROVE CountInv
  OBVIOUS
<1>1. Due = {}
  BY Ids DEF Init, Due, Touching, Consumers, Threads
<1>2. Cardinality(Due) = 0
  BY <1>1, FS_EmptySet
<1>3. \A c \in Consumers : pc[c] = "none"
  BY Ids DEF Init
<1>4. Tokens = 0 /\ Told = 0 /\ consumed = 0 /\ spurious = 0
  BY Ids DEF Init, Tokens, Told
<1> QED BY <1>2, <1>3, <1>4 DEF CountInv, Fits

LEMMA TermsNext == ASSUME TypeOK' PROVE Tokens' \in Nat /\ Told' \in Nat
<1>1. i' \in 0 .. PRODUCE_CNT /\ sem' \in 0 .. PRODUCE_CNT + 1
  BY DEF TypeOK
<1>2. i' \in Nat /\ sem' \in Nat
  BY <1>1, ThreadsAssumption
<1>3. Tokens' \in Nat
  BY <1>2 DEF Tokens
<1>4. Told' \in Nat
  <2>1. \A n \in Nat : n + 1 \in Nat
    OBVIOUS
  <2> QED BY <1>2, <2>1, Zenon DEF Told
<1> QED BY <1>3, <1>4

USE Ids, ThreadsAssumption DEF AllSyncModes, Locking, Goto, Move, Ended,
    Waiting, others, counters, Inc, Dec, ConsumerLabels, ProducerLabels,
    MainLabels, MainStopping, MainPosted, InLoop, Touching,
    AfterLock, AfterConsume, NeverCreated, Joined,
    IInv, TypeOK, PhaseInv

\* What is due and in tokens grows by no more than what was told, and nobody
\* reaches the store or changes the register it stores.
Balanced ==
    /\ Cardinality(Due') + Tokens' + Told + spurious
         <= Cardinality(Due) + Tokens + Told' + spurious'
    /\ consumed' = consumed
    /\ \A c \in Consumers :
         /\ pc'[c] = "storeC" => pc[c] = "storeC" /\ reg'[c] = reg[c]
         /\ sync = "sem" => pc'[c] # "lock"

\* The steps that tell nobody.
Quiet ==
    /\ Due' \subseteq Due /\ Tokens' <= Tokens /\ Told <= Told'
    /\ spurious' = spurious /\ consumed' = consumed
    /\ \A c \in Consumers :
         /\ pc'[c] = "storeC" => pc[c] = "storeC" /\ reg'[c] = reg[c]
         /\ sync = "sem" => pc'[c] # "lock"

\* The terms of Fits are natural numbers.
LEMMA Terms ==
    ASSUME IInv PROVE /\ Tokens \in Nat /\ Told \in Nat /\ spurious \in Nat
                      /\ consumed \in Nat /\ Cardinality(Due) \in Nat
                      /\ \A t \in Threads : reg[t] \in Nat
BY DueFinite DEF Tokens, Told

LEMMA TermsAfter ==
    ASSUME IInv' PROVE /\ Tokens' \in Nat /\ Told' \in Nat /\ spurious' \in Nat
                       /\ Cardinality(Due') \in Nat
BY DueFinite, TermsNext DEF IInv

HIDE DEF AllSyncModes, Locking, Goto, Move, Ended,
    Waiting, others, counters, Inc, Dec, ConsumerLabels, ProducerLabels,
    MainLabels, MainStopping, MainPosted, InLoop, Touching,
    AfterLock, AfterConsume, NeverCreated, Joined,
    IInv, TypeOK, PhaseInv

LEMMA BalancedKeeps ==
    ASSUME IInv, IInv', CountInv, sync' = sync, Counting => Balanced
    PROVE  CountInv'
<1> SUFFICES ASSUME Counting PROVE CountInv'
  BY DEF CountInv, Counting
<1>1. Balanced
  OBVIOUS
<1>2. ASSUME NEW n \in Nat, Fits(n)
      PROVE  n + Cardinality(Due') + Tokens' <= Told' + spurious'
  BY <1>1, <1>2, Terms, TermsAfter DEF Fits, Balanced
<1> QED BY <1>1, <1>2, Ids, Terms DEF CountInv, Balanced, Fits

LEMMA QuietKeeps ==
    ASSUME IInv, IInv', CountInv, sync' = sync, Counting => Quiet
    PROVE  CountInv'
<1>1. ASSUME Quiet PROVE Balanced
  <2>1. Cardinality(Due') <= Cardinality(Due)
    BY <1>1, DueAfter DEF Quiet
  <2> QED BY <1>1, <2>1, Terms, TermsAfter DEF Quiet, Balanced
<1> QED BY <1>1, BalancedKeeps
-----------------------------------------------------------------------------
(* The steps.                                                              *)

USE Ids, ThreadsAssumption DEF AllSyncModes, Locking, Goto, Move, Ended,
    Waiting, others, counters, Touching, AfterLock, AfterConsume,
    NeverCreated, Joined, Counting, Quiet, Due, Tokens, Told,
    IInv, TypeOK, PhaseInv

\* A consumer's steps: it becomes due by a token of the semaphore or by a
\* spurious wakeup, and is no longer once it has counted the item.
LEMMA ConsumerCount ==
    ASSUME NEW c \in Consumers, IInv, IInv', CountInv, ~Ended, sync' = sync,
           ConsumerStep(c) \/ SpuriousWakeup(c)
    PROVE  CountInv'
<1> USE QuietKeeps
<1>1. CASE ConsumerStart(c)
  BY <1>1 DEF ConsumerStart, CountInv
<1>2. CASE ConsumerTest(c)
  BY <1>2 DEF ConsumerTest, CountInv
<1>3. CASE Acquire(c)
  BY <1>3 DEF Acquire, CountInv
<1>4. CASE CondWait(c)
  BY <1>4 DEF CondWait, CountInv
<1>5. CASE SemWait(c)
  <2>1. Due' \subseteq Due \cup {c} /\ (active = 0 => Due' \subseteq Due)
    BY <1>5 DEF SemWait
  <2>2. sync = "sem" => Tokens' + active = Tokens
    BY <1>5 DEF SemWait
  <2>3. /\ consumed' = consumed /\ spurious' = spurious /\ Told' = Told
        /\ active \in {0, 1} /\ Counting => sync = "sem"
        /\ \A d \in Consumers :
             /\ pc'[d] = "storeC" => pc[d] = "storeC" /\ reg'[d] = reg[d]
             /\ Counting => pc'[d] # "lock"
    BY <1>5 DEF SemWait, CountInv
  <2> HIDE DEF Due, Tokens, Told, Counting
  <2>4. Cardinality(Due') <= Cardinality(Due) + active
    BY <2>1, <2>3, DueAfter, Terms
  <2>5. Counting => Balanced
    BY <2>2, <2>3, <2>4, Terms, TermsAfter DEF Balanced
  <2> QED BY <2>5, BalancedKeeps
<1>6. CASE ConsumeCheck(c)
  BY <1>6 DEF ConsumeCheck, CountInv
<1>7. CASE LoadProduced(c)
  BY <1>7 DEF LoadProduced, CountInv
<1>8. CASE ConsumeStoreProduced(c)
  BY <1>8 DEF ConsumeStoreProduced, CountInv
<1>9. CASE ConsumeLoadConsumed(c)
  <2>1. /\ Due' = Due /\ Tokens' = Tokens /\ Told' = Told
        /\ spurious' = spurious /\ consumed' = consumed
        /\ reg'[c] = consumed /\ Counting' = Counting
        /\ \A d \in Consumers :
             /\ d # c /\ pc'[d] = "storeC" => pc[d] = "storeC" /\ reg'[d] = reg[d]
             /\ pc'[d] = "lock" => pc[d] = "lock"
    BY <1>9 DEF ConsumeLoadConsumed
  <2> HIDE DEF Due, Tokens, Told, Counting
  <2> QED BY <2>1 DEF CountInv, Fits
<1>10. CASE ConsumeStoreConsumed(c)
  <2>1. c \in Due /\ Due' \subseteq Due \ {c}
    BY <1>10 DEF ConsumeStoreConsumed
  <2>2. /\ Tokens' = Tokens /\ Told' = Told /\ spurious' = spurious
        /\ pc[c] = "storeC" /\ consumed' <= reg[c] + 1 /\ consumed' \in Nat
        /\ Counting' = Counting /\ reg' = reg
        /\ \A d \in Consumers : /\ pc'[d] = "storeC" => pc[d] = "storeC"
                                /\ pc'[d] = "lock" => pc[d] = "lock"
    BY <1>10 DEF ConsumeStoreConsumed, Inc
  <2> HIDE DEF Due, Tokens, Told, Counting
  <2>3. Cardinality(Due') <= Cardinality(Due) - 1
    BY <2>1, DueAfter
  <2>4. Counting => /\ Fits(consumed)'
                    /\ \A d \in Consumers : pc'[d] = "storeC" => Fits(reg[d])'
    BY <2>2, <2>3, Terms, TermsAfter DEF CountInv, Fits
  <2> QED BY <2>2, <2>4 DEF CountInv
<1>11. CASE ConsumePrint(c)
  BY <1>11 DEF ConsumePrint, CountInv
<1>12. CASE Release(c)
  BY <1>12 DEF Release, CountInv
<1>13. CASE ConsumerStop(c)
  BY <1>13 DEF ConsumerStop, CountInv
<1>14. CASE ActOnCancel(c)
  <2>1. PICK l \in {"done", "crelock", "clear"} : pc' = [pc EXCEPT ![c] = l]
    BY <1>14 DEF ActOnCancel
  <2>2. UNCHANGED <<sem, active, consumed, reg, i, spurious>>
    BY <1>14 DEF ActOnCancel
  <2>3. Due' \subseteq Due
    BY <2>1, <2>2
  <2> QED BY <2>1, <2>2, <2>3 DEF CountInv
<1>15. CASE ThreadClear(c)
  BY <1>15 DEF ThreadClear, CountInv
<1>16. CASE SpuriousWakeup(c)
  <2>1. Due' \subseteq Due \cup {c}
    BY <1>16 DEF SpuriousWakeup
  <2>2. /\ consumed' = consumed /\ spurious' = spurious + 1
        /\ Told' = Told /\ Tokens' = Tokens
        /\ \A d \in Consumers :
             /\ pc'[d] = "storeC" => pc[d] = "storeC" /\ reg'[d] = reg[d]
             /\ Counting /\ sync = "sem" => pc'[d] # "lock"
    BY <1>16 DEF SpuriousWakeup, CountInv
  <2> HIDE DEF Due, Tokens, Told, Counting
  <2>3. Cardinality(Due') <= Cardinality(Due) + 1
    BY <2>1, DueAfter
  <2>4. Counting => Balanced
    BY <2>2, <2>3, Terms, TermsAfter DEF Balanced
  <2> QED BY <2>4, BalancedKeeps
<1> QED BY <1>1, <1>2, <1>3, <1>4, <1>5, <1>6, <1>7, <1>8, <1>9, <1>10, <1>11, <1>12, <1>13, <1>14, <1>15, <1>16 DEF ConsumerStep, CountInv

\* The producer's steps: the signal makes one consumer due, the post one token.
LEMMA ProducerCount ==
    ASSUME IInv, IInv', CountInv, ~Ended, sync' = sync, ProducerStep
    PROVE  CountInv'
<1> USE QuietKeeps
<1>1. CASE ProducerStart
  BY <1>1 DEF ProducerStart, CountInv
<1>2. CASE ProducerTest
  BY <1>2 DEF ProducerTest, CountInv
<1>3. CASE Acquire(Producer)
  BY <1>3 DEF Acquire, CountInv
<1>4. CASE LoadProduced(Producer)
  BY <1>4 DEF LoadProduced, CountInv
<1>5. CASE ProducerStoreProduced
  BY <1>5 DEF ProducerStoreProduced, CountInv
<1>6. CASE ProducerSignal
  <2>1. CASE Waiting = {} /\ Goto(Producer, "unlock")
    BY <1>6, <2>1 DEF ProducerSignal, CountInv
  <2>2. ASSUME NEW c \in Waiting,
               pc' = [pc EXCEPT ![c] = "relock", ![Producer] = "unlock"]
        PROVE  CountInv'
    <3>0. pc[Producer] = "signal" /\ pc'[Producer] = "unlock" /\ i' = i
      BY <1>6, <2>2 DEF ProducerSignal
    <3>1. Due' \subseteq Due \cup {c} /\ Told' = Told + 1
      <4>1. Told' = Told + 1
        BY <3>0
      <4> QED BY <1>6, <2>2, <4>1 DEF ProducerSignal
    <3>2. Cardinality(Due') <= Cardinality(Due) + 1
      BY <3>1, DueAfter
    <3> QED BY <1>6, <2>2, <3>1, <3>2, BalancedKeeps, Terms, TermsAfter DEF ProducerSignal, Balanced, CountInv
  <2> QED BY <1>6, <2>1, <2>2 DEF ProducerSignal
<1>7. CASE ProducerPost
  <2>1. Due' \subseteq Due /\ Told' = Told + 1 /\ Tokens' <= Tokens + 1
    BY <1>7 DEF ProducerPost, CountInv
  <2>2. Cardinality(Due') <= Cardinality(Due)
    BY <2>1, DueAfter
  <2> QED BY <1>7, <2>1, <2>2, BalancedKeeps, Terms, TermsAfter DEF ProducerPost, Balanced, CountInv
<1>8. CASE Release(Producer)
  BY <1>8 DEF Release, CountInv
<1>9. CASE ProducerSleep
  BY <1>9 DEF ProducerSleep, CountInv
<1>10. CASE ProducerStop
  BY <1>10 DEF ProducerStop, CountInv
<1> QED BY <1>1, <1>2, <1>3, <1>4, <1>5, <1>6, <1>7, <1>8, <1>9, <1>10 DEF ProducerStep, CountInv

\* A step that moves nobody but main, and tells nobody.
LEMMA MainAlone ==
    ASSUME IInv, IInv', CountInv, sync' = sync, active' \in {active, 0},
           UNCHANGED <<consumed, reg, i, spurious>>, sem' = sem \/ active = 0,
           \A t \in Threads : t # Main => pc'[t] = pc[t]
    PROVE  CountInv'
<1>1. Due' \subseteq Due
  OBVIOUS
<1>2. Told' = Told
  OBVIOUS
<1>3. Tokens' <= Tokens
  OBVIOUS
<1>4. Quiet
  <2> HIDE DEF Due, Tokens, Told
  <2> QED BY <1>1, <1>2, <1>3, Terms DEF CountInv
<1> QED BY <1>4, QuietKeeps

\* The steps of main: once is_active is cleared, nobody who is woken counts.
LEMMA MainCount ==
    ASSUME IInv, IInv', CountInv, ~Ended, sync' = sync, MainStep
    PROVE  CountInv'
<1>1. CASE MainInit
  BY <1>1, MainAlone DEF MainInit
<1>2. CASE MainCreate
  <2>1. PICK made \in {"start", "none"} :
            pc' = [pc EXCEPT ![k] = made,
                             ![Main] = IF k = Producer THEN "joinP" ELSE "create"]
    BY <1>2 DEF MainCreate
  <2>2. k \in Threads /\ k # Main /\ pc[k] = "none"
    BY <1>2 DEF MainCreate, Threads, Main
  <2>3. UNCHANGED <<sem, active, consumed, reg, i, spurious>>
    BY <1>2 DEF MainCreate
  <2>4. Due' \subseteq Due
    BY <2>1, <2>2, <2>3
  <2>5. Told' = Told
    BY <2>1, <2>2, <2>3
  <2>6. \A c \in Consumers : pc'[c] # pc[c] => pc'[c] \in {"none", "start"}
    BY <2>1, <2>2
  <2>7. Tokens' = Tokens
    BY <2>3
  <2>8. Quiet
    <3> HIDE DEF Due, Tokens, Told
    <3> QED BY <2>3, <2>4, <2>5, <2>6, <2>7, Terms DEF CountInv
  <2> QED BY <2>8, QuietKeeps
<1>3. CASE MainJoinProducer
  BY <1>3, MainAlone DEF MainJoinProducer
<1>4. CASE MainCancel
  BY <1>4, MainAlone DEF MainCancel
<1>5. CASE MainDeactivate
  BY <1>5, MainAlone DEF MainDeactivate
<1>6. CASE Acquire(Main)
  BY <1>6, MainAlone DEF Acquire
<1>7. CASE MainBroadcast
  <2>1. active = 0 /\ UNCHANGED <<sem, active, consumed, reg, i, spurious>>
    BY <1>7 DEF MainBroadcast, MainStopping
  <2>2. \A c \in Consumers : pc'[c] \in {pc[c], "relock"}
    BY <1>7 DEF MainBroadcast
  <2>3. Due' \subseteq Due
    <3>1. ASSUME NEW c \in Due' PROVE c \in Consumers /\ pc'[c] \in Touching
      BY <2>1, <3>1
    <3>2. ASSUME NEW c \in Consumers, pc'[c] \in Touching PROVE c \in Due
      BY <2>2, <3>2
    <3> QED BY <3>1, <3>2
  <2>4. Told' = Told
    BY <1>7, <2>1 DEF MainBroadcast
  <2>5. Tokens' = Tokens
    BY <2>1
  <2>6. Quiet
    <3> HIDE DEF Due, Tokens, Told
    <3> QED BY <2>1, <2>2, <2>3, <2>4, <2>5, Terms DEF CountInv
  <2> QED BY <2>6, QuietKeeps
<1>8. CASE Release(Main)
  BY <1>8, MainAlone DEF Release
<1>9. CASE MainPost
  BY <1>9, MainAlone DEF MainPost, MainStopping
<1>10. CASE MainJoin
  BY <1>10, MainAlone DEF MainJoin
<1>11. CASE MainDestroy
  BY <1>11, MainAlone DEF MainDestroy
<1> QED BY <1>1, <1>2, <1>3, <1>4, <1>5, <1>6, <1>7, <1>8, <1>9, <1>10, <1>11 DEF MainStep

LEMMA NextCount == IInv /\ IInv' /\ CountInv /\ [Next]_vars => CountInv'
<1> SUFFICES ASSUME IInv, IInv', CountInv, [Next]_vars PROVE CountInv'
  OBVIOUS
<1>1. ASSUME NEW t \in Threads, ThreadStep(t) PROVE CountInv'
  <2>1. CASE t \in Consumers
    BY <1>1, <2>1, ConsumerCount DEF ThreadStep, Run
  <2>2. CASE t = Producer
    BY <1>1, <2>2, ProducerCount DEF ThreadStep, Run
  <2>3. CASE t = Main
    BY <1>1, <2>3, MainCount DEF ThreadStep, Run
  <2> QED BY <2>1, <2>2, <2>3
<1>2. ASSUME NEW c \in Consumers, Run(SpuriousWakeup(c)) PROVE CountInv'
  BY <1>2, ConsumerCount DEF Run
<1>3. CASE UNCHANGED vars
  BY <1>3, QuietKeeps DEF vars, CountInv
<1> QED BY <1>1, <1>2, <1>3 DEF Next

LEMMA CountEnough == IInv /\ CountInv => NoOverconsumption
<1> SUFFICES ASSUME IInv, CountInv, Counting PROVE consumed <= Made + spurious
  BY DEF NoOverconsumption
<1>1. Told <= Made
  BY DEF Made
<1> QED BY <1>1, Terms DEF CountInv, Fits, Made

HIDE DEF AllSyncModes, Locking, Goto, Move, Ended,
    Waiting, others, counters, Touching, AfterLock, AfterConsume,
    NeverCreated, Joined, Counting, Quiet, Due, Tokens, Told,
    IInv, TypeOK, PhaseInv

\* Where consumers wait to be told of an item they never count more than were
\* made and woke them by mistake; also when the counters race.
THEOREM NeverOverconsumed == Spec => []NoOverconsumption
BY CountInit, NextCount, CountEnough, Invariant, PTL DEF Spec
-----------------------------------------------------------------------------
(* The shutdown: nobody holds the lock and stays, and once main has cleared *)
(* is_active each consumer has a bounded number of steps left.             *)

\* Labels at which a thread sleeps until another one wakes it, or asks for
\* the mutex on the way out of that sleep.
Asleep == {"wait", "waiting", "relock", "crelock", "semwait"}

\* Whoever has the lock is at a step that it can take alone; without a
\* condition variable and a semaphore no consumer sleeps.
NobodyStuck ==
    /\ Locking /\ owner # Nobody => pc[owner] \in InLock
    /\ sync \in {"mutex", "spin"} => \A c \in Consumers : pc[c] \notin Asleep

\* The most steps a consumer at label l takes once is_active is cleared.
StepsLeft(l) ==
    CASE l \in {"none", "done"}                      -> 0
      [] l = "clear"                                 -> 1
      [] l \in {"stop", "crelock"}                   -> 2
      [] l = "test"                                  -> 3
      [] l \in {"start", "unlock"}                   -> 4
      [] l \in {"check", "print"}                    -> 5
      [] l \in {"relock", "semwait", "storeC"}         -> 6
      [] l \in {"waiting", "loadC"}                  -> 7
      [] l \in {"wait", "storeP"}                    -> 8
      [] OTHER                                       -> 9

\* Once is_active is cleared, a consumer that moves has fewer steps left.
Nearer ==
    active = 0 => \A c \in Consumers :
        pc[c]' # pc[c] => StepsLeft(pc[c]') < StepsLeft(pc[c])

USE Ids, ThreadsAssumption DEF AllSyncModes, Locking, Goto, Move, Ended,
    Waiting, others, counters, ConsumerLabels, ProducerLabels, MainLabels,
    MainStopping, MainPosted, Touching, InLock, AfterLock, AfterConsume,
    NeverCreated, Joined, IInv, TypeOK, PhaseInv, NobodyStuck, Asleep

LEMMA StuckInit == Init => NobodyStuck
BY DEF Init

LEMMA ConsumerShutdown ==
    ASSUME NEW c \in Consumers, IInv, NobodyStuck, ~Ended, UNCHANGED sync,
           ConsumerStep(c) \/ SpuriousWakeup(c)
    PROVE  NobodyStuck' /\ Nearer
<1>1. CASE ConsumerStart(c)
  BY <1>1 DEF ConsumerStart, Nearer, StepsLeft
<1>2. CASE ConsumerTest(c)
  BY <1>2 DEF ConsumerTest, Nearer, StepsLeft
<1>3. CASE Acquire(c)
  BY <1>3 DEF Acquire, Nearer, StepsLeft
<1>4. CASE CondWait(c)
  BY <1>4 DEF CondWait, Nearer, StepsLeft
<1>5. CASE SemWait(c)
  BY <1>5 DEF SemWait, Nearer, StepsLeft
<1>6. CASE ConsumeCheck(c)
  BY <1>6 DEF ConsumeCheck, Nearer, StepsLeft
<1>7. CASE LoadProduced(c)
  BY <1>7 DEF LoadProduced, Nearer, StepsLeft
<1>8. CASE ConsumeStoreProduced(c)
  BY <1>8 DEF ConsumeStoreProduced, Nearer, StepsLeft
<1>9. CASE ConsumeLoadConsumed(c)
  BY <1>9 DEF ConsumeLoadConsumed, Nearer, StepsLeft
<1>10. CASE ConsumeStoreConsumed(c)
  BY <1>10 DEF ConsumeStoreConsumed, Nearer, StepsLeft
<1>11. CASE ConsumePrint(c)
  BY <1>11 DEF ConsumePrint, Nearer, StepsLeft
<1>12. CASE Release(c)
  BY <1>12 DEF Release, Nearer, StepsLeft
<1>13. CASE ConsumerStop(c)
  BY <1>13 DEF ConsumerStop, Nearer, StepsLeft
<1>14. CASE ActOnCancel(c)
  BY <1>14 DEF ActOnCancel, Nearer, StepsLeft
<1>15. CASE ThreadClear(c)
  BY <1>15 DEF ThreadClear, Nearer, StepsLeft
<1>16. CASE SpuriousWakeup(c)
  BY <1>16 DEF SpuriousWakeup, Nearer, StepsLeft
<1> QED BY <1>1, <1>2, <1>3, <1>4, <1>5, <1>6, <1>7, <1>8, <1>9, <1>10, <1>11, <1>12, <1>13, <1>14, <1>15, <1>16 DEF ConsumerStep

LEMMA ProducerShutdown ==
    ASSUME IInv, NobodyStuck, ~Ended, UNCHANGED sync, ProducerStep
    PROVE  NobodyStuck' /\ Nearer
<1>1. CASE ProducerStart
  BY <1>1 DEF ProducerStart, Nearer
<1>2. CASE ProducerTest
  BY <1>2 DEF ProducerTest, Nearer
<1>3. CASE Acquire(Producer)
  BY <1>3 DEF Acquire, Nearer
<1>4. CASE LoadProduced(Producer)
  BY <1>4 DEF LoadProduced, Nearer
<1>5. CASE ProducerStoreProduced
  BY <1>5 DEF ProducerStoreProduced, Nearer
<1>6. CASE ProducerSignal
  BY <1>6 DEF ProducerSignal, Nearer, StepsLeft
<1>7. CASE ProducerPost
  BY <1>7 DEF ProducerPost, Nearer
<1>8. CASE Release(Producer)
  BY <1>8 DEF Release, Nearer
<1>9. CASE ProducerSleep
  BY <1>9 DEF ProducerSleep, Nearer
<1>10. CASE ProducerStop
  BY <1>10 DEF ProducerStop, Nearer
<1> QED BY <1>1, <1>2, <1>3, <1>4, <1>5, <1>6, <1>7, <1>8, <1>9, <1>10 DEF ProducerStep

LEMMA MainShutdown ==
    ASSUME IInv, NobodyStuck, ~Ended, UNCHANGED sync, MainStep
    PROVE  NobodyStuck' /\ Nearer
<1>1. CASE MainInit
  BY <1>1 DEF MainInit, Nearer
<1>2. CASE MainCreate
  BY <1>2 DEF MainCreate, Nearer, StepsLeft
<1>3. CASE MainJoinProducer
  BY <1>3 DEF MainJoinProducer, Nearer
<1>4. CASE MainCancel
  BY <1>4 DEF MainCancel, Nearer
<1>5. CASE MainDeactivate
  BY <1>5 DEF MainDeactivate, Nearer
<1>6. CASE Acquire(Main)
  BY <1>6 DEF Acquire, Nearer
<1>7. CASE MainBroadcast
  BY <1>7 DEF MainBroadcast, Nearer, StepsLeft
<1>8. CASE Release(Main)
  BY <1>8 DEF Release, Nearer
<1>9. CASE MainPost
  BY <1>9 DEF MainPost, Nearer
<1>10. CASE MainJoin
  BY <1>10 DEF MainJoin, Nearer
<1>11. CASE MainDestroy
  BY <1>11 DEF MainDestroy, Nearer
<1> QED BY <1>1, <1>2, <1>3, <1>4, <1>5, <1>6, <1>7, <1>8, <1>9, <1>10, <1>11 DEF MainStep

LEMMA NextShutdown ==
    IInv /\ NobodyStuck /\ [Next]_vars => NobodyStuck' /\ [Nearer]_vars
<1> SUFFICES ASSUME IInv, NobodyStuck, [Next]_vars
             PROVE  NobodyStuck' /\ [Nearer]_vars
  OBVIOUS
<1>1. ASSUME NEW t \in Threads, ThreadStep(t) PROVE NobodyStuck' /\ Nearer
  <2>1. CASE t \in Consumers
    BY <1>1, <2>1, ConsumerShutdown DEF ThreadStep, Run
  <2>2. CASE t = Producer
    BY <1>1, <2>2, ProducerShutdown DEF ThreadStep, Run
  <2>3. CASE t = Main
    BY <1>1, <2>3, MainShutdown DEF ThreadStep, Run
  <2> QED BY <2>1, <2>2, <2>3
<1>2. ASSUME NEW c \in Consumers, Run(SpuriousWakeup(c))
      PROVE  NobodyStuck' /\ Nearer
  BY <1>2, ConsumerShutdown DEF Run
<1>3. CASE UNCHANGED vars
  BY <1>3 DEF vars
<1> QED BY <1>1, <1>2, <1>3 DEF Next

HIDE DEF AllSyncModes, Locking, Goto, Move, Ended,
    Waiting, others, counters, ConsumerLabels, ProducerLabels, MainLabels,
    MainStopping, MainPosted, Touching, InLock, AfterLock, AfterConsume,
    NeverCreated, Joined, IInv, TypeOK, PhaseInv, NobodyStuck, Asleep

\* Wherever consumer 0 is cancelled, and although thread_clear may unlock a
\* lock that another thread holds (line 98), the lock never stays with a
\* thread that has stopped or waits; with a mutex or a spin lock no
\* consumer waits for anything else.
THEOREM LockComesFree == Spec => []NobodyStuck
BY StuckInit, NextShutdown, Invariant, PTL DEF Spec

\* After line 199 every step of a consumer brings it nearer its end, in all
\* four builds: none goes round its loop again, and one that was woken by the
\* broadcast (line 205) or took the token of line 208 never waits again.
THEOREM StopGoesForward == Spec => [][Nearer]_vars
BY StuckInit, NextShutdown, Invariant, PTL DEF Spec
=============================================================================
