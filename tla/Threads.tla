------------------------------- MODULE Threads -------------------------------
(***************************************************************************)
(* ex28_threads.c: one producer, NCONSUMERS consumers and main share a     *)
(* State_t.  The four builds of the file (SYNC_MUTEX, SYNC_COND,           *)
(* SYNC_SPINLOCK, SYNC_SEMAPHORE) are the values of the variable sync,     *)
(* chosen at the start and never changed.                                  *)
(*                                                                         *)
(* A statement is split into one step per access to shared memory:         *)
(* produced-- and consumed++ are a load into a register and a store.       *)
(***************************************************************************)
EXTENDS Integers

CONSTANTS
    SyncModes,      \* the builds considered, a subset of the four
    NCONSUMERS,     \* LEN_ARRAY(tid_consumers), 2 in the code
    PRODUCE_CNT,    \* items the producer makes, 100 in the code
    UINT,           \* number of values of an unsigned int
    CreateOutcomes, \* what pthread_create may do: "start" a thread or "none"
    MaxSpurious     \* bound: returns of pthread_cond_wait without a wakeup

AllSyncModes == {"mutex", "cond", "spin", "sem"}

ASSUME ThreadsAssumption ==
    /\ SyncModes \subseteq AllSyncModes
    /\ NCONSUMERS \in Nat \ {0}
    /\ PRODUCE_CNT \in Nat
    /\ UINT \in Nat /\ UINT > 1 /\ PRODUCE_CNT < UINT
    /\ CreateOutcomes \subseteq {"start", "none"}
    /\ MaxSpurious \in Nat

Consumers == 0 .. NCONSUMERS - 1
Producer  == NCONSUMERS
Main      == NCONSUMERS + 1
Threads   == 0 .. NCONSUMERS + 1
Cancelled == 0            \* tid_consumers[0], the one main cancels
Nobody    == -1

VARIABLES
    sync,       \* which of the four builds runs
    pc,         \* where each thread is
    k,          \* main: the next thread to create
    i,          \* producer: loop counter of line 109
    owner,      \* holder of the mutex or spin lock, or Nobody
    sem,        \* value of the semaphore
    active,     \* State_t.is_active
    cancel,     \* 1 once a cancellation request to consumer 0 was sent
    produced,   \* State_t.produced
    consumed,   \* State_t.consumed
    reg,        \* the value each thread loaded for ++ or --
    spurious    \* spurious returns of pthread_cond_wait so far

vars == <<sync, pc, k, i, owner, sem, active, cancel, produced, consumed,
          reg, spurious>>
counters == <<produced, consumed, reg>>
others   == <<k, i, spurious>>

Locking == sync # "sem"

\* x + 1 and x - 1 as a C unsigned int computes them.
Inc(x) == IF x + 1 = UINT THEN 0 ELSE x + 1
\* Variant: a counter that does not wrap.
DecSigned(x) == x - 1
Dec(x) == IF x = 0 THEN UINT - 1 ELSE x - 1

Goto(t, l)       == pc' = [pc EXCEPT ![t] = l]
Move(t, from, to) == pc[t] = from /\ Goto(t, to)
Waiting == {c \in Consumers : pc[c] = "waiting"}

Init ==
    /\ sync \in SyncModes
    /\ pc = [t \in Threads |-> IF t = Main THEN "init" ELSE "none"]
    /\ k = 0 /\ i = 0 /\ spurious = 0
    /\ owner = Nobody /\ sem = 0
    /\ active = 1 /\ cancel = 0
    /\ produced = 0 /\ consumed = 0
    /\ reg = [t \in Threads |-> 0]

-----------------------------------------------------------------------------
(* Steps of more than one kind of thread.                                  *)

\* pthread_mutex_lock and pthread_spin_lock; the two relock labels are the
\* end of pthread_cond_wait, which takes the mutex again before it returns
\* or, when cancelled, before the cleanup handler runs.
AfterLock(t) ==
    CASE t = Main     -> "broadcast"
      [] t = Producer -> "loadP"
      [] OTHER        -> IF sync = "cond" THEN "wait" ELSE "check"

\* Variant: the failure branch of lines 75, 81, 88, which only prints.
AcquireFailed(t) ==
    /\ owner' = t
    /\ \/ Move(t, "lock", AfterLock(t))
       \/ Move(t, "relock", "check")
       \/ Move(t, "crelock", "clear")
    /\ UNCHANGED <<sem, active, cancel, counters, others>>

Acquire(t) ==
    /\ owner = Nobody
    /\ owner' = t
    /\ \/ Move(t, "lock", AfterLock(t))
       \/ Move(t, "relock", "check")
       \/ Move(t, "crelock", "clear")
    /\ UNCHANGED <<sem, active, cancel, counters, others>>

\* No owner check: the default mutex and the spin lock simply become free.
Release(t) ==
    /\ Move(t, "unlock", CASE t = Main     -> "join"
                           [] t = Producer -> "sleep"
                           [] OTHER        -> "test")
    /\ owner' = Nobody
    /\ UNCHANGED <<sem, active, cancel, counters, others>>

LoadProduced(t) ==
    /\ Move(t, "loadP", "storeP")
    /\ reg' = [reg EXCEPT ![t] = produced]
    /\ UNCHANGED <<owner, sem, active, cancel, produced, consumed, others>>

-----------------------------------------------------------------------------
(* thread_consumer and consume.                                            *)

ConsumerStart(c) ==
    /\ Move(c, "start", "test")
    /\ UNCHANGED <<owner, sem, active, cancel, counters, others>>

ConsumerTest(c) ==
    /\ Move(c, "test", IF active = 0 THEN "stop"
                       ELSE IF Locking THEN "lock" ELSE "semwait")
    /\ UNCHANGED <<owner, sem, active, cancel, counters, others>>

CondWait(c) ==
    /\ Move(c, "wait", "waiting")
    /\ owner' = Nobody
    /\ UNCHANGED <<sem, active, cancel, counters, others>>

SpuriousWakeup(c) ==
    /\ spurious < MaxSpurious
    /\ Move(c, "waiting", "relock")
    /\ spurious' = spurious + 1
    /\ UNCHANGED <<owner, sem, active, cancel, counters, k, i>>

SemWait(c) ==
    /\ sem > 0
    /\ Move(c, "semwait", "check")
    /\ sem' = sem - 1
    /\ UNCHANGED <<owner, active, cancel, counters, others>>

AfterConsume == IF Locking THEN "unlock" ELSE "test"

\* Variant: a woken consumer does not look at is_active again.
ConsumeUnchecked(c) ==
    /\ Move(c, "check", "loadP")
    /\ UNCHANGED <<owner, sem, active, cancel, counters, others>>

ConsumeCheck(c) ==
    /\ Move(c, "check", IF active = 1 THEN "loadP" ELSE AfterConsume)
    /\ UNCHANGED <<owner, sem, active, cancel, counters, others>>

ConsumeStoreProduced(c) ==
    /\ Move(c, "storeP", "loadC")
    /\ produced' = Dec(reg[c])
    /\ UNCHANGED <<owner, sem, active, cancel, consumed, reg, others>>

ConsumeLoadConsumed(c) ==
    /\ Move(c, "loadC", "storeC")
    /\ reg' = [reg EXCEPT ![c] = consumed]
    /\ UNCHANGED <<owner, sem, active, cancel, produced, consumed, others>>

ConsumeStoreConsumed(c) ==
    /\ Move(c, "storeC", "print")
    /\ consumed' = Inc(reg[c])
    /\ UNCHANGED <<owner, sem, active, cancel, produced, reg, others>>

ConsumePrint(c) ==
    /\ Move(c, "print", AfterConsume)
    /\ UNCHANGED <<owner, sem, active, cancel, counters, others>>

ConsumerStop(c) ==
    /\ Move(c, "stop", "done")
    /\ UNCHANGED <<owner, sem, active, cancel, counters, others>>

\* Variant: PTHREAD_CANCEL_ASYNCHRONOUS, cancelled between the two counters.
ActOnCancelAsync(c) ==
    /\ c = Cancelled /\ cancel = 1
    /\ \/ Move(c, "waiting", "crelock")
       \/ Move(c, "loadC", "clear")
    /\ UNCHANGED <<owner, sem, active, cancel, counters, others>>

\* The request takes effect at a cancellation point: pthread_cond_wait,
\* sem_wait, and the printf calls of lines 64, 70 and 98, where it may.
\* Line 70 runs before the cleanup handler is pushed.
ActOnCancel(c) ==
    /\ c = Cancelled /\ cancel = 1
    /\ \/ Move(c, "start", "done")
       \/ Move(c, "waiting", "crelock")
       \/ Move(c, "semwait", "clear")
       \/ Move(c, "print", "clear")
       \/ Move(c, "stop", "clear")
    /\ UNCHANGED <<owner, sem, active, cancel, counters, others>>

\* Variant: a cleanup handler that only prints.
ThreadClearKeepsLock(c) ==
    /\ Move(c, "clear", "done")
    /\ UNCHANGED <<owner, sem, active, cancel, counters, others>>

\* thread_clear unlocks whether or not the cancelled thread holds the lock:
\* at line 98 it does not.
ThreadClear(c) ==
    /\ Move(c, "clear", "done")
    /\ owner' = IF Locking THEN Nobody ELSE owner
    /\ UNCHANGED <<sem, active, cancel, counters, others>>

ConsumerStep(c) ==
    \/ ConsumerStart(c) \/ ConsumerTest(c) \/ Acquire(c) \/ CondWait(c)
    \/ SemWait(c) \/ ConsumeCheck(c)
    \/ LoadProduced(c) \/ ConsumeStoreProduced(c)
    \/ ConsumeLoadConsumed(c) \/ ConsumeStoreConsumed(c) \/ ConsumePrint(c)
    \/ Release(c) \/ ConsumerStop(c) \/ ActOnCancel(c) \/ ThreadClear(c)

-----------------------------------------------------------------------------
(* thread_producer.                                                        *)

ProducerStart ==
    /\ Move(Producer, "start", "test")
    /\ UNCHANGED <<owner, sem, active, cancel, counters, others>>

ProducerTest ==
    /\ Move(Producer, "test", IF i >= PRODUCE_CNT THEN "stop"
                              ELSE IF Locking THEN "lock" ELSE "loadP")
    /\ UNCHANGED <<owner, sem, active, cancel, counters, others>>

ProducerStoreProduced ==
    /\ Move(Producer, "storeP", CASE sync = "cond" -> "signal"
                                  [] sync = "sem"  -> "post"
                                  [] OTHER         -> "unlock")
    /\ produced' = Inc(reg[Producer])
    /\ UNCHANGED <<owner, sem, active, cancel, consumed, reg, others>>

\* Variant: one item wakes every waiting consumer.
ProducerSignalAll ==
    /\ pc[Producer] = "signal"
    /\ pc' = [t \in Threads |-> IF t \in Waiting THEN "relock"
                                ELSE IF t = Producer THEN "unlock" ELSE pc[t]]
    /\ UNCHANGED <<owner, sem, active, cancel, counters, others>>

\* pthread_cond_signal: a signal that finds nobody waiting is lost.
ProducerSignal ==
    /\ pc[Producer] = "signal"
    /\ \/ Waiting = {} /\ Goto(Producer, "unlock")
       \/ \E c \in Waiting :
            pc' = [pc EXCEPT ![c] = "relock", ![Producer] = "unlock"]
    /\ UNCHANGED <<owner, sem, active, cancel, counters, others>>

ProducerPost ==
    /\ Move(Producer, "post", "sleep")
    /\ sem' = sem + 1
    /\ UNCHANGED <<owner, active, cancel, counters, others>>

ProducerSleep ==
    /\ Move(Producer, "sleep", "test")
    /\ i' = i + 1
    /\ UNCHANGED <<owner, sem, active, cancel, counters, k, spurious>>

ProducerStop ==
    /\ Move(Producer, "stop", "done")
    /\ UNCHANGED <<owner, sem, active, cancel, counters, others>>

ProducerStep ==
    \/ ProducerStart \/ ProducerTest \/ Acquire(Producer)
    \/ LoadProduced(Producer) \/ ProducerStoreProduced \/ ProducerSignal
    \/ ProducerPost \/ Release(Producer) \/ ProducerSleep \/ ProducerStop

-----------------------------------------------------------------------------
(* main.                                                                   *)

\* A failed initialisation breaks to the cleanup, where every tid is still 0
\* and the two pthread_cancel calls are skipped.
MainInit ==
    /\ \/ Move(Main, "init", "create")
       \/ Move(Main, "init", "destroy")
    /\ UNCHANGED <<owner, sem, active, cancel, counters, others>>

\* pthread_create returns a positive error number: the test "< 0" never sees
\* a failure and main goes on without the thread.
MainCreate ==
    /\ pc[Main] = "create"
    /\ \E made \in CreateOutcomes :
         pc' = [pc EXCEPT ![k] = made,
                          ![Main] = IF k = Producer THEN "joinP" ELSE "create"]
    /\ k' = k + 1
    /\ UNCHANGED <<owner, sem, active, cancel, counters, i, spurious>>

\* Joining or cancelling a thread that was never created is undefined: the
\* call dereferences tid 0 and crashes, or returns ESRCH.
NeverCreated(t, next) ==
    /\ pc[t] = "none"
    /\ Goto(Main, "crashed") \/ Goto(Main, next)

MainJoinProducer ==
    /\ pc[Main] = "joinP"
    /\ \/ pc[Producer] = "done" /\ Goto(Main, "cancel")
       \/ NeverCreated(Producer, "cancel")
    /\ UNCHANGED <<owner, sem, active, cancel, counters, others>>

MainCancel ==
    /\ pc[Main] = "cancel"
    /\ \/ /\ pc[Cancelled] # "none"
          /\ cancel' = 1
          /\ Goto(Main, "deactivate")
       \/ NeverCreated(Cancelled, "deactivate") /\ UNCHANGED cancel
    /\ UNCHANGED <<owner, sem, active, counters, others>>

MainDeactivate ==
    /\ Move(Main, "deactivate", CASE sync = "cond" -> "lock"
                                  [] sync = "sem"  -> "post"
                                  [] OTHER         -> "join")
    /\ active' = 0
    /\ UNCHANGED <<owner, sem, cancel, counters, others>>

\* Variant: pthread_cond_signal in place of pthread_cond_broadcast.
MainSignal ==
    /\ pc[Main] = "broadcast"
    /\ \/ Waiting = {} /\ Goto(Main, "unlock")
       \/ \E c \in Waiting :
            pc' = [pc EXCEPT ![c] = "relock", ![Main] = "unlock"]
    /\ UNCHANGED <<owner, sem, active, cancel, counters, others>>

MainBroadcast ==
    /\ pc[Main] = "broadcast"
    /\ pc' = [t \in Threads |-> IF t \in Waiting THEN "relock"
                                ELSE IF t = Main THEN "unlock" ELSE pc[t]]
    /\ UNCHANGED <<owner, sem, active, cancel, counters, others>>

MainPost ==
    /\ Move(Main, "post", "join")
    /\ sem' = sem + 1
    /\ UNCHANGED <<owner, active, cancel, counters, others>>

\* Every consumer but the cancelled one is joined.
Joined == Consumers \ {Cancelled}

MainJoin ==
    /\ pc[Main] = "join"
    /\ \/ (\A c \in Joined : pc[c] \in {"done", "none"}) /\ Goto(Main, "destroy")
       \/ (\E c \in Joined : pc[c] = "none") /\ Goto(Main, "crashed")
    /\ UNCHANGED <<owner, sem, active, cancel, counters, others>>

\* Destroys the lock and returns, which ends every thread that still runs.
MainDestroy ==
    /\ Move(Main, "destroy", "returned")
    /\ UNCHANGED <<owner, sem, active, cancel, counters, others>>

MainStep ==
    \/ MainInit \/ MainCreate \/ MainJoinProducer \/ MainCancel
    \/ MainDeactivate \/ Acquire(Main) \/ MainBroadcast \/ Release(Main)
    \/ MainPost \/ MainJoin \/ MainDestroy

-----------------------------------------------------------------------------
Ended == pc[Main] \in {"returned", "crashed"}

Run(step) == ~Ended /\ step /\ UNCHANGED sync

ThreadStep(t) == Run(CASE t = Main     -> MainStep
                       [] t = Producer -> ProducerStep
                       [] OTHER        -> ConsumerStep(t))

Next == \/ \E t \in Threads : ThreadStep(t)
        \/ \E c \in Consumers : Run(SpuriousWakeup(c))

Spec == Init /\ [][Next]_vars

\* Every thread keeps running while it can, and one that asks for a lock that
\* becomes free again and again gets it in the end.
FairSpec == /\ Spec
            /\ \A t \in Threads : WF_vars(ThreadStep(t))
            /\ \A t \in Threads : SF_vars(Run(Acquire(t)))

-----------------------------------------------------------------------------
(* Properties.                                                             *)

ConsumerLabels ==
    {"none", "start", "test", "lock", "wait", "waiting", "relock", "crelock",
     "semwait", "check", "loadP", "storeP", "loadC", "storeC", "print",
     "unlock", "stop", "clear", "done"}
ProducerLabels ==
    {"none", "start", "test", "lock", "loadP", "storeP", "signal", "unlock",
     "post", "sleep", "stop", "done"}
MainLabels ==
    {"init", "create", "joinP", "cancel", "deactivate", "lock", "broadcast",
     "unlock", "post", "join", "destroy", "returned", "crashed"}

\* Types of the variables; i and k stay within their loops and both counters
\* stay unsigned ints whatever the consumers take.
TypeOK ==
    /\ sync \in SyncModes
    /\ pc \in [Threads -> ConsumerLabels \cup ProducerLabels \cup MainLabels]
    /\ \A c \in Consumers : pc[c] \in ConsumerLabels
    /\ pc[Producer] \in ProducerLabels
    /\ pc[Main] \in MainLabels
    /\ k \in 0 .. NCONSUMERS + 1 /\ (pc[Main] = "create" => k <= NCONSUMERS)
    /\ i \in 0 .. PRODUCE_CNT
    /\ owner \in Threads \cup {Nobody}
    /\ sem \in 0 .. PRODUCE_CNT + 1
    /\ active \in {0, 1} /\ cancel \in {0, 1}
    /\ produced \in 0 .. UINT - 1 /\ consumed \in 0 .. UINT - 1
    /\ reg \in [Threads -> 0 .. UINT - 1]
    /\ spurious \in 0 .. MaxSpurious

\* Labels at which a thread is between a load and the last store of the two
\* counters, and labels at which it believes it holds the lock.
Touching == {"loadP", "storeP", "loadC", "storeC"}
InLock   == Touching \cup {"wait", "check", "print", "unlock", "clear",
                           "signal", "broadcast"}

\* With any of the three locks no two threads are inside produced++,
\* produced--, consumed++ together (lines 62-63, 114, 120, 127), although
\* thread_clear may unlock a lock that another thread holds (line 98).
ExclusiveCounters ==
    Locking => \A t, u \in Threads :
        pc[t] \in Touching /\ pc[u] \in Touching => t = u

\* Items the producer has counted, and whether a consumer has taken one from
\* produced and not yet added it to consumed.
Made == i + (IF pc[Producer] \in {"signal", "unlock", "post", "sleep"}
             THEN 1 ELSE 0)
Taking == \E c \in Consumers : pc[c] \in {"loadC", "storeC"}
InFlight == IF Taking THEN 1 ELSE 0

\* No update of the counters is lost, whatever the interleaving and wherever
\* consumer 0 is cancelled: modulo the width of an unsigned int, what is on
\* hand and what was taken add up to what was made.
Conservation ==
    Locking => produced + consumed + InFlight \in {Made, Made + UINT}

\* Where consumers wait to be told of an item (pthread_cond_wait, sem_wait)
\* they never take more than was made, but for the spurious wakeups that
\* line 84 does not re-check; with a semaphore this holds even though the
\* counters themselves race.
NoOverconsumption ==
    sync \in {"cond", "sem"} => consumed <= Made + spurious

\* A consumer that main joins and nobody will wake: with a condition variable
\* it waits since after the broadcast; with a semaphore consumer 0 took the
\* only token of line 208 before its cancellation acted.
Unwoken ==
    /\ pc[Main] = "join"
    /\ \E c \in Joined :
         \/ sync = "cond" /\ pc[c] = "waiting"
         \/ sync = "sem" /\ pc[c] = "semwait" /\ sem = 0 /\ pc[Cancelled] = "done"

\* With a mutex or a spin lock the program ends: cancelling consumer 0 with
\* the lock held (line 64) does not block the others (thread_clear).  With a
\* semaphore it ends if consumer 0 has gone when main posts (line 208).  In
\* all four builds it ends unless a consumer stays unwoken: nothing else hangs.
ShutdownCompletes ==
    /\ sync \in {"mutex", "spin"} => <>Ended
    /\ sync = "sem" /\ pc[Main] = "post" /\ pc[Cancelled] = "done" ~> Ended
    /\ <>(Ended \/ Unwoken)

\* Every consumer that waits when main broadcasts (line 205) stops.
WokenByBroadcast ==
    \A c \in Consumers :
        pc[Main] = "broadcast" /\ pc[c] = "waiting" ~> pc[c] = "done" \/ Ended

\* The abstract view: an item on its way from produced to consumed is still
\* in stock, and a consumer past the check of line 61 may finish after main
\* cleared is_active.
Stock == IF Taking THEN Inc(produced) ELSE produced
Grace == IF active = 0 /\ \E c \in Consumers : pc[c] \in Touching
         THEN 1 ELSE 0

L == INSTANCE Ledger WITH stock <- Stock, taken <- consumed, made <- Made,
                          open <- active, grace <- Grace

\* With a lock the program is a ledger: items are made and taken in single
\* steps and at most one is taken after is_active is cleared (line 199).
LedgerSpec == L!Init /\ [][Locking => L!Next]_(L!ledgerVars)

\* What the comments of lines 197 and 200 say.  "wakeup consumers": once main
\* has told the consumers to stop, the program ends.
StopWakesConsumers == pc[Main] = "join" ~> Ended

\* "tid_consumers[0] must wake up": when the lock is destroyed the cancelled
\* consumer is no longer using it.
CancelledHasStopped ==
    pc[Main] = "returned" => pc[Cancelled] \in {"none", "done"}
=============================================================================
