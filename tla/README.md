# A verification of the Course_C programs

The repository is a set of small C programs, one or two per chapter of a course
(`src/PLAN.txt`). Most demonstrate a construct of the language. Ten chapters keep
state across many steps, and nearly all of those share it with another thread or
process. They are modelled here in TLA+ and checked with TLC on small instances;
for all of the models the main properties are also proved with TLAPS for every
value of the constants.

## Inventory

| program | state | operations | how the parts meet | what is hard |
|---|---|---|---|---|
| `ex28_threads.c` | `State_t` (`produced`, `consumed`, `is_active`), one lock or semaphore, thread ids | produce, consume, stop, cancel, cleanup handler | one producer, two consumers and main, over one struct; four builds (`SYNC_MUTEX`, `SYNC_COND`, `SYNC_SPINLOCK`, `SYNC_SEMAPHORE`) | interleaving, lost and spurious wakeups, cancellation with the lock held |
| `ex26_sender.c`, `ex26_receiver.c`, shared memory | a buffer, a semaphore, their names | create, size, map, copy, post / open, wait, copy, remove; both exist as POSIX (`XSMEM`) and System V (`VSMEM`) | two processes over a semaphore | what a killed run leaves, start order, the semaphore read as "has been copied" |
| the same, queueing | a pipe (`FIFO`), POSIX queue (`XQUEUE`) or System V queue (`VQUEUE`) | open, write/send, read/receive, remove | two processes over the queue | message borders in the pipe, a full queue, leftovers, timeouts |
| `ex27_daemon/` | lock file, socket path, listening socket, configuration read by SIGHUP | daemonize, lock, set up the socket, serve, shut down, reload | daemons compete for a file lock and a path; clients connect; signals at any moment | two starts at once, SIGINT anywhere, crash leftovers, interrupted `accept` |
| `ex29_multiplexing.c` and its client | set of descriptors, one buffer, wakeup count | wake up, accept, echo, hang up; three builds (`SELECT`, `POLL`, `EPOLL`) | TCP streams with any number of clients | short reads, shared buffer, clients that disappear, slots that are not given back |
| `ex12_data_structs.c` | growing array, linked list, hash set | push, link, add, rehash, free | sequential | when the table grows, and whether rehashed items are found |
| `ex16_echo_server.c`, `ex16_client.c`, `ex25_*` | stream socket and backlog, one connection, one datagram, a socket path | bind, accept, receive, send, close, unlink / connect, send, receive | one exchange per server over TCP and then UDP (ex16) or over a local socket (ex25) | order of start, `MSG_DONTWAIT`, lost datagrams, SIGPIPE, a path left by a crash |
| `ex16_multicast.c` | counts of messages sent and received | send, bind, join, receive | sender and receiver over a group, on the UDP port of the echo server | who gets a datagram when two sockets have the port |
| `ex21_exec.c`, `ex22_fork.c`, `ex23_pipe.c` | child process, pipe ends, lines stdio holds back | exec, fork, wait, pipe, popen, exit | parent and child over the pipe and standard output | who closes which end, buffers across fork and exec |
| all others | none that lasts | print constants, call the library once | - | - |

What makes each correct: no update of a counter is lost and shutdown ends
(ex28); what is received is what was sent, in order, and both sides end (ex26);
one daemon owns the path and no client is left waiting (ex27); each client gets
its own text back and none can starve the others (ex29); nothing put into the
tables is lost or unfindable, and a search ends (ex12); a text that was read is
answered and nobody waits for ever without a loss or a kill (ex16, ex25); each
program comes to its end without a child left and prints what it should (ex21 to
ex23).

## Modules

`X` is the model of a program, `XProof` its theorems, `MCX` gives its constants
values for TLC.

| module | models | built on |
|---|---|---|
| `Threads` | `ex28_threads.c`, all four builds | |
| `Ledger` | abstract: two counters moved by indivisible steps | `Threads` implements it |
| `SharedMemory` | ex26 with `XSMEM`, `VSMEM` | |
| `Queues` | ex26 with `FIFO`, `XQUEUE`, `VQUEUE` | |
| `Channel` | abstract: an ordered channel | `Queues` implements it |
| `Daemon` | `daemon.c`, `client.c`, configuration and signals | |
| `Multiplex` | `ex29_multiplexing.c` and its client | |
| `Structs` | `ex12_data_structs.c` | |
| `Host` | the UDP port of a host, who gets a datagram, and what may fail | |
| `Echo` | echo servers and clients of ex16 and ex25 | `Host` |
| `Multicasting` | `ex16_multicast.c` | `Host` |
| `Inet` | the composition: both on one host | `Echo`, `Multicasting` |
| `Fork` | `ex21_exec.c`, `ex22_fork.c`, `ex23_pipe.c` | |

How state and actions correspond to the code:

* **Threads.** `pc[t]` is the line a thread is at; main, the producer and the
  consumers each have labels for every place where another thread can get in
  between. `produced--`, `consumed++` and `produced++` are a load and a store
  (`LoadProduced` ... `ConsumeStoreConsumed`), since nothing but the lock makes
  them one. `is_active` is an atomic of the code and one step here.
  `pthread_cond_wait` is leaving the mutex (`CondWait`), being woken, and taking
  the mutex again; `SpuriousWakeup` is the wakeup POSIX allows. Cancellation acts
  in the cancellation points (`printf`, `sem_wait`, `pthread_cond_wait`) and runs
  `thread_clear`. Counters wrap at `UINT`.
* **SharedMemory.** `names` are the objects that can be opened, `size` is 1 once
  `ftruncate` was called, `sem` and `mem` are the semaphore and the message in
  the buffer. Init is any state that
  killed runs, one or several, may have left. Two messages differ
  in one byte, so a copy is one step.
* **Queues.** `q` is what is queued: numbers of messages, or, in the pipe, of the
  bytes they consist of. `sent` is a history of what was put in, `got` is what
  was received.
* **Daemon.** `pc[d]` is the call the daemon is at, `locks` and `bound` are who
  holds a lock file and whom a path leads to, `sock` is the state of its socket.
  Paths live on when their daemon dies, locks do not (`End`). A handler may run
  before each call (`Interrupt`, `Reload`). Opening the lock file, `listen`, `accept` and
  the `write` of an answer may fail, each with the way out the code takes. A configured string is what the
  buffer holds after `memcpy` without a terminator.
* **Multiplex.** `batch` is the set of ready descriptors of a wakeup still to be
  handled, in the order of the build. A message is `TEXT` units of text and a
  terminator; `Read` may stop anywhere. `fds` counts slots as each build counts.
  `epoll` may fail to be set up (`EpollFails`).
* **Structs.** A table is `[cap, len, values]`; `set_add` is the search and the
  store, a step of `Rehash` moves one slot of the old array. A hash is any
  function of the item. Each allocation may fail.
* **Host.** `open` are the sockets that have UDP port 2000, `inbox` what each
  holds. A datagram to the host goes to one of them, one to the group to any
  of them. A datagram to the host that nobody gets, and one to the group that the
  receiver does not get though it has joined, are counted in `losses`; kills and failed calls are counted in `faults`.
* **Echo.** `spc` and `cpc[c]` are the calls server and clients are at. A stream is
  what is left of it when all clients send one text: `unread` are the clients
  whose text lies with the server, `answer[c]` is what `recv` of client `c` will
  find, the text or the end. `path` is the file `bind` makes; it outlives the
  process. `connect` waits while `BACKLOG` + 1 connections do. The server may be started
  again.
* **Multicasting.** `cnt` and `got` are what was sent and what was counted.
* **Inet.** The two specifications side by side; a step of one leaves the variables
  of the other alone but for the port.
* **Fork.** `held` and `childHeld` are the lines stdio holds back when standard
  output is a file: `ForkChild` copies them, `Exec` and `ChildExec` lose them, the
  exits print them. `writeEnd` says whether the parent has `fds[1]`; with the
  child's it decides when `EndOfPipe` comes.

## Runs

| run | bounds | what it shows |
|---|---|---|
| `threads` | all builds, 2 consumers, 2 items, 2-bit counters, 1 spurious wakeup, creation may fail | counters are exclusive and conserved, the builds with a lock refine `Ledger`, consumers do not outrun the producer in the builds that wait for it, a mutex or spin-lock build ends, a semaphore build ends if consumer 0 has gone in time, every build unless a consumer stays unwoken, whoever waits at the broadcast stops |
| `threads_lost_wakeup` | default build, 2 consumers, 1 item | violated: main may wait for ever |
| `threads_destroy` | same | violated: the lock is destroyed while consumer 0 runs |
| `shared_memory` | both builds, 3 messages, every leftover | the reader is never more than one message off (`XSMEM`) or behind (`VSMEM`); both end unless (`XSMEM`) one is stranded by the other; with `VSMEM` nothing is left of the objects once each program has opened both |
| `queues` | the code's own sizes (10 messages, capacity 10, 9 bytes, reads of 55), up to 4 leftover messages, 1 kill | refinement of `Channel`; the pipe is read to its end; which messages a System V receiver got when it removes the queue; both end, with every wait without end named |
| `daemon` | 2 starts, 2 clients, 1 SIGHUP, 1 kill, 1 edit, SIGINT anywhere | one server, a free path at bind, a path taken only after the lock was released, no client left waiting, and none dropped but by a daemon on its way out |
| `daemon_reload` | same, 1 client, two file names | violated: SIGHUP ends the daemon |
| `daemon_garbled` | same | violated: a name mixed from two configurations is answered |
| `multiplex` | 3 builds, 2 clients of 2 messages, 7 wakeups, 1 short read, 1 failure | replies are not mixed up, without short reads every round brings one whole text and a client that leaves does not take the server with it, the server leaves only when its wakeups were too few, clients end unless a short read of a lone terminator leaves them without an echo |
| `structs` | the code's own sizes (10 and 20), 104 hash functions, any allocation failing | nothing lost or doubled, everything findable, a free slot for each search |
| `inet` | one echo server of ex16 next to the multicast programs (2 messages), or two of ex25 one after the other; 2 clients, 1 loss, kill or failed call | a text that was read is answered, a path is left only by a kill, exchanges end, the receiver ends with the sender's messages in order, and who waits for ever misses no more than was lost or sent too early |
| `fork` | the code's 6 rounds, 3 lines of `ls`, room for 2 in the pipe, terminal or file, any call failing | each program ends with no child left, having printed exactly what the buffering allows |

Why the bounds are enough. Two consumers are what the code starts; two items let an item be made while another is
taken; four values let the counters wrap. With three messages there is one
before, one at and one after the message that is overwritten. Two daemons and two
clients are every pair the lock and the backlog distinguish; the handler and the
crash are placed at every call by the model checker, so one of each reaches each
place, and a second one would repeat it in a state already reached. `Multiplex`
keeps the relations of the code's constants (wakeups + 1 < slots, all messages of
a client fit into the buffer); seven wakeups cover two connections, four messages
and one short read and force the end on whoever is late. The hash functions
spread the 20 items, put all on one chain, and send many to the last slots so that
chains wrap. In `Inet` one client is served and the other is what the server does
not get to; two messages have a first and a last; the second start of a server is
the one that meets a path. The backlog of ten is the code's;
two clients do not fill it, the proofs are for any. A pipe smaller than what `ls` prints makes the child
wait for the parent.

Deadlock is not checked: every program may stop, and where it must go on a
liveness property says so.

## What is allowed to go wrong

Several of these programs can hang, or lose what they were given, because they are
written that way. A liveness property then does not exclude the case by its premise:
it names the state in which the program may be left, as narrowly as TLC lets it.

| property | the only other outcome | code |
|---|---|---|
| `ShutdownCompletes` | `Unwoken`: main joins a consumer that waits since after the broadcast, or whose token consumer 0 took | `ex28_threads.c:205`, `:208` |
| `Completes` | `Stranded`: the sender spins on a token nobody takes, as the receiver ended or crashed without its loop; or the receiver waits for a sender that gave up | `ex26_sender.c:237` |
| `SenderEnds` of `Queues` | a POSIX queue full with leftovers in it and nobody who can receive; a pipe whose receiver ended before its open | `ex26_sender.c:83`, `:63` |
| `ReceiverEnds` of `Queues` | a queue of the default size, where each receive fails; a pipe whose sender ended before its open; a System V sender that was killed | `ex26_receiver.c:107`, `:68` |
| `RemovedWhenEmpty` | as many messages lost as were left over | `ex26_receiver.c:138` |
| `ClientHears` | none; but only a daemon that ends hangs up on a client without an answer (`Deserted`) | `daemon.c:172` |
| `ClientsEnd` | `NotEchoed`: after a short read a `recv` brought the terminator alone, which is not answered | `ex29_multiplexing.c:279` |
| `ExchangeEnds` | `Unanswered`; a datagram lost, sent too early, or taken by the multicast receiver | `ex16_client.c:111` |
| `ReceiverEnds` of `Inet` | `LeftWaiting`: no more messages missing than were lost or sent before it joined | `ex16_multicast.c:77` |

## Fairness

Weak fairness of each thread or process that was started: the kernel schedules
it. A thread that takes a lock gets strong fairness for that step in `Threads`: a
lock that is free again and again is not withheld from one thread for ever.
Nothing is assumed of starts, signals, kills, failures, losses and spurious
wakeups. `WokenByBroadcast`, `ShutdownCompletes`, `Completes`, `ReceiverEnds` (of
`SharedMemory`, `Queues` and `Inet`), `SenderEnds`, `ClientHears`, `ClientsEnd`,
`ExchangeEnds` and `PrintedInFull` are stated under it, and the temporal
counterexamples too.

## Where code and documents disagree

* `ex28_threads.c:205`: the stop is not seen by a consumer that tested
  `is_active` before and waits after the broadcast ("wakeup consumers", line 200);
  main hangs in `pthread_join`.
* `ex28_threads.c:230`: the cancelled consumer "must wake up" (line 197) but is
  not joined; lock and state may be gone while it uses them.
* `daemon.c:157`: "reload via SIGHUP" (`PLAN.txt:270`) interrupts `accept`, which
  is not restarted, and the daemon leaves.
* `daemon.c:118`: the reloaded value is copied without its terminator, so a
  shorter one keeps the tail of the longer.

Two more were met while modelling and need no model: `-d`, `MODE_DAEMON_OFF`
(`daemon.h:5`), turns the daemon mode on (`daemon.c:305`) where `PLAN.txt:271` asks for
an "option to work without daemonisation"; and `ex26_sender.c:96` passes the
attributes to `mq_open` by value. The model of the latter lets the call fail, use
the defaults, or use the attributes.

## Proofs

All proofs hold for every value of the constants that the named assumptions
allow. Each follows the same argument: an invariant `IInv` that holds at the start
(`InitHolds` or `InitInv`), that each action keeps, and that implies the property.

* **ThreadsProof.** `TypeCorrect`, `CountersExclusive`, `CountersConserved`,
  `ImplementsLedger`, for any number of consumers and items and any width of the
  counters. `IInv` adds to the properties: main's phases (nobody else clears
  `is_active`, the producer has ended by then), that a thread at a label inside the lock
  owns it as long as the program is active, and that a register still equals the
  counter it was loaded from. The last two are why exclusion survives
  `thread_clear`'s unlock of a lock somebody else holds: it comes after the stop,
  when at most one consumer can still be past the check.
  `NeverOverconsumed`: with a condition variable or a semaphore no more is counted
  than was made, for any number of consumers and items. `CountInv` counts heads: what was consumed, plus the consumers that were
  told of an item and will still count it, plus the tokens nobody has taken, fits
  into what the producer has told of and the spurious wakeups. The same holds of
  each register about to be stored, which is why lost updates of the semaphore
  build do not break it: a stale value is never too large. That main wakes
  consumers only once `is_active` is cleared, so that none of them counts, comes
  from `IInv`.
  `LockComesFree` and `StopGoesForward` are about the shutdown. Whoever has the lock
  is at a step it can take alone, so that the lock is never left with a thread that
  has stopped or sleeps (`NobodyStuck`, inductive with `IInv`); and once `is_active` is
  cleared each consumer has at most `StepsLeft` steps before it, a number every
  step of it lowers, in all four builds.
* **SharedMemoryProof.** `TypeCorrect`, `OneAhead`, `NotBehind`, `NoEarlyUse`,
  `NobodyWaitsInVain`, for any number of messages. `IInv` counts tokens: those in the
  semaphore and those taken are the ones left over plus the ones posted, exactly in
  `XSMEM` and at most in `VSMEM`. As at most one is left over (`OneLeft`), nobody in
  `XSMEM` waits for a semaphore that will not change any more.
* **QueuesProof.** `TypeCorrect`, `PipeIsReadToTheEnd`, `QueueRemovedEmpty`,
  `ImplementsChannel`, `NobodyWaitsInVain`, for any number and size of messages and
  reads. `IInv` says that what was received followed by what is queued is what was
  sent, as long as the receiver lives, and counts the messages in the System V queue.
  `Arrived` adds how many the POSIX queue can hold and how many were sent, and which:
  the leftovers and then 1, 2, ... So `QueueRemovedEmpty` knows what was received, and
  what is lost with the queue. A queue that
  was empty at the start is never full for the sender, and a System V receiver that is
  still in its loop when all is sent has a message to take.
* **DaemonProof.** `TypeCorrect`, `ServersExclude`, `BindSucceeds`, `PathKept`,
  `ClientsNotForgotten`, `NobodyDropped`, for any number of daemons, clients, signals and
  kills. `ServersExclude`, `BindSucceeds` and `PathKept` assume `SameFiles` (see "Not modelled"). The invariant `Locked` ties the lock to the
  calls: a daemon that serves, or has its socket open and has not released the
  lock, holds it, and between `unlink` and `bind` of the holder the path leads to
  nobody. `Configured` and `Typed` say that a daemon that was started has read its
  two paths, and which calls it can be at with nothing open. `Heard`,
  for the last two theorems, follows the clients instead of the lock: whoever waits is in a
  backlog, in one and once, and a daemon with a backlog is at `accept` or beyond and
  has not ended.
* **MultiplexProof.** `TypeCorrect`, `SlotsSuffice`, `RepliesNotMixed`,
  `OneTextPerRound`, `SurvivesLeavers`, `EnoughWakeups`, `ServerNeverBlocks`,
  `NobodyWaitsInVain`, for any number of clients,
  length of text and number of wakeups that keep the relations of the code's constants. `IInv`
  has four parts: `Slots` pays for each slot with a wakeup (and in `select` counts
  the open connections); `Places` says where a connection is on both sides; `Own`
  says that the buffer is zero between handlers and that all that is on its way
  to or from a client is its own and fits; `Flight` says that without short reads
  a message is in one place, in full. `EnoughWakeups` (the set of clients is finite) sums
  over the clients: `Cost` is the number of wakeups a client accounts for so far, one for
  `accept`, one for each message and one for its end, and `Paid` says that the wakeups
  so far are no more than those (`Spent`) and the calls that failed. `BatchReady`, that
  what a wakeup found is still ready when the loop comes to it, is why each wakeup
  is paid for, and why `accept` and `recv` do not block (`ServerNeverBlocks`). For
  `NobodyWaitsInVain`, `Watched` adds that the server knows of whoever is connected.
* **InetProof.** `TypeCorrect`, `ReadIsAnswered`, `PathLeftByKill`, `MessagesInOrder`,
  `NobodyHangs`, `DatagramsAnswered`, for any number of clients, starts and messages. The invariant `Answering` speaks of the time
  before the first kill: a client is in the backlog or being served at most once
  (`Once`), a text that was sent is unread, in the buffer or answered (`Kept`), a
  local server does not go on without it (`WaitedFor`), and the path exists only
  from `bind` to `unlink` (`PathInPlace`). `MessagesInOrder` has an invariant of its own,
  `Order`: what the receiver has counted followed by what its socket holds are messages
  the sender has sent, ascending; and while nothing was lost, from the first of them up
  to the last one sent none is missing. `NobodyHangs` holds after kills too: by
  `Streams`, whoever has connected and has no answer is in one place with a server that
  listens, and what it has sent is unread. `DatagramsAnswered` speaks of the time before
  the first loss or kill: by `Addressed`, each client has at most one datagram with
  the server, not yet answered, and is still in `recvfrom`.
* **StructsProof.** `TypeCorrect`, `SearchEnds`, `NothingLost`, `ItemsReachable`, for any first
  size of at least 4 (with 3 the growth factor gives 3 again and the search does
  not end) and any hash function. `IInv` says that `len` is the number of slots
  taken, and that while slots are moved no more are in the new table than were
  passed in the old, which is smaller; a table whose `len` is below its `cap` has
  a free slot by counting. `NothingLost` adds that an item added is in exactly one
  slot of the two tables, and nowhere before it was added; the array and the list
  hold their values in order.
* **ForkProof.** `TypeCorrect`, `ProgramsEndWell`, for any number of rounds, lines of
  `ls` and room in the pipe. The second is `PrintedInFull` without its "comes to its
  end": a program that has ended has no child and has printed what it should.
  `IInv` has a part for each program. `Ex21Inv` counts the failures told before each
  call. `Ex22Inv` splits the rounds into those that are over, the current one and those
  to come, and says what each has brought out; in a file, what was told of a failed
  round is out once more for every later child whose `exec` failed, the copies of
  line 46. `Ex23Inv` follows the lines of `ls` through the pipe to the parent.

`NobodyWaitsInVain` (three times), `ClientsNotForgotten`, `NobodyHangs`,
`DatagramsAnswered`, `ProgramsEndWell`, `LockComesFree` and `StopGoesForward` are what the
liveness properties `Completes`, `SenderEnds`, `ReceiverEnds` (of `SharedMemory` and
`Queues`), `ClientsEnd`, `ClientHears`, `ExchangeEnds`, `PrintedInFull`, the part of
`ShutdownCompletes` about a lock, and `WokenByBroadcast` need of the state: nobody is left
waiting for what does not come. That the programs then do go on, under the fairness
above, is only model-checked: liveness is out of the prover's reach. So are the part of
`ShutdownCompletes` about the semaphore and `ReceiverEnds` of `Inet`: `MessagesInOrder`
says which messages the receiver counts, not that they suffice.

## Not modelled

`ex15`, `ex17` to `ex20`, `ex24`, `ex30` and the chapters on syntax are straight
sequences of calls without state that lasts or that anybody shares: there is
nothing in them that a run of the program does not show. The build and service
files have no behaviour. Inside the models: printing is left out, except where
cancellation acts in it; a signal handler is one step, so the library's
own state is not; the contents of the pid file, addresses and `ftok` keys are
model values; memory is not an address space.

Daemons are checked with configurations that agree on lock file and socket path:
a SIGHUP that changes the socket path between `unlink` and `bind`, or before the
shutdown, makes a daemon bind or remove a path it does not own, and no property
here claims otherwise. `SameFiles` is that assumption.

On the host, datagrams of one sender stay in order; a network between two hosts may
reorder them, and the message order that `Inet` shows is then not to be had. In `Echo` a
text arrives in one piece and one server of a kind runs at a time; two
at once would share the backlog's port or, for ex25, fail in `bind` like a start
after a crash does. In `Fork` the arguments and the environment of `ls` are left
out.

## Plan

Done, in this order: `Threads` with `Ledger`, `SharedMemory`, `Daemon`,
`Multiplex`, `Queues` with `Channel`, `Structs`, `Inet` (`Host`, `Echo`,
`Multicasting`) and `Fork`, each with its proofs.

What could be added:

1. What `ShutdownCompletes` (with a semaphore) and `ReceiverEnds` of `Inet` need of the
   state, as theorems.
2. `Daemon` with a SIGHUP that changes the lock file or the socket path. Which
   properties then hold, and for whom, the repository does not say.
3. Split reads of the text in `Echo`.
