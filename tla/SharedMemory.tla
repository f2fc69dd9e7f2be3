---------------------------- MODULE SharedMemory ----------------------------
(***************************************************************************)
(* ex26_sender.c and ex26_receiver.c over shared memory: a sender writes   *)
(* COUNT messages into one buffer and posts a semaphore for each, a        *)
(* receiver waits for the semaphore and copies the buffer out.  The two    *)
(* builds are the values of mode: "x" (XSMEM, POSIX objects; the sender    *)
(* spins until the semaphore is 0 before it overwrites the buffer) and "v" *)
(* (VSMEM, System V objects; no such wait, sleeps that order nothing, and  *)
(* a receiver that times out).                                             *)
(*                                                                         *)
(* A message is its number, 1 .. COUNT; 0 is what the buffer holds before. *)
(* Two messages differ in one byte, so a copy that overlaps a write yields *)
(* one or the other: copies are single steps.                              *)
(*                                                                         *)
(* Either program may have been killed in earlier runs and have left its   *)
(* objects behind: Init allows every such leftover (in VSMEM, where tokens *)
(* may pile up, with at most COUNT tokens).                                *)
(***************************************************************************)
EXTENDS Integers, Sequences

CONSTANTS Modes,       \* the builds considered, a subset of {"x", "v"}
          COUNT        \* messages sent, 10 in the code

ASSUME SharedMemoryAssumption ==
    /\ Modes \subseteq {"x", "v"}
    /\ COUNT \in Nat /\ COUNT > 1

VARIABLES
    mode,    \* which of the two builds runs
    names,   \* which of the objects "sem", "shm" can be opened by name
    sem,     \* value of the semaphore
    mem,     \* the message in the buffer
    size,    \* 1 once the memory object has its size (touching it before is SIGBUS)
    spc, i,  \* sender: where it is, messages posted
    rpc, j,  \* receiver: where it is, iterations of its loop
    got,     \* the messages received, in order
    stale    \* tokens in the semaphore that this sender did not post

vars   == <<mode, names, sem, mem, size, spc, i, rpc, j, got, stale>>
object == <<names, sem, mem, size>>
sender == <<spc, i>>
receiver == <<rpc, j, got>>

\* What runs killed at some point leave: nothing, or a semaphore with or
\* without the memory.  In XSMEM the memory may have no size yet, beside a
\* token if the run before was killed between its two unlinks.
Leftover(n, s, z) ==
    \/ n = {} /\ s = 0 /\ z = 0
    \/ n = {"sem"} /\ z = 0
    \/ n = {"sem", "shm"} /\ (z = 0 => mode = "x")

Init ==
    /\ mode \in Modes
    /\ names \in SUBSET {"sem", "shm"} /\ size \in {0, 1}
    /\ sem \in 0 .. (IF mode = "x" THEN 1 ELSE COUNT)
    /\ Leftover(names, sem, size)
    /\ mem = 0 /\ stale = sem
    /\ spc = "openSem" /\ i = 0
    /\ rpc = "openSem" /\ j = 0 /\ got = <<>>

\* Tokens the receiver has taken; one at "copy" is not in got yet.
Taken == Len(got) + (IF rpc \in {"copy", "crashed"} THEN 1 ELSE 0)

-----------------------------------------------------------------------------
(* The sender.                                                             *)

SenderOpenSem ==
    /\ spc = "openSem"
    /\ spc' = IF mode = "x" THEN "openShm" ELSE "setval"
    /\ names' = names \cup {"sem"}
    /\ sem' = IF "sem" \in names THEN sem ELSE 0
    /\ UNCHANGED <<mem, size, i, stale, receiver>>

\* Variant: the initial SETVAL of the VSMEM sender is left out.
SenderSkipSetval ==
    /\ spc = "setval"
    /\ spc' = "openShm"
    /\ UNCHANGED <<object, i, stale, receiver>>

\* semctl(SETVAL, 0) drops leftover tokens, but not one already taken; it
\* fails when the receiver has just removed the semaphore.
SenderSetval ==
    /\ spc = "setval"
    /\ IF "sem" \in names
       THEN spc' = "openShm" /\ sem' = 0 /\ stale' = Taken
       ELSE spc' = "done" /\ UNCHANGED <<sem, stale>>
    /\ UNCHANGED <<names, mem, size, i, receiver>>

\* Variant: the ftruncate of the XSMEM sender is left out.
SenderOpenShmUnsized ==
    /\ spc = "openShm"
    /\ spc' = IF mode = "x" THEN "spin" ELSE "copy"
    /\ names' = names \cup {"shm"}
    /\ IF "shm" \in names
       THEN UNCHANGED <<mem, size>>
       ELSE mem' = 0 /\ size' = IF mode = "x" THEN 0 ELSE 1
    /\ UNCHANGED <<sem, i, stale, receiver>>

\* shm_open makes an empty object, shmget one of the right size.
SenderOpenShm ==
    /\ spc = "openShm"
    /\ spc' = IF mode = "x" THEN "truncate" ELSE "copy"
    /\ names' = names \cup {"shm"}
    /\ IF "shm" \in names
       THEN UNCHANGED <<mem, size>>
       ELSE mem' = 0 /\ size' = IF mode = "x" THEN 0 ELSE 1
    /\ UNCHANGED <<sem, i, stale, receiver>>

SenderTruncate ==
    /\ spc = "truncate"
    /\ spc' = "spin"
    /\ size' = 1
    /\ UNCHANGED <<names, sem, mem, i, stale, receiver>>

\* Variant: the sender does not wait for the semaphore to be taken.
SenderNoSpin ==
    /\ spc = "spin"
    /\ spc' = "copy"
    /\ UNCHANGED <<object, i, stale, receiver>>

\* Leaves the do-while of lines 237-241 when sem_getvalue gives 0.
SenderSpin ==
    /\ spc = "spin"
    /\ sem = 0
    /\ spc' = "copy"
    /\ UNCHANGED <<object, i, stale, receiver>>

SenderCopy ==
    /\ spc = "copy"
    /\ spc' = "post"
    /\ mem' = i + 1
    /\ UNCHANGED <<names, sem, size, i, stale, receiver>>

AfterPost == IF i + 1 < COUNT THEN (IF mode = "x" THEN "spin" ELSE "copy")
             ELSE (IF mode = "x" THEN "unlinkShm" ELSE "done")

\* Variant: a post that was reported as failed is made again.
SenderPostTwice ==
    /\ spc = "post"
    /\ spc' = AfterPost
    /\ i' = i + 1
    /\ sem' = IF "sem" \in names THEN sem + 2 ELSE sem
    /\ UNCHANGED <<names, mem, size, stale, receiver>>

\* A semop on a semaphore the receiver has removed fails; the loop goes on.
SenderPost ==
    /\ spc = "post"
    /\ spc' = AfterPost
    /\ i' = i + 1
    /\ sem' = IF "sem" \in names THEN sem + 1 ELSE sem
    /\ UNCHANGED <<names, mem, size, stale, receiver>>

\* shm_unlink, then sem_unlink: only the names go, the receiver keeps what it
\* has open.
SenderUnlink ==
    /\ \/ spc = "unlinkShm" /\ spc' = "unlinkSem" /\ names' = names \ {"shm"}
       \/ spc = "unlinkSem" /\ spc' = "done" /\ names' = names \ {"sem"}
    /\ UNCHANGED <<sem, mem, size, i, stale, receiver>>

\* Any call of the set-up may fail: main returns and removes nothing.
SenderGiveUp ==
    /\ spc \in {"openSem", "setval", "openShm", "truncate"}
    /\ spc' = "done"
    /\ UNCHANGED <<object, i, stale, receiver>>

Sender == \/ SenderOpenSem \/ SenderSetval \/ SenderOpenShm \/ SenderTruncate
          \/ SenderSpin \/ SenderCopy \/ SenderPost \/ SenderUnlink

-----------------------------------------------------------------------------
(* The receiver.                                                           *)

ReceiverOpenSem ==
    /\ rpc = "openSem"
    /\ rpc' = IF "sem" \in names THEN "openShm" ELSE "done"
    /\ UNCHANGED <<object, sender, j, got, stale>>

ReceiverOpenShm ==
    /\ rpc = "openShm"
    /\ rpc' = IF "shm" \in names THEN "wait" ELSE "done"
    /\ UNCHANGED <<object, sender, j, got, stale>>

ReceiverWait ==
    /\ rpc = "wait"
    /\ sem > 0
    /\ sem' = sem - 1
    /\ rpc' = "copy"
    /\ UNCHANGED <<names, mem, size, sender, j, got, stale>>

\* Variant: the loop of the VSMEM receiver in both builds.
AfterIterationOneMore ==
    IF j + 1 <= COUNT THEN "wait"
    ELSE IF mode = "x" THEN "done" ELSE "removeShm"

\* COUNT iterations in XSMEM, one more in VSMEM ("i <= 10", line 191).
AfterIteration == IF mode = "x"
                  THEN (IF j + 1 < COUNT THEN "wait" ELSE "done")
                  ELSE (IF j + 1 <= COUNT THEN "wait" ELSE "removeShm")

\* Variant: main returns at the first time-out, as it does at other errors.
ReceiverTimeoutReturns ==
    /\ mode = "v" /\ rpc = "wait"
    /\ sem = 0
    /\ rpc' = "done"
    /\ UNCHANGED <<object, sender, j, got, stale>>

\* semtimedop gives up after three seconds; the iteration is spent.
ReceiverTimeout ==
    /\ mode = "v" /\ rpc = "wait"
    /\ sem = 0
    /\ rpc' = AfterIteration
    /\ j' = j + 1
    /\ UNCHANGED <<object, sender, got, stale>>

\* The memory may still have no size: then the access is SIGBUS.
ReceiverCopy ==
    /\ rpc = "copy"
    /\ IF size = 0
       THEN rpc' = "crashed" /\ UNCHANGED <<j, got>>
       ELSE rpc' = AfterIteration /\ j' = j + 1 /\ got' = Append(got, mem)
    /\ UNCHANGED <<object, sender, stale>>

\* shmctl(IPC_RMID), then semctl(IPC_RMID).
ReceiverRemove ==
    /\ \/ rpc = "removeShm" /\ rpc' = "removeSem" /\ names' = names \ {"shm"}
       \/ rpc = "removeSem" /\ rpc' = "done" /\ names' = names \ {"sem"}
    /\ UNCHANGED <<sem, mem, size, sender, j, got, stale>>

ReceiverGiveUp ==
    /\ rpc \in {"openSem", "openShm"}
    /\ rpc' = "done"
    /\ UNCHANGED <<object, sender, j, got, stale>>

Receiver == \/ ReceiverOpenSem \/ ReceiverOpenShm \/ ReceiverWait
            \/ ReceiverTimeout \/ ReceiverCopy \/ ReceiverRemove

-----------------------------------------------------------------------------
SenderStep   == Sender /\ UNCHANGED mode
ReceiverStep == Receiver /\ UNCHANGED mode
GiveUp       == (SenderGiveUp \/ ReceiverGiveUp) /\ UNCHANGED mode

Next == SenderStep \/ ReceiverStep \/ GiveUp

Spec == Init /\ [][Next]_vars

\* Two processes the kernel keeps scheduling; the busy wait is not a step.
FairSpec == Spec /\ WF_vars(SenderStep) /\ WF_vars(ReceiverStep)

-----------------------------------------------------------------------------
(* Properties.                                                             *)

SenderLabels == {"openSem", "setval", "openShm", "truncate", "spin", "copy",
                 "post", "unlinkShm", "unlinkSem", "done"}
ReceiverLabels == {"openSem", "openShm", "wait", "copy", "removeShm",
                   "removeSem", "done", "crashed"}

\* Types; i and j stay within the loops and no message number is out of range.
TypeOK ==
    /\ mode \in Modes
    /\ names \subseteq {"sem", "shm"}
    /\ sem \in 0 .. COUNT /\ mem \in 0 .. COUNT /\ size \in {0, 1}
    /\ spc \in SenderLabels /\ i \in 0 .. COUNT
    /\ rpc \in ReceiverLabels /\ j \in 0 .. COUNT + 1
    /\ got \in Seq(0 .. COUNT)
    /\ stale \in 0 .. COUNT + 1

\* XSMEM: the buffer is at most one message ahead of the receiver.  Seeing the
\* semaphore at 0 means that the token was taken, not that the copy was made
\* (lines 238 and 244), so the k-th message received may be the next one; a
\* token left by a killed run shifts everything by one.
AtMostOneAhead ==
    mode = "x" => \A n \in 1 .. Len(got) : got[n] \in {n - stale, n - stale + 1}

\* VSMEM: the n-th message received was written no earlier than the n-th,
\* shifted by the tokens that killed runs left, and none comes before an older
\* one: a slow receiver loses messages, it never goes back.
NeverBehind ==
    mode = "v" => \A n \in 1 .. Len(got) :
        /\ got[n] >= n - stale
        /\ \A m \in 1 .. n : got[m] <= got[n]

\* The memory is touched before it has its size (SIGBUS) only behind a token
\* that a killed run left.
SizedBeforeUse == rpc = "crashed" => stale > 0

\* One program has left before the other could use it: the receiver found no
\* object, or was killed by SIGBUS, and the sender spins on a token nobody
\* takes (lines 237-241), or the sender gave up and the receiver waits.
Stranded ==
    \/ spc = "spin" /\ sem > 0 /\ (rpc = "crashed" \/ (rpc = "done" /\ j = 0))
    \/ rpc = "wait" /\ sem = 0 /\ spc = "done" /\ i = 0

\* XSMEM: once both loops run, both programs finish; and however they start,
\* both end unless one is stranded by the other.
Completes ==
    /\ mode = "x" /\ rpc = "wait" /\ spc \in {"spin", "copy", "post"} ~>
           rpc = "done" /\ spc = "done"
    /\ mode = "x" =>
           <>((rpc \in {"done", "crashed"} /\ spc = "done") \/ Stranded)

\* VSMEM: both programs always end, and once each has opened both objects
\* nothing is left of them, although the receiver that times out removes them
\* while the sender still posts.  A receiver that stops before its loop leaves
\* what it has opened (ex26_receiver.c:178-181).
ReceiverEnds ==
    /\ mode = "v" => <>(rpc = "done" /\ spc = "done")
    /\ mode = "v" /\ rpc = "wait" /\ spc \in {"copy", "post"} ~>
           rpc = "done" /\ spc = "done" /\ names = {}
=============================================================================
