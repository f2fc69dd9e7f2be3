--------------------------------- MODULE Fork ---------------------------------
(***************************************************************************)
(* ex21_exec.c, ex22_fork.c and ex23_pipe.c, the values of program: a      *)
(* process that runs ls in its own place, in six children one after the    *)
(* other, and in a child behind a pipe.                                    *)
(*                                                                         *)
(* Their standard output is a terminal, where a line is out when it ends,  *)
(* or a file: then a process holds its lines until it exits, fork copies   *)
(* what is held and exec loses it.  A line is a kind and a number: that of *)
(* the round in ex21 and ex22, that of the line of ls in ex23.  Each of    *)
(* pipe, fork, exec and popen may fail.                                    *)
(***************************************************************************)
EXTENDS Integers, Sequences, FiniteSets

CONSTANTS
    Programs,  \* those considered, a subset of AllPrograms
    ROUNDS,    \* calls of exec in ex21 and of fork in ex22, 6 in both
    LISTING,   \* lines ls prints
    ROOM       \* lines that fit into a pipe

AllPrograms == {"ex21", "ex22", "ex23"}

ASSUME ForkAssumption ==
    /\ Programs \subseteq AllPrograms
    /\ {ROUNDS, LISTING, ROOM} \subseteq Nat \ {0}

VARIABLES
    program,
    tty,        \* 1 when standard output is a terminal, else 0
    pc, k,      \* the parent's next call, and its round
    held,       \* lines it has printed that are not out yet
    child,      \* "none", what the child does next, or "zombie"
    childHeld,
    listed,     \* lines the child's ls has written into the pipe
    writeEnd,   \* 1 while the parent has fds[1]
    pipe,       \* lines in the pipe
    out         \* what came out, in order

vars == <<program, tty, pc, k, held, child, childHeld, listed, writeEnd, pipe, out>>
parent   == <<pc, k, held>>
children == <<child, childHeld, listed>>
options  == <<program, tty>>

Piped == program = "ex23"

Init ==
    /\ program \in Programs /\ tty \in {0, 1}
    /\ pc = [ex21 |-> "exec", ex22 |-> "fork", ex23 |-> "pipe"][program]
    /\ k = 1 /\ held = <<>>
    /\ child = "none" /\ childHeld = <<>> /\ listed = 0
    /\ writeEnd = 0 /\ pipe = <<>> /\ out = <<>>

Line(kind, n) == <<kind, n>>
Listing(n)    == [m \in 1 .. n |-> Line("listing", m)]

Says(s)  == IF tty = 1 THEN out' = out \o s /\ UNCHANGED held
            ELSE held' = held \o s /\ UNCHANGED out
Again(l) == IF k < ROUNDS THEN pc' = l /\ k' = k + 1 ELSE pc' = "exit" /\ UNCHANGED k

-------------------------------------------------------------------------------
(* The process that was started.                                           *)

\* ex21: the process becomes ls, or tries the next of the calls.
Exec ==
    /\ pc = "exec"
    /\ \/ pc' = "image" /\ held' = <<>> /\ UNCHANGED <<k, out>>
       \/ Again("exec") /\ Says(<<Line("execFailed", k)>>)
    /\ UNCHANGED <<options, children, writeEnd, pipe>>

Image ==
    /\ pc = "image" /\ pc' = "done"
    /\ out' = Append(out, Line("listing", k))
    /\ UNCHANGED <<options, k, held, children, writeEnd, pipe>>

MakePipe ==
    /\ pc = "pipe"
    /\ \/ pc' = "fork" /\ writeEnd' = 1 /\ UNCHANGED <<held, out>>
       \/ pc' = "exit" /\ Says(<<Line("pipeFailed", 0)>>) /\ UNCHANGED writeEnd
    /\ UNCHANGED <<options, k, children, pipe>>

\* The parent goes on when fork has failed, too.
ForkChild ==
    /\ pc = "fork" /\ pc' = IF Piped THEN "close" ELSE "wait"
    /\ \/ child' = "announce" /\ childHeld' = held /\ UNCHANGED <<held, out>>
       \/ Says(<<Line("forkFailed", k)>>) /\ UNCHANGED <<child, childHeld>>
    /\ UNCHANGED <<options, k, listed, writeEnd, pipe>>

\* Variant: the parent keeps its end for writing.
CloseSkipped ==
    /\ pc = "close" /\ pc' = "read"
    /\ UNCHANGED <<options, k, held, children, writeEnd, pipe, out>>

CloseWriteEnd ==
    /\ pc = "close" /\ pc' = "read"
    /\ writeEnd' = 0
    /\ UNCHANGED <<options, k, held, children, pipe, out>>

\* fgets or fread, and printf.
ReadPipe ==
    /\ pc \in {"read", "fread"} /\ pipe # <<>>
    /\ pipe' = Tail(pipe) /\ Says(<<Head(pipe)>>)
    /\ UNCHANGED <<options, pc, k, children, writeEnd>>

\* Nobody can write into the pipe any more, and it is empty.
EndOfPipe ==
    /\ pc \in {"read", "fread"} /\ pipe = <<>>
    /\ writeEnd = 0 /\ child \in {"none", "zombie"}
    /\ pc' = IF pc = "read" THEN "wait" ELSE "pclose"
    /\ UNCHANGED <<options, k, held, children, writeEnd, pipe, out>>

\* waitpid, which fails at once without a child.
Wait ==
    /\ pc = "wait"
    /\ \/ child = "zombie" /\ UNCHANGED <<held, out>>
       \/ child = "none" /\ Says(<<Line("waitFailed", k)>>)
    /\ child' = "none"
    /\ IF Piped THEN pc' = "popen" /\ UNCHANGED k ELSE Again("fork")
    /\ UNCHANGED <<options, childHeld, listed, writeEnd, pipe>>

\* ls behind popen may not be found, which the shell tells on standard error.
Popen ==
    /\ pc = "popen" /\ Says(<<Line("popen", 0)>>)
    /\ \/ pc' = "exit" /\ UNCHANGED <<child, listed>>
       \/ pc' = "fread" /\ child' = "image" /\ listed' \in {0, LISTING}
    /\ UNCHANGED <<options, k, childHeld, writeEnd, pipe>>

Pclose ==
    /\ pc = "pclose" /\ pc' = "exit"
    /\ child = "zombie" /\ child' = "none"
    /\ UNCHANGED <<options, k, held, childHeld, listed, writeEnd, pipe, out>>

Exit ==
    /\ pc = "exit" /\ pc' = "done"
    /\ out' = out \o held /\ held' = <<>>
    /\ UNCHANGED <<options, k, children, writeEnd, pipe>>

-------------------------------------------------------------------------------
(* The child, whose standard output in ex23 is the pipe.                   *)

ChildSays(l) == IF tty = 1 /\ ~Piped THEN out' = Append(out, l) /\ UNCHANGED childHeld
                ELSE childHeld' = Append(childHeld, l) /\ UNCHANGED out

Announce ==
    /\ child = "announce" /\ child' = "exec"
    /\ ChildSays(Line("announce", k))
    /\ UNCHANGED <<options, parent, listed, writeEnd, pipe>>

ChildExec ==
    /\ child = "exec"
    /\ \/ child' = "image" /\ childHeld' = <<>> /\ UNCHANGED out
       \/ child' = "exit" /\ ChildSays(Line("execFailed", k))
    /\ UNCHANGED <<options, parent, listed, writeEnd, pipe>>

\* ls waits for room in the pipe.
List ==
    /\ child = "image"
    /\ IF ~Piped
       THEN child' = "zombie" /\ out' = Append(out, Line("listing", k)) /\ UNCHANGED <<listed, pipe>>
       ELSE /\ IF listed < LISTING
               THEN /\ Len(pipe) < ROOM
                    /\ pipe' = Append(pipe, Line("listing", listed + 1))
                    /\ listed' = listed + 1 /\ UNCHANGED child
               ELSE child' = "zombie" /\ UNCHANGED <<listed, pipe>>
            /\ UNCHANGED out
    /\ UNCHANGED <<options, parent, childHeld, writeEnd>>

\* exit flushes what is held; the few lines fit into the empty pipe.
ChildExit ==
    /\ child = "exit" /\ child' = "zombie"
    /\ IF Piped THEN pipe' = pipe \o childHeld /\ UNCHANGED out
       ELSE out' = out \o childHeld /\ UNCHANGED pipe
    /\ childHeld' = <<>>
    /\ UNCHANGED <<options, parent, listed, writeEnd>>

-------------------------------------------------------------------------------
ParentStep == \/ Exec \/ Image \/ MakePipe \/ ForkChild \/ CloseWriteEnd \/ ReadPipe
              \/ EndOfPipe \/ Wait \/ Popen \/ Pclose \/ Exit
ChildStep  == Announce \/ ChildExec \/ List \/ ChildExit

Next == ParentStep \/ ChildStep

Spec == Init /\ [][Next]_vars

\* Two processes the kernel keeps scheduling.
FairSpec == Spec /\ WF_vars(ParentStep) /\ WF_vars(ChildStep)

-------------------------------------------------------------------------------
(* Properties.                                                             *)

Copies(kind, n) == Cardinality({m \in DOMAIN out : out[m] = Line(kind, n)})

\* How often fork, exec and exit have printed the lines of a round when all is
\* over.  To a file: ex21 loses the failures before the call that succeeds, ex22
\* the announcement of each ls, and repeats the failures of fork and waitpid in
\* every later child whose exec fails.
Ex21Printed ==
    \E m \in 1 .. ROUNDS + 1 : \A r \in 1 .. ROUNDS :
        /\ Copies("listing", r) = IF r = m THEN 1 ELSE 0
        /\ Copies("execFailed", r) =
              IF r < m /\ (tty = 1 \/ m = ROUNDS + 1) THEN 1 ELSE 0

FailuresAfter(r) == Cardinality({s \in r + 1 .. ROUNDS : Copies("execFailed", s) = 1})

Ex22Printed ==
    \A r \in 1 .. ROUNDS :
        <<Copies("listing", r), Copies("announce", r), Copies("execFailed", r),
          Copies("forkFailed", r), Copies("waitFailed", r)>> \in
            LET n == IF tty = 1 THEN 1 ELSE 1 + FailuresAfter(r)
            IN  {<<1, tty, 0, 0, 0>>, <<0, 1, 1, 0, 0>>, <<0, 0, 0, n, n>>}

\* ex23 prints what the child wrote, and all of it, before what popen brings.
Ex23Printed ==
    \/ out = <<Line("pipeFailed", 0)>>
    \/ \E first \in {Listing(LISTING),
                     <<Line("announce", 1), Line("execFailed", 1)>>,
                     <<Line("forkFailed", 1), Line("waitFailed", 1)>>},
          second \in {<<>>, Listing(LISTING)} :
          out = first \o <<Line("popen", 0)>> \o second

Printed == CASE program = "ex21" -> Ex21Printed
             [] program = "ex22" -> Ex22Printed
             [] OTHER            -> Ex23Printed

\* Whatever fails, the program comes to its end with no child left, having
\* printed just that.
PrintedInFull ==
    program \in AllPrograms => <>(pc = "done" /\ child = "none" /\ Printed)
===============================================================================
