------------------------------- MODULE Ledger -------------------------------
(***************************************************************************)
(* What the producer/consumer program of ex28_threads.c promises about its *)
(* two shared counters whenever it is built with a lock (SYNC_MUTEX,       *)
(* SYNC_COND, SYNC_SPINLOCK): items are made and taken one at a time, each *)
(* in one indivisible step, and once the program is told to stop at most   *)
(* one more item is taken.                                                 *)
(***************************************************************************)
EXTENDS Integers

CONSTANT UINT        \* number of values of an unsigned int (2^32 in the code)

VARIABLES
    stock,           \* items on hand, an unsigned int
    taken,           \* items taken so far, an unsigned int
    made,            \* items made so far
    open,            \* 1 until the program is told to stop
    grace            \* 1 while a taker that began before the stop may finish

ledgerVars == <<stock, taken, made, open, grace>>

\* x + 1 and x - 1 as a C unsigned int computes them.
Inc(x) == IF x + 1 = UINT THEN 0 ELSE x + 1
Dec(x) == IF x = 0 THEN UINT - 1 ELSE x - 1

Init == stock = 0 /\ taken = 0 /\ made = 0 /\ open = 1 /\ grace = 0

Make == /\ open = 1
        /\ stock' = Inc(stock)
        /\ made' = made + 1
        /\ UNCHANGED <<taken, open, grace>>

\* Nothing here asks for stock > 0: the locks order the takes, they do not
\* make a consumer wait for an item.
Take == /\ \/ open = 1 /\ grace' = grace
           \/ open = 0 /\ grace = 1 /\ grace' = 0
        /\ stock' = Dec(stock)
        /\ taken' = Inc(taken)
        /\ UNCHANGED <<made, open>>

Close == /\ open = 1 /\ open' = 0
         /\ grace' \in {0, 1}
         /\ UNCHANGED <<stock, taken, made>>

Next == Make \/ Take \/ Close

Spec == Init /\ [][Next]_ledgerVars
=============================================================================
