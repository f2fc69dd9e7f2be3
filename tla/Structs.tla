------------------------------- MODULE Structs --------------------------------
(***************************************************************************)
(* ex12_data_structs.c: a growing array, a linked list and a hash set with *)
(* open addressing, filled one after the other by main.                    *)
(*                                                                         *)
(* Only hash % cap is used of a hash, so hash_number is any function of    *)
(* the item, chosen once from Hashes.  An iteration of the loop over the   *)
(* set is several steps, one per item that set_increase moves.             *)
(***************************************************************************)
EXTENDS Integers, Sequences

CONSTANTS
    SIZE_LIST,  \* first capacity of the array and of the set, 10 in the code
    Hashes,     \* functions from items to hashes
    Junk        \* what realloc leaves in the part of a block it adds

Items == 1 .. 2 * SIZE_LIST

\* Below 4, 1.3 times the capacity is the same capacity again.
ASSUME StructsAssumption ==
    /\ SIZE_LIST \in Nat /\ SIZE_LIST >= 4
    /\ Hashes # {} /\ \A h \in Hashes : h \in [Items -> Nat]

VARIABLES
    pc,     \* where main is
    i,      \* its loop variable
    array,  \* list in the code
    llist,  \* values of the linked list, first node first
    set,    \* the hash set; 0 marks a slot that is free
    old, k, \* set_increase: cap_old and arr_old, and how many slots are done
    hash    \* hash_number

vars == <<pc, i, array, llist, set, old, k, hash>>

Zeroes(n) == [s \in 0 .. n - 1 |-> 0]
Cleared   == [cap |-> 0, len |-> 0, values |-> Zeroes(0)]
Calloced  == [cap |-> SIZE_LIST, len |-> 0, values |-> Zeroes(SIZE_LIST)]

\* calloc of the array; when it fails main returns at once.
Init ==
    /\ \/ pc = "array" /\ array = Calloced
       \/ pc = "failed" /\ array = Cleared
    /\ i = 0 /\ llist = <<>> /\ set = Cleared
    /\ old = Cleared /\ k = 0 /\ hash \in Hashes

Fail == pc' = "failed"

-------------------------------------------------------------------------------
Realloced(a) ==
    [cap |-> 2 * a.cap, len |-> a.len,
     values |-> [s \in 0 .. 2 * a.cap - 1 |-> IF s < a.cap THEN a.values[s] ELSE Junk]]
Pushed(a, v) == [cap |-> a.cap, len |-> a.len + 1,
                 values |-> [a.values EXCEPT ![a.len] = v]]

\* One iteration of the loop over the array, with its realloc.
Push ==
    /\ pc = "array" /\ i < 2 * SIZE_LIST
    /\ LET full == array.len >= array.cap
       IN  \/ /\ array' = Pushed(IF full THEN Realloced(array) ELSE array, i)
              /\ i' = i + 1 /\ UNCHANGED pc
           \/ full /\ Fail /\ UNCHANGED <<i, array>>
    /\ UNCHANGED <<llist, set, old, k, hash>>

FreeArray ==
    /\ pc = "array" /\ i = 2 * SIZE_LIST
    /\ pc' = "llist" /\ i' = 0 /\ array' = Cleared
    /\ UNCHANGED <<llist, set, old, k, hash>>

\* A node more, or no memory for it.
Link ==
    /\ pc = "llist" /\ i < 2 * SIZE_LIST
    /\ \/ llist' = Append(llist, i) /\ i' = i + 1 /\ UNCHANGED pc
       \/ Fail /\ UNCHANGED <<i, llist>>
    /\ UNCHANGED <<array, set, old, k, hash>>

\* The list is freed node by node, then the set is made.
FreeNode ==
    /\ pc = "llist" /\ i = 2 * SIZE_LIST /\ llist # <<>>
    /\ llist' = Tail(llist)
    /\ UNCHANGED <<pc, i, array, set, old, k, hash>>

MakeSet ==
    /\ pc = "llist" /\ i = 2 * SIZE_LIST /\ llist = <<>>
    /\ \/ pc' = "set" /\ i' = 1 /\ set' = Calloced
       \/ Fail /\ UNCHANGED <<i, set>>
    /\ UNCHANGED <<array, llist, old, k, hash>>

-------------------------------------------------------------------------------
\* The slot that set_add looks at after d others.
Probe(s, item, d) == ((hash[item] % s.cap) + d) % s.cap

\* set_add: s becomes t.  The search has no other end than a free slot.
set_add(s, item, t) ==
    \E d \in 0 .. s.cap - 1 :
        /\ s.values[Probe(s, item, d)] = 0
        /\ \A e \in 0 .. d - 1 : s.values[Probe(s, item, e)] # 0
        /\ t = [s EXCEPT !.values[Probe(s, item, d)] = item, !.len = @ + 1]

\* Variant: the table grows when it is over-full.
CrowdedLate(s) == s.len > s.cap

\* 1.3, SET_SCALE, is 13 tenths.
Crowded(s)  == s.len * 13 >= s.cap * 10
Scaled(cap) == (cap * 13) \div 10

\* Variant: len is not set back.
IncreaseKeepsLen ==
    /\ pc = "set" /\ i \in Items /\ Crowded(set)
    /\ pc' = "rehash" /\ old' = set /\ k' = 0
    /\ set' = [cap |-> Scaled(set.cap), len |-> set.len,
               values |-> Zeroes(Scaled(set.cap))]
    /\ UNCHANGED <<i, array, llist, hash>>

\* set_increase up to its loop.
Increase ==
    /\ pc = "set" /\ i \in Items /\ Crowded(set)
    /\ \/ /\ pc' = "rehash" /\ old' = set /\ k' = 0
          /\ set' = [cap |-> Scaled(set.cap), len |-> 0,
                     values |-> Zeroes(Scaled(set.cap))]
       \/ Fail /\ UNCHANGED <<set, old, k>>
    /\ UNCHANGED <<i, array, llist, hash>>

\* Variant: the last slot of the old array is not moved.
RehashOneLess ==
    /\ pc = "rehash"
    /\ IF k + 1 < old.cap
       THEN /\ k' = k + 1
            /\ IF old.values[k] = 0 THEN UNCHANGED set
               ELSE set_add(set, old.values[k], set')
            /\ UNCHANGED <<pc, old>>
       ELSE pc' = "add" /\ old' = Cleared /\ k' = 0 /\ UNCHANGED set
    /\ UNCHANGED <<i, array, llist, hash>>

\* Variant: the old array is copied, as a realloc would.
RehashCopies ==
    /\ pc = "rehash"
    /\ IF k < old.cap
       THEN /\ k' = k + 1
            /\ set' = [set EXCEPT !.values[k] = old.values[k],
                          !.len = @ + IF old.values[k] = 0 THEN 0 ELSE 1]
            /\ UNCHANGED <<pc, old>>
       ELSE pc' = "add" /\ old' = Cleared /\ k' = 0 /\ UNCHANGED set
    /\ UNCHANGED <<i, array, llist, hash>>

\* An iteration of its loop, and its end.
Rehash ==
    /\ pc = "rehash"
    /\ IF k < old.cap
       THEN /\ k' = k + 1
            /\ IF old.values[k] = 0 THEN UNCHANGED set
               ELSE set_add(set, old.values[k], set')
            /\ UNCHANGED <<pc, old>>
       ELSE pc' = "add" /\ old' = Cleared /\ k' = 0 /\ UNCHANGED set
    /\ UNCHANGED <<i, array, llist, hash>>

Add ==
    /\ i \in Items
    /\ \/ pc = "add"
       \/ pc = "set" /\ ~Crowded(set)
    /\ set_add(set, i, set')
    /\ pc' = "set" /\ i' = i + 1
    /\ UNCHANGED <<array, llist, old, k, hash>>

FreeSet ==
    /\ pc = "set" /\ i \notin Items
    /\ pc' = "done" /\ set' = Cleared
    /\ UNCHANGED <<i, array, llist, old, k, hash>>

Next == \/ Push \/ FreeArray \/ Link \/ FreeNode \/ MakeSet
        \/ Increase \/ Rehash \/ Add \/ FreeSet

Spec == Init /\ [][Next]_vars

-------------------------------------------------------------------------------
(* Properties.                                                             *)

IsTable(s, V) == /\ s.cap \in Nat /\ s.len \in 0 .. s.cap
                 /\ s.values \in [0 .. s.cap - 1 -> V]
                 /\ s = [cap |-> s.cap, len |-> s.len, values |-> s.values]

TypeOK ==
    /\ pc \in {"array", "llist", "set", "rehash", "add", "done", "failed"}
    /\ i \in 0 .. 2 * SIZE_LIST + 1
    /\ IsTable(array, Nat \cup {Junk})
    /\ llist \in Seq(Nat)
    /\ IsTable(set, Items \cup {0}) /\ IsTable(old, Items \cup {0})
    /\ k \in 0 .. old.cap
    /\ hash \in Hashes

\* set_add is about to be called with item on the set.
Adding(item) ==
    \/ /\ i \in Items /\ item = i
       /\ \/ pc = "add"
          \/ pc = "set" /\ ~Crowded(set)
    \/ /\ pc = "rehash" /\ k < old.cap
       /\ item = old.values[k] /\ item # 0

\* Whenever set_add is called there is a free slot, in the set that grows and
\* in the one that has grown: the search for a slot comes to an end.
FreeSlot ==
    \A item \in Items : Adding(item) =>
        \E x \in 0 .. set.cap - 1 : set.values[x] = 0

\* The slots of table s from n on that hold item.
Holding(s, n, item) == {x \in n .. s.cap - 1 : s.values[x] = item}

\* What was put into the three structures is in them: growing loses nothing
\* and doubles nothing, also halfway, when the rest is still in arr_old.
Kept ==
    /\ pc = "array" => \A n \in 0 .. i - 1 : n < array.len /\ array.values[n] = n
    /\ pc = "llist" => \E n \in 0 .. i : llist = [m \in 1 .. i - n |-> n + m - 1]
    /\ pc \in {"set", "rehash", "add"} =>
        \A item \in Items :
            LET held == Holding(set, 0, item) \X {"set"}
                        \cup Holding(old, k, item) \X {"old"}
            IN  IF item < i THEN \E h \in held : held = {h} ELSE held = {}

\* An item that is in the set is found by the search that set_add makes: no
\* slot before it on its way is free, whatever capacity it was added with.
Reachable ==
    \A x \in 0 .. set.cap - 1 : set.values[x] # 0 =>
        \E d \in 0 .. set.cap - 1 :
            /\ Probe(set, set.values[x], d) = x
            /\ \A e \in 0 .. d - 1 : set.values[Probe(set, set.values[x], e)] # 0
=============================================================================
