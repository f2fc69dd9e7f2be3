----------------------------- MODULE StructsProof -----------------------------
(***************************************************************************)
(* Proofs about the hash set of ex12_data_structs.c, for every size of at  *)
(* least 4 and every hash function.                                        *)
(***************************************************************************)
EXTENDS Structs, FiniteSetTheorems, SequenceTheorems, TLAPS

\* The slots of table s that are taken.
Taken(s) == {x \in 0 .. s.cap - 1 : s.values[x] # 0}

\* len counts the slots that are taken.
Counted(s) == IsFiniteSet(Taken(s)) /\ Cardinality(Taken(s)) = s.len

SetPhase == {"set", "rehash", "add"}

\* There is room where it is needed: the array may be doubled, and while the
\* old slots are moved each of them adds at most one item to a larger set.
Room ==
    /\ pc = "array" => array.cap > 0 /\ array.len = i
    /\ pc \in SetPhase => set.cap >= 4
    /\ pc = "rehash" => set.len <= k /\ old.cap < set.cap
    /\ pc = "add" => set.len < set.cap

IInv == TypeOK /\ Room /\ Reachable /\ (pc \in SetPhase => Counted(set))

Value == Items \cup {0}

LEMMA HashType == ASSUME hash \in Hashes PROVE hash \in [Items -> Nat]
  BY StructsAssumption

LEMMA ProbeInRange ==
    ASSUME hash \in Hashes, NEW s, s.cap \in Nat, s.cap > 0,
           NEW item \in Items, NEW d \in Nat
    PROVE  Probe(s, item, d) \in 0 .. s.cap - 1
  <1>1. hash[item] \in Nat
    BY HashType
  <1>2. hash[item] % s.cap \in Nat
    BY <1>1
  <1>. DEFINE m == (hash[item] % s.cap) + d
  <1>3. m \in Nat
    BY <1>2
  <1>. HIDE DEF m
  <1>4. m % s.cap \in 0 .. s.cap - 1
    BY <1>3
  <1>. QED
    BY <1>4 DEF Probe, m

LEMMA ScaledGrows ==
    ASSUME NEW c \in Nat, c >= 4
    PROVE  Scaled(c) \in Nat /\ Scaled(c) > c
  BY DEF Scaled

\* set_add on a set with a free slot keeps all that holds of the set.
LEMMA SetAddKeeps ==
    ASSUME hash \in Hashes, NEW s, NEW t, NEW item \in Items,
           IsTable(s, Value), s.len < s.cap, set_add(s, item, t)
    PROVE  /\ IsTable(t, Value) /\ t.cap = s.cap /\ t.len = s.len + 1
           /\ Counted(s) => Counted(t)
           /\ \E d \in 0 .. s.cap - 1 :
                 LET x == Probe(s, item, d)
                 IN  /\ x \in 0 .. s.cap - 1
                     /\ s.values[x] = 0
                     /\ \A e \in 0 .. d - 1 : s.values[Probe(s, item, e)] # 0
                     /\ t.values = [s.values EXCEPT ![x] = item]
  <1>1. PICK d \in 0 .. s.cap - 1 :
            /\ s.values[Probe(s, item, d)] = 0
            /\ \A e \in 0 .. d - 1 : s.values[Probe(s, item, e)] # 0
            /\ t = [s EXCEPT !.values[Probe(s, item, d)] = item, !.len = @ + 1]
    BY DEF set_add
  <1>. DEFINE x == Probe(s, item, d)
  <1>2. s.cap \in Nat /\ s.cap > 0 /\ s.len \in Nat /\ d \in Nat
    BY DEF IsTable
  <1>3. x \in 0 .. s.cap - 1
    BY <1>2, ProbeInRange
  <1>4. s = [cap |-> s.cap, len |-> s.len, values |-> s.values]
    BY DEF IsTable
  <1>5. t = [cap |-> s.cap, len |-> s.len + 1,
             values |-> [s.values EXCEPT ![x] = item]]
    BY <1>1, <1>4
  <1>6. t.cap = s.cap /\ t.len = s.len + 1 /\ t.values = [s.values EXCEPT ![x] = item]
    BY <1>5
  <1>. HIDE DEF x
  <1>7. t.values \in [0 .. t.cap - 1 -> Value]
    BY <1>6, <1>3 DEF IsTable, Value
  <1>8. IsTable(t, Value)
    BY <1>5, <1>6, <1>7, <1>2 DEF IsTable
  <1>9. ASSUME Counted(s) PROVE Counted(t)
    <2>1. item # 0
      BY StructsAssumption DEF Items
    <2>2. Taken(t) = Taken(s) \cup {x} /\ x \notin Taken(s)
      BY <1>6, <1>3, <1>1, <2>1 DEF Taken, IsTable, x
    <2>3. IsFiniteSet(Taken(t)) /\ Cardinality(Taken(t)) = Cardinality(Taken(s)) + 1
      BY <1>9, <2>2, FS_AddElement DEF Counted
    <2>. QED
      BY <1>9, <2>3, <1>6 DEF Counted
  <1>. QED
    BY <1>1, <1>3, <1>6, <1>8, <1>9 DEF x

\* Reachable, of any table.
ReachableIn(s) ==
    \A x \in 0 .. s.cap - 1 : s.values[x] # 0 =>
        \E d \in 0 .. s.cap - 1 :
            /\ Probe(s, s.values[x], d) = x
            /\ \A e \in 0 .. d - 1 : s.values[Probe(s, s.values[x], e)] # 0

LEMMA SetAddReachable ==
    ASSUME hash \in Hashes, NEW s, NEW t, NEW item \in Items,
           IsTable(s, Value), s.len < s.cap, set_add(s, item, t), ReachableIn(s)
    PROVE  ReachableIn(t)
  <1>1. t.cap = s.cap /\ s.cap \in Nat /\ s.cap > 0
    BY SetAddKeeps DEF IsTable
  <1>2. PICK d \in 0 .. s.cap - 1 :
            LET x == Probe(s, item, d)
            IN  /\ x \in 0 .. s.cap - 1
                /\ s.values[x] = 0
                /\ \A e \in 0 .. d - 1 : s.values[Probe(s, item, e)] # 0
                /\ t.values = [s.values EXCEPT ![x] = item]
    BY SetAddKeeps
  <1>. DEFINE x == Probe(s, item, d)
  <1>3. item # 0
    BY StructsAssumption DEF Items
  <1>4. \A v, n : Probe(t, v, n) = Probe(s, v, n)
    BY <1>1 DEF Probe
  <1>5. \A y \in 0 .. s.cap - 1 : t.values[y] = IF y = x THEN item ELSE s.values[y]
    BY <1>2 DEF IsTable
  <1>6. \A y \in 0 .. s.cap - 1 : s.values[y] # 0 => t.values[y] = s.values[y]
    BY <1>2, <1>5
  <1>. SUFFICES ASSUME NEW y \in 0 .. t.cap - 1, t.values[y] # 0
                PROVE  \E n \in 0 .. t.cap - 1 :
                          /\ Probe(t, t.values[y], n) = y
                          /\ \A e \in 0 .. n - 1 :
                                t.values[Probe(t, t.values[y], e)] # 0
    BY DEF ReachableIn
  <1>7. CASE y = x
    <2>1. t.values[y] = item
      BY <1>7, <1>5, <1>2
    <2>2. ASSUME NEW e \in 0 .. d - 1
          PROVE  t.values[Probe(t, item, e)] # 0
      <3>1. Probe(s, item, e) \in 0 .. s.cap - 1
        BY <1>1, ProbeInRange
      <3>. QED
        BY <3>1, <1>2, <1>4, <1>6
    <2>. QED
      BY <2>1, <2>2, <1>7, <1>1, <1>4
  <1>8. CASE y # x
    <2>1. t.values[y] = s.values[y] /\ s.values[y] # 0 /\ y \in 0 .. s.cap - 1
      BY <1>8, <1>5, <1>1
    <2>2. s.values[y] \in Items
      BY <2>1 DEF IsTable, Value
    <2>3. PICK n \in 0 .. s.cap - 1 :
              /\ Probe(s, s.values[y], n) = y
              /\ \A e \in 0 .. n - 1 : s.values[Probe(s, s.values[y], e)] # 0
      BY <2>1 DEF ReachableIn
    <2>4. ASSUME NEW e \in 0 .. n - 1
          PROVE  t.values[Probe(t, s.values[y], e)] # 0
      <3>1. Probe(s, s.values[y], e) \in 0 .. s.cap - 1
        BY <1>1, <2>2, ProbeInRange
      <3>. QED
        BY <3>1, <2>3, <1>4, <1>6
    <2>. QED
      BY <2>1, <2>3, <2>4, <1>1, <1>4
  <1>. QED
    BY <1>7, <1>8

\* A set that calloc has just made.
LEMMA ZeroesAreFree ==
    ASSUME NEW n \in Nat, NEW s, s = [cap |-> n, len |-> 0, values |-> Zeroes(n)]
    PROVE  /\ IsTable(s, Value) /\ Counted(s) /\ ReachableIn(s)
           /\ s.cap = n /\ s.len = 0
  <1>1. s.cap = n /\ s.len = 0 /\ s.values = Zeroes(n)
    OBVIOUS
  <1>2. \A x \in 0 .. n - 1 : s.values[x] = 0
    BY <1>1 DEF Zeroes
  <1>3. Taken(s) = {}
    BY <1>1, <1>2 DEF Taken
  <1>4. Counted(s)
    BY <1>1, <1>3, FS_EmptySet DEF Counted
  <1>5. ReachableIn(s)
    BY <1>1, <1>2 DEF ReachableIn
  <1>6. IsTable(s, Value)
    BY <1>1 DEF IsTable, Zeroes, Value
  <1>. QED
    BY <1>1, <1>4, <1>5, <1>6

\* len below cap is a free slot.
LEMMA CountedHasRoom ==
    ASSUME NEW s, IsTable(s, Value), Counted(s), s.len < s.cap
    PROVE  \E x \in 0 .. s.cap - 1 : s.values[x] = 0
  <1>. SUFFICES ASSUME \A x \in 0 .. s.cap - 1 : s.values[x] # 0
                PROVE  FALSE
    OBVIOUS
  <1>1. s.cap \in Nat /\ s.len \in Nat
    BY DEF IsTable
  <1>2. Taken(s) = 0 .. s.cap - 1
    BY DEF Taken
  <1>3. Cardinality(0 .. s.cap - 1) = s.cap
    BY <1>1, FS_Interval
  <1>. QED
    BY <1>1, <1>2, <1>3 DEF Counted

LEMMA InitHolds == Init => IInv
  <1>. SUFFICES ASSUME Init PROVE IInv
    OBVIOUS
  <1>1. SIZE_LIST \in Nat /\ SIZE_LIST >= 4
    BY StructsAssumption
  <1>2. IsTable(Cleared, Value) /\ ReachableIn(Cleared)
        /\ Cleared.cap = 0 /\ Cleared.len = 0
    BY ZeroesAreFree DEF Cleared
  <1>3. IsTable(Calloced, Value) /\ Calloced.cap = SIZE_LIST /\ Calloced.len = 0
    BY <1>1, ZeroesAreFree DEF Calloced
  <1>4. Value \subseteq Nat \cup {Junk}
    BY <1>1 DEF Value, Items
  <1>5. \A a : IsTable(a, Value) => IsTable(a, Nat \cup {Junk})
    BY <1>4 DEF IsTable
  <1>6. TypeOK
    <2>1. IsTable(array, Nat \cup {Junk}) /\ IsTable(set, Value) /\ IsTable(old, Value)
      BY <1>2, <1>3, <1>5 DEF Init
    <2>2. /\ pc \in {"array", "failed"} /\ i = 0 /\ k = 0 /\ llist = <<>>
          /\ old.cap = 0 /\ hash \in Hashes
      BY <1>2 DEF Init
    <2>. QED
      BY <1>1, <2>1, <2>2 DEF TypeOK, Value
  <1>7. Room
    BY <1>1, <1>3 DEF Init, Room, SetPhase
  <1>8. Reachable /\ pc \notin SetPhase
    BY <1>2 DEF Init, Reachable, ReachableIn, SetPhase
  <1>. QED
    BY <1>6, <1>7, <1>8 DEF IInv

\* The type of the array after a push, doubled or not.
LEMMA PushKeepsType ==
    ASSUME NEW a, NEW v \in Nat, IsTable(a, Nat \cup {Junk}), a.cap > 0
    PROVE  LET b == IF a.len >= a.cap THEN Realloced(a) ELSE a
           IN  /\ IsTable(Pushed(b, v), Nat \cup {Junk})
               /\ Pushed(b, v).cap > 0 /\ Pushed(b, v).len = a.len + 1
  <1>. DEFINE V == Nat \cup {Junk}
              b == IF a.len >= a.cap THEN Realloced(a) ELSE a
              r == [s \in 0 .. 2 * a.cap - 1 |-> IF s < a.cap THEN a.values[s] ELSE Junk]
  <1>1. a.cap \in Nat /\ a.len \in Nat /\ a.len <= a.cap
        /\ a.values \in [0 .. a.cap - 1 -> V]
        /\ a = [cap |-> a.cap, len |-> a.len, values |-> a.values]
    BY DEF IsTable
  <1>2. r \in [0 .. 2 * a.cap - 1 -> V]
    BY <1>1
  <1>3. Realloced(a) = [cap |-> 2 * a.cap, len |-> a.len, values |-> r]
    BY DEF Realloced
  <1>. HIDE DEF r
  <1>4. /\ b = [cap |-> b.cap, len |-> b.len, values |-> b.values]
        /\ b.cap \in Nat /\ b.len = a.len /\ b.len < b.cap
        /\ b.values \in [0 .. b.cap - 1 -> V]
    BY <1>1, <1>2, <1>3
  <1>. HIDE DEF b
  <1>5. Pushed(b, v) = [cap |-> b.cap, len |-> b.len + 1,
                        values |-> [b.values EXCEPT ![b.len] = v]]
    BY DEF Pushed
  <1>6. [b.values EXCEPT ![b.len] = v] \in [0 .. b.cap - 1 -> V]
    BY <1>4, <1>1
  <1>7. IsTable(Pushed(b, v), V) /\ Pushed(b, v).cap > 0 /\ Pushed(b, v).len = a.len + 1
    BY <1>1, <1>4, <1>5, <1>6 DEF IsTable
  <1>. QED
    BY <1>7 DEF b

LEMMA ScaledHolds ==
    ASSUME TypeOK, set.cap >= 4
    PROVE  LET new == [cap |-> Scaled(set.cap), len |-> 0,
                       values |-> Zeroes(Scaled(set.cap))]
           IN  /\ IsTable(new, Value) /\ Counted(new) /\ ReachableIn(new)
               /\ new.cap = Scaled(set.cap) /\ new.cap > set.cap /\ new.len = 0
  <1>1. set.cap \in Nat
    BY DEF TypeOK, IsTable
  <1>2. Scaled(set.cap) \in Nat /\ Scaled(set.cap) > set.cap
    BY <1>1, ScaledGrows
  <1>. QED
    BY <1>2, ZeroesAreFree

\* Each step keeps the invariant.
LEMMA NextHolds == IInv /\ [Next]_vars => IInv'
  <1>. SUFFICES ASSUME IInv, [Next]_vars PROVE IInv'
    OBVIOUS
  <1>. USE DEF IInv
  <1>1. SIZE_LIST \in Nat /\ SIZE_LIST >= 4 /\ Items = 1 .. 2 * SIZE_LIST
    BY StructsAssumption DEF Items
  <1>2. IsTable(Cleared, Value) /\ ReachableIn(Cleared)
        /\ Cleared.cap = 0 /\ Cleared.len = 0
    BY ZeroesAreFree DEF Cleared
  <1>3. IsTable(Calloced, Value) /\ ReachableIn(Calloced) /\ Counted(Calloced)
        /\ Calloced.cap = SIZE_LIST /\ Calloced.len = 0
    BY <1>1, ZeroesAreFree DEF Calloced
  <1>4. IsTable(Cleared, Nat \cup {Junk})
    BY <1>1, <1>2 DEF IsTable, Value
  <1>5. /\ i \in 0 .. 2 * SIZE_LIST + 1
        /\ IsTable(array, Nat \cup {Junk}) /\ llist \in Seq(Nat)
        /\ IsTable(set, Value) /\ IsTable(old, Value)
        /\ k \in 0 .. old.cap /\ old.cap \in Nat /\ set.cap \in Nat /\ hash \in Hashes
    BY DEF TypeOK, IsTable, Value
  <1>6. ReachableIn(set)
    BY DEF Reachable, ReachableIn
  <1>7. ASSUME UNCHANGED <<set, hash>> PROVE Reachable' /\ Counted(set)' = Counted(set)
    BY <1>7 DEF Reachable, Probe, Counted, Taken
  <1>8. ASSUME UNCHANGED hash, ReachableIn(set') PROVE Reachable'
    BY <1>8 DEF Reachable, ReachableIn, Probe
  <1>9. CASE Push
    <2>1. array.cap > 0 /\ array.len = i /\ i \in Nat
      BY <1>9, <1>5 DEF Push, Room
    <2>2. CASE UNCHANGED array /\ Fail /\ UNCHANGED i
      BY <1>9, <1>1, <1>5, <1>7, <2>2 DEF Push, Fail, TypeOK, Room, SetPhase, Value
    <2>3. CASE /\ array' = Pushed(IF array.len >= array.cap THEN Realloced(array)
                                   ELSE array, i)
               /\ i' = i + 1 /\ UNCHANGED pc
      <3>1. /\ IsTable(array', Nat \cup {Junk})
            /\ array'.cap > 0 /\ array'.len = array.len + 1
        BY <1>5, <2>1, <2>3, PushKeepsType
      <3>. QED
        BY <1>9, <1>1, <1>5, <1>7, <2>1, <2>3, <3>1
        DEF Push, TypeOK, Room, SetPhase, Value
    <2>. QED
      BY <1>9, <2>2, <2>3 DEF Push
  <1>10. CASE FreeArray
    BY <1>10, <1>1, <1>4, <1>5, <1>7 DEF FreeArray, TypeOK, Room, SetPhase, Value
  <1>11. CASE Link
    <2>1. i \in Nat /\ llist \in Seq(Nat)
      BY <1>5
    <2>2. Append(llist, i) \in Seq(Nat)
      BY ONLY <2>1, AppendProperties
    <2>3. llist' \in Seq(Nat)
      BY ONLY <1>11, <2>1, <2>2 DEF Link
    <2>. QED
      BY <1>11, <1>1, <1>5, <1>7, <2>3 DEF Link, Fail, TypeOK, Room, SetPhase, Value
  <1>12. CASE FreeNode
    BY <1>12, <1>1, <1>5, <1>7 DEF FreeNode, TypeOK, Room, SetPhase, Value
  <1>13. CASE MakeSet
    <2>1. CASE Fail /\ UNCHANGED <<i, set>>
      BY <1>13, <1>1, <1>5, <1>7, <2>1
      DEF MakeSet, Fail, TypeOK, Room, SetPhase, Value
    <2>2. CASE pc' = "set" /\ i' = 1 /\ set' = Calloced
      <3>1. IsTable(set', Value) /\ ReachableIn(set') /\ Counted(set') /\ set'.cap >= 4
        BY <1>1, <1>3, <2>2
      <3>. QED
        BY <1>13, <1>1, <1>5, <1>8, <2>2, <3>1
        DEF MakeSet, TypeOK, Room, SetPhase, Value
    <2>. QED
      BY <1>13, <2>1, <2>2 DEF MakeSet
  <1>14. CASE Increase
    <2>1. CASE Fail /\ UNCHANGED <<set, old, k>>
      BY <1>14, <1>1, <1>5, <1>7, <2>1
      DEF Increase, Fail, TypeOK, Room, SetPhase, Value
    <2>2. CASE /\ pc' = "rehash" /\ old' = set /\ k' = 0
               /\ set' = [cap |-> Scaled(set.cap), len |-> 0,
                          values |-> Zeroes(Scaled(set.cap))]
      <3>1. set.cap >= 4
        BY <1>14 DEF Increase, Room, SetPhase
      <3>2. /\ IsTable(set', Value) /\ Counted(set') /\ ReachableIn(set')
            /\ set'.cap > set.cap /\ set'.len = 0
        BY <2>2, <3>1, ScaledHolds
      <3>3. set'.cap \in Nat
        BY <3>2 DEF IsTable
      <3>. QED
        BY <1>14, <1>1, <1>5, <1>8, <2>2, <3>1, <3>2, <3>3
        DEF Increase, TypeOK, Room, SetPhase, Value
    <2>. QED
      BY <1>14, <2>1, <2>2 DEF Increase
  <1>15. set.len \in 0 .. set.cap
    BY <1>5 DEF IsTable
  <1>16. CASE Rehash
    <2>1. CASE k < old.cap /\ old.values[k] # 0
      <3>1. old.values[k] \in Items /\ set.len < set.cap
        BY <1>16, <1>5, <2>1 DEF Rehash, IsTable, Value, Room
      <3>2. set_add(set, old.values[k], set')
        BY <1>16, <2>1 DEF Rehash
      <3>3. /\ IsTable(set', Value) /\ set'.cap = set.cap /\ set'.len = set.len + 1
            /\ Counted(set) => Counted(set')
        BY <3>1, <3>2, <1>5, SetAddKeeps
      <3>4. ReachableIn(set')
        BY <3>1, <3>2, <1>5, <1>6, SetAddReachable
      <3>. QED
        BY <1>16, <1>1, <1>5, <1>8, <1>15, <2>1, <3>3, <3>4
        DEF Rehash, TypeOK, Room, SetPhase, Value
    <2>2. CASE k < old.cap /\ old.values[k] = 0
      BY <1>16, <1>1, <1>5, <1>7, <1>15, <2>2 DEF Rehash, TypeOK, Room, SetPhase, Value
    <2>3. CASE ~ (k < old.cap)
      BY <1>16, <1>1, <1>2, <1>5, <1>7, <1>15, <2>3
      DEF Rehash, TypeOK, Room, SetPhase, Value
    <2>. QED
      BY <2>1, <2>2, <2>3
  <1>17. CASE Add
    <2>1. set.len < set.cap
      BY <1>17, <1>5 DEF Add, Room, Crowded, IsTable, SetPhase
    <2>2. i \in Items /\ set_add(set, i, set')
      BY <1>17 DEF Add
    <2>3. /\ IsTable(set', Value) /\ set'.cap = set.cap /\ set'.len = set.len + 1
          /\ Counted(set) => Counted(set')
      BY <2>1, <2>2, <1>5, SetAddKeeps
    <2>4. ReachableIn(set')
      BY <2>1, <2>2, <1>5, <1>6, SetAddReachable
    <2>. QED
      BY <1>17, <1>1, <1>5, <1>8, <2>3, <2>4
      DEF Add, TypeOK, Room, SetPhase, Value, Counted, Taken
  <1>18. CASE FreeSet
    BY <1>18, <1>1, <1>2, <1>5, <1>8 DEF FreeSet, TypeOK, Room, SetPhase, Value
  <1>19. CASE UNCHANGED vars
    BY <1>19, <1>7 DEF vars, TypeOK, Room, SetPhase
  <1>. QED
    BY <1>9, <1>10, <1>11, <1>12, <1>13, <1>14, <1>16, <1>17, <1>18, <1>19
    DEF Next

LEMMA Invariance == Spec => []IInv
  BY InitHolds, NextHolds, PTL DEF Spec

\* Types, among them that len never passes cap: no table overflows.
THEOREM TypeCorrect == Spec => []TypeOK
  <1>1. IInv => TypeOK
    BY DEF IInv
  <1>. QED
    BY <1>1, Invariance, PTL

\* Whenever set_add is called its search comes to an end (lines 65 to 68), for
\* each size of at least 4, because SET_SCALE leaves a slot free.
THEOREM SearchEnds == Spec => []FreeSlot
  <1>1. IInv => FreeSlot
    <2>. SUFFICES ASSUME IInv, NEW item \in Items, Adding(item)
                  PROVE  \E x \in 0 .. set.cap - 1 : set.values[x] = 0
      BY DEF FreeSlot
    <2>1. IsTable(set, Value) /\ set.cap \in Nat /\ k \in 0 .. old.cap /\ old.cap \in Nat
      BY DEF IInv, TypeOK, IsTable, Value
    <2>2. pc \in SetPhase
      BY DEF Adding, SetPhase
    <2>3. set.len < set.cap
      BY <2>1, <2>2 DEF IInv, Room, Adding, Crowded, IsTable
    <2>. QED
      BY <2>1, <2>2, <2>3, CountedHasRoom DEF IInv
  <1>. QED
    BY <1>1, Invariance, PTL

\* Linear probing (lines 62 to 69) finds every item of the set, whatever the
\* hash function: also after set_increase has moved it.
THEOREM ItemsReachable == Spec => []Reachable
  <1>1. IInv => Reachable
    BY DEF IInv
  <1>. QED
    BY <1>1, Invariance, PTL

-----------------------------------------------------------------------------
(* What was put in is kept.                                                *)

\* Between the loops nothing is in arr_old, and the list is made last but one.
Idle == /\ pc # "rehash" => old = Cleared /\ k = 0
        /\ pc = "array" => llist = <<>>

KeptArray == pc = "array" => \A n \in 0 .. i - 1 : n < array.len /\ array.values[n] = n

\* The values from n on that come before j.
RunOf(n, j) == [m \in 1 .. j - n |-> n + m - 1]

KeptList == pc = "llist" => \E n \in 0 .. i : llist = RunOf(n, i)

\* One slot of the set that grows or of the rest of arr_old holds the item.
Once(S, O) == \/ (\E x : S = {x}) /\ O = {}
              \/ S = {} /\ \E x : O = {x}

KeptSet == pc \in SetPhase =>
    \A item \in Items :
        IF item < i THEN Once(Holding(set, 0, item), Holding(old, k, item))
        ELSE Holding(set, 0, item) = {} /\ Holding(old, k, item) = {}

LEMMA HeldOnce ==
    ASSUME NEW S, NEW O
    PROVE  LET held == S \X {"set"} \cup O \X {"old"}
           IN  /\ Once(S, O) => \E h \in held : held = {h}
               /\ S = {} /\ O = {} => held = {}
  <1>. DEFINE held == S \X {"set"} \cup O \X {"old"}
  <1>1. ASSUME NEW x, S = {x}, O = {} PROVE \E h \in held : held = {h}
    <2>1. held = {<<x, "set">>}
      BY <1>1
    <2>. QED
      BY <2>1
  <1>2. ASSUME NEW x, O = {x}, S = {} PROVE \E h \in held : held = {h}
    <2>1. held = {<<x, "old">>}
      BY <1>2
    <2>. QED
      BY <2>1
  <1>3. ASSUME S = {}, O = {} PROVE held = {}
    BY <1>3
  <1>. HIDE DEF held
  <1>. QED
    BY <1>1, <1>2, <1>3 DEF Once, held

LEMMA KeptIs == KeptArray /\ KeptList /\ KeptSet => Kept
  <1>. SUFFICES ASSUME KeptArray, KeptList, KeptSet PROVE Kept
    OBVIOUS
  <1>1. ASSUME pc \in SetPhase, NEW item \in Items
        PROVE  LET held == Holding(set, 0, item) \X {"set"}
                           \cup Holding(old, k, item) \X {"old"}
               IN  IF item < i THEN \E h \in held : held = {h} ELSE held = {}
    <2>. DEFINE S == Holding(set, 0, item)
                O == Holding(old, k, item)
    <2>1. IF item < i THEN Once(S, O) ELSE S = {} /\ O = {}
      BY <1>1 DEF KeptSet
    <2>. HIDE DEF S, O
    <2>2. LET held == S \X {"set"} \cup O \X {"old"}
          IN  /\ Once(S, O) => \E h \in held : held = {h}
              /\ S = {} /\ O = {} => held = {}
      BY HeldOnce
    <2>3. LET held == S \X {"set"} \cup O \X {"old"}
          IN  IF item < i THEN \E h \in held : held = {h} ELSE held = {}
      BY <2>1, <2>2
    <2>. QED
      BY <2>3 DEF S, O
  <1>. QED
    BY <1>1 DEF Kept, KeptArray, KeptList, RunOf, SetPhase

\* A value stored in a free slot.
LEMMA Stored ==
    ASSUME NEW s, NEW t, NEW v \in Items, IsTable(s, Value), NEW x \in 0 .. s.cap - 1,
           s.values[x] = 0, t.cap = s.cap, t.values = [s.values EXCEPT ![x] = v]
    PROVE  /\ \A item \in Items : item # v => Holding(t, 0, item) = Holding(s, 0, item)
           /\ Holding(t, 0, v) = Holding(s, 0, v) \cup {x}
  <1>1. \A y \in 0 .. s.cap - 1 : t.values[y] = IF y = x THEN v ELSE s.values[y]
    BY DEF IsTable
  <1>2. \A item \in Items : item # 0
    BY StructsAssumption DEF Items
  <1>. QED
    BY <1>1, <1>2 DEF Holding

\* A slot of arr_old that was passed.
LEMMA Passed ==
    ASSUME NEW s, IsTable(s, Value), NEW n \in Nat, n < s.cap, NEW item \in Items
    PROVE  /\ s.values[n] # item => Holding(s, n + 1, item) = Holding(s, n, item)
           /\ s.values[n] = item =>
                 /\ Holding(s, n, item) = Holding(s, n + 1, item) \cup {n}
                 /\ n \notin Holding(s, n + 1, item)
  <1>1. s.cap \in Nat
    BY DEF IsTable
  <1>2. \A y : y \in n .. s.cap - 1 <=> y = n \/ y \in n + 1 .. s.cap - 1
    BY <1>1
  <1>3. n \notin n + 1 .. s.cap - 1
    BY <1>1
  <1>. QED
    BY <1>2, <1>3 DEF Holding

LEMMA NoneHeld ==
    ASSUME NEW n \in Nat, NEW s, s = [cap |-> n, len |-> 0, values |-> Zeroes(n)],
           NEW item \in Items
    PROVE  Holding(s, 0, item) = {}
  <1>1. s.cap = n /\ \A y \in 0 .. n - 1 : s.values[y] = 0
    BY DEF Zeroes
  <1>2. item # 0
    BY StructsAssumption DEF Items
  <1>. QED
    BY <1>1, <1>2 DEF Holding

\* set_add puts the item into one more slot, and nothing else.
LEMMA Added ==
    ASSUME IInv, NEW v \in Items, set.len < set.cap, set_add(set, v, set')
    PROVE  /\ \A item \in Items :
                  item # v => Holding(set', 0, item) = Holding(set, 0, item)
           /\ \E x : Holding(set', 0, v) = Holding(set, 0, v) \cup {x}
  <1>1. IsTable(set, Value) /\ hash \in Hashes
    BY DEF IInv, TypeOK, Value
  <1>2. PICK d \in 0 .. set.cap - 1 :
            LET x == Probe(set, v, d)
            IN  /\ x \in 0 .. set.cap - 1
                /\ set.values[x] = 0
                /\ set'.values = [set.values EXCEPT ![x] = v]
    BY <1>1, SetAddKeeps
  <1>3. set'.cap = set.cap
    BY <1>1, SetAddKeeps
  <1>. QED
    BY <1>1, <1>2, <1>3, Stored

LEMMA KeptInit == Init => Idle /\ KeptArray /\ KeptList /\ KeptSet
  BY DEF Init, Idle, KeptArray, KeptList, KeptSet, SetPhase

LEMMA IdleKept == ASSUME IInv, Idle, [Next]_vars PROVE Idle'
  BY DEF Idle, Next, Push, FreeArray, Link, FreeNode, MakeSet, Increase, Rehash, Add,
         FreeSet, Fail, vars

LEMMA ArrayKept == ASSUME IInv, KeptArray, [Next]_vars PROVE KeptArray'
  <1>1. CASE Push /\ pc' = "array"
    <2>1. /\ pc = "array" /\ i \in Nat /\ array.len = i /\ array.cap \in Nat
          /\ array.cap > 0 /\ i <= array.cap
          /\ i' = i + 1
          /\ array.values \in [0 .. array.cap - 1 -> Nat \cup {Junk}]
      BY <1>1 DEF Push, Fail, IInv, TypeOK, Room, IsTable
    <2>. DEFINE b == IF array.len >= array.cap THEN Realloced(array) ELSE array
    <2>2. array' = Pushed(b, i)
      BY <1>1 DEF Push, Fail
    <2>3. /\ b.len = i /\ b.cap \in Nat /\ i < b.cap
          /\ DOMAIN b.values = 0 .. b.cap - 1
          /\ \A n \in 0 .. i - 1 : b.values[n] = array.values[n]
      <3>1. CASE array.len >= array.cap
        BY <2>1, <3>1 DEF Realloced
      <3>2. CASE ~(array.len >= array.cap)
        BY <2>1, <3>2
      <3>. QED
        BY <3>1, <3>2
    <2>. HIDE DEF b
    <2>4. array'.len = i + 1 /\ array'.values = [b.values EXCEPT ![i] = i]
      BY <2>2, <2>3 DEF Pushed
    <2>5. \A n \in 0 .. i : array'.values[n] = IF n = i THEN i ELSE b.values[n]
      BY <2>1, <2>3, <2>4
    <2>6. \A n \in 0 .. i - 1 : array.values[n] = n
      BY <2>1 DEF KeptArray
    <2>7. \A n \in 0 .. i : n \in 0 .. i - 1 \/ n = i
      BY <2>1
    <2>8. \A n \in 0 .. i : n < array'.len /\ array'.values[n] = n
      <3>1. ASSUME NEW n \in 0 .. i PROVE n < array'.len /\ array'.values[n] = n
        <4>1. n < array'.len
          BY <2>1, <2>4
        <4>2. CASE n = i
          BY <2>5, <4>1, <4>2
        <4>3. CASE n \in 0 .. i - 1
          <5>1. n # i
            BY <2>1, <4>3
          <5>. QED
            BY <2>3, <2>5, <2>6, <4>1, <4>3, <5>1
        <4>. QED
          BY <2>7, <4>2, <4>3
      <3>. QED
        BY <3>1
    <2>. QED
      BY <2>1, <2>8 DEF KeptArray
  <1>2. CASE pc' # "array"
    BY <1>2 DEF KeptArray
  <1>3. CASE UNCHANGED <<pc, i, array>>
    BY <1>3 DEF KeptArray
  <1>. QED
    BY <1>1, <1>2, <1>3
       DEF Next, Push, FreeArray, Link, FreeNode, MakeSet, Increase, Rehash, Add,
           FreeSet, Fail, vars

\* One value more at the end, one less at the front.
LEMMA RunOfValues ==
    ASSUME NEW n \in Nat, NEW j \in Nat, n <= j,
           NEW s, s = RunOf(n, j)
    PROVE  /\ s \in Seq(Nat) /\ Len(s) = j - n
           /\ Append(s, j) = RunOf(n, j + 1)
           /\ s # <<>> => n < j /\ Tail(s) = RunOf(n + 1, j)
  <1>1. j - n \in Nat /\ \A m \in 1 .. j - n : n + m - 1 \in Nat
    OBVIOUS
  <1>2. s \in Seq(Nat) /\ Len(s) = j - n /\ \A m \in 1 .. j - n : s[m] = n + m - 1
    BY <1>1 DEF RunOf
  <1>3. Append(s, j) = RunOf(n, j + 1)
    <2>. DEFINE t == [m \in 1 .. j + 1 - n |-> n + m - 1]
    <2>1. t \in Seq(Nat) /\ Len(t) = j + 1 - n
      OBVIOUS
    <2>2. /\ Append(s, j) \in Seq(Nat) /\ Len(Append(s, j)) = Len(s) + 1
          /\ \A m \in 1 .. Len(s) : Append(s, j)[m] = s[m]
          /\ Append(s, j)[Len(s) + 1] = j
      BY <1>2, AppendProperties
    <2>3. \A m \in 1 .. j + 1 - n : Append(s, j)[m] = t[m]
      <3>1. ASSUME NEW m \in 1 .. j + 1 - n PROVE Append(s, j)[m] = n + m - 1
        <4>1. CASE m = j + 1 - n
          BY <1>2, <2>2, <4>1
        <4>2. CASE m # j + 1 - n
          <5>1. m \in 1 .. j - n
            BY <4>2
          <5>. QED
            BY <1>2, <2>2, <5>1
        <4>. QED
          BY <4>1, <4>2
      <3>. QED
        BY <3>1
    <2>. HIDE DEF t
    <2>4. Len(Append(s, j)) = Len(t) /\ Len(t) = j + 1 - n
      BY <1>2, <2>1, <2>2
    <2>5. Append(s, j) = t
      BY <2>1, <2>2, <2>3, <2>4, SeqEqual
    <2>. QED
      BY <2>5 DEF t, RunOf
  <1>4. ASSUME s # <<>>
        PROVE  n < j /\ Tail(s) = RunOf(n + 1, j)
    <2>. DEFINE t == [m \in 1 .. j - (n + 1) |-> n + 1 + m - 1]
    <2>1. /\ Tail(s) \in Seq(Nat) /\ Len(Tail(s)) = Len(s) - 1
          /\ \A m \in 1 .. Len(Tail(s)) : Tail(s)[m] = s[m + 1]
          /\ Len(s) > 0
      <3>1. Len(s) \in Nat \ {0}
        BY <1>2, <1>4, EmptySeq
      <3>2. /\ Tail(s) \in Seq(Nat) /\ Len(Tail(s)) = Len(s) - 1
            /\ \A m \in 1 .. Len(Tail(s)) : Tail(s)[m] = s[m + 1]
        BY <1>2, <1>4, HeadTailProperties
      <3>. QED
        BY <3>1, <3>2
    <2>2. n < j /\ j - (n + 1) \in Nat
      BY <1>2, <2>1
    <2>3. t \in Seq(Nat) /\ Len(t) = j - (n + 1)
      BY <2>2
    <2>4. \A m \in 1 .. j - (n + 1) : Tail(s)[m] = t[m]
      BY <1>2, <2>1, <2>2
    <2>. HIDE DEF t
    <2>5. Len(Tail(s)) = Len(t) /\ Len(t) = j - (n + 1)
      BY <1>2, <2>1, <2>3
    <2>6. Tail(s) = t
      BY <2>1, <2>3, <2>4, <2>5, SeqEqual
    <2>. QED
      BY <2>2, <2>6 DEF t, RunOf
  <1>. QED
    BY <1>2, <1>3, <1>4

LEMMA ListKept == ASSUME IInv, Idle, KeptList, [Next]_vars PROVE KeptList'
  <1>1. i \in Nat
    BY DEF IInv, TypeOK
  <1>2. CASE FreeArray
    <2>1. pc = "array" /\ i' = 0 /\ llist' = <<>>
      BY <1>2 DEF FreeArray, Idle
    <2>2. <<>> = RunOf(0, 0)
      BY DEF RunOf
    <2>3. \E n \in 0 .. i' : llist' = RunOf(n, i')
      BY <2>1, <2>2
    <2>. QED
      BY <2>3 DEF KeptList
  <1>3. CASE Link /\ pc' = "llist"
    <2>1. pc = "llist" /\ i' = i + 1 /\ llist' = Append(llist, i)
      BY <1>3 DEF Link, Fail
    <2>2. PICK n \in 0 .. i : llist = RunOf(n, i)
      BY <2>1 DEF KeptList
    <2>3. n \in Nat /\ n <= i /\ n \in 0 .. i + 1
      BY <1>1
    <2>4. Append(llist, i) = RunOf(n, i + 1)
      BY <1>1, <2>2, <2>3, RunOfValues
    <2>5. llist' = RunOf(n, i') /\ n \in 0 .. i'
      BY <2>1, <2>3, <2>4
    <2>. QED
      BY <2>5 DEF KeptList
  <1>4. CASE FreeNode
    <2>1. pc = "llist" /\ i' = i /\ llist # <<>> /\ llist' = Tail(llist)
      BY <1>4 DEF FreeNode
    <2>2. PICK n \in 0 .. i : llist = RunOf(n, i)
      BY <2>1 DEF KeptList
    <2>3. n \in Nat /\ n <= i
      BY <1>1
    <2>4. n < i /\ Tail(llist) = RunOf(n + 1, i)
      BY <1>1, <2>1, <2>2, <2>3, RunOfValues
    <2>5. llist' = RunOf(n + 1, i') /\ n + 1 \in 0 .. i'
      BY <1>1, <2>1, <2>3, <2>4
    <2>. QED
      BY <2>5 DEF KeptList
  <1>5. CASE pc' # "llist"
    BY <1>5 DEF KeptList
  <1>6. CASE UNCHANGED <<pc, i, llist>>
    BY <1>6 DEF KeptList
  <1>. QED
    BY <1>2, <1>3, <1>4, <1>5, <1>6
       DEF Next, Push, FreeArray, Link, MakeSet, Increase, Rehash, Add, FreeSet, Fail, vars

LEMMA SetKept == ASSUME IInv, Idle, KeptSet, [Next]_vars PROVE KeptSet'
  <1>1. /\ SIZE_LIST \in Nat /\ Items = 1 .. 2 * SIZE_LIST
        /\ i \in 0 .. 2 * SIZE_LIST + 1 /\ k \in 0 .. old.cap
        /\ IsTable(set, Value) /\ IsTable(old, Value)
        /\ set.cap \in Nat /\ set.len \in Nat /\ old.cap \in Nat
    BY StructsAssumption DEF IInv, TypeOK, IsTable, Value, Items
  <1>. DEFINE InSet(item) == Holding(set, 0, item)
              InOld(item) == Holding(old, k, item)
              Put(item) == IF item < i THEN Once(InSet(item), InOld(item))
                           ELSE InSet(item) = {} /\ InOld(item) = {}
  <1>2. pc \in SetPhase => \A item \in Items : Put(item)
    BY DEF KeptSet
  <1>3. \A item \in Items : item \in Nat /\ item > 0 /\ Holding(Cleared, 0, item) = {}
    BY <1>1, NoneHeld DEF Cleared
  <1>4. CASE MakeSet /\ pc' = "set"
    <2>1. i' = 1 /\ set' = Calloced /\ old' = Cleared /\ k' = 0
      BY <1>4 DEF MakeSet, Fail, Idle
    <2>2. \A item \in Items : Holding(set', 0, item) = {} /\ Holding(old', k', item) = {}
      BY <1>1, <1>3, <2>1, NoneHeld DEF Calloced
    <2>3. \A item \in Items : ~(item < i')
      BY <1>3, <2>1
    <2>. QED
      BY <2>2, <2>3 DEF KeptSet
  <1>5. CASE Increase /\ pc' = "rehash"
    <2>1. /\ pc = "set" /\ old = Cleared /\ k = 0 /\ i' = i /\ old' = set /\ k' = 0
          /\ set' = [cap |-> Scaled(set.cap), len |-> 0, values |-> Zeroes(Scaled(set.cap))]
      BY <1>5 DEF Increase, Fail, Idle
    <2>2. Scaled(set.cap) \in Nat
      BY <1>1, <2>1, ScaledGrows DEF IInv, Room, SetPhase
    <2>3. ASSUME NEW item \in Items
          PROVE  /\ Holding(set', 0, item) = {}
                 /\ Holding(old', k', item) = InSet(item) /\ InOld(item) = {}
      BY <1>3, <2>1, <2>2, NoneHeld
    <2>4. \A item \in Items : Put(item)
      BY <1>2, <2>1 DEF SetPhase
    <2>5. ASSUME NEW item \in Items
          PROVE  IF item < i' THEN Once(Holding(set', 0, item), Holding(old', k', item))
                 ELSE Holding(set', 0, item) = {} /\ Holding(old', k', item) = {}
      <3>. HIDE DEF InSet, InOld
      <3>. QED
        BY <2>1, <2>3, <2>4 DEF Once
    <2>. QED
      BY <2>5 DEF KeptSet
  <1>6. CASE Rehash /\ k < old.cap
    <2>1. /\ pc = "rehash" /\ pc' = "rehash" /\ k' = k + 1 /\ old' = old /\ i' = i
          /\ k \in Nat /\ old.values[k] \in Value
          /\ IF old.values[k] = 0 THEN set' = set ELSE set_add(set, old.values[k], set')
      BY <1>1, <1>6 DEF Rehash, IsTable
    <2>2. \A item \in Items : Put(item)
      BY <1>2, <2>1 DEF SetPhase
    <2>3. ASSUME NEW item \in Items
          PROVE  /\ old.values[k] # item => Holding(old, k + 1, item) = InOld(item)
                 /\ old.values[k] = item => /\ InOld(item) = Holding(old, k + 1, item) \cup {k}
                                            /\ k \notin Holding(old, k + 1, item)
      BY <1>1, <1>6, <2>1, Passed
    <2>4. CASE old.values[k] = 0
      <3>1. \A item \in Items : /\ Holding(set', 0, item) = InSet(item)
                                /\ Holding(old', k', item) = InOld(item)
        <4>1. \A item \in Items : old.values[k] # item
          BY <1>3, <2>4
        <4>. QED
          BY <2>1, <2>3, <2>4, <4>1
      <3>. HIDE DEF InSet, InOld
      <3>. QED
        BY <2>1, <2>2, <3>1 DEF KeptSet
    <2>5. CASE old.values[k] # 0
      <3>. DEFINE v == old.values[k]
      <3>1. v \in Items /\ set.len < set.cap /\ set_add(set, v, set')
        BY <1>1, <1>6, <2>1, <2>5 DEF Value, IInv, Room
      <3>2. /\ \A item \in Items : item # v => Holding(set', 0, item) = InSet(item)
            /\ \E x : Holding(set', 0, v) = InSet(v) \cup {x}
        BY <3>1, Added
      <3>3. ASSUME NEW item \in Items, item # v
            PROVE  /\ Holding(set', 0, item) = InSet(item)
                   /\ Holding(old', k', item) = InOld(item)
        BY <2>1, <2>3, <3>2, <3>3
      <3>4. /\ InOld(v) = Holding(old', k', v) \cup {k} /\ k \notin Holding(old', k', v)
        BY <2>1, <2>3, <3>1
      <3>. HIDE DEF InSet, InOld, v
      <3>5. v < i /\ InSet(v) = {} /\ Holding(old', k', v) = {}
        <4>1. InOld(v) # {}
          BY <3>4
        <4>2. v < i /\ Once(InSet(v), InOld(v))
          BY <2>2, <3>1, <4>1
        <4>3. PICK x : InSet(v) = {} /\ InOld(v) = {x}
          BY <4>1, <4>2 DEF Once
        <4>. QED
          BY <3>4, <4>2, <4>3
      <3>6. Once(Holding(set', 0, v), Holding(old', k', v))
        BY <3>2, <3>5 DEF Once
      <3>7. ASSUME NEW item \in Items
            PROVE  IF item < i' THEN Once(Holding(set', 0, item), Holding(old', k', item))
                   ELSE Holding(set', 0, item) = {} /\ Holding(old', k', item) = {}
        <4>1. CASE item = v
          BY <2>1, <3>5, <3>6, <4>1
        <4>2. CASE item # v
          BY <2>1, <2>2, <3>3, <4>2
        <4>. QED
          BY <4>1, <4>2
      <3>. QED
        BY <3>7 DEF KeptSet
    <2>. QED
      BY <2>4, <2>5
  <1>7. CASE Rehash /\ ~(k < old.cap)
    <2>1. /\ pc = "rehash" /\ pc' = "add" /\ old' = Cleared /\ k' = 0
          /\ set' = set /\ i' = i
      BY <1>7 DEF Rehash
    <2>2. ASSUME NEW item \in Items
          PROVE  /\ Holding(set', 0, item) = InSet(item)
                 /\ Holding(old', k', item) = InOld(item)
      <3>1. InOld(item) = {}
        BY <1>1, <1>7 DEF Holding
      <3>. QED
        BY <1>3, <2>1, <3>1
    <2>. HIDE DEF InSet, InOld
    <2>. QED
      BY <1>2, <2>1, <2>2 DEF KeptSet, SetPhase
  <1>8. CASE Add
    <2>1. /\ pc \in {"set", "add"} /\ pc' = "set" /\ i \in Items /\ i' = i + 1
          /\ old' = old /\ k' = k /\ set_add(set, i, set')
      BY <1>8 DEF Add
    <2>2. set.len < set.cap
      BY <1>1, <1>8, <2>1 DEF Add, Crowded, IInv, Room, SetPhase
    <2>3. /\ \A item \in Items : item # i => Holding(set', 0, item) = InSet(item)
          /\ \E x : Holding(set', 0, i) = InSet(i) \cup {x}
          /\ \A item \in Items : Holding(old', k', item) = InOld(item)
      BY <2>1, <2>2, Added
    <2>4. \A item \in Items : Put(item)
      BY <1>2, <2>1 DEF SetPhase
    <2>. HIDE DEF InSet, InOld
    <2>5. ASSUME NEW item \in Items
          PROVE  IF item < i' THEN Once(Holding(set', 0, item), Holding(old', k', item))
                 ELSE Holding(set', 0, item) = {} /\ Holding(old', k', item) = {}
      <3>1. CASE item = i
        <4>1. InSet(i) = {} /\ InOld(i) = {} /\ i < i'
          BY <1>1, <2>1, <2>4
        <4>. QED
          BY <2>3, <3>1, <4>1 DEF Once
      <3>2. CASE item # i
        <4>1. item < i' <=> item < i
          BY <1>1, <2>1, <3>2
        <4>. QED
          BY <2>3, <2>4, <3>2, <4>1
      <3>. QED
        BY <3>1, <3>2
    <2>. QED
      BY <2>5 DEF KeptSet
  <1>9. CASE pc' \notin SetPhase
    BY <1>9 DEF KeptSet
  <1>10. CASE UNCHANGED <<pc, i, set, old, k>>
    BY <1>10 DEF KeptSet, Holding
  <1>. QED
    BY <1>4, <1>5, <1>6, <1>7, <1>8, <1>9, <1>10
       DEF Next, Push, FreeArray, Link, FreeNode, MakeSet, Increase, FreeSet, Fail,
           SetPhase, vars

\* Growing, filling and freeing lose nothing and double nothing, for every size
\* and hash function: an item put in is in one slot, also halfway through
\* set_increase, and the array and the list hold what was put into them.
THEOREM NothingLost == Spec => []Kept
  <1>1. IInv /\ Idle /\ KeptArray /\ KeptList /\ KeptSet /\ [Next]_vars
        => Idle' /\ KeptArray' /\ KeptList' /\ KeptSet'
    BY IdleKept, ArrayKept, ListKept, SetKept
  <1>. QED
    BY <1>1, KeptInit, KeptIs, Invariance, PTL DEF Spec
=============================================================================
