------------------------------ MODULE ForkProof ------------------------------
(***************************************************************************)
(* Proofs about ex21, ex22 and ex23 for any number of rounds, any length   *)
(* of what ls prints and any room in the pipe: whatever fails, a program   *)
(* that ends has no child left and has printed what it should.             *)
(***************************************************************************)
EXTENDS Fork, SequenceTheorems, FiniteSetTheorems, TLAPS

-----------------------------------------------------------------------------
(* The inductive invariant.                                                *)

Kinds == {"listing", "announce", "execFailed", "forkFailed", "waitFailed",
          "pipeFailed", "popen"}
Lines == Kinds \X Nat

\* How often a line is in a text.
Count(s, l) == Cardinality({m \in DOMAIN s : s[m] = l})

\* What the parent has printed, whether it is out or held back.
Shown == IF tty = 1 THEN out ELSE held

\* Only ex22 has something out in a file before it ends.
TypeOK ==
    /\ program \in Programs /\ tty \in {0, 1}
    /\ pc \in {"exec", "image", "pipe", "fork", "close", "read", "wait", "popen",
               "fread", "pclose", "exit", "done"}
    /\ k \in 1 .. ROUNDS /\ listed \in 0 .. LISTING /\ writeEnd \in {0, 1}
    /\ child \in {"none", "announce", "exec", "image", "exit", "zombie"}
    /\ held \in Seq(Lines) /\ childHeld \in Seq(Lines)
    /\ pipe \in Seq(Lines) /\ out \in Seq(Lines)
    /\ tty = 1 => held = <<>>
    /\ tty = 1 /\ program = "ex22" => childHeld = <<>>
    /\ tty = 0 /\ program # "ex22" /\ pc # "done" => out = <<>>

\* ex21: the failures before call n.
Tried(s, n) ==
    \A r \in 1 .. ROUNDS :
        /\ Count(s, Line("listing", r)) = 0
        /\ Count(s, Line("execFailed", r)) = IF r < n THEN 1 ELSE 0

Ex21Inv ==
    /\ child = "none" /\ pc \in {"exec", "image", "exit", "done"}
    /\ pc = "exec" => Tried(Shown, k)
    /\ pc = "image" => held = <<>> /\ (tty = 1 => Tried(out, k))
    /\ pc = "exit" => Tried(Shown, ROUNDS + 1)
    /\ pc = "done" => Ex21Printed

\* ex22: what the child of a round has brought out, and what the parent has told
\* of the round.
Row(r)  == <<Copies("listing", r), Copies("announce", r), Copies("execFailed", r)>>
Told(r) == <<Count(Shown, Line("forkFailed", r)), Count(Shown, Line("waitFailed", r))>>

\* A round that is over, and one that is still to come.
Complete(r) == \/ Told(r) = <<0, 0>> /\ Row(r) \in {<<1, tty, 0>>, <<0, 1, 1>>}
               \/ Told(r) = <<1, 1>> /\ Row(r) = <<0, 0, 0>>
Fresh(r)    == Told(r) = <<0, 0>> /\ Row(r) = <<0, 0, 0>>

\* The round of now: until it exits, a child holds a copy of all its parent held.
At(c, told, row) == child = c /\ Told(k) = told /\ Row(k) = row

Current ==
    \/ At("none", <<1, 0>>, <<0, 0, 0>>)
    \/ At("announce", <<0, 0>>, <<0, 0, 0>>) /\ childHeld = held
    \/ /\ At("exec", <<0, 0>>, <<0, tty, 0>>)
       /\ tty = 0 => childHeld = Append(held, Line("announce", k))
    \/ At("image", <<0, 0>>, <<0, tty, 0>>)
    \/ /\ At("exit", <<0, 0>>, <<0, tty, tty>>)
       /\ tty = 0 => childHeld = Append(Append(held, Line("announce", k)),
                                        Line("execFailed", k))
    \/ \E row \in {<<1, tty, 0>>, <<0, 1, 1>>} : At("zombie", <<0, 0>>, row)

\* In a file, what was told of round r is out once for each later child whose exec
\* has failed.
Repeated(r) ==
    /\ Copies("forkFailed", r) = IF Told(r)[1] = 0 THEN 0 ELSE FailuresAfter(r)
    /\ Copies("waitFailed", r) = IF Told(r)[2] = 0 THEN 0 ELSE FailuresAfter(r)
    /\ \A kind \in {"listing", "announce", "execFailed"} : Count(held, Line(kind, r)) = 0

Rounds ==
    /\ \A r \in 1 .. ROUNDS :
          /\ r < k \/ (r = k /\ pc = "exit") => Complete(r)
          /\ r > k \/ (r = k /\ pc = "fork") => Fresh(r)
          /\ tty = 0 => Repeated(r)
    /\ pc = "wait" => Current

Ex22Inv ==
    /\ pc \in {"fork", "wait", "exit", "done"}
    /\ pc # "wait" => child = "none"
    /\ pc = "exit" => k = ROUNDS
    /\ pc # "done" => Rounds
    /\ pc = "done" => Ex22Printed

\* ex23: what comes of fork, and what is printed with popen after it.
ByChild  == {Listing(LISTING), <<Line("announce", 1), Line("execFailed", 1)>>}
ByNobody == <<Line("forkFailed", 1), Line("waitFailed", 1)>>
Popened(first, second) == first \o <<Line("popen", 0)>> \o second

Ending(s) == \E first \in ByChild \cup {ByNobody}, second \in {<<>>, Listing(LISTING)} :
                 s = Popened(first, second)

\* Between fork and waitpid, the lines are with the child, in the pipe or printed.
Reading ==
    \/ child = "none" /\ Shown = <<Line("forkFailed", 1)>> /\ pipe = <<>>
    \/ child = "announce" /\ Shown = <<>> /\ pipe = <<>> /\ childHeld = <<>> /\ listed = 0
    \/ /\ child = "exec" /\ Shown = <<>> /\ pipe = <<>> /\ listed = 0
       /\ childHeld = <<Line("announce", 1)>>
    \/ child = "image" /\ Shown \o pipe = Listing(listed)
    \/ /\ child = "exit" /\ Shown = <<>> /\ pipe = <<>>
       /\ childHeld = <<Line("announce", 1), Line("execFailed", 1)>>
    \/ child = "zombie" /\ Shown \o pipe \in ByChild

\* Between popen and pclose.
Freading ==
    \E first \in ByChild \cup {ByNobody} :
       \/ child = "image" /\ Shown \o pipe = Popened(first, Listing(listed))
       \/ child = "image" /\ listed = LISTING /\ Shown \o pipe = Popened(first, <<>>)
       \/ child = "zombie" /\ \E second \in {<<>>, Listing(LISTING)} :
                                  Shown \o pipe = Popened(first, second)

Ex23Inv ==
    /\ k = 1 /\ pc \notin {"exec", "image"}
    /\ pc \in {"pipe", "fork"} =>
          Shown = <<>> /\ pipe = <<>> /\ child = "none" /\ listed = 0
    /\ pc \in {"close", "read"} => Reading
    /\ pc = "wait" =>
          /\ pipe = <<>>
          /\ \/ child = "none" /\ Shown = <<Line("forkFailed", 1)>>
             \/ child = "zombie" /\ Shown \in ByChild
    /\ pc = "popen" => pipe = <<>> /\ child = "none" /\ Shown \in ByChild \cup {ByNobody}
    /\ pc = "fread" => Freading
    /\ pc = "pclose" => child = "zombie" /\ Ending(Shown)
    /\ pc = "exit" =>
          child = "none" /\ (Shown = <<Line("pipeFailed", 0)>> \/ Ending(Shown))
    /\ pc = "done" => child = "none" /\ Ex23Printed

IInv == /\ TypeOK
        /\ program = "ex21" => Ex21Inv
        /\ program = "ex22" => Ex22Inv
        /\ program = "ex23" => Ex23Inv

EndsWell == pc = "done" => child = "none" /\ Printed

-----------------------------------------------------------------------------
(* Facts about lines and texts.                                            *)

LEMMA Constants ==
    /\ ROUNDS \in Nat /\ ROUNDS > 0 /\ LISTING \in Nat /\ ROOM \in Nat
    /\ Programs \subseteq AllPrograms
  BY ForkAssumption

\* Lines differ when their kinds or their numbers do.
LEMMA LinesAre ==
    ASSUME NEW kind \in Kinds, NEW n \in Nat
    PROVE  /\ Line(kind, n) \in Lines /\ <<Line(kind, n)>> \in Seq(Lines)
           /\ \A other \in Kinds, m \in Nat :
                  Line(other, m) = Line(kind, n) <=> other = kind /\ m = n
  BY DEF Line, Lines

LEMMA CountEmpty == ASSUME NEW l PROVE Count(<<>>, l) = 0
  <1>1. {m \in DOMAIN <<>> : <<>>[m] = l} = {}
    OBVIOUS
  <1>. QED
    BY <1>1, FS_EmptySet DEF Count

LEMMA CountOne == ASSUME NEW x, NEW l PROVE Count(<<x>>, l) = IF x = l THEN 1 ELSE 0
  <1>. DEFINE S == {m \in DOMAIN <<x>> : <<x>>[m] = l}
  <1>1. S = IF x = l THEN {1} ELSE {}
    OBVIOUS
  <1>2. Cardinality({1}) = 1 /\ Cardinality({}) = 0
    BY FS_EmptySet, FS_Singleton
  <1>. HIDE DEF S
  <1>3. Cardinality(S) = IF x = l THEN 1 ELSE 0
    BY <1>1, <1>2
  <1>. QED
    BY <1>3 DEF Count, S

LEMMA PlacesFinite ==
    ASSUME NEW s \in Seq(Lines), NEW l
    PROVE  /\ IsFiniteSet({m \in DOMAIN s : s[m] = l}) /\ Count(s, l) \in Nat
           /\ Len(s) \in Nat /\ DOMAIN s = 1 .. Len(s)
  <1>1. Len(s) \in Nat /\ DOMAIN s = 1 .. Len(s)
    BY LenProperties
  <1>2. IsFiniteSet(1 .. Len(s))
    BY <1>1, FS_Interval
  <1>3. IsFiniteSet({m \in DOMAIN s : s[m] = l})
    BY <1>1, <1>2, FS_Subset
  <1>. QED
    BY <1>1, <1>3, FS_CardinalityType DEF Count

\* A line is in two texts together as often as in the one and in the other.
LEMMA CountConcat ==
    ASSUME NEW s \in Seq(Lines), NEW t \in Seq(Lines), NEW l
    PROVE  Count(s \o t, l) = Count(s, l) + Count(t, l)
  <1>. DEFINE A == {m \in DOMAIN s : s[m] = l}
              B == {m \in DOMAIN t : t[m] = l}
              AB == {m \in DOMAIN (s \o t) : (s \o t)[m] = l}
              n == Len(s)
              Moved == {n + m : m \in B}
  <1>1. /\ IsFiniteSet(A) /\ IsFiniteSet(B) /\ n \in Nat /\ Len(t) \in Nat
        /\ DOMAIN s = 1 .. n /\ DOMAIN t = 1 .. Len(t)
    BY PlacesFinite
  <1>2. /\ DOMAIN (s \o t) = 1 .. n + Len(t)
        /\ \A i \in 1 .. n + Len(t) : (s \o t)[i] = IF i <= n THEN s[i] ELSE t[i - n]
    BY ConcatProperties, LenProperties
  <1>3. IsFiniteSet(Moved) /\ Cardinality(Moved) = Cardinality(B)
    <2>. DEFINE f == [m \in B |-> n + m]
    <2>1. f \in [B -> Moved]
      OBVIOUS
    <2>2. \A a, b \in B : f[a] = f[b] => a = b
      BY <1>1
    <2>3. \A y \in Moved : \E x \in B : f[x] = y
      OBVIOUS
    <2>4. f \in Bijection(B, Moved)
      <3>. HIDE DEF f, B, Moved
      <3>. QED
        BY <2>1, <2>2, <2>3 DEF Bijection, Injection, Surjection, IsInjective
    <2>. HIDE DEF f, B, Moved
    <2>. QED
      BY <1>1, <2>4, FS_Bijection DEF ExistsBijection
  <1>4. AB = A \cup Moved
    <2>1. \A m \in A : m \in AB
      BY <1>1, <1>2
    <2>2. \A m \in Moved : m \in AB
      <3>1. ASSUME NEW m \in B PROVE n + m \in AB
        BY <1>1, <1>2
      <3>. QED
        BY <3>1
    <2>3. \A m \in AB : m \in A \cup Moved
      <3>1. ASSUME NEW m \in AB, m <= n PROVE m \in A
        BY <1>1, <1>2, <3>1
      <3>2. ASSUME NEW m \in AB, ~(m <= n) PROVE m \in Moved
        <4>1. m - n \in B /\ m = n + (m - n)
          BY <1>1, <1>2, <3>2
        <4>. QED
          BY <4>1
      <3>. QED
        BY <3>1, <3>2
    <2>. HIDE DEF A, AB, Moved
    <2>. QED
      BY <2>1, <2>2, <2>3
  <1>5. A \cap Moved = {}
    BY <1>1
  <1>. HIDE DEF A, B, AB, Moved
  <1>6. Cardinality(A \cup Moved) = Cardinality(A) + Cardinality(Moved) - Cardinality(A \cap Moved)
    BY <1>1, <1>3, FS_Union
  <1>7. Cardinality(AB) = Cardinality(A) + Cardinality(B)
    <2>1. Cardinality(A) \in Nat /\ Cardinality(B) \in Nat
      BY <1>1, FS_CardinalityType
    <2>2. Cardinality(A \cap Moved) = 0
      BY <1>5, FS_EmptySet
    <2>. QED
      BY <1>3, <1>4, <1>6, <2>1, <2>2
  <1>. QED
    BY <1>7 DEF Count, A, B, AB

\* One more line.
LEMMA CountMore ==
    ASSUME NEW s \in Seq(Lines), NEW x \in Lines
    PROVE  /\ s \o <<x>> \in Seq(Lines) /\ Append(s, x) = s \o <<x>>
           /\ \A l : Count(s \o <<x>>, l) = Count(s, l) + (IF x = l THEN 1 ELSE 0)
           /\ \A l : Count(s, l) \in Nat
  <1>1. <<x>> \in Seq(Lines)
    OBVIOUS
  <1>2. s \o <<x>> \in Seq(Lines) /\ Append(s, x) = s \o <<x>>
    BY <1>1, ConcatProperties, AppendIsConcat
  <1>3. \A l : Count(s \o <<x>>, l) = Count(s, l) + (IF x = l THEN 1 ELSE 0)
    <2>1. ASSUME NEW l
          PROVE  /\ Count(s \o <<x>>, l) = Count(s, l) + Count(<<x>>, l)
                 /\ Count(<<x>>, l) = IF x = l THEN 1 ELSE 0
      BY <1>1, CountConcat, CountOne
    <2>. QED
      BY <2>1
  <1>. QED
    BY <1>2, <1>3, PlacesFinite

\* What ls prints, line by line.
LEMMA ListingIs ==
    /\ Listing(0) = <<>>
    /\ \A n \in Nat : /\ Listing(n) \in Seq(Lines)
                      /\ Append(Listing(n), Line("listing", n + 1)) = Listing(n + 1)
  <1>1. ASSUME NEW n \in Nat
        PROVE  /\ Listing(n) \in Seq(Lines) /\ Len(Listing(n)) = n
               /\ \A m \in 1 .. n : Listing(n)[m] = Line("listing", m)
    BY LinesAre DEF Listing, Kinds
  <1>2. Listing(0) = <<>>
    BY <1>1, EmptySeq
  <1>3. ASSUME NEW n \in Nat
        PROVE  Append(Listing(n), Line("listing", n + 1)) = Listing(n + 1)
    <2>. DEFINE s == Listing(n)
                x == Line("listing", n + 1)
                t == Listing(n + 1)
    <2>1. n + 1 \in Nat /\ x \in Lines
      BY LinesAre DEF Kinds
    <2>2. s \in Seq(Lines) /\ t \in Seq(Lines) /\ Len(s) = n /\ Len(t) = n + 1
          /\ (\A m \in 1 .. n : s[m] = Line("listing", m))
          /\ (\A m \in 1 .. n + 1 : t[m] = Line("listing", m))
      BY <1>1, <2>1
    <2>. HIDE DEF s, t
    <2>3. /\ Append(s, x) \in Seq(Lines) /\ Len(Append(s, x)) = n + 1
          /\ \A m \in 1 .. n : Append(s, x)[m] = s[m]
          /\ Append(s, x)[n + 1] = x
      BY <2>1, <2>2, AppendProperties
    <2>4. \A m \in 1 .. n + 1 : Append(s, x)[m] = t[m]
      BY <2>2, <2>3
    <2>. QED
      BY <2>2, <2>3, <2>4, SeqEqual DEF s, t
  <1>. QED
    BY <1>1, <1>2, <1>3

-----------------------------------------------------------------------------
(* What the calls that several actions make do.                            *)

LEMMA AgainIs ==
    ASSUME TypeOK, NEW l, Again(l)
    PROVE  /\ k' \in 1 .. ROUNDS /\ k \in Nat /\ k \in 1 .. ROUNDS
           /\ \/ k < ROUNDS /\ pc' = l /\ k' = k + 1
              \/ k = ROUNDS /\ pc' = "exit" /\ k' = k
  <1>1. k \in 1 .. ROUNDS /\ k \in Nat
    BY Constants DEF TypeOK
  <1>. QED
    BY <1>1, Constants DEF Again

LEMMA SaysIs ==
    ASSUME TypeOK, NEW x \in Lines, Says(<<x>>), tty' = tty
    PROVE  /\ out' \in Seq(Lines) /\ held' \in Seq(Lines)
           /\ tty = 1 => held' = held /\ out' = out \o <<x>>
           /\ tty = 0 => out' = out /\ held' = held \o <<x>>
           /\ Shown' = Shown \o <<x>> /\ Shown \in Seq(Lines)
  <1>1. out \in Seq(Lines) /\ held \in Seq(Lines) /\ tty \in {0, 1}
    BY DEF TypeOK
  <1>2. out \o <<x>> \in Seq(Lines) /\ held \o <<x>> \in Seq(Lines)
    BY <1>1, CountMore
  <1>3. /\ tty = 1 => held' = held /\ out' = out \o <<x>>
        /\ tty = 0 => out' = out /\ held' = held \o <<x>>
    BY DEF Says
  <1>4. Shown' = Shown \o <<x>> /\ Shown \in Seq(Lines)
    <2>1. CASE tty = 1
      BY <1>1, <1>3, <2>1 DEF Shown
    <2>2. CASE tty = 0
      BY <1>1, <1>3, <2>2 DEF Shown
    <2>. QED
      BY <1>1, <2>1, <2>2
  <1>5. out' \in Seq(Lines) /\ held' \in Seq(Lines)
    BY <1>1, <1>2, <1>3
  <1>. QED
    BY <1>3, <1>4, <1>5

LEMMA ChildSaysIs ==
    ASSUME TypeOK, NEW x \in Lines, ChildSays(x)
    PROVE  /\ out' \in Seq(Lines) /\ childHeld' \in Seq(Lines)
           /\ tty = 1 /\ program = "ex22" => childHeld' = childHeld /\ out' = out \o <<x>>
           /\ tty = 0 \/ program = "ex23" => out' = out /\ childHeld' = Append(childHeld, x)
  <1>1. out \in Seq(Lines) /\ childHeld \in Seq(Lines) /\ tty \in {0, 1}
    BY DEF TypeOK
  <1>2. /\ Append(out, x) \in Seq(Lines) /\ Append(childHeld, x) \in Seq(Lines)
        /\ Append(out, x) = out \o <<x>>
    BY <1>1, CountMore
  <1>3. /\ tty = 1 /\ program = "ex22" => childHeld' = childHeld /\ out' = Append(out, x)
        /\ tty = 0 \/ program = "ex23" => out' = out /\ childHeld' = Append(childHeld, x)
    BY DEF ChildSays, Piped
  <1>4. out' \in {out, Append(out, x)} /\ childHeld' \in {childHeld, Append(childHeld, x)}
    BY DEF ChildSays
  <1>5. out' \in Seq(Lines) /\ childHeld' \in Seq(Lines)
    BY <1>1, <1>2, <1>4
  <1>6. tty = 1 /\ program = "ex22" => out' = out \o <<x>>
    BY <1>2, <1>3
  <1>. QED
    BY <1>3, <1>5, <1>6

\* The lines a program prints, by kind.
LEMMA LinesOf ==
    ASSUME TypeOK
    PROVE  /\ k \in Nat /\ 0 \in Nat /\ 1 \in Nat
           /\ \A kind \in Kinds :
                 Line(kind, k) \in Lines /\ Line(kind, 0) \in Lines /\ Line(kind, 1) \in Lines
  <1>1. k \in Nat
    BY Constants DEF TypeOK
  <1>. QED
    BY <1>1, LinesAre

-----------------------------------------------------------------------------
(* Types.                                                                  *)

LEMMA ParentTypes == IInv /\ ParentStep => TypeOK'
  <1>. SUFFICES ASSUME IInv, ParentStep PROVE TypeOK'
    OBVIOUS
  <1>. USE DEF options, parent, children
  <1>1. TypeOK /\ (program = "ex21" => child = "none")
    BY DEF IInv, Ex21Inv
  <1>2. /\ out \in Seq(Lines) /\ held \in Seq(Lines) /\ pipe \in Seq(Lines)
        /\ childHeld \in Seq(Lines) /\ out \o held \in Seq(Lines) /\ <<>> \in Seq(Lines)
    <2>1. /\ out \in Seq(Lines) /\ held \in Seq(Lines) /\ pipe \in Seq(Lines)
          /\ childHeld \in Seq(Lines)
      BY <1>1 DEF TypeOK
    <2>. QED
      BY <2>1, ConcatProperties, EmptySeq
  <1>3. {"listing", "execFailed", "forkFailed", "waitFailed", "pipeFailed", "popen"} \subseteq Kinds
    BY DEF Kinds
  <1>4. CASE Exec
    <2>1. CASE held' = <<>> /\ pc' = "image" /\ UNCHANGED <<k, out>>
      BY <1>1, <1>2, <1>4, <2>1 DEF Exec, TypeOK
    <2>2. CASE Again("exec") /\ Says(<<Line("execFailed", k)>>)
      <3>1. UNCHANGED <<options, children, writeEnd, pipe>> /\ pc = "exec"
        BY <1>4 DEF Exec
      <3>2. Line("execFailed", k) \in Lines
        BY <1>1, <1>3, LinesOf
      <3>3. /\ out' \in Seq(Lines) /\ held' \in Seq(Lines)
            /\ tty = 1 => held' = held
            /\ tty = 0 => out' = out
        BY <1>1, <2>2, <3>1, <3>2, SaysIs
      <3>4. k' \in 1 .. ROUNDS /\ pc' \in {"exec", "exit"}
        BY <1>1, <2>2, AgainIs
      <3>. QED
        BY <1>1, <3>1, <3>3, <3>4 DEF TypeOK
    <2>. QED
      BY <1>4, <2>1, <2>2 DEF Exec
  <1>5. CASE Image
    <2>1. Append(out, Line("listing", k)) \in Seq(Lines)
      BY <1>1, <1>2, <1>3, LinesOf, CountMore
    <2>. QED
      BY <1>1, <1>5, <2>1 DEF Image, TypeOK
  <1>6. CASE MakePipe
    <2>1. CASE pc' = "fork" /\ writeEnd' = 1 /\ UNCHANGED <<held, out>>
      BY <1>1, <1>6, <2>1 DEF MakePipe, TypeOK
    <2>2. CASE pc' = "exit" /\ Says(<<Line("pipeFailed", 0)>>) /\ UNCHANGED writeEnd
      <3>1. UNCHANGED <<options, k, children, pipe>> /\ pc = "pipe"
        BY <1>6 DEF MakePipe
      <3>2. Line("pipeFailed", 0) \in Lines
        BY <1>1, <1>3, LinesOf
      <3>3. /\ out' \in Seq(Lines) /\ held' \in Seq(Lines)
            /\ tty = 1 => held' = held
            /\ tty = 0 => out' = out
        BY <1>1, <2>2, <3>1, <3>2, SaysIs
      <3>. QED
        BY <1>1, <2>2, <3>1, <3>3 DEF TypeOK
    <2>. QED
      BY <1>6, <2>1, <2>2 DEF MakePipe
  <1>7. CASE ForkChild
    <2>0. pc = "fork" /\ pc' \in {"close", "wait"} /\ UNCHANGED <<options, k, listed, writeEnd, pipe>>
      BY <1>7 DEF ForkChild
    <2>1. CASE child' = "announce" /\ childHeld' = held /\ UNCHANGED <<held, out>>
      BY <1>1, <2>0, <2>1 DEF TypeOK
    <2>2. CASE Says(<<Line("forkFailed", k)>>) /\ UNCHANGED <<child, childHeld>>
      <3>1. Line("forkFailed", k) \in Lines
        BY <1>1, <1>3, LinesOf
      <3>2. /\ out' \in Seq(Lines) /\ held' \in Seq(Lines)
            /\ tty = 1 => held' = held
            /\ tty = 0 => out' = out
        BY <1>1, <2>0, <2>2, <3>1, SaysIs
      <3>. QED
        BY <1>1, <2>0, <2>2, <3>2 DEF TypeOK
    <2>. QED
      BY <1>7, <2>1, <2>2 DEF ForkChild
  <1>8. CASE CloseWriteEnd
    BY <1>1, <1>8 DEF CloseWriteEnd, TypeOK
  <1>9. CASE ReadPipe
    <2>1. /\ UNCHANGED <<options, pc, k, children, writeEnd>> /\ pc \in {"read", "fread"}
          /\ pipe # <<>> /\ pipe' = Tail(pipe) /\ Says(<<Head(pipe)>>)
      BY <1>9 DEF ReadPipe
    <2>2. Head(pipe) \in Lines /\ Tail(pipe) \in Seq(Lines)
      BY <1>2, <2>1, HeadTailProperties
    <2>3. /\ out' \in Seq(Lines) /\ held' \in Seq(Lines)
          /\ tty = 1 => held' = held
          /\ tty = 0 => out' = out
      BY <1>1, <2>1, <2>2, SaysIs
    <2>. QED
      BY <1>1, <2>1, <2>2, <2>3 DEF TypeOK
  <1>10. CASE EndOfPipe
    BY <1>1, <1>10 DEF EndOfPipe, TypeOK
  <1>11. CASE Wait
    <2>1. /\ pc = "wait" /\ child' = "none" /\ UNCHANGED <<options, childHeld, listed, writeEnd, pipe>>
          /\ UNCHANGED <<held, out>> \/ Says(<<Line("waitFailed", k)>>)
      BY <1>11 DEF Wait
    <2>2. k' \in 1 .. ROUNDS /\ pc' \in {"popen", "fork", "exit"}
      <3>1. CASE Piped
        BY <1>1, <1>11, <3>1 DEF Wait, TypeOK
      <3>2. CASE ~Piped
        BY <1>1, <1>11, <3>2, AgainIs DEF Wait
      <3>. QED
        BY <3>1, <3>2
    <2>3. /\ out' \in Seq(Lines) /\ held' \in Seq(Lines)
          /\ tty = 1 => held' = held
          /\ tty = 0 => out' = out
      <3>1. Line("waitFailed", k) \in Lines
        BY <1>1, <1>3, LinesOf
      <3>. QED
        BY <1>1, <1>2, <2>1, <3>1, SaysIs
    <2>. QED
      BY <1>1, <2>1, <2>2, <2>3 DEF TypeOK
  <1>12. CASE Popen
    <2>1. /\ pc = "popen" /\ Says(<<Line("popen", 0)>>) /\ pc' \in {"exit", "fread"}
          /\ child' \in {child, "image"} /\ listed' \in {listed, 0, LISTING}
          /\ UNCHANGED <<options, k, childHeld, writeEnd, pipe>>
      BY <1>12 DEF Popen
    <2>2. Line("popen", 0) \in Lines
      BY <1>1, <1>3, LinesOf
    <2>3. /\ out' \in Seq(Lines) /\ held' \in Seq(Lines)
          /\ tty = 1 => held' = held
          /\ tty = 0 => out' = out
      BY <1>1, <2>1, <2>2, SaysIs
    <2>4. listed' \in 0 .. LISTING
      BY <1>1, <2>1, Constants DEF TypeOK
    <2>. QED
      BY <1>1, <2>1, <2>3, <2>4 DEF TypeOK
  <1>13. CASE Pclose
    BY <1>1, <1>13 DEF Pclose, TypeOK
  <1>14. CASE Exit
    BY <1>1, <1>2, <1>14 DEF Exit, TypeOK
  <1>. QED
    BY <1>4, <1>5, <1>6, <1>7, <1>8, <1>9, <1>10, <1>11, <1>12, <1>13, <1>14 DEF ParentStep

LEMMA ChildTypes == IInv /\ ChildStep => TypeOK'
  <1>. SUFFICES ASSUME IInv, ChildStep PROVE TypeOK'
    OBVIOUS
  <1>. USE DEF options, parent, children
  <1>1. TypeOK /\ program \in {"ex22", "ex23"} /\ (Piped <=> program = "ex23")
    <2>1. child # "none"
      BY DEF ChildStep, Announce, ChildExec, List, ChildExit
    <2>2. program \in AllPrograms
      BY Constants DEF IInv, TypeOK
    <2>. QED
      BY <2>1, <2>2 DEF IInv, Ex21Inv, AllPrograms, Piped
  <1>2. /\ Line("announce", k) \in Lines /\ Line("execFailed", k) \in Lines
        /\ Line("listing", k) \in Lines
    <2>1. {"announce", "execFailed", "listing"} \subseteq Kinds
      BY DEF Kinds
    <2>. QED
      BY <1>1, <2>1, LinesOf
  <1>3. /\ out \in Seq(Lines) /\ pipe \in Seq(Lines) /\ childHeld \in Seq(Lines)
        /\ <<>> \in Seq(Lines) /\ tty \in {0, 1}
    BY <1>1, EmptySeq DEF TypeOK
  <1>4. CASE Announce
    <2>1. UNCHANGED <<options, parent, listed, writeEnd, pipe>> /\ child' = "exec"
          /\ ChildSays(Line("announce", k))
      BY <1>4 DEF Announce
    <2>. QED
      BY <1>1, <1>2, <1>3, <2>1, ChildSaysIs DEF TypeOK
  <1>5. CASE ChildExec
    <2>1. UNCHANGED <<options, parent, listed, writeEnd, pipe>> /\ child' \in {"image", "exit"}
          /\ \/ childHeld' = <<>> /\ UNCHANGED out
             \/ ChildSays(Line("execFailed", k))
      BY <1>5 DEF ChildExec
    <2>. QED
      BY <1>1, <1>2, <1>3, <2>1, ChildSaysIs DEF TypeOK
  <1>6. CASE List
    <2>1. CASE ~Piped
      <3>1. Append(out, Line("listing", k)) \in Seq(Lines)
        BY <1>2, <1>3, CountMore
      <3>. QED
        BY <1>1, <1>6, <2>1, <3>1 DEF List, TypeOK
    <2>2. CASE Piped /\ listed < LISTING
      <3>1. listed + 1 \in Nat /\ listed + 1 \in 0 .. LISTING
        BY <1>1, <2>2, Constants DEF TypeOK
      <3>2. Line("listing", listed + 1) \in Lines
        BY <3>1, LinesAre DEF Kinds
      <3>3. Append(pipe, Line("listing", listed + 1)) \in Seq(Lines)
        BY <1>3, <3>2, CountMore
      <3>. QED
        BY <1>1, <1>6, <2>2, <3>1, <3>3 DEF List, TypeOK
    <2>3. CASE Piped /\ ~(listed < LISTING)
      BY <1>1, <1>6, <2>3 DEF List, TypeOK
    <2>. QED
      BY <2>1, <2>2, <2>3
  <1>7. CASE ChildExit
    <2>1. pipe \o childHeld \in Seq(Lines) /\ out \o childHeld \in Seq(Lines)
      BY <1>3, ConcatProperties
    <2>2. program # "ex22" => UNCHANGED out
      BY <1>1, <1>7 DEF ChildExit
    <2>. QED
      BY <1>1, <1>3, <1>7, <2>1, <2>2 DEF ChildExit, TypeOK
  <1>. QED
    BY <1>4, <1>5, <1>6, <1>7 DEF ChildStep

LEMMA CopiesAre ==
    /\ \A kind, n : Copies(kind, n) = Count(out, Line(kind, n))
    /\ \A kind, n : Copies(kind, n)' = Count(out', Line(kind, n))
  BY DEF Copies, Count

LEMMA ShownIs ==
    /\ TypeOK => Shown \in Seq(Lines)
    /\ UNCHANGED <<tty, out, held>> => Shown' = Shown
  BY DEF TypeOK, Shown

\* The exit of ex21 and ex23 leaves what was printed.
LEMMA ExitPrints ==
    ASSUME TypeOK, program # "ex22", Exit
    PROVE  out' = Shown
  <1>1. /\ out' = out \o held /\ pc # "done"
        /\ tty \in {0, 1} /\ out \in Seq(Lines) /\ held \in Seq(Lines)
        /\ tty = 1 => held = <<>>
        /\ tty = 0 => out = <<>>
    BY DEF Exit, TypeOK
  <1>2. out \o <<>> = out /\ <<>> \o held = held
    BY <1>1, ConcatEmptySeq
  <1>3. CASE tty = 1
    BY <1>1, <1>2, <1>3 DEF Shown
  <1>4. CASE tty = 0
    BY <1>1, <1>2, <1>4 DEF Shown
  <1>. QED
    BY <1>1, <1>3, <1>4

-----------------------------------------------------------------------------
(* ex21.                                                                   *)

\* One more failure of exec.
LEMMA TriedOnce ==
    ASSUME NEW s \in Seq(Lines), NEW n \in 1 .. ROUNDS, Tried(s, n)
    PROVE  Tried(s \o <<Line("execFailed", n)>>, n + 1)
  <1>. DEFINE x == Line("execFailed", n)
  <1>1. /\ n \in Nat /\ x \in Lines
        /\ \A r \in 1 .. ROUNDS : /\ x # Line("listing", r)
                                  /\ x = Line("execFailed", r) <=> r = n
    BY Constants, LinesAre DEF Kinds
  <1>. HIDE DEF x
  <1>2. \A l : Count(s \o <<x>>, l) = Count(s, l) + (IF x = l THEN 1 ELSE 0)
    BY <1>1, CountMore
  <1>3. ASSUME NEW r \in 1 .. ROUNDS
        PROVE  /\ Count(s \o <<x>>, Line("listing", r)) = 0
               /\ Count(s \o <<x>>, Line("execFailed", r)) = IF r < n + 1 THEN 1 ELSE 0
    <2>1. /\ Count(s, Line("listing", r)) = 0
          /\ Count(s, Line("execFailed", r)) = IF r < n THEN 1 ELSE 0
      BY DEF Tried
    <2>2. r \in Nat
      BY Constants
    <2>. QED
      BY <1>1, <1>2, <2>1, <2>2
  <1>. QED
    BY <1>3 DEF Tried, x

LEMMA Ex21Keeps ==
    ASSUME IInv, Next, program = "ex21"
    PROVE  Ex21Inv'
  <1>1. /\ TypeOK /\ Ex21Inv /\ k \in 1 .. ROUNDS /\ k \in Nat /\ tty \in {0, 1}
        /\ child = "none" /\ pc \in {"exec", "image", "exit", "done"}
    BY Constants DEF IInv, TypeOK, Ex21Inv
  <1>2. CASE Exec
    <2>1. UNCHANGED <<options, children, writeEnd, pipe>> /\ pc = "exec" /\ Tried(Shown, k)
      BY <1>1, <1>2 DEF Exec, Ex21Inv
    <2>2. child' = "none" /\ tty' = tty
      BY <1>1, <2>1 DEF options, children
    <2>3. CASE pc' = "image" /\ held' = <<>> /\ UNCHANGED <<k, out>>
      <3>1. tty = 1 => Tried(out', k')
        BY <2>1, <2>3 DEF Shown
      <3>. QED
        BY <2>2, <2>3, <3>1 DEF Ex21Inv, Tried
    <2>4. CASE Again("exec") /\ Says(<<Line("execFailed", k)>>)
      <3>1. Line("execFailed", k) \in Lines
        BY <1>1, LinesAre DEF Kinds
      <3>2. Shown' = Shown \o <<Line("execFailed", k)>> /\ Shown \in Seq(Lines)
        BY <1>1, <2>2, <2>4, <3>1, SaysIs
      <3>3. Tried(Shown', k + 1)
        BY <1>1, <2>1, <3>2, TriedOnce
      <3>4. \/ k < ROUNDS /\ pc' = "exec" /\ k' = k + 1
            \/ k = ROUNDS /\ pc' = "exit" /\ k' = k
        BY <1>1, <2>4, AgainIs
      <3>5. pc' = "exec" => Tried(Shown', k')
        BY <3>3, <3>4
      <3>6. pc' = "exit" => Tried(Shown', ROUNDS + 1)
        BY <3>3, <3>4
      <3>. QED
        BY <2>2, <3>4, <3>5, <3>6 DEF Ex21Inv, Tried
    <2>. QED
      BY <1>2, <2>3, <2>4 DEF Exec
  <1>3. CASE Image
    <2>1. /\ out' = Append(out, Line("listing", k)) /\ pc = "image" /\ pc' = "done"
          /\ child' = "none" /\ tty' = tty
          /\ tty = 1 => Tried(out, k)
          /\ tty = 0 => out = <<>>
          /\ out \in Seq(Lines)
      BY <1>1, <1>3 DEF Image, Ex21Inv, TypeOK, options, children
    <2>2. /\ Line("listing", k) \in Lines
          /\ \A r \in 1 .. ROUNDS : /\ Line("listing", k) # Line("execFailed", r)
                                    /\ Line("listing", k) = Line("listing", r) <=> r = k
      BY <1>1, Constants, LinesAre DEF Kinds
    <2>3. \A l : Count(out', l) = Count(out, l) + (IF Line("listing", k) = l THEN 1 ELSE 0)
      <3>. DEFINE x == Line("listing", k)
      <3>1. x \in Lines /\ out' = Append(out, x)
        BY <2>1, <2>2
      <3>. HIDE DEF x
      <3>2. out' = out \o <<x>> /\ \A l : Count(out \o <<x>>, l) = Count(out, l) + (IF x = l THEN 1 ELSE 0)
        BY <2>1, <3>1, CountMore
      <3>. QED
        BY <3>2 DEF x
    <2>4. ASSUME NEW r \in 1 .. ROUNDS
          PROVE  /\ Count(out', Line("listing", r)) = IF r = k THEN 1 ELSE 0
                 /\ Count(out', Line("execFailed", r)) = IF r < k /\ tty = 1 THEN 1 ELSE 0
      <3>1. /\ Count(out, Line("listing", r)) = 0
            /\ Count(out, Line("execFailed", r)) = IF r < k /\ tty = 1 THEN 1 ELSE 0
        <4>1. CASE tty = 1
          BY <2>1, <4>1 DEF Tried
        <4>2. CASE tty = 0
          <5>1. Count(out, Line("listing", r)) = 0 /\ Count(out, Line("execFailed", r)) = 0
            BY <2>1, <4>2, CountEmpty
          <5>. QED
            BY <4>2, <5>1
        <4>. QED
          BY <1>1, <4>1, <4>2
      <3>2. /\ Count(out', Line("listing", r)) = 0 + (IF r = k THEN 1 ELSE 0)
            /\ Count(out', Line("execFailed", r)) = (IF r < k /\ tty = 1 THEN 1 ELSE 0) + 0
        BY <2>2, <2>3, <3>1
      <3>. QED
        BY <3>2
    <2>5. k \in 1 .. ROUNDS + 1 /\ k # ROUNDS + 1
      BY <1>1, Constants
    <2>6. Ex21Printed'
      <3>1. \A r \in 1 .. ROUNDS :
               /\ Copies("listing", r)' = IF r = k THEN 1 ELSE 0
               /\ Copies("execFailed", r)' =
                     IF r < k /\ (tty' = 1 \/ k = ROUNDS + 1) THEN 1 ELSE 0
        BY <2>1, <2>4, <2>5, CopiesAre
      <3>2. \E m \in 1 .. ROUNDS + 1 : \A r \in 1 .. ROUNDS :
               /\ Copies("listing", r)' = IF r = m THEN 1 ELSE 0
               /\ Copies("execFailed", r)' =
                     IF r < m /\ (tty' = 1 \/ m = ROUNDS + 1) THEN 1 ELSE 0
        BY <2>5, <3>1
      <3>. QED
        BY <3>2 DEF Ex21Printed
    <2>. QED
      BY <2>1, <2>6 DEF Ex21Inv
  <1>4. CASE Exit
    <2>1. /\ pc' = "done" /\ child' = "none" /\ tty' = tty /\ Tried(Shown, ROUNDS + 1)
      BY <1>1, <1>4 DEF Exit, Ex21Inv, options, children
    <2>2. out' = Shown
      BY <1>1, <1>4, ExitPrints
    <2>3. ROUNDS + 1 \in 1 .. ROUNDS + 1
          /\ \A r \in 1 .. ROUNDS : r # ROUNDS + 1 /\ r < ROUNDS + 1
      BY Constants
    <2>4. \A r \in 1 .. ROUNDS :
             /\ Copies("listing", r)' = IF r = ROUNDS + 1 THEN 1 ELSE 0
             /\ Copies("execFailed", r)' =
                   IF r < ROUNDS + 1 /\ (tty' = 1 \/ ROUNDS + 1 = ROUNDS + 1) THEN 1 ELSE 0
      BY <2>1, <2>2, <2>3, CopiesAre DEF Tried
    <2>5. \E m \in 1 .. ROUNDS + 1 : \A r \in 1 .. ROUNDS :
             /\ Copies("listing", r)' = IF r = m THEN 1 ELSE 0
             /\ Copies("execFailed", r)' =
                   IF r < m /\ (tty' = 1 \/ m = ROUNDS + 1) THEN 1 ELSE 0
      BY <2>3, <2>4
    <2>. QED
      BY <2>1, <2>5 DEF Ex21Inv, Ex21Printed
  <1>. QED
    BY <1>1, <1>2, <1>3, <1>4
       DEF Next, ParentStep, ChildStep, MakePipe, ForkChild, CloseWriteEnd, ReadPipe,
           EndOfPipe, Wait, Popen, Pclose, Announce, ChildExec, List, ChildExit

-----------------------------------------------------------------------------
(* ex23.                                                                   *)

\* A line read from the pipe is taken from its front and put behind what was
\* printed; one that is written goes to its end.
LEMMA Moves ==
    ASSUME NEW s \in Seq(Lines), NEW t \in Seq(Lines)
    PROVE  /\ s \o <<>> = s /\ <<>> \o t = t /\ s \o t \in Seq(Lines)
           /\ t # <<>> => (s \o <<Head(t)>>) \o Tail(t) = s \o t
           /\ \A x \in Lines : s \o Append(t, x) = Append(s \o t, x)
  <1>1. s \o <<>> = s /\ <<>> \o t = t /\ s \o t \in Seq(Lines)
    BY ConcatEmptySeq, ConcatProperties
  <1>2. ASSUME t # <<>> PROVE (s \o <<Head(t)>>) \o Tail(t) = s \o t
    <2>. DEFINE h == <<Head(t)>>
                r == Tail(t)
    <2>1. h \in Seq(Lines) /\ r \in Seq(Lines)
      <3>1. Head(t) \in Lines /\ Tail(t) \in Seq(Lines)
        BY <1>2, HeadTailProperties
      <3>. QED
        BY <3>1
    <2>2. h \o r = t
      <3>1. /\ Len(h) = 1 /\ h[1] = Head(t) /\ Head(t) = t[1]
            /\ Len(t) \in Nat /\ Len(t) > 0 /\ Len(r) = Len(t) - 1
            /\ \A i \in 1 .. Len(r) : r[i] = t[i + 1]
        BY <1>2, HeadTailProperties, EmptySeq
      <3>. HIDE DEF h, r
      <3>2. /\ h \o r \in Seq(Lines) /\ Len(h \o r) = 1 + Len(r)
            /\ \A i \in 1 .. 1 + Len(r) : (h \o r)[i] = IF i <= 1 THEN h[i] ELSE r[i - 1]
        <4>1. /\ h \o r \in Seq(Lines) /\ Len(h \o r) = Len(h) + Len(r)
              /\ \A i \in 1 .. Len(h) + Len(r) :
                     (h \o r)[i] = IF i <= Len(h) THEN h[i] ELSE r[i - Len(h)]
          BY <2>1, ConcatProperties
        <4>. QED
          BY <3>1, <4>1
      <3>3. \A i \in 1 .. Len(t) : (h \o r)[i] = t[i]
        BY <3>1, <3>2
      <3>. QED
        BY <3>1, <3>2, <3>3, SeqEqual
    <2>. HIDE DEF h, r
    <2>. QED
      BY <2>1, <2>2, ConcatAssociative DEF h, r
  <1>3. ASSUME NEW x \in Lines PROVE s \o Append(t, x) = Append(s \o t, x)
    <2>. DEFINE e == <<x>>
    <2>1. e \in Seq(Lines) /\ Append(t, x) = t \o e /\ Append(s \o t, x) = (s \o t) \o e
      BY <1>1, AppendIsConcat
    <2>. HIDE DEF e
    <2>. QED
      BY <2>1, ConcatAssociative
  <1>. QED
    BY <1>1, <1>2, <1>3

LEMMA TwoLines ==
    ASSUME NEW x \in Lines, NEW y \in Lines
    PROVE  Append(<<x>>, y) = <<x, y>> /\ <<x>> \o <<y>> = <<x, y>>
  <1>. DEFINE s == <<x>>
              t == <<x, y>>
              a == Append(s, y)
  <1>1. /\ s \in Seq(Lines) /\ Len(s) = 1 /\ s[1] = x
        /\ t \in Seq(Lines) /\ Len(t) = 2 /\ t[1] = x /\ t[2] = y
    OBVIOUS
  <1>2. a = s \o <<y>>
    <2>. HIDE DEF s
    <2>. QED
      BY <1>1, AppendIsConcat
  <1>. HIDE DEF s, t
  <1>3. a \in Seq(Lines) /\ Len(a) = 2 /\ a[1] = x /\ a[2] = y
    <2>1. s \in Seq(Lines) /\ y \in Lines
      BY <1>1
    <2>2. /\ Append(s, y) \in Seq(Lines) /\ Append(s, y) # <<>>
          /\ Len(Append(s, y)) = Len(s) + 1
          /\ \A i \in 1 .. Len(s) : Append(s, y)[i] = s[i]
          /\ Append(s, y)[Len(s) + 1] = y
      BY <2>1, AppendProperties
    <2>. HIDE DEF a
    <2>3. a = Append(s, y)
      BY DEF a
    <2>. QED
      BY <1>1, <2>2, <2>3
  <1>. HIDE DEF a
  <1>4. \A i \in 1 .. Len(a) : a[i] = t[i]
    BY <1>1, <1>3
  <1>5. a = t
    BY <1>1, <1>3, <1>4, SeqEqual
  <1>. QED
    BY <1>2, <1>5 DEF a, s, t

\* The texts of ex23 are sequences of lines.
LEMMA TextsAre ==
    /\ \A first \in ByChild \cup {ByNobody} : first \in Seq(Lines)
    /\ Listing(LISTING) \in Seq(Lines) /\ <<>> \in Seq(Lines)
    /\ <<Line("popen", 0)>> \in Seq(Lines)
    /\ \A first \in Seq(Lines), second \in Seq(Lines) :
          /\ Popened(first, second) \in Seq(Lines)
          /\ Popened(first, <<>>) = first \o <<Line("popen", 0)>>
          /\ \A x \in Lines : Popened(first, Append(second, x)) = Append(Popened(first, second), x)
  <1>1. /\ Line("announce", 1) \in Lines /\ Line("execFailed", 1) \in Lines
        /\ Line("forkFailed", 1) \in Lines /\ Line("waitFailed", 1) \in Lines
        /\ Line("popen", 0) \in Lines
    BY LinesAre DEF Kinds
  <1>2. Listing(LISTING) \in Seq(Lines) /\ <<>> \in Seq(Lines)
    BY Constants, ListingIs, EmptySeq
  <1>3. \A x, y \in Lines : <<x, y>> \in Seq(Lines) /\ <<x>> \in Seq(Lines)
    OBVIOUS
  <1>4. \A first \in ByChild \cup {ByNobody} : first \in Seq(Lines)
    BY <1>1, <1>2, <1>3 DEF ByChild, ByNobody
  <1>5. ASSUME NEW first \in Seq(Lines), NEW second \in Seq(Lines)
        PROVE  /\ Popened(first, second) \in Seq(Lines)
               /\ Popened(first, <<>>) = first \o <<Line("popen", 0)>>
               /\ \A x \in Lines :
                      Popened(first, Append(second, x)) = Append(Popened(first, second), x)
    <2>. DEFINE p == <<Line("popen", 0)>>
    <2>1. p \in Seq(Lines)
      BY <1>1, <1>3
    <2>. HIDE DEF p
    <2>2. first \o p \in Seq(Lines)
      BY <2>1, Moves
    <2>3. /\ (first \o p) \o second \in Seq(Lines)
          /\ (first \o p) \o <<>> = first \o p
          /\ \A x \in Lines : (first \o p) \o Append(second, x) = Append((first \o p) \o second, x)
      BY <2>2, Moves
    <2>4. \A t : Popened(first, t) = (first \o p) \o t
      BY DEF Popened, p
    <2>. QED
      BY <2>3, <2>4 DEF p
  <1>. QED
    BY <1>1, <1>2, <1>3, <1>4, <1>5

LEMMA Ex23Parent ==
    ASSUME IInv, ParentStep, program = "ex23"
    PROVE  Ex23Inv'
  <1>1. /\ TypeOK /\ Ex23Inv /\ Piped /\ k = 1 /\ tty \in {0, 1} /\ Shown \in Seq(Lines)
        /\ pipe \in Seq(Lines) /\ pc \notin {"exec", "image"}
    BY ShownIs DEF IInv, Ex23Inv, Piped, TypeOK
  <1>2. /\ Line("pipeFailed", 0) \in Lines /\ Line("forkFailed", 1) \in Lines
        /\ Line("waitFailed", 1) \in Lines /\ Line("popen", 0) \in Lines
    BY LinesAre DEF Kinds
  <1>3. \A x : <<>> \o <<x>> = <<x>>
    OBVIOUS
  <1>4. CASE MakePipe
    <2>1. /\ UNCHANGED <<options, k, children, pipe>> /\ Shown = <<>> /\ pipe = <<>>
          /\ child = "none" /\ listed = 0
      BY <1>1, <1>4 DEF MakePipe, Ex23Inv
    <2>2. CASE pc' = "fork" /\ UNCHANGED <<held, out>>
      <3>1. Shown' = <<>>
        BY <2>1, <2>2, ShownIs DEF options
      <3>. QED
        BY <1>1, <2>1, <2>2, <3>1 DEF Ex23Inv, children
    <2>3. CASE pc' = "exit" /\ Says(<<Line("pipeFailed", 0)>>)
      <3>1. Shown' = <<Line("pipeFailed", 0)>>
        BY <1>1, <1>2, <1>3, <2>1, <2>3, SaysIs DEF options
      <3>. QED
        BY <1>1, <2>1, <2>3, <3>1 DEF Ex23Inv, children
    <2>. QED
      BY <1>4, <2>2, <2>3 DEF MakePipe
  <1>5. CASE ForkChild
    <2>1. /\ UNCHANGED <<options, k, listed, pipe>> /\ Shown = <<>> /\ pipe = <<>>
          /\ child = "none" /\ listed = 0 /\ pc' = "close"
      BY <1>1, <1>5 DEF ForkChild, Ex23Inv
    <2>2. CASE child' = "announce" /\ childHeld' = held /\ UNCHANGED <<held, out>>
      <3>1. Shown' = <<>> /\ held = <<>>
        BY <1>1, <2>1, <2>2, ShownIs DEF options, TypeOK, Shown
      <3>. QED
        BY <1>1, <2>1, <2>2, <3>1 DEF Ex23Inv, Reading
    <2>3. CASE Says(<<Line("forkFailed", k)>>) /\ UNCHANGED <<child, childHeld>>
      <3>1. Shown' = <<Line("forkFailed", 1)>>
        BY <1>1, <1>2, <1>3, <2>1, <2>3, SaysIs DEF options
      <3>. QED
        BY <1>1, <2>1, <2>3, <3>1 DEF Ex23Inv, Reading
    <2>. QED
      BY <1>5, <2>2, <2>3 DEF ForkChild
  <1>6. CASE CloseWriteEnd
    <2>1. pc = "close" /\ pc' = "read" /\ UNCHANGED <<options, k, held, children, pipe, out>>
      BY <1>6 DEF CloseWriteEnd
    <2>2. Shown' = Shown
      BY <2>1, ShownIs DEF options
    <2>3. Reading'
      BY <1>1, <2>1, <2>2 DEF Ex23Inv, Reading, children, ByChild
    <2>. QED
      BY <1>1, <2>1, <2>3 DEF Ex23Inv
  <1>7. CASE ReadPipe
    <2>1. /\ pc \in {"read", "fread"} /\ pipe # <<>> /\ pipe' = Tail(pipe)
          /\ Says(<<Head(pipe)>>) /\ UNCHANGED <<options, pc, k, children, writeEnd>>
      BY <1>7 DEF ReadPipe
    <2>2. Head(pipe) \in Lines
      BY <1>1, <2>1, HeadTailProperties
    <2>3. Shown' = Shown \o <<Head(pipe)>>
      BY <1>1, <2>1, <2>2, SaysIs DEF options
    <2>4. Shown' \o pipe' = Shown \o pipe
      BY <1>1, <2>1, <2>3, Moves
    <2>5. CASE pc = "read"
      <3>1. \/ child = "image" /\ Shown \o pipe = Listing(listed)
            \/ child = "zombie" /\ Shown \o pipe \in ByChild
        BY <1>1, <2>1, <2>5 DEF Ex23Inv, Reading
      <3>2. \/ child' = "image" /\ Shown' \o pipe' = Listing(listed')
            \/ child' = "zombie" /\ Shown' \o pipe' \in ByChild'
        BY <2>1, <2>4, <3>1 DEF children, ByChild
      <3>. QED
        BY <1>1, <2>1, <2>5, <3>2 DEF Ex23Inv, Reading
    <2>6. CASE pc = "fread"
      <3>1. Freading
        BY <1>1, <2>6 DEF Ex23Inv
      <3>2. Freading'
        BY <2>1, <2>4, <3>1 DEF Freading, children, ByChild, ByNobody, Popened
      <3>. QED
        BY <1>1, <2>1, <2>6, <3>2 DEF Ex23Inv
    <2>. QED
      BY <2>1, <2>5, <2>6
  <1>8. CASE EndOfPipe
    <2>1. /\ pc \in {"read", "fread"} /\ pipe = <<>> /\ child \in {"none", "zombie"}
          /\ pc' = IF pc = "read" THEN "wait" ELSE "pclose"
          /\ UNCHANGED <<options, k, held, children, writeEnd, pipe, out>>
      BY <1>8 DEF EndOfPipe
    <2>2. Shown' = Shown /\ Shown \o pipe = Shown
      BY <1>1, <2>1, ShownIs, Moves DEF options
    <2>3. CASE pc = "read"
      <3>1. \/ child = "none" /\ Shown = <<Line("forkFailed", 1)>>
            \/ child = "zombie" /\ Shown \in ByChild
        BY <1>1, <2>1, <2>2, <2>3 DEF Ex23Inv, Reading
      <3>. QED
        BY <1>1, <2>1, <2>2, <2>3, <3>1 DEF Ex23Inv, children, ByChild
    <2>4. CASE pc = "fread"
      <3>1. child = "zombie" /\ Ending(Shown)
        BY <1>1, <2>1, <2>2, <2>4 DEF Ex23Inv, Freading, Ending
      <3>2. child' = "zombie" /\ Ending(Shown)'
        BY <2>1, <2>2, <3>1 DEF children, Ending
      <3>. QED
        BY <1>1, <2>1, <2>4, <3>2 DEF Ex23Inv
    <2>. QED
      BY <2>1, <2>3, <2>4
  <1>9. CASE Wait
    <2>1. /\ pc = "wait" /\ pc' = "popen" /\ child' = "none"
          /\ UNCHANGED <<options, k, childHeld, listed, writeEnd, pipe>>
          /\ \/ child = "zombie" /\ UNCHANGED <<held, out>>
             \/ child = "none" /\ Says(<<Line("waitFailed", k)>>)
      BY <1>1, <1>9 DEF Wait
    <2>2. pipe = <<>> /\ \/ child = "none" /\ Shown = <<Line("forkFailed", 1)>>
                         \/ child = "zombie" /\ Shown \in ByChild
      BY <1>1, <2>1 DEF Ex23Inv
    <2>3. Shown' \in ByChild \cup {ByNobody}
      <3>1. CASE child = "zombie"
        BY <2>1, <2>2, <3>1, ShownIs DEF options
      <3>2. CASE child = "none"
        <4>1. Shown' = <<Line("forkFailed", 1)>> \o <<Line("waitFailed", 1)>>
          BY <1>1, <1>2, <2>1, <2>2, <3>2, SaysIs DEF options
        <4>2. Shown' = ByNobody
          BY <1>2, <4>1, TwoLines DEF ByNobody
        <4>. QED
          BY <4>2
      <3>. QED
        BY <2>1, <3>1, <3>2
    <2>. QED
      BY <1>1, <2>1, <2>2, <2>3 DEF Ex23Inv, ByChild, ByNobody
  <1>10. CASE Popen
    <2>1. /\ pc = "popen" /\ Says(<<Line("popen", 0)>>)
          /\ \/ pc' = "exit" /\ UNCHANGED child
             \/ pc' = "fread" /\ child' = "image" /\ listed' \in {0, LISTING}
          /\ UNCHANGED <<options, k, pipe>>
      BY <1>10 DEF Popen
    <2>2. pipe = <<>> /\ child = "none" /\ Shown \in ByChild \cup {ByNobody}
      BY <1>1, <2>1 DEF Ex23Inv
    <2>3. Shown' = Shown \o <<Line("popen", 0)>> /\ Shown' \in Seq(Lines)
      <3>1. Shown' = Shown \o <<Line("popen", 0)>>
        BY <1>1, <1>2, <2>1, SaysIs DEF options
      <3>. QED
        BY <1>1, <1>2, <3>1, CountMore
    <2>4. PICK first \in ByChild \cup {ByNobody} : Shown' = Popened(first, <<>>)
      BY <1>1, <2>2, <2>3, TextsAre
    <2>5. CASE pc' = "exit" /\ UNCHANGED child
      <3>1. Ending(Shown')
        BY <2>4 DEF Ending
      <3>. QED
        BY <1>1, <2>1, <2>2, <2>5, <3>1 DEF Ex23Inv, Ending
    <2>6. CASE pc' = "fread" /\ child' = "image" /\ listed' \in {0, LISTING}
      <3>1. Shown' \o pipe' = Popened(first, <<>>)
        BY <2>1, <2>2, <2>3, <2>4, Moves
      <3>2. \/ Shown' \o pipe' = Popened(first, Listing(listed'))
            \/ listed' = LISTING /\ Shown' \o pipe' = Popened(first, <<>>)
        BY <2>6, <3>1, ListingIs
      <3>3. Freading'
        BY <2>6, <3>2 DEF Freading, ByChild, ByNobody
      <3>. QED
        BY <1>1, <2>1, <2>6, <3>3 DEF Ex23Inv
    <2>. QED
      BY <2>1, <2>5, <2>6
  <1>11. CASE Pclose
    <2>1. /\ pc = "pclose" /\ pc' = "exit" /\ child' = "none"
          /\ UNCHANGED <<options, k, held, pipe, out>>
      BY <1>11 DEF Pclose
    <2>2. Shown' = Shown /\ Ending(Shown)
      BY <1>1, <2>1, ShownIs DEF options, Ex23Inv
    <2>3. Ending(Shown')
      BY <2>2
    <2>. QED
      BY <1>1, <2>1, <2>3 DEF Ex23Inv, Ending
  <1>12. CASE Exit
    <2>1. pc = "exit" /\ pc' = "done" /\ UNCHANGED <<options, k, children>>
      BY <1>12 DEF Exit
    <2>2. out' = Shown
      BY <1>1, <1>12, ExitPrints
    <2>3. child = "none" /\ (Shown = <<Line("pipeFailed", 0)>> \/ Ending(Shown))
      BY <1>1, <2>1 DEF Ex23Inv
    <2>4. Ex23Printed'
      BY <2>2, <2>3 DEF Ending, Ex23Printed, ByChild, ByNobody, Popened
    <2>. QED
      BY <1>1, <2>1, <2>3, <2>4 DEF Ex23Inv, children
  <1>. QED
    BY <1>1, <1>4, <1>5, <1>6, <1>7, <1>8, <1>9, <1>10, <1>11, <1>12
       DEF ParentStep, Exec, Image

LEMMA Ex23Child ==
    ASSUME IInv, ChildStep, program = "ex23"
    PROVE  Ex23Inv'
  <1>1. /\ TypeOK /\ Ex23Inv /\ Piped /\ k = 1 /\ tty \in {0, 1} /\ Shown \in Seq(Lines)
        /\ pipe \in Seq(Lines) /\ childHeld \in Seq(Lines)
    BY ShownIs DEF IInv, Ex23Inv, Piped, TypeOK
  <1>2. child \notin {"none", "zombie"}
    BY DEF ChildStep, Announce, ChildExec, List, ChildExit
  <1>3. \/ pc \in {"close", "read"} /\ Reading
        \/ pc = "fread" /\ Freading /\ child = "image"
    BY <1>1, <1>2 DEF Ex23Inv, TypeOK, Freading
  <1>4. UNCHANGED <<options, parent, writeEnd>>
    BY DEF ChildStep, Announce, ChildExec, List, ChildExit
  <1>5. /\ Line("announce", 1) \in Lines /\ Line("execFailed", 1) \in Lines
    BY LinesAre DEF Kinds
  <1>6. SUFFICES /\ pc \in {"close", "read"} => Reading'
                 /\ pc = "fread" => Freading'
    BY <1>1, <1>3, <1>4 DEF Ex23Inv, parent
  <1>7. CASE Announce
    <2>1. /\ child = "announce" /\ child' = "exec" /\ ChildSays(Line("announce", k))
          /\ UNCHANGED <<listed, pipe>>
      BY <1>7 DEF Announce
    <2>2. /\ pc # "fread" /\ Shown = <<>> /\ pipe = <<>> /\ childHeld = <<>> /\ listed = 0
      BY <1>3, <2>1 DEF Reading
    <2>3. out' = out /\ childHeld' = <<Line("announce", 1)>>
      <3>1. out' = out /\ childHeld' = Append(<<>>, Line("announce", 1))
        BY <1>1, <1>5, <2>1, <2>2, ChildSaysIs
      <3>2. \A x : Append(<<>>, x) = <<x>>
        OBVIOUS
      <3>. QED
        BY <3>1, <3>2
    <2>4. Shown' = <<>>
      BY <1>4, <2>2, <2>3, ShownIs DEF options, parent
    <2>. QED
      BY <2>1, <2>2, <2>3, <2>4 DEF Reading
  <1>8. CASE ChildExec
    <2>1. /\ child = "exec" /\ UNCHANGED <<listed, pipe>>
          /\ \/ child' = "image" /\ childHeld' = <<>> /\ UNCHANGED out
             \/ child' = "exit" /\ ChildSays(Line("execFailed", k))
      BY <1>8 DEF ChildExec
    <2>2. /\ pc # "fread" /\ Shown = <<>> /\ pipe = <<>> /\ listed = 0
          /\ childHeld = <<Line("announce", 1)>>
      BY <1>3, <2>1 DEF Reading
    <2>3. \/ child' = "image" /\ out' = out
          \/ /\ child' = "exit" /\ out' = out
             /\ childHeld' = <<Line("announce", 1), Line("execFailed", 1)>>
      <3>1. CASE child' = "exit" /\ ChildSays(Line("execFailed", k))
        <4>1. out' = out /\ childHeld' = Append(<<Line("announce", 1)>>, Line("execFailed", 1))
          BY <1>1, <1>5, <2>2, <3>1, ChildSaysIs
        <4>. QED
          BY <1>5, <3>1, <4>1, TwoLines
      <3>. QED
        BY <2>1, <3>1
    <2>4. Shown' = <<>>
      BY <1>4, <2>2, <2>3, ShownIs DEF options, parent
    <2>5. <<>> \o <<>> = <<>>
      OBVIOUS
    <2>6. Shown' \o pipe' = Listing(listed')
      BY <2>1, <2>2, <2>4, <2>5, ListingIs
    <2>. QED
      BY <2>1, <2>2, <2>3, <2>4, <2>6 DEF Reading
  <1>9. CASE List
    <2>1. /\ child = "image" /\ UNCHANGED out
          /\ \/ /\ listed < LISTING /\ pipe' = Append(pipe, Line("listing", listed + 1))
                /\ listed' = listed + 1 /\ child' = "image"
             \/ ~(listed < LISTING) /\ child' = "zombie" /\ UNCHANGED <<listed, pipe>>
      BY <1>1, <1>9 DEF List
    <2>2. Shown' = Shown
      BY <1>4, <2>1, ShownIs DEF options, parent
    <2>3. /\ listed \in Nat /\ listed + 1 \in Nat /\ listed <= LISTING
          /\ Line("listing", listed + 1) \in Lines
      <3>1. listed \in Nat /\ listed + 1 \in Nat /\ listed <= LISTING
        BY <1>1, Constants DEF TypeOK
      <3>. QED
        BY <3>1, LinesAre DEF Kinds
    <2>4. CASE listed < LISTING
      <3>1. Shown' \o pipe' = Append(Shown \o pipe, Line("listing", listed + 1))
        <4>. DEFINE x == Line("listing", listed + 1)
        <4>1. x \in Lines /\ pipe' = Append(pipe, x)
          BY <2>1, <2>3, <2>4
        <4>. HIDE DEF x
        <4>2. Shown \o Append(pipe, x) = Append(Shown \o pipe, x)
          BY <1>1, <4>1, Moves
        <4>. QED
          BY <2>2, <4>1, <4>2 DEF x
      <3>2. /\ Listing(listed) \in Seq(Lines)
            /\ Append(Listing(listed), Line("listing", listed + 1)) = Listing(listed')
        BY <2>1, <2>3, <2>4, ListingIs
      <3>3. CASE pc \in {"close", "read"}
        <4>1. Shown \o pipe = Listing(listed)
          BY <1>3, <2>1, <3>3 DEF Reading
        <4>2. Shown' \o pipe' = Listing(listed')
          BY <3>1, <3>2, <4>1
        <4>. QED
          BY <2>1, <2>4, <3>3, <4>2 DEF Reading
      <3>4. CASE pc = "fread"
        <4>1. PICK first \in ByChild \cup {ByNobody} :
                  Shown \o pipe = Popened(first, Listing(listed))
          <5>1. listed # LISTING
            BY <2>3, <2>4, Constants
          <5>. QED
            BY <1>3, <2>1, <3>4, <5>1 DEF Freading
        <4>2. first \in Seq(Lines)
          BY TextsAre
        <4>3. Append(Popened(first, Listing(listed)), Line("listing", listed + 1))
                  = Popened(first, Append(Listing(listed), Line("listing", listed + 1)))
          BY <2>3, <3>2, <4>2, TextsAre
        <4>4. Shown' \o pipe' = Popened(first, Listing(listed'))
          BY <3>1, <3>2, <4>1, <4>3
        <4>5. child' = "image"
          BY <2>1, <2>4
        <4>. QED
          BY <3>4, <4>4, <4>5 DEF Freading, ByChild, ByNobody
      <3>. QED
        BY <3>3, <3>4
    <2>5. CASE ~(listed < LISTING)
      <3>1. listed = LISTING /\ child' = "zombie" /\ Shown' \o pipe' = Shown \o pipe
        BY <2>1, <2>2, <2>3, <2>5, Constants
      <3>2. CASE pc \in {"close", "read"}
        <4>1. Shown \o pipe = Listing(LISTING)
          BY <1>3, <2>1, <3>1, <3>2 DEF Reading
        <4>. QED
          BY <3>1, <3>2, <4>1 DEF Reading, ByChild
      <3>3. CASE pc = "fread"
        <4>1. PICK first \in ByChild \cup {ByNobody}, second \in {<<>>, Listing(LISTING)} :
                  Shown \o pipe = Popened(first, second)
          BY <1>3, <2>1, <3>1, <3>3 DEF Freading
        <4>2. \E other \in {<<>>, Listing(LISTING)} : Shown' \o pipe' = Popened(first, other)
          BY <3>1, <4>1
        <4>. QED
          BY <3>1, <3>3, <4>2 DEF Freading, ByChild, ByNobody
      <3>. QED
        BY <3>2, <3>3
    <2>. QED
      BY <2>4, <2>5
  <1>10. CASE ChildExit
    <2>1. /\ child = "exit" /\ child' = "zombie" /\ pipe' = pipe \o childHeld /\ UNCHANGED out
      BY <1>1, <1>10 DEF ChildExit
    <2>2. /\ pc # "fread" /\ Shown = <<>> /\ pipe = <<>>
          /\ childHeld = <<Line("announce", 1), Line("execFailed", 1)>>
      BY <1>3, <2>1 DEF Reading
    <2>3. Shown' = <<>>
      BY <1>4, <2>1, <2>2, ShownIs DEF options, parent
    <2>4. Shown' \o pipe' = childHeld
      <3>1. <<>> \o childHeld = childHeld
        BY <1>1, Moves
      <3>. QED
        BY <2>1, <2>2, <2>3, <3>1
    <2>. QED
      BY <2>1, <2>2, <2>4 DEF Reading, ByChild
  <1>. QED
    BY <1>7, <1>8, <1>9, <1>10 DEF ChildStep

-----------------------------------------------------------------------------
(* ex22.                                                                   *)

\* Text t has one line more than text s, and it is this one.
Longer(s, t, kind, n) ==
    \A other \in Kinds, m \in Nat :
        /\ Count(s, Line(other, m)) \in Nat
        /\ Count(t, Line(other, m)) =
              Count(s, Line(other, m)) + (IF other = kind /\ m = n THEN 1 ELSE 0)

LEMMA CountLine ==
    ASSUME NEW s \in Seq(Lines), NEW kind \in Kinds, NEW n \in Nat
    PROVE  Longer(s, s \o <<Line(kind, n)>>, kind, n)
  <1>. DEFINE x == Line(kind, n)
  <1>1. x \in Lines /\ \A other \in Kinds, m \in Nat : x = Line(other, m) <=> other = kind /\ m = n
    BY LinesAre
  <1>. HIDE DEF x
  <1>2. \A l : /\ Count(s \o <<x>>, l) = Count(s, l) + (IF x = l THEN 1 ELSE 0)
               /\ Count(s, l) \in Nat
    BY <1>1, CountMore
  <1>3. Longer(s, s \o <<x>>, kind, n)
    BY <1>1, <1>2 DEF Longer
  <1>. QED
    BY <1>3 DEF x

LEMMA RoundKinds ==
    /\ {"listing", "announce", "execFailed", "forkFailed", "waitFailed"} \subseteq Kinds
    /\ 1 .. ROUNDS \subseteq Nat
    /\ TypeOK => k \in 1 .. ROUNDS /\ k \in Nat /\ tty \in {0, 1}
  BY Constants DEF Kinds, TypeOK

\* How many of the later children have told that their exec failed.
LEMMA FailuresSame ==
    ASSUME \A s \in 1 .. ROUNDS : Copies("execFailed", s)' = Copies("execFailed", s)
    PROVE  \A r \in 1 .. ROUNDS : FailuresAfter(r)' = FailuresAfter(r)
  <1>1. ASSUME NEW r \in 1 .. ROUNDS PROVE FailuresAfter(r)' = FailuresAfter(r)
    <2>1. r + 1 .. ROUNDS \subseteq 1 .. ROUNDS
      BY Constants
    <2>2. {s \in r + 1 .. ROUNDS : Copies("execFailed", s)' = 1} =
             {s \in r + 1 .. ROUNDS : Copies("execFailed", s) = 1}
      BY <2>1
    <2>. QED
      BY <2>2 DEF FailuresAfter
  <1>. QED
    BY <1>1

LEMMA FailuresCount ==
    ASSUME NEW r \in 1 .. ROUNDS
    PROVE  /\ FailuresAfter(r) \in Nat
           /\ IsFiniteSet({s \in r + 1 .. ROUNDS : Copies("execFailed", s) = 1})
  <1>1. IsFiniteSet(r + 1 .. ROUNDS)
    <2>1. r + 1 \in Int /\ ROUNDS \in Int
      BY Constants
    <2>. QED
      BY <2>1, FS_Interval
  <1>2. IsFiniteSet({s \in r + 1 .. ROUNDS : Copies("execFailed", s) = 1})
    BY <1>1, FS_Subset
  <1>. QED
    BY <1>2, FS_CardinalityType DEF FailuresAfter

LEMMA NoFailures ==
    ASSUME NEW r \in 1 .. ROUNDS,
           \A s \in r + 1 .. ROUNDS : Copies("execFailed", s) = 0
    PROVE  FailuresAfter(r) = 0
  <1>1. {s \in r + 1 .. ROUNDS : Copies("execFailed", s) = 1} = {}
    OBVIOUS
  <1>. QED
    BY <1>1, FS_EmptySet DEF FailuresAfter

LEMMA OneMoreFailure ==
    ASSUME NEW n \in 1 .. ROUNDS,
           Copies("execFailed", n) = 0, Copies("execFailed", n)' = 1,
           \A s \in 1 .. ROUNDS : s # n => Copies("execFailed", s)' = Copies("execFailed", s)
    PROVE  \A r \in 1 .. ROUNDS :
               FailuresAfter(r)' = FailuresAfter(r) + (IF r < n THEN 1 ELSE 0)
  <1>1. ASSUME NEW r \in 1 .. ROUNDS
        PROVE  FailuresAfter(r)' = FailuresAfter(r) + (IF r < n THEN 1 ELSE 0)
    <2>. DEFINE A == {s \in r + 1 .. ROUNDS : Copies("execFailed", s) = 1}
                B == {s \in r + 1 .. ROUNDS : Copies("execFailed", s)' = 1}
    <2>1. r + 1 .. ROUNDS \subseteq 1 .. ROUNDS /\ (n \in r + 1 .. ROUNDS <=> r < n)
      BY Constants
    <2>2. IsFiniteSet(A) /\ FailuresAfter(r) = Cardinality(A) /\ FailuresAfter(r) \in Nat
      BY FailuresCount DEF FailuresAfter
    <2>3. FailuresAfter(r)' = Cardinality(B)
      BY DEF FailuresAfter
    <2>4. n \notin A /\ B = IF r < n THEN A \cup {n} ELSE A
      BY <2>1
    <2>. HIDE DEF A, B
    <2>5. Cardinality(A \cup {n}) = Cardinality(A) + 1
      BY <2>2, <2>4, FS_AddElement
    <2>. QED
      BY <2>2, <2>3, <2>4, <2>5
  <1>. QED
    BY <1>1

\* What a step that says a line of the parent changes.
LEMMA ParentTells ==
    ASSUME TypeOK, NEW kind \in {"forkFailed", "waitFailed"},
           Says(<<Line(kind, k)>>), tty' = tty
    PROVE  \A r \in 1 .. ROUNDS :
              /\ Row(r)' = Row(r)
              /\ \A other \in {"forkFailed", "waitFailed"} :
                    /\ Count(Shown, Line(other, r)) \in Nat
                    /\ Count(Shown', Line(other, r)) =
                          Count(Shown, Line(other, r)) + (IF other = kind /\ r = k THEN 1 ELSE 0)
              /\ tty = 0 => \A other \in Kinds :
                    /\ Copies(other, r)' = Copies(other, r)
                    /\ other # kind => Count(held', Line(other, r)) = Count(held, Line(other, r))
  <1>1. /\ kind \in Kinds /\ k \in Nat /\ 1 .. ROUNDS \subseteq Nat /\ tty \in {0, 1}
        /\ {"forkFailed", "waitFailed", "listing", "announce", "execFailed"} \subseteq Kinds
    BY RoundKinds
  <1>2. Line(kind, k) \in Lines
    BY <1>1, LinesAre
  <1>3. /\ tty = 1 => out' = out \o <<Line(kind, k)>>
        /\ tty = 0 => out' = out /\ held' = held \o <<Line(kind, k)>>
        /\ Shown' = Shown \o <<Line(kind, k)>> /\ Shown \in Seq(Lines)
    BY <1>2, SaysIs
  <1>4. /\ Longer(Shown, Shown', kind, k)
        /\ tty = 1 => Longer(out, out', kind, k)
        /\ tty = 0 => Longer(held, held', kind, k)
    <2>1. out \in Seq(Lines) /\ held \in Seq(Lines)
      BY DEF TypeOK
    <2>2. \A s \in Seq(Lines) : Longer(s, s \o <<Line(kind, k)>>, kind, k)
      BY <1>1, CountLine
    <2>. QED
      BY <1>3, <2>1, <2>2
  <1>5. ASSUME NEW r \in 1 .. ROUNDS
        PROVE  /\ \A other \in Kinds : other # kind => Copies(other, r)' = Copies(other, r)
               /\ tty = 0 => \A other \in Kinds :
                    /\ Copies(other, r)' = Copies(other, r)
                    /\ other # kind => Count(held', Line(other, r)) = Count(held, Line(other, r))
    <2>1. CASE tty = 1
      <3>1. ASSUME NEW other \in Kinds, other # kind
            PROVE  Count(out', Line(other, r)) = Count(out, Line(other, r))
        <4>1. /\ Count(out, Line(other, r)) \in Nat
              /\ Count(out', Line(other, r)) = Count(out, Line(other, r)) + 0
          BY <1>1, <1>4, <2>1, <3>1 DEF Longer
        <4>. QED
          BY <4>1
      <3>. QED
        BY <2>1, <3>1, CopiesAre
    <2>2. CASE tty = 0
      <3>1. ASSUME NEW other \in Kinds, other # kind
            PROVE  Count(held', Line(other, r)) = Count(held, Line(other, r))
        <4>1. /\ Count(held, Line(other, r)) \in Nat
              /\ Count(held', Line(other, r)) = Count(held, Line(other, r)) + 0
          BY <1>1, <1>4, <2>2, <3>1 DEF Longer
        <4>. QED
          BY <4>1
      <3>. QED
        BY <1>3, <2>2, <3>1, CopiesAre
    <2>. QED
      BY <1>1, <2>1, <2>2
  <1>6. ASSUME NEW r \in 1 .. ROUNDS, NEW other \in {"forkFailed", "waitFailed"}
        PROVE  /\ Count(Shown, Line(other, r)) \in Nat
               /\ Count(Shown', Line(other, r)) =
                     Count(Shown, Line(other, r)) + (IF other = kind /\ r = k THEN 1 ELSE 0)
    BY <1>1, <1>4 DEF Longer
  <1>7. ASSUME NEW r \in 1 .. ROUNDS PROVE Row(r)' = Row(r)
    BY <1>1, <1>5 DEF Row
  <1>. QED
    BY <1>5, <1>6, <1>7

\* What a line that a child brings out changes.
LEMMA ChildBrings ==
    ASSUME TypeOK, NEW kind \in {"listing", "announce", "execFailed"},
           out' = out \o <<Line(kind, k)>>, UNCHANGED <<held, tty>>
    PROVE  \A r \in 1 .. ROUNDS :
              /\ Told(r)' = Told(r)
              /\ \A other \in Kinds :
                    /\ Copies(other, r) \in Nat
                    /\ Copies(other, r)' = Copies(other, r) + (IF other = kind /\ r = k THEN 1 ELSE 0)
  <1>1. /\ kind \in Kinds /\ k \in Nat /\ 1 .. ROUNDS \subseteq Nat /\ tty \in {0, 1}
        /\ {"forkFailed", "waitFailed"} \subseteq Kinds
    BY RoundKinds
  <1>2. Longer(out, out', kind, k)
    <2>1. out \in Seq(Lines)
      BY DEF TypeOK
    <2>2. \A s \in Seq(Lines) : Longer(s, s \o <<Line(kind, k)>>, kind, k)
      BY <1>1, CountLine
    <2>. QED
      BY <2>1, <2>2
  <1>3. ASSUME NEW r \in 1 .. ROUNDS, NEW other \in Kinds
        PROVE  /\ Copies(other, r) \in Nat
               /\ Copies(other, r)' = Copies(other, r) + (IF other = kind /\ r = k THEN 1 ELSE 0)
    <2>1. /\ Count(out, Line(other, r)) \in Nat
          /\ Count(out', Line(other, r)) =
                Count(out, Line(other, r)) + (IF other = kind /\ r = k THEN 1 ELSE 0)
      BY <1>1, <1>2 DEF Longer
    <2>. QED
      BY <2>1, CopiesAre
  <1>4. ASSUME NEW r \in 1 .. ROUNDS PROVE Told(r)' = Told(r)
    <2>1. CASE tty = 1
      <3>1. Shown = out /\ Shown' = out'
        BY <2>1 DEF Shown
      <3>2. \A other \in {"forkFailed", "waitFailed"} :
                Copies(other, r)' = Copies(other, r)
        BY <1>1, <1>3
      <3>. QED
        BY <3>1, <3>2, CopiesAre DEF Told
    <2>2. CASE tty = 0
      <3>1. Shown' = Shown
        BY <2>2 DEF Shown
      <3>. QED
        BY <3>1 DEF Told
    <2>. QED
      BY <1>1, <2>1, <2>2
  <1>. QED
    BY <1>3, <1>4

\* A step that leaves the texts as they are.
LEMMA NothingSaid ==
    ASSUME UNCHANGED <<out, held, tty>>
    PROVE  \A r \in 1 .. ROUNDS :
              /\ Told(r)' = Told(r) /\ Row(r)' = Row(r)
              /\ Repeated(r) => Repeated(r)'
  <1>1. Shown' = Shown /\ \A kind, r : Copies(kind, r)' = Copies(kind, r)
    BY CopiesAre DEF Shown
  <1>2. \A r \in 1 .. ROUNDS : FailuresAfter(r)' = FailuresAfter(r)
    BY <1>1, FailuresSame
  <1>3. \A r \in 1 .. ROUNDS : Told(r)' = Told(r) /\ Row(r)' = Row(r)
    BY <1>1 DEF Told, Row
  <1>. QED
    BY <1>1, <1>2, <1>3 DEF Repeated

\* The round goes on.
LEMMA RoundGoesOn ==
    ASSUME TypeOK, Rounds, pc \in {"fork", "wait"}, pc' = "wait", UNCHANGED <<k, tty>>,
           \A r \in 1 .. ROUNDS : r # k => Told(r)' = Told(r) /\ Row(r)' = Row(r),
           tty = 0 => \A r \in 1 .. ROUNDS : Repeated(r)',
           Current'
    PROVE  Rounds'
  <1>1. ASSUME NEW r \in 1 .. ROUNDS
        PROVE  /\ r < k => Complete(r)'
               /\ r > k => Fresh(r)'
    <2>1. /\ r < k => Complete(r) /\ r # k
          /\ r > k => Fresh(r) /\ r # k
      BY RoundKinds DEF Rounds
    <2>2. r # k => Told(r)' = Told(r) /\ Row(r)' = Row(r)
      OBVIOUS
    <2>. QED
      BY <2>1, <2>2 DEF Complete, Fresh
  <1>. QED
    BY <1>1 DEF Rounds

\* The round is over.
LEMMA RoundEnds ==
    ASSUME TypeOK, Rounds, Again("fork"), tty' = tty,
           \A r \in 1 .. ROUNDS : r # k => Told(r)' = Told(r) /\ Row(r)' = Row(r),
           tty = 0 => \A r \in 1 .. ROUNDS : Repeated(r)',
           NEW now \in 1 .. ROUNDS, now = k, Complete(now)'
    PROVE  Rounds' /\ pc' \in {"fork", "exit"} /\ (pc' = "exit" => k' = ROUNDS)
  <1>1. /\ k \in 1 .. ROUNDS /\ k \in Nat /\ 1 .. ROUNDS \subseteq Nat /\ ROUNDS \in Nat
        /\ \/ k < ROUNDS /\ pc' = "fork" /\ k' = k + 1
           \/ k = ROUNDS /\ pc' = "exit" /\ k' = k
    BY AgainIs, RoundKinds, Constants
  <1>2. now = k
    OBVIOUS
  <1>3. Complete(now)'
    OBVIOUS
  <1>4. ASSUME NEW r \in 1 .. ROUNDS
        PROVE  /\ r <= now => Complete(r)'
               /\ r > now => Fresh(r)'
    <2>1. /\ r < now => Complete(r)
          /\ r > now => Fresh(r)
      BY <1>1, <1>2 DEF Rounds
    <2>2. r # now => Told(r)' = Told(r) /\ Row(r)' = Row(r)
      BY <1>2
    <2>3. r = now \/ r < now \/ r > now
      BY <1>1
    <2>4. (r < now \/ r > now) => r # now
      BY <1>1
    <2>5. CASE r = now
      BY <1>1, <1>3, <2>5
    <2>6. CASE r < now
      <3>1. Complete(r)' /\ ~(r > now)
        BY <1>1, <2>1, <2>2, <2>4, <2>6 DEF Complete
      <3>. QED
        BY <3>1
    <2>7. CASE r > now
      <3>1. Fresh(r)' /\ ~(r <= now)
        BY <1>1, <2>1, <2>2, <2>4, <2>7 DEF Fresh
      <3>. QED
        BY <3>1
    <2>. QED
      BY <2>3, <2>5, <2>6, <2>7
  <1>5. ASSUME NEW r \in 1 .. ROUNDS
        PROVE  /\ (r < k' \/ (r = k' /\ pc' = "exit")) => Complete(r)'
               /\ (r > k' \/ (r = k' /\ pc' = "fork")) => Fresh(r)'
    <2>1. /\ (r < k' \/ (r = k' /\ pc' = "exit")) => r <= now
          /\ (r > k' \/ (r = k' /\ pc' = "fork")) => r > now
      BY <1>1, <1>2
    <2>. QED
      BY <1>4, <2>1
  <1>. QED
    BY <1>1, <1>5 DEF Rounds

\* In a file, what the parent tells first comes out with a later child.
LEMMA ToldOnce ==
    ASSUME TypeOK, NEW kind \in {"forkFailed", "waitFailed"},
           Says(<<Line(kind, k)>>), tty' = tty, tty = 0,
           NEW now \in 1 .. ROUNDS, now = k, Count(Shown, Line(kind, now)) = 0,
           \A r \in 1 .. ROUNDS : Repeated(r) /\ (r > now => Fresh(r))
    PROVE  \A r \in 1 .. ROUNDS : Repeated(r)'
  <1>1. \A r \in 1 .. ROUNDS :
           /\ \A other \in {"forkFailed", "waitFailed"} :
                 /\ Count(Shown, Line(other, r)) \in Nat
                 /\ Count(Shown', Line(other, r)) =
                       Count(Shown, Line(other, r)) + (IF other = kind /\ r = now THEN 1 ELSE 0)
           /\ \A other \in Kinds :
                 /\ Copies(other, r)' = Copies(other, r)
                 /\ other # kind => Count(held', Line(other, r)) = Count(held, Line(other, r))
    BY ParentTells
  <1>2. {"listing", "announce", "execFailed", "forkFailed", "waitFailed"} \subseteq Kinds
    BY RoundKinds
  <1>3. \A r \in 1 .. ROUNDS : FailuresAfter(r)' = FailuresAfter(r)
    BY <1>1, <1>2, FailuresSame
  <1>4. FailuresAfter(now) = 0
    <2>1. \A r \in now + 1 .. ROUNDS : r \in 1 .. ROUNDS /\ r > now
      BY Constants
    <2>2. \A r \in now + 1 .. ROUNDS : Copies("execFailed", r) = 0
      BY <2>1 DEF Fresh, Row
    <2>. QED
      BY <2>2, NoFailures
  <1>5. ASSUME NEW r \in 1 .. ROUNDS PROVE Repeated(r)'
    <2>1. /\ Copies("forkFailed", r) =
                IF Count(Shown, Line("forkFailed", r)) = 0 THEN 0 ELSE FailuresAfter(r)
          /\ Copies("waitFailed", r) =
                IF Count(Shown, Line("waitFailed", r)) = 0 THEN 0 ELSE FailuresAfter(r)
          /\ \A other \in {"listing", "announce", "execFailed"} :
                Count(held, Line(other, r)) = 0
      BY DEF Repeated, Told
    <2>2. \A other \in {"listing", "announce", "execFailed"} :
              Count(held', Line(other, r)) = 0
      BY <1>1, <1>2, <2>1
    <2>3. ASSUME NEW other \in {"forkFailed", "waitFailed"}
          PROVE  Copies(other, r)' =
                    IF Count(Shown', Line(other, r)) = 0 THEN 0 ELSE FailuresAfter(r)'
      <3>1. /\ Copies(other, r)' = Copies(other, r) /\ FailuresAfter(r)' = FailuresAfter(r)
            /\ Copies(other, r) =
                  IF Count(Shown, Line(other, r)) = 0 THEN 0 ELSE FailuresAfter(r)
        BY <1>1, <1>2, <1>3, <2>1
      <3>2. CASE other = kind /\ r = now
        BY <1>4, <3>1, <3>2
      <3>3. CASE ~(other = kind /\ r = now)
        <4>1. Count(Shown', Line(other, r)) = Count(Shown, Line(other, r))
          BY <1>1, <3>3
        <4>. QED
          BY <3>1, <4>1
      <3>. QED
        BY <3>2, <3>3
    <2>. QED
      BY <2>2, <2>3 DEF Repeated, Told
  <1>. QED
    BY <1>5

LEMMA Ex22Fork ==
    ASSUME IInv, program = "ex22", ForkChild
    PROVE  Ex22Inv'
  <1>1. /\ TypeOK /\ Rounds /\ pc = "fork" /\ pc' = "wait" /\ child = "none"
        /\ UNCHANGED <<k, tty>> /\ k \in 1 .. ROUNDS /\ tty \in {0, 1}
    BY RoundKinds DEF IInv, Ex22Inv, ForkChild, Piped, options
  <1>2. PICK now \in 1 .. ROUNDS : now = k /\ now = k'
    BY <1>1
  <1>3. /\ Told(now) = <<0, 0>> /\ Row(now) = <<0, 0, 0>>
        /\ \A r \in 1 .. ROUNDS : /\ r > now => Fresh(r)
                                  /\ tty = 0 => Repeated(r)
    BY <1>1, <1>2 DEF Rounds, Fresh
  <1>4. CASE child' = "announce" /\ childHeld' = held /\ UNCHANGED <<held, out>>
    <2>1. \A r \in 1 .. ROUNDS : /\ Told(r)' = Told(r) /\ Row(r)' = Row(r)
                                 /\ Repeated(r) => Repeated(r)'
      BY <1>1, <1>4, NothingSaid
    <2>2. Told(now)' = <<0, 0>> /\ Row(now)' = <<0, 0, 0>>
      BY <1>3, <2>1
    <2>3. Current'
      BY <1>2, <1>4, <2>2 DEF Current, At, Told, Row
    <2>4. Rounds'
      BY <1>1, <1>3, <2>1, <2>3, RoundGoesOn
    <2>. QED
      BY <1>1, <2>4 DEF Ex22Inv
  <1>5. CASE Says(<<Line("forkFailed", k)>>) /\ UNCHANGED <<child, childHeld>>
    <2>1. \A r \in 1 .. ROUNDS :
              /\ Row(r)' = Row(r)
              /\ \A other \in {"forkFailed", "waitFailed"} :
                    /\ Count(Shown, Line(other, r)) \in Nat
                    /\ Count(Shown', Line(other, r)) =
                          Count(Shown, Line(other, r)) + (IF other = "forkFailed" /\ r = k THEN 1 ELSE 0)
      BY <1>1, <1>5, ParentTells
    <2>2. Count(Shown, Line("forkFailed", now)) = 0 /\ Count(Shown, Line("waitFailed", now)) = 0
      BY <1>3 DEF Told
    <2>3. Told(now)' = <<1, 0>> /\ Row(now)' = <<0, 0, 0>>
      <3>1. /\ Count(Shown', Line("forkFailed", now)) = 0 + 1
            /\ Count(Shown', Line("waitFailed", now)) = 0 + 0
        BY <1>2, <2>1, <2>2
      <3>. QED
        BY <1>3, <2>1, <3>1 DEF Told
    <2>4. \A r \in 1 .. ROUNDS : r # k => Told(r)' = Told(r) /\ Row(r)' = Row(r)
      <3>1. ASSUME NEW r \in 1 .. ROUNDS, r # k
            PROVE  /\ Count(Shown', Line("forkFailed", r)) = Count(Shown, Line("forkFailed", r))
                   /\ Count(Shown', Line("waitFailed", r)) = Count(Shown, Line("waitFailed", r))
        BY <2>1, <3>1
      <3>. QED
        BY <2>1, <3>1 DEF Told
    <2>5. Current'
      BY <1>1, <1>2, <1>5, <2>3 DEF Current, At, Told, Row
    <2>6. tty = 0 => \A r \in 1 .. ROUNDS : Repeated(r)'
      BY <1>1, <1>2, <1>3, <1>5, <2>2, ToldOnce
    <2>7. Rounds'
      BY <1>1, <2>4, <2>5, <2>6, RoundGoesOn
    <2>. QED
      BY <1>1, <2>7 DEF Ex22Inv
  <1>. QED
    BY <1>4, <1>5 DEF ForkChild

LEMMA Ex22Wait ==
    ASSUME IInv, program = "ex22", Wait
    PROVE  Ex22Inv'
  <1>1. /\ TypeOK /\ Rounds /\ Current /\ pc = "wait" /\ child' = "none" /\ Again("fork")
        /\ tty' = tty /\ k \in 1 .. ROUNDS /\ tty \in {0, 1}
    BY RoundKinds DEF IInv, Ex22Inv, Rounds, Wait, Piped, options
  <1>2. PICK now \in 1 .. ROUNDS : now = k
    BY <1>1
  <1>3. \A r \in 1 .. ROUNDS : /\ r > now => Fresh(r)
                               /\ tty = 0 => Repeated(r)
    BY <1>1, <1>2 DEF Rounds
  <1>4. ASSUME Rounds', pc' \in {"fork", "exit"}, pc' = "exit" => k' = ROUNDS
        PROVE  Ex22Inv'
    BY <1>1, <1>4 DEF Ex22Inv
  <1>5. CASE child = "zombie" /\ UNCHANGED <<held, out>>
    <2>1. \A r \in 1 .. ROUNDS : /\ Told(r)' = Told(r) /\ Row(r)' = Row(r)
                                 /\ Repeated(r) => Repeated(r)'
      BY <1>1, <1>5, NothingSaid
    <2>2. Told(now) = <<0, 0>> /\ Row(now) \in {<<1, tty, 0>>, <<0, 1, 1>>}
      BY <1>1, <1>2, <1>5 DEF Current, At
    <2>3. Complete(now)'
      BY <1>1, <2>1, <2>2 DEF Complete
    <2>. QED
      BY <1>1, <1>2, <1>3, <1>4, <2>1, <2>3, RoundEnds
  <1>6. CASE child = "none" /\ Says(<<Line("waitFailed", k)>>)
    <2>1. \A r \in 1 .. ROUNDS :
              /\ Row(r)' = Row(r)
              /\ \A other \in {"forkFailed", "waitFailed"} :
                    /\ Count(Shown, Line(other, r)) \in Nat
                    /\ Count(Shown', Line(other, r)) =
                          Count(Shown, Line(other, r)) + (IF other = "waitFailed" /\ r = k THEN 1 ELSE 0)
      BY <1>1, <1>6, ParentTells
    <2>2. Told(now) = <<1, 0>> /\ Row(now) = <<0, 0, 0>>
      BY <1>1, <1>2, <1>6 DEF Current, At
    <2>3. Count(Shown, Line("forkFailed", now)) = 1 /\ Count(Shown, Line("waitFailed", now)) = 0
      BY <2>2 DEF Told
    <2>4. Complete(now)'
      <3>1. /\ Count(Shown', Line("forkFailed", now)) = 1 + 0
            /\ Count(Shown', Line("waitFailed", now)) = 0 + 1
        BY <1>2, <2>1, <2>3
      <3>2. Told(now)' = <<1, 1>> /\ Row(now)' = <<0, 0, 0>>
        BY <2>1, <2>2, <3>1 DEF Told
      <3>. QED
        BY <3>2 DEF Complete
    <2>5. \A r \in 1 .. ROUNDS : r # k => Told(r)' = Told(r) /\ Row(r)' = Row(r)
      <3>1. ASSUME NEW r \in 1 .. ROUNDS, r # k
            PROVE  /\ Count(Shown', Line("forkFailed", r)) = Count(Shown, Line("forkFailed", r))
                   /\ Count(Shown', Line("waitFailed", r)) = Count(Shown, Line("waitFailed", r))
        BY <2>1, <3>1
      <3>. QED
        BY <2>1, <3>1 DEF Told
    <2>6. tty = 0 => \A r \in 1 .. ROUNDS : Repeated(r)'
      BY <1>1, <1>2, <1>3, <1>6, <2>3, ToldOnce
    <2>. QED
      BY <1>1, <1>2, <1>4, <2>4, <2>5, <2>6, RoundEnds
  <1>. QED
    BY <1>5, <1>6 DEF Wait

\* A child's line that is out at once.
LEMMA Ex22Brings ==
    ASSUME IInv, program = "ex22", pc = "wait",
           NEW kind \in {"listing", "announce", "execFailed"},
           out' = out \o <<Line(kind, k)>>, UNCHANGED <<held, tty, k, pc>>,
           kind = "listing" \/ tty = 1, Told(k) = <<0, 0>>,
           NEW now \in 1 .. ROUNDS, now = k,
           (/\ Told(now)' = <<0, 0>>
            /\ Row(now)' = <<Row(k)[1] + (IF kind = "listing" THEN 1 ELSE 0),
                             Row(k)[2] + (IF kind = "announce" THEN 1 ELSE 0),
                             Row(k)[3] + (IF kind = "execFailed" THEN 1 ELSE 0)>>) => Current'
    PROVE  Ex22Inv'
  <1>1. TypeOK /\ Rounds /\ tty \in {0, 1}
    BY RoundKinds DEF IInv, Ex22Inv
  <1>2. \A r \in 1 .. ROUNDS :
              /\ Told(r)' = Told(r)
              /\ \A other \in Kinds :
                    /\ Copies(other, r) \in Nat
                    /\ Copies(other, r)' = Copies(other, r) + (IF other = kind /\ r = now THEN 1 ELSE 0)
    BY <1>1, ChildBrings
  <1>3. {"listing", "announce", "execFailed", "forkFailed", "waitFailed"} \subseteq Kinds
    BY RoundKinds
  <1>4. Current'
    <2>1. Told(now)' = <<0, 0>>
      BY <1>2
    <2>2. /\ Copies("listing", now)' = Row(now)[1] + (IF kind = "listing" THEN 1 ELSE 0)
          /\ Copies("announce", now)' = Row(now)[2] + (IF kind = "announce" THEN 1 ELSE 0)
          /\ Copies("execFailed", now)' = Row(now)[3] + (IF kind = "execFailed" THEN 1 ELSE 0)
      BY <1>2, <1>3 DEF Row
    <2>3. Row(now)' = <<Row(k)[1] + (IF kind = "listing" THEN 1 ELSE 0),
                        Row(k)[2] + (IF kind = "announce" THEN 1 ELSE 0),
                        Row(k)[3] + (IF kind = "execFailed" THEN 1 ELSE 0)>>
      <3>1. Row(now)' = <<Copies("listing", now)', Copies("announce", now)',
                          Copies("execFailed", now)'>>
        BY DEF Row
      <3>2. Row(now) = Row(k)
        OBVIOUS
      <3>. QED
        BY <2>2, <3>1, <3>2
    <2>. QED
      BY <2>1, <2>3
  <1>5. ASSUME NEW r \in 1 .. ROUNDS, NEW other \in Kinds, r # now \/ other # kind
        PROVE  Copies(other, r)' = Copies(other, r)
    BY <1>2, <1>5
  <1>6. \A r \in 1 .. ROUNDS : r # k => Told(r)' = Told(r) /\ Row(r)' = Row(r)
    BY <1>2, <1>3, <1>5 DEF Row
  <1>7. tty = 0 => \A r \in 1 .. ROUNDS : Repeated(r)'
    <2>1. ASSUME tty = 0
          PROVE  \A r \in 1 .. ROUNDS : Repeated(r)'
      <3>1. \A r \in 1 .. ROUNDS : \A other \in {"execFailed", "forkFailed", "waitFailed"} :
                Copies(other, r)' = Copies(other, r)
        BY <1>3, <1>5, <2>1
      <3>2. \A r \in 1 .. ROUNDS : FailuresAfter(r)' = FailuresAfter(r)
        BY <3>1, FailuresSame
      <3>3. \A r \in 1 .. ROUNDS : Repeated(r)
        BY <1>1, <2>1 DEF Rounds
      <3>. QED
        BY <1>2, <3>1, <3>2, <3>3 DEF Repeated
    <2>. QED
      BY <2>1
  <1>8. Rounds'
    BY <1>1, <1>4, <1>6, <1>7, RoundGoesOn
  <1>. QED
    BY <1>8 DEF Ex22Inv

\* A child's step that brings nothing out.
LEMMA Ex22Silent ==
    ASSUME IInv, program = "ex22", pc = "wait", UNCHANGED <<out, held, tty, k, pc>>,
           NEW now \in 1 .. ROUNDS, now = k,
           Told(now)' = Told(k) /\ Row(now)' = Row(k) => Current'
    PROVE  Ex22Inv'
  <1>1. TypeOK /\ Rounds
    BY DEF IInv, Ex22Inv
  <1>2. \A r \in 1 .. ROUNDS : /\ Told(r)' = Told(r) /\ Row(r)' = Row(r)
                               /\ Repeated(r) => Repeated(r)'
    BY NothingSaid
  <1>3. Current'
    BY <1>2
  <1>4. tty = 0 => \A r \in 1 .. ROUNDS : Repeated(r)'
    BY <1>1, <1>2 DEF Rounds
  <1>5. Rounds'
    BY <1>1, <1>2, <1>3, <1>4, RoundGoesOn
  <1>. QED
    BY <1>5 DEF Ex22Inv

LEMMA Ex22Child ==
    ASSUME IInv, program = "ex22", Announce \/ ChildExec \/ List
    PROVE  Ex22Inv'
  <1>1. /\ TypeOK /\ ~Piped /\ k \in 1 .. ROUNDS /\ k \in Nat /\ tty \in {0, 1}
        /\ pc = "wait" /\ Current /\ UNCHANGED <<held, tty, k, pc>>
        /\ out \in Seq(Lines) /\ childHeld \in Seq(Lines)
    <2>1. /\ TypeOK /\ child # "none" /\ ~Piped /\ Ex22Inv
          /\ UNCHANGED <<held, tty, k, pc>>
      BY DEF IInv, Announce, ChildExec, List, Piped, options, parent
    <2>. QED
      BY <2>1, RoundKinds DEF Ex22Inv, Rounds, TypeOK
  <1>2. PICK now \in 1 .. ROUNDS : now = k /\ now = k'
    BY <1>1
  <1>3. {"listing", "announce", "execFailed"} \subseteq Kinds
    BY RoundKinds
  <1>4. CASE Announce
    <2>1. /\ child = "announce" /\ child' = "exec" /\ ChildSays(Line("announce", k))
          /\ Told(k) = <<0, 0>> /\ Row(k) = <<0, 0, 0>> /\ childHeld = held
      BY <1>1, <1>4 DEF Announce, Current, At
    <2>2. Line("announce", k) \in Lines
      BY <1>1, <1>3, LinesAre
    <2>3. CASE tty = 1
      <3>1. out' = out \o <<Line("announce", k)>>
        BY <1>1, <2>1, <2>2, <2>3, ChildSaysIs
      <3>2. ASSUME Told(now)' = <<0, 0>>, Row(now)' = <<0, 1, 0>>
            PROVE  Current'
        BY <1>1, <1>2, <2>1, <2>3, <3>2 DEF Current, At, Told, Row
      <3>. QED
        BY <1>1, <1>2, <2>1, <2>3, <3>1, <3>2, Ex22Brings
    <2>4. CASE tty = 0
      <3>1. out' = out /\ childHeld' = Append(held, Line("announce", k))
        BY <1>1, <2>1, <2>2, <2>4, ChildSaysIs
      <3>2. ASSUME Told(now)' = <<0, 0>>, Row(now)' = <<0, 0, 0>>
            PROVE  Current'
        BY <1>1, <1>2, <2>1, <2>4, <3>1, <3>2 DEF Current, At, Told, Row
      <3>. QED
        BY <1>1, <1>2, <2>1, <3>1, <3>2, Ex22Silent
    <2>. QED
      BY <1>1, <2>3, <2>4
  <1>5. CASE ChildExec
    <2>1. /\ child = "exec"
          /\ Told(k) = <<0, 0>> /\ Row(k) = <<0, tty, 0>>
          /\ tty = 0 => childHeld = Append(held, Line("announce", k))
      BY <1>1, <1>5 DEF ChildExec, Current, At
    <2>2. Line("execFailed", k) \in Lines
      BY <1>1, <1>3, LinesAre
    <2>3. CASE child' = "image" /\ childHeld' = <<>> /\ UNCHANGED out
      <3>1. ASSUME Told(now)' = <<0, 0>>, Row(now)' = <<0, tty, 0>>
            PROVE  Current'
        BY <1>1, <1>2, <2>3, <3>1 DEF Current, At, Told, Row
      <3>. QED
        BY <1>1, <1>2, <2>1, <2>3, <3>1, Ex22Silent
    <2>4. CASE child' = "exit" /\ ChildSays(Line("execFailed", k)) /\ tty = 1
      <3>1. out' = out \o <<Line("execFailed", k)>>
        BY <1>1, <2>2, <2>4, ChildSaysIs
      <3>2. ASSUME Told(now)' = <<0, 0>>, Row(now)' = <<0, 1, 1>>
            PROVE  Current'
        BY <1>1, <1>2, <2>4, <3>2 DEF Current, At, Told, Row
      <3>. QED
        BY <1>1, <1>2, <2>1, <2>4, <3>1, <3>2, Ex22Brings
    <2>5. CASE child' = "exit" /\ ChildSays(Line("execFailed", k)) /\ tty = 0
      <3>1. /\ out' = out
            /\ childHeld' = Append(Append(held, Line("announce", k)), Line("execFailed", k))
        BY <1>1, <2>1, <2>2, <2>5, ChildSaysIs
      <3>2. ASSUME Told(now)' = <<0, 0>>, Row(now)' = <<0, 0, 0>>
            PROVE  Current'
        BY <1>1, <1>2, <2>5, <3>1, <3>2 DEF Current, At, Told, Row
      <3>. QED
        BY <1>1, <1>2, <2>1, <2>5, <3>1, <3>2, Ex22Silent
    <2>. QED
      BY <1>1, <1>5, <2>3, <2>4, <2>5 DEF ChildExec
  <1>6. CASE List
    <2>1. /\ child = "image" /\ child' = "zombie" /\ out' = Append(out, Line("listing", k))
          /\ Told(k) = <<0, 0>> /\ Row(k) = <<0, tty, 0>>
      BY <1>1, <1>6 DEF List, Current, At
    <2>2. out' = out \o <<Line("listing", k)>>
      <3>1. Line("listing", k) \in Lines
        BY <1>1, <1>3, LinesAre
      <3>. QED
        BY <1>1, <2>1, <3>1, CountMore
    <2>3. ASSUME Told(now)' = <<0, 0>>, Row(now)' = <<1, tty, 0>>
          PROVE  Current'
      BY <1>1, <1>2, <2>1, <2>3 DEF Current, At, Told, Row
    <2>. QED
      BY <1>1, <1>2, <2>1, <2>2, <2>3, Ex22Brings
  <1>. QED
    BY <1>4, <1>5, <1>6

\* A child that exits brings out all it held, a copy of what its parent holds among it.
LEMMA Ex22Flush ==
    ASSUME IInv, program = "ex22", tty = 0, Rounds, Told(k) = <<0, 0>>, Row(k) = <<0, 0, 0>>,
           childHeld = Append(Append(held, Line("announce", k)), Line("execFailed", k)),
           out' = out \o childHeld, UNCHANGED <<held, tty>>,
           NEW now \in 1 .. ROUNDS, now = k, \A r \in 1 .. ROUNDS : r > now => Fresh(r)
    PROVE  \A r \in 1 .. ROUNDS :
              /\ Told(r)' = Told(r) /\ Repeated(r)'
              /\ Row(r)' = IF r = now THEN <<0, 1, 1>> ELSE Row(r)
  <1>1. /\ TypeOK /\ k \in Nat /\ out \in Seq(Lines) /\ held \in Seq(Lines)
        /\ 1 .. ROUNDS \subseteq Nat
        /\ {"listing", "announce", "execFailed", "forkFailed", "waitFailed"} \subseteq Kinds
    BY RoundKinds DEF IInv, TypeOK
  <1>2. PICK mid \in Seq(Lines) : mid = held \o <<Line("announce", k)>>
                                  /\ mid = Append(held, Line("announce", k))
    <2>1. Line("announce", k) \in Lines
      BY <1>1, LinesAre
    <2>. QED
      BY <1>1, <2>1, CountMore
  <1>3. PICK all \in Seq(Lines) : all = mid \o <<Line("execFailed", k)>> /\ all = childHeld
    <2>1. Line("execFailed", k) \in Lines
      BY <1>1, LinesAre
    <2>2. childHeld = Append(mid, Line("execFailed", k))
      BY <1>2
    <2>. QED
      BY <2>1, <2>2, CountMore
  <1>4. Longer(held, mid, "announce", k) /\ Longer(mid, all, "execFailed", k)
    <2>1. "announce" \in Kinds /\ "execFailed" \in Kinds
      BY <1>1
    <2>2. \A s \in Seq(Lines) : /\ Longer(s, s \o <<Line("announce", k)>>, "announce", k)
                                /\ Longer(s, s \o <<Line("execFailed", k)>>, "execFailed", k)
      BY <1>1, <2>1, CountLine
    <2>. QED
      BY <1>1, <1>2, <1>3, <2>2
  <1>5. ASSUME NEW r \in 1 .. ROUNDS, NEW other \in Kinds
        PROVE  /\ Count(held, Line(other, r)) \in Nat /\ Copies(other, r) \in Nat
               /\ Copies(other, r)' =
                     Copies(other, r) + Count(held, Line(other, r))
                     + (IF r = now /\ other \in {"announce", "execFailed"} THEN 1 ELSE 0)
    <2>1. out' = out \o all
      BY <1>3
    <2>2. Count(out', Line(other, r)) = Count(out, Line(other, r)) + Count(all, Line(other, r))
      <3>1. out \in Seq(Lines) /\ all \in Seq(Lines)
        BY <1>1
      <3>2. \A l : Count(out \o all, l) = Count(out, l) + Count(all, l)
        BY <3>1, CountConcat
      <3>. QED
        BY <2>1, <3>2
    <2>3. /\ Count(held, Line(other, r)) \in Nat
          /\ Count(all, Line(other, r)) =
                Count(held, Line(other, r))
                + (IF r = now /\ other \in {"announce", "execFailed"} THEN 1 ELSE 0)
      <3>1. other \in Kinds /\ r \in Nat
        BY <1>1
      <3>2. /\ Count(held, Line(other, r)) \in Nat
            /\ Count(mid, Line(other, r)) =
                  Count(held, Line(other, r)) + (IF other = "announce" /\ r = now THEN 1 ELSE 0)
        BY <1>4, <3>1 DEF Longer
      <3>3. Count(all, Line(other, r)) =
               Count(mid, Line(other, r)) + (IF other = "execFailed" /\ r = now THEN 1 ELSE 0)
        BY <1>4, <3>1 DEF Longer
      <3>. QED
        BY <3>2, <3>3
    <2>4. Count(out, Line(other, r)) \in Nat
      BY <1>1, CountMore, PlacesFinite
    <2>5. Copies(other, r) = Count(out, Line(other, r))
          /\ Copies(other, r)' = Count(out', Line(other, r))
      BY CopiesAre
    <2>. QED
      BY <2>2, <2>3, <2>4, <2>5
  <1>6. Shown' = Shown /\ Shown = held
    BY DEF Shown
  <1>7. \A r \in 1 .. ROUNDS : Told(r)' = Told(r)
    BY <1>6 DEF Told
  <1>8. ASSUME NEW r \in 1 .. ROUNDS, NEW other \in {"listing", "announce", "execFailed"}
        PROVE  Copies(other, r)' =
                  IF r = now /\ other # "listing" THEN 1 ELSE Copies(other, r)
    <2>1. Count(held, Line(other, r)) = 0
      BY DEF Rounds, Repeated
    <2>2. r = now => Copies(other, r) = 0
      BY DEF Row
    <2>3. other \in Kinds
      BY <1>1
    <2>4. /\ Copies(other, r) \in Nat
          /\ Copies(other, r)' =
                Copies(other, r) + Count(held, Line(other, r))
                + (IF r = now /\ other \in {"announce", "execFailed"} THEN 1 ELSE 0)
      BY <1>5, <2>3
    <2>5. other # "listing" <=> other \in {"announce", "execFailed"}
      OBVIOUS
    <2>. QED
      BY <2>1, <2>2, <2>4, <2>5
  <1>9. ASSUME NEW r \in 1 .. ROUNDS
        PROVE  Row(r)' = IF r = now THEN <<0, 1, 1>> ELSE Row(r)
    <2>1. CASE r = now
      <3>1. Copies("listing", r) = 0
        BY <2>1 DEF Row
      <3>. QED
        BY <1>8, <2>1, <3>1 DEF Row
    <2>2. CASE r # now
      BY <1>8, <2>2 DEF Row
    <2>. QED
      BY <2>1, <2>2
  <1>10. \A r \in 1 .. ROUNDS :
            FailuresAfter(r)' = FailuresAfter(r) + (IF r < now THEN 1 ELSE 0)
    <2>1. Copies("execFailed", now) = 0
      BY DEF Row
    <2>2. Copies("execFailed", now)' = 1
      BY <1>8
    <2>3. \A s \in 1 .. ROUNDS : s # now => Copies("execFailed", s)' = Copies("execFailed", s)
      BY <1>8
    <2>. QED
      BY <2>1, <2>2, <2>3, OneMoreFailure
  <1>11. ASSUME NEW r \in 1 .. ROUNDS PROVE Repeated(r)'
    <2>1. /\ Copies("forkFailed", r) =
                IF Count(Shown, Line("forkFailed", r)) = 0 THEN 0 ELSE FailuresAfter(r)
          /\ Copies("waitFailed", r) =
                IF Count(Shown, Line("waitFailed", r)) = 0 THEN 0 ELSE FailuresAfter(r)
          /\ \A other \in {"listing", "announce", "execFailed"} :
                Count(held, Line(other, r)) = 0
      BY DEF Rounds, Repeated, Told
    <2>2. \/ Count(Shown, Line("forkFailed", r)) = 0 /\ Count(Shown, Line("waitFailed", r)) = 0
          \/ /\ r < now
             /\ Count(Shown, Line("forkFailed", r)) = 1 /\ Count(Shown, Line("waitFailed", r)) = 1
      <3>1. CASE r < now
        <4>1. Told(r) \in {<<0, 0>>, <<1, 1>>}
          BY <3>1 DEF Rounds, Complete
        <4>. QED
          BY <3>1, <4>1 DEF Told
      <3>2. CASE r = now
        BY <3>2 DEF Told
      <3>3. CASE r > now
        BY <3>3 DEF Fresh, Told
      <3>. QED
        BY <1>1, <3>1, <3>2, <3>3
    <2>3. ASSUME NEW other \in {"forkFailed", "waitFailed"}
          PROVE  Copies(other, r)' =
                    IF Count(Shown', Line(other, r)) = 0 THEN 0 ELSE FailuresAfter(r)'
      <3>1. /\ Copies(other, r)' = Copies(other, r) + Count(Shown, Line(other, r))
            /\ Copies(other, r) \in Nat /\ Count(Shown, Line(other, r)) \in Nat
        <4>1. other \in Kinds /\ other \notin {"announce", "execFailed"}
          BY <1>1
        <4>2. /\ Count(held, Line(other, r)) \in Nat /\ Copies(other, r) \in Nat
              /\ Copies(other, r)' =
                    Copies(other, r) + Count(held, Line(other, r))
                    + (IF r = now /\ other \in {"announce", "execFailed"} THEN 1 ELSE 0)
          BY <1>5, <4>1
        <4>. QED
          BY <1>6, <4>1, <4>2
      <3>2. Copies(other, r) =
               IF Count(Shown, Line(other, r)) = 0 THEN 0 ELSE FailuresAfter(r)
        BY <2>1
      <3>3. FailuresAfter(r) \in Nat
        BY FailuresCount
      <3>4. CASE Count(Shown, Line(other, r)) = 0
        BY <1>6, <3>1, <3>2, <3>4
      <3>5. CASE r < now /\ Count(Shown, Line(other, r)) = 1
        BY <1>6, <1>10, <3>1, <3>2, <3>3, <3>5
      <3>. QED
        BY <2>2, <3>4, <3>5
    <2>4. \A other \in {"listing", "announce", "execFailed"} :
              Count(held', Line(other, r)) = 0
      BY <2>1
    <2>. QED
      BY <2>3, <2>4 DEF Repeated, Told
  <1>. QED
    BY <1>7, <1>9, <1>11

LEMMA Ex22ChildExit ==
    ASSUME IInv, program = "ex22", ChildExit
    PROVE  Ex22Inv'
  <1>1. /\ TypeOK /\ ~Piped /\ k \in 1 .. ROUNDS /\ tty \in {0, 1}
        /\ pc = "wait" /\ Current /\ Rounds /\ UNCHANGED <<held, tty, k, pc>>
        /\ child = "exit" /\ child' = "zombie" /\ out' = out \o childHeld
        /\ out \in Seq(Lines) /\ (tty = 1 => childHeld = <<>>)
    <2>1. /\ TypeOK /\ child = "exit" /\ child' = "zombie" /\ ~Piped /\ Ex22Inv
          /\ UNCHANGED <<held, tty, k, pc>> /\ out' = out \o childHeld
      BY DEF IInv, ChildExit, Piped, options, parent
    <2>. QED
      BY <2>1, RoundKinds DEF Ex22Inv, Rounds, TypeOK
  <1>2. PICK now \in 1 .. ROUNDS : now = k /\ now = k'
    BY <1>1
  <1>3. /\ Told(k) = <<0, 0>> /\ Row(k) = <<0, tty, tty>>
        /\ tty = 0 => childHeld = Append(Append(held, Line("announce", k)), Line("execFailed", k))
    BY <1>1 DEF Current, At
  <1>4. ASSUME Told(now)' = <<0, 0>>, Row(now)' = <<0, 1, 1>>
        PROVE  Current'
    BY <1>1, <1>2, <1>4 DEF Current, At, Told, Row
  <1>5. CASE tty = 1
    <2>1. out' = out
      BY <1>1, <1>5, ConcatEmptySeq
    <2>. QED
      BY <1>1, <1>2, <1>3, <1>4, <1>5, <2>1, Ex22Silent
  <1>6. CASE tty = 0
    <2>1. \A r \in 1 .. ROUNDS : r > now => Fresh(r)
      BY <1>1, <1>2 DEF Rounds
    <2>2. \A r \in 1 .. ROUNDS :
              /\ Told(r)' = Told(r) /\ Repeated(r)'
              /\ Row(r)' = IF r = now THEN <<0, 1, 1>> ELSE Row(r)
      BY <1>1, <1>2, <1>3, <1>6, <2>1, Ex22Flush
    <2>3. Current'
      BY <1>2, <1>3, <1>4, <2>2
    <2>4. Rounds'
      BY <1>1, <1>2, <2>2, <2>3, RoundGoesOn
    <2>. QED
      BY <1>1, <2>4 DEF Ex22Inv
  <1>. QED
    BY <1>1, <1>5, <1>6

LEMMA Ex22Exit ==
    ASSUME IInv, program = "ex22", Exit
    PROVE  Ex22Inv'
  <1>1. /\ TypeOK /\ Rounds /\ k = ROUNDS /\ pc = "exit" /\ pc' = "done" /\ child' = "none"
        /\ tty' = tty /\ tty \in {0, 1} /\ out' = out \o held
        /\ out \in Seq(Lines) /\ held \in Seq(Lines)
        /\ tty = 1 => held = <<>>
    BY RoundKinds DEF IInv, Ex22Inv, Exit, children, options, TypeOK
  <1>2. /\ 1 .. ROUNDS \subseteq Nat /\ ROUNDS \in Nat
        /\ {"listing", "announce", "execFailed", "forkFailed", "waitFailed"} \subseteq Kinds
    BY RoundKinds, Constants
  <1>3. \A r \in 1 .. ROUNDS : Complete(r)
    <2>1. \A r \in 1 .. ROUNDS : r < k \/ r = k
      BY <1>1, <1>2
    <2>. QED
      BY <1>1, <2>1 DEF Rounds
  <1>4. CASE tty = 1
    <2>1. out' = out /\ Shown = out
      BY <1>1, <1>4, ConcatEmptySeq DEF Shown
    <2>2. ASSUME NEW r \in 1 .. ROUNDS
          PROVE  <<Copies("listing", r)', Copies("announce", r)', Copies("execFailed", r)',
                   Copies("forkFailed", r)', Copies("waitFailed", r)'>> \in
                     {<<1, tty, 0, 0, 0>>, <<0, 1, 1, 0, 0>>, <<0, 0, 0, 1, 1>>}
      <3>1. \A kind : Copies(kind, r)' = Copies(kind, r)
        BY <2>1, CopiesAre
      <3>2. Told(r) = <<Copies("forkFailed", r), Copies("waitFailed", r)>>
        BY <2>1, CopiesAre DEF Told
      <3>3. Complete(r)
        BY <1>3
      <3>. QED
        BY <3>1, <3>2, <3>3 DEF Complete, Row
    <2>3. Ex22Printed'
      BY <1>1, <1>4, <2>2 DEF Ex22Printed
    <2>. QED
      BY <1>1, <2>3 DEF Ex22Inv
  <1>5. CASE tty = 0
    <2>1. \A r \in 1 .. ROUNDS : Repeated(r)
      BY <1>1, <1>5 DEF Rounds
    <2>2. Shown = held
      BY <1>5 DEF Shown
    <2>3. ASSUME NEW r \in 1 .. ROUNDS, NEW other \in Kinds
          PROVE  /\ Copies(other, r) \in Nat /\ Count(held, Line(other, r)) \in Nat
                 /\ Copies(other, r)' = Copies(other, r) + Count(held, Line(other, r))
      <3>1. /\ Count(out, Line(other, r)) \in Nat /\ Count(held, Line(other, r)) \in Nat
            /\ Count(out \o held, Line(other, r)) =
                  Count(out, Line(other, r)) + Count(held, Line(other, r))
        <4>1. out \in Seq(Lines) /\ held \in Seq(Lines)
          BY <1>1
        <4>. QED
          BY <4>1, CountConcat, PlacesFinite
      <3>. QED
        BY <1>1, <3>1, CopiesAre
    <2>4. ASSUME NEW r \in 1 .. ROUNDS, NEW other \in {"listing", "announce", "execFailed"}
          PROVE  Copies(other, r)' = Copies(other, r)
      <3>1. Count(held, Line(other, r)) = 0 /\ other \in Kinds
        BY <1>2, <2>1 DEF Repeated
      <3>. QED
        BY <2>3, <3>1
    <2>5. \A r \in 1 .. ROUNDS : FailuresAfter(r)' = FailuresAfter(r)
      BY <2>4, FailuresSame
    <2>6. ASSUME NEW r \in 1 .. ROUNDS
          PROVE  <<Copies("listing", r)', Copies("announce", r)', Copies("execFailed", r)',
                   Copies("forkFailed", r)', Copies("waitFailed", r)'>> \in
                     {<<1, tty, 0, 0, 0>>, <<0, 1, 1, 0, 0>>,
                      <<0, 0, 0, 1 + FailuresAfter(r)', 1 + FailuresAfter(r)'>>}
      <3>1. /\ Copies("forkFailed", r) =
                  IF Count(held, Line("forkFailed", r)) = 0 THEN 0 ELSE FailuresAfter(r)
            /\ Copies("waitFailed", r) =
                  IF Count(held, Line("waitFailed", r)) = 0 THEN 0 ELSE FailuresAfter(r)
            /\ Told(r) = <<Count(held, Line("forkFailed", r)), Count(held, Line("waitFailed", r))>>
        BY <2>1, <2>2 DEF Repeated, Told
      <3>2. /\ Copies("forkFailed", r)' = Copies("forkFailed", r) + Count(held, Line("forkFailed", r))
            /\ Copies("waitFailed", r)' = Copies("waitFailed", r) + Count(held, Line("waitFailed", r))
            /\ FailuresAfter(r) \in Nat /\ FailuresAfter(r)' = FailuresAfter(r)
        BY <1>2, <2>3, <2>5, FailuresCount
      <3>3. /\ Copies("listing", r)' = Row(r)[1] /\ Copies("announce", r)' = Row(r)[2]
            /\ Copies("execFailed", r)' = Row(r)[3]
        BY <2>4 DEF Row
      <3>4. CASE Told(r) = <<0, 0>> /\ Row(r) \in {<<1, tty, 0>>, <<0, 1, 1>>}
        <4>1. Copies("forkFailed", r)' = 0 /\ Copies("waitFailed", r)' = 0
          BY <3>1, <3>2, <3>4
        <4>. QED
          BY <3>3, <3>4, <4>1
      <3>5. CASE Told(r) = <<1, 1>> /\ Row(r) = <<0, 0, 0>>
        <4>1. /\ Copies("forkFailed", r)' = 1 + FailuresAfter(r)'
              /\ Copies("waitFailed", r)' = 1 + FailuresAfter(r)'
          BY <3>1, <3>2, <3>5
        <4>. QED
          BY <3>3, <3>5, <4>1
      <3>. QED
        BY <1>3, <3>4, <3>5 DEF Complete
    <2>7. Ex22Printed'
      BY <1>1, <1>5, <2>6 DEF Ex22Printed
    <2>. QED
      BY <1>1, <2>7 DEF Ex22Inv
  <1>. QED
    BY <1>1, <1>4, <1>5

LEMMA Ex22Keeps ==
    ASSUME IInv, Next, program = "ex22"
    PROVE  Ex22Inv'
  <1>1. ~Piped /\ pc \in {"fork", "wait", "exit", "done"}
    BY DEF IInv, Ex22Inv, Piped
  <1>2. ForkChild \/ Wait \/ Exit \/ Announce \/ ChildExec \/ List \/ ChildExit
    BY <1>1 DEF Next, ParentStep, ChildStep, Exec, Image, MakePipe, CloseWriteEnd, ReadPipe,
                EndOfPipe, Popen, Pclose
  <1>. QED
    BY <1>2, Ex22Fork, Ex22Wait, Ex22Exit, Ex22Child, Ex22ChildExit

-----------------------------------------------------------------------------
(* The theorems.                                                           *)

LEMMA InitHolds == Init => IInv
  <1>. SUFFICES ASSUME Init PROVE IInv
    OBVIOUS
  <1>1. /\ program \in {"ex21", "ex22", "ex23"} /\ program \in Programs /\ tty \in {0, 1}
        /\ k = 1 /\ 1 \in 1 .. ROUNDS /\ 0 \in 0 .. LISTING
        /\ held = <<>> /\ child = "none" /\ childHeld = <<>> /\ listed = 0
        /\ writeEnd = 0 /\ pipe = <<>> /\ out = <<>> /\ <<>> \in Seq(Lines)
    BY Constants, EmptySeq DEF Init, AllPrograms
  <1>2. /\ program = "ex21" => pc = "exec"
        /\ program = "ex22" => pc = "fork"
        /\ program = "ex23" => pc = "pipe"
    BY <1>1 DEF Init
  <1>3. TypeOK
    <2>1. pc \in {"exec", "fork", "pipe"}
      BY <1>1, <1>2
    <2>. QED
      BY <1>1, <2>1 DEF TypeOK
  <1>4. Shown = <<>>
    BY <1>1 DEF Shown
  <1>5. ASSUME program = "ex21" PROVE Ex21Inv
    <2>1. Tried(Shown, k)
      <3>1. \A r \in 1 .. ROUNDS : ~(r < k)
        BY <1>1, Constants
      <3>. QED
        BY <1>4, <3>1, CountEmpty DEF Tried
    <2>. QED
      BY <1>1, <1>2, <1>5, <2>1 DEF Ex21Inv
  <1>6. ASSUME program = "ex22" PROVE Ex22Inv
    <2>1. \A kind, r : /\ Copies(kind, r) = 0
                       /\ Count(Shown, Line(kind, r)) = 0 /\ Count(held, Line(kind, r)) = 0
      BY <1>1, <1>4, CopiesAre, CountEmpty
    <2>2. ASSUME NEW r \in 1 .. ROUNDS PROVE Fresh(r) /\ Repeated(r) /\ ~(r < k)
      BY <1>1, <2>1, Constants DEF Fresh, Repeated, Told, Row
    <2>3. Rounds
      BY <1>2, <1>6, <2>2 DEF Rounds
    <2>. QED
      BY <1>1, <1>2, <1>6, <2>3 DEF Ex22Inv
  <1>7. program = "ex23" => Ex23Inv
    BY <1>1, <1>2, <1>4 DEF Ex23Inv
  <1>. QED
    BY <1>3, <1>5, <1>6, <1>7 DEF IInv

LEMMA NextHolds == IInv /\ Next => IInv'
  <1>. SUFFICES ASSUME IInv, Next PROVE IInv'
    OBVIOUS
  <1>1. program' = program
    BY DEF Next, ParentStep, ChildStep, Exec, Image, MakePipe, ForkChild, CloseWriteEnd,
           ReadPipe, EndOfPipe, Wait, Popen, Pclose, Exit, Announce, ChildExec, List,
           ChildExit, options
  <1>2. TypeOK'
    BY ParentTypes, ChildTypes DEF Next
  <1>3. /\ program = "ex21" => Ex21Inv'
        /\ program = "ex22" => Ex22Inv'
    BY Ex21Keeps, Ex22Keeps
  <1>4. program = "ex23" => Ex23Inv'
    BY Ex23Parent, Ex23Child DEF Next
  <1>. QED
    BY <1>1, <1>2, <1>3, <1>4 DEF IInv

LEMMA StutterHolds == IInv /\ UNCHANGED vars => IInv'
  <1>. SUFFICES ASSUME IInv, UNCHANGED vars PROVE IInv'
    OBVIOUS
  <1>1. UNCHANGED <<program, tty, pc, k, held, child, childHeld, listed, writeEnd, pipe, out>>
    BY DEF vars
  <1>2. TypeOK'
    BY <1>1 DEF IInv, TypeOK
  <1>3. Shown' = Shown /\ \A kind, r : Copies(kind, r)' = Copies(kind, r)
    BY <1>1, CopiesAre DEF Shown
  <1>4. \A r \in 1 .. ROUNDS : /\ Told(r)' = Told(r) /\ Row(r)' = Row(r)
                               /\ FailuresAfter(r)' = FailuresAfter(r)
                               /\ Repeated(r) => Repeated(r)'
    <2>1. \A r \in 1 .. ROUNDS : FailuresAfter(r)' = FailuresAfter(r)
      BY <1>3, FailuresSame
    <2>. QED
      BY <1>1, <2>1, NothingSaid
  <1>5. Ex21Inv => Ex21Inv'
    BY <1>1, <1>3 DEF Ex21Inv, Tried, Ex21Printed
  <1>6. TypeOK /\ Ex22Inv => Ex22Inv'
    <2>. SUFFICES ASSUME TypeOK, Ex22Inv PROVE Ex22Inv'
      OBVIOUS
    <2>1. Ex22Printed => Ex22Printed'
      <3>1. \A r \in 1 .. ROUNDS : \A kind : Copies(kind, r)' = Copies(kind, r)
        BY <1>3
      <3>. QED
        BY <1>1, <1>4, <3>1 DEF Ex22Printed
    <2>2. Rounds => Rounds'
      <3>. SUFFICES ASSUME Rounds PROVE Rounds'
        OBVIOUS
      <3>1. PICK now \in 1 .. ROUNDS : now = k /\ now = k'
        BY <1>1 DEF TypeOK
      <3>2. pc = "wait" => Current'
        <4>1. Told(now)' = Told(k) /\ Row(now)' = Row(k)
          BY <1>4, <3>1
        <4>. QED
          BY <1>1, <3>1, <4>1 DEF Rounds, Current, At, Told, Row
      <3>. QED
        BY <1>1, <1>4, <3>2 DEF Rounds, Complete, Fresh
    <2>. QED
      BY <1>1, <2>1, <2>2 DEF Ex22Inv
  <1>7. Ex23Inv => Ex23Inv'
    BY <1>1, <1>3 DEF Ex23Inv, Reading, Freading, Ending, Ex23Printed
  <1>. QED
    BY <1>1, <1>2, <1>5, <1>6, <1>7 DEF IInv

LEMMA Inductive == Spec => []IInv
  BY InitHolds, NextHolds, StutterHolds, PTL DEF Spec

\* What a program holds back, hands to its child and brings out are lines; on a
\* terminal nothing is held back, and in a file only ex22 has lines out before it
\* ends.
THEOREM TypeCorrect == Spec => []TypeOK
  <1>1. IInv => TypeOK
    BY DEF IInv
  <1>. QED
    BY <1>1, Inductive, PTL

\* A program that has ended has no child left and has printed just what its calls
\* came to, each line as often as Ex21Printed, Ex22Printed or Ex23Printed say: the
\* part of PrintedInFull that is not about coming to the end.
THEOREM ProgramsEndWell == Spec => []EndsWell
  <1>1. IInv => EndsWell
    <2>. SUFFICES ASSUME IInv, pc = "done" PROVE child = "none" /\ Printed
      BY DEF EndsWell
    <2>1. program \in {"ex21", "ex22", "ex23"}
      BY Constants DEF IInv, TypeOK, AllPrograms
    <2>2. /\ program = "ex21" => child = "none" /\ Ex21Printed
          /\ program = "ex22" => child = "none" /\ Ex22Printed
          /\ program = "ex23" => child = "none" /\ Ex23Printed
      BY DEF IInv, Ex21Inv, Ex22Inv, Ex23Inv
    <2>. QED
      BY <2>1, <2>2 DEF Printed
  <1>. QED
    BY <1>1, Inductive, PTL
=============================================================================
