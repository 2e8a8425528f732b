-------------------------- MODULE EdgeMovesProofs ---------------------------
(* The schedule of an edge's moves, for any number of narrow moves, any       *)
(* registers and slots, with and without an exchange of registers: what is    *)
(* left when a sweep emits nothing is cycles, and the code that is emitted    *)
(* has the meaning of the parallel copy.                                      *)
EXTENDS EdgeMoves, FiniteSetTheorems, WellFoundedInduction, TLAPS

-----------------------------------------------------------------------------
(* Places and their units *)

Files == {"int", "fp"}

\* What a move may write, and what a pending one may read.
Targets == IntPlaces \cup FpPlaces(FALSE)
HoldAt(file) == <<file, Hold>>
Sources == Targets \cup {HoldAt("int"), HoldAt("fp")}

\* The unit of the narrow value at a place.
Unit(p) == UnitAt(p, 0)

\* The units a move to a place may disturb.
Reach(p) == UnitsOf(p, p[1] = "fp")

\* A place is a register of a file or a spill slot.
LEMMA PlaceShape ==
  ASSUME NEW p \in Sources
  PROVE  /\ p = <<p[1], p[2]>>
         /\ \/ p[1] = "int" /\ p[2] \in IntRegs \cup {Hold}
            \/ p[1] = "fp" /\ p[2] \in FpRegs \cup {Hold}
            \/ p[1] = "spill" /\ p[2] \in Slots /\ p[2] \in Nat
  BY SlotsAssumption
  DEF Sources, Targets, HoldAt, IntPlaces, FpPlaces, IntReg, FpReg, Spill

\* A target is no scratch register.
LEMMA TargetShape ==
  ASSUME NEW p \in Targets
  PROVE  p[1] # "spill" => p[2] \notin {Hold, Stage}
  BY ScratchAssumption DEF Targets, IntPlaces, FpPlaces, IntReg, FpReg, Spill

\* The unit of a place names it.
LEMMA UnitOfPlace ==
  ASSUME NEW p \in Sources
  PROVE  /\ Unit(p) = <<p[1], p[2], 0>>
         /\ Unit(p) \in Units
<1>1. Unit(p) = <<p[1], p[2], 0>>
  BY PlaceShape DEF Unit, UnitAt
<1>2. CASE p[1] = "int"
  BY <1>1, <1>2, PlaceShape DEF Units
<1>3. CASE p[1] = "fp"
  BY <1>1, <1>3, PlaceShape DEF Units
<1>4. CASE p[1] = "spill"
  BY <1>1, <1>4, PlaceShape DEF Units
<1> QED
  BY <1>1, <1>2, <1>3, <1>4, PlaceShape

\* Two places share no unit.
LEMMA UnitsApart ==
  ASSUME NEW p \in Sources, NEW q \in Sources, Unit(p) = Unit(q)
  PROVE  p = q
<1>1. p[1] = q[1] /\ p[2] = q[2]
  BY UnitOfPlace
<1> QED
  BY <1>1, PlaceShape

\* What a move to one place disturbs is not the value at another, and a store does not
\* disturb a value through the stage register.
LEMMA ReachApart ==
  ASSUME NEW p \in Sources, NEW q \in Sources, p # q
  PROVE  Unit(q) \notin Reach(p)
<1>1. Unit(q) = <<q[1], q[2], 0>> /\ Unit(p) = <<p[1], p[2], 0>> /\ Unit(p) # Unit(q)
  BY UnitOfPlace, UnitsApart
<1>2. Reach(p) \subseteq {Unit(p), <<p[1], p[2], 1>>}
  BY DEF Reach, UnitsOf, Halves, UnitAt, Unit
<1> QED
  BY <1>1, <1>2

StageUnits(file) == UnitsOf(<<file, Stage>>, TRUE)

\* No value that is to be read is in the stage register.
LEMMA StageApart ==
  ASSUME NEW q \in Sources, NEW file \in Files
  PROVE  Unit(q) \notin StageUnits(file)
<1>1. Unit(q) = <<q[1], q[2], 0>>
  BY UnitOfPlace
<1>2. StageUnits(file) = {<<file, Stage, 0>>, <<file, Stage, 1>>}
  BY DEF StageUnits, UnitsOf, Halves, UnitAt, Files
<1>3. q[1] \in Files => q[2] # Stage
  BY PlaceShape, ScratchAssumption DEF Files, Hold, Stage
<1> QED
  BY <1>1, <1>2, <1>3

\* The scratch units are those of the two scratch registers of each file.
LEMMA ScratchIs ==
  Scratch = {<<"int", Hold, 0>>, <<"int", Stage, 0>>, <<"fp", Hold, 0>>, <<"fp", Hold, 1>>,
             <<"fp", Stage, 0>>, <<"fp", Stage, 1>>}
  BY DEF Scratch

\* No target is scratch, and neither does a move to the hold register or through the
\* stage register disturb a unit that is not.
LEMMA ScratchApart ==
  /\ \A p \in Targets : Unit(p) \notin Scratch
  /\ \A file \in Files : Reach(HoldAt(file)) \subseteq Scratch
  /\ \A file \in Files : StageUnits(file) \cap Units \subseteq Scratch
<1>1. ASSUME NEW p \in Targets PROVE Unit(p) \notin Scratch
  BY ScratchIs, UnitOfPlace, TargetShape DEF Sources, Hold, Stage
<1>2. ASSUME NEW file \in Files PROVE Reach(HoldAt(file)) \subseteq Scratch
  <2>1. Reach(HoldAt(file)) = IF file = "fp" THEN {<<file, Hold, 0>>, <<file, Hold, 1>>}
                                              ELSE {<<file, Hold, 0>>}
    BY DEF Reach, HoldAt, UnitsOf, Halves, UnitAt, Files
  <2> QED
    BY <2>1, ScratchIs DEF Files
<1>3. ASSUME NEW file \in Files PROVE StageUnits(file) \cap Units \subseteq Scratch
  <2>1. StageUnits(file) = {<<file, Stage, 0>>, <<file, Stage, 1>>}
    BY DEF StageUnits, UnitsOf, Halves, UnitAt, Files
  <2>2. <<"int", Stage, 1>> \notin Units
    BY DEF Units
  <2> QED
    BY <2>1, <2>2, ScratchIs DEF Files
<1> QED
  BY <1>1, <1>2, <1>3

-----------------------------------------------------------------------------
(* Values and the store *)

Names == {<<"junk">>} \cup Units \cup {<<"const", d>> : d \in Targets}
Value == [from : Names, width : Widths]
Store == [Units -> Value]

\* The move of a narrow value between two places.
Move == [src : Sources, dst : Targets, ext : Widths, wide : {FALSE}]

\* A sign extension keeps the origin of a value; one that converts nothing keeps all.
LEMMA ExtendValue ==
  ASSUME NEW v \in Value, NEW w \in Widths
  PROVE  /\ Extend(v, w) \in Value
         /\ w = Full => Extend(v, w) = v
  BY DEF Extend, Value, Widths, Full

\* What is on record for a unit on entry, for a constant and for no value are values.
LEMMA NamedValues ==
  /\ \A u \in Units : OnEntry(u) \in Value
  /\ \A d \in Targets : Constant(d) \in Value
  /\ Junk \in Value
  BY DEF OnEntry, Constant, Junk, Value, Names, Widths, Full

\* A store after move m: its target has the source's value converted, every other place
\* keeps its own, and only what the target's register or the stage reaches has changed.
Made(st, new, m) ==
  /\ new \in Store
  /\ new[Unit(m.dst)] = Extend(st[Unit(m.src)], m.ext)
  /\ \A q \in Sources : q # m.dst => new[Unit(q)] = st[Unit(q)]
  /\ \A u \in Units \ (Scratch \cup Reach(m.dst)) : new[u] = st[u]

\* The instructions emitted for a narrow move make it.
LEMMA AfterMove ==
  ASSUME NEW st \in Store, NEW m, NEW file \in Files,
         m.src \in Sources, m.dst \in Sources, m.ext \in Widths, m.wide = FALSE
  PROVE  Made(st, Moved(st, m, file), m)
<1> DEFINE s == m.src
           d == m.dst
           new == Moved(st, m, file)
<1>1. /\ Halves(m.wide) = {0} /\ Unit(d) \in Units /\ Unit(s) \in Units
      /\ st[Unit(s)] \in Value
  BY UnitOfPlace DEF Halves, Store
<1>2. ASSUME NEW u \in Units
      PROVE  new[u] = IF u = Unit(d) THEN Extend(st[Unit(s)], m.ext)
                      ELSE IF d[1] = "fp" /\ u \in UnitsOf(d, TRUE) THEN Junk
                      ELSE IF d[1] = "spill" /\ u \in StageUnits(file) THEN Junk
                      ELSE st[u]
  <2>1. (\E h \in Halves(m.wide) : u = UnitAt(d, h)) <=> u = Unit(d)
    BY <1>1 DEF Unit
  <2>2. ASSUME u = Unit(d) PROVE (CHOOSE h \in Halves(m.wide) : u = UnitAt(d, h)) = 0
    BY <1>1, <2>2 DEF Unit
  <2>3. new[u] = IF \E h \in Halves(m.wide) : u = UnitAt(d, h)
                   THEN Extend(st[UnitAt(s, CHOOSE h \in Halves(m.wide) : u = UnitAt(d, h))], m.ext)
                 ELSE IF d[1] = "fp" /\ u \in UnitsOf(d, TRUE) THEN Junk
                 ELSE IF d[1] = "spill" /\ u \in StageUnits(file) THEN Junk
                 ELSE st[u]
    BY DEF Moved, StageUnits
  <2> HIDE DEF new
  <2>4. CASE u = Unit(d)
    BY <2>1, <2>2, <2>3, <2>4 DEF Unit
  <2>5. CASE u # Unit(d)
    BY <2>1, <2>3, <2>5
  <2> QED
    BY <2>4, <2>5
<1>3. new = [u \in Units |-> new[u]]
  BY DEF Moved
<1>4. d[1] = "fp" => UnitsOf(d, TRUE) = Reach(d)
  BY DEF Reach
<1>5. Unit(d) \in Reach(d)
  BY DEF Unit, Reach, UnitsOf, Halves
<1>6. Extend(st[Unit(s)], m.ext) \in Value
  BY <1>1, ExtendValue
<1> HIDE DEF new
<1>7. ASSUME NEW u \in Units PROVE new[u] \in Value
  BY <1>2, <1>6, NamedValues DEF Store
<1>8. new \in Store
  BY <1>3, <1>7 DEF Store
<1>9. ASSUME NEW q \in Sources, q # d PROVE new[Unit(q)] = st[Unit(q)]
  <2>1. /\ Unit(q) \in Units /\ Unit(q) # Unit(d) /\ Unit(q) \notin Reach(d)
        /\ Unit(q) \notin StageUnits(file)
    BY <1>9, UnitOfPlace, UnitsApart, ReachApart, StageApart
  <2> QED
    BY <1>2, <1>4, <2>1
<1>10. ASSUME NEW u \in Units \ (Scratch \cup Reach(d)) PROVE new[u] = st[u]
  BY <1>2, <1>4, <1>5, ScratchApart
<1> QED
  BY <1>1, <1>2, <1>8, <1>9, <1>10 DEF new, Made

-----------------------------------------------------------------------------
(* Counting *)

\* Each of the n values of g is one of f's; no two of f's n values are one.
Covers(f, g, n) == \A k \in 1..n : \E j \in 1..n : f[j] = g[k]
Once(f, n) == \A j, k \in 1..n : f[j] = f[k] => j = k

\* n places that n readers read are read once each: when all of n different targets are
\* among n sources, the sources are the targets and no two are one.
LEMMA ReadOnceEach ==
  ASSUME NEW n \in Nat, NEW src, NEW dst, Covers(src, dst, n), Once(dst, n)
  PROVE  Covers(dst, src, n) /\ Once(src, n)
<1> USE DEF Covers, Once
<1> DEFINE reader == [k \in 1..n |-> CHOOSE j \in 1..n : src[j] = dst[k]]
<1>1. \A k \in 1..n : reader[k] \in 1..n /\ src[reader[k]] = dst[k]
  OBVIOUS
<1>2. reader \in [1..n -> 1..n]
  BY <1>1
<1> HIDE DEF reader
<1>3. reader \in Injection(1..n, 1..n)
  <2>1. \A j, k \in 1..n : reader[j] = reader[k] => dst[j] = dst[k]
    BY <1>1, Zenon
  <2>2. DOMAIN reader = 1..n /\ \A j, k \in 1..n : reader[j] = reader[k] => j = k
    BY <1>2, <2>1
  <2> QED
    BY <1>2, <2>2, Zenon DEF Injection, IsInjective
<1>4. reader \in Surjection(1..n, 1..n)
  BY <1>3, FS_Interval, FS_Injection
<1>5. \A j \in 1..n : \E k \in 1..n : reader[k] = j
  BY <1>4 DEF Surjection
<1>6. \A j \in 1..n : \E k \in 1..n : reader[k] = j /\ src[j] = dst[k]
  <2> SUFFICES ASSUME NEW j \in 1..n PROVE \E k \in 1..n : reader[k] = j /\ src[j] = dst[k]
    OBVIOUS
  <2>1. PICK k \in 1..n : reader[k] = j
    BY <1>5
  <2>2. src[reader[k]] = dst[k]
    BY <1>1
  <2> QED
    BY <2>1, <2>2
<1>7. ASSUME NEW j \in 1..n, NEW k \in 1..n, src[j] = src[k] PROVE j = k
  <2>1. PICK a \in 1..n : reader[a] = j /\ src[j] = dst[a]
    BY <1>6
  <2>2. PICK b \in 1..n : reader[b] = k /\ src[k] = dst[b]
    BY <1>6
  <2>3. dst[a] = dst[b]
    BY <1>7, <2>1, <2>2, Zenon
  <2>4. a = b
    BY <2>3
  <2> QED
    BY <2>1, <2>2, <2>4
<1> QED
  BY <1>6, <1>7, Zenon

\* r is s without its self-moves, each of the others once.
Retained(s, r) ==
  /\ \A n \in DOMAIN r : \E k \in DOMAIN s : ~IsNop(s[k]) /\ r[n] = s[k]
  /\ \A k \in DOMAIN s : ~IsNop(s[k]) => \E n \in DOMAIN r : r[n] = s[k]
  /\ (\A j, k \in DOMAIN s : s[j].dst = s[k].dst => j = k)
       => \A j, k \in DOMAIN r : r[j].dst = r[k].dst => j = k

\* Retain keeps the moves that are no self-moves.
LEMMA RetainKeeps ==
  ASSUME NEW S, NEW s \in Seq(S)
  PROVE  Retain(s) \in Seq(S) /\ Retained(s, Retain(s))
<1> DEFINE kept == {k \in DOMAIN s : ~IsNop(s[k])}
           upto(k) == {j \in kept : j <= k}
           c == Cardinality(kept)
           rank == [k \in kept |-> Cardinality(upto(k))]
           at(n) == CHOOSE k \in kept : Cardinality(upto(k)) = n
<1>0. Retain(s) = [n \in 1..c |-> s[at(n)]]
  BY DEF Retain
<1>1. DOMAIN s = 1..Len(s) /\ Len(s) \in Nat /\ kept \subseteq 1..Len(s)
  OBVIOUS
<1>2. IsFiniteSet(kept) /\ c \in Nat
  <2>1. IsFiniteSet(1..Len(s))
    BY <1>1, FS_Interval
  <2>2. IsFiniteSet(kept)
    BY <1>1, <2>1, FS_Subset
  <2> QED
    BY <2>2, FS_CardinalityType
<1>3. ASSUME NEW k \in kept PROVE Cardinality(upto(k)) \in 1..c
  <2>1. /\ IsFiniteSet(upto(k)) /\ Cardinality(upto(k)) <= c
    BY <1>2, FS_Subset
  <2>2. Cardinality(upto(k)) \in Nat
    BY <2>1, FS_CardinalityType
  <2>3. k \in upto(k)
    BY <1>1
  <2>4. Cardinality(upto(k)) # 0
    BY <2>1, <2>3, FS_EmptySet
  <2> HIDE DEF c, upto
  <2> QED
    BY <1>2, <2>1, <2>2, <2>4
<1>4. ASSUME NEW j \in kept, NEW k \in kept, j < k
      PROVE  Cardinality(upto(j)) # Cardinality(upto(k))
  <2>1. IsFiniteSet(upto(k))
    BY <1>2, FS_Subset
  <2>2. upto(j) \in SUBSET upto(k)
    BY <1>1, <1>4
  <2>3. k \in upto(k) /\ k \notin upto(j)
    BY <1>1, <1>4
  <2> QED
    BY <2>1, <2>2, <2>3, FS_Subset
<1>5. rank \in [kept -> 1..c]
  BY <1>3
<1>6. \A j, k \in kept : rank[j] = rank[k] => j = k
  BY <1>1, <1>4
<1>7. rank \in Surjection(kept, 1..c)
  <2> HIDE DEF rank
  <2>1. rank \in Injection(kept, 1..c)
    BY <1>5, <1>6 DEF Injection, IsInjective
  <2>2. IsFiniteSet(1..c) /\ Cardinality(1..c) = c
    BY <1>2, FS_Interval
  <2> QED
    BY <2>1, <2>2, FS_Injection
<1>8. \A n \in 1..c : \E k \in kept : Cardinality(upto(k)) = n
  BY <1>7 DEF Surjection
<1>9. ASSUME NEW n \in 1..c PROVE at(n) \in kept /\ Cardinality(upto(at(n))) = n
  BY <1>8
<1>10. ASSUME NEW k \in kept PROVE k = at(Cardinality(upto(k)))
  <2>1. Cardinality(upto(k)) \in 1..c
    BY <1>3
  <2>2. at(Cardinality(upto(k))) \in kept
        /\ Cardinality(upto(at(Cardinality(upto(k))))) = Cardinality(upto(k))
    BY <1>9, <2>1
  <2> QED
    BY <1>6, <2>2
<1> HIDE DEF upto, c, rank, at
<1>11. Retain(s) \in Seq(S)
  <2>1. \A n \in 1..c : s[at(n)] \in S
    BY <1>1, <1>9
  <2> QED
    BY <1>0, <1>2, <2>1
<1>12. DOMAIN Retain(s) = 1..c /\ \A n \in 1..c : Retain(s)[n] = s[at(n)]
  BY <1>0
<1>13. ASSUME NEW n \in DOMAIN Retain(s)
       PROVE  \E k \in DOMAIN s : ~IsNop(s[k]) /\ Retain(s)[n] = s[k]
  BY <1>9, <1>12
<1>14. ASSUME NEW k \in DOMAIN s, ~IsNop(s[k])
       PROVE  \E n \in DOMAIN Retain(s) : Retain(s)[n] = s[k]
  BY <1>3, <1>10, <1>12, <1>14
<1>15. ASSUME \A j, k \in DOMAIN s : s[j].dst = s[k].dst => j = k,
              NEW j \in DOMAIN Retain(s), NEW k \in DOMAIN Retain(s),
              Retain(s)[j].dst = Retain(s)[k].dst
       PROVE  j = k
  <2>1. at(j) \in DOMAIN s /\ at(k) \in DOMAIN s /\ s[at(j)].dst = s[at(k)].dst
    BY <1>9, <1>12, <1>15
  <2>2. at(j) = at(k)
    BY <1>15, <2>1
  <2> QED
    BY <1>9, <1>12, <2>2
<1> QED
  BY <1>11, <1>13, <1>14, <1>15 DEF Retained

\* A set of indices that is not empty has a first one.
LEMMA FirstIsOne ==
  ASSUME NEW S, S \subseteq Nat, S # {}
  PROVE  FirstOf(S) \in S
<1> DEFINE R == OpToRel(<, Nat)
<1>1. \A x, y \in Nat : <<y, x>> \in R <=> y < x
  BY DEF OpToRel
<1>2. IsWellFoundedOn(R, Nat)
  BY NatLessThanWellFounded
<1> HIDE DEF R
<1>3. \E x \in S : \A y \in S : ~(<<y, x>> \in R)
  BY <1>2, WFMin
<1>4. PICK x \in S : \A y \in S : ~(<<y, x>> \in R)
  BY <1>3
<1>5. \A y \in S : ~(y < x)
  BY <1>1, <1>4
<1>6. \A y \in S : x <= y
  BY <1>5
<1> QED
  BY <1>6 DEF FirstOf

\* r is s without its k-th move, each of the others once, in any order.
Without(s, r, k) ==
  /\ Len(r) = Len(s) - 1
  /\ \A j \in 1..Len(r) : \E a \in 1..Len(s) : a # k /\ r[j] = s[a]
  /\ \A a \in 1..Len(s) : a # k => \E j \in 1..Len(r) : r[j] = s[a]
  /\ (\A a, b \in 1..Len(s) : s[a].dst = s[b].dst => a = b)
       => \A a, b \in 1..Len(r) : r[a].dst = r[b].dst => a = b

\* swap_remove drops one move and keeps the others.
LEMMA SwapRemoveKeeps ==
  ASSUME NEW S, NEW s \in Seq(S), NEW k \in 1..Len(s)
  PROVE  SwapRemove(s, k) \in Seq(S) /\ Without(s, SwapRemove(s, k), k)
<1>0. PICK n \in Nat : n = Len(s)
  OBVIOUS
<1> DEFINE r == SwapRemove(s, k)
           was(j) == IF j = k THEN n ELSE j
<1>1. n \in Nat /\ n >= 1 /\ k \in 1..n /\ s \in [1..n -> S]
  BY <1>0
<1>2. r = [j \in 1..(n - 1) |-> s[was(j)]]
  BY <1>0 DEF SwapRemove
<1>3. \A j \in 1..(n - 1) : was(j) \in 1..n /\ was(j) # k
  BY <1>1
<1>4. \A a, b \in 1..(n - 1) : was(a) = was(b) => a = b
  BY <1>1
<1>5. ASSUME NEW a \in 1..n, a # k PROVE \E j \in 1..(n - 1) : was(j) = a
  <2>1. CASE a = n
    BY <1>1, <1>5, <2>1
  <2>2. CASE a # n
    BY <1>1, <1>5, <2>2
  <2> QED
    BY <2>1, <2>2
<1> HIDE DEF was, r
<1>6. r \in [1..(n - 1) -> S] /\ n - 1 \in Nat
  BY <1>1, <1>2, <1>3
<1>7. r \in Seq(S) /\ Len(r) = n - 1
  BY <1>6
<1>8. \A j \in 1..(n - 1) : r[j] = s[was(j)]
  BY <1>2
<1>9. \A j \in 1..(n - 1) : \E a \in 1..n : a # k /\ r[j] = s[a]
  BY <1>3, <1>8
<1>10. \A a \in 1..n : a # k => \E j \in 1..(n - 1) : r[j] = s[a]
  BY <1>5, <1>8
<1>11. ASSUME \A a, b \in 1..n : s[a].dst = s[b].dst => a = b,
              NEW a \in 1..(n - 1), NEW b \in 1..(n - 1), r[a].dst = r[b].dst
       PROVE  a = b
  <2>1. was(a) = was(b)
    BY <1>3, <1>8, <1>11
  <2> QED
    BY <1>4, <2>1
<1> QED
  BY <1>0, <1>7, <1>9, <1>10, <1>11 DEF r, Without

-----------------------------------------------------------------------------
(* The invariant *)

Active == phase \in Files

\* The copy whose moves are pending.
Copy == IF phase = "int" THEN input.int ELSE input.fp

\* Move m has been made; pending move p stands for m, and reads what m was to read.
Meets(m) == store[Unit(m.dst)] = Extend(OnEntry(Unit(m.src)), m.ext)
Stands(p, m) == p.dst = m.dst /\ p.ext = m.ext /\ store[Unit(p.src)] = OnEntry(Unit(m.src))

\* Only the targets of the moves in ms, and scratch, have changed.
Touched(ms) ==
  \A u \in Units \ Scratch : store[u] # OnEntry(u) => \E m \in ms : u \in Reach(m.dst)

Types ==
  /\ input \in Inputs
  /\ phase \in Files \cup {"start", "done", "refused"}
  /\ moves \in Seq(Move)
  /\ i \in 1..(Len(moves) + 1)
  /\ progress \in BOOLEAN
  /\ store \in Store

\* No two pending moves have one target, and each stands for one of the copy.
PendingInv ==
  /\ \A j, k \in 1..Len(moves) : moves[j].dst = moves[k].dst => j = k
  /\ \A j \in 1..Len(moves) : \E m \in Range(Copy) : Stands(moves[j], m)

\* What is not pending is done, the integer copy before the floating one begins.
MetInv ==
  /\ \A m \in Range(Copy) : Meets(m) \/ \E j \in 1..Len(moves) : moves[j].dst = m.dst
  /\ phase = "fp" => \A m \in Range(input.int) : Meets(m)

FrameInv == Touched(Range(input.int) \cup (IF phase = "fp" THEN Range(input.fp) ELSE {}))

\* A sweep that has emitted nothing found a reader for each target behind it.
SweepInv == ~progress => \A k \in 1..(i - 1) : TargetStillASource(k)

IndInv ==
  /\ Types
  /\ phase = "start" => /\ moves = <<>> /\ i = 1 /\ progress = FALSE
                        /\ \A u \in Units : store[u] = OnEntry(u)
  /\ Active => PendingInv /\ MetInv /\ FrameInv /\ SweepInv
  /\ CopyMeaning

\* The copies every behaviour begins with.
NarrowInputs == \A e \in Inputs : NarrowInput(e)

\* A sequence over a set is one over a larger set.
LEMMA SeqOfLarger ==
  ASSUME NEW S, NEW T, S \subseteq T, NEW s \in Seq(S)
  PROVE  s \in Seq(T)
<1>1. PICK n \in Nat : n = Len(s)
  OBVIOUS
<1>2. s \in [1..n -> T]
  BY <1>1
<1> QED
  BY <1>2

\* What is in a sequence over a set is in the set.
LEMMA RangeWithin ==
  ASSUME NEW S, NEW s \in Seq(S), NEW x \in Range(s)
  PROVE  x \in S
  BY DEF Range

\* The moves of the copies are moves between places, their targets apart.
LEMMA CopyFacts ==
  ASSUME NarrowInput(input)
  PROVE  /\ input.int \in Seq(Move) /\ input.fp \in Seq(Move)
         /\ \A j, k \in DOMAIN input.int : input.int[j].dst = input.int[k].dst => j = k
         /\ \A j, k \in DOMAIN input.fp : input.fp[j].dst = input.fp[k].dst => j = k
         /\ \A m, o \in Range(input.int) : m.dst = o.dst => m = o
         /\ \A m, o \in Range(input.fp) : m.dst = o.dst => m = o
         /\ Range(input.int) \subseteq Move /\ Range(input.fp) \subseteq Move
         /\ \A m \in Range(input.int) : \A f \in Range(input.fp) : m.dst \notin {f.src, f.dst}
<1>1. Full \in Widths /\ IntPlaces \cup FpPlaces(FALSE) \subseteq Sources
      /\ IntPlaces \subseteq Targets /\ FpPlaces(FALSE) \subseteq Targets
  BY DEF Full, Widths, Sources, Targets
<1>2. [src : IntPlaces \cup FpPlaces(FALSE), dst : IntPlaces, ext : Widths, wide : {FALSE}]
        \subseteq Move
  BY <1>1 DEF Move
<1>3. [src : FpPlaces(FALSE), dst : FpPlaces(FALSE), ext : {Full}, wide : {FALSE}] \subseteq Move
  BY <1>1 DEF Move
<1>4. input.int \in Seq(Move) /\ input.fp \in Seq(Move)
  BY <1>2, <1>3, SeqOfLarger DEF NarrowInput
<1>5. /\ \A j, k \in DOMAIN input.int : input.int[j].dst = input.int[k].dst => j = k
      /\ \A j, k \in DOMAIN input.fp : input.fp[j].dst = input.fp[k].dst => j = k
      /\ \A m \in Range(input.int) : \A f \in Range(input.fp) : m.dst \notin {f.src, f.dst}
  BY DEF NarrowInput
<1>6. ASSUME NEW s \in Seq(Move), \A j, k \in DOMAIN s : s[j].dst = s[k].dst => j = k
      PROVE  /\ Range(s) \subseteq Move
             /\ \A m, o \in Range(s) : m.dst = o.dst => m = o
  BY <1>6 DEF Range
<1> QED
  BY <1>4, <1>5, <1>6

\* Narrow places overlap when they are one place.
LEMMA OverlapIsSame ==
  ASSUME NEW p \in Sources, NEW q \in Sources
  PROVE  PlacesOverlap(p, FALSE, q, FALSE) <=> p = q
<1>1. CASE p[1] = "spill" /\ q[1] = "spill"
  <2>1. p[2] \in Nat /\ q[2] \in Nat
    BY <1>1, PlaceShape
  <2>2. PlacesOverlap(p, FALSE, q, FALSE) <=> p[2] < q[2] + 1 /\ q[2] < p[2] + 1
    BY <1>1 DEF PlacesOverlap
  <2>3. p[2] < q[2] + 1 /\ q[2] < p[2] + 1 <=> p[2] = q[2]
    BY <2>1
  <2> QED
    BY <1>1, <2>2, <2>3, PlaceShape
<1>2. CASE ~(p[1] = "spill" /\ q[1] = "spill")
  BY <1>2 DEF PlacesOverlap, PlaceSameLoc
<1> QED
  BY <1>1, <1>2

\* The fields of a pending move.
LEMMA MoveFields ==
  ASSUME moves \in Seq(Move), NEW j \in 1..Len(moves)
  PROVE  /\ moves[j] \in Move
         /\ moves[j].src \in Sources /\ moves[j].dst \in Targets /\ moves[j].dst \in Sources
         /\ moves[j].ext \in Widths /\ moves[j].wide = FALSE
<1>1. moves[j] \in Move
  OBVIOUS
<1> QED
  BY <1>1 DEF Move, Sources

\* A move told to read another place.
LEMMA Redirected ==
  ASSUME NEW x \in Move, NEW p \in Sources
  PROVE  /\ [x EXCEPT !.src = p] \in Move
         /\ [x EXCEPT !.src = p].src = p
         /\ [x EXCEPT !.src = p].dst = x.dst /\ [x EXCEPT !.src = p].ext = x.ext
  BY DEF Move

\* In either file, a target that is still a source has a reader, and one that is not has
\* none but its own move.
LEMMA ReaderOfTarget ==
  ASSUME moves \in Seq(Move), Active, NEW k \in 1..Len(moves)
  PROVE  /\ TargetStillASource(k) => \E j \in 1..Len(moves) : moves[j].src = moves[k].dst
         /\ ~TargetStillASource(k) =>
              \A j \in 1..Len(moves) : j # k => moves[j].src # moves[k].dst
<1>1. DOMAIN moves = 1..Len(moves)
  OBVIOUS
<1>2. CASE phase = "int"
  BY <1>1, <1>2 DEF TargetStillASource, PlaceSameLoc
<1>3. CASE phase # "int"
  <2>1. TargetStillASource(k) <=>
          \E j \in 1..Len(moves) : PlacesOverlap(moves[j].src, moves[j].wide,
                                                 moves[k].dst, moves[k].wide)
    BY <1>1, <1>3 DEF TargetStillASource
  <2>2. \A j \in 1..Len(moves) :
          PlacesOverlap(moves[j].src, moves[j].wide, moves[k].dst, moves[k].wide)
            <=> moves[j].src = moves[k].dst
    <3> SUFFICES ASSUME NEW j \in 1..Len(moves)
                 PROVE  PlacesOverlap(moves[j].src, moves[j].wide, moves[k].dst, moves[k].wide)
                          <=> moves[j].src = moves[k].dst
      OBVIOUS
    <3>1. /\ moves[j].src \in Sources /\ moves[k].dst \in Sources
          /\ moves[j].wide = FALSE /\ moves[k].wide = FALSE
      BY MoveFields
    <3>2. PlacesOverlap(moves[j].src, FALSE, moves[k].dst, FALSE) <=> moves[j].src = moves[k].dst
      BY <3>1, OverlapIsSame
    <3> QED
      BY <3>1, <3>2, Zenon
  <2> QED
    BY <2>1, <2>2
<1> QED
  BY <1>2, <1>3

\* When a sweep emits nothing, what is pending is cycles: each source is a target, and
\* is read once.
LEMMA CyclesRemain ==
  ASSUME Types, Active, PendingInv, SweepInv, SweepOver, ~progress
  PROVE  /\ \A k \in 1..Len(moves) : \E j \in 1..Len(moves) : moves[j].src = moves[k].dst
         /\ \A j \in 1..Len(moves) : \E k \in 1..Len(moves) : moves[j].src = moves[k].dst
         /\ \A j, k \in 1..Len(moves) : moves[j].src = moves[k].src => j = k
<1>1. PICK n \in Nat : n = Len(moves)
  BY DEF Types
<1> DEFINE src == [j \in 1..n |-> moves[j].src]
           dst == [j \in 1..n |-> moves[j].dst]
<1>2. i = n + 1
  BY <1>1 DEF Types, SweepOver
<1>3. \A k \in 1..n : TargetStillASource(k)
  BY <1>2 DEF SweepInv
<1>4. \A k \in 1..n : \E j \in 1..n : moves[j].src = moves[k].dst
  BY <1>1, <1>3, ReaderOfTarget DEF Types
<1>5. Covers(src, dst, n)
  BY <1>4 DEF Covers
<1>6. Once(dst, n)
  BY <1>1 DEF PendingInv, Once
<1>7. \A j \in 1..n : src[j] = moves[j].src /\ dst[j] = moves[j].dst
  OBVIOUS
<1> HIDE DEF src, dst
<1>8. Covers(dst, src, n) /\ Once(src, n)
  BY <1>5, <1>6, ReadOnceEach
<1>9. \A j \in 1..n : \E k \in 1..n : moves[j].src = moves[k].dst
  BY <1>7, <1>8 DEF Covers
<1>10. \A j, k \in 1..n : moves[j].src = moves[k].src => j = k
  BY <1>7, <1>8 DEF Once
<1> QED
  BY <1>1, <1>4, <1>9, <1>10

\* What a step within a copy owes: the moves left read the values they read before, a
\* move that is gone has been made, and only targets and scratch change.
LEMMA StepKeeps ==
  ASSUME Types, NarrowInput(input), Active, PendingInv, MetInv, FrameInv,
         input' = input, phase' = phase, moves' \in Seq(Move),
         \A j, k \in 1..Len(moves') : moves'[j].dst = moves'[k].dst => j = k,
         \A j \in 1..Len(moves') : \E a \in 1..Len(moves) :
           /\ moves'[j].dst = moves[a].dst /\ moves'[j].ext = moves[a].ext
           /\ store'[Unit(moves'[j].src)] = store[Unit(moves[a].src)],
         \A a \in 1..Len(moves) :
           \/ \E j \in 1..Len(moves') : moves'[j].dst = moves[a].dst
           \/ store'[Unit(moves[a].dst)] = Extend(store[Unit(moves[a].src)], moves[a].ext),
         \A u \in Units \ Scratch :
           (\A a \in 1..Len(moves) : u \notin Reach(moves[a].dst)) => store'[u] = store[u]
  PROVE  PendingInv' /\ MetInv' /\ FrameInv'
<1>0. moves \in Seq(Move)
  BY DEF Types
<1>1. /\ Copy' = Copy /\ Range(Copy)' = Range(Copy) /\ Range(input.int)' = Range(input.int)
      /\ Range(input.fp)' = Range(input.fp)
  BY DEF Copy
<1>2. /\ Range(Copy) \subseteq Move /\ \A m, o \in Range(Copy) : m.dst = o.dst => m = o
  BY CopyFacts DEF Copy
<1>3. ASSUME NEW p \in Targets, \A a \in 1..Len(moves) : moves[a].dst # p
      PROVE  store'[Unit(p)] = store[Unit(p)]
  <2>1. Unit(p) \in Units \ Scratch
    BY UnitOfPlace, ScratchApart DEF Sources
  <2>2. \A a \in 1..Len(moves) : Unit(p) \notin Reach(moves[a].dst)
    BY <1>0, <1>3, MoveFields, ReachApart DEF Sources
  <2> QED
    BY <2>1, <2>2
<1>4. PendingInv'
  <2>1. ASSUME NEW j \in 1..Len(moves') PROVE \E m \in Range(Copy) : Stands(moves[j], m)'
    <3>1. PICK a \in 1..Len(moves) :
            /\ moves'[j].dst = moves[a].dst /\ moves'[j].ext = moves[a].ext
            /\ store'[Unit(moves'[j].src)] = store[Unit(moves[a].src)]
      OBVIOUS
    <3>2. PICK m \in Range(Copy) : Stands(moves[a], m)
      BY DEF PendingInv
    <3> QED
      BY <3>1, <3>2 DEF Stands
  <2> QED
    BY <1>1, <2>1 DEF PendingInv
<1>5. ASSUME NEW m \in Range(Copy)
      PROVE  Meets(m)' \/ \E j \in 1..Len(moves') : moves'[j].dst = m.dst
  <2>1. CASE \E a \in 1..Len(moves) : moves[a].dst = m.dst
    <3>1. PICK a \in 1..Len(moves) : moves[a].dst = m.dst
      BY <2>1
    <3>2. PICK o \in Range(Copy) : Stands(moves[a], o)
      BY DEF PendingInv
    <3>3. o = m
      BY <1>2, <3>1, <3>2 DEF Stands
    <3> QED
      BY <3>1, <3>2, <3>3 DEF Stands, Meets
  <2>2. CASE \A a \in 1..Len(moves) : moves[a].dst # m.dst
    <3>1. Meets(m) /\ m.dst \in Targets
      BY <1>2, <2>2 DEF MetInv, Move
    <3> QED
      BY <1>3, <2>2, <3>1 DEF Meets
  <2> QED
    BY <2>1, <2>2
<1>6. ASSUME phase = "fp", NEW m \in Range(input.int) PROVE Meets(m)'
  <2>1. Meets(m) /\ m.dst \in Targets
    BY <1>6, CopyFacts DEF MetInv, Move
  <2>2. ASSUME NEW a \in 1..Len(moves) PROVE moves[a].dst # m.dst
    <3>1. PICK f \in Range(input.fp) : Stands(moves[a], f)
      BY <1>6 DEF PendingInv, Copy
    <3> QED
      BY <3>1, CopyFacts DEF Stands
  <2> QED
    BY <1>3, <2>1, <2>2 DEF Meets
<1>7. MetInv'
  BY <1>1, <1>5, <1>6 DEF MetInv
<1>8. FrameInv'
  <2> DEFINE ms == Range(input.int) \cup (IF phase = "fp" THEN Range(input.fp) ELSE {})
  <2>1. Range(Copy) \subseteq ms
    BY DEF Copy, Active, Files
  <2>2. ASSUME NEW u \in Units \ Scratch, store'[u] # OnEntry(u)
        PROVE  \E m \in ms : u \in Reach(m.dst)
    <3>1. CASE \E a \in 1..Len(moves) : u \in Reach(moves[a].dst)
      <4>1. PICK a \in 1..Len(moves) : u \in Reach(moves[a].dst)
        BY <3>1
      <4>2. PICK o \in Range(Copy) : Stands(moves[a], o)
        BY DEF PendingInv
      <4> QED
        BY <2>1, <4>1, <4>2 DEF Stands
    <3>2. CASE \A a \in 1..Len(moves) : u \notin Reach(moves[a].dst)
      BY <2>2, <3>2 DEF FrameInv, Touched
    <3> QED
      BY <3>1, <3>2
  <2> QED
    BY <1>1, <2>2 DEF FrameInv, Touched
<1> QED
  BY <1>4, <1>7, <1>8

-----------------------------------------------------------------------------
(* The steps within a copy *)

\* A step that stays within a copy keeps the rest of the invariant.
LEMMA WithinCopy ==
  ASSUME Types, Active, input' = input, phase' = phase, moves' \in Seq(Move), store' \in Store,
         i' \in 1..(Len(moves') + 1), progress' \in BOOLEAN,
         PendingInv', MetInv', FrameInv', SweepInv'
  PROVE  IndInv'
<1>1. Types'
  BY DEF Types
<1>2. phase' # "start" /\ phase' # "done"
  BY DEF Active, Files
<1> QED
  BY <1>1, <1>2 DEF IndInv, CopyMeaning

\* A move whose target nothing reads any more is made.
LEMMA EmitKeeps ==
  ASSUME IndInv, NarrowInput(input), EmitMove
  PROVE  IndInv'
<1>1. /\ Active /\ Types /\ PendingInv /\ MetInv /\ FrameInv /\ moves \in Seq(Move)
      /\ store \in Store /\ phase \in Files
  BY DEF IndInv, EmitMove, Active, Files, Types
<1>2. PICK n \in Nat : n = Len(moves)
  BY <1>1
<1>3. i \in 1..n /\ ~TargetStillASource(i) /\ store' = Moved(store, moves[i], phase)
      /\ moves' = SwapRemove(moves, i) /\ progress' = TRUE /\ i' = i
      /\ input' = input /\ phase' = phase
  BY <1>1, <1>2 DEF EmitMove, Types
<1>4. PICK mv : mv = moves[i]
  OBVIOUS
<1>5. mv.src \in Sources /\ mv.dst \in Sources /\ mv.ext \in Widths /\ mv.wide = FALSE
  BY <1>1, <1>2, <1>3, <1>4, MoveFields
<1>6. Made(store, store', mv)
  BY <1>1, <1>3, <1>4, <1>5, AfterMove
<1>7. moves' \in Seq(Move) /\ Without(moves, moves', i)
  BY <1>1, <1>2, <1>3, SwapRemoveKeeps
<1>8. /\ Len(moves') = n - 1
      /\ \A j \in 1..Len(moves') : \E a \in 1..n : a # i /\ moves'[j] = moves[a]
      /\ \A a \in 1..n : a # i => \E j \in 1..Len(moves') : moves'[j] = moves[a]
      /\ \A a, b \in 1..Len(moves') : moves'[a].dst = moves'[b].dst => a = b
  BY <1>1, <1>2, <1>7 DEF Without, PendingInv
<1>9. ASSUME NEW a \in 1..n, a # i PROVE store'[Unit(moves[a].src)] = store[Unit(moves[a].src)]
  <2>1. moves[a].src \in Sources /\ moves[a].src # mv.dst
    BY <1>1, <1>2, <1>3, <1>4, <1>9, MoveFields, ReaderOfTarget
  <2> QED
    BY <1>6, <2>1 DEF Made
<1>10. \A j \in 1..Len(moves') : \E a \in 1..Len(moves) :
         /\ moves'[j].dst = moves[a].dst /\ moves'[j].ext = moves[a].ext
         /\ store'[Unit(moves'[j].src)] = store[Unit(moves[a].src)]
  <2> SUFFICES ASSUME NEW j \in 1..Len(moves')
               PROVE  \E a \in 1..Len(moves) :
                        /\ moves'[j].dst = moves[a].dst /\ moves'[j].ext = moves[a].ext
                        /\ store'[Unit(moves'[j].src)] = store[Unit(moves[a].src)]
    OBVIOUS
  <2>1. PICK a \in 1..n : a # i /\ moves'[j] = moves[a]
    BY <1>8
  <2> QED
    BY <1>2, <1>9, <2>1
<1>11. \A a \in 1..Len(moves) :
         \/ \E j \in 1..Len(moves') : moves'[j].dst = moves[a].dst
         \/ store'[Unit(moves[a].dst)] = Extend(store[Unit(moves[a].src)], moves[a].ext)
  BY <1>2, <1>4, <1>6, <1>8 DEF Made
<1>12. \A u \in Units \ Scratch :
         (\A a \in 1..Len(moves) : u \notin Reach(moves[a].dst)) => store'[u] = store[u]
  BY <1>2, <1>3, <1>4, <1>6 DEF Made
<1>13. PendingInv' /\ MetInv' /\ FrameInv'
  BY <1>1, <1>3, <1>7, <1>8, <1>10, <1>11, <1>12, StepKeeps
<1>14. i' \in 1..(Len(moves') + 1)
  BY <1>3, <1>8
<1>15. SweepInv' /\ progress' \in BOOLEAN
  BY <1>3 DEF SweepInv
<1> QED
  BY <1>1, <1>3, <1>6, <1>7, <1>13, <1>14, <1>15, WithinCopy DEF Made

\* A step that leaves the moves and the store alone leaves what is said of them.
LEMMA SameCopy ==
  ASSUME PendingInv, MetInv, FrameInv, UNCHANGED <<input, phase, moves, store>>
  PROVE  PendingInv' /\ MetInv' /\ FrameInv'
  BY DEF PendingInv, MetInv, FrameInv, Copy, Stands, Meets, Touched

\* A move whose target has a reader waits.
LEMMA SkipKeeps ==
  ASSUME IndInv, SkipMove
  PROVE  IndInv'
<1>1. /\ Active /\ Types /\ PendingInv /\ MetInv /\ FrameInv /\ SweepInv
      /\ moves \in Seq(Move) /\ store \in Store
  BY DEF IndInv, SkipMove, Active, Files, Types
<1>2. PICK n \in Nat : n = Len(moves)
  BY <1>1
<1>3. i \in 1..n /\ TargetStillASource(i) /\ i' = i + 1
      /\ UNCHANGED <<input, phase, moves, progress, store>>
  BY <1>1, <1>2 DEF SkipMove, Types
<1>4. \A k \in 1..n : TargetStillASource(k)' <=> TargetStillASource(k)
  BY <1>3 DEF TargetStillASource
<1>5. SweepInv'
  BY <1>1, <1>3, <1>4 DEF SweepInv
<1>6. PendingInv' /\ MetInv' /\ FrameInv'
  BY <1>1, <1>3, SameCopy
<1>7. i' \in 1..(Len(moves') + 1) /\ progress' \in BOOLEAN
  BY <1>1, <1>2, <1>3 DEF Types
<1> QED
  BY <1>1, <1>3, <1>5, <1>6, <1>7, WithinCopy

\* After a sweep that emitted something the next one begins.
LEMMA SweepKeeps ==
  ASSUME IndInv, NextSweep
  PROVE  IndInv'
<1>1. /\ Active /\ Types /\ PendingInv /\ MetInv /\ FrameInv
      /\ moves \in Seq(Move) /\ store \in Store
  BY DEF IndInv, NextSweep, SweepOver, Active, Files, Types
<1>2. i' = 1 /\ progress' = FALSE /\ UNCHANGED <<input, phase, moves, store>>
  BY DEF NextSweep
<1>3. SweepInv' /\ i' \in 1..(Len(moves') + 1)
  BY <1>1, <1>2 DEF SweepInv
<1>4. PendingInv' /\ MetInv' /\ FrameInv'
  BY <1>1, <1>2, SameCopy
<1> QED
  BY <1>1, <1>2, <1>3, <1>4, WithinCopy

\* The source of a stuck copy goes to the hold register, which is free: its readers read
\* the same value there.
LEMMA StageKeeps ==
  ASSUME IndInv, NarrowInput(input), StageSource
  PROVE  IndInv'
<1>1. /\ Active /\ Types /\ PendingInv /\ MetInv /\ FrameInv /\ SweepInv /\ moves \in Seq(Move)
      /\ store \in Store /\ phase \in Files /\ SweepOver /\ ~progress
  BY DEF IndInv, StageSource, SweepOver, Active, Files, Types
<1>2. PICK n \in Nat : n = Len(moves) /\ n # 0 /\ DOMAIN moves = 1..n
  BY <1>1 DEF SweepOver
<1> DEFINE hold == <<phase, Hold>>
           held == {k \in DOMAIN moves : ~PlaceSameLoc(moves[k].src, hold)}
<1>3. hold \in Sources /\ hold \notin Targets /\ hold = HoldAt(phase)
  <2>1. hold = HoldAt(phase) /\ hold[1] = phase /\ hold[2] = Hold
    BY DEF HoldAt
  <2>2. hold \in Sources
    BY <1>1, <2>1 DEF Sources, Files
  <2> QED
    BY <1>1, <2>1, <2>2, TargetShape DEF Files
<1>4. ASSUME NEW j \in 1..n PROVE moves[j].src \in Sources /\ moves[j].src # hold
  <2>1. PICK a \in 1..n : moves[j].src = moves[a].dst
    BY <1>1, <1>2, CyclesRemain
  <2> QED
    BY <1>1, <1>2, <1>3, <2>1, MoveFields
<1>5. held = 1..n
  BY <1>2, <1>4 DEF PlaceSameLoc
<1>6. held # {} /\ FirstOf(held) \in 1..n
  <2> HIDE DEF held
  <2>1. held # {} /\ held \subseteq Nat
    BY <1>2, <1>5
  <2>2. FirstOf(held) \in held
    BY <2>1, FirstIsOne
  <2> QED
    BY <1>5, <2>1, <2>2
<1>7. PICK k, cyc, mv : /\ k = FirstOf(held) /\ cyc = moves[k].src
                        /\ mv = [src |-> cyc, dst |-> hold, ext |-> Full, wide |-> moves[k].wide]
  OBVIOUS
<1>8. /\ store' = Moved(store, mv, phase)
      /\ moves' = [j \in DOMAIN moves |->
                     IF PlaceSameLoc(moves[j].src, cyc) THEN [moves[j] EXCEPT !.src = hold]
                                                        ELSE moves[j]]
      /\ i' = 1 /\ progress' = progress /\ input' = input /\ phase' = phase
  BY <1>6, <1>7 DEF StageSource
<1>9. k \in 1..n /\ cyc \in Sources /\ cyc # hold
  BY <1>4, <1>6, <1>7
<1>10. /\ mv.src = cyc /\ mv.dst = hold /\ mv.ext = Full /\ mv.wide = FALSE
       /\ Full \in Widths
  BY <1>1, <1>2, <1>7, <1>9, MoveFields DEF Full, Widths
<1>11. /\ store' \in Store
       /\ store'[Unit(hold)] = Extend(store[Unit(cyc)], Full)
       /\ \A q \in Sources : q # hold => store'[Unit(q)] = store[Unit(q)]
       /\ \A u \in Units \ (Scratch \cup Reach(hold)) : store'[u] = store[u]
  <2> HIDE DEF hold
  <2>1. mv.src \in Sources /\ mv.dst \in Sources /\ mv.ext \in Widths
    BY <1>3, <1>9, <1>10
  <2>2. Made(store, store', mv)
    BY <1>1, <1>8, <1>10, <2>1, AfterMove
  <2> QED
    BY <1>10, <2>2 DEF Made
<1>12. store'[Unit(hold)] = store[Unit(cyc)]
  <2>1. store[Unit(cyc)] \in Value
    BY <1>1, <1>9, UnitOfPlace DEF Store
  <2> QED
    BY <1>10, <1>11, <2>1, ExtendValue
<1> HIDE DEF hold, held
<1>13. ASSUME NEW j \in 1..n
       PROVE  /\ moves'[j] \in Move
              /\ moves'[j].dst = moves[j].dst /\ moves'[j].ext = moves[j].ext
              /\ store'[Unit(moves'[j].src)] = store[Unit(moves[j].src)]
  <2>1. moves[j] \in Move
    BY <1>1, <1>2, MoveFields
  <2>2. CASE moves[j].src = cyc
    <3>1. moves'[j] = [moves[j] EXCEPT !.src = hold]
      BY <1>2, <1>8, <2>2 DEF PlaceSameLoc
    <3>2. /\ moves'[j] \in Move /\ moves'[j].src = hold
          /\ moves'[j].dst = moves[j].dst /\ moves'[j].ext = moves[j].ext
      BY <1>3, <2>1, <3>1, Redirected
    <3> QED
      BY <1>12, <2>2, <3>2
  <2>3. CASE moves[j].src # cyc
    <3>1. moves'[j] = moves[j]
      BY <1>2, <1>8, <2>3 DEF PlaceSameLoc
    <3> QED
      BY <1>4, <1>11, <2>1, <3>1
  <2> QED
    BY <2>2, <2>3
<1>14. moves' \in Seq(Move) /\ Len(moves') = n
  <2>1. moves' = [j \in 1..n |-> moves'[j]]
    BY <1>2, <1>8
  <2>2. moves' \in [1..n -> Move]
    BY <1>13, <2>1
  <2> QED
    BY <2>2
<1>15. \A j, a \in 1..Len(moves') : moves'[j].dst = moves'[a].dst => j = a
  BY <1>1, <1>2, <1>13, <1>14 DEF PendingInv
<1>16. \A u \in Units \ Scratch : store'[u] = store[u]
  BY <1>1, <1>3, <1>11, ScratchApart
<1>17. PendingInv' /\ MetInv' /\ FrameInv'
  <2>1. \A j \in 1..Len(moves') : \E a \in 1..Len(moves) :
          /\ moves'[j].dst = moves[a].dst /\ moves'[j].ext = moves[a].ext
          /\ store'[Unit(moves'[j].src)] = store[Unit(moves[a].src)]
    BY <1>2, <1>13, <1>14
  <2>2. \A a \in 1..Len(moves) : \E j \in 1..Len(moves') : moves'[j].dst = moves[a].dst
    BY <1>2, <1>13, <1>14
  <2> QED
    BY <1>1, <1>8, <1>14, <1>15, <1>16, <2>1, <2>2, StepKeeps
<1>18. SweepInv' /\ i' \in 1..(Len(moves') + 1) /\ progress' \in BOOLEAN
  BY <1>1, <1>2, <1>8, <1>14 DEF SweepInv, Types
<1> QED
  BY <1>1, <1>8, <1>11, <1>14, <1>17, <1>18, WithinCopy

\* An exchange makes the first move of a stuck copy that it can stand for, and the reader
\* of the other register reads its value where it went.
LEMMA ExchangeKeeps ==
  ASSUME IndInv, NarrowInput(input), ExchangePair
  PROVE  IndInv'
<1>1. /\ Active /\ Types /\ PendingInv /\ MetInv /\ FrameInv /\ SweepInv /\ moves \in Seq(Move)
      /\ store \in Store /\ phase \in Files /\ SweepOver /\ ~progress
  BY DEF IndInv, ExchangePair, SweepOver, Active, Files, Types
<1>2. PICK n \in Nat : n = Len(moves) /\ DOMAIN moves = 1..n
  BY <1>1
<1>3. PICK k, s, t : k = FirstOf(Pairs) /\ s = moves[k].src /\ t = moves[k].dst
  OBVIOUS
<1>4. k \in Pairs
  <2>1. Pairs # {}
    BY DEF ExchangePair
  <2>2. Pairs \subseteq Nat
    BY <1>2 DEF Pairs
  <2> QED
    BY <1>3, <2>1, <2>2, FirstIsOne
<1>5. k \in 1..n /\ moves[k].ext = Full
  BY <1>2, <1>4 DEF Pairs
<1>6. PICK swapped : swapped = [j \in DOMAIN moves |->
        IF j = k THEN [moves[j] EXCEPT !.src = t]
        ELSE IF PlaceSameLoc(moves[j].src, t) THEN [moves[j] EXCEPT !.src = s]
        ELSE moves[j]]
  OBVIOUS
<1>7. /\ store' = [store EXCEPT ![UnitAt(s, 0)] = store[UnitAt(t, 0)],
                                ![UnitAt(t, 0)] = store[UnitAt(s, 0)]]
      /\ moves' = Retain(swapped)
      /\ i' = 1 /\ input' = input /\ phase' = phase /\ progress' = progress
  BY <1>3, <1>6 DEF ExchangePair
<1>8. s \in Sources /\ t \in Targets /\ t \in Sources /\ s \in Targets
  <2>1. PICK a \in 1..n : moves[k].src = moves[a].dst
    BY <1>1, <1>2, <1>5, CyclesRemain
  <2> QED
    BY <1>1, <1>2, <1>3, <1>5, <2>1, MoveFields
<1>9. ASSUME NEW j \in 1..n, moves[j].src = s PROVE j = k
  BY <1>1, <1>2, <1>3, <1>5, <1>9, CyclesRemain
<1>10. Unit(s) \in Units /\ Unit(t) \in Units /\ store \in [Units -> Value]
  BY <1>1, <1>8, UnitOfPlace DEF Store
<1>11. /\ store'[Unit(t)] = store[Unit(s)] /\ store'[Unit(s)] = store[Unit(t)]
       /\ \A u \in Units : u # Unit(s) /\ u # Unit(t) => store'[u] = store[u]
       /\ store' \in [Units -> Value]
  <2>1. store' = [store EXCEPT ![Unit(s)] = store[Unit(t)], ![Unit(t)] = store[Unit(s)]]
    BY <1>7 DEF Unit
  <2> QED
    BY <1>10, <2>1
<1>12. \A q \in Sources : q # s /\ q # t => store'[Unit(q)] = store[Unit(q)]
  BY <1>8, <1>11, UnitsApart, UnitOfPlace
<1>13. ASSUME NEW j \in 1..n
       PROVE  /\ swapped[j] \in Move
              /\ swapped[j].dst = moves[j].dst /\ swapped[j].ext = moves[j].ext
              /\ store'[Unit(swapped[j].src)] = store[Unit(moves[j].src)]
  <2>1. moves[j] \in Move /\ moves[j].src \in Sources
    BY <1>1, <1>2, MoveFields
  <2>2. CASE j = k
    <3>1. swapped[j] = [moves[j] EXCEPT !.src = t]
      BY <1>2, <1>6, <2>2
    <3>2. /\ swapped[j] \in Move /\ swapped[j].src = t
          /\ swapped[j].dst = moves[j].dst /\ swapped[j].ext = moves[j].ext
      BY <1>8, <2>1, <3>1, Redirected
    <3> QED
      BY <1>3, <1>11, <2>2, <3>2
  <2>3. CASE j # k /\ moves[j].src = t
    <3>1. swapped[j] = [moves[j] EXCEPT !.src = s]
      BY <1>2, <1>6, <2>3 DEF PlaceSameLoc
    <3>2. /\ swapped[j] \in Move /\ swapped[j].src = s
          /\ swapped[j].dst = moves[j].dst /\ swapped[j].ext = moves[j].ext
      BY <1>8, <2>1, <3>1, Redirected
    <3> QED
      BY <1>11, <2>3, <3>2
  <2>4. CASE j # k /\ moves[j].src # t
    <3>1. swapped[j] = moves[j]
      BY <1>2, <1>6, <2>4 DEF PlaceSameLoc
    <3>2. moves[j].src # s
      BY <1>9, <2>4
    <3> QED
      BY <1>12, <2>1, <2>4, <3>1, <3>2
  <2> QED
    BY <2>2, <2>3, <2>4
<1>14. swapped \in Seq(Move) /\ DOMAIN swapped = 1..n
  <2>1. DOMAIN swapped = 1..n /\ swapped = [j \in 1..n |-> swapped[j]]
    BY <1>2, <1>6
  <2>2. swapped \in [1..n -> Move]
    BY <1>13, <2>1
  <2> QED
    BY <2>1, <2>2
<1>15. moves' \in Seq(Move) /\ Retained(swapped, moves')
  BY <1>7, <1>14, RetainKeeps
<1>16. DOMAIN moves' = 1..Len(moves')
  BY <1>15
<1>17. \A j, a \in 1..n : swapped[j].dst = swapped[a].dst => j = a
  BY <1>1, <1>2, <1>13 DEF PendingInv
<1>18. /\ \A j \in 1..Len(moves') : \E a \in 1..n : moves'[j] = swapped[a]
       /\ \A a \in 1..n : ~IsNop(swapped[a]) => \E j \in 1..Len(moves') : moves'[j] = swapped[a]
       /\ \A j, a \in 1..Len(moves') : moves'[j].dst = moves'[a].dst => j = a
  BY <1>14, <1>15, <1>16, <1>17 DEF Retained
<1>19. \A j \in 1..Len(moves') : \E a \in 1..Len(moves) :
         /\ moves'[j].dst = moves[a].dst /\ moves'[j].ext = moves[a].ext
         /\ store'[Unit(moves'[j].src)] = store[Unit(moves[a].src)]
  <2> SUFFICES ASSUME NEW j \in 1..Len(moves')
               PROVE  \E a \in 1..Len(moves) :
                        /\ moves'[j].dst = moves[a].dst /\ moves'[j].ext = moves[a].ext
                        /\ store'[Unit(moves'[j].src)] = store[Unit(moves[a].src)]
    OBVIOUS
  <2>1. PICK a \in 1..n : moves'[j] = swapped[a]
    BY <1>18
  <2> QED
    BY <1>2, <1>13, <2>1
<1>20. \A a \in 1..Len(moves) :
         \/ \E j \in 1..Len(moves') : moves'[j].dst = moves[a].dst
         \/ store'[Unit(moves[a].dst)] = Extend(store[Unit(moves[a].src)], moves[a].ext)
  <2> SUFFICES ASSUME NEW a \in 1..n,
                      ~\E j \in 1..Len(moves') : moves'[j].dst = moves[a].dst
               PROVE  store'[Unit(moves[a].dst)]
                        = Extend(store[Unit(moves[a].src)], moves[a].ext)
    BY <1>2
  <2>1. IsNop(swapped[a])
    BY <1>13, <1>18
  <2>2. moves[a].ext = Full /\ swapped[a].src = moves[a].dst
    BY <1>13, <2>1 DEF IsNop, PlaceSameLoc
  <2>3. store'[Unit(moves[a].dst)] = store[Unit(moves[a].src)]
    BY <1>13, <2>2
  <2>4. store[Unit(moves[a].src)] \in Value /\ Full \in Widths
    BY <1>1, <1>2, <1>10, MoveFields, UnitOfPlace DEF Full, Widths
  <2> QED
    BY <2>2, <2>3, <2>4, ExtendValue
<1>21. \A u \in Units \ Scratch :
         (\A a \in 1..Len(moves) : u \notin Reach(moves[a].dst)) => store'[u] = store[u]
  <2>1. PICK a \in 1..n : s = moves[a].dst
    BY <1>1, <1>2, <1>3, <1>5, CyclesRemain
  <2>2. Unit(s) \in Reach(s) /\ Unit(t) \in Reach(t)
    BY DEF Unit, Reach, UnitsOf, Halves
  <2> QED
    BY <1>2, <1>3, <1>5, <1>11, <2>1, <2>2
<1>22. PendingInv' /\ MetInv' /\ FrameInv'
  BY <1>1, <1>7, <1>15, <1>18, <1>19, <1>20, <1>21, StepKeeps
<1>23. SweepInv' /\ i' \in 1..(Len(moves') + 1) /\ progress' \in BOOLEAN
  BY <1>1, <1>7, <1>15 DEF SweepInv, Types
<1> QED
  BY <1>1, <1>7, <1>11, <1>15, <1>22, <1>23, WithinCopy DEF Store

-----------------------------------------------------------------------------
(* From one copy to the next *)

\* A copy whose sources are as on entry begins with its self-moves done and the others
\* pending.
LEMMA CopyBegins ==
  ASSUME NEW c \in Seq(Move), Types,
         \A j, k \in DOMAIN c : c[j].dst = c[k].dst => j = k,
         \A m \in Range(c) : store[Unit(m.src)] = OnEntry(Unit(m.src)),
         moves' = Retain(c), store' = store, Copy' = c
  PROVE  /\ moves' \in Seq(Move)
         /\ PendingInv'
         /\ \A m \in Range(c) : Meets(m)' \/ \E j \in 1..Len(moves') : moves'[j].dst = m.dst
<1>1. moves' \in Seq(Move) /\ Retained(c, moves')
  BY RetainKeeps
<1>2. DOMAIN moves' = 1..Len(moves')
  BY <1>1
<1>3. \A j, k \in 1..Len(moves') : moves'[j].dst = moves'[k].dst => j = k
  BY <1>1, <1>2 DEF Retained
<1>4. ASSUME NEW j \in 1..Len(moves') PROVE \E m \in Range(c) : Stands(moves[j], m)'
  <2>1. PICK k \in DOMAIN c : moves'[j] = c[k]
    BY <1>1, <1>2 DEF Retained
  <2>2. c[k] \in Range(c)
    BY DEF Range
  <2> QED
    BY <2>1, <2>2 DEF Stands
<1>5. ASSUME NEW m \in Range(c) PROVE Meets(m)' \/ \E j \in 1..Len(moves') : moves'[j].dst = m.dst
  <2>1. PICK k \in DOMAIN c : m = c[k]
    BY DEF Range
  <2>2. CASE ~IsNop(m)
    BY <1>1, <1>2, <2>1, <2>2 DEF Retained
  <2>3. CASE IsNop(m)
    <3>1. m \in Move
      BY <2>1
    <3>2. m.ext = Full /\ m.src = m.dst /\ m.src \in Sources /\ m.ext \in Widths
      BY <2>3, <3>1 DEF IsNop, PlaceSameLoc, Move
    <3>3. OnEntry(Unit(m.src)) \in Value
      BY <3>2, UnitOfPlace, NamedValues
    <3>4. Extend(OnEntry(Unit(m.src)), m.ext) = OnEntry(Unit(m.src))
      BY <3>2, <3>3, ExtendValue
    <3> QED
      BY <3>2, <3>4 DEF Meets
  <2> QED
    BY <2>2, <2>3
<1> QED
  BY <1>1, <1>3, <1>4, <1>5 DEF PendingInv

\* The integer copy begins on the store of the edge's entry, or is refused.
LEMMA StartIntKeeps ==
  ASSUME IndInv, NarrowInput(input), StartInt
  PROVE  IndInv'
<1>1. /\ Types /\ phase = "start" /\ moves = <<>> /\ i = 1 /\ progress = FALSE
      /\ \A u \in Units : store[u] = OnEntry(u)
  BY DEF IndInv, StartInt
<1>2. UNCHANGED <<input, i, progress, store>>
  BY DEF StartInt
<1>3. CASE phase' = "refused" /\ UNCHANGED moves
  BY <1>1, <1>2, <1>3 DEF IndInv, Types, Active, Files, CopyMeaning
<1>4. CASE phase' = "int" /\ moves' = Retain(input.int)
  <2>1. /\ input.int \in Seq(Move) /\ Copy' = input.int /\ Range(input.int) \subseteq Move
        /\ \A j, k \in DOMAIN input.int : input.int[j].dst = input.int[k].dst => j = k
    BY <1>2, <1>4, CopyFacts DEF Copy
  <2>2. \A m \in Range(input.int) : store[Unit(m.src)] = OnEntry(Unit(m.src))
    BY <1>1, <2>1, UnitOfPlace DEF Move
  <2>3. /\ moves' \in Seq(Move) /\ PendingInv'
        /\ \A m \in Range(input.int) :
             Meets(m)' \/ \E j \in 1..Len(moves') : moves'[j].dst = m.dst
    BY <1>1, <1>2, <1>4, <2>1, <2>2, CopyBegins
  <2>4. MetInv'
    BY <1>4, <2>1, <2>3 DEF MetInv
  <2>5. FrameInv'
    BY <1>1, <1>2 DEF FrameInv, Touched
  <2>6. SweepInv' /\ i' \in 1..(Len(moves') + 1)
    BY <1>1, <1>2, <2>3 DEF SweepInv
  <2>7. Types'
    BY <1>1, <1>2, <1>4, <2>3, <2>6 DEF Types, Files
  <2> QED
    BY <1>4, <2>3, <2>4, <2>5, <2>6, <2>7 DEF IndInv, CopyMeaning
<1> QED
  BY <1>3, <1>4 DEF StartInt

\* The floating copy begins when the integer one is done, which wrote none of its sources.
LEMMA StartFpKeeps ==
  ASSUME IndInv, NarrowInput(input), StartFp
  PROVE  IndInv'
<1>1. /\ Types /\ phase = "int" /\ moves = <<>> /\ MetInv /\ FrameInv /\ store \in Store
  BY DEF IndInv, StartFp, Active, Files, Types
<1>2. /\ phase' = "fp" /\ moves' = Retain(input.fp) /\ i' = 1 /\ progress' = FALSE
      /\ UNCHANGED <<input, store>>
  BY DEF StartFp
<1>3. /\ input.fp \in Seq(Move) /\ Copy' = input.fp /\ Range(input.fp) \subseteq Move
      /\ \A j, k \in DOMAIN input.fp : input.fp[j].dst = input.fp[k].dst => j = k
      /\ Range(input.int) \subseteq Move
      /\ \A m \in Range(input.int) : \A f \in Range(input.fp) : m.dst \notin {f.src, f.dst}
  BY <1>2, CopyFacts DEF Copy
<1>4. ASSUME NEW f \in Range(input.fp) PROVE store[Unit(f.src)] = OnEntry(Unit(f.src))
  <2>1. f.src \in Targets
    <3>1. PICK S : /\ S = [src : FpPlaces(FALSE), dst : FpPlaces(FALSE), ext : {Full},
                            wide : {FALSE}]
                   /\ input.fp \in Seq(S)
      BY DEF NarrowInput
    <3>2. f \in S
      BY <3>1, RangeWithin
    <3> QED
      BY <3>1, <3>2 DEF Targets
  <2>2. Unit(f.src) \in Units \ Scratch
    BY <2>1, UnitOfPlace, ScratchApart DEF Sources
  <2>3. ASSUME NEW m \in Range(input.int) PROVE Unit(f.src) \notin Reach(m.dst)
    <3>1. m.dst # f.src /\ m.dst \in Sources /\ f.src \in Sources
      BY <1>3, <2>1 DEF Move, Sources
    <3> QED
      BY <3>1, ReachApart
  <2> QED
    BY <1>1, <2>2, <2>3 DEF FrameInv, Touched
<1>5. /\ moves' \in Seq(Move) /\ PendingInv'
      /\ \A m \in Range(input.fp) : Meets(m)' \/ \E j \in 1..Len(moves') : moves'[j].dst = m.dst
  BY <1>1, <1>2, <1>3, <1>4, CopyBegins
<1>6. \A m \in Range(input.int) : Meets(m)
  BY <1>1 DEF MetInv, Copy
<1>7. MetInv'
  BY <1>2, <1>3, <1>5, <1>6 DEF MetInv, Meets
<1>8. FrameInv'
  BY <1>1, <1>2 DEF FrameInv, Touched
<1>9. SweepInv' /\ i' \in 1..(Len(moves') + 1)
  BY <1>2, <1>5 DEF SweepInv
<1>10. Types'
  BY <1>1, <1>2, <1>5, <1>9 DEF Types, Files
<1> QED
  BY <1>2, <1>5, <1>7, <1>8, <1>9, <1>10 DEF IndInv, CopyMeaning

\* The constants go to places nothing else writes, and the copies are done.
LEMMA ConstantsKeep ==
  ASSUME IndInv, NarrowInput(input), LoadConstants
  PROVE  IndInv'
<1>1. /\ Types /\ phase = "fp" /\ moves = <<>> /\ MetInv /\ FrameInv /\ store \in Store
  BY DEF IndInv, LoadConstants, Active, Files, Types
<1>2. phase' = "done" /\ UNCHANGED <<input, moves, i, progress>>
  BY DEF LoadConstants
<1> DEFINE cs == Range(input.const)
           ms == Range(input.int) \cup Range(input.fp)
           Of(u) == \E d \in cs : u \in UnitsOf(d.dst, d.wide)
<1>3. ASSUME NEW d \in cs
      PROVE  /\ d.dst \in Targets /\ d.wide = FALSE
             /\ UnitsOf(d.dst, d.wide) = {Unit(d.dst)} /\ Unit(d.dst) \in Reach(d.dst)
  <2>1. PICK S : S = [dst : FpPlaces(FALSE), wide : {FALSE}] /\ input.const \in Seq(S)
    BY DEF NarrowInput
  <2>2. d \in S
    BY <2>1, RangeWithin
  <2>3. d.dst \in Targets /\ d.wide = FALSE
    BY <2>1, <2>2 DEF Targets
  <2> QED
    BY <2>3 DEF UnitsOf, Halves, Unit, Reach
<1>4. ASSUME NEW u \in Units
      PROVE  /\ Of(u) => \E d \in cs : store'[u] = Constant(d.dst)
             /\ ~Of(u) => store'[u] \in {Junk, store[u]}
             /\ ~Of(u) /\ u \notin Scratch => store'[u] = store[u]
  BY DEF LoadConstants
<1>5. store' = [u \in Units |-> store'[u]]
  BY DEF LoadConstants
<1> HIDE DEF Of
<1>6. store' \in Store
  <2>1. ASSUME NEW u \in Units PROVE store'[u] \in Value
    <3>1. CASE Of(u)
      BY <1>3, <1>4, <3>1, NamedValues
    <3>2. CASE ~Of(u)
      BY <1>1, <1>4, <3>2, NamedValues DEF Store
    <3> QED
      BY <3>1, <3>2
  <2> QED
    BY <1>5, <2>1 DEF Store
<1>7. ms \subseteq Move
  BY CopyFacts
<1>8. \A m \in ms : Meets(m)
  BY <1>1 DEF MetInv, Copy
<1>9. ASSUME NEW m \in ms PROVE Meets(m)'
  <2>1. m.dst \in Targets /\ m.dst \in Sources
    BY <1>7 DEF Move, Sources
  <2>2. Unit(m.dst) \in Units /\ Unit(m.dst) \notin Scratch
    BY <2>1, UnitOfPlace, ScratchApart
  <2>3. ASSUME NEW d \in cs PROVE Unit(m.dst) \notin UnitsOf(d.dst, d.wide)
    <3>1. m.dst # d.dst
      BY DEF NarrowInput
    <3>2. d.dst \in Sources
      BY <1>3 DEF Sources
    <3> QED
      BY <1>3, <2>1, <3>1, <3>2, UnitsApart
  <2>4. ~Of(Unit(m.dst))
    BY <2>3 DEF Of
  <2> QED
    BY <1>4, <1>8, <2>2, <2>4 DEF Meets
<1>10. ASSUME NEW u \in Units \ Scratch, store'[u] # OnEntry(u)
       PROVE  \E m \in ms \cup cs : u \in UnitsOf(m.dst, m.wide \/ m.dst[1] = "fp")
  <2>1. CASE Of(u)
    <3>1. PICK d \in cs : u \in UnitsOf(d.dst, d.wide)
      BY <2>1 DEF Of
    <3>2. u \in UnitsOf(d.dst, d.dst[1] = "fp")
      BY <1>3, <3>1 DEF Reach
    <3>3. (d.wide \/ d.dst[1] = "fp") = (d.dst[1] = "fp")
      BY <1>3
    <3> QED
      BY <3>2, <3>3
  <2>2. CASE ~Of(u)
    <3>1. store[u] # OnEntry(u)
      BY <1>4, <1>10, <2>2
    <3>2. PICK m \in ms : u \in Reach(m.dst)
      BY <1>1, <3>1 DEF FrameInv, Touched
    <3>3. m.wide = FALSE
      BY <1>7 DEF Move
    <3>4. (m.wide \/ m.dst[1] = "fp") = (m.dst[1] = "fp")
      BY <3>3
    <3> QED
      BY <3>2, <3>4 DEF Reach
  <2> QED
    BY <2>1, <2>2
<1>11. ASSUME NEW m \in ms, NEW h \in Halves(m.wide)
       PROVE  store'[UnitAt(m.dst, h)] = Extend(OnEntry(UnitAt(m.src, h)), m.ext)
  <2>1. m.wide = FALSE
    BY <1>7 DEF Move
  <2>2. h = 0
    BY <2>1 DEF Halves
  <2> QED
    BY <1>9, <2>2 DEF Meets, Unit
<1>12. CopyMeaning'
  BY <1>2, <1>10, <1>11 DEF CopyMeaning
<1>13. Types'
  BY <1>1, <1>2, <1>6 DEF Types
<1> QED
  BY <1>2, <1>12, <1>13 DEF IndInv, Active, Files

-----------------------------------------------------------------------------
(* The theorems *)

\* The states a behaviour starts in satisfy the invariant.
LEMMA IndInvInit == Init => IndInv
<1> SUFFICES ASSUME Init PROVE IndInv
  OBVIOUS
<1>1. store \in Store /\ \A u \in Units : store[u] = OnEntry(u)
  BY NamedValues DEF Init, Store
<1>2. moves \in Seq(Move) /\ Len(moves) = 0
  BY DEF Init
<1>3. i \in 1..(Len(moves) + 1)
  BY <1>2 DEF Init
<1>4. Types
  BY <1>1, <1>2, <1>3 DEF Init, Types
<1> QED
  BY <1>1, <1>4 DEF Init, IndInv, Active, Files, CopyMeaning

\* Every step preserves the invariant.
LEMMA IndInvStep ==
  ASSUME NarrowInputs, IndInv, [Next]_vars
  PROVE  IndInv'
<1>0. NarrowInput(input)
  BY DEF NarrowInputs, IndInv, Types
<1>1. CASE StartInt
  BY <1>0, <1>1, StartIntKeeps
<1>2. CASE EmitMove
  BY <1>0, <1>2, EmitKeeps
<1>3. CASE SkipMove
  BY <1>3, SkipKeeps
<1>4. CASE NextSweep
  BY <1>4, SweepKeeps
<1>5. CASE ExchangePair
  BY <1>0, <1>5, ExchangeKeeps
<1>6. CASE StageSource
  BY <1>0, <1>6, StageKeeps
<1>7. CASE StartFp
  BY <1>0, <1>7, StartFpKeeps
<1>8. CASE LoadConstants
  BY <1>0, <1>8, ConstantsKeep
<1>9. CASE UNCHANGED vars
  <2>1. UNCHANGED <<input, phase, moves, i, progress, store>>
    BY <1>9 DEF vars
  <2>2. Types' /\ CopyMeaning'
    BY <2>1 DEF IndInv, Types, CopyMeaning
  <2>3. CASE Active
    <3>1. SweepInv'
      BY <2>1, <2>3 DEF IndInv, SweepInv, TargetStillASource
    <3> QED
      BY <2>1, <2>2, <2>3, <3>1, SameCopy DEF IndInv, Active, Files
  <2>4. CASE ~Active
    BY <2>1, <2>2, <2>4 DEF IndInv, Active
  <2> QED
    BY <2>3, <2>4
<1> QED
  BY <1>1, <1>2, <1>3, <1>4, <1>5, <1>6, <1>7, <1>8, <1>9 DEF Next, Step, Done

\* The inductive invariant holds throughout, for any number of narrow moves.
THEOREM Inductive == NarrowInputs => (Spec => []IndInv)
<1> SUFFICES ASSUME NarrowInputs PROVE Spec => []IndInv
  OBVIOUS
<1>1. IndInv /\ [Next]_vars => IndInv'
  BY IndInvStep
<1> QED
  BY <1>1, IndInvInit, PTL DEF Spec

\* The sweep's index stays within the pending moves while swap_remove shortens them, and
\* every value keeps one of the code's widths.
THEOREM TypeCorrect == NarrowInputs => (Spec => []TypeOK)
<1>1. IndInv => TypeOK
  <2> SUFFICES ASSUME IndInv PROVE TypeOK
    OBVIOUS
  <2>1. Types
    BY DEF IndInv
  <2>2. \A u \in Units : store[u].width \in Widths
    BY <2>1 DEF Types, Store, Value
  <2> QED
    BY <2>1, <2>2 DEF TypeOK, Types, Files
<1> QED
  BY <1>1, Inductive, PTL

\* When a sweep of either scheduler emits nothing, only cycles of moves are pending and the
\* hold register is free, as the comments in the code say; for any number of narrow moves.
THEOREM OnlyCycles == NarrowInputs => (Spec => []OnlyCyclesRemain)
<1>1. IndInv => OnlyCyclesRemain
  <2> SUFFICES ASSUME IndInv, SweepOver, ~progress
               PROVE  /\ {moves[j].src : j \in DOMAIN moves} = {moves[j].dst : j \in DOMAIN moves}
                      /\ \A j, k \in DOMAIN moves : moves[j].src = moves[k].src => j = k
    BY DEF OnlyCyclesRemain
  <2>1. Types /\ Active /\ PendingInv /\ SweepInv /\ DOMAIN moves = 1..Len(moves)
    BY DEF IndInv, SweepOver, Active, Files, Types
  <2>2. /\ \A k \in 1..Len(moves) : \E j \in 1..Len(moves) : moves[j].src = moves[k].dst
        /\ \A j \in 1..Len(moves) : \E k \in 1..Len(moves) : moves[j].src = moves[k].dst
        /\ \A j, k \in 1..Len(moves) : moves[j].src = moves[k].src => j = k
    BY <2>1, CyclesRemain
  <2>3. ASSUME NEW p
        PROVE  (\E j \in 1..Len(moves) : p = moves[j].src)
                 <=> (\E j \in 1..Len(moves) : p = moves[j].dst)
    <3>1. ASSUME NEW j \in 1..Len(moves), p = moves[j].src
          PROVE  \E k \in 1..Len(moves) : p = moves[k].dst
      BY <2>2, <3>1, Zenon
    <3>2. ASSUME NEW k \in 1..Len(moves), p = moves[k].dst
          PROVE  \E j \in 1..Len(moves) : p = moves[j].src
      <4>1. PICK j \in 1..Len(moves) : moves[j].src = moves[k].dst
        BY <2>2
      <4> QED
        BY <3>2, <4>1
    <3> QED
      BY <3>1, <3>2, Zenon
  <2>4. {moves[j].src : j \in DOMAIN moves} = {moves[j].dst : j \in DOMAIN moves}
    BY <2>1, <2>3
  <2> QED
    BY <2>1, <2>2, <2>4
<1> QED
  BY <1>1, Inductive, PTL

\* The code emitted for an edge has the meaning of its parallel copy, for any number of
\* narrow moves: every target ends with its source's value on entry, converted once, and
\* nothing else changes.
THEOREM CopiesRight == NarrowInputs => (Spec => []CopyMeaning)
<1>1. IndInv => CopyMeaning
  BY DEF IndInv
<1> QED
  BY <1>1, Inductive, PTL
=============================================================================
