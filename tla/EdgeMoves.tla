----------------------------- MODULE EdgeMoves ------------------------------
(* The moves of a control-flow edge: `emit_phi_predecessor_moves` of          *)
(* src/src/c5/codegen/ssa/emit_common.rs, which runs the integer parallel     *)
(* copy of the edge (`schedule_place_moves`), then the floating one           *)
(* (`schedule_fp_place_moves`), then the constants. The integer scheduler     *)
(* alone also places a function's parameters, with sign extensions.           *)
(*                                                                            *)
(* The schedulers emit instructions; the model executes each instruction as   *)
(* it is emitted, on a store of 64-bit units. A register or a spill slot of   *)
(* a narrow value is one unit, a 128-bit value is two: both halves of its     *)
(* vector register, or two neighbouring slots. A unit holds a value by name:  *)
(* the unit it was in when the edge was entered, and the width it was last    *)
(* sign-extended from.                                                        *)
EXTENDS Integers, Sequences, SequencesExt, FiniteSets

CONSTANTS
  IntRegs, FpRegs,  \* the allocatable registers of each file
  Slots,            \* the spill units, a set of numbers
  Inputs            \* the copies to schedule, each with its target's ability to
                    \* exchange two registers: x86-64 can, aarch64 cannot

\* The scratch registers, outside the allocator's banks.
Hold == "hold"
Stage == "stage"

ASSUME SlotsAssumption == Slots \subseteq Nat
ASSUME ScratchAssumption == {Hold, Stage} \cap (IntRegs \cup FpRegs) = {}

\* The width of a move that converts nothing, and of a value nothing converted.
Full == 64
Widths == {8, 16, 32, Full}

IntReg(r) == <<"int", r>>
FpReg(r) == <<"fp", r>>
Spill(s) == <<"spill", s>>

IntPlaces == {IntReg(r) : r \in IntRegs} \cup {Spill(s) : s \in Slots}
FpPlaces(wide) == {FpReg(r) : r \in FpRegs}
                  \cup {Spill(s) : s \in {s \in Slots : wide => s + 1 \in Slots}}

PlaceSameLoc(a, b) == a = b

\* Storage shared by two places: a wide spill spans two units.
PlacesOverlap(a, aWide, b, bWide) ==
  IF a[1] = "spill" /\ b[1] = "spill"
    THEN /\ a[2] < b[2] + (IF bWide THEN 2 ELSE 1)
         /\ b[2] < a[2] + (IF aWide THEN 2 ELSE 1)
    ELSE PlaceSameLoc(a, b)

-----------------------------------------------------------------------------
(* The store *)

\* The unit that holds half h of the value at a place.
UnitAt(p, h) == IF p[1] = "spill" THEN <<"spill", p[2] + h, 0>> ELSE <<p[1], p[2], h>>

Halves(wide) == IF wide THEN {0, 1} ELSE {0}
UnitsOf(p, wide) == {UnitAt(p, h) : h \in Halves(wide)}

Units == {<<"int", r, 0>> : r \in IntRegs \cup {Hold, Stage}}
         \cup {<<"fp", r, h>> : r \in FpRegs \cup {Hold, Stage}, h \in {0, 1}}
         \cup {<<"spill", s, 0>> : s \in Slots}

Scratch == {<<"int", r, 0>> : r \in {Hold, Stage}}
           \cup {<<"fp", r, h>> : r \in {Hold, Stage}, h \in {0, 1}}

Junk == [from |-> <<"junk">>, width |-> Full]
OnEntry(u) == [from |-> u, width |-> Full]
Constant(d) == [from |-> <<"const", d>>, width |-> Full]

\* A sign extension on top of another leaves the narrower of the two.
Extend(v, width) == [v EXCEPT !.width = IF width < @ THEN width ELSE @]

\* What writing `m` leaves in each unit. A store goes through the stage register;
\* a narrow write to a vector register says nothing of its upper half.
Moved(st, m, file) ==
  [u \in Units |->
     IF \E h \in Halves(m.wide) : u = UnitAt(m.dst, h)
       THEN Extend(st[UnitAt(m.src, CHOOSE h \in Halves(m.wide) : u = UnitAt(m.dst, h))], m.ext)
     ELSE IF m.dst[1] = "fp" /\ u \in UnitsOf(m.dst, TRUE) THEN Junk
     ELSE IF m.dst[1] = "spill" /\ u \in UnitsOf(<<file, Stage>>, TRUE) THEN Junk
     ELSE st[u]]

-----------------------------------------------------------------------------
(* The scheduler *)

VARIABLES
  input,     \* the edge's copies, as `edge_moves` collected them
  phase,     \* the copy being scheduled: "start", "int", "fp", then "done"; or "refused"
  moves,     \* its pending moves
  i,         \* the index of the sweep
  progress,  \* whether the sweep emitted a move
  store      \* what each unit holds

vars == <<input, phase, moves, i, progress, store>>

\* An integer extension in place is a write; a floating self-move never is.
IsNop(m) == m.ext = Full /\ PlaceSameLoc(m.src, m.dst)

\* What `Vec::retain` keeps, in order: the n-th move kept is the one that has n kept
\* ones up to it.
Retain(s) ==
  LET kept == {k \in DOMAIN s : ~IsNop(s[k])}
  IN  [n \in 1..Cardinality(kept) |->
         s[CHOOSE k \in kept : Cardinality({j \in kept : j <= k}) = n]]

Init == /\ input \in Inputs
        /\ phase = "start"
        /\ moves = <<>>
        /\ i = 1
        /\ progress = FALSE
        /\ store = [u \in Units |-> OnEntry(u)]

\* An integer copy with a floating endpoint is refused before anything is emitted.
StartInt ==
  /\ phase = "start"
  /\ IF \E m \in Range(Retain(input.int)) : "fp" \in {m.src[1], m.dst[1]}
       THEN phase' = "refused" /\ UNCHANGED moves
       ELSE phase' = "int" /\ moves' = Retain(input.int)
  /\ UNCHANGED <<input, i, progress, store>>

\* Variant: the readers before the move are taken to have been emitted.
TargetReadLater(k) ==
  \E j \in DOMAIN moves : j > k /\ PlaceSameLoc(moves[j].src, moves[k].dst)

\* Whether a pending move still reads what move k writes. The integer scheduler
\* leaves the move itself out, the floating one does not.
TargetStillASource(k) ==
  IF phase = "int"
    THEN \E j \in DOMAIN moves : j # k /\ PlaceSameLoc(moves[j].src, moves[k].dst)
    ELSE \E j \in DOMAIN moves : PlacesOverlap(moves[j].src, moves[j].wide,
                                               moves[k].dst, moves[k].wide)

\* The last move takes the place of the removed one.
SwapRemove(s, k) == [j \in 1..(Len(s) - 1) |-> IF j = k THEN s[Len(s)] ELSE s[j]]

\* Variant: the index moves on although another move took the removed one's place.
EmitAndAdvance ==
  /\ phase \in {"int", "fp"}
  /\ i <= Len(moves)
  /\ ~TargetStillASource(i)
  /\ store' = Moved(store, moves[i], phase)
  /\ moves' = SwapRemove(moves, i)
  /\ i' = i + 1
  /\ progress' = TRUE
  /\ UNCHANGED <<input, phase>>

\* Variant: the sweep is not told that it emitted a move.
EmitQuietly ==
  /\ phase \in {"int", "fp"}
  /\ i <= Len(moves)
  /\ ~TargetStillASource(i)
  /\ store' = Moved(store, moves[i], phase)
  /\ moves' = SwapRemove(moves, i)
  /\ UNCHANGED <<input, phase, i, progress>>

EmitMove ==
  /\ phase \in {"int", "fp"}
  /\ i <= Len(moves)
  /\ ~TargetStillASource(i)
  /\ store' = Moved(store, moves[i], phase)
  /\ moves' = SwapRemove(moves, i)
  /\ progress' = TRUE
  /\ UNCHANGED <<input, phase, i>>

SkipMove ==
  /\ phase \in {"int", "fp"}
  /\ i <= Len(moves)
  /\ TargetStillASource(i)
  /\ i' = i + 1
  /\ UNCHANGED <<input, phase, moves, progress, store>>

SweepOver == phase \in {"int", "fp"} /\ i > Len(moves) /\ moves # <<>>

\* Variant: the progress of one sweep is carried into the next.
SweepAgain ==
  /\ SweepOver
  /\ progress
  /\ i' = 1
  /\ UNCHANGED <<input, phase, moves, progress, store>>

NextSweep ==
  /\ SweepOver
  /\ progress
  /\ i' = 1
  /\ progress' = FALSE
  /\ UNCHANGED <<input, phase, moves, store>>

\* The moves a register exchange can stand for.
Pairs == {k \in DOMAIN moves : /\ phase = "int"
                               /\ moves[k].ext = Full
                               /\ moves[k].src[1] = "int"
                               /\ moves[k].dst[1] = "int"}

FirstOf(S) == CHOOSE k \in S : \A j \in S : k <= j

\* break_place_cycle: the registers of the first such move are exchanged, the
\* readers of its target read the other register, and the move is done.
ExchangePair ==
  /\ SweepOver
  /\ ~progress
  /\ input.xchg /\ Pairs # {}
  /\ LET k == FirstOf(Pairs)
         s == moves[k].src
         t == moves[k].dst
         swapped == [j \in DOMAIN moves |->
                       IF j = k THEN [moves[j] EXCEPT !.src = t]
                       ELSE IF PlaceSameLoc(moves[j].src, t) THEN [moves[j] EXCEPT !.src = s]
                       ELSE moves[j]]
     IN  /\ store' = [store EXCEPT ![UnitAt(s, 0)] = store[UnitAt(t, 0)],
                                   ![UnitAt(t, 0)] = store[UnitAt(s, 0)]]
         /\ moves' = Retain(swapped)
  /\ i' = 1
  /\ UNCHANGED <<input, phase, progress>>

\* One source of the cycle goes to the hold register, and its readers read that.
StageSource ==
  LET hold == <<phase, Hold>>
      held == {k \in DOMAIN moves : ~PlaceSameLoc(moves[k].src, hold)}
      k == IF held = {} THEN 1 ELSE FirstOf(held)
      cyc == moves[k].src
  IN  /\ SweepOver
      /\ ~progress
      /\ ~(input.xchg /\ Pairs # {})
      /\ store' = Moved(store, [src |-> cyc, dst |-> hold, ext |-> Full,
                                wide |-> moves[k].wide], phase)
      /\ moves' = [j \in DOMAIN moves |->
                     IF PlaceSameLoc(moves[j].src, cyc) THEN [moves[j] EXCEPT !.src = hold]
                                                        ELSE moves[j]]
      /\ i' = 1
      /\ UNCHANGED <<input, phase, progress>>

\* The integer copy is done; the floating copy of the edge follows.
StartFp ==
  /\ phase = "int"
  /\ moves = <<>>
  /\ phase' = "fp"
  /\ moves' = Retain(input.fp)
  /\ i' = 1
  /\ progress' = FALSE
  /\ UNCHANGED <<input, store>>

\* Then the constants that feed a floating phi are built in their places.
LoadConstants ==
  /\ phase = "fp"
  /\ moves = <<>>
  /\ phase' = "done"
  /\ store' = [u \in Units |->
                 IF \E d \in Range(input.const) : u \in UnitsOf(d.dst, d.wide)
                   THEN Constant((CHOOSE d \in Range(input.const) :
                                    u \in UnitsOf(d.dst, d.wide)).dst)
                 ELSE IF input.const # <<>> /\ u \in Scratch \ {UnitAt(<<"int", Hold>>, 0)} THEN Junk
                 ELSE store[u]]
  /\ UNCHANGED <<input, moves, i, progress>>

Done == phase \in {"done", "refused"} /\ UNCHANGED vars

Step == \/ StartInt \/ EmitMove \/ SkipMove \/ NextSweep \/ ExchangePair \/ StageSource
        \/ StartFp \/ LoadConstants

Next == Step \/ Done

Spec == Init /\ [][Next]_vars /\ WF_vars(Step)

-----------------------------------------------------------------------------
(* Properties *)

\* The copies of narrow values for which the schedule is right, any number of moves in
\* each: the moves and constants write apart, and the integer copy writes nothing that
\* the floating one reads.
NarrowInput(e) ==
  /\ e.int \in Seq([src : IntPlaces \cup FpPlaces(FALSE), dst : IntPlaces,
                    ext : Widths, wide : {FALSE}])
  /\ e.fp \in Seq([src : FpPlaces(FALSE), dst : FpPlaces(FALSE), ext : {Full}, wide : {FALSE}])
  /\ e.const \in Seq([dst : FpPlaces(FALSE), wide : {FALSE}])
  /\ \A s \in {e.int, e.fp} : \A j, k \in DOMAIN s : s[j].dst = s[k].dst => j = k
  /\ \A m \in Range(e.int) : \A f \in Range(e.fp) : m.dst \notin {f.src, f.dst}
  /\ \A d \in Range(e.const) : \A m \in Range(e.int) \cup Range(e.fp) : m.dst # d.dst

\* The sweep's index stays within the pending moves, one past the last at most, while
\* `swap_remove` shortens them under it; every value has one of the code's widths.
TypeOK ==
  /\ phase \in {"start", "int", "fp", "done", "refused"}
  /\ i \in 1..(Len(moves) + 1)
  /\ progress \in BOOLEAN
  /\ \A u \in Units : store[u].width \in Widths

\* A move's target ends with its source as it was on entry, converted once, and
\* nothing else that is not scratch changes: the meaning the code's own test
\* `check` gives a parallel copy.
CopyMeaning ==
  phase = "done" =>
    /\ \A m \in Range(input.int) \cup Range(input.fp) : \A h \in Halves(m.wide) :
         store[UnitAt(m.dst, h)] = Extend(OnEntry(UnitAt(m.src, h)), m.ext)
    /\ \A u \in Units \ Scratch :
         store[u] # OnEntry(u) =>
           \E m \in Range(input.int) \cup Range(input.fp) \cup Range(input.const) :
             u \in UnitsOf(m.dst, m.wide \/ m.dst[1] = "fp")

\* When a sweep emits nothing, what is left is cycles: the pending moves read and
\* write the same places, each source has one reader, and the hold register is
\* free. The comments in `schedule_fp_place_moves` and on `break_place_cycle`
\* rest on it.
OnlyCyclesRemain ==
  SweepOver /\ ~progress =>
    /\ {moves[j].src : j \in DOMAIN moves} = {moves[j].dst : j \in DOMAIN moves}
    /\ \A j, k \in DOMAIN moves : moves[j].src = moves[k].src => j = k

\* The schedule ends: a sweep that emits nothing breaks a cycle, and the move it
\* frees is emitted before the hold register is needed again.
Terminates == <>(phase \in {"done", "refused"})

=============================================================================
