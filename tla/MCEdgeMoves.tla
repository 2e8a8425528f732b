---------------------------- MODULE MCEdgeMoves -----------------------------
(* Every copy of up to MaxInt integer and MaxFp floating moves and MaxConst  *)
(* constants that the allocator can leave on an edge, and every one of up to *)
(* MaxParam moves that the entry of a function can ask for.                  *)
EXTENDS EdgeMoves

CONSTANTS MaxParam, MaxInt, MaxFp, MaxConst, MCWidths, MCWide

Copies(S, n) == UNION {[1..k -> S] : k \in 0..n}

\* An integer phi may name an operand the allocator put in the floating file.
Crossing == [src : {FpReg(r) : r \in FpRegs}, dst : IntPlaces, ext : {Full}, wide : {FALSE}]
IntMoves == [src : IntPlaces, dst : IntPlaces, ext : MCWidths, wide : {FALSE}]
\* A phi move converts nothing.
PhiMoves == {m \in IntMoves : m.ext = Full}
FpMoves == UNION {[src : FpPlaces(w), dst : FpPlaces(w), ext : {Full}, wide : {w}] : w \in MCWide}
Consts == UNION {[dst : FpPlaces(w), wide : {w}] : w \in MCWide}

Apart(p, q) == ~PlacesOverlap(p.place, p.wide, q.place, q.wide)

Target(m) == [place |-> m.dst, wide |-> m.wide]
Source(m) == [place |-> m.src, wide |-> m.wide]

\* No two moves write one place.
TargetsApart(s) == \A j, k \in DOMAIN s : j < k => Apart(Target(s[j]), Target(s[k]))

\* Two values live at one point share no storage: what a move reads is a value
\* live at the end of the predecessor, so two sources are one place or apart.
SourcesApart(s) ==
  \A j, k \in DOMAIN s : j < k => Source(s[j]) = Source(s[k]) \/ Apart(Source(s[j]), Source(s[k]))

\* `edge_moves` drops the moves that stay in place.
NoneInPlace(s) == \A j \in DOMAIN s : s[j].src # s[j].dst

\* The parameters of a function go from any register to any place.
ParamInputs ==
  [int : {s \in Copies(IntMoves, MaxParam) : TargetsApart(s)},
   fp : {<<>>}, const : {<<>>}, xchg : BOOLEAN]

\* One edge: every phi of the block is defined at one point, so the targets are
\* all apart, and every operand is live at one point, so the sources are.
EdgeInputs ==
  {e \in [int : {s \in Copies(PhiMoves \cup Crossing, MaxInt) :
                   TargetsApart(s) /\ SourcesApart(s) /\ NoneInPlace(s)},
          fp : {s \in Copies(FpMoves, MaxFp) :
                  TargetsApart(s) /\ SourcesApart(s) /\ NoneInPlace(s)},
          const : Copies(Consts, MaxConst), xchg : {FALSE}] :
     /\ TargetsApart(e.int \o e.fp \o e.const)
     /\ SourcesApart(e.int \o e.fp)}

\* The edges whose integer copy writes no slot the floating copy reads.
FilesApart(e) == \A m \in Range(e.int), f \in Range(e.fp) : Apart(Target(m), Source(f))

\* The edges whose places overlap only where they begin together.
InWhole(e) ==
  \A m, n \in Range(e.fp) : m.src = n.dst \/ Apart(Source(m), Target(n))

ApartInputs == {e \in EdgeInputs : FilesApart(e) /\ InWhole(e)}

SoundInputs == ParamInputs \cup ApartInputs

\* The narrow ones are among the copies the theorems are about.
Narrow(e) == \A m \in Range(e.fp) \cup Range(e.const) : ~m.wide
ASSUME NarrowAssumption == \A e \in SoundInputs : Narrow(e) => NarrowInput(e)
=============================================================================
