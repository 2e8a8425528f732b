----------------------------- MODULE UnitReplay -----------------------------
(* What `compile_units` promises its callers, whatever the scheduling: the   *)
(* per-unit logs reach stderr one by one in source order, the first failing  *)
(* unit ends the process with status 1 right after its log, and the caller   *)
(* gets the payloads back only when every unit compiled. This is the         *)
(* sequential driver (src/src/cli/compile.rs, the `workers <= 1` branch),    *)
(* with the compile of a unit and its replay taken as one step.              *)
EXTENDS Naturals, Sequences

CONSTANTS
  Results,      \* what a unit's compile can come to: of "ok", "err" and "panic"
  Stems,        \* the file stems the sources have
  SpawnMayFail  \* whether the host may refuse a thread

VARIABLES
  units,   \* the sources, in command-line order: a stem and a result each
  stderr,  \* the units whose logs were flushed, in flush order
  out,     \* the payloads collected for the caller
  status   \* "running", "returned", "exit1" or "panicked"

vars == <<units, stderr, out, status>>

Unit == [result : Results, stem : Stems]

\* An internal error that unwinds the driver instead of failing a unit.
MayPanic == SpawnMayFail \/ \E i \in 1..Len(units) : units[i].result = "panic"

Init == /\ units \in Seq(Unit)
        /\ stderr = <<>>
        /\ out = <<>>
        /\ status = "running"

\* The log of the next unit is flushed; its payload is kept, or the process ends.
ReplayNext ==
  LET i == Len(stderr) + 1
  IN  /\ status = "running"
      /\ i <= Len(units)
      /\ stderr' = Append(stderr, i)
      /\ \/ /\ units[i].result = "ok"
            /\ out' = Append(out, i)
            /\ UNCHANGED status
         \/ /\ units[i].result = "err"
            /\ status' = "exit1"
            /\ UNCHANGED out
      /\ UNCHANGED units

\* Every unit compiled: the payloads go to the caller.
Return == /\ status = "running"
          /\ Len(out) = Len(units)
          /\ status' = "returned"
          /\ UNCHANGED <<units, stderr, out>>

Unwind == /\ status = "running"
          /\ MayPanic
          /\ status' = "panicked"
          /\ UNCHANGED <<units, stderr, out>>

Next == ReplayNext \/ Return \/ Unwind

Spec == Init /\ [][Next]_vars /\ WF_vars(Next)
=============================================================================
