---------------------------- MODULE DiagControl ----------------------------
(***************************************************************************)
(* The level of a diagnostic: the pragma events of one translation unit    *)
(* (src/src/c5/diag/control.rs, Control) and the sink that resolves each   *)
(* reported diagnostic against them (src/src/c5/diag/sink.rs, Sink).       *)
(*                                                                         *)
(* A control is a value, and every operation below maps one control (or    *)
(* sink) to the next; the preprocessor applies them as it reads pragmas.   *)
(* An offset is a position in the preprocessed text.  A code outside Codes *)
(* is a hard diagnostic: no pragma moves it off "error".                   *)
(***************************************************************************)
EXTENDS Naturals, Integers, Sequences, SequencesExt, FiniteSets

CONSTANTS
    Codes,      \* the controllable diagnostics
    BaseLevel   \* BaseLevel[c]: the level the command line left for c

Levels == {"ignore", "warning", "error"}

\* The level a pop or a `default` restores: the one the command line left
\* (None in an event).
CmdLine == "cmdline"

\* The end of a `suppress` extent whose line has not ended (u32::MAX).
OpenEnd == -1

ASSUME BaseLevelAssumption == BaseLevel \in [Codes -> Levels]

\* Per code: events, suppressed extents and the offset `once` holds from
\* (OpenEnd when no pragma said so); the open pushes; the codes whose last
\* extent is open.
NoControl ==
    [events     |-> [c \in Codes |-> <<>>],
     suppressed |-> [c \in Codes |-> <<>>],
     once       |-> [c \in Codes |-> OpenEnd],
     stack      |-> <<>>,
     open       |-> {}]

\* The level the last event of c left.
Current(ctl, c) ==
    IF ctl.events[c] = <<>> THEN CmdLine ELSE Last(ctl.events[c]).level

Record(ctl, at, c, level) ==
    IF c \in Codes
    THEN [ctl EXCEPT !.events[c] = Append(@, [at |-> at, level |-> level])]
    ELSE ctl

PushLevels(ctl) ==
    [ctl EXCEPT !.stack = Append(@, [c \in Codes |-> Current(ctl, c)])]

\* Variant: the pop forgets the codes the push had seen no event of.
PopKeepsNew(ctl, at) ==
    LET saved == Last(ctl.stack)
    IN  IF ctl.stack = <<>> THEN ctl
        ELSE [ctl EXCEPT
                !.stack = Front(@),
                !.events = [c \in Codes |->
                    IF saved[c] \in {Current(ctl, c), CmdLine}
                    THEN ctl.events[c]
                    ELSE Append(ctl.events[c], [at |-> at, level |-> saved[c]])]]

\* A pop appends, for every code whose level moved since the matching push,
\* the level that push saw; without an open push it changes nothing.
PopLevels(ctl, at) ==
    LET saved == Last(ctl.stack)
    IN  IF ctl.stack = <<>> THEN ctl
        ELSE [ctl EXCEPT
                !.stack = Front(@),
                !.events = [c \in Codes |->
                    IF saved[c] = Current(ctl, c)
                    THEN ctl.events[c]
                    ELSE Append(ctl.events[c], [at |-> at, level |-> saved[c]])]]

OpenSuppress(ctl, at, c) ==
    IF c \in Codes
    THEN [ctl EXCEPT !.suppressed[c] = Append(@, [from |-> at, to |-> OpenEnd]),
                     !.open = @ \cup {c}]
    ELSE ctl

CloseSuppress(ctl, end) ==
    [ctl EXCEPT !.open = {},
                !.suppressed = [c \in Codes |->
                    IF c \in ctl.open
                    THEN [ctl.suppressed[c] EXCEPT ![Len(ctl.suppressed[c])].to = end]
                    ELSE ctl.suppressed[c]]]

ReportOnce(ctl, at, c) ==
    IF c \in Codes /\ ctl.once[c] = OpenEnd
    THEN [ctl EXCEPT !.once[c] = at]
    ELSE ctl

IsOnce(ctl, c, at) == c \in Codes /\ ctl.once[c] # OpenEnd /\ ctl.once[c] <= at

\* partition_point over a list sorted by position: how many stand at or
\* before the offset.
Before(positions, at) ==
    Cardinality({i \in DOMAIN positions : positions[i] <= at})

IsSuppressed(ctl, c, at) ==
    LET extents == ctl.suppressed[c]
        i == Before([k \in DOMAIN extents |-> extents[k].from], at)
    IN  i > 0 /\ (extents[i].to = OpenEnd \/ at < extents[i].to)

\* The level in effect at an offset, whenever it is asked for.
LevelAt(ctl, c, at) ==
    LET events == ctl.events[c]
        i == Before([k \in DOMAIN events |-> events[k].at], at)
    IN  IF c \notin Codes THEN "error"
        ELSE IF IsSuppressed(ctl, c, at) THEN "ignore"
        ELSE IF i = 0 \/ events[i].level = CmdLine THEN BaseLevel[c]
        ELSE events[i].level

(***************************************************************************)
(* The sink: the diagnostics that survived, and the codes a `once` pragma  *)
(* has spent.                                                              *)
(***************************************************************************)
NoSink == [emitted |-> <<>>, spent |-> {}]

\* Report code c, raised at line `line` of `file`, with the output at `at`.
Emit(sink, ctl, c, at, file, line) ==
    LET level == LevelAt(ctl, c, at)
        once  == IsOnce(ctl, c, at)
    IN  IF level = "ignore" \/ (once /\ c \in sink.spent) THEN sink
        ELSE [emitted |-> Append(sink.emitted,
                            [code |-> c, level |-> level, file |-> file, line |-> line]),
              spent   |-> IF once THEN sink.spent \cup {c} ELSE sink.spent]

HasErrors(sink) ==
    \E i \in DOMAIN sink.emitted : sink.emitted[i].level = "error"
=============================================================================
