---------------------------- MODULE CompilePool -----------------------------
(* The driver's compile pool: `compile_units` in src/src/cli/compile.rs, with *)
(* the compile closure of `-c` (src/src/cli/objects.rs), which also writes    *)
(* the unit's object file.                                                    *)
(*                                                                            *)
(* Worker threads pull unit numbers off a shared cursor, compile, and send    *)
(* the unit's log and result to the driver over a channel. A relaxed flag     *)
(* stops new pickups after a failure. The driver collects the messages into   *)
(* slots, joins the workers, and replays the slots in source order.           *)
(*                                                                            *)
(* Units are numbered from 1 where the code counts from 0. A message is the   *)
(* unit's number: its log and result are functions of it. The channel is a    *)
(* set, as the driver files each message under its unit and the order of      *)
(* arrival is lost; a unit is sent at most once.                              *)
EXTENDS Naturals, Sequences

CONSTANTS
  Results,       \* what a unit's compile can come to: a subset of AllResults
  Stems,         \* the file stems the sources have
  SpawnMayFail,  \* whether the host may refuse a thread
  MaxUnits,      \* bound on the number of sources
  Jobs           \* the value of --jobs, or the host's parallelism

AllResults == {"ok", "err", "panic"}

ASSUME ResultsAssumption == Results \subseteq AllResults
ASSUME StemsAssumption == Stems # {}
ASSUME SpawnAssumption == SpawnMayFail \in BOOLEAN
ASSUME BoundAssumption == MaxUnits \in Nat
ASSUME JobsAssumption == Jobs \in Nat \ {0}

Unit == [result : Results, stem : Stems]

VARIABLES
  units,     \* the sources, in command-line order: a stem and a result each
  stderr,    \* the units whose logs were flushed, in flush order
  out,       \* the payloads collected for the caller
  next,      \* the cursor: the unit the next fetch_add returns
  failedBy,  \* the workers that stored TRUE into `failed`
  pc,        \* where each worker is
  unit,      \* the unit each worker last claimed, 0 before
  chan,      \* units sent and not yet received
  slots,     \* units whose slot is Some
  panicked,  \* workers whose compile unwound
  spawned,   \* workers spawned so far
  driver,    \* where the driver is
  object     \* per stem, the unit whose object `<stem>.o` holds, 0 for none

vars == <<units, stderr, out, next, failedBy, pc, unit, chan, slots, panicked,
          spawned, driver, object>>

Count == Len(units)

Least(m, n) == IF m <= n THEN m ELSE n

\* The worker threads `worker_count` asks for: 2*N capped at the unit count.
WorkerCount(n) == IF Least(2 * Jobs, n) >= 1 THEN Least(2 * Jobs, n) ELSE 1

Workers == 1..WorkerCount(Count)

Init ==
  /\ units \in UNION {[1..n -> Unit] : n \in 0..MaxUnits}
  /\ stderr = <<>>
  /\ out = <<>>
  /\ next = 1
  /\ failedBy = {}
  /\ pc = [w \in Workers |-> "unborn"]
  /\ unit = [w \in Workers |-> 0]
  /\ chan = {}
  /\ slots = {}
  /\ panicked = {}
  /\ spawned = 0
  /\ driver = IF WorkerCount(Count) <= 1 THEN "inline" ELSE "spawn"
  /\ object = [s \in Stems |-> 0]

-----------------------------------------------------------------------------
(* The compile closure *)

\* Variant: a failing unit leaves an object behind too.
WriteObjectAlways(i) == object' = [object EXCEPT ![units[i].stem] = i]

\* A unit that compiles leaves its object under its stem, by rename.
WriteObject(i) ==
  object' = IF units[i].result = "ok" THEN [object EXCEPT ![units[i].stem] = i]
                                      ELSE object

-----------------------------------------------------------------------------
(* workers <= 1: compile, flush and keep or exit, one unit at a time *)

InlineUnit ==
  LET i == Len(stderr) + 1
  IN  /\ driver = "inline"
      /\ i <= Count
      /\ WriteObject(i)
      /\ \/ /\ units[i].result = "ok"
            /\ stderr' = Append(stderr, i)
            /\ out' = Append(out, i)
            /\ UNCHANGED driver
         \/ /\ units[i].result = "err"
            /\ stderr' = Append(stderr, i)
            /\ driver' = "exit1"
            /\ UNCHANGED out
         \/ /\ units[i].result = "panic"
            /\ driver' = "panicked"
            /\ UNCHANGED <<stderr, out>>
      /\ UNCHANGED <<units, next, failedBy, pc, unit, chan, slots, panicked, spawned>>

InlineReturn ==
  /\ driver = "inline"
  /\ Len(stderr) = Count
  /\ driver' = "returned"
  /\ UNCHANGED <<units, stderr, out, next, failedBy, pc, unit, chan, slots,
                 panicked, spawned, object>>

-----------------------------------------------------------------------------
(* A worker's loop *)

\* What a worker's step leaves alone.
DriverState == <<units, stderr, out, slots, spawned, driver>>

\* The relaxed load returns FALSE: the flag is clear, or the worker has not yet
\* seen another worker's store. It always sees its own.
LoadClear(w) ==
  /\ pc[w] = "load"
  /\ w \notin failedBy
  /\ pc' = [pc EXCEPT ![w] = "claim"]
  /\ UNCHANGED <<DriverState, next, failedBy, unit, chan, panicked, object>>

LoadFailed(w) ==
  /\ pc[w] = "load"
  /\ failedBy # {}
  /\ pc' = [pc EXCEPT ![w] = "done"]
  /\ UNCHANGED <<DriverState, next, failedBy, unit, chan, panicked, object>>

\* Variant: the cursor is read and not advanced.
ClaimByLoad(w) ==
  /\ pc[w] = "claim"
  /\ next <= Count
  /\ pc' = [pc EXCEPT ![w] = "compile"]
  /\ unit' = [unit EXCEPT ![w] = next]
  /\ UNCHANGED <<DriverState, next, failedBy, chan, panicked, object>>

\* Variant: `i > units.len()` for `i >= units.len()`.
ClaimOnePast(w) ==
  /\ pc[w] = "claim"
  /\ next' = next + 1
  /\ IF next > Count + 1
       THEN /\ pc' = [pc EXCEPT ![w] = "done"]
            /\ UNCHANGED unit
       ELSE /\ pc' = [pc EXCEPT ![w] = "compile"]
            /\ unit' = [unit EXCEPT ![w] = next]
  /\ UNCHANGED <<DriverState, failedBy, chan, panicked, object>>

\* fetch_add; the worker leaves when the cursor has run past the units.
Claim(w) ==
  /\ pc[w] = "claim"
  /\ next' = next + 1
  /\ IF next > Count
       THEN /\ pc' = [pc EXCEPT ![w] = "done"]
            /\ UNCHANGED unit
       ELSE /\ pc' = [pc EXCEPT ![w] = "compile"]
            /\ unit' = [unit EXCEPT ![w] = next]
  /\ UNCHANGED <<DriverState, failedBy, chan, panicked, object>>

\* Variant: `failed` is checked between the claim and the compile, and the
\* claimed unit is dropped.
CompileUnlessFailed(w) ==
  /\ pc[w] = "compile"
  /\ IF failedBy # {}
       THEN /\ pc' = [pc EXCEPT ![w] = "done"]
            /\ UNCHANGED object
       ELSE /\ pc' = [pc EXCEPT ![w] = "send"]
            /\ WriteObject(unit[w])
  /\ UNCHANGED <<DriverState, next, failedBy, unit, chan, panicked>>

\* The closure runs, or unwinds the worker's thread.
Compile(w) ==
  /\ pc[w] = "compile"
  /\ WriteObject(unit[w])
  /\ IF units[unit[w]].result = "panic"
       THEN /\ panicked' = panicked \cup {w}
            /\ pc' = [pc EXCEPT ![w] = "done"]
       ELSE /\ pc' = [pc EXCEPT ![w] = "send"]
            /\ UNCHANGED panicked
  /\ UNCHANGED <<DriverState, next, failedBy, unit, chan>>

\* The receiver is dropped when the driver unwinds; then `send` fails.
Send(w) ==
  /\ pc[w] = "send"
  /\ IF driver = "unwind"
       THEN /\ pc' = [pc EXCEPT ![w] = "done"]
            /\ UNCHANGED chan
       ELSE /\ chan' = chan \cup {unit[w]}
            /\ pc' = [pc EXCEPT ![w] = IF units[unit[w]].result = "err"
                                         THEN "store" ELSE "load"]
  /\ UNCHANGED <<DriverState, next, failedBy, unit, panicked, object>>

StoreFailed(w) ==
  /\ pc[w] = "store"
  /\ failedBy' = failedBy \cup {w}
  /\ pc' = [pc EXCEPT ![w] = "load"]
  /\ UNCHANGED <<DriverState, next, unit, chan, panicked, object>>

Worker(w) == \/ LoadClear(w) \/ LoadFailed(w) \/ Claim(w)
             \/ Compile(w) \/ Send(w) \/ StoreFailed(w)

-----------------------------------------------------------------------------
(* The driver *)

Spawn ==
  /\ driver = "spawn"
  /\ spawned < WorkerCount(Count)
  /\ spawned' = spawned + 1
  /\ pc' = [pc EXCEPT ![spawned + 1] = "load"]
  /\ UNCHANGED <<units, stderr, out, next, failedBy, unit, chan, slots,
                 panicked, driver, object>>

\* `expect("spawn compile worker")` unwinds the scope's closure: both channel
\* ends go, and the scope waits for the workers already running.
SpawnFail ==
  /\ driver = "spawn"
  /\ SpawnMayFail
  /\ spawned < WorkerCount(Count)
  /\ driver' = "unwind"
  /\ chan' = {}
  /\ UNCHANGED <<units, stderr, out, next, failedBy, pc, unit, slots,
                 panicked, spawned, object>>

DropSender ==
  /\ driver = "spawn"
  /\ spawned = WorkerCount(Count)
  /\ driver' = "recv"
  /\ UNCHANGED <<units, stderr, out, next, failedBy, pc, unit, chan, slots,
                 panicked, spawned, object>>

Receive ==
  /\ driver = "recv"
  /\ \E i \in chan : /\ chan' = chan \ {i}
                     /\ slots' = slots \cup {i}
  /\ UNCHANGED <<units, stderr, out, next, failedBy, pc, unit, panicked,
                 spawned, driver, object>>

\* Variant: the join also waits for workers that were never started.
JoinedAll == \A w \in Workers : pc[w] = "done"

\* The scope's threads, those that were ever started, have all ended.
Joined == \A w \in Workers : pc[w] \in {"unborn", "done"}

\* Variant: the receive loop ends with messages still in the channel.
LeaveScopeEarly ==
  /\ driver \in {"recv", "unwind"}
  /\ Joined
  /\ driver' = IF driver = "unwind" \/ panicked # {} THEN "panicked" ELSE "replay"
  /\ UNCHANGED <<units, stderr, out, next, failedBy, pc, unit, chan, slots, panicked,
                 spawned, object>>

\* The channel is drained and every sender is gone; leaving the scope joins the
\* workers, and unwinds when one of them panicked.
LeaveScope ==
  /\ \/ driver = "recv" /\ chan = {} /\ Joined
     \/ driver = "unwind" /\ Joined
  /\ driver' = IF driver = "unwind" \/ panicked # {} THEN "panicked" ELSE "replay"
  /\ UNCHANGED <<units, stderr, out, next, failedBy, pc, unit, chan, slots, panicked,
                 spawned, object>>

\* One round of the replay loop: a Some slot is flushed, then kept or fatal; a
\* None slot ends the loop, and so does the end of the slots.
Replay ==
  LET i == Len(stderr) + 1
  IN  /\ driver = "replay"
      /\ IF i \in slots
           THEN /\ stderr' = Append(stderr, i)
                /\ IF units[i].result = "ok"
                     THEN out' = Append(out, i) /\ UNCHANGED driver
                     ELSE driver' = "exit1" /\ UNCHANGED out
           ELSE /\ driver' = "returned"
                /\ UNCHANGED <<stderr, out>>
      /\ UNCHANGED <<units, next, failedBy, pc, unit, chan, slots, panicked, spawned,
                     object>>

Finished == driver \in {"returned", "exit1", "panicked"}

\* The process is over; nothing else happens.
Stop == Finished /\ UNCHANGED vars

Driver == \/ InlineUnit \/ InlineReturn \/ Spawn \/ SpawnFail \/ DropSender
          \/ Receive \/ LeaveScope \/ Replay

Next == Driver \/ (\E w \in Workers : Worker(w)) \/ Stop

Safety == Init /\ [][Next]_vars

\* The host runs every thread that can run, and a compile ends.
Spec == /\ Safety
            /\ WF_vars(Driver)
            /\ \A w \in 1..(2 * Jobs) : WF_vars(w \in Workers /\ Worker(w))

-----------------------------------------------------------------------------
(* The promise, seen from the pool's state *)

Status == IF Finished THEN driver ELSE "running"

Promise == INSTANCE UnitReplay WITH status <- Status

-----------------------------------------------------------------------------
(* Properties *)

Range(f) == {f[x] : x \in DOMAIN f}

\* The cursor may run past the units, by as many as there are workers, but no worker
\* holds, sends or files a unit past the last.
TypeOK ==
  /\ units \in Seq(Unit)
  /\ stderr \in Seq(1..Count)
  /\ out \in Seq(1..Count)
  /\ next \in Nat \ {0}
  /\ failedBy \subseteq Workers
  /\ pc \in [Workers -> {"unborn", "load", "claim", "compile", "send", "store", "done"}]
  /\ unit \in [Workers -> 0..Count]
  /\ chan \subseteq 1..Count
  /\ slots \subseteq 1..Count
  /\ panicked \subseteq Workers
  /\ spawned \in 0..WorkerCount(Count)
  /\ driver \in {"inline", "spawn", "unwind", "recv", "replay",
                 "returned", "exit1", "panicked"}
  /\ object \in [Stems -> 0..Count]

\* The worker has claimed its unit and not yet sent it.
Holds(w) == pc[w] \in {"compile", "send"}

\* Every unit the cursor has passed is in exactly one place: being compiled by
\* one worker, in the channel or in its slot, unless a panic or a refused thread
\* has already doomed the build (compile.rs, the comment on `next`).
HandedOutOnce ==
  /\ \A w, v \in Workers : Holds(w) /\ Holds(v) /\ unit[w] = unit[v] => w = v
  /\ \A w \in Workers : Holds(w) => unit[w] \notin chan \cup slots
  /\ chan \cap slots = {}
  /\ panicked = {} /\ driver \notin {"inline", "unwind", "panicked", "exit1", "returned"} =>
       \A i \in 1..Count :
         i < next => i \in chan \cup slots \/ \E w \in Workers : Holds(w) /\ unit[w] = i

\* When the replay starts, an empty slot lies past a slot that holds a failure,
\* so the replay never takes an empty slot for the end (compile.rs, the comment
\* on the replay loop).
NoneOnlyPastFailure ==
  driver = "replay" =>
    \A i \in (1..Count) \ slots : \E j \in slots : j < i /\ units[j].result = "err"

\* A replayed payload's object file is on disk and holds the object of a source
\* of that stem that compiled, also when a later unit failed the build.
ObjectsOfReplayed ==
  \A i \in Range(out) :
    LET o == object[units[i].stem]
    IN  o # 0 /\ units[o].stem = units[i].stem /\ units[o].result = "ok"

\* The pool is the sequential driver to its callers: same stderr, same payloads,
\* same exit, under every schedule.
KeepsPromise == Promise!Spec

\* Every build ends, though a worker may see `failed` late or never.
BuildEnds == <>Finished

\* The object a stem is left with is the one the last source of that stem gave,
\* as when the sources are compiled one after another.
ObjectOfLastSource ==
  driver = "returned" =>
    \A i \in 1..Count : (\A j \in (i + 1)..Count : units[j].stem # units[i].stem)
                          => object[units[i].stem] = i
=============================================================================
