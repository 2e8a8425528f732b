# badc: a TLA+ development

badc is a C compiler, assembler, linker and runtime library. It is mostly a
sequential program over large data, with concurrency in three places (the
driver's compile pool, the Windows pthread layer of its runtime library, and
the lock tables of that library) and with a number of small algorithms whose
correctness is an argument about order: the moves on a control-flow edge, the
resolution of archive members, the stacks of the preprocessor and of the
diagnostics.

The modules here model the concurrent parts, the edge moves, the line pass of
the preprocessor with the diagnostic levels, and the native link from the choice
of archive members to the output file.
`PROJECT.json` lists the runs, the source lines each definition stands for, the
hazards, the findings and the theorems.

## Inventory

| component | state | operations | interacts with | what is hard | what makes it correct |
|---|---|---|---|---|---|
| compile pool (`src/cli/compile.rs`, `cli/objects.rs`) | cursor, `failed` flag, channel, slots, collected payloads, object files | pick up a unit, compile, send, store the failure; receive, join, replay | every compile mode of the driver; the file system | relaxed loads, arrival order, panics, refused threads, files written before the build's fate is known | to the caller it is the sequential driver |
| edge moves (`c5/codegen/ssa/emit_common.rs`) | pending moves, sweep index, hold register | emit a free move, break a cycle, build constants | register allocation (places), both back ends | chains, fan-out, cycles, 128-bit spills over two slots, one hold register, slots shared by both register files | every target takes its source as it was on entry |
| pthread mutex and condition (`libc/lib/pthread_ext.c`) | slim lock, owner, count, type; condition queue | lock, trylock, unlock, destroy, wait, timedwait, signal, broadcast | kernel32 | owner read without the lock, levels kept in a local over a sleep, early timers | mutual exclusion with levels kept; a wake-up is not lost in the timed loop; a timed wait returns |
| pthread threads | record, kernel handle, state word, FLS slot | create, start, exit, join, detach, self/adopt, process exit | keys, kernel32 | exit racing detach and join, creation racing the new thread's end, first use from several threads | a record is freed once, after its last use, and never forgotten |
| pthread keys | destructor and live tables, `keys_end`, TLS values | key create/delete, setspecific, run_destructors | threads | keys reused under an ending thread's loop; destructors that create and set keys | own value to own destructor; nothing left behind; the loop ends |
| pthread_once, semaphores (`semaphore_ext.c`) | control word and its lock; count, lock and condition | once; init, wait, timedwait, trywait, post, destroy | kernel32 | lost wake-ups; a post taken by another thread than the one it woke | the routine runs once and everyone waits for it; no unit beside a sleeper |
| diagnostic control (`c5/diag`) | per code: level events by offset, suppressed extents, `once` offset; push stack; emitted diagnostics | pragma push/pop/level/suppress/once, emit | preprocessor, parser (which asks for levels later, by offset) | unbalanced stacks, pushes across includes, extents open at the end of a buffer | the level looked up later is the one the pragmas had put in force there |
| output files (`c5/output_file.rs`) | temporary siblings, final name | create, write, rename, remove; write in place; write through | pool, linker, other compilers | a kill or an error between two steps, two writers of one path and one pid | the final name holds the old file or the whole new one |
| dependency files (`c5/depfile.rs`) | list of prerequisites | record, format | driver | escaping | text only |
| preprocessor (`c5/preprocessor`) | conditional stack and guard scan per buffer, include stack, macro table and saves, once and guard registries, side outputs, reuse recorder | directives, include, expand; record, reuse | diagnostics, the auto-include retry of the compile | nesting across files, dropped includes, a source pass reused under another preamble, self-inclusion | a dropped include was silent; a reused pass compiles what the full pass would; every pass ends |
| lexer, parser, types (`c5/lexer.rs`, `c5/compiler`, `c5/ast`) | the program text and its tree | parse | irgen | size of the language | C semantics |
| IR generation and SSA passes (`c5/irgen`, `c5/codegen/passes`, `ssa/*`) | function graphs | build, mem2reg, repair, licm, … | register allocation | dominance and phi placement | meaning preserved |
| register allocation (`ssa/reg_alloc.rs`, `liveness.rs`, `phi_class.rs`) | live ranges, places, spill slots | build classes, colour, spill | edge moves | values live together share no storage | interference respected |
| encoders and assembler (`codegen/x86_64`, `codegen/aarch64`, `c5/asm`) | tables | encode | | volume | bytes per instruction |
| VM and JIT (`c5/vm`, `codegen/jit.rs`) | machine state | interpret, run | | the whole IR | same result as native code |
| linker (`cli/native_link.rs`, `c5/linker`, `c5/object`) | selection (defined, shared, undefined, alternates), slots, the pool, COMDAT groups, sections | rebind, walk, pull, take alternates, add default libraries, offer the pool, yield; merge, relocate | driver, object formats | command-line order, groups, late references, cycles of archives and of alternates | exactly the members that were asked for; the pool never against the program |
| driver modes (`cli/*`) | options, exit status | one sequence of calls per mode | everything | a failure between two steps of a link | exit 0 means the image is in place |
| rest of the runtime (`libc/lib/*`) | lock table of `atomic.c`, stream locks | lock, unlock | | nesting, address hashing | exclusion |

How the parts meet: the driver hands the sources to the compile pool; each
worker runs preprocessor, parser, IR, allocation (whose result the edge moves
realise) and encoder on its own unit, sharing nothing but the cursor, the flag
and the channel, and in `-c` mode writes the object file itself. A unit whose
parse fails on an undeclared library function is preprocessed again with the
header that declares it, reusing the recorded source pass when it can. The linker
then runs on one thread: it selects the objects, merges them, and writes the image
through `write_output_file`. The runtime library is linked into the programs badc
builds; on Windows its pthread calls are built from kernel32's slim locks,
condition variables, TLS and FLS indices and thread handles, which the modules
take as external from the way the library uses them.

## Modules

| module | models |
|---|---|
| `UnitReplay` | what `compile_units` promises: the sequential driver, one unit at a time |
| `CompilePool` | `compile_units` with its workers, and the `-c` closure; implements `UnitReplay` |
| `CompilePoolProofs` | the theorems about the pool |
| `EdgeMoves` | the integer and floating schedulers of an edge and the constants after them |
| `EdgeMovesProofs` | the theorems about them, for narrow values |
| `PthreadSync` | a mutex and a condition variable |
| `PthreadSyncProofs` | the theorems about them |
| `PthreadThread` | the thread record and the FLS index |
| `PthreadThreadProofs` | the theorems about them |
| `PthreadKeys` | keys and the destructor loop |
| `PthreadKeysProofs` | the theorems about them |
| `PthreadOnce`, `Semaphore` | the two components; `OnceSemaphore` composes them: the semaphore is made by the routine of a `pthread_once` and then used |
| `OnceSemaphoreProofs` | the theorems about both |
| `DiagControl` | the control and the sink of diagnostics, as operators on their values |
| `Preprocessor` | the line pass over files and includes, its pragmas, and the recording and reuse of a source pass; uses `DiagControl` |
| `PreprocessorProofs` | the theorems about the line pass, the guards and the diagnostic levels |
| `ArchiveSelection` | which objects a native link takes |
| `OutputFile` | the writers of one output path |
| `NativeLink` | composes the two: the driver's steps from the selection to the exit status |
| `NativeLinkProofs` | the theorems about the selection and the link's output |
| `MC…` | constants, inputs and symmetry for model checking |

### CompilePool

`units` gives each source a stem and the outcome of its compile (`ok`, `err` or
`panic`); both are fixed before the build, since a unit's compile depends on
nothing the other workers do. A worker's loop is split at its accesses to shared
state: the relaxed load of `failed` (`LoadClear`, `LoadFailed`), the
`fetch_add` (`Claim`), the compile and the object write (`Compile`), the send
(`Send`) and the store of the flag (`StoreFailed`). A relaxed load may miss
another worker's store for any length of time but not its own, so `failedBy`
keeps who stored, and `LoadClear` stays possible for the rest. The driver spawns
(`Spawn`, or `SpawnFail` when the host refuses), drops its sender, receives
until the channel is empty and every sender is gone, leaves the scope
(`LeaveScope`, which joins, and unwinds if a worker panicked) and replays the
slots in order. With one worker it compiles inline instead. The write of an
object file is one step, as the code renames a finished file into place.

### EdgeMoves

The code emits instructions; the model executes each as it is emitted, on a
store of 64-bit units that hold values by name (the unit they were in on entry
and the width of the last sign extension). So the property is about the result
of the emitted code and not about its shape. `EmitMove` and `SkipMove` are the
two branches of the sweep, with `swap_remove` on the pending vector;
`NextSweep` and `ExchangePair`/`StageSource` are what follows a sweep with and
without progress; `StartFp` and `LoadConstants` are the later phases of the
edge. A store to a spill slot clobbers the stage register and a narrow write
leaves the upper half of a vector register undefined (`Junk`).

The model starts from the moves `edge_moves` has collected; how it sorts a phi's
operands (undefined, placeless, constant) is not modelled.

The inputs are those the callers can give: a function's parameters (targets
apart, sources any register or slot, extensions of 32 and 64 bits), and the
edges the allocator can leave: phi targets apart, sources equal or apart,
nothing moved in place. `hold` and `stage` are outside the allocator's banks,
and the borrowing of a register in `int_spill_store_staged` restores what it
borrows, so it is not a step of its own.

### PthreadSync

One mutex and one condition. A call is split wherever another thread can
observe it. `owner` is read without the lock by `Lock`, `TryLock`, `Unlock` and
`CondSleep`; `count` is a plain field. `SleepConditionVariableSRW` releases the
lock and queues its caller in one step, as kernel32 promises, and may wake
spuriously or, in a timed sleep, early. `depth` (levels a thread has locked and
not unlocked), `owed` (threads a broadcast found blocked) and `told` (threads
a signal or a broadcast took off the queue, until their call returns) are history variables. Callers do what POSIX leaves defined: no second lock of a normal
mutex by its holder, no unlock of a normal mutex by another thread, no destroy
during a call.

### PthreadThread, PthreadKeys, PthreadOnce, Semaphore

A thread's record is followed from `pthread_create` or adoption to its `free`;
every access to it is a step, and `Touches(t)` names the records the next step
of a thread reaches, so that a use after free is a state and not only a
crash. The client may join or detach a joinable thread once, from any thread
that knows it, also from the destructors of an ending thread (in `finish` and in the
FLS callback of a foreign one), and the process may exit at any time.
`FlsSetValue` may fail: `thread_start` ignores that, so a child may run without its
record in the slot (`noslot`), and a `pthread_self` in it adopts a second one
(`spare`). External assumptions: the slot still holds the record while its callback
runs, and clearing the slot in `finish` succeeds, as the value was set there before.
`MaxThreads` bounds the threads that come to be known in a run. In `PthreadKeys` a key has a generation, so that two keys
that had one index in turn are told apart; what the code does under `keys_lock`
is one step, and the loop of `run_destructors` is split between the reads of
the destructor and of the value, the clearing and the call. In `PthreadOnce`
the look at the control word and the sleep are under `once_lock`, the exchange
and the final wake-up are not. In `Semaphore` a post and its wake-up are
separate steps.

### DiagControl, Preprocessor

A text is a sequence of logical lines, each a record of its directive and operand.
One action reads one line, with everything the line's tail does (`EndLine`: the
pass moves on and the suppress extents that were open before the line end).
`frames` is the stack of `LinePass`es, each with its own conditional stack and
guard scan; `pp` is the `Preprocessor`, with the macro table, the registries of
`#pragma once` and of guards, the side outputs, the diagnostic control and the
sink. The output is the sequence of what each line wrote, so its length is the
offset that diagnostic events are keyed on. `#if` is the test of one name (any
expression is the same to the stack), a macro's value stands for its definition, a
text line shows what a name expands to.

The first pass records (`rec`: names looked up, counter used, files named, side
pragmas). `Retry` appends a header and runs the extended preamble; `Reuse` and
`Decline` are the answers of `process_reusing`. The program compiles the reused
text; the model then also runs the full pass, as the reference for `ReusedText` and
`ReuseIsFull`.
`macro_delta_observed` is a Bloom-like filter, so `Decline` may also happen for a
name that was never looked up. `scope` and `expect` are history variables: the
levels by the plain reading of the pragmas, and the level in force at each text
line when it was read. `LevelIsScoped` compares the control's answer, asked at any
later time, with them.

### ArchiveSelection, OutputFile, NativeLink

An object is a record of sets of names; a slot is an input in command-line order
(objects, an archive, a shared library, a group bracket). `link.inOrder` is the
ELF rule: an archive is pulled at its place, those of a group where the group ends;
Mach-O and PE links search all archives after the walk. `walk` is the loop over the
slots with its locals (`depth`, `group`) and the object it is at. `job` is what runs at
the moment: the stage, and for a pull its `span` (the archives searched), the member it
took last, `progress`, the names or libraries it has left (`todo`) and the stage it
returns to. The steps of a pull are those of its loop: `PullMember` takes the next
member asked for, `EndSweep` ends a pass over the span, `TakeAlternates` takes one
stalled name's alternate and `EndAlternates` starts again or returns. A round of
`pull_default_libraries` is `DefaultLibraries` (the names), `AddLibrary` (each one found)
and `EndLibraries`. The hash map orders of the code (which undefined name a member is
pulled for, the order of the alternates) are choices. `Rebind`, `OfferPool` and `Assemble`
(with `yield_pool_definitions`) are the other steps of `select_archive_members`; a compile
that fails, a default library that cannot be read or a member that is no object ends the
link in the stage `failed`.

`LinksAssumption` says which links there are. Groups pair up, as `check_groups`
(`cli/args.rs:313`) and the ingestion of a linker script (`cli/inputs.rs:333`) see to;
the code's `depth -= 1` on an unsigned number relies on it. Objects of an ELF link have
no alternate names, since only the COFF reader makes them (`coff_object.rs:967`).

In `OutputFile` every call to the host is a step and may
fail, and a writer may be killed before any of them; a sibling an earlier process of the same
number left may be there at the start. A directory that takes no new entry makes
the writer fall back to writing in place, which promises less, as the code says.
`NativeLink` gives the driver's steps around them; the merge and the image writer
are one step that may end the process.

## Runs

Every run finishes within a few minutes on two cores; the states below are
distinct states.

| run | bounds | checks |
|---|---|---|
| `compile_pool` | up to 3 sources, `--jobs 2`, panics, refused threads; 152,900 states | `HandedOutOnce`, `NoneOnlyPastFailure`, `ObjectsOfReplayed`, `KeepsPromise` (refinement of `UnitReplay`, its fairness included), `BuildEnds` |
| `pool_same_stem` (violation) | up to 3 sources, two stems, `--jobs 1`, which still means two workers | `ObjectOfLastSource` |
| `edge_moves` | 2 integer and 2 vector registers, 2 slots, 64 and 128-bit values; up to 3 parameter moves, or 1 integer + 3 floating moves + 1 constant; 500,880 states | `CopyMeaning`, `OnlyCyclesRemain`, `Terminates` |
| `shared_slots` (violation) | 1 register of each file, 2 slots, 1 move of each file | `CopyMeaning` |
| `pthread_sync` | 2 threads, every mutex type, `UINT_MAX` = 2; 27,335 states | `HolderKnown`, `CountHeld`, `RefusesOnlyOutsiders`, `WakeReported`, `TimedWaitReturns` |
| `broadcast` (violation) | 2 threads, normal mutex | `BroadcastWakesAll` |
| `pthread_threads` | 2 foreign threads and 2 children, symmetric, 3 of them known in one run; 974,837 states | `NoUseAfterFree`, `NothingLeaks`, `TakenWhenDone`, `OneIndex` |
| `pthread_keys` | 2 threads, one of which ends, 2 table entries, 3 kernel indices, 3 keys created, 4 passes; 107,894 states | `DestructorOwnValue`, `NoneLeftBehind`, `LoopEnds` |
| `once_semaphore` | 3 threads, `SEM_VALUE_MAX` = 2, 2 posts; 58,154 states | `InitOnce`, `OnceReturns`, `PostsReachWaiters` |
| `preprocess` | 3 headers, 2 macro names, 3 diagnostics, includes 2 deep; texts of three families (guards, reuse, levels), up to 5 lines a file; 140,057 states | `ActiveIsArms`, `GuardSilent`, `LevelIsScoped`, `ReusedText`, `PassEnds` |
| `reuse_outputs` (violation) | the texts of the reuse family | `ReuseIsFull` |
| `native_link` | 6 symbols, up to 4 inputs and a group over 6 kinds of input in every order, 2 default libraries, pool of 2; 2 writers of one pid, 2 sibling names; 81,023 states | `SelectionExact`, `PoolYields`, `OutputReplaced`, `LinkEnds` |

Each passing run also checks its module's `TypeOK`, which carries the bounds the
code relies on: indices into the slots and the key tables, the sweep index, the
counts of mutex and semaphore.

Why the bounds are enough. Pool: three sources and up to three workers give a
failure before, between and after units that succeed, two failures in either
order, more workers than units and fewer, the inline path with none and one;
the properties about the pool's safety are proved for every number of both.
Edge moves: cycles of two and three, cycles beside chains, fan-out, extension in
place and both ways of breaking a cycle occur with three moves over four
places; a longer cycle repeats the same step, and the theorems cover any number. Mutex: one thread that holds and
one that interferes is what each hazard needs, and the theorems cover the
rest. Threads: an exit races one detach or join and one adoption, each by a
thread of its own. Keys: an index is reused once under the loop, one index is
past the end of the tables, and destructors can set values in every pass.
Semaphore: two posts and two waiters are needed to lose a wake-up, the third
thread takes the unit in between.

Preprocessor: a guard has an opener, a definition, a body and an arm or a second
conditional, which is four lines; a retry differs from the recorded pass by one line of the
appended header against one or two lines of the source that look at it; a push, a
level, a pop and an include between them are four lines and one header. Depth 2
lets `h` be included from an included file and self-inclusion reach the bound.
Link: archives that need each other in both directions, a weak definition, an
archive between two references, a shared library that hides one and a member that
is no object each need at most three inputs after the program's own. Two suffixes and
two writers give a name taken by the other writer, by a leftover, and by both.

Deadlock is checked except in `pthread_threads`, `once_semaphore`, `preprocess`
and `native_link`, where threads end or stop calling, a compile ends or a process
exits, and the system comes to rest.

### Fairness

- pool: weak fairness of the driver and of every worker. The host runs a thread
  that can run, and a compile ends. Nothing is assumed about a store of `failed`
  becoming visible, and `BuildEnds` holds without.
- edge moves: weak fairness of the one thread.
- mutex and condition: weak fairness of the steps of a call that has begun, of
  the clock and of the system timer; strong fairness of taking the slim lock,
  since the kernel lets a waiter in eventually when the lock is released again
  and again. No fairness of a client's calls: `TimedWaitReturns` has "the lock
  is free again and again" as its hypothesis.
- keys: weak fairness of the loop and of calls begun; the client's destructors
  return.
- once and semaphore: weak fairness of begun calls, strong fairness of
  `once_lock`; the routine returns.

- preprocessor: weak fairness of the pass, one thread's loop. Whether a compile
  asks for a retry is not fair.
- link: weak fairness of the link's own steps. Other writers need not go on, and a
  kill is never required.

### Findings

1. `pool_same_stem`: with `-c a/x.c b/x.c` both units write `x.o` from their
   worker, and the object left is the one written last, by schedule. The
   sequential path leaves the last source's.
2. `shared_slots`: an edge's integer copy runs before the floating one, and the
   two share spill slots; an integer phi may take the slot that a floating operand
   dying on that edge is read from. `edge_moves` shows the schedule right for the
   edges where that does not happen.
3. `broadcast`: a timed waiter whose sleep ended early is between two sleeps when
   the broadcast comes, and sleeps again. POSIX callers loop on a predicate. What does
   hold is `WakeReported`: a wake-up that reached a sleeper, timed or not, ends its wait
   with 0.
4. `reuse_outputs`: `process_reusing` says that its side outputs are those of a full
   run and that each read is checked. It replays the recorded diagnostics at the level
   the recorded pass gave them, although the appended header may have changed that level
   (the trace TLC gives: a warning stands that the header had set to ignored) or spent its
   `once`; raised to an error, it would have failed the full run. And the set of system
   headers is not replayed, so the compiler (`compiler/diag.rs:613`) takes a file the
   source included as its own. `ReusedText` is what does hold.

### Observations

Met while modelling; the properties are stated around them and say so.

- The floating scheduler takes "nothing can be emitted" for "only cycles remain"
  (`emit_common.rs:846`), which fails when a 128-bit spill overlaps places in part: with
  v1 -> slot 0 beside wide slots 0-1 -> wide slots 1-2 it stages v1 and then the wide
  source into the one hold register, and slot 0 ends wrong. `MCEdgeMoves` with
  `Inputs <- EdgeInputs`, `Slots = {0, 1, 2}`, one vector register and two floating moves
  shows it as a violation of `CopyMeaning`. The inputs of `edge_moves` have 128-bit values
  but only places that begin together or are apart (`InWhole`); the theorem `OnlyCycles`
  shows that the comment is right for narrow values.
- `thread_start` ignores the result of `FlsSetValue` (`pthread_ext.c:140`). When it fails
  the thread has no record in its slot, and `pthread_exit` (217-223) skips `finish`: a
  detached thread's record and handle are not freed, and a joiner takes a record whose
  result was never stored. If such a thread adopts a second record and its routine
  returns, `finish` clears the slot and the second record is not freed. Should it join
  itself, it waits for ever, as its record is not the one the check compares with.
  `NothingLeaks` and `TakenWhenDone` name these cases and exclude every other.
- Two `suppress` pragmas in a row: the second stands on the line the first covers,
  and the end of that line closes both, so the second covers nothing.
  `LevelIsScoped` does not compare such lines.
- Outside ELF, the end of a group pulls an empty span, and `take_alternates` runs
  before any archive was searched, where its comment says that alternates are
  asked for once the archives stall (`native_link.rs:914`). `AlternateLast`, a part
  of `SelectionExact`, leaves out lines with a group.
- Alternate names that form a cycle keep `pull` in its loop. `LinkEnds` is stated
  for links whose alternates are acyclic, those of members, default libraries and pool
  included, and the run has a link with a cycle in it for safety.

## Proofs

TLAPS proves the following for every value of the constants that satisfies the
assumptions named in the modules.

`CompilePoolProofs` (any number of units, jobs, stems; panics and refused
threads included), from `ResultsAssumption`, `StemsAssumption`,
`SpawnAssumption`, `BoundAssumption`, `JobsAssumption`:

- `Inductive`: `IndInv`, the conjunction of `TypeOK`; `Placement` (a unit below
  the cursor is held by one worker or sent, never two of these); `Accounted` (in
  a build that is not doomed each such unit is somewhere); `StopReason` (a worker
  that stopped saw the end of the units, or a failure that was sent before);
  `DriverPhase` (which worker and channel states go with which driver state, and
  that the replay has flushed a prefix of the slots); `PanicCause`.
- `TypeCorrect`, `UnitsHandedOutOnce`, `EmptySlotsPastFailure`: the invariants of
  the run. None is inductive alone: that an empty slot lies past a failure needs
  to know that the worker which would have filled it stopped because a failure
  had been sent, that units are claimed in order, and that the channel was
  drained before the replay.
- `ObjectsThere`: `ObjectsOfReplayed`, by an invariant of its own (`ObjectInv`): an
  object is that of a source of its stem which compiled, and a unit is sent, filed and
  replayed only after its object was written. Two units may share a stem: then the
  second write replaces one object of that stem by another.
- `PoolKeepsPromise`: the initial states and the steps of the pool are those of
  `UnitReplay`, or stutter. The case that matters is the end of the replay: an
  empty slot ends it, and `EmptySlotsPastFailure` shows this happens only when
  all units were replayed.

`PthreadSyncProofs` (any set of threads, any subset of the types, any
`UINT_MAX`), from `TypesAssumption`, `CountMaxAssumption`, `NoneAssumption`:

- `Inductive`: `IndInv`, the conjunction of `TypeInv` (the frames of the calls
  included) and for each thread of `LockInv` (it holds the slim lock exactly at
  the steps between taking and releasing it, or between calls with a level),
  `OwnerInv` (the owner on record is at a step where it holds the lock, so an
  unlocked read that finds oneself is stable), `DepthInv`, `CountInv` (count,
  saved count and depth agree, according to the place in the code) and `WakeInv`
  (a thread in `told` is past its sleep, on its way to take the lock back and return, and
  its `woken` says so).
- `TypeCorrect`, `LevelsKept`, `CountProtected`, `RefusesOutsiders`,
  `WakesReported`: the run's invariants and its action properties.

`NativeLinkProofs` (any links: inputs in any number and order, archives that need each
other, nested groups, default libraries, any pool; any set of writers of the path, any
process ids, any `MaxTry`), from `LinksAssumption`, `MaxTryAssumption`, `OldAssumption` and
`LinkerAssumption`:

- `LinkInductive`: `LinkInv`, the conjunction of `SelectionInv`, `Yielded` and `Sizes`.
  The parts of `SelectionInv`:
  - `Typed` and `Placed`: types; the walk's depth is the number of groups open at its
    place, its group and a pull's span hold only archives, and the job fits its stage;
  - `Once`: no object is accounted for twice. A member of an archive is taken only if it
    is not in the link, and the objects of inputs lie behind the walk;
  - `Accounted`: `sel` is the sum of the objects accounted for, and a name still
    undefined was asked for by the object it names, through `__imp_` names and alternates;
  - `Recorded`: the link map has a true line for every member pulled. A line speaks of the
    objects before its own, so it stays true when more join;
  - `Met`: a reference is answered, still asked for, or has taken its alternate while
    no archive of the line defined it;
  - `Swept`: a pass that took nothing leaves its archives quiet, and outside ELF all of
    them stay quiet from the end of the last pull on;
  - `InTurn` (ELF): an archive the walk is done with has answered all that was asked up to
    some place outside every group, at or after its own. That place is the witness for the
    one where the archive was pulled, and it is what makes the property inductive: the
    references made later may well name members left out.
- `SelectsExactly`: `SelectionExact`. It is stated of the end of the selection, and says
  nothing while a pull is half done; the parts above are what holds at every step.
- `PoolYielded`: `PoolYields`, from `Yielded`: what is handed to the link is what
  `yield_pool_definitions` returns for the objects in their order, absolute definitions
  included.
- `LinkTyped`: `TypeOK` of the composition.
- `Inductive`: `IndInv`, the conjunction of `FilesOK` (types); `Owns` (a writer
  between creating and renaming has one sibling, its own, and it is whole when
  the writer is about to rename it); `Siblings` (a sibling belongs to a writer at
  work, to a killed one or to one that failed); `Routes` (what the path names and
  whether the directory is open decide the way a writer takes); `Contents` (what a
  path that is replaced holds); `DriverInv` (the driver's steps and its writer).
- `ReplacedWhole`: `OutputReplaced`. That the path stays whole is not inductive
  alone: two writers may share a process id, and it is `create_new` that keeps
  their siblings apart.

`EdgeMovesProofs` (any number of moves, registers, slots and sign extensions, targets
with and without a register exchange), from `SlotsAssumption` and `ScratchAssumption`. The
theorems have the hypothesis `NarrowInputs`: values of one unit, all targets apart, and no
integer move writing what a floating one reads. Finding 2 and the observation on 128-bit
spills show what needs it, and `NarrowAssumption` has TLC confirm that the narrow inputs of
`edge_moves` satisfy it.

- `Inductive`: a pending move may read another place than the move it was made from, but it
  finds the value that move's source had on entry (`PendingInv`); what is not pending is done
  (`MetInv`); only targets and scratch have changed (`FrameInv`); a sweep without progress
  found a reader of each target behind it (`SweepInv`).
- `OnlyCycles`: n different targets each with a reader among n moves. A choice of readers is an
  injection of the moves into themselves, so it is onto: every source is a target and has one
  reader. So the hold register is not a source, which is why it can be written.
- `CopiesRight`: `CopyMeaning`. Breaking a cycle needs `OnlyCycles`: an exchange may write the
  source of a move because it is the target of another and nothing else reads it, and the hold
  register may be written because nothing pending reads it.
- `TypeCorrect`.

`PthreadThreadProofs` (any foreign threads and any children, the exit of the process
included), from `ThreadsAssumption`, `MaxThreadsAssumption` and `NamesAssumption`:

- The invariant `IndInv` says what each thread's record, handle and state are at every
  place of its life (`ForeignInv`, `ChildInv`; `SpareInv` for a second record), what the creator has to itself until it
  resumes the thread (`CreatorInv`), and whose the record is afterwards: at most one of
  the joiner, the detacher and the thread itself has the claim (`Takeable`, `Holds`,
  `ClaimInv`). It is the argument of the code: the exchange of `state` decides who
  frees.
- `RecordsLive`, `TakenOver`, `NoLeak`, `OneSlot`, `TypeCorrect` follow, the threads
  without a slot included. `NoLeak` needs
  the part `TakerInv`: what can be taken may still be joined or detached, or has a thread
  on its way to it.

`PthreadKeysProofs` (any threads, table sizes, kernel indices, keys created and
passes), from `EndersAssumption`, `KeysAssumption`, `PassesAssumption`:

- `IndInv`: `TableInv` (the tables know only the key that has the index, and no slot of
  an index in use holds the value of an earlier one), `HandInv` (between the kernel and
  the tables an index is in one thread's hands), `LoopInv` (what the locals of
  `run_destructors` know while other threads create and delete).
- `OwnValues`: an index may be deleted and handed out again between the read of the
  destructor and the read of the value. Then `TlsAlloc` has cleared the slot, so the
  value is either NULL or that of the key the destructor was read for.
- `NoValueLeft`: in a pass that has called nothing every index behind the loop and past
  its end is clean. That a key created during the pass past its end is clean as well
  holds because only the thread itself, from a destructor, sets its values.

`OnceSemaphoreProofs` (any finite set of threads, any limit and number of posts), from
`ThreadsAssumption`, `BoundsAssumption`:

- `InitRunsOnce`, `TypeCorrect`, from `OnceInv` (the control, the routine and the lock
  follow from where the callers are) and `SemInv`.
- `OnceLosesNoWake` and `PostLosesNoWake` are the safety halves of `OnceReturns` and
  `PostsReachWaiters`, for any number of threads: a sleeper that should go on has a
  wake-up ahead of it. For the semaphore this is a count (`UnitsInv`): while threads
  sleep there are at least as many threads awake, on their way to a unit or to a
  wake-up, as there are units. The wake-up is made without the lock, so a count of
  wake-ups alone is not an invariant: a waiter that takes the unit in between makes one
  of them void.

`PreprocessorProofs` (any texts, headers, macro names, diagnostics and include depth),
from `BaseLevelAssumption`, `HeadersAssumption`, `TextsAssumption`:

- `LevelsScoped`: `LevelIsScoped`. The invariant `LevelInv` has `ControlPlaced` (nothing
  of the control lies past the end of the output, and a code is open exactly when its
  last extent has no end), `ExpectInv` (the property, with its offsets inside the output)
  and `Sync` (the plain reading of the pragmas and the control agree on what comes next).
  An operation of the control can then only change answers from the present offset on:
  `push` records nothing, `pop` appends the events that restore, `suppress` opens an
  extent at the offset, and the end of a line closes it behind what was written.
- `ArmsActive`: `ActiveIsArms`, for any nesting, with the types of the frames.
- `GuardsSilent`: `GuardSilent`. The scan of a guard sees a line at a time, and the
  property speaks of the whole text. The invariant `Scanned` says what the scan's state means for
  the lines read so far (`Seen`): `leading`, nothing but blank lines; `open`, all lines
  since the opener lie in its one arm; `closed`, all lines that are not blank do. The depth
  of the conditional stack is the depth of the line in the text, which ties the scan's state
  to the text. `Registered` carries what a `closed` scan has shown over to the registry, where
  it stays true because texts do not change.
- `TypeCorrect`: `TypeOK`, the bound on nested includes among it. Its invariant adds
  where the buffers come from (`Buffers`: a frame reads a text of the program or the
  preamble, its index is within that text) and the types of the tables and of the prior
  pass.

Each has one lemma per action, or per group of actions with one effect, and the
last step combines them. TLC checked the properties on the runs' bounds before they
were proved. `DESTRUCTOR_PASSES`, `SEM_VALUE_MAX` and `MAX_INCLUDE_DEPTH` are
constants of the proofs, so the theorems hold for the code's values.

Only model-checked:

- every liveness property (`BuildEnds`, the fairness part of `KeepsPromise`,
  `Terminates`, `TimedWaitReturns`, `LoopEnds`, `OnceReturns`, `PostsReachWaiters`,
  `PassEnds`, `LinkEnds`), since TLAPS has no rules for fairness here;
- `ReusedText`: it compares the recorded pass with a full pass over an extended
  preamble, two runs over the same text from different states. An invariant for it would
  have to relate them line by line, with the full pass kept beside the recorded one.

## Not modelled

- What a unit's compile does: one step with an outcome.
- `sem_post` wakes after it has released the lock, so a waiter that takes the
  unit and frees the semaphore at once could do so before the wake-up. The
  model's client destroys only a semaphore no thread is in a call on.
- Attribute objects (plain setters), priorities and stack sizes, named
  semaphores (refused by the library).
- FLS callbacks of the client's own. (`thread_detach`, the library's, is modelled, with
  the calls the destructors of keys make from it.)
- Preprocessor: macro expansion and hide sets (`expand.rs`), the arithmetic of `#if`,
  `#line`, `#embed`, `__has_include`, `#pragma warn`, and the joining of lines: a
  directive inside an invocation that spans lines is not shown to the guard scan.
- Link: the merge with its COMDAT groups, relocation and layout (one step that
  succeeds or fails), the choice of the entry and subsystem, the target's C
  library beyond the set of names it admits, and `on_demand.rs`, the selection of
  the VM and the JIT.
- Output files: permission bits, and the loss of power (the code does not sync).
- The components marked `not_modelled` in `PROJECT.json`: the encoders, object
  formats, dependency files and option parsing are data layout or text; parser,
  IR generation and the VM are too large for a bounded instance to say anything.

## Plan

Done: the pool, the edge moves, the pthread layer, the preprocessor's line pass
with the diagnostic levels, the native link with the output file. Left, in this
order:

1. `ReusedText` for texts of any length: the recorded and the full pass as one
   specification that reads both in step.
2. `OutputFile` under the pool's `Compile` step, in place of the one-step write.
3. `AtomicLocks` and `StreamLock`: the lock table of `atomic.c` and the recursive
   stream lock.
4. Macro expansion with hide sets and its termination.
5. `PhiClasses` and SSA repair on small graphs, which would discharge the
   assumptions `EdgeMoves` makes about its edges.
