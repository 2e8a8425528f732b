------------------------- MODULE CompilePoolProofs --------------------------
(* What the compile pool guarantees for every number of sources, of workers  *)
(* and of failing or panicking units: the type invariant, the two invariants *)
(* the comments of `compile_units` rely on, and that every step of the pool  *)
(* is a step of the sequential promise of UnitReplay or a stutter.           *)
EXTENDS CompilePool, TLAPS

-----------------------------------------------------------------------------
(* The inductive invariant *)

\* Units that reached the driver's side of the channel.
Sent == chan \cup slots

\* The build can still be replayed: nothing unwound.
Live == panicked = {} /\ driver \in {"spawn", "recv", "replay"}

\* A failing unit has been sent, so the replay will meet it.
FailureSent == \E i \in Sent : units[i].result = "err"

\* Where a unit past the cursor can be, and what is known of it there.
Placement ==
  /\ \A w \in Workers : Holds(w) => unit[w] \in 1..Count /\ unit[w] < next
  /\ \A w \in Workers : pc[w] \in {"send", "store"} => unit[w] \in 1..Count
  /\ \A w \in Workers : pc[w] = "send" => units[unit[w]].result # "panic"
  /\ \A i \in Sent : i < next /\ units[i].result # "panic"
  /\ \A w, v \in Workers : Holds(w) /\ Holds(v) /\ unit[w] = unit[v] => w = v
  /\ \A w \in Workers : Holds(w) => unit[w] \notin Sent
  /\ chan \cap slots = {}

\* No unit the cursor passed is lost.
Accounted ==
  Live => \A i \in 1..Count :
            i < next => i \in Sent \/ \E w \in Workers : Holds(w) /\ unit[w] = i

\* A worker stops only for a reason the driver will see.
StopReason ==
  Live => /\ \A w \in Workers : pc[w] = "store" =>
               unit[w] \in Sent /\ units[unit[w]].result = "err"
          /\ failedBy # {} => FailureSent
          /\ \A w \in Workers : pc[w] = "done" => next > Count \/ FailureSent

\* How far the driver is.
DriverPhase ==
  /\ driver \in {"spawn", "unwind", "recv"} => stderr = <<>> /\ out = <<>>
  /\ driver \in {"recv", "replay"} => \A w \in Workers : pc[w] # "unborn"
  /\ driver = "spawn" => \A w \in Workers : w <= spawned <=> pc[w] # "unborn"
  /\ driver = "unwind" => SpawnMayFail
  /\ driver = "replay" => /\ panicked = {}
                          /\ chan = {}
                          /\ \A w \in Workers : pc[w] = "done"
  /\ driver \in {"inline", "replay"} =>
       /\ Len(out) = Len(stderr)
       /\ Len(stderr) <= Count
       /\ \A i \in 1..Len(stderr) : units[i].result = "ok"
  /\ driver = "inline" => \A w \in Workers : pc[w] = "unborn"

PanicCause == panicked # {} => \E i \in 1..Count : units[i].result = "panic"

IndInv == /\ TypeOK
          /\ Placement
          /\ Accounted
          /\ StopReason
          /\ DriverPhase
          /\ PanicCause

-----------------------------------------------------------------------------
(* Type correctness *)

\* There is at least one worker, as `worker_count` ends in `.max(1)`.
LEMMA WorkerCountType ==
  ASSUME NEW n \in Nat
  PROVE  WorkerCount(n) \in Nat /\ WorkerCount(n) >= 1
BY JobsAssumption DEF WorkerCount, Least

\* A log flushed or a payload kept extends its sequence by one.
LEMMA AppendOne ==
  ASSUME NEW S, NEW s \in Seq(S), NEW e \in S
  PROVE  Append(s, e) \in Seq(S) /\ Len(Append(s, e)) = Len(s) + 1
OBVIOUS

LEMMA TypeInit == Init => TypeOK
<1> SUFFICES ASSUME Init PROVE TypeOK
  OBVIOUS
<1>1. PICK n \in 0..MaxUnits : units \in [1..n -> Unit]
  BY DEF Init
<1>2. n \in Nat
  BY BoundAssumption
<1>3. units \in Seq(Unit) /\ Count \in Nat
  BY <1>1, <1>2 DEF Count
<1>4. WorkerCount(Count) \in Nat /\ WorkerCount(Count) >= 1
  BY <1>3, WorkerCountType
<1> QED
  BY <1>3, <1>4 DEF Init, TypeOK, Workers

\* No action touches the list of sources, so the set of workers is fixed.
LEMMA SourcesFixed == [Next]_vars => units' = units /\ Count' = Count /\ Workers' = Workers
<1> SUFFICES ASSUME [Next]_vars PROVE units' = units
  BY DEF Count, Workers
<1> QED
  BY DEF Next, vars, Driver, Worker, Stop, InlineUnit, InlineReturn, Spawn, SpawnFail,
         DropSender, Receive, LeaveScope, Replay, LoadClear, LoadFailed, Claim, Compile,
         Send, StoreFailed, DriverState

\* A unit that compiles records itself under its stem, and nothing else changes.
LEMMA WriteObjectType ==
  ASSUME TypeOK, NEW i \in 1..Count, WriteObject(i)
  PROVE  object' \in [Stems -> 0..Count]
<1>1. units[i] \in Unit /\ Count \in Nat
  BY DEF TypeOK, Count
<1>2. units[i].stem \in Stems /\ i \in 0..Count
  BY <1>1 DEF Unit
<1>3. object \in [Stems -> 0..Count]
  BY DEF TypeOK
<1> QED
  BY <1>2, <1>3 DEF WriteObject

LEMMA TypeStep == IndInv /\ [Next]_vars => TypeOK'
<1> SUFFICES ASSUME IndInv, [Next]_vars PROVE TypeOK'
  OBVIOUS
<1> USE DEF IndInv
<1>1. units' = units /\ Count' = Count /\ Workers' = Workers
  BY SourcesFixed
<1>2. Count \in Nat /\ WorkerCount(Count) \in Nat /\ WorkerCount(Count) >= 1
  BY WorkerCountType DEF TypeOK, Count
<1>3. CASE InlineUnit
  <2>1. Len(stderr) + 1 \in 1..Count /\ WriteObject(Len(stderr) + 1)
    BY <1>3 DEF InlineUnit, TypeOK
  <2>2. object' \in [Stems -> 0..Count]
    BY <2>1, WriteObjectType
  <2>3. stderr' \in Seq(1..Count) /\ out' \in Seq(1..Count)
    <3>1. Append(stderr, Len(stderr) + 1) \in Seq(1..Count)
      BY <2>1, AppendOne DEF TypeOK
    <3>2. Append(out, Len(stderr) + 1) \in Seq(1..Count)
      BY <2>1, AppendOne DEF TypeOK
    <3> QED
      BY <1>3, <3>1, <3>2 DEF InlineUnit, TypeOK
  <2>4. driver' \in {"inline", "returned", "exit1", "panicked"}
    BY <1>3 DEF InlineUnit
  <2> QED
    BY <1>1, <1>3, <2>2, <2>3, <2>4 DEF InlineUnit, TypeOK
<1>4. CASE InlineReturn
  BY <1>1, <1>4 DEF InlineReturn, TypeOK
<1>5. CASE Spawn
  <2>1. spawned' \in 0..WorkerCount(Count)
    BY <1>2, <1>5 DEF Spawn, TypeOK
  <2> QED
    BY <1>1, <1>5, <2>1 DEF Spawn, TypeOK
<1>6. CASE SpawnFail
  BY <1>1, <1>6 DEF SpawnFail, TypeOK
<1>7. CASE DropSender
  BY <1>1, <1>7 DEF DropSender, TypeOK
<1>8. CASE Receive
  BY <1>1, <1>8 DEF Receive, TypeOK
<1>9. CASE LeaveScope
  BY <1>1, <1>9 DEF LeaveScope, TypeOK
<1>10. CASE Replay
  <2>1. stderr' \in Seq(1..Count) /\ out' \in Seq(1..Count)
    <3>1. CASE Len(stderr) + 1 \in slots
      <4>1. Len(stderr) + 1 \in 1..Count
        BY <3>1 DEF TypeOK
      <4>2. Append(stderr, Len(stderr) + 1) \in Seq(1..Count)
        BY <4>1, AppendOne DEF TypeOK
      <4>3. Append(out, Len(stderr) + 1) \in Seq(1..Count)
        BY <4>1, AppendOne DEF TypeOK
      <4> QED
        BY <1>10, <3>1, <4>2, <4>3 DEF Replay, TypeOK
    <3>2. CASE Len(stderr) + 1 \notin slots
      BY <1>10, <3>2 DEF Replay, TypeOK
    <3> QED
      BY <3>1, <3>2
  <2>2. driver' \in {"replay", "returned", "exit1"}
    BY <1>10 DEF Replay
  <2> QED
    BY <1>1, <1>10, <2>1, <2>2 DEF Replay, TypeOK
<1>11. ASSUME NEW w \in Workers, Worker(w) PROVE TypeOK'
  <2>1. CASE LoadClear(w)
    BY <1>1, <2>1 DEF LoadClear, TypeOK, DriverState
  <2>2. CASE LoadFailed(w)
    BY <1>1, <2>2 DEF LoadFailed, TypeOK, DriverState
  <2>3. CASE Claim(w)
    <3>1. unit' \in [Workers -> 0..Count] /\ next' \in Nat \ {0}
      <4>1. next \in Nat \ {0} /\ unit \in [Workers -> 0..Count]
        BY DEF TypeOK
      <4>2. next <= Count => next \in 0..Count
        BY <4>1, <1>2
      <4> QED
        BY <4>1, <4>2, <1>2, <2>3 DEF Claim
    <3> QED
      BY <1>1, <2>3, <3>1 DEF Claim, TypeOK, DriverState
  <2>4. CASE Compile(w)
    <3>1. unit[w] \in 1..Count /\ WriteObject(unit[w])
      BY <2>4 DEF Compile, Placement, Holds
    <3>2. object' \in [Stems -> 0..Count]
      BY <3>1, WriteObjectType
    <3> QED
      BY <1>1, <2>4, <3>2 DEF Compile, TypeOK, DriverState
  <2>5. CASE Send(w)
    <3>1. unit[w] \in 1..Count
      BY <2>5 DEF Send, Placement
    <3> QED
      BY <1>1, <2>5, <3>1 DEF Send, TypeOK, DriverState
  <2>6. CASE StoreFailed(w)
    BY <1>1, <2>6 DEF StoreFailed, TypeOK, DriverState
  <2> QED
    BY <1>11, <2>1, <2>2, <2>3, <2>4, <2>5, <2>6 DEF Worker
<1>12. CASE UNCHANGED vars
  BY <1>1, <1>12 DEF vars, TypeOK
<1> QED
  BY <1>3, <1>4, <1>5, <1>6, <1>7, <1>8, <1>9, <1>10, <1>11, <1>12 DEF Next, Driver, Stop

-----------------------------------------------------------------------------
(* Every claimed unit is in one place *)

LEMMA PlacementStep == IndInv /\ [Next]_vars => Placement'
<1> SUFFICES ASSUME IndInv, [Next]_vars PROVE Placement'
  OBVIOUS
<1> USE DEF IndInv
<1>1. units' = units /\ Count' = Count /\ Workers' = Workers
  BY SourcesFixed
<1>2. Count \in Nat
  BY DEF TypeOK, Count
<1>3. CASE UNCHANGED <<pc, unit, next, chan, slots>>
  BY <1>1, <1>3 DEF Placement, Sent, Holds
<1>4. CASE InlineUnit \/ InlineReturn \/ DropSender \/ LeaveScope \/ Replay \/ UNCHANGED vars
  BY <1>3, <1>4 DEF InlineUnit, InlineReturn, DropSender, LeaveScope, Replay, vars
<1>5. CASE Spawn
  BY <1>1, <1>5 DEF Spawn, TypeOK, Placement, Sent, Holds
<1>6. CASE SpawnFail
  BY <1>1, <1>6 DEF SpawnFail, Placement, Sent, Holds
<1>7. CASE Receive
  BY <1>1, <1>7 DEF Receive, Placement, Sent, Holds
<1>8. ASSUME NEW w \in Workers, Worker(w) PROVE Placement'
  <2> USE <1>8
  <2>1. CASE LoadClear(w)
    BY <1>1, <2>1 DEF LoadClear, TypeOK, Placement, Sent, Holds, DriverState
  <2>2. CASE LoadFailed(w)
    BY <1>1, <2>2 DEF LoadFailed, TypeOK, Placement, Sent, Holds, DriverState
  <2>3. CASE Claim(w)
    <3>1. CASE next > Count
      <4>1. /\ pc' = [pc EXCEPT ![w] = "done"] /\ unit' = unit
            /\ next' = next + 1 /\ chan' = chan /\ slots' = slots
        BY <2>3, <3>1 DEF Claim, DriverState
      <4>2. /\ \A v \in Workers : Holds(v)' => Holds(v)
            /\ \A v \in Workers : pc'[v] \in {"send", "store"} => pc'[v] = pc[v]
            /\ Sent' = Sent
        BY <1>1, <4>1 DEF TypeOK, Holds, Sent
      <4>3. /\ \A v \in Workers : unit[v] < next => unit[v] < next'
            /\ \A i \in Sent : i < next => i < next'
        BY <1>2, <4>1 DEF TypeOK, Sent
      <4> QED
        BY <1>1, <4>1, <4>2, <4>3 DEF Placement
    <3>2. CASE next <= Count
      <4>1. /\ pc' = [pc EXCEPT ![w] = "compile"]
            /\ unit' = [unit EXCEPT ![w] = next]
            /\ next' = next + 1
            /\ chan' = chan /\ slots' = slots
        BY <1>2, <2>3, <3>2 DEF Claim, TypeOK, DriverState
      <4>2. next \in 1..Count
        BY <1>2, <3>2 DEF TypeOK
      <4>3. \A v \in Workers : v # w => (Holds(v)' <=> Holds(v)) /\ unit'[v] = unit[v]
        BY <4>1 DEF TypeOK, Holds
      <4>4. unit'[w] = next /\ pc'[w] = "compile" /\ Sent' = Sent
        BY <4>1 DEF TypeOK, Sent
      <4>5. \A v \in Workers : pc'[v] \in {"send", "store"} => v # w /\ pc[v] = pc'[v]
        BY <4>1, <4>4 DEF TypeOK
      <4>6. /\ \A v \in Workers : Holds(v) => unit[v] < next'  /\ unit[v] # next
            /\ \A i \in Sent : i < next' /\ i # next
            /\ next < next'
        BY <1>2, <4>1 DEF TypeOK, Placement, Sent
      <4>7. \A v \in Workers : Holds(v)' => unit'[v] \in 1..Count /\ unit'[v] < next'
        BY <4>2, <4>3, <4>4, <4>6 DEF Placement
      <4>8. \A v, u \in Workers : Holds(v)' /\ Holds(u)' /\ unit'[v] = unit'[u] => v = u
        BY <4>3, <4>4, <4>6 DEF Placement
      <4>9. \A v \in Workers : Holds(v)' => unit'[v] \notin Sent
        BY <4>3, <4>4, <4>6 DEF Placement
      <4> QED
        BY <1>1, <4>1, <4>3, <4>4, <4>5, <4>6, <4>7, <4>8, <4>9 DEF Placement
    <3> QED
      BY <1>2, <3>1, <3>2 DEF TypeOK
  <2>4. CASE Compile(w)
    BY <1>1, <2>4 DEF Compile, TypeOK, Placement, Sent, Holds, DriverState
  <2>5. CASE Send(w)
    <3>1. pc[w] = "send" /\ unit' = unit /\ next' = next /\ slots' = slots
      BY <2>5 DEF Send, DriverState
    <3>2. chan' \subseteq chan \cup {unit[w]} /\ Sent' \subseteq Sent \cup {unit[w]}
      BY <2>5, <3>1 DEF Send, Sent
    <3>3. /\ \A v \in Workers : Holds(v)' => v # w /\ Holds(v)
          /\ \A v \in Workers : v # w => pc'[v] = pc[v]
          /\ pc'[w] # "send"
      BY <2>5 DEF Send, TypeOK, Holds
    <3>4. /\ Holds(w) /\ unit[w] \in 1..Count /\ unit[w] < next
          /\ unit[w] \notin Sent /\ units[unit[w]].result # "panic"
      BY <3>1 DEF Placement, Holds
    <3>5. \A v \in Workers : Holds(v)' => unit[v] # unit[w] /\ unit[v] \notin Sent'
      BY <3>2, <3>3, <3>4 DEF Placement
    <3>6. chan' \cap slots' = {}
      BY <3>1, <3>2, <3>4 DEF Placement, Sent
    <3>7. \A v \in Workers : pc'[v] \in {"send", "store"} => unit[v] \in 1..Count
      BY <3>3, <3>4 DEF Placement
    <3> QED
      BY <1>1, <3>1, <3>2, <3>3, <3>4, <3>5, <3>6, <3>7 DEF Placement
  <2>6. CASE StoreFailed(w)
    BY <1>1, <2>6 DEF StoreFailed, TypeOK, Placement, Sent, Holds, DriverState
  <2> QED
    BY <2>1, <2>2, <2>3, <2>4, <2>5, <2>6 DEF Worker
<1> QED
  BY <1>4, <1>5, <1>6, <1>7, <1>8 DEF Next, Driver, Stop

-----------------------------------------------------------------------------
(* No claimed unit is lost *)

LEMMA AccountedStep == IndInv /\ [Next]_vars => Accounted'
<1> SUFFICES ASSUME IndInv, [Next]_vars PROVE Accounted'
  OBVIOUS
<1> USE DEF IndInv
<1>1. units' = units /\ Count' = Count /\ Workers' = Workers
  BY SourcesFixed
<1>2. Count \in Nat
  BY DEF TypeOK, Count
<1>3. CASE UNCHANGED <<pc, unit, next, chan, slots>> /\ (Live' => Live)
  BY <1>1, <1>3 DEF Accounted, Sent, Holds
<1>4. CASE InlineUnit \/ InlineReturn \/ DropSender \/ LeaveScope \/ Replay \/ UNCHANGED vars
  BY <1>3, <1>4 DEF InlineUnit, InlineReturn, DropSender, LeaveScope, Replay, vars, Live
<1>5. CASE Spawn
  <2>1. \A v \in Workers : Holds(v) => Holds(v)'
    <3> SUFFICES ASSUME NEW v \in Workers, Holds(v) PROVE Holds(v)'
      OBVIOUS
    <3>1. pc[v] # "unborn"
      BY DEF Holds
    <3>2. v <= spawned /\ spawned \in Nat
      BY <1>5, <3>1 DEF Spawn, DriverPhase, TypeOK
    <3>3. v # spawned + 1
      BY <3>2 DEF Workers
    <3> QED
      BY <1>5, <3>3 DEF Spawn, TypeOK, Holds
  <2>2. unit' = unit /\ next' = next /\ Sent' = Sent /\ (Live' => Live)
    BY <1>5 DEF Spawn, Sent, Live
  <2> QED
    BY <1>1, <2>1, <2>2 DEF Accounted
<1>6. CASE SpawnFail
  BY <1>6 DEF SpawnFail, Accounted, Live
<1>7. CASE Receive
  BY <1>1, <1>7 DEF Receive, Accounted, Sent, Holds, Live
<1>8. ASSUME NEW w \in Workers, Worker(w) PROVE Accounted'
  <2> USE <1>8
  <2>1. CASE LoadClear(w)
    BY <1>1, <2>1 DEF LoadClear, TypeOK, Accounted, Sent, Holds, DriverState, Live
  <2>2. CASE LoadFailed(w)
    BY <1>1, <2>2 DEF LoadFailed, TypeOK, Accounted, Sent, Holds, DriverState, Live
  <2>3. CASE Claim(w)
    <3>1. /\ ~Holds(w) /\ next' = next + 1 /\ Sent' = Sent
          /\ (Live' => Live)
          /\ \A v \in Workers : v # w => (Holds(v)' <=> Holds(v)) /\ unit'[v] = unit[v]
          /\ next <= Count => Holds(w)' /\ unit'[w] = next
      BY <1>2, <2>3 DEF Claim, TypeOK, Holds, Sent, DriverState, Live
    <3>2. \A i \in 1..Count : i < next' => i < next \/ (i = next /\ next <= Count)
      BY <1>2, <3>1 DEF TypeOK
    <3> QED
      BY <1>1, <3>1, <3>2 DEF Accounted
  <2>4. CASE Compile(w)
    BY <1>1, <2>4 DEF Compile, TypeOK, Accounted, Sent, Holds, DriverState, Live
  <2>5. CASE Send(w)
    BY <1>1, <2>5 DEF Send, TypeOK, Accounted, Sent, Holds, DriverState, Live
  <2>6. CASE StoreFailed(w)
    BY <1>1, <2>6 DEF StoreFailed, TypeOK, Accounted, Sent, Holds, DriverState, Live
  <2> QED
    BY <2>1, <2>2, <2>3, <2>4, <2>5, <2>6 DEF Worker
<1> QED
  BY <1>4, <1>5, <1>6, <1>7, <1>8 DEF Next, Driver, Stop

-----------------------------------------------------------------------------
(* A worker stops for a reason the driver will see *)

LEMMA StopReasonStep == IndInv /\ [Next]_vars => StopReason'
<1> SUFFICES ASSUME IndInv, [Next]_vars PROVE StopReason'
  OBVIOUS
<1> USE DEF IndInv
<1>1. units' = units /\ Count' = Count /\ Workers' = Workers
  BY SourcesFixed
<1>2. Count \in Nat
  BY DEF TypeOK, Count
<1>3. CASE UNCHANGED <<pc, unit, next, chan, slots, failedBy>> /\ (Live' => Live)
  BY <1>1, <1>3 DEF StopReason, FailureSent, Sent
<1>4. CASE InlineUnit \/ InlineReturn \/ DropSender \/ LeaveScope \/ Replay \/ UNCHANGED vars
  BY <1>3, <1>4 DEF InlineUnit, InlineReturn, DropSender, LeaveScope, Replay, vars, Live
<1>5. CASE Spawn
  BY <1>1, <1>5 DEF Spawn, TypeOK, StopReason, FailureSent, Sent, Live
<1>6. CASE SpawnFail
  BY <1>6 DEF SpawnFail, StopReason, Live
<1>7. CASE Receive
  <2>1. Sent' = Sent
    BY <1>7 DEF Receive, Sent
  <2> QED
    BY <1>1, <1>7, <2>1 DEF Receive, StopReason, FailureSent, Live
<1>8. ASSUME NEW w \in Workers, Worker(w) PROVE StopReason'
  <2> USE <1>8
  <2>1. CASE LoadClear(w)
    BY <1>1, <2>1 DEF LoadClear, TypeOK, StopReason, FailureSent, Sent, DriverState, Live
  <2>2. CASE LoadFailed(w)
    BY <1>1, <2>2 DEF LoadFailed, TypeOK, StopReason, FailureSent, Sent, DriverState, Live
  <2>3. CASE Claim(w)
    <3>1. /\ next' = next + 1 /\ Sent' = Sent /\ (Live' => Live) /\ failedBy' = failedBy
          /\ \A v \in Workers : pc'[v] = "store" => pc[v] = "store" /\ unit'[v] = unit[v]
          /\ \A v \in Workers : pc'[v] = "done" => pc[v] = "done" \/ next > Count
      BY <2>3 DEF Claim, TypeOK, Sent, DriverState, Live
    <3>2. next > Count => next' > Count
      BY <1>2, <3>1 DEF TypeOK
    <3>3. FailureSent' <=> FailureSent
      BY <1>1, <3>1 DEF FailureSent
    <3> QED
      BY <1>1, <3>1, <3>2, <3>3 DEF StopReason
  <2>4. CASE Compile(w)
    BY <1>1, <2>4 DEF Compile, TypeOK, StopReason, FailureSent, Sent, DriverState, Live
  <2>5. CASE Send(w)
    <3>1. SUFFICES ASSUME Live' PROVE StopReason'
      BY DEF StopReason
    <3>2. Live /\ driver # "unwind"
      BY <2>5, <3>1 DEF Send, Live, DriverState
    <3>3. /\ Sent' = Sent \cup {unit[w]} /\ unit' = unit /\ next' = next
          /\ failedBy' = failedBy
          /\ \A v \in Workers : pc'[v] = "done" => pc[v] = "done"
          /\ \A v \in Workers : pc'[v] = "store" =>
               pc[v] = "store" \/ (v = w /\ units[unit[w]].result = "err")
      BY <2>5, <3>2 DEF Send, TypeOK, Sent, DriverState
    <3>4. FailureSent => FailureSent'
      BY <1>1, <3>3 DEF FailureSent
    <3> QED
      BY <1>1, <3>2, <3>3, <3>4 DEF StopReason
  <2>6. CASE StoreFailed(w)
    BY <1>1, <2>6 DEF StoreFailed, TypeOK, StopReason, FailureSent, Sent, DriverState, Live
  <2> QED
    BY <2>1, <2>2, <2>3, <2>4, <2>5, <2>6 DEF Worker
<1> QED
  BY <1>4, <1>5, <1>6, <1>7, <1>8 DEF Next, Driver, Stop

-----------------------------------------------------------------------------
(* The driver's phases *)

\* A worker that runs has been spawned; it changes none of the driver's state.
LEMMA WorkerPhase ==
  ASSUME IndInv, NEW w \in Workers, Worker(w)
  PROVE  /\ UNCHANGED DriverState
         /\ pc[w] \notin {"unborn", "done"} /\ pc'[w] # "unborn"
         /\ \A v \in Workers : v # w => pc'[v] = pc[v]
BY DEF IndInv, TypeOK, Worker, LoadClear, LoadFailed, Claim, Compile, Send, StoreFailed,
       DriverState

LEMMA DriverPhaseStep == IndInv /\ [Next]_vars => DriverPhase'
<1> SUFFICES ASSUME IndInv, [Next]_vars PROVE DriverPhase'
  OBVIOUS
<1> USE DEF IndInv
<1>1. units' = units /\ Count' = Count /\ Workers' = Workers
  BY SourcesFixed
<1>2. Count \in Nat /\ WorkerCount(Count) \in Nat /\ WorkerCount(Count) >= 1
  BY WorkerCountType DEF TypeOK, Count
<1>3. CASE InlineUnit
  <2>1. CASE units[Len(stderr) + 1].result = "ok"
    <3>1. /\ stderr' = Append(stderr, Len(stderr) + 1)
          /\ out' = Append(out, Len(stderr) + 1)
          /\ driver' = "inline" /\ pc' = pc
          /\ Len(stderr) + 1 \in 1..Count
      BY <1>3, <2>1 DEF InlineUnit, TypeOK
    <3>2. Len(stderr') = Len(stderr) + 1 /\ Len(out') = Len(out) + 1
      BY <3>1, AppendOne DEF TypeOK
    <3>3. \A i \in 1..(Len(stderr) + 1) : i \in 1..Len(stderr) \/ i = Len(stderr) + 1
      BY DEF TypeOK
    <3> QED
      BY <1>1, <1>3, <2>1, <3>1, <3>2, <3>3 DEF InlineUnit, DriverPhase
  <2>2. CASE units[Len(stderr) + 1].result # "ok"
    BY <1>1, <1>3, <2>2 DEF InlineUnit, DriverPhase
  <2> QED
    BY <2>1, <2>2
<1>4. CASE InlineReturn
  BY <1>1, <1>4 DEF InlineReturn, DriverPhase
<1>5. CASE Spawn
  <2>1. spawned' = spawned + 1 /\ spawned \in Nat /\ driver' = "spawn"
    BY <1>5 DEF Spawn, TypeOK
  <2>2. \A w \in Workers : w <= spawned' <=> pc'[w] # "unborn"
    BY <1>2, <1>5, <2>1 DEF Spawn, TypeOK, DriverPhase, Workers
  <2> QED
    BY <1>1, <1>5, <2>1, <2>2 DEF Spawn, DriverPhase
<1>6. CASE SpawnFail
  BY <1>1, <1>6 DEF SpawnFail, DriverPhase
<1>7. CASE DropSender
  BY <1>1, <1>2, <1>7 DEF DropSender, DriverPhase, Workers
<1>8. CASE Receive
  BY <1>1, <1>8 DEF Receive, DriverPhase
<1>9. CASE LeaveScope
  <2>1. CASE driver' = "panicked"
    BY <1>1, <2>1 DEF DriverPhase
  <2>2. CASE driver' = "replay"
    <3>1. driver = "recv" /\ chan = {} /\ panicked = {} /\ Joined
      BY <1>9, <2>2 DEF LeaveScope
    <3>2. \A w \in Workers : pc[w] = "done"
      BY <3>1 DEF Joined, DriverPhase
    <3>3. stderr = <<>> /\ out = <<>>
      BY <3>1 DEF DriverPhase
    <3> QED
      BY <1>1, <1>2, <1>9, <2>2, <3>1, <3>2, <3>3 DEF LeaveScope, DriverPhase
  <2> QED
    BY <1>9, <2>1, <2>2 DEF LeaveScope
<1>10. CASE Replay
  <2>1. CASE Len(stderr) + 1 \in slots /\ units[Len(stderr) + 1].result = "ok"
    <3>1. /\ stderr' = Append(stderr, Len(stderr) + 1)
          /\ out' = Append(out, Len(stderr) + 1)
          /\ driver' = "replay" /\ pc' = pc
          /\ Len(stderr) + 1 \in 1..Count
      BY <1>10, <2>1 DEF Replay, TypeOK
    <3>2. Len(stderr') = Len(stderr) + 1 /\ Len(out') = Len(out) + 1
      BY <3>1, AppendOne DEF TypeOK
    <3>3. \A i \in 1..(Len(stderr) + 1) : i \in 1..Len(stderr) \/ i = Len(stderr) + 1
      BY DEF TypeOK
    <3> QED
      BY <1>1, <1>10, <2>1, <3>1, <3>2, <3>3 DEF Replay, DriverPhase
  <2>2. CASE ~(Len(stderr) + 1 \in slots /\ units[Len(stderr) + 1].result = "ok")
    BY <1>1, <1>10, <2>2 DEF Replay, DriverPhase
  <2> QED
    BY <2>1, <2>2
<1>11. ASSUME NEW w \in Workers, Worker(w) PROVE DriverPhase'
  <2>1. /\ UNCHANGED DriverState
        /\ pc[w] \notin {"unborn", "done"} /\ pc'[w] # "unborn"
        /\ \A v \in Workers : v # w => pc'[v] = pc[v]
    BY <1>11, WorkerPhase
  <2>2. driver \notin {"inline", "replay"}
    BY <1>11, <2>1 DEF DriverPhase
  <2> QED
    BY <1>1, <1>11, <2>1, <2>2 DEF DriverPhase, DriverState
<1>12. CASE UNCHANGED vars
  BY <1>1, <1>12 DEF vars, DriverPhase
<1> QED
  BY <1>3, <1>4, <1>5, <1>6, <1>7, <1>8, <1>9, <1>10, <1>11, <1>12 DEF Next, Driver, Stop

LEMMA PanicCauseStep == IndInv /\ [Next]_vars => PanicCause'
<1> SUFFICES ASSUME IndInv, [Next]_vars PROVE PanicCause'
  OBVIOUS
<1> USE DEF IndInv
<1>1. units' = units /\ Count' = Count /\ Workers' = Workers
  BY SourcesFixed
<1>2. CASE panicked' = panicked
  BY <1>1, <1>2 DEF PanicCause
<1>3. ASSUME NEW w \in Workers, Compile(w) PROVE PanicCause'
  <2>1. unit[w] \in 1..Count
    BY <1>3 DEF Compile, Placement, Holds
  <2> QED
    BY <1>1, <1>3, <2>1 DEF Compile, PanicCause
<1>4. panicked' = panicked \/ \E w \in Workers : Compile(w)
  BY DEF Next, vars, Driver, Worker, Stop, InlineUnit, InlineReturn, Spawn, SpawnFail,
         DropSender, Receive, LeaveScope, Replay, LoadClear, LoadFailed, Claim,
         Send, StoreFailed, DriverState
<1> QED
  BY <1>2, <1>3, <1>4

-----------------------------------------------------------------------------
(* The theorems *)

LEMMA IndInit == Init => IndInv
<1> SUFFICES ASSUME Init PROVE IndInv
  OBVIOUS
<1>1. TypeOK
  BY TypeInit
<1>2. Count \in Nat /\ WorkerCount(Count) \in Nat
  BY <1>1, WorkerCountType DEF TypeOK, Count
<1>3. \A w \in Workers : pc[w] = "unborn" /\ w > 0
  BY <1>2 DEF Init, Workers
<1>4. Placement /\ StopReason /\ PanicCause
  BY <1>3 DEF Init, Placement, StopReason, PanicCause, Sent, Holds, FailureSent
<1>5. Accounted
  BY <1>2 DEF Init, Accounted
<1>6. DriverPhase
  <2>1. stderr = <<>> /\ out = <<>> /\ spawned = 0 /\ panicked = {} /\ driver \in {"inline", "spawn"}
    BY DEF Init
  <2>2. Len(stderr) = 0 /\ Len(out) = 0 /\ 1..0 = {}
    BY <2>1
  <2>3. driver = "spawn" => \A w \in Workers : w <= spawned <=> pc[w] # "unborn"
    BY <1>2, <1>3, <2>1 DEF Workers
  <2>4. Len(stderr) <= Count /\ \A i \in 1..Len(stderr) : units[i].result = "ok"
    BY <1>2, <2>2
  <2> QED
    BY <1>3, <2>1, <2>2, <2>3, <2>4 DEF DriverPhase
<1> QED
  BY <1>1, <1>4, <1>5, <1>6 DEF IndInv

\* The invariant holds in every state of every build.
THEOREM Inductive == Safety => []IndInv
<1>1. Init => IndInv
  BY IndInit
<1>2. IndInv /\ [Next]_vars => IndInv'
  BY TypeStep, PlacementStep, AccountedStep, StopReasonStep, DriverPhaseStep, PanicCauseStep
     DEF IndInv
<1> QED
  BY <1>1, <1>2, PTL DEF Safety

\* Every variable of the pool keeps its type, whatever the number of sources.
THEOREM TypeCorrect == Safety => []TypeOK
<1>1. IndInv => TypeOK
  BY DEF IndInv
<1> QED
  BY <1>1, Inductive, PTL

\* A unit the cursor passed is with one worker, in the channel or in its slot.
THEOREM UnitsHandedOutOnce == Safety => []HandedOutOnce
<1>1. IndInv => HandedOutOnce
  <2> SUFFICES ASSUME IndInv PROVE HandedOutOnce
    OBVIOUS
  <2>1. panicked = {} /\ driver \notin {"inline", "unwind", "panicked", "exit1", "returned"}
          => Live
    BY DEF IndInv, TypeOK, Live
  <2> QED
    BY <2>1 DEF IndInv, HandedOutOnce, Placement, Accounted, Sent
<1> QED
  BY <1>1, Inductive, PTL

LEMMA EmptySlots == IndInv => NoneOnlyPastFailure
<1> SUFFICES ASSUME IndInv, driver = "replay", NEW i \in (1..Count) \ slots
             PROVE  \E j \in slots : j < i /\ units[j].result = "err"
  BY DEF NoneOnlyPastFailure
<1> USE DEF IndInv
<1>1. panicked = {} /\ chan = {} /\ \A w \in Workers : pc[w] = "done"
  BY DEF DriverPhase
<1>2. Live /\ Sent = slots /\ Count \in Nat
  BY <1>1 DEF Live, Sent, TypeOK, Count
<1>3. ~(i < next)
  BY <1>1, <1>2 DEF Accounted, Holds
<1>4. 1 \in Workers
  BY <1>2, WorkerCountType DEF Workers
<1>5. FailureSent
  BY <1>1, <1>2, <1>3, <1>4 DEF StopReason, TypeOK
<1>6. PICK j \in slots : units[j].result = "err"
  BY <1>2, <1>5 DEF FailureSent
<1>7. j < next /\ j \in 1..Count
  BY <1>2, <1>6 DEF Placement, TypeOK
<1> QED
  BY <1>2, <1>3, <1>6, <1>7 DEF TypeOK

\* The replay never meets an empty slot before it meets a failing unit.
THEOREM EmptySlotsPastFailure == Safety => []NoneOnlyPastFailure
BY EmptySlots, Inductive, PTL

-----------------------------------------------------------------------------
(* The objects on disk *)

\* A unit that compiles has an object under its stem.
OnDisk(i) == units[i].result = "ok" => object[units[i].stem] # 0

\* An object is that of a source of its stem which compiled.
ObjectsOwn ==
  \A s \in Stems : object[s] # 0 =>
    /\ object[s] \in 1..Count
    /\ units[object[s]].stem = s /\ units[object[s]].result = "ok"

\* What was replayed to the caller compiled, and has its object.
OutputsOnDisk == \A k \in 1..Len(out) : units[out[k]].result = "ok" /\ OnDisk(out[k])

\* A unit is sent, filed and replayed only after its object is on disk.
ObjectInv ==
  /\ ObjectsOwn
  /\ \A w \in Workers : pc[w] = "send" => OnDisk(unit[w])
  /\ \A i \in Sent : OnDisk(i)
  /\ OutputsOnDisk

\* Writing an object leaves every stem that has one with one, of its own.
LEMMA WriteObjectKeeps ==
  ASSUME TypeOK, ObjectsOwn, NEW i \in 1..Count, WriteObject(i), units' = units
  PROVE  /\ ObjectsOwn'
         /\ OnDisk(i)'
         /\ \A j \in 1..Count : OnDisk(j) => OnDisk(j)'
<1>1. units[i] \in Unit /\ Count \in Nat /\ Count' = Count
  BY DEF TypeOK, Count
<1>2. units[i].stem \in Stems /\ i # 0
  BY <1>1 DEF Unit
<1>3. object \in [Stems -> 0..Count]
  BY DEF TypeOK
<1>4. CASE units[i].result # "ok"
  BY <1>1, <1>4 DEF WriteObject, ObjectsOwn, OnDisk
<1>5. CASE units[i].result = "ok"
  <2>1. /\ object'[units[i].stem] = i
        /\ \A s \in Stems \ {units[i].stem} : object'[s] = object[s]
    BY <1>2, <1>3, <1>5 DEF WriteObject
  <2>2. ObjectsOwn'
    BY <1>1, <1>5, <2>1 DEF ObjectsOwn
  <2>3. OnDisk(i)'
    BY <1>2, <2>1 DEF OnDisk
  <2>4. ASSUME NEW j \in 1..Count, OnDisk(j) PROVE OnDisk(j)'
    <3>1. units[j] \in Unit
      BY DEF TypeOK, Count
    <3>2. units[j].stem \in Stems
      BY <3>1 DEF Unit
    <3> QED
      BY <1>2, <2>1, <2>4, <3>2 DEF OnDisk
  <2> QED
    BY <2>2, <2>3, <2>4
<1> QED
  BY <1>4, <1>5

\* Every step of the pool keeps the objects of what was sent and replayed.
LEMMA ObjectStep == IndInv /\ ObjectInv /\ [Next]_vars => ObjectInv'
<1> SUFFICES ASSUME IndInv, ObjectInv, [Next]_vars PROVE ObjectInv'
  OBVIOUS
<1>1. units' = units /\ Count' = Count /\ Workers' = Workers
  BY SourcesFixed
<1>2. TypeOK /\ Placement /\ DriverPhase /\ Count \in Nat
  BY DEF IndInv, TypeOK, Count
<1>3. Sent \subseteq 1..Count /\ \A k \in 1..Len(out) : out[k] \in 1..Count
  BY <1>2 DEF TypeOK, Sent
<1>4. CASE UNCHANGED object /\ UNCHANGED out /\ Sent' \subseteq Sent
           /\ \A w \in Workers : pc'[w] = "send" => pc[w] = "send" /\ unit'[w] = unit[w]
  BY <1>1, <1>4 DEF ObjectInv, ObjectsOwn, OutputsOnDisk, OnDisk
<1>5. CASE InlineReturn \/ DropSender \/ LeaveScope \/ UNCHANGED vars
  BY <1>4, <1>5 DEF InlineReturn, DropSender, LeaveScope, vars, Sent
<1>6. CASE Spawn
  <2>1. \A w \in Workers : pc'[w] = "send" => pc[w] = "send"
    BY <1>2, <1>6 DEF Spawn, TypeOK
  <2> QED
    BY <1>4, <1>6, <2>1 DEF Spawn, Sent
<1>7. CASE SpawnFail \/ Receive
  BY <1>4, <1>7 DEF SpawnFail, Receive, Sent
<1>8. ASSUME NEW i \in 1..Count, out' = Append(out, i), units[i].result = "ok", OnDisk(i)',
             \A j \in 1..Count : OnDisk(j) => OnDisk(j)'
      PROVE  OutputsOnDisk'
  <2>1. Len(out') = Len(out) + 1 /\ Len(out) \in Nat /\ out'[Len(out) + 1] = i
        /\ \A k \in 1..Len(out) : out'[k] = out[k]
    BY <1>2, <1>8 DEF TypeOK
  <2>2. ASSUME NEW k \in 1..(Len(out) + 1), NEW j, j = out'[k]
        PROVE  units'[j].result = "ok" /\ OnDisk(j)'
    <3>1. CASE k = Len(out) + 1
      BY <1>1, <1>8, <2>1, <2>2, <3>1
    <3>2. CASE k \in 1..Len(out)
      BY <1>1, <1>3, <1>8, <2>1, <2>2, <3>2 DEF ObjectInv, OutputsOnDisk
    <3> QED
      BY <2>1, <3>1, <3>2
  <2> QED
    BY <2>1, <2>2 DEF OutputsOnDisk, OnDisk
<1>9. CASE InlineUnit
  <2>1. PICK i \in 1..Count : i = Len(stderr) + 1
    BY <1>2, <1>9 DEF InlineUnit, TypeOK
  <2>2. WriteObject(i) /\ UNCHANGED <<pc, unit, chan, slots>>
    BY <1>9, <2>1 DEF InlineUnit
  <2>3. ObjectsOwn' /\ OnDisk(i)' /\ \A j \in 1..Count : OnDisk(j) => OnDisk(j)'
    BY <1>1, <1>2, <2>2, WriteObjectKeeps DEF ObjectInv
  <2>4. OutputsOnDisk'
    <3>1. CASE units[i].result = "ok"
      <4>1. out' = Append(out, i)
        BY <1>9, <2>1, <3>1 DEF InlineUnit
      <4> QED
        BY <1>8, <2>3, <3>1, <4>1
    <3>2. CASE units[i].result # "ok"
      <4>1. out' = out
        BY <1>9, <2>1, <3>2 DEF InlineUnit
      <4> QED
        BY <1>1, <1>3, <2>3, <4>1 DEF ObjectInv, OutputsOnDisk, OnDisk
    <3> QED
      BY <3>1, <3>2
  <2>5. \A w \in Workers : pc'[w] # "send"
    BY <1>2, <1>9, <2>2 DEF DriverPhase, InlineUnit
  <2>6. \A j \in Sent' : OnDisk(j)'
    BY <1>3, <2>2, <2>3 DEF ObjectInv, Sent
  <2> QED
    BY <1>1, <2>3, <2>4, <2>5, <2>6 DEF ObjectInv
<1>10. CASE Replay
  <2>1. UNCHANGED <<object, pc, unit, chan, slots>>
    BY <1>10 DEF Replay
  <2>2. CASE out' = out
    BY <1>4, <2>1, <2>2 DEF Sent
  <2>3. CASE out' # out
    <3>1. PICK i : i = Len(stderr) + 1
      OBVIOUS
    <3>2. i \in slots /\ units[i].result = "ok" /\ out' = Append(out, i)
      BY <1>10, <2>3, <3>1 DEF Replay
    <3>3. i \in 1..Count /\ OnDisk(i)
      BY <1>3, <3>2 DEF ObjectInv, Sent
    <3>4. \A j \in 1..Count : OnDisk(j) => OnDisk(j)'
      BY <1>1, <2>1 DEF OnDisk
    <3>5. OutputsOnDisk'
      BY <1>8, <3>2, <3>3, <3>4
    <3> QED
      BY <1>1, <2>1, <3>5 DEF ObjectInv, ObjectsOwn, OnDisk, Sent
  <2> QED
    BY <2>2, <2>3
<1>11. ASSUME NEW w \in Workers, Worker(w) PROVE ObjectInv'
  <2>1. CASE LoadClear(w) \/ LoadFailed(w) \/ StoreFailed(w)
    <3>1. \A v \in Workers : pc'[v] = "send" => pc[v] = "send"
      BY <1>2, <2>1 DEF LoadClear, LoadFailed, StoreFailed, TypeOK
    <3> QED
      BY <1>4, <2>1, <3>1 DEF LoadClear, LoadFailed, StoreFailed, DriverState, Sent
  <2>2. CASE Claim(w)
    <3>1. \A v \in Workers : pc'[v] = "send" => pc[v] = "send" /\ unit'[v] = unit[v]
      BY <1>2, <2>2 DEF Claim, TypeOK
    <3> QED
      BY <1>4, <2>2, <3>1 DEF Claim, DriverState, Sent
  <2>3. CASE Send(w)
    <3>1. /\ Sent' \subseteq Sent \cup {unit[w]} /\ UNCHANGED <<object, out, unit>>
          /\ pc[w] = "send" /\ \A v \in Workers : pc'[v] = "send" => pc[v] = "send"
      BY <1>2, <2>3 DEF Send, TypeOK, DriverState, Sent
    <3>2. \A i \in Sent' : OnDisk(i)
      BY <3>1 DEF ObjectInv
    <3> QED
      BY <1>1, <3>1, <3>2 DEF ObjectInv, ObjectsOwn, OutputsOnDisk, OnDisk
  <2>4. CASE Compile(w)
    <3>1. PICK i : i = unit[w]
      OBVIOUS
    <3>2. i \in 1..Count /\ WriteObject(i) /\ UNCHANGED <<out, unit, chan, slots>>
      BY <1>2, <2>4, <3>1 DEF Compile, DriverState, Placement, Holds
    <3>3. ObjectsOwn' /\ OnDisk(i)' /\ \A j \in 1..Count : OnDisk(j) => OnDisk(j)'
      BY <1>1, <1>2, <3>2, WriteObjectKeeps DEF ObjectInv
    <3>4. \A v \in Workers : pc'[v] = "send" => v = w \/ pc[v] = "send"
      BY <1>2, <2>4 DEF Compile, TypeOK
    <3>5. \A v \in Workers : pc[v] = "send" => unit[v] \in 1..Count
      BY <1>2 DEF Placement
    <3>6. ASSUME NEW v \in Workers, pc'[v] = "send", NEW j, j = unit[v] PROVE OnDisk(j)'
      BY <3>1, <3>3, <3>4, <3>5, <3>6 DEF ObjectInv
    <3>7. \A j \in Sent' : OnDisk(j)'
      BY <1>3, <3>2, <3>3 DEF ObjectInv, Sent
    <3>8. OutputsOnDisk'
      BY <1>1, <1>3, <3>2, <3>3 DEF ObjectInv, OutputsOnDisk, OnDisk
    <3>9. \A v \in Workers : pc'[v] = "send" => OnDisk(unit[v])'
      BY <3>2, <3>6 DEF OnDisk
    <3> QED
      BY <1>1, <3>3, <3>7, <3>8, <3>9 DEF ObjectInv
  <2> QED
    BY <1>11, <2>1, <2>2, <2>3, <2>4 DEF Worker
<1> QED
  BY <1>5, <1>6, <1>7, <1>9, <1>10, <1>11 DEF Next, Driver, Stop

\* A replayed payload's object is on disk and of a source of its stem that compiled.
THEOREM ObjectsThere == Safety => []ObjectsOfReplayed
<1>1. Init => ObjectInv
  <2> SUFFICES ASSUME Init PROVE ObjectInv
    OBVIOUS
  <2>1. \A s \in Stems : object[s] = 0
    BY DEF Init
  <2>2. Sent = {} /\ Len(out) = 0 /\ \A w \in Workers : pc[w] # "send"
    BY DEF Init, Sent
  <2> QED
    BY <2>1, <2>2 DEF ObjectInv, ObjectsOwn, OutputsOnDisk
<1>2. IndInv /\ ObjectInv => ObjectsOfReplayed
  <2> SUFFICES ASSUME IndInv, ObjectInv, NEW k \in DOMAIN out
               PROVE  LET o == object[units[out[k]].stem]
                      IN  o # 0 /\ units[o].stem = units[out[k]].stem /\ units[o].result = "ok"
    BY DEF ObjectsOfReplayed, Range
  <2>1. TypeOK /\ DOMAIN out = 1..Len(out) /\ Count \in Nat
    BY DEF IndInv, TypeOK, Count
  <2>2. out[k] \in 1..Count /\ units[out[k]].result = "ok" /\ OnDisk(out[k])
    <3>1. out[k] \in 1..Count
      BY <2>1 DEF TypeOK
    <3> QED
      BY <2>1, <3>1 DEF ObjectInv, OutputsOnDisk
  <2>3. units[out[k]] \in Unit
    BY <2>1, <2>2 DEF TypeOK, Count
  <2>4. units[out[k]].stem \in Stems
    BY <2>3 DEF Unit
  <2> QED
    BY <2>2, <2>4 DEF ObjectInv, ObjectsOwn, OnDisk
<1> QED
  BY <1>1, <1>2, ObjectStep, Inductive, PTL DEF Safety

\* Every step of the pool is a step of the sequential driver or changes nothing
\* its caller sees: the safety part of KeepsPromise.
THEOREM PoolKeepsPromise == Safety => Promise!Init /\ [][Promise!Next]_(Promise!vars)
<1>1. Init => Promise!Init
  <2> SUFFICES ASSUME Init PROVE Promise!Init
    OBVIOUS
  <2>1. units \in Seq(Unit)
    BY TypeInit DEF TypeOK
  <2>2. Status = "running"
    BY DEF Init, Status, Finished
  <2> QED
    BY <2>1, <2>2 DEF Init, Promise!Init, Promise!Unit, Unit
<1>2. IndInv /\ [Next]_vars => [Promise!Next]_(Promise!vars)
  <2> SUFFICES ASSUME IndInv, [Next]_vars PROVE [Promise!Next]_(Promise!vars)
    OBVIOUS
  <2> USE DEF IndInv
  <2>1. units' = units /\ Count' = Count
    BY SourcesFixed
  <2>2. CASE UNCHANGED <<units, stderr, out, Status>>
    BY <2>2 DEF Promise!vars
  <2>3. CASE InlineUnit
    <3>1. CASE units[Len(stderr) + 1].result = "panic"
      <4>1. Promise!MayPanic
        <5>1. Len(stderr) + 1 \in 1..Len(units)
          BY <2>3 DEF InlineUnit, TypeOK, Count
        <5> QED
          BY <3>1, <5>1 DEF Promise!MayPanic
      <4> QED
        BY <2>1, <2>3, <3>1, <4>1 DEF InlineUnit, Promise!Next, Promise!Unwind, Status, Finished
    <3>2. CASE units[Len(stderr) + 1].result # "panic"
      BY <2>1, <2>3, <3>2 DEF InlineUnit, Promise!Next, Promise!ReplayNext, Status, Finished, Count
    <3> QED
      BY <3>1, <3>2
  <2>4. CASE InlineReturn
    BY <2>1, <2>4 DEF InlineReturn, DriverPhase, Promise!Next, Promise!Return, Status, Finished,
                      Count
  <2>5. CASE Spawn \/ SpawnFail \/ DropSender \/ Receive
    BY <2>1, <2>2, <2>5 DEF Spawn, SpawnFail, DropSender, Receive, Status, Finished
  <2>6. CASE LeaveScope
    <3>1. CASE driver' = "panicked"
      <4>1. Promise!MayPanic
        BY <2>6, <3>1 DEF LeaveScope, DriverPhase, PanicCause, Promise!MayPanic, Count
      <4> QED
        BY <2>1, <2>6, <3>1, <4>1 DEF LeaveScope, Promise!Next, Promise!Unwind, Status, Finished
    <3>2. CASE driver' = "replay"
      BY <2>1, <2>2, <2>6, <3>2 DEF LeaveScope, Status, Finished
    <3> QED
      BY <2>6, <3>1, <3>2 DEF LeaveScope
  <2>7. CASE Replay
    <3> DEFINE i == Len(stderr) + 1
    <3>1. CASE i \in slots
      <4>1. i \in 1..Count /\ units[i].result \in {"ok", "err"}
        <5>1. i \in 1..Count
          BY <3>1 DEF TypeOK
        <5>2. units[i] \in Unit
          BY <5>1 DEF TypeOK, Count
        <5>3. units[i].result \in AllResults
          BY <5>2, ResultsAssumption DEF Unit
        <5> QED
          BY <3>1, <5>1, <5>3 DEF Placement, Sent, AllResults
      <4> QED
        BY <2>1, <2>7, <3>1, <4>1 DEF Replay, Promise!Next, Promise!ReplayNext, Status, Finished,
                                      Count
    <3>2. CASE i \notin slots
      <4>1. Len(stderr) = Count
        <5>1. i \notin 1..Count
          <6> SUFFICES ASSUME i \in 1..Count PROVE FALSE
            OBVIOUS
          <6>1. PICK j \in slots : j < i /\ units[j].result = "err"
            BY <2>7, <3>2, EmptySlots DEF NoneOnlyPastFailure, Replay
          <6>2. j \in 1..Len(stderr)
            BY <6>1 DEF TypeOK
          <6> QED
            BY <2>7, <6>1, <6>2 DEF DriverPhase, Replay
        <5> QED
          BY <2>7, <5>1 DEF DriverPhase, Replay, TypeOK, Count
      <4> QED
        BY <2>1, <2>7, <3>2, <4>1 DEF Replay, DriverPhase, Promise!Next, Promise!Return, Status,
                                      Finished, Count
    <3> QED
      BY <3>1, <3>2
  <2>8. ASSUME NEW w \in Workers, Worker(w) PROVE [Promise!Next]_(Promise!vars)
    BY <2>1, <2>2, <2>8, WorkerPhase DEF DriverState, Status, Finished
  <2>9. CASE UNCHANGED vars
    BY <2>2, <2>9 DEF vars, Status, Finished
  <2> QED
    BY <2>3, <2>4, <2>5, <2>6, <2>7, <2>8, <2>9 DEF Next, Driver, Stop
<1> QED
  BY <1>1, <1>2, Inductive, PTL DEF Safety

=============================================================================
