------------------------- MODULE OnceSemaphoreProofs -------------------------
(* Proofs about pthread_once and the semaphore it makes, for any finite set   *)
(* of threads and any limits: the init routine runs once, the count keeps its *)
(* limits, and no wake-up of either is lost.                                  *)
EXTENDS OnceSemaphore, FiniteSetTheorems, TLAPS

\* Where a caller of pthread_once holds the lock, and where else it may be.
Holding == {"store", "unlock_done", "check", "unlock", "sleep"}
OncePlaces == Holding \cup {"before", "returned", "exchange", "lock", "init", "lock_done",
                            "wake", "asleep"}

\* The thread that won the exchange, until the control says so.
Winning == {"init", "lock_done", "store"}

OnceTypes ==
  /\ once \in {"new", "running", "done"}
  /\ once_lock \in Threads \cup {Once!None}
  /\ onceAt \in [Threads -> OncePlaces]
  /\ ran \in {0, 1}

\* The control and the routine, and who has the lock.
ControlInv ==
  /\ once = "new" => ran = 0
  /\ once = "done" => ran = 1
  /\ \A t \in Threads :
       /\ onceAt[t] = "init" => once = "running" /\ ran = 0
       /\ onceAt[t] \in {"lock_done", "store"} => once = "running" /\ ran = 1
       /\ onceAt[t] \in {"unlock_done", "wake", "unlock", "returned"} => once = "done"
       /\ \A s \in Threads : onceAt[t] \in Winning /\ onceAt[s] \in Winning => s = t
       /\ once_lock = t <=> onceAt[t] \in Holding

\* A thread that is to sleep saw the control under the lock it still has; one that
\* sleeps on when the control is set has its wake-up ahead.
SleepInv ==
  \A t \in Threads :
    /\ onceAt[t] = "sleep" => once # "done"
    /\ onceAt[t] = "asleep" /\ once = "done" =>
         \E s \in Threads : onceAt[s] \in {"unlock_done", "wake"}

OnceInv == OnceTypes /\ ControlInv /\ SleepInv

\* A control nobody has used yet satisfies its part of the invariant.
LEMMA OnceInvInit == Once!Init => OnceInv
  BY ThreadsAssumption
  DEF Once!Init, Once!None, OnceInv, OnceTypes, ControlInv, SleepInv, OncePlaces, Holding, Winning

\* Each step of pthread_once, by any thread, preserves the part of its control.
LEMMA OnceInvStep ==
  ASSUME OnceInv, NEW t \in Threads,
         Once!Step(t) \/ Once!Acquire(t) \/ Once!Spurious(t) \/ Once!InitReturns(t)
  PROVE  OnceInv'
<1> USE ThreadsAssumption DEF OnceTypes, ControlInv, Holding, Winning, OncePlaces, Once!None
<1> SUFFICES OnceTypes' /\ ControlInv' /\ SleepInv'
  BY DEF OnceInv
<1>0. OnceTypes /\ ControlInv /\ SleepInv
  BY DEF OnceInv
<1>1. CASE Once!Load(t)
  BY <1>0, <1>1 DEF Once!Load, Once!Go, SleepInv
<1>2. CASE Once!Exchange(t)
  BY <1>0, <1>2 DEF Once!Exchange, Once!Go, SleepInv
<1>3. CASE Once!Store(t)
  BY <1>0, <1>3 DEF Once!Store, Once!Go, SleepInv
<1>4. CASE Once!Release(t)
  BY <1>0, <1>4 DEF Once!Release, Once!Go, SleepInv
<1>5. CASE Once!WakeAll(t)
  BY <1>0, <1>5 DEF Once!WakeAll, SleepInv
<1>6. CASE Once!Check(t)
  BY <1>0, <1>6 DEF Once!Check, Once!Go, SleepInv
<1>7. CASE Once!Sleep(t)
  BY <1>0, <1>7 DEF Once!Sleep, Once!Go, SleepInv
<1>8. CASE Once!Spurious(t)
  BY <1>0, <1>8 DEF Once!Spurious, Once!Go, SleepInv
<1>9. CASE Once!Acquire(t)
  BY <1>0, <1>9 DEF Once!Acquire, Once!Go, SleepInv
<1>10. CASE Once!InitReturns(t)
  BY <1>0, <1>10 DEF Once!InitReturns, Once!Go, SleepInv
<1> QED
  BY <1>1, <1>2, <1>3, <1>4, <1>5, <1>6, <1>7, <1>8, <1>9, <1>10 DEF Once!Step

-----------------------------------------------------------------------------
(* The semaphore *)

\* The threads in a call that will look at the count, or wake one that will.
Awake == {t \in Threads : semAt[t] \in {"wait", "woken", "timed", "malformed", "wake"}}

\* While a thread sleeps, every unit has a thread awake that comes for it.
UnitsInv == Sem!Asleep = {} \/ value <= Cardinality(Awake)

\* Nobody uses the semaphore before it is made.
UnusedInv == ran = 0 => \A t \in Threads : semAt[t] = "idle"

SemInv == Sem!TypeOK /\ UnitsInv

IndInv == OnceInv /\ SemInv /\ UnusedInv

\* The threads are finitely many, so those awake can be counted.
LEMMA AwakeFinite == /\ IsFiniteSet(Awake) /\ Cardinality(Awake) \in Nat
                     /\ IsFiniteSet(Awake') /\ Cardinality(Awake') \in Nat
<1>1. Awake \subseteq Threads /\ Awake' \subseteq Threads
  BY DEF Awake
<1> QED
  BY <1>1, ThreadsAssumption, FS_Subset, FS_CardinalityType

\* A thread that takes a unit and leaves, takes one from each side.
LEMMA TakeUnit ==
  ASSUME SemInv, NEW t \in Threads, value > 0, Sem!Take(t), t \in Awake \/ semAt[t] = "idle",
         UNCHANGED <<record, passed>>
  PROVE  SemInv'
<1>1. Sem!TypeOK'
  BY BoundsAssumption DEF SemInv, Sem!TypeOK, Sem!Take, Sem!Go
<1>2. Sem!Asleep' \subseteq Sem!Asleep
  BY DEF SemInv, Sem!TypeOK, Sem!Asleep, Sem!Take, Sem!Go
<1>3. CASE t \in Awake
  <2>1. Awake' = Awake \ {t}
    BY <1>3 DEF SemInv, Sem!TypeOK, Awake, Sem!Take, Sem!Go
  <2>2. Cardinality(Awake') = Cardinality(Awake) - 1
    BY <1>3, <2>1, AwakeFinite, FS_RemoveElement
  <2> QED
    BY <1>1, <1>2, <2>2, AwakeFinite DEF SemInv, UnitsInv, Sem!TypeOK, Sem!Take
<1>4. CASE semAt[t] = "idle"
  <2>1. Awake' = Awake
    BY <1>4 DEF SemInv, Sem!TypeOK, Awake, Sem!Take, Sem!Go
  <2> QED
    BY <1>1, <1>2, <2>1, AwakeFinite DEF SemInv, UnitsInv, Sem!TypeOK, Sem!Take
<1> QED
  BY <1>3, <1>4

\* A thread enters a call or wakes; no unit is added.
LEMMA OneMoreAwake ==
  ASSUME SemInv, NEW t \in Threads, Sem!TypeOK', t \notin Awake,
         NEW l \in {"wait", "woken", "timed", "malformed", "wake"},
         semAt' = [semAt EXCEPT ![t] = l], value' \in {value, value + 1}
  PROVE  SemInv'
<1>1. Awake' = Awake \cup {t} /\ Sem!Asleep' \subseteq Sem!Asleep
  BY DEF SemInv, Sem!TypeOK, Awake, Sem!Asleep
<1>2. Cardinality(Awake') = Cardinality(Awake) + 1
  BY <1>1, AwakeFinite, FS_AddElement
<1> QED
  BY <1>1, <1>2, AwakeFinite DEF SemInv, UnitsInv, Sem!TypeOK

\* The steps of a call on the semaphore keep its invariant.
LEMMA SemInvStep ==
  ASSUME SemInv, NEW t \in Threads, Sem!Call(t) \/ Sem!Step(t) \/ Sem!SleepEnds(t)
  PROVE  SemInv'
<1>0. Sem!TypeOK /\ UnitsInv /\ semAt \in [Threads -> {"idle", "wait", "timed", "malformed",
                            "asleep", "timed_asleep", "woken", "wake"}]
  BY DEF SemInv, Sem!TypeOK
<1>1. CASE Sem!SemWait(t)
  BY <1>0, <1>1, OneMoreAwake DEF Sem!SemWait, Sem!Enter, Sem!Go, Sem!TypeOK, Awake
<1>2. CASE Sem!SemTimedWait(t)
  <2>1. PICK l \in {"timed", "malformed"} : Sem!Enter(t, l)
    BY <1>2 DEF Sem!SemTimedWait
  <2>2. Sem!TypeOK'
    BY <1>0, <1>2, <2>1 DEF Sem!SemTimedWait, Sem!Enter, Sem!Go, Sem!TypeOK
  <2> QED
    BY <1>0, <1>2, <2>1, <2>2, OneMoreAwake DEF Sem!SemTimedWait, Sem!Enter, Sem!Go, Awake
<1>3. CASE Sem!SemTryWait(t)
  <2>1. CASE value > 0
    BY <1>0, <1>3, <2>1, TakeUnit DEF Sem!SemTryWait
  <2>2. CASE ~(value > 0)
    BY <1>0, <1>3, <2>2 DEF Sem!SemTryWait, SemInv, UnitsInv, Sem!TypeOK, Awake, Sem!Asleep
  <2> QED
    BY <2>1, <2>2
<1>4. CASE Sem!SemPost(t)
  <2>1. CASE value = SEM_VALUE_MAX
    BY <1>0, <1>4, <2>1 DEF Sem!SemPost, SemInv, UnitsInv, Sem!TypeOK, Awake, Sem!Asleep
  <2>2. CASE value # SEM_VALUE_MAX
    <3>1. Sem!TypeOK'
      BY <1>0, <1>4, <2>2, BoundsAssumption DEF Sem!SemPost, Sem!Go, Sem!TypeOK
    <3> QED
      BY <1>0, <1>4, <2>2, <3>1, OneMoreAwake DEF Sem!SemPost, Sem!Go, Awake
  <2> QED
    BY <2>1, <2>2
<1>5. CASE Sem!SemDestroy(t)
  BY <1>0, <1>5 DEF Sem!SemDestroy, SemInv, UnitsInv, Sem!TypeOK, Awake, Sem!Asleep
<1>6. CASE Sem!WaitLoop(t)
  <2>1. CASE value = 0
    <3>1. Sem!TypeOK' /\ value' = 0
      BY <1>0, <1>6, <2>1 DEF Sem!WaitLoop, Sem!TypeOK, Sem!Go
    <3> QED
      BY <3>1, AwakeFinite DEF SemInv, UnitsInv
  <2>2. CASE value # 0
    BY <1>0, <1>6, <2>2, TakeUnit DEF Sem!WaitLoop, Sem!TypeOK, Awake
  <2> QED
    BY <2>1, <2>2
<1>7. CASE Sem!TimedLoop(t)
  <2>1. CASE ~(value > 0)
    <3>1. Sem!TypeOK' /\ value' = 0
      BY <1>0, <1>7, <2>1 DEF Sem!TimedLoop, Sem!TypeOK, Sem!Go
    <3> QED
      BY <3>1, AwakeFinite DEF SemInv, UnitsInv
  <2>2. CASE value > 0
    BY <1>0, <1>7, <2>2, TakeUnit DEF Sem!TimedLoop, Sem!TypeOK, Awake
  <2> QED
    BY <2>1, <2>2
<1>8. CASE Sem!WakeOne(t)
  <2>1. Sem!TypeOK' /\ value' = value
    BY <1>0, <1>8 DEF Sem!WakeOne, Sem!TypeOK, Sem!Go, Sem!Woken, Sem!Asleep
  <2>2. CASE Sem!Asleep = {}
    <3>1. Sem!Asleep' = {}
      BY <1>0, <1>8, <2>2 DEF Sem!WakeOne, Sem!Go, Sem!Asleep
    <3> QED
      BY <2>1, <3>1 DEF SemInv, UnitsInv
  <2>3. CASE Sem!Asleep # {}
    <3>1. PICK s \in Sem!Asleep : semAt' = [semAt EXCEPT ![t] = "idle", ![s] = Sem!Woken(semAt[s])]
      BY <1>8, <2>3 DEF Sem!WakeOne
    <3>2. t \in Awake /\ s \in Threads /\ s \notin Awake
      BY <1>8, <3>1 DEF Sem!WakeOne, Awake, Sem!Asleep
    <3>3. Awake' = (Awake \ {t}) \cup {s}
      BY <1>0, <3>1, <3>2 DEF Awake, Sem!Woken
    <3>4. Cardinality(Awake \ {t}) = Cardinality(Awake) - 1 /\ IsFiniteSet(Awake \ {t})
      BY <3>2, AwakeFinite, FS_RemoveElement
    <3>5. Cardinality((Awake \ {t}) \cup {s}) = Cardinality(Awake \ {t}) + 1
      BY <3>2, <3>4, FS_AddElement
    <3> QED
      BY <1>0, <2>1, <2>3, <3>3, <3>4, <3>5, AwakeFinite DEF SemInv, UnitsInv
  <2> QED
    BY <2>2, <2>3
<1>9. CASE Sem!SleepEnds(t)
  <2>1. Sem!TypeOK'
    BY <1>0, <1>9 DEF Sem!SleepEnds, Sem!Go, Sem!Woken, Sem!TypeOK
  <2>2. t \notin Awake /\ Sem!Woken(semAt[t]) \in {"wait", "woken", "timed", "malformed", "wake"}
    BY <1>9 DEF Sem!SleepEnds, Sem!Asleep, Awake, Sem!Woken
  <2> QED
    BY <1>9, <2>1, <2>2, OneMoreAwake DEF Sem!SleepEnds, Sem!Go
<1> QED
  BY <1>1, <1>2, <1>3, <1>4, <1>5, <1>6, <1>7, <1>8, <1>9 DEF Sem!Call, Sem!Step

-----------------------------------------------------------------------------
(* The theorems *)

\* The state a behaviour starts in satisfies the invariant.
LEMMA IndInvInit == Init => IndInv
<1> SUFFICES ASSUME Init PROVE IndInv
  OBVIOUS
<1>1. OnceInv
  BY OnceInvInit DEF Init
<1>2. Sem!TypeOK /\ UnusedInv
  BY BoundsAssumption DEF Init, Sem!Init, Sem!TypeOK, UnusedInv
<1>3. UnitsInv
  BY DEF Init, Sem!Init, UnitsInv, Sem!Asleep
<1> QED
  BY <1>1, <1>2, <1>3 DEF IndInv, SemInv

\* Every step keeps it.
LEMMA IndInvNext == IndInv /\ [Next]_vars => IndInv'
<1> SUFFICES ASSUME IndInv, [Next]_vars PROVE IndInv'
  OBVIOUS
<1>0. OnceInv /\ SemInv /\ UnusedInv
  BY DEF IndInv
<1>1. ASSUME UNCHANGED semVars PROVE SemInv'
  BY <1>0, <1>1 DEF semVars, SemInv, UnitsInv, Sem!TypeOK, Sem!Asleep, Awake
<1>2. ASSUME UNCHANGED onceVars PROVE OnceInv'
  BY <1>0, <1>2 DEF onceVars, OnceInv, OnceTypes, ControlInv, SleepInv
<1>3. CASE UNCHANGED vars
  <2>1. UNCHANGED semVars /\ UNCHANGED onceVars
    BY <1>3 DEF vars, semVars, onceVars
  <2> QED
    BY <1>0, <1>1, <1>2, <2>1 DEF IndInv, UnusedInv, semVars, onceVars
<1>4. ASSUME NEW t \in Threads, MakeSemaphore(t) PROVE IndInv'
  <2>1. OnceInv'
    BY <1>0, <1>4, OnceInvStep DEF MakeSemaphore
  <2>2. onceAt[t] = "init" /\ ran = 0 /\ ran' = 1
    BY <1>0, <1>4 DEF MakeSemaphore, Once!InitReturns, OnceInv, ControlInv
  <2>3. semAt' = semAt /\ \A s \in Threads : semAt[s] = "idle"
    BY <1>0, <1>4, <2>2 DEF MakeSemaphore, Sem!SemInit, UnusedInv
  <2>4. Sem!Asleep' = {}
    BY <2>3 DEF Sem!Asleep
  <2>5. Sem!TypeOK'
    BY <1>0, <1>4 DEF MakeSemaphore, Sem!SemInit, SemInv, Sem!TypeOK
  <2> QED
    BY <2>1, <2>2, <2>4, <2>5 DEF IndInv, SemInv, UnitsInv, UnusedInv
<1>5. ASSUME NEW t \in Threads, OnceStep(t) \/ OnceAcquire(t) \/ OnceSpurious(t) PROVE IndInv'
  <2>1. OnceInv' /\ UNCHANGED semVars
    BY <1>0, <1>5, OnceInvStep DEF OnceStep, OnceAcquire, OnceSpurious
  <2>2. ran' = ran
    BY <1>5 DEF OnceStep, OnceAcquire, OnceSpurious, Once!Step, Once!Acquire, Once!Spurious,
       Once!Load, Once!Exchange, Once!Store, Once!Release, Once!WakeAll, Once!Check, Once!Sleep
  <2> QED
    BY <1>0, <1>1, <2>1, <2>2 DEF IndInv, UnusedInv, semVars
<1>6. ASSUME NEW t \in Threads, SemCall(t) \/ SemStep(t) \/ SemSleepEnds(t) PROVE IndInv'
  <2>1. SemInv' /\ UNCHANGED onceVars
    BY <1>0, <1>6, SemInvStep DEF SemCall, SemStep, SemSleepEnds
  <2>2. ran # 0
    BY <1>0, <1>6 DEF SemCall, SemStep, SemSleepEnds, UnusedInv, OnceInv, ControlInv, Sem!Step,
       Sem!WaitLoop, Sem!TimedLoop, Sem!WakeOne, Sem!SleepEnds, Sem!Asleep
  <2> QED
    BY <1>2, <2>1, <2>2 DEF IndInv, UnusedInv, onceVars
<1> QED
  BY <1>3, <1>4, <1>5, <1>6 DEF Next

\* The invariant holds in every state of every behaviour.
LEMMA IndInvAlways == Spec => []IndInv
  BY IndInvInit, IndInvNext, PTL DEF Spec

\* The semaphore's count stays within 0..SEM_VALUE_MAX (sem_post, sem_wait and
\* sem_timedwait), for every number of threads and every limit.
THEOREM TypeCorrect == Spec => []TypeOK
<1>1. IndInv => TypeOK
  BY DEF IndInv, SemInv, TypeOK
<1> QED
  BY <1>1, IndInvAlways, PTL

\* The init routine of pthread_once runs once, and no call of pthread_once returns
\* before it has.
THEOREM InitRunsOnce == Spec => []InitOnce
<1>1. IndInv => InitOnce
  BY DEF IndInv, OnceInv, OnceTypes, ControlInv, InitOnce, Once!InitOnce
<1> QED
  BY <1>1, IndInvAlways, PTL

\* A thread asleep in pthread_once beside a control that is done has the winner's
\* wake-up still ahead of it: the store cannot fall between a waiter's look and its sleep.
OnceWakeAhead ==
  \A t \in Threads : onceAt[t] = "asleep" /\ once = "done" =>
    \E s \in Threads : onceAt[s] \in {"unlock_done", "wake"}

\* pthread_once loses no wake-up, which is the safety half of OnceReturns.
THEOREM OnceLosesNoWake == Spec => []OnceWakeAhead
<1>1. IndInv => OnceWakeAhead
  BY DEF IndInv, OnceInv, SleepInv, OnceWakeAhead
<1> QED
  BY <1>1, IndInvAlways, PTL

\* A unit beside a sleeper has a thread awake that comes for it, or that will wake the
\* sleeper: sem_post's wake-up, made after it released the lock, is never one too few.
UnitWakeAhead == value > 0 /\ Sem!Asleep # {} => Awake # {}

\* sem_post loses no wake-up, which is the safety half of PostsReachWaiters.
THEOREM PostLosesNoWake == Spec => []UnitWakeAhead
<1>1. IndInv => UnitWakeAhead
  BY AwakeFinite, FS_EmptySet DEF IndInv, SemInv, UnitsInv, Sem!TypeOK, UnitWakeAhead
<1> QED
  BY <1>1, IndInvAlways, PTL
=============================================================================
