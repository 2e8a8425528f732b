---------------------------- MODULE PthreadSync -----------------------------
(* One mutex and one condition variable of src/libc/lib/pthread_ext.c: the    *)
(* pthread_mutex_* and pthread_cond_* calls of the Windows targets, built on  *)
(* kernel32's slim reader/writer lock and condition variable.                 *)
(*                                                                            *)
(* Every thread makes the calls it may in any order. A call is split where    *)
(* another thread can observe it: at each access to the lock, the owner and   *)
(* the count, none of which the lock's holder makes atomically with another.  *)
EXTENDS Naturals, FiniteSets

CONSTANTS
  Threads,
  Types,       \* the types the mutex may be initialised with
  CountMax     \* UINT_MAX

ASSUME TypesAssumption == Types \subseteq {"normal", "errorcheck", "recursive"}
ASSUME CountMaxAssumption == CountMax \in Nat \ {0}

None == "none"
ASSUME NoneAssumption == None \notin Threads

VARIABLES
  type,     \* mutex->__type, set by pthread_mutex_init
  srw,      \* the slim lock's holder
  owner,    \* mutex->__owner
  count,    \* mutex->__count
  call,     \* the call each thread is in: where it is, and its locals
  ret,      \* what the last step returned, and to whom
  depth,    \* (history) the levels the thread has locked and not unlocked
  told,     \* (history) the threads a wake took off the queue, until they return
  owed      \* (history) the threads a broadcast found blocked, until they return

mutex == <<type, srw, owner, count>>
vars == <<type, srw, owner, count, call, ret, depth, told, owed>>

\* A call's place in the code; whether its wait has a deadline, and whether that
\* has passed; what SleepConditionVariableSRW will return; cond_sleep's `count`.
Frame(l, d, p, w, s) == [at |-> l, timed |-> d, passed |-> p, woken |-> w, saved |-> s]

Idle == Frame("idle", FALSE, FALSE, FALSE, 0)

At(t) == call[t].at

Nothing == <<>>

Init == /\ type \in Types
        /\ srw = None /\ owner = None /\ count = 0
        /\ call = [t \in Threads |-> Idle]
        /\ ret = Nothing
        /\ depth = [t \in Threads |-> 0]
        /\ told = {} /\ owed = {}

\* Thread t moves on inside its call, to c.
GoTo(t, c) == /\ call' = [call EXCEPT ![t] = c]
              /\ ret' = Nothing
              /\ UNCHANGED <<told, owed>>

\* The locals as they are, at l.
Moved(c, l) == Frame(l, c.timed, c.passed, c.woken, c.saved)

Go(t, l) == GoTo(t, Moved(call[t], l))

\* Thread t's call returns rc.
Return(t, rc) == /\ call' = [call EXCEPT ![t] = Idle]
                 /\ ret' = <<t, rc>>
                 /\ told' = told \ {t} /\ owed' = owed \ {t}

SetDepth(t, d) == depth' = [depth EXCEPT ![t] = d]

Plain == type = "normal"

-----------------------------------------------------------------------------
(* pthread_mutex_lock, pthread_mutex_trylock *)

\* Variant: the count of a recursive mutex has no limit.
RelockUnbounded(t, busy) ==
  /\ IF type # "recursive" THEN Return(t, busy) /\ UNCHANGED <<count, depth>>
     ELSE /\ count' = count + 1
          /\ SetDepth(t, depth[t] + 1)
          /\ Return(t, "0")
  /\ UNCHANGED <<type, srw, owner>>

\* relock: the caller holds the mutex already.
Relock(t, busy) ==
  /\ IF type # "recursive" THEN Return(t, busy) /\ UNCHANGED <<count, depth>>
     ELSE IF count = CountMax THEN Return(t, "EAGAIN") /\ UNCHANGED <<count, depth>>
     ELSE /\ count' = count + 1
          /\ SetDepth(t, depth[t] + 1)
          /\ Return(t, "0")
  /\ UNCHANGED <<type, srw, owner>>

\* A normal mutex locked twice by one thread would never return; a caller does not.
Lock(t) ==
  /\ At(t) = "idle"
  /\ Plain => depth[t] = 0
  /\ IF ~Plain /\ owner = t
       THEN Relock(t, "EDEADLK")
       ELSE Go(t, "acquire") /\ UNCHANGED <<mutex, depth>>

Acquire(t) ==
  /\ At(t) = "acquire"
  /\ srw = None
  /\ srw' = t
  /\ IF Plain THEN Return(t, "0") /\ SetDepth(t, 1)
              ELSE Go(t, "own") /\ UNCHANGED depth
  /\ UNCHANGED <<type, owner, count>>

TryLock(t) ==
  /\ At(t) = "idle"
  /\ IF ~Plain /\ owner = t
       THEN Relock(t, "EBUSY")
       ELSE Go(t, "try") /\ UNCHANGED <<mutex, depth>>

TryAcquire(t) ==
  /\ At(t) = "try"
  /\ IF srw # None THEN Return(t, "EBUSY") /\ UNCHANGED <<srw, depth>>
     ELSE /\ srw' = t
          /\ IF Plain THEN Return(t, "0") /\ SetDepth(t, 1)
                      ELSE Go(t, "own") /\ UNCHANGED depth
  /\ UNCHANGED <<type, owner, count>>

SetOwner(t) ==
  /\ At(t) = "own"
  /\ owner' = t
  /\ Go(t, "count")
  /\ UNCHANGED <<type, srw, count, depth>>

SetCount(t) ==
  /\ At(t) = "count"
  /\ count' = 1
  /\ SetDepth(t, 1)
  /\ Return(t, "0")
  /\ UNCHANGED <<type, srw, owner>>

-----------------------------------------------------------------------------
(* pthread_mutex_unlock *)

\* Unlocking a normal mutex the caller does not hold is undefined; a caller does not.
Unlock(t) ==
  /\ At(t) = "idle"
  /\ Plain => depth[t] > 0
  /\ IF Plain THEN Go(t, "release") /\ UNCHANGED <<count, depth>>
     ELSE IF owner # t THEN Return(t, "EPERM") /\ UNCHANGED <<count, depth>>
     ELSE /\ count' = count - 1
          /\ IF count' # 0 THEN Return(t, "0") /\ SetDepth(t, depth[t] - 1)
                           ELSE Go(t, "disown") /\ UNCHANGED depth
  /\ UNCHANGED <<type, srw, owner>>

\* Variant: the owner stays on record while the lock is given up.
KeepOwner(t) ==
  /\ At(t) = "disown"
  /\ Go(t, "release")
  /\ UNCHANGED <<mutex, depth>>

Disown(t) ==
  /\ At(t) = "disown"
  /\ owner' = None
  /\ Go(t, "release")
  /\ UNCHANGED <<type, srw, count, depth>>

Release(t) ==
  /\ At(t) = "release"
  /\ srw' = None
  /\ SetDepth(t, 0)
  /\ Return(t, "0")
  /\ UNCHANGED <<type, owner, count>>

-----------------------------------------------------------------------------
(* pthread_mutex_destroy, pthread_mutex_init *)

\* A caller destroys a mutex no other thread is in a call on, and initialises it again,
\* with any type, before it is used.
Destroy(t) ==
  /\ \A u \in Threads : At(u) = "idle"
  /\ IF srw # None
       THEN Return(t, "EBUSY") /\ UNCHANGED mutex
       ELSE /\ type' \in Types
            /\ srw' = None /\ owner' = None /\ count' = 0
            /\ Return(t, "0")
  /\ UNCHANGED depth

-----------------------------------------------------------------------------
(* pthread_cond_wait, pthread_cond_timedwait *)

\* Waiting with a normal mutex the caller does not hold is undefined.
MayWait(t) == At(t) = "idle" /\ (Plain => depth[t] > 0)

Wait(t) ==
  /\ MayWait(t)
  /\ Go(t, "cond_sleep")
  /\ UNCHANGED <<mutex, depth>>

\* The deadline may be malformed, past already or still to come.
TimedWait(t) ==
  /\ MayWait(t)
  /\ \/ Return(t, "EINVAL")
     \/ \E p \in BOOLEAN : GoTo(t, Frame("deadline", TRUE, p, FALSE, 0))
  /\ UNCHANGED <<mutex, depth>>

\* Variant: the loop sleeps for the rest of the time without asking whether there is any.
NeverTimesOut(t) ==
  /\ At(t) = "deadline"
  /\ Go(t, "cond_sleep")
  /\ UNCHANGED <<mutex, depth>>

\* The loop of pthread_cond_timedwait: the clock is read before every sleep.
ReadClock(t) ==
  /\ At(t) = "deadline"
  /\ IF call[t].passed THEN Return(t, "ETIMEDOUT") ELSE Go(t, "cond_sleep")
  /\ UNCHANGED <<mutex, depth>>

\* The condition's clock reaches the deadline.
Passes(t) ==
  /\ call[t].timed /\ ~call[t].passed
  /\ GoTo(t, Frame(At(t), TRUE, TRUE, call[t].woken, call[t].saved))
  /\ UNCHANGED <<mutex, depth>>

CondSleep(t) ==
  /\ At(t) = "cond_sleep"
  /\ IF Plain THEN Go(t, "sleep")
     ELSE IF owner # t THEN Return(t, "EPERM")
     ELSE GoTo(t, Frame("give_up", call[t].timed, call[t].passed, call[t].woken, count))
  /\ UNCHANGED <<mutex, depth>>

GiveUp(t) ==
  /\ At(t) = "give_up"
  /\ owner' = None
  /\ Go(t, "sleep")
  /\ UNCHANGED <<type, srw, count, depth>>

\* SleepConditionVariableSRW releases the lock and queues the caller in one step.
Sleep(t) ==
  /\ At(t) = "sleep"
  /\ srw' = None
  /\ Go(t, "asleep")
  /\ UNCHANGED <<type, owner, count, depth>>

Asleep == {t \in Threads : At(t) = "asleep"}

Woken(c, w) == Frame("wake", c.timed, c.passed, w, c.saved)

\* The sleepers S are taken off the queue, w telling a wake from a timeout.
Wakes(S, w) ==
  call' = [t \in Threads |-> IF t \in S THEN Woken(call[t], w) ELSE call[t]]

\* A sleep may end with no signal, and the system timer may end it early.
SpuriousWake(t) ==
  /\ At(t) = "asleep"
  /\ Wakes({t}, TRUE)
  /\ ret' = Nothing
  /\ UNCHANGED <<mutex, depth, told, owed>>

Timer(t) ==
  /\ At(t) = "asleep"
  /\ call[t].timed
  /\ Wakes({t}, FALSE)
  /\ ret' = Nothing
  /\ UNCHANGED <<mutex, depth, told, owed>>

\* Either way the lock is taken back before the sleep returns.
Reacquire(t) ==
  /\ At(t) = "wake"
  /\ srw = None
  /\ srw' = t
  /\ Go(t, IF Plain THEN "awake" ELSE "own_again")
  /\ UNCHANGED <<type, owner, count, depth>>

\* Variant: the owner is not set again after the sleep.
NotOwnAgain(t) ==
  /\ At(t) = "own_again"
  /\ Go(t, "count_again")
  /\ UNCHANGED <<mutex, depth>>

OwnAgain(t) ==
  /\ At(t) = "own_again"
  /\ owner' = t
  /\ Go(t, "count_again")
  /\ UNCHANGED <<type, srw, count, depth>>

\* Variant: a recursive mutex comes back one level deep.
CountOne(t) ==
  /\ At(t) = "count_again"
  /\ count' = 1
  /\ Go(t, "awake")
  /\ UNCHANGED <<type, srw, owner, depth>>

CountAgain(t) ==
  /\ At(t) = "count_again"
  /\ count' = call[t].saved
  /\ Go(t, "awake")
  /\ UNCHANGED <<type, srw, owner, depth>>

\* Variant: a timed wait looks at its deadline before what the sleep returned.
AwakeToClock(t) ==
  /\ At(t) = "awake"
  /\ IF call[t].timed /\ call[t].passed THEN Go(t, "deadline")
     ELSE Return(t, IF call[t].woken THEN "0" ELSE "ETIMEDOUT")
  /\ UNCHANGED <<mutex, depth>>

\* cond_sleep returns, and pthread_cond_wait returns what it did; a timed wait whose
\* sleep timed out reads the clock again.
Awake(t) ==
  /\ At(t) = "awake"
  /\ IF call[t].woken THEN Return(t, "0")
     ELSE IF ~call[t].timed THEN Return(t, "ETIMEDOUT")
     ELSE Go(t, "deadline")
  /\ UNCHANGED <<mutex, depth>>

-----------------------------------------------------------------------------
(* pthread_cond_signal, pthread_cond_broadcast *)

Signal(t) ==
  /\ At(t) = "idle"
  /\ IF Asleep = {} THEN UNCHANGED <<call, told>>
                    ELSE \E s \in Asleep : Wakes({s}, TRUE) /\ told' = told \cup {s}
  /\ ret' = <<t, "0">>
  /\ UNCHANGED <<mutex, depth, owed>>

\* A thread is blocked on the condition from its first sleep until it returns.
Blocked(t) == At(t) \in {"asleep", "wake", "own_again", "count_again", "awake"}

Broadcast(t) ==
  /\ At(t) = "idle"
  /\ Wakes(Asleep, TRUE)
  /\ ret' = <<t, "0">>
  /\ told' = told \cup Asleep
  /\ owed' = owed \cup {s \in Threads : Blocked(s)}
  /\ UNCHANGED <<mutex, depth>>

-----------------------------------------------------------------------------
Call(t) == \/ Lock(t) \/ TryLock(t) \/ Unlock(t) \/ Wait(t) \/ TimedWait(t)
           \/ Signal(t) \/ Broadcast(t) \/ Destroy(t)

\* The steps a call goes on with by itself once it has begun.
Continue(t) == \/ TryAcquire(t) \/ SetOwner(t) \/ SetCount(t)
               \/ Disown(t) \/ Release(t)
               \/ ReadClock(t) \/ CondSleep(t) \/ GiveUp(t) \/ Sleep(t)
               \/ OwnAgain(t) \/ CountAgain(t) \/ Awake(t)

Next == \E t \in Threads :
          \/ Call(t) \/ Continue(t) \/ Acquire(t) \/ Reacquire(t)
          \/ Passes(t) \/ SpuriousWake(t) \/ Timer(t)

Safety == Init /\ [][Next]_vars

\* A thread in a call runs, time and timers pass, and the slim lock goes in the
\* end to a thread that waits while it is released again and again.
Fairness == \A t \in Threads : /\ WF_vars(Continue(t))
                               /\ WF_vars(Passes(t))
                               /\ WF_vars(Timer(t))
                               /\ SF_vars(Acquire(t))
                               /\ SF_vars(Reacquire(t))

Spec == Safety /\ Fairness

-----------------------------------------------------------------------------
(* Properties *)

\* The count stays within an unsigned int: relock refuses the level past UINT_MAX, and
\* unlock never decrements zero.
TypeOK ==
  /\ type \in Types
  /\ srw \in Threads \cup {None}
  /\ owner \in Threads \cup {None}
  /\ count \in 0..CountMax
  /\ \A t \in Threads : depth[t] \in 0..CountMax /\ call[t].saved \in 0..CountMax

\* The thread is between calls and has the mutex.
Inside(t) == depth[t] > 0 /\ At(t) = "idle"

\* A thread that is inside holds the slim lock, and an owned mutex knows it and how
\* deep: no other is inside, and neither another thread's passage through the mutex
\* nor a sleep on the condition loses a level (cond_sleep: "gives up every level
\* it holds and takes them back on waking").
HolderKnown ==
  \A t \in Threads :
    Inside(t) => srw = t /\ (~Plain => owner = t /\ count = depth[t])

\* The count is a plain field: the thread at a step that reads or writes it holds
\* the lock.
CountHeld ==
  \A t \in Threads :
    \/ At(t) \in {"count", "give_up", "count_again"}
    \/ At(t) = "idle" /\ ~Plain /\ owner = t
    => srw = t

\* pthread_mutex_unlock and pthread_cond_wait refuse a caller (EPERM) only when it
\* does not hold the mutex, whatever the others do with the owner meanwhile.
RefusesOnlyOutsiders ==
  [][\A t \in Threads :
       ret' = <<t, "EPERM">> => depth[t] = 0]_vars

\* A wake-up is not lost to a deadline: a waiter that pthread_cond_signal or
\* pthread_cond_broadcast took off the queue reports the wake and neither a timeout nor
\* EPERM, and does not sleep again, though its deadline passes, and others lock, sleep
\* and unlock, while it waits to take the mutex back.
WakeReported ==
  [][\A t \in told :
       /\ At(t)' # "asleep"
       /\ At(t)' = "idle" => ret' = <<t, "0">>]_vars

\* A broadcast wakes every waiter, those with a deadline too.
BroadcastWakesAll == \A t \in owed : At(t) # "asleep"

\* A timed wait returns if the mutex is released again and again.
TimedWaitReturns ==
  \A t \in Threads :
    []<>(srw = None) => ((At(t) = "deadline") ~> (At(t) = "idle"))

=============================================================================
