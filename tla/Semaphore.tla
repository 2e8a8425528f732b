----------------------------- MODULE Semaphore ------------------------------
(* One unnamed semaphore of src/libc/lib/semaphore_ext.c: a count kept under  *)
(* a slim lock, whose waiters sleep on a condition variable. What a call does *)
(* between taking the lock and releasing it, or sleeping, is one step.        *)
EXTENDS Naturals, FiniteSets

CONSTANTS
  Threads,
  SEM_VALUE_MAX,
  MaxPosts       \* bounds the calls of sem_post

VARIABLES
  record,    \* the semaphore's record: "none", "live" or "freed"
  value,     \* s->value
  semAt,     \* where each thread is in its call; "idle" between calls
  passed,    \* whether its deadline has passed on the clock
  posts      \* the calls of sem_post

vars == <<record, value, semAt, passed, posts>>

Init == /\ record = "none" /\ value = 0
        /\ semAt = [t \in Threads |-> "idle"]
        /\ passed = [t \in Threads |-> FALSE]
        /\ posts = 0

Go(t, l) == semAt' = [semAt EXCEPT ![t] = l]

\* sem_init by any thread. A count beyond SEM_VALUE_MAX, a process-shared semaphore
\* and a failed calloc are refused.
SemInit(t) ==
  /\ record' = "live"
  /\ \E v \in 0..SEM_VALUE_MAX : value' = v
  /\ UNCHANGED <<semAt, passed, posts>>

\* A caller destroys a semaphore that no thread is in a call on.
SemDestroy(t) ==
  /\ record = "live"
  /\ \A s \in Threads : semAt[s] = "idle"
  /\ record' = "freed"
  /\ UNCHANGED <<value, semAt, passed, posts>>

\* Each call finds a record, or returns EINVAL.
Enter(t, l) == semAt[t] = "idle" /\ record = "live" /\ Go(t, l)

SemWait(t) == Enter(t, "wait") /\ UNCHANGED <<record, value, passed, posts>>

\* The deadline may be malformed, past already or still to come.
SemTimedWait(t) ==
  /\ \E l \in {"timed", "malformed"} : Enter(t, l)
  /\ \E p \in BOOLEAN : passed' = [passed EXCEPT ![t] = p]
  /\ UNCHANGED <<record, value, posts>>

Take(t) == value' = value - 1 /\ Go(t, "idle")

SemTryWait(t) ==
  /\ semAt[t] = "idle" /\ record = "live"
  /\ IF value > 0 THEN Take(t) ELSE UNCHANGED <<value, semAt>>
  /\ UNCHANGED <<record, passed, posts>>

\* Variant: a waiter that wakes takes a unit without looking.
WaitOnce(t) ==
  /\ semAt[t] \in {"wait", "woken"}
  /\ IF semAt[t] = "wait" /\ value = 0 THEN Go(t, "asleep") /\ UNCHANGED <<value>>
                                        ELSE Take(t)
  /\ UNCHANGED <<record, passed, posts>>

\* The loop of sem_wait.
WaitLoop(t) ==
  /\ semAt[t] \in {"wait", "woken"}
  /\ IF value = 0 THEN Go(t, "asleep") /\ UNCHANGED <<value>> ELSE Take(t)
  /\ UNCHANGED <<record, passed, posts>>

\* The loop of sem_timedwait: the deadline matters only when the call would block.
TimedLoop(t) ==
  /\ semAt[t] \in {"timed", "malformed"}
  /\ IF value > 0 THEN Take(t)
     ELSE /\ Go(t, IF semAt[t] = "malformed" \/ passed[t] THEN "idle" ELSE "timed_asleep")
          /\ UNCHANGED <<value>>
  /\ UNCHANGED <<record, passed, posts>>

Asleep == {t \in Threads : semAt[t] \in {"asleep", "timed_asleep"}}

Woken(l) == IF l = "asleep" THEN "woken" ELSE "timed"

\* A sleep may end for no reason, and that of a timed wait when its time is up.
SleepEnds(t) ==
  /\ t \in Asleep
  /\ Go(t, Woken(semAt[t]))
  /\ \E p \in BOOLEAN :
       /\ passed[t] => p
       /\ passed' = [passed EXCEPT ![t] = p]
  /\ UNCHANGED <<record, value, posts>>

\* Variant: a post wakes a waiter only when the count was zero.
PostFirst(t) ==
  /\ semAt[t] = "idle" /\ record = "live" /\ posts < MaxPosts
  /\ posts' = posts + 1
  /\ IF value = SEM_VALUE_MAX
       THEN UNCHANGED <<value, semAt>>
       ELSE /\ value' = value + 1
            /\ Go(t, IF value = 0 THEN "wake" ELSE "idle")
  /\ UNCHANGED <<record, passed>>

\* A full count is refused (EOVERFLOW); a posted one wakes a waiter, the lock released.
SemPost(t) ==
  /\ semAt[t] = "idle" /\ record = "live" /\ posts < MaxPosts
  /\ posts' = posts + 1
  /\ IF value = SEM_VALUE_MAX
       THEN UNCHANGED <<value, semAt>>
       ELSE value' = value + 1 /\ Go(t, "wake")
  /\ UNCHANGED <<record, passed>>

WakeOne(t) ==
  /\ semAt[t] = "wake"
  /\ IF Asleep = {} THEN Go(t, "idle")
     ELSE \E s \in Asleep : semAt' = [semAt EXCEPT ![t] = "idle", ![s] = Woken(semAt[s])]
  /\ UNCHANGED <<record, value, passed, posts>>

Call(t) == SemWait(t) \/ SemTimedWait(t) \/ SemTryWait(t) \/ SemPost(t) \/ SemDestroy(t)

Step(t) == WaitLoop(t) \/ TimedLoop(t) \/ WakeOne(t)

-----------------------------------------------------------------------------
(* Properties *)

\* The count stays within 0..SEM_VALUE_MAX, whoever wakes, times out or posts.
TypeOK ==
  /\ record \in {"none", "live", "freed"}
  /\ value \in 0..SEM_VALUE_MAX
  /\ semAt \in [Threads -> {"idle", "wait", "timed", "malformed", "asleep",
                            "timed_asleep", "woken", "wake"}]
  /\ passed \in [Threads -> BOOLEAN]

\* No unit sleeps beside a waiter: a count above zero with a thread asleep does not
\* last, whichever of several posts, waits and timeouts came in between ("a thread
\* blocked in sem_wait wakes for another thread's sem_post").
PostsReachWaiters == []<>(value = 0 \/ Asleep = {})

=============================================================================
