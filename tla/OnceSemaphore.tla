--------------------------- MODULE OnceSemaphore ----------------------------
(* Threads that share a semaphore none of them owns: the first to come makes  *)
(* it, in the init routine of a pthread_once, and each uses it once its call  *)
(* of pthread_once has returned.                                              *)
EXTENDS Naturals, FiniteSets

CONSTANTS Threads, SEM_VALUE_MAX, MaxPosts

ASSUME ThreadsAssumption == IsFiniteSet(Threads) /\ "none" \notin Threads
ASSUME BoundsAssumption == SEM_VALUE_MAX \in Nat \ {0} /\ MaxPosts \in Nat

VARIABLES once, once_lock, onceAt, ran, record, value, semAt, passed, posts

Once == INSTANCE PthreadOnce
Sem == INSTANCE Semaphore

onceVars == <<once, once_lock, onceAt, ran>>
semVars == <<record, value, semAt, passed, posts>>
vars == <<once, once_lock, onceAt, ran, record, value, semAt, passed, posts>>

Init == Once!Init /\ Sem!Init

\* The init routine is sem_init.
MakeSemaphore(t) == Once!InitReturns(t) /\ Sem!SemInit(t)

OnceStep(t) == Once!Step(t) /\ UNCHANGED semVars
OnceAcquire(t) == Once!Acquire(t) /\ UNCHANGED semVars
OnceSpurious(t) == Once!Spurious(t) /\ UNCHANGED semVars

SemCall(t) == onceAt[t] = "returned" /\ Sem!Call(t) /\ UNCHANGED onceVars
SemStep(t) == Sem!Step(t) /\ UNCHANGED onceVars
SemSleepEnds(t) == Sem!SleepEnds(t) /\ UNCHANGED onceVars

Next == \E t \in Threads : \/ MakeSemaphore(t) \/ OnceStep(t) \/ OnceAcquire(t)
                           \/ OnceSpurious(t) \/ SemCall(t) \/ SemStep(t) \/ SemSleepEnds(t)

\* Every thread calls pthread_once, a thread in a call runs, and a lock that is
\* released again and again goes in the end to a thread that waits for it.
Fairness == \A t \in Threads : /\ WF_vars(MakeSemaphore(t))
                               /\ WF_vars(OnceStep(t))
                               /\ SF_vars(OnceAcquire(t))
                               /\ WF_vars(SemStep(t))

Spec == Init /\ [][Next]_vars /\ Fairness

-----------------------------------------------------------------------------
(* Properties *)

\* The semaphore's count stays within its limits.
TypeOK == Sem!TypeOK

\* pthread_once runs sem_init once, and no thread goes on before it has returned.
InitOnce == Once!InitOnce

\* Every call of pthread_once returns.
OnceReturns == Once!OnceReturns

\* A unit that sem_post adds does not stay beside a thread asleep in a wait.
PostsReachWaiters == Sem!PostsReachWaiters

=============================================================================
