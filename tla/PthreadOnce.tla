---------------------------- MODULE PthreadOnce -----------------------------
(* pthread_once of src/libc/lib/pthread_ext.c: one once control, and the lock *)
(* and the condition variable that all once controls share. A step is an      *)
(* access to the control, the lock or the condition variable.                 *)
EXTENDS Naturals, FiniteSets

CONSTANT Threads

None == "none"

VARIABLES
  once,       \* *once: "new", "running" or "done"
  once_lock,  \* the slim lock's holder
  onceAt,     \* where each thread is in its call
  ran         \* (history) how often the init routine has returned

vars == <<once, once_lock, onceAt, ran>>

Init == /\ once = "new"
        /\ once_lock = None
        /\ onceAt = [t \in Threads |-> "before"]
        /\ ran = 0

Go(t, l) == onceAt' = [onceAt EXCEPT ![t] = l]

\* The fast path returns on a load that sees the routine done; a thread that saw
\* it running goes to wait.
Load(t) ==
  /\ onceAt[t] = "before"
  /\ Go(t, CASE once = "done" -> "returned" [] once = "new" -> "exchange" [] OTHER -> "lock")
  /\ UNCHANGED <<once, once_lock, ran>>

\* Variant: what the load saw is taken for granted.
ExchangeAlways(t) ==
  /\ onceAt[t] = "exchange"
  /\ once' = "running"
  /\ Go(t, "init")
  /\ UNCHANGED <<once_lock, ran>>

\* One of the threads that saw it new runs the routine; the others wait.
Exchange(t) ==
  /\ onceAt[t] = "exchange"
  /\ IF once = "new" THEN once' = "running" /\ Go(t, "init")
                     ELSE UNCHANGED once /\ Go(t, "lock")
  /\ UNCHANGED <<once_lock, ran>>

InitReturns(t) ==
  /\ onceAt[t] = "init"
  /\ ran' = ran + 1
  /\ Go(t, "lock_done")
  /\ UNCHANGED <<once, once_lock>>

\* Variant: the control is set without the lock.
NoLock(t) ==
  /\ onceAt[t] \in {"lock_done", "lock"}
  /\ IF onceAt[t] = "lock_done"
       THEN Go(t, "store") /\ UNCHANGED once_lock
       ELSE once_lock = None /\ once_lock' = t /\ Go(t, "check")
  /\ UNCHANGED <<once, ran>>

Acquire(t) ==
  /\ onceAt[t] \in {"lock_done", "lock"}
  /\ once_lock = None
  /\ once_lock' = t
  /\ Go(t, IF onceAt[t] = "lock_done" THEN "store" ELSE "check")
  /\ UNCHANGED <<once, ran>>

Store(t) ==
  /\ onceAt[t] = "store"
  /\ once' = "done"
  /\ Go(t, "unlock_done")
  /\ UNCHANGED <<once_lock, ran>>

Release(t) ==
  /\ onceAt[t] \in {"unlock_done", "unlock"}
  /\ once_lock' = None
  /\ Go(t, IF onceAt[t] = "unlock_done" THEN "wake" ELSE "returned")
  /\ UNCHANGED <<once, ran>>

\* Every sleeper takes the lock again before it looks.
WakeAll(t) ==
  /\ onceAt[t] = "wake"
  /\ onceAt' = [s \in Threads |-> IF s = t THEN "returned"
                                  ELSE IF onceAt[s] = "asleep" THEN "lock" ELSE onceAt[s]]
  /\ UNCHANGED <<once, once_lock, ran>>

Check(t) ==
  /\ onceAt[t] = "check"
  /\ Go(t, IF once = "done" THEN "unlock" ELSE "sleep")
  /\ UNCHANGED <<once, once_lock, ran>>

\* The lock is released as the sleeper is queued.
Sleep(t) ==
  /\ onceAt[t] = "sleep"
  /\ once_lock' = None
  /\ Go(t, "asleep")
  /\ UNCHANGED <<once, ran>>

\* A sleep may end for no reason, or for another once control.
Spurious(t) ==
  /\ onceAt[t] = "asleep"
  /\ Go(t, "lock")
  /\ UNCHANGED <<once, once_lock, ran>>

Step(t) == \/ Load(t) \/ Exchange(t) \/ Store(t) \/ Release(t) \/ WakeAll(t)
           \/ Check(t) \/ Sleep(t)

-----------------------------------------------------------------------------
(* Properties *)

\* The init routine runs once, and no call returns before it has: also not one
\* that lost the exchange, woke early or came by the fast path.
InitOnce ==
  /\ ran <= 1
  /\ \A t \in Threads : onceAt[t] = "returned" => ran = 1

\* Every call returns: the store under the lock cannot fall between a waiter's look
\* at the control and its sleep.
OnceReturns == \A t \in Threads : <>(onceAt[t] = "returned")

=============================================================================
