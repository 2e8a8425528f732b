-------------------------- MODULE PthreadSyncProofs --------------------------
(* Proofs about the mutex and the condition variable of PthreadSync, for any  *)
(* set of threads, any mutex type and any limit of the count.                 *)
EXTENDS PthreadSync, TLAPS

\* Where a call can be, by who has the slim lock there: the caller has it, has it
\* if it had the mutex when the call began, or does not have it.
HeldAt == {"own", "count", "disown", "release", "give_up", "sleep",
           "own_again", "count_again", "awake"}
OpenAt == {"idle", "try", "deadline", "cond_sleep"}
AwayAt == {"acquire", "asleep", "wake"}
Places == HeldAt \cup OpenAt \cup AwayAt

\* Inside the mutex, as far as the thread knows, in a call or between two.
In(t) == At(t) \in OpenAt /\ depth[t] > 0

CallType == [at : Places, timed : BOOLEAN, passed : BOOLEAN, woken : BOOLEAN,
             saved : 0..CountMax]

TypeInv ==
  /\ type \in Types
  /\ srw \in Threads \cup {None}
  /\ owner \in Threads \cup {None}
  /\ count \in 0..CountMax
  /\ call \in [Threads -> CallType]
  /\ depth \in [Threads -> 0..CountMax]
  /\ told \subseteq Threads

\* The slim lock is held by the thread that is where a holder is.
LockInv(t) == srw = t <=> At(t) \in HeldAt \/ In(t)

\* The owner on record is the thread between setting it and giving it up.
OwnerInv(t) ==
  owner = t <=> ~Plain /\ (\/ At(t) \in {"count", "disown", "give_up", "count_again", "awake"}
                           \/ In(t))

\* What a thread has locked, by where it is.
DepthInv(t) ==
  /\ At(t) \in {"acquire", "own", "count"} => depth[t] = 0
  /\ At(t) \in {"disown", "release", "give_up", "sleep", "asleep", "wake",
                "own_again", "count_again", "awake"} => depth[t] > 0
  /\ Plain /\ At(t) \in {"deadline", "cond_sleep"} => depth[t] > 0
  /\ Plain => At(t) \notin {"own", "count", "disown", "give_up", "own_again", "count_again"}

\* The levels are in the count while the thread owns the mutex, and with the
\* sleeper while it does not.
CountInv(t) ==
  /\ ~Plain /\ (In(t) \/ At(t) \in {"give_up", "awake"}) => count = depth[t]
  /\ ~Plain /\ At(t) \in {"give_up", "sleep", "asleep", "wake", "own_again", "count_again"}
       => call[t].saved = depth[t]

\* A thread told to wake is between the queue and its return, and its sleep returns so.
WakeInv(t) ==
  t \in told => /\ At(t) \in {"wake", "own_again", "count_again", "awake"}
                /\ call[t].woken

Each(t) == LockInv(t) /\ OwnerInv(t) /\ DepthInv(t) /\ CountInv(t) /\ WakeInv(t)

IndInv == TypeInv /\ \A t \in Threads : Each(t)

-----------------------------------------------------------------------------
(* What a step of a call does to the calls *)

LEMMA FrameType ==
  ASSUME NEW l \in Places, NEW d \in BOOLEAN, NEW p \in BOOLEAN, NEW w \in BOOLEAN,
         NEW s \in 0..CountMax
  PROVE  /\ Frame(l, d, p, w, s) \in CallType
         /\ Frame(l, d, p, w, s).at = l
         /\ Frame(l, d, p, w, s).timed = d
         /\ Frame(l, d, p, w, s).passed = p
         /\ Frame(l, d, p, w, s).woken = w
         /\ Frame(l, d, p, w, s).saved = s
  BY DEF Frame, CallType

LEMMA CallFields ==
  ASSUME NEW c \in CallType
  PROVE  /\ c.at \in Places /\ c.timed \in BOOLEAN /\ c.passed \in BOOLEAN
         /\ c.woken \in BOOLEAN /\ c.saved \in 0..CountMax
  BY DEF CallType

LEMMA MovedType ==
  ASSUME NEW c \in CallType, NEW l \in Places
  PROVE  /\ Moved(c, l) \in CallType
         /\ Moved(c, l).at = l
         /\ Moved(c, l).timed = c.timed
         /\ Moved(c, l).woken = c.woken
         /\ Moved(c, l).saved = c.saved
  BY DEF Moved, Frame, CallType

LEMMA IdleType == Idle \in CallType /\ Idle.at = "idle"
  BY CountMaxAssumption DEF Idle, Frame, CallType, Places, OpenAt

LEMMA GoEffect ==
  ASSUME NEW t \in Threads, NEW l \in Places, call \in [Threads -> CallType], Go(t, l)
  PROVE  /\ call' \in [Threads -> CallType]
         /\ call'[t].at = l
         /\ call'[t].timed = call[t].timed
         /\ call'[t].woken = call[t].woken
         /\ call'[t].saved = call[t].saved
         /\ \A u \in Threads : u # t => call'[u] = call[u]
         /\ told' = told
  <1>1. call[t] \in CallType
    OBVIOUS
  <1>2. call' = [call EXCEPT ![t] = Moved(call[t], l)] /\ told' = told
    BY DEF Go, GoTo
  <1>. QED  BY <1>1, <1>2, MovedType

LEMMA ReturnEffect ==
  ASSUME NEW t \in Threads, NEW rc, call \in [Threads -> CallType], Return(t, rc)
  PROVE  /\ call' \in [Threads -> CallType]
         /\ call'[t].at = "idle"
         /\ \A u \in Threads : u # t => call'[u] = call[u]
         /\ told' = told \ {t}
  BY IdleType DEF Return

\* A thread the step of another leaves alone: the lock and the owner change hands
\* without it, and the count changes only while it does not hold the lock.
LEMMA Others ==
  ASSUME NEW u \in Threads, Each(u), owner' \in Threads \cup {None},
         type' = type, call'[u] = call[u], depth'[u] = depth[u],
         srw' = u <=> srw = u, owner' = u <=> owner = u,
         count' = count \/ srw # u, told' \subseteq told
  PROVE  Each(u)'
  BY DEF Each, LockInv, OwnerInv, DepthInv, CountInv, WakeInv, In, At, Plain,
         HeldAt, OpenAt

-----------------------------------------------------------------------------
(* The induction, an action at a time *)

LEMMA IndInit == Init => IndInv
  <1>. SUFFICES ASSUME Init PROVE IndInv
    OBVIOUS
  <1>1. TypeInv
    BY IdleType, CountMaxAssumption DEF Init, TypeInv
  <1>2. ASSUME NEW t \in Threads PROVE Each(t)
    <2>1. At(t) = "idle" /\ depth[t] = 0 /\ srw # t /\ owner # t /\ t \notin told
      BY IdleType, NoneAssumption DEF Init, At
    <2>. QED  BY <2>1 DEF Each, LockInv, OwnerInv, DepthInv, CountInv, WakeInv, In,
                         HeldAt, OpenAt
  <1>. QED  BY <1>1, <1>2 DEF IndInv

\* A step of t that leaves the other calls alone: it is enough to look at t, if the
\* lock is touched only by its holder or to take it when it is free.
LEMMA StepOf ==
  ASSUME IndInv, NEW t \in Threads, Each(t)', type' = type,
         call' \in [Threads -> CallType], depth' \in [Threads -> 0..CountMax],
         count' \in 0..CountMax,
         \A u \in Threads : u # t => call'[u] = call[u],
         \A u \in Threads : u # t => depth'[u] = depth[u],
         told' \subseteq told,
         srw' = srw \/ (srw \in {t, None} /\ srw' \in {t, None}),
         owner' = owner \/ (owner \in {t, None} /\ owner' \in {t, None}),
         count' = count \/ srw = t
  PROVE  IndInv'
  <1>1. TypeInv'
    BY DEF IndInv, TypeInv
  <1>2. ASSUME NEW u \in Threads, u # t PROVE Each(u)'
    <2>1. Each(u)
      BY DEF IndInv
    <2>2. (srw' = u <=> srw = u) /\ (owner' = u <=> owner = u)
      BY <1>2, NoneAssumption
    <2>3. owner' \in Threads \cup {None}
      BY <1>1 DEF TypeInv
    <2>. QED  BY <1>2, <2>1, <2>2, <2>3, Others
  <1>. QED  BY <1>1, <1>2 DEF IndInv

\* Steps that move on and leave the lock and the levels alone.
LEMMA GoQuietly ==
  ASSUME IndInv, NEW t \in Threads, NEW l \in Places, Go(t, l), UNCHANGED <<mutex, depth>>,
         Each(t)'
  PROVE  IndInv'
  <1>1. TypeInv
    BY DEF IndInv
  <1>2. UNCHANGED <<type, srw, owner, count, depth>>
    BY DEF mutex
  <1>3. /\ call' \in [Threads -> CallType] /\ told' = told
        /\ \A u \in Threads : u # t => call'[u] = call[u]
    BY <1>1, GoEffect DEF TypeInv
  <1>. QED  BY <1>1, <1>2, <1>3, StepOf DEF TypeInv

\* Calls that return and leave the lock and the levels alone.
LEMMA ReturnQuietly ==
  ASSUME IndInv, NEW t \in Threads, NEW rc, Return(t, rc), UNCHANGED <<mutex, depth>>,
         At(t) \in OpenAt \cup {"awake"}
  PROVE  IndInv'
  <1>1. TypeInv /\ Each(t)
    BY DEF IndInv
  <1>2. UNCHANGED <<type, srw, owner, count, depth>>
    BY DEF mutex
  <1>3. /\ call' \in [Threads -> CallType] /\ told' = told \ {t}
        /\ \A u \in Threads : u # t => call'[u] = call[u]
        /\ call'[t].at = "idle"
    BY <1>1, ReturnEffect DEF TypeInv
  <1>4. depth[t] \in Nat
    BY <1>1, CountMaxAssumption DEF TypeInv
  <1>5. Each(t)'
    BY <1>1, <1>2, <1>3, <1>4 DEF Each, LockInv, OwnerInv, DepthInv, CountInv, WakeInv, In,
                                  At, Plain, HeldAt, OpenAt
  <1>. QED  BY <1>1, <1>2, <1>3, <1>5, StepOf DEF TypeInv

\* pthread_mutex_lock and pthread_mutex_trylock by the thread that has the mutex.
LEMMA RelockStep ==
  ASSUME IndInv, NEW t \in Threads, NEW busy, Relock(t, busy), At(t) = "idle",
         ~Plain, owner = t
  PROVE  IndInv'
  <1>1. TypeInv /\ Each(t)
    BY DEF IndInv
  <1>2. depth[t] \in Nat /\ count \in Nat /\ call[t] \in CallType /\ call[t].saved \in Nat
    BY <1>1, CallFields, CountMaxAssumption DEF TypeInv
  <1>3. CASE UNCHANGED <<count, depth>>
    <2>1. UNCHANGED <<mutex, depth>> /\ \E rc : Return(t, rc)
      BY <1>3 DEF Relock, mutex
    <2>. QED  BY <2>1, ReturnQuietly DEF OpenAt
  <1>4. CASE ~UNCHANGED <<count, depth>>
    <2>1. /\ count # CountMax /\ count' = count + 1 /\ SetDepth(t, depth[t] + 1)
          /\ Return(t, "0") /\ UNCHANGED <<type, srw, owner>>
      BY <1>4 DEF Relock
    <2>2. count = depth[t] /\ srw = t
      BY <1>1 DEF Each, OwnerInv, CountInv, LockInv, In, OpenAt
    <2>3. count' \in 0..CountMax /\ depth' \in [Threads -> 0..CountMax]
          /\ depth'[t] = count' /\ \A u \in Threads : u # t => depth'[u] = depth[u]
      BY <1>1, <2>1, <2>2, CountMaxAssumption DEF SetDepth, TypeInv
    <2>4. /\ call' \in [Threads -> CallType] /\ told' = told \ {t}
          /\ \A u \in Threads : u # t => call'[u] = call[u]
          /\ call'[t].at = "idle"
      BY <1>1, <2>1, ReturnEffect DEF TypeInv
    <2>5. Each(t)'
      BY <1>1, <1>2, <2>1, <2>2, <2>3, <2>4
         DEF Each, LockInv, OwnerInv, DepthInv, CountInv, WakeInv, In, At, Plain, HeldAt, OpenAt
    <2>. QED  BY <2>1, <2>2, <2>3, <2>4, <2>5, StepOf
  <1>. QED  BY <1>3, <1>4

LEMMA LockStep ==
  ASSUME IndInv, NEW t \in Threads, Lock(t) \/ TryLock(t)
  PROVE  IndInv'
  <1>1. TypeInv /\ Each(t)
    BY DEF IndInv
  <1>2. depth[t] \in Nat /\ count \in Nat /\ call[t] \in CallType /\ call[t].saved \in Nat
    BY <1>1, CallFields, CountMaxAssumption DEF TypeInv
  <1>3. CASE ~Plain /\ owner = t
    BY <1>3, RelockStep DEF Lock, TryLock
  <1>4. CASE Lock(t) /\ ~(~Plain /\ owner = t)
    <2>1. Go(t, "acquire") /\ UNCHANGED <<mutex, depth>> /\ At(t) = "idle"
          /\ (Plain => depth[t] = 0)
      BY <1>4 DEF Lock
    <2>2. call'[t].at = "acquire" /\ "acquire" \in Places /\ told' = told
          /\ call'[t].timed = call[t].timed
      BY <1>1, <2>1, GoEffect DEF TypeInv, Places, AwayAt
    <2>3. Each(t)'
      BY <1>1, <1>2, <1>4, <2>1, <2>2
         DEF mutex, Each, LockInv, OwnerInv, DepthInv, CountInv, WakeInv, In, At, Plain,
             HeldAt, OpenAt
    <2>. QED  BY <2>1, <2>2, <2>3, GoQuietly
  <1>5. CASE TryLock(t) /\ ~(~Plain /\ owner = t)
    <2>1. Go(t, "try") /\ UNCHANGED <<mutex, depth>> /\ At(t) = "idle"
      BY <1>5 DEF TryLock
    <2>2. call'[t].at = "try" /\ "try" \in Places /\ told' = told
          /\ call'[t].timed = call[t].timed
      BY <1>1, <2>1, GoEffect DEF TypeInv, Places, OpenAt
    <2>3. Each(t)'
      BY <1>1, <1>2, <1>5, <2>1, <2>2
         DEF mutex, Each, LockInv, OwnerInv, DepthInv, CountInv, WakeInv, In, At, Plain,
             HeldAt, OpenAt
    <2>. QED  BY <2>1, <2>2, <2>3, GoQuietly
  <1>. QED  BY <1>3, <1>4, <1>5

\* The slim lock taken by a lock or a trylock that found it free.
LEMMA TakenStep ==
  ASSUME IndInv, NEW t \in Threads, At(t) \in {"acquire", "try"}, srw = None, srw' = t,
         IF Plain THEN Return(t, "0") /\ SetDepth(t, 1) ELSE Go(t, "own") /\ UNCHANGED depth,
         UNCHANGED <<type, owner, count>>
  PROVE  IndInv'
  <1>1. TypeInv /\ Each(t)
    BY DEF IndInv
  <1>2. depth[t] \in Nat /\ count \in Nat /\ call[t] \in CallType /\ call[t].saved \in Nat
    BY <1>1, CallFields, CountMaxAssumption DEF TypeInv
  <1>3. depth[t] = 0 /\ owner # t /\ (owner = None \/ owner' = owner)
    BY <1>1, <1>2, NoneAssumption
       DEF Each, LockInv, OwnerInv, DepthInv, In, OpenAt
  <1>4. CASE Plain
    <2>1. Return(t, "0") /\ SetDepth(t, 1)
      BY <1>4
    <2>2. /\ call' \in [Threads -> CallType] /\ told' = told \ {t}
          /\ \A u \in Threads : u # t => call'[u] = call[u]
          /\ call'[t].at = "idle"
      BY <1>1, <2>1, ReturnEffect DEF TypeInv
    <2>3. /\ depth' \in [Threads -> 0..CountMax] /\ depth'[t] = 1
          /\ \A u \in Threads : u # t => depth'[u] = depth[u]
      BY <1>1, <2>1, CountMaxAssumption DEF SetDepth, TypeInv
    <2>4. Each(t)'
      BY <1>1, <1>2, <1>3, <1>4, <2>2, <2>3
         DEF Each, LockInv, OwnerInv, DepthInv, CountInv, WakeInv, In, At, Plain, HeldAt, OpenAt
    <2>. QED  BY <1>1, <2>2, <2>3, <2>4, StepOf DEF TypeInv
  <1>5. CASE ~Plain
    <2>1. Go(t, "own") /\ UNCHANGED depth
      BY <1>5
    <2>2. /\ call' \in [Threads -> CallType] /\ told' = told
          /\ \A u \in Threads : u # t => call'[u] = call[u]
          /\ call'[t].at = "own" /\ call'[t].timed = call[t].timed
          /\ call'[t].woken = call[t].woken /\ call'[t].saved = call[t].saved
      BY <1>1, <2>1, GoEffect DEF TypeInv, Places, HeldAt
    <2>3. Each(t)'
      BY <1>1, <1>2, <1>3, <1>5, <2>1, <2>2
         DEF Each, LockInv, OwnerInv, DepthInv, CountInv, WakeInv, In, At, Plain, HeldAt, OpenAt
    <2>. QED  BY <1>1, <2>1, <2>2, <2>3, StepOf DEF TypeInv
  <1>. QED  BY <1>4, <1>5

LEMMA TryAcquireStep ==
  ASSUME IndInv, NEW t \in Threads, TryAcquire(t)
  PROVE  IndInv'
  <1>1. CASE srw # None
    <2>1. Return(t, "EBUSY") /\ UNCHANGED <<mutex, depth>> /\ At(t) \in OpenAt
      BY <1>1 DEF TryAcquire, mutex, OpenAt
    <2>. QED  BY <2>1, ReturnQuietly
  <1>2. CASE srw = None
    BY <1>2, TakenStep DEF TryAcquire
  <1>. QED  BY <1>1, <1>2

\* The owner on record, if any, holds the slim lock.
LEMMA OwnerHolds ==
  ASSUME IndInv PROVE owner \in {srw, None}
  <1>. SUFFICES ASSUME owner # None PROVE owner = srw
    OBVIOUS
  <1>1. owner \in Threads /\ Each(owner)
    BY DEF IndInv, TypeInv
  <1>. QED  BY <1>1 DEF Each, LockInv, OwnerInv, HeldAt

\* A step of the lock's holder that writes the owner, and nothing else.
LEMMA OwnerStep ==
  ASSUME IndInv, NEW t \in Threads, SetOwner(t) \/ Disown(t) \/ GiveUp(t) \/ OwnAgain(t)
  PROVE  IndInv'
  <1>1. TypeInv /\ Each(t)
    BY DEF IndInv
  <1>2. depth[t] \in Nat /\ count \in Nat /\ call[t] \in CallType /\ call[t].saved \in Nat
    BY <1>1, CallFields, CountMaxAssumption DEF TypeInv
  <1>3. CASE SetOwner(t)
    <2>1. Go(t, "count")
      BY <1>3 DEF SetOwner
    <2>2. /\ call' \in [Threads -> CallType] /\ told' = told
          /\ \A u \in Threads : u # t => call'[u] = call[u]
          /\ call'[t].at = "count" /\ call'[t].timed = call[t].timed
          /\ call'[t].woken = call[t].woken /\ call'[t].saved = call[t].saved
      BY <1>1, <2>1, GoEffect DEF TypeInv, Places, HeldAt
    <2>3. owner \in {t, None} /\ owner' \in {t, None}
      BY <1>1, <1>3, OwnerHolds DEF SetOwner, Each, LockInv, HeldAt
    <2>4. Each(t)'
      BY <1>1, <1>2, <1>3, <2>2, NoneAssumption
         DEF SetOwner, Each, LockInv, OwnerInv, DepthInv, CountInv, WakeInv, In, At, Plain, HeldAt, OpenAt
    <2>. QED  BY <1>1, <1>3, <2>2, <2>3, <2>4, StepOf DEF SetOwner, TypeInv
  <1>4. CASE Disown(t)
    <2>1. Go(t, "release")
      BY <1>4 DEF Disown
    <2>2. /\ call' \in [Threads -> CallType] /\ told' = told
          /\ \A u \in Threads : u # t => call'[u] = call[u]
          /\ call'[t].at = "release" /\ call'[t].timed = call[t].timed
          /\ call'[t].woken = call[t].woken /\ call'[t].saved = call[t].saved
      BY <1>1, <2>1, GoEffect DEF TypeInv, Places, HeldAt
    <2>3. owner \in {t, None} /\ owner' \in {t, None}
      BY <1>1, <1>4, OwnerHolds DEF Disown, Each, LockInv, HeldAt
    <2>4. Each(t)'
      BY <1>1, <1>2, <1>4, <2>2, NoneAssumption
         DEF Disown, Each, LockInv, OwnerInv, DepthInv, CountInv, WakeInv, In, At, Plain, HeldAt, OpenAt
    <2>. QED  BY <1>1, <1>4, <2>2, <2>3, <2>4, StepOf DEF Disown, TypeInv
  <1>5. CASE GiveUp(t)
    <2>1. Go(t, "sleep")
      BY <1>5 DEF GiveUp
    <2>2. /\ call' \in [Threads -> CallType] /\ told' = told
          /\ \A u \in Threads : u # t => call'[u] = call[u]
          /\ call'[t].at = "sleep" /\ call'[t].timed = call[t].timed
          /\ call'[t].woken = call[t].woken /\ call'[t].saved = call[t].saved
      BY <1>1, <2>1, GoEffect DEF TypeInv, Places, HeldAt
    <2>3. owner \in {t, None} /\ owner' \in {t, None}
      BY <1>1, <1>5, OwnerHolds DEF GiveUp, Each, LockInv, HeldAt
    <2>4. Each(t)'
      BY <1>1, <1>2, <1>5, <2>2, NoneAssumption
         DEF GiveUp, Each, LockInv, OwnerInv, DepthInv, CountInv, WakeInv, In, At, Plain, HeldAt, OpenAt
    <2>. QED  BY <1>1, <1>5, <2>2, <2>3, <2>4, StepOf DEF GiveUp, TypeInv
  <1>6. CASE OwnAgain(t)
    <2>1. Go(t, "count_again")
      BY <1>6 DEF OwnAgain
    <2>2. /\ call' \in [Threads -> CallType] /\ told' = told
          /\ \A u \in Threads : u # t => call'[u] = call[u]
          /\ call'[t].at = "count_again" /\ call'[t].timed = call[t].timed
          /\ call'[t].woken = call[t].woken /\ call'[t].saved = call[t].saved
      BY <1>1, <2>1, GoEffect DEF TypeInv, Places, HeldAt
    <2>3. owner \in {t, None} /\ owner' \in {t, None}
      BY <1>1, <1>6, OwnerHolds DEF OwnAgain, Each, LockInv, HeldAt
    <2>4. Each(t)'
      BY <1>1, <1>2, <1>6, <2>2, NoneAssumption
         DEF OwnAgain, Each, LockInv, OwnerInv, DepthInv, CountInv, WakeInv, In, At, Plain, HeldAt, OpenAt
    <2>. QED  BY <1>1, <1>6, <2>2, <2>3, <2>4, StepOf DEF OwnAgain, TypeInv
  <1>. QED  BY <1>3, <1>4, <1>5, <1>6

LEMMA SetCountStep ==
  ASSUME IndInv, NEW t \in Threads, SetCount(t)
  PROVE  IndInv'
  <1>1. TypeInv /\ Each(t)
    BY DEF IndInv
  <1>2. depth[t] \in Nat /\ count \in Nat /\ call[t] \in CallType /\ call[t].saved \in Nat
    BY <1>1, CallFields, CountMaxAssumption DEF TypeInv
  <1>3. /\ At(t) = "count" /\ count' = 1 /\ SetDepth(t, 1) /\ Return(t, "0")
        /\ UNCHANGED <<type, srw, owner>> /\ srw = t
    BY <1>1 DEF SetCount, Each, LockInv, HeldAt
  <1>4. /\ call' \in [Threads -> CallType] /\ told' = told \ {t}
        /\ \A u \in Threads : u # t => call'[u] = call[u]
        /\ call'[t].at = "idle"
    BY <1>1, <1>3, ReturnEffect DEF TypeInv
  <1>5. /\ depth' \in [Threads -> 0..CountMax] /\ depth'[t] = 1
        /\ \A u \in Threads : u # t => depth'[u] = depth[u]
    BY <1>1, <1>2, <1>3, CountMaxAssumption DEF SetDepth, TypeInv
  <1>6. Each(t)'
    BY <1>1, <1>2, <1>3, <1>4, <1>5
       DEF Each, LockInv, OwnerInv, DepthInv, CountInv, WakeInv, In, At, Plain, HeldAt, OpenAt
  <1>. QED  BY <1>3, <1>4, <1>5, <1>6, StepOf, CountMaxAssumption

LEMMA UnlockStep ==
  ASSUME IndInv, NEW t \in Threads, Unlock(t)
  PROVE  IndInv'
  <1>1. TypeInv /\ Each(t)
    BY DEF IndInv
  <1>2. depth[t] \in Nat /\ count \in Nat /\ call[t] \in CallType /\ call[t].saved \in Nat
    BY <1>1, CallFields, CountMaxAssumption DEF TypeInv
  <1>3. At(t) = "idle" /\ (Plain => depth[t] > 0) /\ UNCHANGED <<type, srw, owner>>
    BY DEF Unlock
  <1>4. CASE Plain
    <2>1. Go(t, "release") /\ UNCHANGED <<mutex, depth>>
      BY <1>4 DEF Unlock, mutex
    <2>2. /\ call' \in [Threads -> CallType] /\ told' = told
          /\ \A u \in Threads : u # t => call'[u] = call[u]
          /\ call'[t].at = "release" /\ call'[t].timed = call[t].timed
          /\ call'[t].woken = call[t].woken /\ call'[t].saved = call[t].saved
      BY <1>1, <2>1, GoEffect DEF TypeInv, Places, HeldAt
    <2>3. Each(t)'
      BY <1>1, <1>2, <1>3, <1>4, <2>1, <2>2
         DEF mutex, Each, LockInv, OwnerInv, DepthInv, CountInv, WakeInv, In, At, Plain, HeldAt, OpenAt
    <2>. QED  BY <2>1, <2>3, GoQuietly DEF Places, HeldAt
  <1>5. CASE ~Plain /\ owner # t
    <2>1. Return(t, "EPERM") /\ UNCHANGED <<mutex, depth>> /\ At(t) \in OpenAt
      BY <1>3, <1>5 DEF Unlock, mutex, OpenAt
    <2>. QED  BY <2>1, ReturnQuietly
  <1>6. CASE ~Plain /\ owner = t
    <2>1. count = depth[t] /\ depth[t] > 0 /\ srw = t
      BY <1>1, <1>3, <1>6 DEF Each, OwnerInv, CountInv, LockInv, In, OpenAt
    <2>2. count' = count - 1 /\ count' \in 0..CountMax
      BY <1>1, <1>6, <2>1, CountMaxAssumption DEF Unlock, TypeInv
    <2>3. CASE count' # 0
      <3>1. Return(t, "0") /\ SetDepth(t, depth[t] - 1)
        BY <1>6, <2>3 DEF Unlock
      <3>2. /\ call' \in [Threads -> CallType] /\ told' = told \ {t}
            /\ \A u \in Threads : u # t => call'[u] = call[u]
            /\ call'[t].at = "idle"
        BY <1>1, <3>1, ReturnEffect DEF TypeInv
      <3>3. /\ depth' \in [Threads -> 0..CountMax] /\ depth'[t] = depth[t] - 1
            /\ \A u \in Threads : u # t => depth'[u] = depth[u]
        BY <1>1, <1>2, <2>1, <3>1, CountMaxAssumption DEF SetDepth, TypeInv
      <3>4. Each(t)'
        BY <1>1, <1>2, <1>3, <1>6, <2>1, <2>2, <2>3, <3>2, <3>3
           DEF Each, LockInv, OwnerInv, DepthInv, CountInv, WakeInv, In, At, Plain, HeldAt, OpenAt
      <3>. QED  BY <1>3, <2>1, <2>2, <3>2, <3>3, <3>4, StepOf
    <2>4. CASE count' = 0
      <3>1. Go(t, "disown") /\ UNCHANGED depth
        BY <1>6, <2>4 DEF Unlock
      <3>2. /\ call' \in [Threads -> CallType] /\ told' = told
            /\ \A u \in Threads : u # t => call'[u] = call[u]
            /\ call'[t].at = "disown" /\ call'[t].timed = call[t].timed
            /\ call'[t].woken = call[t].woken /\ call'[t].saved = call[t].saved
        BY <1>1, <3>1, GoEffect DEF TypeInv, Places, HeldAt
      <3>3. Each(t)'
        BY <1>1, <1>2, <1>3, <1>6, <2>1, <2>2, <2>4, <3>1, <3>2
           DEF Each, LockInv, OwnerInv, DepthInv, CountInv, WakeInv, In, At, Plain, HeldAt, OpenAt
      <3>. QED  BY <1>1, <1>3, <2>1, <2>2, <3>1, <3>2, <3>3, StepOf DEF TypeInv
    <2>. QED  BY <2>3, <2>4
  <1>. QED  BY <1>4, <1>5, <1>6

LEMMA ReleaseStep ==
  ASSUME IndInv, NEW t \in Threads, Release(t)
  PROVE  IndInv'
  <1>1. TypeInv /\ Each(t)
    BY DEF IndInv
  <1>2. depth[t] \in Nat /\ count \in Nat /\ call[t] \in CallType /\ call[t].saved \in Nat
    BY <1>1, CallFields, CountMaxAssumption DEF TypeInv
  <1>3. /\ At(t) = "release" /\ srw' = None /\ SetDepth(t, 0) /\ Return(t, "0")
        /\ UNCHANGED <<type, owner, count>> /\ srw = t /\ owner # t
    BY <1>1 DEF Release, Each, LockInv, OwnerInv, In, HeldAt, OpenAt
  <1>4. /\ call' \in [Threads -> CallType] /\ told' = told \ {t}
        /\ \A u \in Threads : u # t => call'[u] = call[u]
        /\ call'[t].at = "idle"
    BY <1>1, <1>3, ReturnEffect DEF TypeInv
  <1>5. /\ depth' \in [Threads -> 0..CountMax] /\ depth'[t] = 0
        /\ \A u \in Threads : u # t => depth'[u] = depth[u]
    BY <1>1, <1>2, <1>3, CountMaxAssumption DEF SetDepth, TypeInv
  <1>6. Each(t)'
    BY <1>1, <1>2, <1>3, <1>4, <1>5, NoneAssumption
       DEF Each, LockInv, OwnerInv, DepthInv, CountInv, WakeInv, In, At, Plain, HeldAt, OpenAt
  <1>. QED  BY <1>1, <1>3, <1>4, <1>5, <1>6, StepOf DEF TypeInv

LEMMA WaitStep ==
  ASSUME IndInv, NEW t \in Threads, Wait(t) \/ ReadClock(t) \/ Awake(t)
  PROVE  IndInv'
  <1>1. TypeInv /\ Each(t)
    BY DEF IndInv
  <1>2. depth[t] \in Nat /\ count \in Nat /\ call[t] \in CallType /\ call[t].saved \in Nat
    BY <1>1, CallFields, CountMaxAssumption DEF TypeInv
  <1>3. CASE Wait(t)
    <2>1. Go(t, "cond_sleep") /\ UNCHANGED <<mutex, depth>>
      BY <1>3 DEF Wait
    <2>2. /\ call' \in [Threads -> CallType] /\ told' = told
          /\ \A u \in Threads : u # t => call'[u] = call[u]
          /\ call'[t].at = "cond_sleep" /\ call'[t].timed = call[t].timed
          /\ call'[t].woken = call[t].woken /\ call'[t].saved = call[t].saved
      BY <1>1, <2>1, GoEffect DEF TypeInv, Places, OpenAt
    <2>3. Each(t)'
      BY <1>1, <1>2, <1>3, <2>1, <2>2
         DEF Wait, MayWait, mutex, Each, LockInv, OwnerInv, DepthInv, CountInv, WakeInv, In, At, Plain, HeldAt, OpenAt
    <2>. QED  BY <2>1, <2>3, GoQuietly DEF Places, OpenAt
  <1>4. CASE ReadClock(t) /\ call[t].passed
    <2>1. Return(t, "ETIMEDOUT") /\ UNCHANGED <<mutex, depth>> /\ At(t) \in OpenAt \cup {"awake"}
      BY <1>4 DEF ReadClock, OpenAt
    <2>. QED  BY <2>1, ReturnQuietly
  <1>5. CASE ReadClock(t) /\ ~call[t].passed
    <2>1. Go(t, "cond_sleep") /\ UNCHANGED <<mutex, depth>>
      BY <1>5 DEF ReadClock
    <2>2. /\ call' \in [Threads -> CallType] /\ told' = told
          /\ \A u \in Threads : u # t => call'[u] = call[u]
          /\ call'[t].at = "cond_sleep" /\ call'[t].timed = call[t].timed
          /\ call'[t].woken = call[t].woken /\ call'[t].saved = call[t].saved
      BY <1>1, <2>1, GoEffect DEF TypeInv, Places, OpenAt
    <2>3. Each(t)'
      BY <1>1, <1>2, <1>5, <2>1, <2>2
         DEF ReadClock, MayWait, mutex, Each, LockInv, OwnerInv, DepthInv, CountInv, WakeInv, In, At, Plain, HeldAt, OpenAt
    <2>. QED  BY <2>1, <2>3, GoQuietly DEF Places, OpenAt
  <1>6. CASE Awake(t) /\ call[t].woken
    <2>1. Return(t, "0") /\ UNCHANGED <<mutex, depth>> /\ At(t) \in OpenAt \cup {"awake"}
      BY <1>6 DEF Awake, OpenAt
    <2>. QED  BY <2>1, ReturnQuietly
  <1>7. CASE Awake(t) /\ ~call[t].woken /\ ~call[t].timed
    <2>1. Return(t, "ETIMEDOUT") /\ UNCHANGED <<mutex, depth>> /\ At(t) \in OpenAt \cup {"awake"}
      BY <1>7 DEF Awake, OpenAt
    <2>. QED  BY <2>1, ReturnQuietly
  <1>8. CASE Awake(t) /\ ~call[t].woken /\ call[t].timed
    <2>1. Go(t, "deadline") /\ UNCHANGED <<mutex, depth>>
      BY <1>8 DEF Awake
    <2>2. /\ call' \in [Threads -> CallType] /\ told' = told
          /\ \A u \in Threads : u # t => call'[u] = call[u]
          /\ call'[t].at = "deadline" /\ call'[t].timed = call[t].timed
          /\ call'[t].woken = call[t].woken /\ call'[t].saved = call[t].saved
      BY <1>1, <2>1, GoEffect DEF TypeInv, Places, OpenAt
    <2>3. Each(t)'
      BY <1>1, <1>2, <1>8, <2>1, <2>2
         DEF Awake, MayWait, mutex, Each, LockInv, OwnerInv, DepthInv, CountInv, WakeInv, In, At, Plain, HeldAt, OpenAt
    <2>. QED  BY <2>1, <2>3, GoQuietly DEF Places, OpenAt
  <1>. QED  BY <1>3, <1>4, <1>5, <1>6, <1>7, <1>8

\* A step that leaves the lock and the levels alone and writes the caller's locals.
LEMMA LocalStep ==
  ASSUME IndInv, NEW t \in Threads, NEW c \in CallType, GoTo(t, c), UNCHANGED <<mutex, depth>>,
         call'[t] = c => Each(t)'
  PROVE  IndInv'
  <1>1. TypeInv /\ UNCHANGED <<type, srw, owner, count, depth>>
    BY DEF IndInv, mutex
  <1>2. /\ call' \in [Threads -> CallType] /\ told' = told /\ call'[t] = c
        /\ \A u \in Threads : u # t => call'[u] = call[u]
    BY <1>1 DEF GoTo, TypeInv
  <1>. QED  BY <1>1, <1>2, StepOf DEF TypeInv

LEMMA TimedWaitStep ==
  ASSUME IndInv, NEW t \in Threads, TimedWait(t)
  PROVE  IndInv'
  <1>1. TypeInv /\ Each(t)
    BY DEF IndInv
  <1>2. depth[t] \in Nat /\ count \in Nat /\ call[t] \in CallType /\ call[t].saved \in Nat
    BY <1>1, CallFields, CountMaxAssumption DEF TypeInv
  <1>3. MayWait(t) /\ UNCHANGED <<mutex, depth>>
    BY DEF TimedWait
  <1>4. CASE Return(t, "EINVAL")
    BY <1>3, <1>4, ReturnQuietly DEF MayWait, OpenAt
  <1>5. ASSUME NEW p \in BOOLEAN, GoTo(t, Frame("deadline", TRUE, p, FALSE, 0))
        PROVE  IndInv'
    <2>. DEFINE c == Frame("deadline", TRUE, p, FALSE, 0)
    <2>1. c \in CallType /\ c.at = "deadline" /\ c.timed
      BY CountMaxAssumption DEF Frame, CallType, Places, OpenAt
    <2>2. told' = told
      BY <1>5 DEF GoTo
    <2>. HIDE DEF c
    <2>3. ASSUME call'[t] = c PROVE Each(t)'
      BY <1>1, <1>2, <1>3, <2>1, <2>2, <2>3
         DEF MayWait, mutex, Each, LockInv, OwnerInv, DepthInv, CountInv, WakeInv, In, At, Plain, HeldAt, OpenAt
    <2>. QED  BY <1>3, <1>5, <2>1, <2>3, LocalStep DEF c
  <1>. QED  BY <1>4, <1>5 DEF TimedWait

LEMMA PassesStep ==
  ASSUME IndInv, NEW t \in Threads, Passes(t)
  PROVE  IndInv'
  <1>1. TypeInv /\ Each(t)
    BY DEF IndInv
  <1>2. depth[t] \in Nat /\ count \in Nat /\ call[t] \in CallType /\ call[t].saved \in Nat
    BY <1>1, CallFields, CountMaxAssumption DEF TypeInv
  <1>. DEFINE c == Frame(At(t), TRUE, TRUE, call[t].woken, call[t].saved)
  <1>3. GoTo(t, c) /\ call[t].timed /\ UNCHANGED <<mutex, depth>> /\ told' = told
    BY DEF Passes, GoTo
  <1>4. /\ c \in CallType /\ c.at = call[t].at /\ c.timed
        /\ c.woken = call[t].woken /\ c.saved = call[t].saved
    BY <1>2 DEF Frame, CallType, At
  <1>. HIDE DEF c
  <1>5. ASSUME call'[t] = c PROVE Each(t)'
    BY <1>1, <1>2, <1>3, <1>4, <1>5
       DEF mutex, Each, LockInv, OwnerInv, DepthInv, CountInv, WakeInv, In, At, Plain, HeldAt, OpenAt
  <1>. QED  BY <1>3, <1>4, <1>5, LocalStep

LEMMA CondSleepStep ==
  ASSUME IndInv, NEW t \in Threads, CondSleep(t)
  PROVE  IndInv'
  <1>1. TypeInv /\ Each(t)
    BY DEF IndInv
  <1>2. depth[t] \in Nat /\ count \in Nat /\ call[t] \in CallType /\ call[t].saved \in Nat
    BY <1>1, CallFields, CountMaxAssumption DEF TypeInv
  <1>3. CASE CondSleep(t) /\ Plain
    <2>1. Go(t, "sleep") /\ UNCHANGED <<mutex, depth>>
      BY <1>3 DEF CondSleep
    <2>2. /\ call' \in [Threads -> CallType] /\ told' = told
          /\ \A u \in Threads : u # t => call'[u] = call[u]
          /\ call'[t].at = "sleep" /\ call'[t].timed = call[t].timed
          /\ call'[t].woken = call[t].woken /\ call'[t].saved = call[t].saved
      BY <1>1, <2>1, GoEffect DEF TypeInv, Places, HeldAt
    <2>3. Each(t)'
      BY <1>1, <1>2, <1>3, <2>1, <2>2
         DEF CondSleep, MayWait, mutex, Each, LockInv, OwnerInv, DepthInv, CountInv, WakeInv, In, At, Plain, HeldAt, OpenAt
    <2>. QED  BY <2>1, <2>3, GoQuietly DEF Places, HeldAt
  <1>4. CASE CondSleep(t) /\ ~Plain /\ owner # t
    <2>1. Return(t, "EPERM") /\ UNCHANGED <<mutex, depth>> /\ At(t) \in OpenAt \cup {"awake"}
      BY <1>4 DEF CondSleep, OpenAt
    <2>. QED  BY <2>1, ReturnQuietly
  <1>5. CASE CondSleep(t) /\ ~Plain /\ owner = t
    <2>. DEFINE c == Frame("give_up", call[t].timed, call[t].passed, call[t].woken, count)
    <2>1. GoTo(t, c) /\ UNCHANGED <<mutex, depth>> /\ told' = told /\ At(t) = "cond_sleep"
      BY <1>5 DEF CondSleep, GoTo
    <2>2. /\ c \in CallType /\ c.at = "give_up" /\ c.timed = call[t].timed
          /\ c.woken = call[t].woken /\ c.saved = count
      BY <1>1, <1>2 DEF Frame, CallType, Places, HeldAt, TypeInv
    <2>. HIDE DEF c
    <2>3. ASSUME call'[t] = c PROVE Each(t)'
      BY <1>1, <1>2, <1>5, <2>1, <2>2, <2>3
         DEF mutex, Each, LockInv, OwnerInv, DepthInv, CountInv, WakeInv, In, At, Plain, HeldAt, OpenAt
    <2>. QED  BY <2>1, <2>2, <2>3, LocalStep
  <1>. QED  BY <1>3, <1>4, <1>5

\* The sleep on the condition: the slim lock given up and taken back.
LEMMA SleepStep ==
  ASSUME IndInv, NEW t \in Threads, Sleep(t) \/ Reacquire(t) \/ CountAgain(t)
  PROVE  IndInv'
  <1>1. TypeInv /\ Each(t)
    BY DEF IndInv
  <1>2. depth[t] \in Nat /\ count \in Nat /\ call[t] \in CallType /\ call[t].saved \in Nat
    BY <1>1, CallFields, CountMaxAssumption DEF TypeInv
  <1>3. CASE Sleep(t)
    <2>1. Go(t, "asleep") /\ srw' = None /\ srw = t
      BY <1>1, <1>3 DEF Sleep, Each, LockInv, HeldAt
    <2>2. /\ call' \in [Threads -> CallType] /\ told' = told
          /\ \A u \in Threads : u # t => call'[u] = call[u]
          /\ call'[t].at = "asleep" /\ call'[t].timed = call[t].timed
          /\ call'[t].woken = call[t].woken /\ call'[t].saved = call[t].saved
      BY <1>1, <2>1, GoEffect DEF TypeInv, Places, AwayAt
    <2>3. Each(t)'
      BY <1>1, <1>2, <1>3, <2>1, <2>2, NoneAssumption
         DEF Sleep, Each, LockInv, OwnerInv, DepthInv, CountInv, WakeInv, In, At, Plain, HeldAt, OpenAt
    <2>. QED  BY <1>1, <1>3, <2>1, <2>2, <2>3, CallFields, StepOf DEF Sleep, TypeInv
  <1>4. CASE Reacquire(t) /\ Plain
    <2>1. Go(t, "awake") /\ srw' = t /\ srw = None
      BY <1>1, <1>4 DEF Reacquire, Each, LockInv, HeldAt
    <2>2. /\ call' \in [Threads -> CallType] /\ told' = told
          /\ \A u \in Threads : u # t => call'[u] = call[u]
          /\ call'[t].at = "awake" /\ call'[t].timed = call[t].timed
          /\ call'[t].woken = call[t].woken /\ call'[t].saved = call[t].saved
      BY <1>1, <2>1, GoEffect DEF TypeInv, Places, HeldAt
    <2>3. Each(t)'
      BY <1>1, <1>2, <1>4, <2>1, <2>2, NoneAssumption
         DEF Reacquire, Each, LockInv, OwnerInv, DepthInv, CountInv, WakeInv, In, At, Plain, HeldAt, OpenAt
    <2>. QED  BY <1>1, <1>4, <2>1, <2>2, <2>3, CallFields, StepOf DEF Reacquire, TypeInv
  <1>5. CASE Reacquire(t) /\ ~Plain
    <2>1. Go(t, "own_again") /\ srw' = t /\ srw = None
      BY <1>1, <1>5 DEF Reacquire, Each, LockInv, HeldAt
    <2>2. /\ call' \in [Threads -> CallType] /\ told' = told
          /\ \A u \in Threads : u # t => call'[u] = call[u]
          /\ call'[t].at = "own_again" /\ call'[t].timed = call[t].timed
          /\ call'[t].woken = call[t].woken /\ call'[t].saved = call[t].saved
      BY <1>1, <2>1, GoEffect DEF TypeInv, Places, HeldAt
    <2>3. Each(t)'
      BY <1>1, <1>2, <1>5, <2>1, <2>2, NoneAssumption
         DEF Reacquire, Each, LockInv, OwnerInv, DepthInv, CountInv, WakeInv, In, At, Plain, HeldAt, OpenAt
    <2>. QED  BY <1>1, <1>5, <2>1, <2>2, <2>3, CallFields, StepOf DEF Reacquire, TypeInv
  <1>6. CASE CountAgain(t)
    <2>1. Go(t, "awake") /\ count' = call[t].saved /\ srw' = srw /\ srw = t
      BY <1>1, <1>6 DEF CountAgain, Each, LockInv, HeldAt
    <2>2. /\ call' \in [Threads -> CallType] /\ told' = told
          /\ \A u \in Threads : u # t => call'[u] = call[u]
          /\ call'[t].at = "awake" /\ call'[t].timed = call[t].timed
          /\ call'[t].woken = call[t].woken /\ call'[t].saved = call[t].saved
      BY <1>1, <2>1, GoEffect DEF TypeInv, Places, HeldAt
    <2>3. Each(t)'
      BY <1>1, <1>2, <1>6, <2>1, <2>2, NoneAssumption
         DEF CountAgain, Each, LockInv, OwnerInv, DepthInv, CountInv, WakeInv, In, At, Plain, HeldAt, OpenAt
    <2>. QED  BY <1>1, <1>6, <2>1, <2>2, <2>3, CallFields, StepOf DEF CountAgain, TypeInv
  <1>. QED  BY <1>3, <1>4, <1>5, <1>6

\* Sleepers leave the queue, told or not: the lock, the levels and the other calls stay
\* as they are.
LEMMA WakesStep ==
  ASSUME IndInv, NEW S \in SUBSET Asleep, NEW w \in BOOLEAN, Wakes(S, w),
         UNCHANGED <<mutex, depth>>, told' \subseteq IF w THEN told \cup S ELSE told
  PROVE  IndInv'
  <1>1. TypeInv /\ UNCHANGED <<type, srw, owner, count, depth>>
    BY DEF IndInv, mutex
  <1>2. call' = [u \in Threads |-> IF u \in S THEN Woken(call[u], w) ELSE call[u]]
    BY DEF Wakes
  <1>3. ASSUME NEW c \in CallType
        PROVE  /\ Woken(c, w) \in CallType /\ Woken(c, w).at = "wake"
               /\ Woken(c, w).timed = c.timed /\ Woken(c, w).woken = w
               /\ Woken(c, w).saved = c.saved
    BY DEF Woken, Frame, CallType, Places, AwayAt
  <1>4. \A u \in Threads : call[u] \in CallType
    BY <1>1 DEF TypeInv
  <1>5. call' \in [Threads -> CallType]
    BY <1>2, <1>3, <1>4
  <1>6. TypeInv'
    BY <1>1, <1>5 DEF TypeInv, Asleep
  <1>7. ASSUME NEW u \in Threads PROVE Each(u)'
    <2>1. Each(u) /\ depth[u] \in Nat
      BY <1>1, CountMaxAssumption DEF IndInv, TypeInv
    <2>2. CASE u \in S
      <3>1. /\ At(u) = "asleep" /\ call'[u].at = "wake" /\ call'[u].timed = call[u].timed
            /\ call'[u].woken = w /\ call'[u].saved = call[u].saved
        BY <1>2, <1>3, <1>4, <2>2 DEF Asleep
      <3>. QED  BY <1>1, <2>1, <2>2, <3>1
                DEF Each, LockInv, OwnerInv, DepthInv, CountInv, WakeInv, In, At, Plain, HeldAt, OpenAt
    <2>3. CASE u \notin S
      <3>1. call'[u] = call[u]
        BY <1>2, <2>3
      <3>. QED  BY <1>1, <2>1, <2>3, <3>1
                DEF Each, LockInv, OwnerInv, DepthInv, CountInv, WakeInv, In, At, Plain, HeldAt, OpenAt
    <2>. QED  BY <2>2, <2>3
  <1>. QED  BY <1>6, <1>7 DEF IndInv

LEMMA WakeUpStep ==
  ASSUME IndInv, NEW t \in Threads, SpuriousWake(t) \/ Timer(t) \/ Signal(t) \/ Broadcast(t)
  PROVE  IndInv'
  <1>1. CASE SpuriousWake(t)
    <2>1. /\ {t} \in SUBSET Asleep /\ Wakes({t}, TRUE)
          /\ UNCHANGED <<mutex, depth>> /\ told' = told
      BY <1>1 DEF SpuriousWake, Asleep
    <2>. QED  BY <2>1, WakesStep
  <1>2. CASE Timer(t)
    <2>1. /\ {t} \in SUBSET Asleep /\ Wakes({t}, FALSE)
          /\ UNCHANGED <<mutex, depth>> /\ told' = told
      BY <1>2 DEF Timer, Asleep
    <2>. QED  BY <2>1, WakesStep
  <1>3. CASE Signal(t) /\ Asleep # {}
    <2>1. PICK s \in Asleep : Wakes({s}, TRUE) /\ told' = told \cup {s}
      BY <1>3 DEF Signal
    <2>2. {s} \in SUBSET Asleep /\ UNCHANGED <<mutex, depth>>
      BY <1>3 DEF Signal
    <2>. QED  BY <2>1, <2>2, WakesStep
  <1>4. CASE Signal(t) /\ Asleep = {}
    <2>1. UNCHANGED <<type, srw, owner, count, call, depth, told>>
      BY <1>4 DEF Signal, mutex
    <2>. QED  BY <2>1 DEF IndInv, TypeInv, Each, LockInv, OwnerInv, DepthInv, CountInv, WakeInv, In, At, Plain, HeldAt, OpenAt
  <1>5. CASE Broadcast(t)
    <2>1. Wakes(Asleep, TRUE) /\ UNCHANGED <<mutex, depth>> /\ told' = told \cup Asleep
      BY <1>5 DEF Broadcast
    <2>. QED  BY <2>1, WakesStep
  <1>. QED  BY <1>1, <1>2, <1>3, <1>4, <1>5

LEMMA DestroyStep ==
  ASSUME IndInv, NEW t \in Threads, Destroy(t)
  PROVE  IndInv'
  <1>1. TypeInv /\ At(t) = "idle"
    BY DEF IndInv, Destroy
  <1>2. CASE srw # None
    <2>1. Return(t, "EBUSY") /\ UNCHANGED <<mutex, depth>>
      BY <1>2 DEF Destroy
    <2>. QED  BY <1>1, <2>1, ReturnQuietly DEF OpenAt
  <1>3. CASE srw = None
    <2>1. /\ type' \in Types /\ srw' = None /\ owner' = None /\ count' = 0
          /\ Return(t, "0") /\ UNCHANGED depth
      BY <1>3 DEF Destroy
    <2>2. /\ call' \in [Threads -> CallType] /\ told' = told \ {t}
          /\ \A u \in Threads : u # t => call'[u] = call[u]
          /\ call'[t].at = "idle"
      BY <1>1, <2>1, ReturnEffect DEF TypeInv
    <2>3. TypeInv'
      BY <1>1, <2>1, <2>2, CountMaxAssumption DEF TypeInv
    <2>4. ASSUME NEW u \in Threads PROVE Each(u)'
      <3>1. Each(u) /\ At(u) = "idle" /\ depth[u] \in Nat /\ u # None
        BY <1>1, CountMaxAssumption, NoneAssumption DEF IndInv, TypeInv, Destroy
      <3>2. depth[u] = 0 /\ (u \notin told' \/ call'[u] = call[u])
        BY <1>3, <2>2, <3>1 DEF Each, LockInv, In, OpenAt
      <3>3. call'[u].at = "idle"
        BY <2>2, <3>1 DEF At
      <3>. QED  BY <2>1, <2>2, <3>1, <3>2, <3>3
                DEF Each, LockInv, OwnerInv, DepthInv, CountInv, WakeInv, In, At, Plain,
                    HeldAt, OpenAt
    <2>. QED  BY <2>3, <2>4 DEF IndInv
  <1>. QED  BY <1>2, <1>3

LEMMA IndStep ==
  ASSUME IndInv, [Next]_vars
  PROVE  IndInv'
  <1>1. CASE UNCHANGED vars
    BY <1>1 DEF vars, IndInv, TypeInv, Each, LockInv, OwnerInv, DepthInv, CountInv, WakeInv, In, At, Plain, HeldAt, OpenAt
  <1>2. ASSUME NEW t \in Threads,
               Call(t) \/ Continue(t) \/ Acquire(t) \/ Reacquire(t)
                 \/ Passes(t) \/ SpuriousWake(t) \/ Timer(t)
        PROVE  IndInv'
    <2>1. CASE Call(t)
      BY <2>1, LockStep, UnlockStep, WaitStep, TimedWaitStep, WakeUpStep,
         DestroyStep DEF Call
    <2>2. CASE Continue(t)
      BY <2>2, TryAcquireStep, OwnerStep, SetCountStep, ReleaseStep, WaitStep, CondSleepStep,
         SleepStep DEF Continue
    <2>3. CASE Acquire(t)
      BY <2>3, TakenStep DEF Acquire
    <2>. QED  BY <1>2, <2>1, <2>2, <2>3, SleepStep, PassesStep, WakeUpStep
  <1>. QED  BY <1>1, <1>2 DEF Next

-----------------------------------------------------------------------------
(* What the induction gives *)

\* Every state satisfies the inductive invariant: the slim lock, the owner and the
\* count of pthread_mutex_t agree with where each thread is in its call.
THEOREM Inductive == Safety => []IndInv
  BY IndInit, IndStep, PTL DEF Safety

\* The fields of the mutex keep their types: the count of a recursive mutex never
\* passes UINT_MAX (relock's EAGAIN) and is never decremented below zero.
THEOREM TypeCorrect == Safety => []TypeOK
  <1>1. IndInv => TypeOK
    <2>. SUFFICES ASSUME IndInv, NEW t \in Threads
                  PROVE  depth[t] \in 0..CountMax /\ call[t].saved \in 0..CountMax
      BY DEF IndInv, TypeInv, TypeOK
    <2>. QED  BY CallFields DEF IndInv, TypeInv
  <1>. QED  BY <1>1, Inductive, PTL

\* A thread between calls with the mutex locked holds the slim lock, and an owned
\* mutex names it and its depth, through pthread_cond_wait included.
THEOREM LevelsKept == Safety => []HolderKnown
  <1>1. IndInv => HolderKnown
    BY DEF IndInv, Each, LockInv, OwnerInv, CountInv, In, OpenAt, HolderKnown, Inside
  <1>. QED  BY <1>1, Inductive, PTL

\* Every access of the calls to the mutex's plain count is made with the lock held.
THEOREM CountProtected == Safety => []CountHeld
  <1>1. IndInv => CountHeld
    BY DEF IndInv, Each, LockInv, OwnerInv, In, HeldAt, OpenAt, CountHeld
  <1>. QED  BY <1>1, Inductive, PTL

\* The two steps that return EPERM find the caller neither the owner nor inside.
LEMMA RefusalStep ==
  ASSUME IndInv, [Next]_vars, NEW t \in Threads, ret' = <<t, "EPERM">>, ~UNCHANGED vars
  PROVE  depth[t] = 0
  <1>1. PICK s \in Threads : \/ Call(s) \/ Continue(s) \/ Acquire(s) \/ Reacquire(s)
                             \/ Passes(s) \/ SpuriousWake(s) \/ Timer(s)
    BY DEF Next
  <1>2. ret' # Nothing
    BY DEF Nothing
  <1>3. \/ Unlock(s) /\ ~Plain /\ owner # s
        \/ CondSleep(s) /\ ~Plain /\ owner # s
    <2>1. ASSUME NEW rc, Return(s, rc) PROVE rc = "EPERM"
      BY <2>1 DEF Return
    <2>2. ret' # <<s, "0">>
      OBVIOUS
    <2>3. ~(Signal(s) \/ Broadcast(s) \/ SpuriousWake(s) \/ Timer(s))
      BY <1>2, <2>2 DEF Signal, Broadcast, SpuriousWake, Timer
    <2>4. \A l : ~Go(s, l)
      BY <1>2 DEF Go, GoTo
    <2>5. \A c : ~GoTo(s, c)
      BY <1>2 DEF GoTo
    <2>6. ~(Lock(s) \/ TryLock(s) \/ Destroy(s))
      BY <2>1, <2>4 DEF Lock, TryLock, Relock, Destroy
    <2>7. ~(Acquire(s) \/ TryAcquire(s) \/ SetOwner(s) \/ SetCount(s) \/ Disown(s) \/ Release(s))
      BY <2>1, <2>4 DEF Acquire, TryAcquire, SetOwner, SetCount, Disown, Release
    <2>8. ~(Wait(s) \/ TimedWait(s) \/ ReadClock(s) \/ Passes(s))
      BY <2>1, <2>4, <2>5 DEF Wait, TimedWait, ReadClock, Passes
    <2>9. ~(GiveUp(s) \/ Sleep(s) \/ Reacquire(s) \/ OwnAgain(s) \/ CountAgain(s) \/ Awake(s))
      BY <2>1, <2>4 DEF GiveUp, Sleep, Reacquire, OwnAgain, CountAgain, Awake
    <2>10. Unlock(s) \/ CondSleep(s)
      BY <1>1, <2>3, <2>6, <2>7, <2>8, <2>9 DEF Call, Continue
    <2>. QED  BY <2>1, <2>4, <2>5, <2>10 DEF Unlock, CondSleep
  <1>4. s = t
    <2>1. \E rc : Return(s, rc)
      BY <1>3 DEF Unlock, CondSleep
    <2>. QED  BY <2>1 DEF Return
  <1>5. At(t) \in OpenAt /\ OwnerInv(t) /\ depth[t] \in Nat
    BY <1>3, <1>4, CountMaxAssumption DEF Unlock, CondSleep, OpenAt, IndInv, Each, TypeInv
  <1>. QED  BY <1>3, <1>4, <1>5 DEF OwnerInv, In

\* pthread_mutex_unlock and pthread_cond_wait answer EPERM only to a thread that has
\* no level of the mutex, whoever else locks or unlocks it meanwhile.
THEOREM RefusesOutsiders == Safety => RefusesOnlyOutsiders
  <1>1. IndInv /\ [Next]_vars =>
          [\A t \in Threads : ret' = <<t, "EPERM">> => depth[t] = 0]_vars
    BY RefusalStep
  <1>. QED  BY <1>1, Inductive, PTL DEF Safety, RefusesOnlyOutsiders

\* A step of a thread that was told to wake, or of another while it is on its way back.
LEMMA ToldStep ==
  ASSUME IndInv, Next, NEW t \in told
  PROVE  At(t)' # "asleep" /\ (At(t)' = "idle" => ret' = <<t, "0">>)
  <1>1. /\ t \in Threads /\ call \in [Threads -> CallType] /\ call[t].woken
        /\ At(t) \in {"wake", "own_again", "count_again", "awake"}
    BY DEF IndInv, TypeInv, Each, WakeInv
  <1>2. CASE call'[t] = call[t]
    BY <1>1, <1>2 DEF At
  <1>3. CASE call'[t] # call[t]
    <2>1. PICK s \in Threads : \/ Call(s) \/ Continue(s) \/ Acquire(s) \/ Reacquire(s)
                               \/ Passes(s) \/ SpuriousWake(s) \/ Timer(s)
      BY DEF Next
    <2>2. \A S, w : ~(S \subseteq Asleep /\ Wakes(S, w))
      BY <1>1, <1>3 DEF Wakes, Asleep
    <2>3. ~(Signal(s) \/ Broadcast(s) \/ SpuriousWake(s) \/ Timer(s))
      <3>1. ASSUME NEW u \in Asleep, NEW w PROVE ~Wakes({u}, w)
        BY <2>2
      <3>2. ~Broadcast(s)
        BY <2>2 DEF Broadcast
      <3>3. ~(SpuriousWake(s) \/ Timer(s))
        BY <3>1 DEF SpuriousWake, Timer, Asleep
      <3>4. ~Signal(s)
        BY <1>3, <3>1 DEF Signal
      <3>. QED  BY <3>2, <3>3, <3>4
    <2>4. s = t
      <3>. SUFFICES ASSUME s # t PROVE FALSE
        OBVIOUS
      <3>1. \A c : ~GoTo(s, c)
        BY <1>1, <1>3 DEF GoTo
      <3>2. \A rc : ~Return(s, rc)
        BY <1>1, <1>3 DEF Return
      <3>3. \A l : ~Go(s, l)
        BY <3>1 DEF Go
      <3>4. ~(Lock(s) \/ TryLock(s) \/ Unlock(s) \/ Destroy(s))
        BY <3>2, <3>3 DEF Lock, TryLock, Unlock, Relock, Destroy
      <3>5. ~(Acquire(s) \/ TryAcquire(s) \/ SetOwner(s) \/ SetCount(s) \/ Disown(s) \/ Release(s))
        BY <3>2, <3>3 DEF Acquire, TryAcquire, SetOwner, SetCount, Disown, Release
      <3>6. ~(Wait(s) \/ TimedWait(s) \/ ReadClock(s) \/ Passes(s))
        BY <3>1, <3>2, <3>3 DEF Wait, TimedWait, ReadClock, Passes
      <3>7. ~(GiveUp(s) \/ Sleep(s) \/ Reacquire(s) \/ OwnAgain(s) \/ CountAgain(s) \/ Awake(s))
        BY <3>2, <3>3 DEF GiveUp, Sleep, Reacquire, OwnAgain, CountAgain, Awake
      <3>8. ~CondSleep(s)
        BY <3>1, <3>2, <3>3 DEF CondSleep
      <3>. QED  BY <2>1, <2>3, <3>4, <3>5, <3>6, <3>7, <3>8 DEF Call, Continue
    <2>5. Reacquire(t) \/ OwnAgain(t) \/ CountAgain(t) \/ Awake(t) \/ Passes(t)
      <3>1. ~(Lock(t) \/ TryLock(t) \/ Unlock(t) \/ Destroy(t) \/ Wait(t) \/ TimedWait(t))
        BY <1>1 DEF Lock, TryLock, Unlock, Destroy, Wait, TimedWait, MayWait
      <3>2. ~(Acquire(t) \/ TryAcquire(t) \/ SetOwner(t) \/ SetCount(t) \/ Disown(t) \/ Release(t))
        BY <1>1 DEF Acquire, TryAcquire, SetOwner, SetCount, Disown, Release
      <3>3. ~(ReadClock(t) \/ CondSleep(t) \/ GiveUp(t) \/ Sleep(t))
        BY <1>1 DEF ReadClock, CondSleep, GiveUp, Sleep
      <3>. QED  BY <2>1, <2>3, <2>4, <3>1, <3>2, <3>3 DEF Call, Continue
    <2>6. ASSUME NEW l \in Places, Go(t, l) PROVE At(t)' = l
      BY <1>1, <2>6, GoEffect DEF At
    <2>7. CASE Reacquire(t) \/ OwnAgain(t) \/ CountAgain(t)
      <3>1. \E l \in {"awake", "own_again", "count_again"} : Go(t, l)
        BY <2>7 DEF Reacquire, OwnAgain, CountAgain
      <3>. QED  BY <2>6, <3>1 DEF Places, HeldAt
    <2>8. CASE Awake(t)
      <3>1. Return(t, "0")
        BY <1>1, <2>8 DEF Awake
      <3>. QED  BY <1>1, <3>1, ReturnEffect DEF Return, At
    <2>9. CASE Passes(t)
      <3>1. call' = [call EXCEPT ![t] = Frame(At(t), TRUE, TRUE, call[t].woken, call[t].saved)]
        BY <2>9 DEF Passes, GoTo
      <3>2. At(t)' = At(t)
        BY <1>1, <3>1 DEF Frame, At
      <3>. QED  BY <1>1, <3>2
    <2>. QED  BY <2>5, <2>7, <2>8, <2>9
  <1>. QED  BY <1>2, <1>3

\* No wake-up is lost to a deadline: a waiter that pthread_cond_signal or
\* pthread_cond_broadcast took off the queue returns 0 from its wait, timed or not, and
\* never sleeps again before that, whatever the other threads do meanwhile.
THEOREM WakesReported == Safety => WakeReported
  <1>1. IndInv /\ [Next]_vars =>
          [\A t \in told : /\ At(t)' # "asleep"
                           /\ At(t)' = "idle" => ret' = <<t, "0">>]_vars
    BY ToldStep
  <1>. QED  BY <1>1, Inductive, PTL DEF Safety, WakeReported

=============================================================================
