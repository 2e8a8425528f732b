--------------------------- MODULE PthreadThread ----------------------------
(* The life of a thread record in src/libc/lib/pthread_ext.c: pthread_create, *)
(* _join, _detach, _exit, _self, the adoption of threads the library did not  *)
(* start, and the fiber-local slot that holds each thread's record.           *)
(*                                                                            *)
(* A thread and its record share a name. Every thread makes the calls it may, *)
(* in any order, also from the destructors it runs when it ends. A caller     *)
(* joins or detaches a joinable thread once, and a detached one never, as     *)
(* POSIX asks. What destructors run is the matter of PthreadKeys.             *)
EXTENDS Naturals, FiniteSets

CONSTANTS
  Foreign,    \* threads the library did not start, the first one among them
  Children,   \* threads pthread_create may start
  MaxThreads  \* how many of them there may be in one behaviour

Threads == Foreign \cup Children

None == "none"
Unset == "FLS_OUT_OF_INDEXES"
Spare == "adopted"    \* in the slot of a child: a record that is not the child's own

ASSUME ThreadsAssumption == Foreign \cap Children = {}
ASSUME MaxThreadsAssumption == MaxThreads \in Nat
ASSUME NamesAssumption == {None, Unset, Spare} \cap Threads = {}

VARIABLES
  self_slot,  \* the published index, or Unset
  indices,    \* (FLS) the indices allocated, each named for the thread that did
  fls,        \* (FLS) the record in each thread's slot: its own, Spare or None
  spare,      \* the memory of the record a child was given besides its own
  noslot,     \* (history) the children whose own record did not get into the slot
  mem,        \* the record's memory: "none", "live" or "freed"
  handle,     \* t->handle: None, or set
  open,       \* (kernel) the thread handles open
  state,      \* t->state
  result,     \* whether t->result is stored
  os,         \* (kernel) the thread: "none", "suspended", "running", "ended"
  at,         \* where each thread is
  home,       \* where its call returns to
  call,       \* the call it makes, when that starts with self_index
  target,     \* the thread its call is about
  joinable,   \* (client) joinable threads pthread_create returned and nobody has set
              \* out to join or detach
  exiting     \* whether the process has begun to exit

heldVars == <<fls, spare, noslot>>
slotVars == <<self_slot, indices, heldVars>>
recordVars == <<mem, handle, open, state, result>>
callVars == <<home, call, target>>
vars == <<self_slot, indices, fls, spare, noslot, mem, handle, open, state, result,
          os, at, home, call, target, joinable, exiting>>

Init == /\ self_slot = Unset /\ indices = {}
        /\ fls = [t \in Threads |-> None]
        /\ spare = [t \in Threads |-> "none"]
        /\ noslot = {}
        /\ mem = [t \in Threads |-> "none"]
        /\ handle = [t \in Threads |-> None]
        /\ open = {}
        /\ state = [t \in Threads |-> None]
        /\ result = [t \in Threads |-> FALSE]
        /\ \E F \in (SUBSET Foreign) \ {{}} :    \* the threads there are to begin with
             os = [t \in Threads |-> IF t \in F THEN "running" ELSE "none"]
        /\ at = [t \in Threads |-> IF t \in Foreign THEN "body" ELSE "start"]
        /\ home = [t \in Threads |-> "body"]
        /\ call = [t \in Threads |-> None]
        /\ target = [t \in Threads |-> None]
        /\ joinable = {}
        /\ exiting = FALSE

\* Thread t runs and is at l.
Runs(t, l) == os[t] = "running" /\ at[t] = l

Go(t, l) == at' = [at EXCEPT ![t] = l]

\* The call of t is over.
Return(t) == /\ at' = [at EXCEPT ![t] = home[t]]
             /\ call' = [call EXCEPT ![t] = None]
             /\ target' = [target EXCEPT ![t] = None]
             /\ home' = [home EXCEPT ![t] = "body"]

Free(r) == mem' = [mem EXCEPT ![r] = "freed"]

\* The client's code runs: the thread's own, or a destructor that `finish`,
\* pthread_exit or the slot's callback runs.
InClient(t) == os[t] = "running" /\ at[t] \in {"body", "destructors", "leave", "callback"}

-----------------------------------------------------------------------------
(* self_index, current, adopt *)

\* A call that starts with self_index.
Begin(t, c, r) == /\ InClient(t)
                  /\ home' = [home EXCEPT ![t] = at[t]]
                  /\ call' = [call EXCEPT ![t] = c]
                  /\ target' = [target EXCEPT ![t] = r]
                  /\ Go(t, IF self_slot = Unset THEN "FlsAlloc" ELSE c)

\* FlsAlloc may have no index left: create fails, pthread_self has no record and
\* pthread_exit goes on without one.
FlsAlloc(t) ==
  /\ Runs(t, "FlsAlloc")
  /\ \/ indices' = indices \cup {t} /\ Go(t, "publish") /\ UNCHANGED callVars
     \/ /\ IF call[t] = "exit" THEN Go(t, "exit") /\ UNCHANGED callVars ELSE Return(t)
        /\ UNCHANGED indices
  /\ UNCHANGED <<self_slot, heldVars, recordVars, os, joinable, exiting>>

\* Variant: the index is stored without looking whether another was.
PublishAlways(t) ==
  /\ Runs(t, "publish")
  /\ self_slot' = t /\ UNCHANGED indices
  /\ Go(t, call[t])
  /\ UNCHANGED <<heldVars, recordVars, os, callVars, joinable, exiting>>

\* The compare-exchange: the loser frees its index and takes the published one.
Publish(t) ==
  /\ Runs(t, "publish")
  /\ IF self_slot = Unset THEN self_slot' = t /\ UNCHANGED indices
                          ELSE indices' = indices \ {t} /\ UNCHANGED self_slot
  /\ Go(t, call[t])
  /\ UNCHANGED <<heldVars, recordVars, os, callVars, joinable, exiting>>

PthreadSelf(t) ==
  /\ Begin(t, "self", t)
  /\ UNCHANGED <<slotVars, recordVars, os, joinable, exiting>>

\* current() finds the record, or adopt() makes one: calloc and FlsSetValue may fail.
\* A child whose own record is not in its slot is given another, without a handle;
\* pthread_join and pthread_detach refuse that one at once (EDEADLK, EINVAL).
Adopt(t) ==
  /\ Runs(t, "self")
  /\ \/ UNCHANGED <<fls, spare, mem, state>>
     \/ /\ fls[t] = None /\ t \in Foreign
        /\ fls' = [fls EXCEPT ![t] = t]
        /\ mem' = [mem EXCEPT ![t] = "live"]
        /\ state' = [state EXCEPT ![t] = "DETACHED"]
        /\ UNCHANGED spare
     \/ /\ fls[t] = None /\ t \in Children
        /\ fls' = [fls EXCEPT ![t] = Spare]
        /\ spare' = [spare EXCEPT ![t] = "live"]
        /\ UNCHANGED <<mem, state>>
  /\ Return(t)
  /\ UNCHANGED <<self_slot, indices, noslot, handle, open, result, os, joinable, exiting>>

-----------------------------------------------------------------------------
(* pthread_create *)

\* The threads that are, were or are about to be.
Known == {s \in Threads : os[s] # "none" \/ \E u \in Threads : target[u] = s}

Create(t) ==
  /\ Cardinality(Known) < MaxThreads
  /\ \E c \in Children \ Known : mem[c] = "none" /\ Begin(t, "create", c)
  /\ UNCHANGED <<slotVars, recordVars, os, joinable, exiting>>

\* Variant: the creator puts the record into the slot, which is its own.
NewRecordInSlot(t) ==
  /\ Runs(t, "create")
  /\ mem' = [mem EXCEPT ![target[t]] = "live"]
  /\ \E s \in {"JOINABLE", "DETACHED"} : state' = [state EXCEPT ![target[t]] = s]
  /\ fls' = [fls EXCEPT ![t] = target[t]]
  /\ Go(t, "CreateThread")
  /\ UNCHANGED <<self_slot, indices, spare, noslot, handle, open, result, os, callVars,
                 joinable, exiting>>

\* calloc may fail; the attributes choose the state.
NewRecord(t) ==
  /\ Runs(t, "create")
  /\ \/ Return(t) /\ UNCHANGED <<mem, state>>
     \/ /\ mem' = [mem EXCEPT ![target[t]] = "live"]
        /\ \E s \in {"JOINABLE", "DETACHED"} : state' = [state EXCEPT ![target[t]] = s]
        /\ Go(t, "CreateThread")
        /\ UNCHANGED callVars
  /\ UNCHANGED <<slotVars, handle, open, result, os, joinable, exiting>>

\* Variant: the thread is created running.
CreateRunning(t) ==
  /\ Runs(t, "CreateThread")
  /\ os' = [os EXCEPT ![target[t]] = "running"]
  /\ open' = open \cup {target[t]}
  /\ Go(t, "handle")
  /\ UNCHANGED <<slotVars, mem, handle, state, result, callVars, joinable, exiting>>

\* The thread is created suspended. When there is none, the record is freed.
CreateThread(t) ==
  /\ Runs(t, "CreateThread")
  /\ \/ /\ os' = [os EXCEPT ![target[t]] = "suspended"]
        /\ open' = open \cup {target[t]}
        /\ Go(t, "handle")
        /\ UNCHANGED <<mem, callVars>>
     \/ /\ Free(target[t])
        /\ Return(t)
        /\ UNCHANGED <<os, open>>
  /\ UNCHANGED <<slotVars, handle, state, result, joinable, exiting>>

SetHandle(t) ==
  /\ Runs(t, "handle")
  /\ handle' = [handle EXCEPT ![target[t]] = "set"]
  /\ Go(t, "resume")
  /\ UNCHANGED <<slotVars, mem, open, state, result, os, callVars, joinable, exiting>>

\* The thread's name is stored for the caller, and the thread runs.
Resume(t) ==
  /\ Runs(t, "resume")
  /\ os' = [os EXCEPT ![target[t]] = "running"]
  /\ joinable' = IF state[target[t]] = "JOINABLE" THEN joinable \cup {target[t]} ELSE joinable
  /\ Return(t)
  /\ UNCHANGED <<slotVars, recordVars, exiting>>

-----------------------------------------------------------------------------
(* thread_start, pthread_exit, finish *)

\* thread_start does not look whether FlsSetValue had memory for the slot.
Start(t) ==
  /\ Runs(t, "start")
  /\ \/ fls' = [fls EXCEPT ![t] = t] /\ UNCHANGED noslot
     \/ noslot' = noslot \cup {t} /\ UNCHANGED fls
  /\ Go(t, "body")
  /\ UNCHANGED <<self_slot, indices, spare, recordVars, os, callVars, joinable, exiting>>

\* The start routine of a child returns.
BodyReturns(t) ==
  /\ t \in Children
  /\ Runs(t, "body")
  /\ Go(t, "finish")
  /\ UNCHANGED <<slotVars, recordVars, os, callVars, joinable, exiting>>

\* A destructor does not call pthread_exit again.
PthreadExit(t) ==
  /\ Runs(t, "body")
  /\ Begin(t, "exit", t)
  /\ UNCHANGED <<slotVars, recordVars, os, joinable, exiting>>

\* A record with a handle is finished, which the slot has only if it has the thread's
\* own; a thread without runs its destructors and ends.
Exit(t) ==
  /\ Runs(t, "exit")
  /\ Go(t, IF fls[t] = t /\ handle[t] # None THEN "finish" ELSE "leave")
  /\ call' = [call EXCEPT ![t] = None]
  /\ target' = [target EXCEPT ![t] = None]
  /\ UNCHANGED <<slotVars, recordVars, os, home, joinable, exiting>>

Leave(t) ==
  /\ Runs(t, "leave")
  /\ Go(t, "ExitThread")
  /\ UNCHANGED <<slotVars, recordVars, os, callVars, joinable, exiting>>

Finish(t) ==
  /\ Runs(t, "finish")
  /\ result' = [result EXCEPT ![t] = TRUE]
  /\ Go(t, "destructors")
  /\ UNCHANGED <<slotVars, mem, handle, open, state, os, callVars, joinable, exiting>>

\* The destructors are done; the slot is cleared, whatever record it has.
ClearSlot(t) ==
  /\ Runs(t, "destructors")
  /\ fls' = [fls EXCEPT ![t] = None]
  /\ Go(t, "exchange")
  /\ UNCHANGED <<self_slot, indices, spare, noslot, recordVars, os, callVars, joinable, exiting>>

\* From here on a joinable thread's record is for others to free.
ExchangeState(t) ==
  /\ Runs(t, "exchange")
  /\ state' = [state EXCEPT ![t] = "EXITED"]
  /\ Go(t, IF state[t] = "DETACHED" THEN "release" ELSE "ExitThread")
  /\ UNCHANGED <<slotVars, mem, handle, open, result, os, callVars, joinable, exiting>>

\* Nobody else will: the record of a detached thread goes with it.
ReleaseSelf(t) ==
  /\ Runs(t, "release")
  /\ open' = IF handle[t] # None THEN open \ {t} ELSE open
  /\ Free(t)
  /\ Go(t, "ExitThread")
  /\ UNCHANGED <<slotVars, handle, state, result, os, callVars, joinable, exiting>>

\* A thread the library did not start may simply end.
ForeignReturns(t) ==
  /\ t \in Foreign
  /\ Runs(t, "body")
  /\ Go(t, "ExitThread")
  /\ UNCHANGED <<slotVars, recordVars, os, callVars, joinable, exiting>>

\* ExitThread: the slot's callback, thread_detach, runs destructors while the slot still
\* has the record; in a process that exits it does nothing.
EndThread(t) ==
  /\ Runs(t, "ExitThread")
  /\ IF fls[t] # None /\ ~exiting
       THEN Go(t, "callback") /\ UNCHANGED os
       ELSE os' = [os EXCEPT ![t] = "ended"] /\ UNCHANGED at
  /\ UNCHANGED <<slotVars, recordVars, callVars, joinable, exiting>>

\* The callback frees the record it was called with, and the thread is over.
Callback(t) ==
  /\ Runs(t, "callback")
  /\ IF fls[t] = Spare THEN spare' = [spare EXCEPT ![t] = "freed"] /\ UNCHANGED mem
                       ELSE Free(fls[t]) /\ UNCHANGED spare
  /\ os' = [os EXCEPT ![t] = "ended"]
  /\ Go(t, "ExitThread")
  /\ UNCHANGED <<self_slot, indices, fls, noslot, handle, open, state, result, callVars,
                 joinable, exiting>>

\* A thread ends the process: the others stop where they are.
ProcessExit(t) ==
  /\ Runs(t, "body")
  /\ exiting' = TRUE
  /\ os' = [s \in Threads |-> IF s = t THEN "running" ELSE "ended"]
  /\ Go(t, "ExitThread")
  /\ UNCHANGED <<slotVars, recordVars, callVars, joinable>>

-----------------------------------------------------------------------------
(* pthread_join, pthread_detach *)

\* A caller names a joinable thread nobody claimed, or itself. A thread that joins
\* itself claims nothing, and none detaches itself while another joins it.
MayName(t, c, l) == \/ c \in joinable
                    \/ c = fls[t] /\ (l = "detach" => state[c] = "DETACHED")

Claim(t, l) ==
  /\ InClient(t)
  /\ \E c \in Threads :
       /\ MayName(t, c, l)
       /\ joinable' = IF l = "join" /\ c = t THEN joinable ELSE joinable \ {c}
       /\ target' = [target EXCEPT ![t] = c]
  /\ home' = [home EXCEPT ![t] = at[t]]
  /\ Go(t, l)
  /\ UNCHANGED <<slotVars, recordVars, os, call, exiting>>

PthreadJoin(t) == Claim(t, "join")
PthreadDetach(t) == Claim(t, "detach")

\* EDEADLK for a thread that joins itself, EINVAL for one that cannot be joined.
JoinCheck(t) ==
  /\ Runs(t, "join")
  /\ IF \/ target[t] = fls[t]
        \/ handle[target[t]] = None
        \/ state[target[t]] = "DETACHED"
       THEN Return(t)
       ELSE Go(t, "wait") /\ UNCHANGED callVars
  /\ UNCHANGED <<slotVars, recordVars, os, joinable, exiting>>

\* Variant: the record is taken once the state says the thread is done with it.
WaitForState(t) ==
  /\ Runs(t, "wait")
  /\ result[target[t]]
  /\ Go(t, "reap")
  /\ UNCHANGED <<slotVars, recordVars, os, callVars, joinable, exiting>>

\* WaitForSingleObject returns when the kernel thread has ended.
JoinWait(t) ==
  /\ Runs(t, "wait")
  /\ os[target[t]] = "ended"
  /\ Go(t, "reap")
  /\ UNCHANGED <<slotVars, recordVars, os, callVars, joinable, exiting>>

\* Variant: a thread that has exited is left to itself.
DetachOnly(t) ==
  /\ Runs(t, "detach")
  /\ state' = IF state[target[t]] = "JOINABLE"
                THEN [state EXCEPT ![target[t]] = "DETACHED"] ELSE state
  /\ Return(t)
  /\ UNCHANGED <<slotVars, mem, handle, open, result, os, joinable, exiting>>

\* The compare-exchange of pthread_detach.
DetachState(t) ==
  /\ Runs(t, "detach")
  /\ IF handle[target[t]] = None
       THEN Return(t) /\ UNCHANGED state
     ELSE IF state[target[t]] = "JOINABLE"
       THEN Return(t) /\ state' = [state EXCEPT ![target[t]] = "DETACHED"]
     ELSE IF state[target[t]] = "DETACHED"
       THEN Return(t) /\ UNCHANGED state
     ELSE Go(t, "reap") /\ UNCHANGED <<callVars, state>>
  /\ UNCHANGED <<slotVars, mem, handle, open, result, os, joinable, exiting>>

\* The handle is closed and the record freed.
Reap(t) ==
  /\ Runs(t, "reap")
  /\ open' = open \ {target[t]}
  /\ Free(target[t])
  /\ Return(t)
  /\ UNCHANGED <<slotVars, handle, state, result, os, joinable, exiting>>

-----------------------------------------------------------------------------
Calls(t) == \/ PthreadSelf(t) \/ Create(t) \/ PthreadExit(t) \/ ProcessExit(t)
            \/ PthreadJoin(t) \/ PthreadDetach(t)

Steps(t) == \/ FlsAlloc(t) \/ Publish(t) \/ Adopt(t)
            \/ NewRecord(t) \/ CreateThread(t) \/ SetHandle(t) \/ Resume(t)
            \/ Start(t) \/ Exit(t) \/ Leave(t) \/ Finish(t) \/ ClearSlot(t)
            \/ ExchangeState(t) \/ ReleaseSelf(t) \/ EndThread(t) \/ Callback(t)
            \/ JoinCheck(t) \/ JoinWait(t) \/ DetachState(t) \/ Reap(t)

Next == \E t \in Threads : Calls(t) \/ Steps(t) \/ BodyReturns(t) \/ ForeignReturns(t)

Spec == Init /\ [][Next]_vars

-----------------------------------------------------------------------------
(* Properties *)

\* Each record is in the slot of its own thread only, only pthread_create's threads
\* have handles, and the states are those of the code's enum.
TypeOK ==
  /\ self_slot \in Threads \cup {Unset} /\ indices \subseteq Threads
  /\ open \subseteq Children
  /\ \A t \in Threads :
       /\ fls[t] \in {t, None} \cup (IF t \in noslot THEN {Spare} ELSE {})
       /\ mem[t] \in {"none", "live", "freed"}
       /\ handle[t] \in {None, "set"}
       /\ state[t] \in {None, "JOINABLE", "DETACHED", "EXITED"}
       /\ os[t] \in {"none", "suspended", "running", "ended"}
       /\ home[t] \in {"body", "destructors", "leave", "callback"}
       /\ target[t] \in Threads \cup {None}

\* The records that the next step of a thread reads, writes or frees.
Touches(t) ==
  {r \in Threads :
     \/ r = target[t] /\ at[t] \in {"CreateThread", "handle", "resume",
                                   "join", "wait", "reap", "detach"}
     \/ r = t /\ at[t] \in {"start", "finish", "exchange", "release"}
     \/ r = fls[t]}

\* No running thread reaches a record that was freed: not the creator while the
\* thread may exit, not the thread while it is joined or detached, not two threads
\* that would each free it, and not through the slot.
NoUseAfterFree ==
  \A t \in Threads :
    os[t] = "running" => /\ \A r \in Touches(t) : mem[r] = "live"
                         /\ fls[t] = Spare => spare[t] = "live"

\* The thread is detached, or the call that joins or detaches it is over.
Settled(t) == /\ t \notin joinable
              /\ \A s \in Threads : target[s] # t

\* pthread_exit found no record with a handle in the slot, thread_start's FlsSetValue
\* having failed, and skipped `finish`.
Skipped(t) == t \in noslot /\ ~result[t]

\* A thread that ended and is settled leaves neither record nor handle behind,
\* whichever side of the exchange of its state the detach came on. There are two
\* exceptions, both of a thread whose record did not get into its slot: detached, it
\* left by pthread_exit, and nobody frees its record; or it was given a second one, its
\* routine returned, and `finish` cleared the slot that had it.
NothingLeaks ==
  \A t \in Threads :
    ~exiting /\ os[t] = "ended" /\ Settled(t) =>
      /\ mem[t] = "live" \/ t \in open => Skipped(t) /\ state[t] = "DETACHED"
      /\ spare[t] = "live" => t \in noslot /\ result[t]

\* The record of another thread is taken over only after that thread has run its
\* destructors, made its last access and stored its result: pthread_join's read of
\* t->result is of the value the thread left. The result of a thread that left by a
\* pthread_exit that skipped `finish` is not stored; that one has ended altogether.
TakenWhenDone ==
  \A t \in Threads :
    os[t] = "running" /\ at[t] = "reap" =>
      /\ at[target[t]] = "ExitThread"
      /\ result[target[t]] \/ (Skipped(target[t]) /\ os[target[t]] = "ended")

\* One index holds the records, and the allocations that lost the race are freed.
OneIndex ==
  /\ \A t \in Threads : fls[t] # None => self_slot # Unset
  /\ \A t \in indices : t = self_slot \/ at[t] = "publish"

=============================================================================
