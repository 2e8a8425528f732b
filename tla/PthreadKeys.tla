---------------------------- MODULE PthreadKeys -----------------------------
(* Thread-specific data in src/libc/lib/pthread_ext.c: pthread_key_create,    *)
(* _delete, _setspecific, and run_destructors, which every ending thread goes *)
(* through while the others go on creating and deleting keys. Keys are the    *)
(* kernel's TLS indices, which it hands out again once freed.                 *)
(*                                                                            *)
(* A key's generation tells the keys apart that had one index in turn; a      *)
(* value and a destructor are known by the generation of their key. What the  *)
(* code does under keys_lock is one step. A caller uses a key only while it   *)
(* exists, as POSIX asks; a destructor may create, delete and set keys too.   *)
EXTENDS Naturals, FiniteSets

CONSTANTS
  Threads,
  Enders,      \* the threads that end; the others live as long as the process
  KEYS,        \* the size of the library's tables
  TlsIndices,  \* how many indices the kernel has
  MaxCreate,   \* bounds the keys created
  DESTRUCTOR_PASSES

ASSUME EndersAssumption == Enders \subseteq Threads
ASSUME KeysAssumption == KEYS \in Nat /\ TlsIndices \in Nat /\ MaxCreate \in Nat
ASSUME PassesAssumption == DESTRUCTOR_PASSES \in Nat \ {0}

Indices == 0..(TlsIndices - 1)
Tables == 0..(KEYS - 1)
Generations == 1..MaxCreate

\* No value, no destructor, no key.
Null == 0

VARIABLES
  destructors,  \* per index: the destructor of its key, or Null
  live,         \* the indices with a key
  keys_end,
  allocated,    \* (kernel) the indices handed out
  value,        \* (kernel) per thread and index: the value in the slot, or Null
  key,          \* (history) the generation that has the index
  born,         \* (history) the keys created so far
  at,           \* where each thread is
  loop,         \* the locals of its run_destructors
  index         \* the index its key_create or key_delete is about

tables == <<destructors, live, keys_end>>
vars == <<destructors, live, keys_end, allocated, value, key, born, at, loop, index>>

\* end and ran of the pass, its number and index, the destructor and value in hand.
Fresh == [pass |-> 0, ran |-> TRUE, end |-> 0, k |-> 0, destructor |-> Null, val |-> Null]

Init == /\ destructors = [k \in Tables |-> Null]
        /\ live = {} /\ keys_end = 0
        /\ allocated = {}
        /\ value = [t \in Threads |-> [k \in Indices |-> Null]]
        /\ key = [k \in Indices |-> Null]
        /\ born = 0
        /\ at = [t \in Threads |-> "body"]
        /\ loop = [t \in Threads |-> Fresh]
        /\ index = [t \in Threads |-> Null]

Go(t, l) == at' = [at EXCEPT ![t] = l]

\* The client's code runs, the thread's own or a destructor's.
InClient(t) == at[t] \in {"body", "destructor"}

\* Where a call made at l returns to: a thread whose loop has not begun is in its body.
Home(t) == IF loop[t] = Fresh THEN "body" ELSE "destructor"

-----------------------------------------------------------------------------
(* pthread_key_create, pthread_key_delete, pthread_setspecific *)

\* The kernel hands out a free index, its slot null in every thread.
TlsAlloc(t) ==
  /\ InClient(t)
  /\ born < MaxCreate
  /\ \E k \in Indices \ allocated :
       /\ \A j \in Indices \ allocated : k <= j
       /\ allocated' = allocated \cup {k}
       /\ value' = [s \in Threads |-> [value[s] EXCEPT ![k] = Null]]
       /\ key' = [key EXCEPT ![k] = born + 1]
       /\ index' = [index EXCEPT ![t] = k]
  /\ born' = born + 1
  /\ Go(t, "create")
  /\ UNCHANGED <<tables, loop>>

\* An index beyond the tables goes back; another gets its entries. The key may
\* have no destructor.
KeyCreate(t) ==
  /\ at[t] = "create"
  /\ LET k == index[t] IN
       IF k >= KEYS
         THEN allocated' = allocated \ {k} /\ key' = [key EXCEPT ![k] = Null] /\ UNCHANGED tables
         ELSE /\ \E d \in {Null, key[k]} : destructors' = [destructors EXCEPT ![k] = d]
              /\ live' = live \cup {k}
              /\ keys_end' = IF k >= keys_end THEN k + 1 ELSE keys_end
              /\ UNCHANGED <<allocated, key>>
  /\ Go(t, Home(t))
  /\ index' = [index EXCEPT ![t] = Null]
  /\ UNCHANGED <<value, born, loop>>

\* The entries are cleared; a key that is not live is refused.
KeyDelete(t) ==
  /\ InClient(t)
  /\ \E k \in Tables :
       /\ live' = live \ {k}
       /\ destructors' = [destructors EXCEPT ![k] = Null]
       /\ IF k \in live THEN index' = [index EXCEPT ![t] = k] /\ Go(t, "delete")
                        ELSE UNCHANGED <<index, at>>
  /\ UNCHANGED <<keys_end, allocated, value, key, born, loop>>

\* TlsFree: the index may be handed out again.
TlsFree(t) ==
  /\ at[t] = "delete"
  /\ allocated' = allocated \ {index[t]}
  /\ key' = [key EXCEPT ![index[t]] = Null]
  /\ index' = [index EXCEPT ![t] = Null]
  /\ Go(t, Home(t))
  /\ UNCHANGED <<tables, value, born, loop>>

\* A value set is known by its key.
SetSpecific(t) ==
  /\ InClient(t)
  /\ \E k \in live, set \in BOOLEAN : value' = [value EXCEPT ![t][k] = IF set THEN key[k] ELSE Null]
  /\ UNCHANGED <<tables, allocated, key, born, at, loop, index>>

-----------------------------------------------------------------------------
(* run_destructors *)

\* Variant: passes go on as long as a destructor runs.
MoreWhileRan(l) == l.ran

\* The loop ends after a pass that ran nothing, or after the last.
More(l) == l.ran /\ l.pass < DESTRUCTOR_PASSES

\* The locals as a pass begins, and as the loop goes on to the next key.
NewPass(l, end) == [l EXCEPT !.ran = FALSE, !.end = end, !.k = 0]
NextKey(l, ran) == [l EXCEPT !.ran = ran, !.k = l.k + 1, !.destructor = Null, !.val = Null]

\* Variant: the end of the keys is read once, before the first pass.
BeginPassOldEnd(t) ==
  /\ t \in Enders
  /\ at[t] \in {"body", "pass"}
  /\ More(loop[t])
  /\ loop' = [loop EXCEPT
       ![t] = NewPass(loop[t], IF at[t] = "body" THEN keys_end ELSE loop[t].end)]
  /\ Go(t, "scan")
  /\ UNCHANGED <<tables, allocated, value, key, born, index>>

\* A thread at the end of its body, or of a pass, starts the next one.
BeginPass(t) ==
  /\ t \in Enders
  /\ at[t] \in {"body", "pass"}
  /\ More(loop[t])
  /\ loop' = [loop EXCEPT ![t] = NewPass(loop[t], keys_end)]
  /\ Go(t, "scan")
  /\ UNCHANGED <<tables, allocated, value, key, born, index>>

EndPass(t) ==
  /\ at[t] = "scan"
  /\ loop[t].k >= loop[t].end
  /\ loop' = [loop EXCEPT ![t].pass = @ + 1]
  /\ Go(t, "pass")
  /\ UNCHANGED <<tables, allocated, value, key, born, index>>

ReadDestructor(t) ==
  /\ at[t] = "scan"
  /\ loop[t].k < loop[t].end
  /\ LET d == destructors[loop[t].k] IN
       IF d = Null THEN loop' = [loop EXCEPT ![t] = NextKey(@, @.ran)] /\ UNCHANGED at
                   ELSE loop' = [loop EXCEPT ![t].destructor = d] /\ Go(t, "get")
  /\ UNCHANGED <<tables, allocated, value, key, born, index>>

GetValue(t) ==
  /\ at[t] = "get"
  /\ LET v == value[t][loop[t].k] IN
       IF v = Null
         THEN loop' = [loop EXCEPT ![t] = NextKey(@, @.ran)] /\ Go(t, "scan")
         ELSE loop' = [loop EXCEPT ![t].val = v] /\ Go(t, "clear")
  /\ UNCHANGED <<tables, allocated, value, key, born, index>>

\* Variant: the destructor called is the one the table has by now.
ClearAndReload(t) ==
  /\ at[t] = "clear"
  /\ value' = [value EXCEPT ![t][loop[t].k] = Null]
  /\ loop' = [loop EXCEPT ![t].destructor = destructors[loop[t].k]]
  /\ Go(t, "destructor")
  /\ UNCHANGED <<tables, allocated, key, born, index>>

\* The slot is cleared before the destructor gets the value.
ClearValue(t) ==
  /\ at[t] = "clear"
  /\ value' = [value EXCEPT ![t][loop[t].k] = Null]
  /\ Go(t, "destructor")
  /\ UNCHANGED <<tables, allocated, key, born, loop, index>>

\* Variant: the loop stays at the key whose destructor ran.
ReturnToKey(t) ==
  /\ at[t] = "destructor"
  /\ loop' = [loop EXCEPT ![t].ran = TRUE, ![t].destructor = Null, ![t].val = Null]
  /\ Go(t, "scan")
  /\ UNCHANGED <<tables, allocated, value, key, born, index>>

\* The destructor returns.
DestructorReturns(t) ==
  /\ at[t] = "destructor"
  /\ loop' = [loop EXCEPT ![t] = NextKey(@, TRUE)]
  /\ Go(t, "scan")
  /\ UNCHANGED <<tables, allocated, value, key, born, index>>

\* The thread ends, and its slots with it.
End(t) ==
  /\ at[t] = "pass"
  /\ ~More(loop[t])
  /\ value' = [value EXCEPT ![t] = [k \in Indices |-> Null]]
  /\ loop' = [loop EXCEPT ![t] = Fresh]
  /\ Go(t, "ended")
  /\ UNCHANGED <<tables, allocated, key, born, index>>

Ended == (\A t \in Enders : at[t] = "ended") /\ UNCHANGED vars

-----------------------------------------------------------------------------
Client(t) == TlsAlloc(t) \/ KeyDelete(t) \/ SetSpecific(t)

Loop(t) == \/ EndPass(t) \/ ReadDestructor(t) \/ GetValue(t) \/ ClearValue(t)
           \/ DestructorReturns(t) \/ End(t) \/ (at[t] = "pass" /\ BeginPass(t))

Next == \/ \E t \in Threads : \/ Client(t) \/ KeyCreate(t) \/ TlsFree(t)
                              \/ BeginPass(t) \/ Loop(t)
        \/ Ended

\* A thread that has begun to end goes on, and the client's destructors return.
Fairness == \A t \in Threads : WF_vars(Loop(t)) /\ WF_vars(KeyCreate(t) \/ TlsFree(t))

Spec == Init /\ [][Next]_vars /\ Fairness

-----------------------------------------------------------------------------
(* Properties *)

\* The tables are indexed within KEYS, also by a loop whose end was read before keys
\* were created or deleted, and no more than DESTRUCTOR_PASSES passes are made.
TypeOK ==
  /\ live \subseteq Tables /\ keys_end \in 0..KEYS
  /\ allocated \subseteq Indices /\ born \in 0..MaxCreate
  /\ \A k \in Tables : destructors[k] \in {Null} \cup Generations
  /\ \A t \in Threads : /\ \A k \in Indices : value[t][k] \in {Null} \cup Generations
                        /\ loop[t].end \in 0..KEYS /\ loop[t].k \in 0..KEYS
                        /\ loop[t].pass \in 0..DESTRUCTOR_PASSES

\* A destructor is called with a value of its own key, although the index may be
\* deleted and handed to another key between any two steps of the loop.
DestructorOwnValue ==
  \A t \in Threads : at[t] = "destructor" => loop[t].destructor = loop[t].val

\* A thread whose last pass ran nothing ends with no value left that has a
\* destructor, whatever keys its destructors created and set.
NoneLeftBehind ==
  \A t \in Threads : at[t] = "pass" /\ ~loop[t].ran =>
    \A k \in live : destructors[k] # Null => value[t][k] = Null

\* A thread that begins to end does end, although destructors set values anew.
LoopEnds == \A t \in Threads : (at[t] = "scan") ~> (at[t] = "ended")

=============================================================================
