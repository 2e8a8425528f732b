-------------------------- MODULE PthreadKeysProofs --------------------------
(* Proofs about thread-specific data, for any threads, any sizes of the       *)
(* tables and any number of passes: what run_destructors calls, with what,    *)
(* and what it leaves behind, while keys come and go.                         *)
EXTENDS PthreadKeys, TLAPS

Values == {Null} \cup Generations

LoopType == [pass : 0..DESTRUCTOR_PASSES, ran : BOOLEAN, end : 0..KEYS, k : 0..KEYS,
             destructor : Values, val : Values]

\* Where a thread is in key_create or key_delete, and in run_destructors.
Busy == {"create", "delete"}
InLoop == {"scan", "get", "clear", "destructor"}

Types ==
  /\ destructors \in [Tables -> Values]
  /\ live \subseteq Tables
  /\ keys_end \in 0..KEYS
  /\ allocated \subseteq Indices
  /\ value \in [Threads -> [Indices -> Values]]
  /\ key \in [Indices -> Values]
  /\ born \in 0..MaxCreate
  /\ at \in [Threads -> {"body", "pass", "ended"} \cup Busy \cup InLoop]
  /\ loop \in [Threads -> LoopType]
  /\ index \in [Threads -> Nat]

\* The tables know only the key that has the index, and no slot of an index in use
\* has the value of an earlier one.
TableInv ==
  /\ live \subseteq allocated
  /\ \A k \in live : k < keys_end
  /\ \A k \in Tables : destructors[k] # Null => k \in live /\ destructors[k] = key[k]
  /\ \A t \in Threads : \A k \in allocated : value[t][k] \in {Null, key[k]}

\* An index between the kernel and the tables is in one thread's hands.
HandInv(t) ==
  at[t] \in Busy =>
    /\ index[t] \in allocated
    /\ index[t] \notin live
    /\ at[t] = "create" => \A s \in Threads : value[s][index[t]] = Null
    /\ \A s \in Threads : at[s] \in Busy /\ index[s] = index[t] => s = t

\* Index j has no value of thread t that a destructor waits for.
Clean(t, j) == j \in live /\ destructors[j] # Null => value[t][j] = Null

\* A destructor and a value are in the loop's hands.
Calling(l) == /\ l.k < l.end /\ l.k \in Indices
              /\ l.pass < DESTRUCTOR_PASSES
              /\ l.destructor # Null
              /\ l.val = l.destructor

LoopInv(t) ==
  /\ at[t] \in {"body", "ended"} => loop[t] = Fresh
  /\ at[t] \in Busy => loop[t] = Fresh \/ Calling(loop[t])
  /\ at[t] \in {"scan", "get"} =>
       /\ loop[t].k <= loop[t].end
       /\ loop[t].pass < DESTRUCTOR_PASSES
       /\ ~loop[t].ran => \A j \in Tables : j < loop[t].k \/ j >= loop[t].end => Clean(t, j)
  /\ at[t] = "get" =>
       /\ loop[t].k < loop[t].end /\ loop[t].k \in Indices
       /\ loop[t].destructor # Null
       /\ value[t][loop[t].k] \in {Null, loop[t].destructor}
  /\ at[t] \in {"clear", "destructor"} => Calling(loop[t])
  /\ at[t] = "pass" /\ ~loop[t].ran => \A j \in Tables : Clean(t, j)

IndInv == Types /\ TableInv /\ \A t \in Threads : HandInv(t) /\ LoopInv(t)

\* The state a behaviour starts in satisfies the invariant.
LEMMA IndInvInit == Init => IndInv
<1> SUFFICES ASSUME Init PROVE IndInv
  OBVIOUS
<1>1. Fresh \in LoopType
  BY KeysAssumption, PassesAssumption DEF Fresh, LoopType, Values, Null
<1>2. Types
  BY <1>1, KeysAssumption DEF Init, Types, Values, Null, Busy, InLoop
<1>3. TableInv
  BY DEF Init, TableInv, Null, Tables
<1>4. ASSUME NEW t \in Threads PROVE HandInv(t) /\ LoopInv(t)
  BY DEF Init, HandInv, LoopInv, Busy
<1> QED
  BY <1>2, <1>3, <1>4 DEF IndInv

-----------------------------------------------------------------------------
(* The locals of the loop *)

\* A pass begins: ran and k start anew, and end is read.
LEMMA AtNewPass ==
  ASSUME NEW l \in LoopType, NEW e \in 0..KEYS
  PROVE  /\ NewPass(l, e) \in LoopType
         /\ NewPass(l, e).ran = FALSE /\ NewPass(l, e).end = e
         /\ NewPass(l, e).k = 0 /\ NewPass(l, e).pass = l.pass
<1> USE DEF NewPass, LoopType
<1>1. 0 \in 0..KEYS
  BY KeysAssumption
<1>2. NewPass(l, e) \in LoopType
  BY <1>1
<1>3. NewPass(l, e).ran = FALSE
  OBVIOUS
<1>4. NewPass(l, e).end = e
  OBVIOUS
<1>5. NewPass(l, e).k = 0 /\ NewPass(l, e).pass = l.pass
  OBVIOUS
<1> QED
  BY <1>2, <1>3, <1>4, <1>5

\* The loop goes on to the next key, below its end, nothing in hand.
LEMMA AtNextKey ==
  ASSUME NEW l \in LoopType, NEW r \in BOOLEAN, l.k < l.end
  PROVE  /\ NextKey(l, r) \in LoopType
         /\ NextKey(l, r).ran = r /\ NextKey(l, r).k = l.k + 1
         /\ NextKey(l, r).end = l.end /\ NextKey(l, r).pass = l.pass
<1> DEFINE j == l.k + 1
<1>1. j \in 0..KEYS /\ Null \in Values
  BY KeysAssumption DEF LoopType, Values
<1>2. NextKey(l, r) = [l EXCEPT !.ran = r, !.k = j, !.destructor = Null, !.val = Null]
  BY DEF NextKey
<1> HIDE DEF j
<1> USE DEF LoopType
<1>3. NextKey(l, r) \in LoopType
  BY <1>1, <1>2
<1>4. NextKey(l, r).ran = r
  BY <1>2
<1>5. NextKey(l, r).k = j
  BY <1>2
<1>6. NextKey(l, r).end = l.end /\ NextKey(l, r).pass = l.pass
  BY <1>2
<1> QED
  BY <1>3, <1>4, <1>5, <1>6 DEF j

-----------------------------------------------------------------------------
(* run_destructors *)

\* The other threads do not notice a step of a thread's loop.
LEMMA LoopStep ==
  ASSUME IndInv, NEW t \in Threads, at[t] \notin Busy,
         UNCHANGED <<tables, allocated, value, key, born, index>>,
         NEW p \in InLoop \cup {"pass"}, Go(t, p),
         loop' \in [Threads -> LoopType], \A s \in Threads \ {t} : loop'[s] = loop[s],
         LoopInv(t)'
  PROVE  IndInv'
<1>1. Types'
  BY DEF IndInv, Types, Go, tables
<1>2. TableInv'
  BY DEF IndInv, TableInv, tables
<1>3. at'[t] = p /\ p \notin Busy /\ \A s \in Threads \ {t} : at'[s] = at[s]
  BY DEF IndInv, Types, Go, Busy, InLoop
<1>4. ASSUME NEW s \in Threads PROVE HandInv(s)'
  BY <1>3 DEF IndInv, HandInv, tables
<1>5. ASSUME NEW s \in Threads PROVE LoopInv(s)'
  <2>1. CASE s = t
    BY <2>1
  <2>2. CASE s # t
    BY <1>3, <2>2 DEF IndInv, LoopInv, tables, Clean
  <2> QED
    BY <2>1, <2>2
<1> QED
  BY <1>1, <1>2, <1>4, <1>5 DEF IndInv

\* A pass that begins has nothing behind it, and no key beyond its end.
LEMMA BeginPassInv == ASSUME IndInv, NEW t \in Threads, BeginPass(t) PROVE IndInv'
<1>1. /\ loop \in [Threads -> LoopType] /\ keys_end \in 0..KEYS
      /\ at \in [Threads -> {"body", "pass", "ended"} \cup Busy \cup InLoop]
  BY DEF IndInv, Types
<1>2. loop[t] \in LoopType /\ More(loop[t])
  BY <1>1 DEF BeginPass
<1>3. /\ loop' \in [Threads -> LoopType]
      /\ \A s \in Threads \ {t} : loop'[s] = loop[s]
      /\ loop'[t].ran = FALSE /\ loop'[t].end = keys_end /\ loop'[t].k = 0
      /\ loop'[t].pass = loop[t].pass
  BY <1>1, <1>2, AtNewPass DEF BeginPass
<1>4. at'[t] = "scan" /\ at[t] \notin Busy
  BY <1>1 DEF BeginPass, Go, Busy
<1>5. \A j \in Tables : j >= keys_end \/ j < 0 => Clean(t, j)'
  BY DEF IndInv, TableInv, Clean, BeginPass, tables, Tables, Types
<1>6. LoopInv(t)'
  BY <1>1, <1>2, <1>3, <1>4, <1>5 DEF LoopInv, More, BeginPass, tables, Busy
<1> QED
  BY <1>3, <1>4, <1>6, LoopStep DEF BeginPass, InLoop

\* A pass has come to its end, which was read when it began.
LEMMA EndPassInv == ASSUME IndInv, NEW t \in Threads, EndPass(t) PROVE IndInv'
<1>1. /\ loop \in [Threads -> LoopType]
      /\ at \in [Threads -> {"body", "pass", "ended"} \cup Busy \cup InLoop]
      /\ LoopInv(t)
  BY DEF IndInv, Types
<1>2. loop[t] \in LoopType /\ loop[t].k \in Nat /\ loop[t].end \in Nat
  BY <1>1, KeysAssumption DEF LoopType
<1>2a. loop[t].k <= loop[t].end /\ loop[t].pass < DESTRUCTOR_PASSES /\ loop[t].k >= loop[t].end
  BY <1>1 DEF EndPass, LoopInv
<1>3. /\ loop' \in [Threads -> LoopType]
      /\ \A s \in Threads \ {t} : loop'[s] = loop[s]
      /\ loop'[t].ran = loop[t].ran
  BY <1>1, <1>2, <1>2a, PassesAssumption DEF EndPass, LoopType
<1>4. at'[t] = "pass" /\ at[t] \notin Busy
  BY <1>1 DEF EndPass, Go, Busy
<1>5. ~loop[t].ran => \A j \in Tables : Clean(t, j)'
  BY <1>1, <1>2, <1>2a, KeysAssumption DEF LoopInv, EndPass, Clean, Tables, LoopType, tables
<1>6. LoopInv(t)'
  BY <1>3, <1>4, <1>5 DEF LoopInv, Busy
<1> QED
  BY <1>3, <1>4, <1>6, LoopStep DEF EndPass, InLoop

\* What the table has is the destructor of the key that has the index, which is also
\* the key of the value in the slot.
LEMMA ReadDestructorInv == ASSUME IndInv, NEW t \in Threads, ReadDestructor(t) PROVE IndInv'
<1>1. /\ loop \in [Threads -> LoopType]
      /\ at \in [Threads -> {"body", "pass", "ended"} \cup Busy \cup InLoop]
      /\ destructors \in [Tables -> Values] /\ live \subseteq Tables /\ allocated \subseteq Indices
      /\ LoopInv(t) /\ TableInv
  BY DEF IndInv, Types
<1> DEFINE k == loop[t].k
<1>2. loop[t] \in LoopType /\ k < loop[t].end /\ k \in Tables /\ k + 1 \in 0..KEYS
  BY <1>1, KeysAssumption DEF ReadDestructor, LoopInv, LoopType, Tables
<1>3. loop[t].pass < DESTRUCTOR_PASSES /\ at[t] = "scan" /\ at[t] \notin Busy
  BY <1>1 DEF ReadDestructor, LoopInv, Busy
<1>4. CASE destructors[k] = Null
  <2>1. /\ loop' \in [Threads -> LoopType]
        /\ \A s \in Threads \ {t} : loop'[s] = loop[s]
        /\ loop'[t].ran = loop[t].ran /\ loop'[t].k = k + 1 /\ loop'[t].end = loop[t].end
        /\ loop'[t].pass = loop[t].pass
    BY <1>1, <1>2, <1>4, AtNextKey, loop[t].ran \in BOOLEAN DEF ReadDestructor, LoopType
  <2>2. at' = at /\ Go(t, "scan")
    BY <1>1, <1>3, <1>4 DEF ReadDestructor, Go
  <2>3. /\ destructors'[k] = Null
        /\ UNCHANGED <<destructors, live, value>>
    BY <1>4 DEF ReadDestructor, tables
  <2>4. ASSUME ~loop[t].ran, NEW j \in Tables, j < k + 1 \/ j >= loop[t].end
        PROVE  Clean(t, j)'
    <3>1. k \in Nat /\ j \in Nat
      BY <1>2 DEF Tables
    <3>2. j = k \/ j < k \/ j >= loop[t].end
      BY <2>4, <3>1
    <3>3. j # k => Clean(t, j)
      BY <1>1, <1>3, <2>4, <3>2 DEF LoopInv
    <3> QED
      BY <2>3, <3>3 DEF Clean
  <2>5. LoopInv(t)'
    BY <1>1, <1>2, <1>3, <2>1, <2>2, <2>4 DEF LoopInv, Busy, LoopType
  <2> QED
    BY <1>3, <2>1, <2>2, <2>5, LoopStep DEF ReadDestructor, InLoop
<1>5. CASE destructors[k] # Null
  <2>1. k \in live /\ k \in Indices /\ value[t][k] \in {Null, destructors[k]}
    BY <1>1, <1>2, <1>5 DEF TableInv
  <2>2. /\ loop' \in [Threads -> LoopType]
        /\ \A s \in Threads \ {t} : loop'[s] = loop[s]
        /\ loop'[t].ran = loop[t].ran /\ loop'[t].k = k /\ loop'[t].end = loop[t].end
        /\ loop'[t].pass = loop[t].pass /\ loop'[t].destructor = destructors[k]
    BY <1>1, <1>2, <1>5 DEF ReadDestructor, LoopType
  <2>3. at'[t] = "get" /\ Go(t, "get")
    BY <1>1, <1>5 DEF ReadDestructor, Go
  <2>4. ~loop[t].ran => \A j \in Tables : j < k \/ j >= loop[t].end => Clean(t, j)'
    BY <1>1, <1>3 DEF LoopInv, Clean, ReadDestructor, tables
  <2>5. LoopInv(t)'
    BY <1>1, <1>2, <1>3, <1>5, <2>1, <2>2, <2>3, <2>4
    DEF LoopInv, Busy, LoopType, ReadDestructor
  <2> QED
    BY <1>3, <2>2, <2>3, <2>5, LoopStep DEF ReadDestructor, InLoop
<1> QED
  BY <1>4, <1>5

\* The value is read; a slot without one is passed over.
LEMMA GetValueInv == ASSUME IndInv, NEW t \in Threads, GetValue(t) PROVE IndInv'
<1>1. /\ loop \in [Threads -> LoopType]
      /\ at \in [Threads -> {"body", "pass", "ended"} \cup Busy \cup InLoop]
      /\ value \in [Threads -> [Indices -> Values]]
      /\ UNCHANGED <<destructors, live, value>>
      /\ LoopInv(t) /\ TableInv
  BY DEF IndInv, Types, GetValue, tables
<1> DEFINE k == loop[t].k
<1>2. loop[t] \in LoopType /\ k \in 0..KEYS /\ loop[t].end \in 0..KEYS /\ loop[t].ran \in BOOLEAN
  BY <1>1 DEF LoopType
<1>3. /\ at[t] = "get" /\ at[t] \notin Busy
      /\ k \in Indices /\ k < loop[t].end /\ loop[t].pass < DESTRUCTOR_PASSES
      /\ loop[t].destructor # Null /\ value[t][k] \in {Null, loop[t].destructor}
  BY <1>1 DEF GetValue, LoopInv, Busy
<1>4. CASE value[t][k] = Null
  <2>1. /\ loop' \in [Threads -> LoopType]
        /\ \A s \in Threads \ {t} : loop'[s] = loop[s]
        /\ loop'[t].ran = loop[t].ran /\ loop'[t].k = k + 1 /\ loop'[t].end = loop[t].end
        /\ loop'[t].pass = loop[t].pass
    BY <1>1, <1>2, <1>3, <1>4, AtNextKey DEF GetValue
  <2>2. at'[t] = "scan" /\ Go(t, "scan")
    BY <1>1, <1>4 DEF GetValue, Go
  <2>3. ASSUME ~loop[t].ran, NEW j \in Tables, j < k + 1 \/ j >= loop[t].end
        PROVE  Clean(t, j)'
    <3>1. j = k \/ j < k \/ j >= loop[t].end
      BY <1>2, <2>3, KeysAssumption DEF Tables
    <3>2. j # k => Clean(t, j)
      BY <1>1, <1>3, <2>3, <3>1 DEF LoopInv
    <3> QED
      BY <1>1, <1>4, <3>2 DEF Clean
  <2>4. LoopInv(t)'
    BY <1>2, <1>3, <2>1, <2>2, <2>3, KeysAssumption DEF LoopInv, Busy
  <2> QED
    BY <1>3, <2>1, <2>2, <2>4, LoopStep DEF GetValue, InLoop
<1>5. CASE value[t][k] # Null
  <2>1. /\ loop' \in [Threads -> LoopType]
        /\ \A s \in Threads \ {t} : loop'[s] = loop[s]
        /\ loop'[t].k = k /\ loop'[t].end = loop[t].end /\ loop'[t].val = value[t][k]
        /\ loop'[t].pass = loop[t].pass /\ loop'[t].destructor = loop[t].destructor
    BY <1>1, <1>2, <1>3, <1>5 DEF GetValue, LoopType
  <2>2. at'[t] = "clear" /\ Go(t, "clear")
    BY <1>1, <1>5 DEF GetValue, Go
  <2>3. LoopInv(t)'
    BY <1>3, <1>5, <2>1, <2>2 DEF LoopInv, Busy, Calling
  <2> QED
    BY <1>3, <2>1, <2>2, <2>3, LoopStep DEF GetValue, InLoop
<1> QED
  BY <1>4, <1>5

\* The destructor returns, and the loop goes on to the next index.
LEMMA DestructorReturnsInv ==
  ASSUME IndInv, NEW t \in Threads, DestructorReturns(t) PROVE IndInv'
<1>1. /\ loop \in [Threads -> LoopType]
      /\ at \in [Threads -> {"body", "pass", "ended"} \cup Busy \cup InLoop]
      /\ LoopInv(t)
  BY DEF IndInv, Types
<1>2. loop[t] \in LoopType /\ loop[t].k \in 0..KEYS /\ loop[t].end \in 0..KEYS
  BY <1>1 DEF LoopType
<1>3. /\ at[t] = "destructor" /\ at[t] \notin Busy
      /\ loop[t].k < loop[t].end /\ loop[t].pass < DESTRUCTOR_PASSES
  BY <1>1 DEF DestructorReturns, LoopInv, Busy, Calling
<1>4. /\ loop' \in [Threads -> LoopType]
      /\ \A s \in Threads \ {t} : loop'[s] = loop[s]
      /\ loop'[t].ran = TRUE /\ loop'[t].k = loop[t].k + 1 /\ loop'[t].end = loop[t].end
      /\ loop'[t].pass = loop[t].pass
  BY <1>1, <1>2, <1>3, AtNextKey DEF DestructorReturns
<1>5. at'[t] = "scan" /\ Go(t, "scan")
  BY <1>1 DEF DestructorReturns, Go
<1>6. LoopInv(t)'
  BY <1>2, <1>3, <1>4, <1>5, KeysAssumption DEF LoopInv, Busy
<1> QED
  BY <1>3, <1>4, <1>5, <1>6, LoopStep DEF DestructorReturns, InLoop

-----------------------------------------------------------------------------
(* Steps that the loops of other threads meet *)

\* A thread that takes no part in a step loses no value that its loop knows of, but
\* may find a slot emptied.
LEMMA OtherLoop ==
  ASSUME NEW s \in Threads, LoopInv(s),
         at'[s] = at[s], loop'[s] = loop[s],
         \A j \in Tables : Clean(s, j) => Clean(s, j)',
         \A j \in Indices : value'[s][j] \in {value[s][j], Null}
  PROVE  LoopInv(s)'
  BY DEF LoopInv

\* The slot is cleared before its destructor is called.
LEMMA ClearValueInv == ASSUME IndInv, NEW t \in Threads, ClearValue(t) PROVE IndInv'
<1>1. Types /\ LoopInv(t) /\ TableInv /\ \A s \in Threads : HandInv(s) /\ LoopInv(s)
  BY DEF IndInv
<1>2. /\ at[t] = "clear" /\ at'[t] = "destructor" /\ loop[t].k \in Indices /\ Calling(loop[t])
      /\ \A s \in Threads \ {t} : at'[s] = at[s]
      /\ loop' = loop /\ index' = index
      /\ UNCHANGED <<destructors, live, keys_end, allocated, key, born>>
  BY <1>1 DEF ClearValue, Go, LoopInv, Calling, Types, tables
<1>3. /\ value' \in [Threads -> [Indices -> Values]]
      /\ \A s \in Threads : \A j \in Indices : value'[s][j] \in {value[s][j], Null}
  BY <1>1, <1>2 DEF ClearValue, Types, Values
<1>4. Types'
  BY <1>1, <1>2, <1>3 DEF Types, ClearValue, Go, InLoop
<1>5. TableInv'
  BY <1>1, <1>2, <1>3 DEF TableInv, Types
<1>6. ASSUME NEW s \in Threads PROVE HandInv(s)'
  BY <1>1, <1>2, <1>3 DEF HandInv, Types, Busy
<1>7. ASSUME NEW s \in Threads PROVE LoopInv(s)'
  <2>1. CASE s = t
    BY <1>2, <2>1 DEF LoopInv, Busy
  <2>2. CASE s # t
    <3>1. \A j \in Tables : Clean(s, j) => Clean(s, j)'
      BY <1>1, <1>2, <1>3 DEF Clean, TableInv, Types
    <3> QED
      BY <1>1, <1>2, <1>3, <2>2, <3>1, OtherLoop
  <2> QED
    BY <2>1, <2>2
<1> QED
  BY <1>4, <1>5, <1>6, <1>7 DEF IndInv

\* The thread ends after its last pass, and its slots with it.
LEMMA EndInv == ASSUME IndInv, NEW t \in Threads, End(t) PROVE IndInv'
<1>1. Types /\ LoopInv(t) /\ TableInv /\ \A s \in Threads : HandInv(s) /\ LoopInv(s)
  BY DEF IndInv
<1>2. /\ at[t] = "pass" /\ at'[t] = "ended" /\ loop'[t] = Fresh
      /\ \A s \in Threads \ {t} : at'[s] = at[s] /\ loop'[s] = loop[s]
      /\ index' = index
      /\ UNCHANGED <<destructors, live, keys_end, allocated, key, born>>
  BY <1>1 DEF End, Go, Types, tables
<1>3. /\ value' \in [Threads -> [Indices -> Values]]
      /\ \A s \in Threads : \A j \in Indices : value'[s][j] \in {value[s][j], Null}
  BY <1>1, <1>2 DEF End, Types, Values
<1>4. Fresh \in LoopType
  BY KeysAssumption, PassesAssumption DEF Fresh, LoopType, Values, Null
<1>5. Types'
  BY <1>1, <1>2, <1>3, <1>4 DEF Types, End, Go
<1>6. TableInv'
  BY <1>1, <1>2, <1>3 DEF TableInv, Types
<1>7. ASSUME NEW s \in Threads PROVE HandInv(s)'
  BY <1>1, <1>2, <1>3 DEF HandInv, Types, Busy
<1>8. ASSUME NEW s \in Threads PROVE LoopInv(s)'
  <2>1. CASE s = t
    BY <1>2, <2>1 DEF LoopInv, Busy
  <2>2. CASE s # t
    <3>1. \A j \in Tables : Clean(s, j) => Clean(s, j)'
      BY <1>1, <1>2, <1>3 DEF Clean, TableInv, Types
    <3> QED
      BY <1>1, <1>2, <1>3, <2>2, <3>1, OtherLoop
  <2> QED
    BY <2>1, <2>2
<1> QED
  BY <1>5, <1>6, <1>7, <1>8 DEF IndInv

\* The kernel empties the slots of the index it hands out, in every thread.
LEMMA TlsAllocInv == ASSUME IndInv, NEW t \in Threads, TlsAlloc(t) PROVE IndInv'
<1>1. Types /\ TableInv /\ \A s \in Threads : HandInv(s) /\ LoopInv(s)
  BY DEF IndInv
<1>2. PICK k \in Indices \ allocated :
        /\ allocated' = allocated \cup {k}
        /\ value' = [s \in Threads |-> [value[s] EXCEPT ![k] = Null]]
        /\ key' = [key EXCEPT ![k] = born + 1]
        /\ index' = [index EXCEPT ![t] = k]
  BY DEF TlsAlloc
<1>3. /\ at[t] \in {"body", "destructor"} /\ at'[t] = "create" /\ index'[t] = k
      /\ \A s \in Threads \ {t} : at'[s] = at[s] /\ index'[s] = index[s]
      /\ UNCHANGED <<destructors, live, keys_end, loop>>
      /\ k \notin live /\ k \in Nat
  BY <1>1, <1>2 DEF TlsAlloc, InClient, Go, Types, TableInv, tables, Indices
<1>4. /\ value' \in [Threads -> [Indices -> Values]]
      /\ \A s \in Threads : /\ value'[s][k] = Null
                            /\ \A j \in Indices \ {k} : value'[s][j] = value[s][j]
  BY <1>1, <1>2 DEF Types, Values
<1>5. /\ key' \in [Indices -> Values]
      /\ \A j \in Indices \ {k} : key'[j] = key[j]
      /\ born' \in 0..MaxCreate
  BY <1>1, <1>2, KeysAssumption DEF Types, Values, Generations, TlsAlloc
<1>6. Types'
  BY <1>1, <1>2, <1>3, <1>4, <1>5 DEF Types, TlsAlloc, Go, Busy
<1>7. TableInv'
  BY <1>1, <1>2, <1>3, <1>4, <1>5 DEF TableInv, Types
<1>8. ASSUME NEW s \in Threads PROVE HandInv(s)'
  BY <1>1, <1>2, <1>3, <1>4 DEF HandInv, Types, Busy
<1>9. ASSUME NEW s \in Threads PROVE LoopInv(s)'
  <2>1. CASE s = t
    BY <1>1, <1>3, <2>1 DEF LoopInv, Busy
  <2>2. CASE s # t
    <3>1. ASSUME NEW j \in Tables, Clean(s, j) PROVE Clean(s, j)'
      <4>1. j \in live => j \in Indices \ {k}
        BY <1>1, <1>3 DEF TableInv, Types
      <4> QED
        BY <1>3, <1>4, <3>1, <4>1 DEF Clean
    <3> QED
      BY <1>1, <1>3, <1>4, <2>2, <3>1, OtherLoop
  <2> QED
    BY <2>1, <2>2
<1> QED
  BY <1>6, <1>7, <1>8, <1>9 DEF IndInv

\* A call made in a body returns to it, and one made in a destructor to that.
LEMMA HomeInv ==
  ASSUME NEW t \in Threads, at[t] \in Busy, LoopInv(t), loop'[t] = loop[t], at'[t] = Home(t)
  PROVE  LoopInv(t)'
<1>1. loop[t] = Fresh \/ Calling(loop[t])
  BY DEF LoopInv
<1>2. CASE loop[t] = Fresh
  BY <1>2 DEF LoopInv, Home, Busy
<1>3. CASE loop[t] # Fresh
  BY <1>1, <1>3 DEF LoopInv, Home, Busy
<1> QED
  BY <1>2, <1>3

\* A key that comes to life has null values in every thread.
LEMMA KeyCreateInv == ASSUME IndInv, NEW t \in Threads, KeyCreate(t) PROVE IndInv'
<1>1. Types /\ TableInv /\ \A s \in Threads : HandInv(s) /\ LoopInv(s)
  BY DEF IndInv
<1> DEFINE k == index[t]
<1>2. /\ at[t] = "create" /\ at'[t] = Home(t) /\ Home(t) \in {"body", "destructor"}
      /\ \A s \in Threads \ {t} : at'[s] = at[s] /\ index'[s] = index[s]
      /\ UNCHANGED <<value, born, loop>>
      /\ k \in allocated /\ k \notin live /\ k \in Indices /\ k \in Nat
      /\ \A s \in Threads : value[s][k] = Null
      /\ at' \in [Threads -> {"body", "pass", "ended"} \cup Busy \cup InLoop]
      /\ index' \in [Threads -> Nat]
  BY <1>1 DEF KeyCreate, Go, Types, HandInv, Busy, Home, InLoop, Null, Indices
<1>3. ASSUME NEW s \in Threads, \A j \in Tables : Clean(s, j) => Clean(s, j)'
      PROVE  LoopInv(s)'
  <2>1. CASE s = t
    BY <1>1, <1>2, <2>1, HomeInv DEF Busy
  <2>2. CASE s # t
    BY <1>1, <1>2, <1>3, <2>2, OtherLoop
  <2> QED
    BY <2>1, <2>2
<1>4. CASE k >= KEYS
  <2>1. allocated' = allocated \ {k} /\ key' = [key EXCEPT ![k] = Null] /\ UNCHANGED tables
    BY <1>4 DEF KeyCreate
  <2>2. UNCHANGED <<destructors, live, keys_end>>
    BY <2>1 DEF tables
  <2>3. Types'
    BY <1>1, <1>2, <2>1, <2>2 DEF Types, Values
  <2>4. TableInv'
    BY <1>1, <1>2, <2>1, <2>2 DEF TableInv, Types
  <2>5. ASSUME NEW s \in Threads PROVE HandInv(s)' /\ LoopInv(s)'
    <3>1. HandInv(s)'
      BY <1>1, <1>2, <2>1, <2>2 DEF HandInv, Types, Busy
    <3>2. \A j \in Tables : Clean(s, j) => Clean(s, j)'
      BY <1>2, <2>2 DEF Clean
    <3> QED
      BY <1>3, <3>1, <3>2
  <2> QED
    BY <2>3, <2>4, <2>5 DEF IndInv
<1>5. CASE ~(k >= KEYS)
  <2>1. PICK d \in {Null, key[k]} : destructors' = [destructors EXCEPT ![k] = d]
    BY <1>5 DEF KeyCreate
  <2>2. /\ live' = live \cup {k}
        /\ keys_end' = IF k >= keys_end THEN k + 1 ELSE keys_end
        /\ UNCHANGED <<allocated, key>>
        /\ k \in Tables
    BY <1>2, <1>5, KeysAssumption DEF KeyCreate, Tables
  <2>3. /\ keys_end' \in 0..KEYS /\ k < keys_end' /\ keys_end' >= keys_end
        /\ key[k] \in Values
    BY <1>1, <1>2, <1>5, <2>2, KeysAssumption DEF Types
  <2>4. Types'
    BY <1>1, <1>2, <2>1, <2>2, <2>3 DEF Types, Values
  <2>5. TableInv'
    <3>1. \A j \in live' : j < keys_end'
      BY <1>1, <2>2, <2>3, KeysAssumption DEF TableInv, Types, Tables
    <3> QED
      BY <1>1, <1>2, <2>1, <2>2, <3>1 DEF TableInv, Types
  <2>6. ASSUME NEW s \in Threads PROVE HandInv(s)' /\ LoopInv(s)'
    <3>1. HandInv(s)'
      BY <1>1, <1>2, <2>2 DEF HandInv, Types, Busy
    <3>2. \A j \in Tables : Clean(s, j) => Clean(s, j)'
      BY <1>1, <1>2, <2>1, <2>2 DEF Clean, Types
    <3> QED
      BY <1>3, <3>1, <3>2
  <2> QED
    BY <2>4, <2>5, <2>6 DEF IndInv
<1> QED
  BY <1>4, <1>5

\* pthread_key_delete takes the destructor out of the table.
LEMMA KeyDeleteInv == ASSUME IndInv, NEW t \in Threads, KeyDelete(t) PROVE IndInv'
<1>1. Types /\ TableInv /\ \A s \in Threads : HandInv(s) /\ LoopInv(s)
  BY DEF IndInv
<1>2. PICK k \in Tables :
        /\ live' = live \ {k}
        /\ destructors' = [destructors EXCEPT ![k] = Null]
        /\ IF k \in live THEN index' = [index EXCEPT ![t] = k] /\ Go(t, "delete")
                         ELSE UNCHANGED <<index, at>>
  BY DEF KeyDelete
<1>3a. /\ UNCHANGED <<keys_end, allocated, value, key, born, loop>>
       /\ at[t] \in {"body", "destructor"}
  BY DEF KeyDelete, InClient
<1>3. /\ \A s \in Threads \ {t} : at'[s] = at[s] /\ index'[s] = index[s]
      /\ k \in live => at'[t] = "delete" /\ index'[t] = k
      /\ k \notin live => at'[t] = at[t] /\ index'[t] = index[t]
      /\ index' \in [Threads -> Nat]
      /\ at' \in [Threads -> {"body", "pass", "ended"} \cup Busy \cup InLoop]
  <2>1. CASE k \in live
    <3>1. index' = [index EXCEPT ![t] = k] /\ at' = [at EXCEPT ![t] = "delete"] /\ k \in Nat
      BY <1>2, <2>1, KeysAssumption DEF Go, Tables
    <3> QED
      BY <1>1, <2>1, <3>1 DEF Types, Busy
  <2>2. CASE k \notin live
    BY <1>1, <1>2, <2>2 DEF Types
  <2> QED
    BY <2>1, <2>2
<1>4. Types'
  BY <1>1, <1>2, <1>3, <1>3a DEF Types, Values
<1>5. TableInv'
  BY <1>1, <1>2, <1>3, <1>3a DEF TableInv, Types
<1>6. ASSUME NEW s \in Threads PROVE HandInv(s)'
  BY <1>1, <1>2, <1>3, <1>3a DEF HandInv, Types, Busy, TableInv
<1>7. ASSUME NEW s \in Threads PROVE LoopInv(s)'
  <2>1. \A j \in Tables : Clean(s, j) => Clean(s, j)'
    BY <1>1, <1>2, <1>3, <1>3a DEF Clean, Types
  <2>2. CASE s = t /\ k \in live
    BY <1>1, <1>3, <1>3a, <2>2 DEF LoopInv, Busy
  <2>3. CASE s # t \/ k \notin live
    BY <1>1, <1>3, <1>3a, <2>1, <2>3, OtherLoop
  <2> QED
    BY <2>2, <2>3
<1> QED
  BY <1>4, <1>5, <1>6, <1>7 DEF IndInv

\* The index goes back to the system; what threads keep in it stays there.
LEMMA TlsFreeInv == ASSUME IndInv, NEW t \in Threads, TlsFree(t) PROVE IndInv'
<1>1. Types /\ TableInv /\ \A s \in Threads : HandInv(s) /\ LoopInv(s)
  BY DEF IndInv
<1> DEFINE k == index[t]
<1>2. /\ at[t] = "delete" /\ at'[t] = Home(t) /\ Home(t) \in {"body", "destructor"}
      /\ \A s \in Threads \ {t} : at'[s] = at[s] /\ index'[s] = index[s]
      /\ UNCHANGED <<destructors, live, keys_end, value, born, loop>>
      /\ k \in allocated /\ k \notin live
      /\ allocated' = allocated \ {k} /\ key' = [key EXCEPT ![k] = Null]
      /\ at' \in [Threads -> {"body", "pass", "ended"} \cup Busy \cup InLoop]
      /\ index' \in [Threads -> Nat]
  BY <1>1 DEF TlsFree, Go, Types, HandInv, Busy, Home, InLoop, Null, tables
<1>3. Types'
  BY <1>1, <1>2 DEF Types, Values
<1>4. TableInv'
  BY <1>1, <1>2 DEF TableInv, Types
<1>5. ASSUME NEW s \in Threads PROVE HandInv(s)'
  BY <1>1, <1>2 DEF HandInv, Types, Busy
<1>6. ASSUME NEW s \in Threads PROVE LoopInv(s)'
  <2>1. \A j \in Tables : Clean(s, j) => Clean(s, j)'
    BY <1>2 DEF Clean
  <2>2. CASE s = t
    BY <1>1, <1>2, <2>2, HomeInv DEF Busy
  <2>3. CASE s # t
    BY <1>1, <1>2, <2>1, <2>3, OtherLoop
  <2> QED
    BY <2>2, <2>3
<1> QED
  BY <1>3, <1>4, <1>5, <1>6 DEF IndInv

\* A thread sets its own values only, and never while it scans.
LEMMA SetSpecificInv == ASSUME IndInv, NEW t \in Threads, SetSpecific(t) PROVE IndInv'
<1>1. Types /\ TableInv /\ \A s \in Threads : HandInv(s) /\ LoopInv(s)
  BY DEF IndInv
<1>2. PICK k \in live, set \in BOOLEAN :
        value' = [value EXCEPT ![t][k] = IF set THEN key[k] ELSE Null]
  BY DEF SetSpecific
<1>3. /\ UNCHANGED <<destructors, live, keys_end, allocated, key, born, at, loop, index>>
      /\ at[t] \in {"body", "destructor"} /\ k \in allocated /\ k \in Indices
      /\ key[k] \in Values
  BY <1>1, <1>2 DEF SetSpecific, InClient, tables, Types, TableInv
<1>4. /\ value' \in [Threads -> [Indices -> Values]]
      /\ \A s \in Threads \ {t} : value'[s] = value[s]
      /\ \A j \in Indices \ {k} : value'[t][j] = value[t][j]
      /\ value'[t][k] \in {Null, key[k]}
  BY <1>1, <1>2, <1>3 DEF Types, Values
<1>5. Types'
  BY <1>1, <1>3, <1>4 DEF Types
<1>6. TableInv'
  BY <1>1, <1>3, <1>4 DEF TableInv, Types
<1>7. ASSUME NEW s \in Threads PROVE HandInv(s)'
  <2>1. at[s] \in Busy => index[s] \in Indices /\ index[s] # k
    BY <1>1, <1>2 DEF HandInv, Types
  <2> QED
    BY <1>1, <1>3, <1>4, <2>1 DEF HandInv
<1>8. ASSUME NEW s \in Threads PROVE LoopInv(s)'
  <2>1. CASE s = t
    BY <1>1, <1>3, <2>1 DEF LoopInv, Busy
  <2>2. CASE s # t
    <3>1. \A j \in Tables : Clean(s, j) => Clean(s, j)'
      BY <1>3, <1>4, <2>2 DEF Clean
    <3> QED
      BY <1>1, <1>3, <1>4, <2>2, <3>1, OtherLoop
  <2> QED
    BY <2>1, <2>2
<1> QED
  BY <1>5, <1>6, <1>7, <1>8 DEF IndInv

-----------------------------------------------------------------------------
(* The theorems *)

\* Every step keeps the invariant.
LEMMA IndInvNext == IndInv /\ [Next]_vars => IndInv'
<1> SUFFICES ASSUME IndInv, [Next]_vars PROVE IndInv'
  OBVIOUS
<1>1. CASE UNCHANGED vars
  BY <1>1 DEF vars, IndInv, Types, TableInv, HandInv, LoopInv, Clean
<1>2. ASSUME NEW t \in Threads, Client(t) \/ KeyCreate(t) \/ TlsFree(t) PROVE IndInv'
  BY <1>2, TlsAllocInv, KeyDeleteInv, SetSpecificInv, KeyCreateInv, TlsFreeInv DEF Client
<1>3. ASSUME NEW t \in Threads, BeginPass(t) \/ Loop(t) PROVE IndInv'
  BY <1>3, BeginPassInv, EndPassInv, ReadDestructorInv, GetValueInv, ClearValueInv,
     DestructorReturnsInv, EndInv DEF Loop
<1> QED
  BY <1>1, <1>2, <1>3 DEF Next, Ended

\* The invariant holds in every state of every behaviour.
LEMMA IndInvAlways == Spec => []IndInv
  BY IndInvInit, IndInvNext, PTL DEF Spec

\* The loop of run_destructors indexes the tables within KEYS, whatever keys come and
\* go after its end was read, and makes at most DESTRUCTOR_PASSES passes.
THEOREM TypeCorrect == Spec => []TypeOK
<1>1. IndInv => TypeOK
  BY DEF IndInv, Types, TypeOK, LoopType, Values
<1> QED
  BY <1>1, IndInvAlways, PTL

\* A destructor is called with a value of its own key, although the index may go to
\* another key between any two of the loop's steps.
THEOREM OwnValues == Spec => []DestructorOwnValue
<1>1. IndInv => DestructorOwnValue
  BY DEF IndInv, LoopInv, Calling, DestructorOwnValue
<1> QED
  BY <1>1, IndInvAlways, PTL

\* A thread whose last pass ran nothing leaves no value with a destructor behind.
THEOREM NoValueLeft == Spec => []NoneLeftBehind
<1>1. IndInv => NoneLeftBehind
  BY DEF IndInv, Types, LoopInv, Clean, NoneLeftBehind
<1> QED
  BY <1>1, IndInvAlways, PTL
=============================================================================
