------------------------ MODULE PthreadThreadProofs -------------------------
(* The life of a thread record, for any number of threads: the inductive      *)
(* invariant of PthreadThread and the theorems that follow from it.           *)
EXTENDS PthreadThread, TLAPS

\* The steps of calls, by what they begin with; the steps of the thread itself.
SlotCalls == {"FlsAlloc", "publish", "self", "exit"}
Creating == {"create", "CreateThread", "handle", "resume"}
Naming == {"join", "wait", "reap", "detach"}
InCall == SlotCalls \cup Creating \cup Naming
Own == {"start", "body", "finish", "destructors", "leave", "callback", "exchange", "release",
        "ExitThread"}

\* Where thread t is, its calls apart.
Place(t) == IF at[t] \in InCall THEN home[t] ELSE at[t]

Types ==
  /\ self_slot \in Threads \cup {Unset}
  /\ indices \subseteq Threads
  /\ fls \in [Threads -> Threads \cup {None, Spare}]
  /\ spare \in [Threads -> {"none", "live", "freed"}]
  /\ noslot \subseteq Children
  /\ mem \in [Threads -> {"none", "live", "freed"}]
  /\ handle \in [Threads -> {None, "set"}]
  /\ open \subseteq Children
  /\ state \in [Threads -> {None, "JOINABLE", "DETACHED", "EXITED"}]
  /\ result \in [Threads -> BOOLEAN]
  /\ os \in [Threads -> {"none", "suspended", "running", "ended"}]
  /\ at \in [Threads -> InCall \cup Own]
  /\ home \in [Threads -> {"body", "destructors", "leave", "callback"}]
  /\ call \in [Threads -> {None, "self", "create", "exit"}]
  /\ target \in [Threads -> Threads \cup {None}]
  /\ joinable \subseteq Children
  /\ exiting \in BOOLEAN
  /\ \A t \in Threads : fls[t] \in {t, None, Spare} /\ (fls[t] = Spare => t \in noslot)

\* The frame of a thread's call.
CallInv(t) ==
  /\ at[t] \in {"FlsAlloc", "publish"} => call[t] \in {"self", "create", "exit"}
  /\ at[t] \in {"self", "exit"} => call[t] = at[t]
  /\ at[t] \in Creating => call[t] = "create"
  /\ at[t] \in Naming \cup Own => call[t] = None
  /\ call[t] = "create" => target[t] \in Children
  /\ call[t] \in {"self", "exit"} => target[t] = t
  /\ call[t] = "exit" => home[t] = "body"
  /\ at[t] \in Own => target[t] = None
  /\ at[t] \in Naming => target[t] \in Threads

\* One index is published before anything is kept in it.
SlotInv ==
  /\ \A t \in Threads :
       /\ at[t] \in {"self"} \cup Creating => self_slot # Unset
       /\ fls[t] # None => self_slot # Unset
       /\ t \in Children /\ os[t] \in {"suspended", "running"} => self_slot # Unset
  /\ OneIndex

\* A thread the library did not start has a record while its slot holds it.
ForeignInv(t) ==
  /\ os[t] \in {"none", "running", "ended"}
  /\ Place(t) \in {"body", "leave", "callback", "ExitThread"}
  /\ handle[t] = None /\ spare[t] = "none" /\ ~result[t]
  /\ os[t] = "none" => mem[t] = "none" /\ fls[t] = None
  /\ os[t] = "running" => mem[t] = IF fls[t] = t THEN "live" ELSE "none"
  /\ os[t] = "ended" => mem[t] # "live" /\ Place(t) = "ExitThread"
  /\ mem[t] = "live" => state[t] = "DETACHED"
  /\ Place(t) = "callback" => fls[t] = t

\* A child whose own record is not in its slot may have another there, which lives until
\* the callback frees it or `finish` clears the slot.
SpareInv(c) ==
  /\ os[c] = "running" /\ fls[c] = Spare => spare[c] = "live"
  /\ spare[c] = "live" =>
       c \in noslot /\ (result[c] \/ (fls[c] = Spare /\ os[c] = "running"))

\* A child's record, from its creation to the exchange of its state, or, for one that
\* leaves by pthread_exit without its record, to its end.
ChildInv(c) ==
  /\ os[c] \in {"none", "suspended"} =>
       at[c] = "start" /\ fls[c] = None /\ c \notin joinable /\ c \notin noslot /\ ~result[c]
  /\ os[c] = "none" => handle[c] = None /\ c \notin open
  /\ os[c] = "suspended" => mem[c] = "live" /\ state[c] \in {"JOINABLE", "DETACHED"}
  /\ os[c] \in {"running", "ended"} =>
       /\ handle[c] = "set" /\ mem[c] # "none"
       /\ Place(c) \in Own
       /\ Place(c) # "ExitThread" => os[c] = "running" /\ mem[c] = "live"
       /\ Place(c) \in {"start", "body", "finish", "destructors", "leave", "callback", "exchange"}
            => state[c] \in {"JOINABLE", "DETACHED"}
       /\ Place(c) = "start" => c \notin noslot
       /\ Place(c) \in {"body", "finish", "destructors"} => (fls[c] = c <=> c \notin noslot)
       /\ Place(c) \in {"start", "exchange", "release"} => fls[c] = None
       /\ Place(c) \in {"destructors", "exchange", "release"} => result[c]
       /\ Place(c) \in {"start", "body", "finish", "leave", "callback"} => ~result[c]
       /\ Place(c) \in {"leave", "callback"} => c \in noslot /\ fls[c] # c
       /\ Place(c) = "callback" => fls[c] = Spare
       /\ Place(c) = "release" => state[c] = "EXITED"
       /\ Place(c) = "ExitThread" /\ result[c] => state[c] = "EXITED" /\ fls[c] = None
       /\ Place(c) = "ExitThread" /\ ~result[c] =>
            /\ c \in noslot /\ fls[c] # c /\ state[c] \in {"JOINABLE", "DETACHED"}
            /\ os[c] = "running" => mem[c] = "live"
  /\ c \in open => mem[c] = "live"
  /\ SpareInv(c)

\* The thread that creates another has it to itself.
CreatorInv(t) ==
  call[t] = "create" =>
    /\ at[t] \in {"FlsAlloc", "publish", "create"} =>
         os[target[t]] = "none" /\ mem[target[t]] = "none"
    /\ at[t] = "CreateThread" =>
         /\ os[target[t]] = "none" /\ mem[target[t]] = "live"
         /\ state[target[t]] \in {"JOINABLE", "DETACHED"}
    /\ at[t] \in {"handle", "resume"} => os[target[t]] = "suspended"
    /\ at[t] = "resume" => handle[target[t]] = "set"
    /\ \A s \in Threads : call[s] = "create" /\ target[s] = target[t] => s = t

\* A record others may take: it is there, its thread runs or has ended, and the
\* thread has not taken it for itself.
Takeable(c) ==
  /\ c \in Children
  /\ os[c] \in {"running", "ended"}
  /\ mem[c] = "live"
  /\ state[c] \in {"JOINABLE", "EXITED"}
  /\ at[c] # "release"

\* Thread t has set out to join or detach c, and will have its record or leave it to c.
Holds(t, c) ==
  /\ at[t] \in Naming /\ target[t] = c
  /\ c # t \/ (at[t] = "detach" /\ state[c] = "JOINABLE")

ClaimInv(t) ==
  at[t] \in Naming =>
    /\ target[t] = t => \/ at[t] \in {"join", "detach"} /\ fls[t] = t
                        \/ at[t] \in {"join", "wait", "detach"} /\ fls[t] # t /\ t \in Children
    /\ Holds(t, target[t]) =>
         /\ Takeable(target[t])
         /\ target[t] \notin joinable
         /\ \A s \in Threads : Holds(s, target[t]) => s = t
    /\ at[t] = "reap" => /\ at[target[t]] = "ExitThread"
                         /\ result[target[t]] \/ os[target[t]] = "ended"

\* What can be taken is there for someone to take.
TakerInv(c) ==
  /\ c \in joinable => Takeable(c)
  /\ Takeable(c) => c \in joinable \/ \E s \in Threads : Holds(s, c)

\* A process that exits has one thread, on its way out.
ExitInv(t) ==
  os[t] = "running" => /\ at[t] = "ExitThread"
                       /\ fls[t] = t => mem[t] = "live"
                       /\ fls[t] = Spare => spare[t] = "live"

Live(t) == /\ t \in Foreign => ForeignInv(t)
           /\ t \in Children => ChildInv(t)
           /\ CreatorInv(t)
           /\ ClaimInv(t)
           /\ TakerInv(t)

IndInv ==
  /\ Types
  /\ \A t \in Threads : CallInv(t)
  /\ SlotInv
  /\ exiting => \A t \in Threads : ExitInv(t)
  /\ ~exiting => \A t \in Threads : Live(t)

\* The state a behaviour starts in satisfies the invariant.
LEMMA IndInvInit == Init => IndInv
<1> SUFFICES ASSUME Init PROVE IndInv
  OBVIOUS
<1> USE ThreadsAssumption, NamesAssumption DEF Init, None, Unset, Spare, Threads
<1>1. Types
  BY DEF Types, InCall, SlotCalls, Creating, Naming, Own
<1>2. ASSUME NEW t \in Threads PROVE CallInv(t)
  BY DEF CallInv, SlotCalls, Creating, Naming, Own
<1>3. SlotInv
  BY DEF SlotInv, OneIndex, Creating
<1>4. ASSUME NEW t \in Threads PROVE Live(t)
  <2>1. t \in Foreign => ForeignInv(t)
    BY DEF ForeignInv, Place, InCall, SlotCalls, Creating, Naming
  <2>2. t \in Children => ChildInv(t)
    BY DEF ChildInv, SpareInv
  <2>3. CreatorInv(t) /\ ClaimInv(t) /\ TakerInv(t)
    BY DEF CreatorInv, ClaimInv, TakerInv, Takeable, Naming
  <2> QED
    BY <2>1, <2>2, <2>3 DEF Live
<1> QED
  BY <1>1, <1>2, <1>3, <1>4 DEF IndInv

\* A thread that is not on its way out runs in a process that is not.
LEMMA Alive ==
  ASSUME IndInv, NEW t \in Threads, os[t] = "running", at[t] # "ExitThread"
  PROVE  /\ exiting = FALSE /\ Types /\ SlotInv
         /\ \A s \in Threads : CallInv(s) /\ Live(s)
  BY DEF IndInv, ExitInv, Types

\* The frame of t's call becomes l, c, r, h.
Frame(t, l, c, r, h) ==
  /\ at' = [at EXCEPT ![t] = l]
  /\ call' = [call EXCEPT ![t] = c]
  /\ target' = [target EXCEPT ![t] = r]
  /\ home' = [home EXCEPT ![t] = h]

\* The fields of a frame, and that the frames of the other threads stay as they are.
LEMMA FrameAt ==
  ASSUME Types, NEW t \in Threads, NEW l, NEW c, NEW r, NEW h, Frame(t, l, c, r, h)
  PROVE  /\ at'[t] = l /\ call'[t] = c /\ target'[t] = r /\ home'[t] = h
         /\ \A s \in Threads \ {t} : /\ at'[s] = at[s] /\ call'[s] = call[s]
                                     /\ target'[s] = target[s] /\ home'[s] = home[s]
  BY DEF Types, Frame

\* A frame is kept as it is where a step assigns only some of it.
LEMMA FrameSame ==
  ASSUME Types, NEW t \in Threads
  PROVE  /\ \A l : Go(t, l) /\ UNCHANGED callVars => Frame(t, l, call[t], target[t], home[t])
         /\ Return(t) => Frame(t, home[t], None, None, "body")
  BY DEF Types, Frame, Go, Return, callVars

\* A frame of known values keeps the types of the four functions that hold it.
LEMMA FrameType ==
  ASSUME Types, NEW t \in Threads, NEW l \in InCall \cup Own,
         NEW c \in {None, "self", "create", "exit"}, NEW r \in Threads \cup {None},
         NEW h \in {"body", "destructors", "leave", "callback"}, Frame(t, l, c, r, h)
  PROVE  /\ at' \in [Threads -> InCall \cup Own]
         /\ call' \in [Threads -> {None, "self", "create", "exit"}]
         /\ target' \in [Threads -> Threads \cup {None}]
         /\ home' \in [Threads -> {"body", "destructors", "leave", "callback"}]
  BY DEF Types, Frame

-----------------------------------------------------------------------------
(* Steps that move a thread and leave the records alone *)

\* A thread that neither creates for another, nor names one, moves.
LEMMA Move ==
  ASSUME IndInv, NEW t \in Threads, os[t] = "running", at[t] # "ExitThread",
         at[t] \notin Naming, at[t] # "release",
         UNCHANGED <<heldVars, recordVars, os, joinable, exiting>>,
         NEW l \in (InCall \cup Own) \ (Naming \cup {"release"}),
         NEW c \in {None, "self", "create", "exit"}, NEW r \in Threads \cup {None},
         NEW h \in {"body", "destructors", "leave", "callback"}, Frame(t, l, c, r, h),
         self_slot' \in Threads \cup {Unset}, indices' \subseteq Threads,
         CallInv(t)', SlotInv', CreatorInv(t)',
         t \in Foreign => ForeignInv(t)', t \in Children => ChildInv(t)'
  PROVE  IndInv'
<1>0. UNCHANGED <<fls, spare, noslot, mem, handle, open, state, result, os, joinable, exiting>>
  BY DEF recordVars, heldVars
<1>1. exiting = FALSE /\ Types /\ SlotInv /\ \A s \in Threads : CallInv(s) /\ Live(s)
  BY Alive
<1>2. /\ at'[t] = l /\ call'[t] = c /\ target'[t] = r /\ home'[t] = h
      /\ \A s \in Threads \ {t} : /\ at'[s] = at[s] /\ call'[s] = call[s]
                                  /\ target'[s] = target[s] /\ home'[s] = home[s]
  BY <1>1, FrameAt
<1>3. Types'
  BY <1>0, <1>1, FrameType DEF Types
<1>4. ASSUME NEW s \in Threads PROVE CallInv(s)'
  BY <1>1, <1>2 DEF CallInv
<1>5. \A s \in Threads : (s \in Foreign => ForeignInv(s)') /\ (s \in Children => ChildInv(s)')
  BY <1>0, <1>1, <1>2 DEF Live, ForeignInv, ChildInv, SpareInv, Place
<1>6. ASSUME NEW s \in Threads PROVE CreatorInv(s)'
  <2>1. CASE s = t
    BY <2>1
  <2>2. CASE s # t
    BY <1>0, <1>1, <1>2, <2>2 DEF Live, CreatorInv
  <2> QED
    BY <2>1, <2>2
<1>7. /\ \A x \in Threads : Takeable(x)' = Takeable(x)
      /\ \A s, x \in Threads : Holds(s, x)' = Holds(s, x)
  BY <1>0, <1>2 DEF Takeable, Holds
<1>8. ASSUME NEW s \in Threads PROVE ClaimInv(s)'
  BY <1>0, <1>1, <1>2, <1>7 DEF Live, ClaimInv, CallInv
<1>9. ASSUME NEW s \in Threads PROVE TakerInv(s)'
  BY <1>0, <1>1, <1>7 DEF Live, TakerInv
<1> QED
  BY <1>0, <1>1, <1>3, <1>4, <1>5, <1>6, <1>8, <1>9 DEF IndInv, Live

\* A call moves on, and the thread's place apart from its calls stays.
LEMMA SamePlace ==
  ASSUME IndInv, NEW t \in Threads, os[t] = "running", at[t] # "ExitThread",
         UNCHANGED <<heldVars, recordVars, os, joinable>>, Place(t)' = Place(t)
  PROVE  (t \in Foreign => ForeignInv(t)') /\ (t \in Children => ChildInv(t)')
<1>1. Live(t)
  BY Alive
<1> QED
  BY <1>1 DEF recordVars, heldVars, Live, ForeignInv, ChildInv, SpareInv

\* self_index: a call that starts with it goes to allocate an index or straight on.
LEMMA BeginInv ==
  ASSUME IndInv, NEW t \in Threads, NEW c \in {"self", "create", "exit"}, NEW r \in Threads,
         Begin(t, c, r), c = "exit" => at[t] = "body", c \in {"self", "exit"} => r = t,
         c = "create" => /\ r \in Children /\ os[r] = "none" /\ mem[r] = "none"
                         /\ \A s \in Threads : target[s] # r,
         UNCHANGED <<slotVars, recordVars, os, joinable, exiting>>
  PROVE  IndInv'
<1> DEFINE l == IF self_slot = Unset THEN "FlsAlloc" ELSE c
<1>0. os[t] = "running" /\ at[t] \in {"body", "destructors", "leave", "callback"}
  BY DEF Begin, InClient
<1>1. exiting = FALSE /\ Types /\ SlotInv /\ \A s \in Threads : CallInv(s) /\ Live(s)
  BY <1>0, Alive
<1>2. Frame(t, l, c, r, at[t]) /\ l \in InCall \ Naming
  BY <1>1 DEF Begin, Frame, Go, InCall, SlotCalls, Creating, Naming
<1>3. /\ at'[t] = l /\ call'[t] = c /\ target'[t] = r /\ home'[t] = at[t]
      /\ \A s \in Threads \ {t} : /\ at'[s] = at[s] /\ call'[s] = call[s]
                                  /\ target'[s] = target[s] /\ home'[s] = home[s]
  BY <1>1, <1>2, FrameAt
<1>4. l \in {"FlsAlloc", c} /\ (l = c => self_slot # Unset)
  BY DEF Unset
<1> HIDE DEF l
<1>5. Place(t)' = Place(t)
  BY <1>0, <1>2, <1>3 DEF Place, InCall, SlotCalls, Creating, Naming
<1>6. CallInv(t)'
  BY <1>0, <1>3, <1>4 DEF CallInv, Naming, Own, Creating, None
<1>7. SlotInv'
  BY <1>0, <1>1, <1>3, <1>4 DEF SlotInv, OneIndex, slotVars, heldVars, Creating, Types
<1>8. CreatorInv(t)'
  BY <1>1, <1>3, <1>4 DEF CreatorInv, recordVars, Types
<1> QED
  BY <1>0, <1>1, <1>2, <1>5, <1>6, <1>7, <1>8, SamePlace, Move
  DEF Naming, slotVars, heldVars, Own, Types, InCall, SlotCalls, Creating

\* A thread enters pthread_self, pthread_create or pthread_exit.
LEMMA CallsInv ==
  ASSUME IndInv, NEW t \in Threads, PthreadSelf(t) \/ Create(t) \/ PthreadExit(t)
  PROVE  IndInv'
<1>1. CASE PthreadSelf(t)
  BY <1>1, BeginInv DEF PthreadSelf
<1>2. CASE Create(t)
  <2>1. PICK c \in Children : c \notin Known /\ mem[c] = "none" /\ Begin(t, "create", c)
    BY <1>2 DEF Create
  <2>2. c \in Threads /\ os[c] = "none" /\ \A s \in Threads : target[s] # c
    BY <2>1 DEF Threads, Known
  <2> QED
    BY <1>2, <2>1, <2>2, BeginInv DEF Create
<1>3. CASE PthreadExit(t)
  BY <1>3, BeginInv DEF PthreadExit, Runs
<1> QED
  BY <1>1, <1>2, <1>3

\* A call that has not begun to create returns and leaves nothing behind.
LEMMA ReturnInv ==
  ASSUME IndInv, NEW t \in Threads, os[t] = "running",
         at[t] \in {"FlsAlloc", "self", "create"}, Return(t),
         UNCHANGED <<slotVars, recordVars, os, joinable, exiting>>
  PROVE  IndInv'
<1>1. exiting = FALSE /\ Types /\ SlotInv /\ \A s \in Threads : CallInv(s) /\ Live(s)
  BY Alive
<1>2. Frame(t, home[t], None, None, "body")
  BY <1>1, FrameSame
<1>3. /\ at'[t] = home[t] /\ call'[t] = None /\ target'[t] = None /\ home'[t] = "body"
      /\ \A s \in Threads \ {t} : /\ at'[s] = at[s] /\ call'[s] = call[s]
                                  /\ target'[s] = target[s] /\ home'[s] = home[s]
  BY <1>1, <1>2, FrameAt
<1>4. home[t] \in {"body", "destructors", "leave", "callback"}
  BY <1>1 DEF Types
<1>5. Place(t)' = Place(t)
  BY <1>3, <1>4 DEF Place, InCall, SlotCalls, Creating, Naming
<1>6. CallInv(t)'
  BY <1>3, <1>4 DEF CallInv, Naming, Own, Creating, None
<1>7. SlotInv'
  BY <1>1, <1>3, <1>4 DEF SlotInv, OneIndex, slotVars, heldVars, Creating, Types
<1>8. CreatorInv(t)'
  BY <1>3 DEF CreatorInv, None
<1> QED
  BY <1>1, <1>2, <1>4, <1>5, <1>6, <1>7, <1>8, SamePlace, Move
  DEF Naming, slotVars, heldVars, Own, Types, InCall, SlotCalls, Creating

\* self_index has an index to publish, or none: then its caller fails, or exits
\* without.
LEMMA FlsAllocInv == ASSUME IndInv, NEW t \in Threads, FlsAlloc(t) PROVE IndInv'
<1>0. /\ os[t] = "running" /\ at[t] = "FlsAlloc"
      /\ UNCHANGED <<self_slot, heldVars, recordVars, os, joinable, exiting>>
  BY DEF FlsAlloc, Runs
<1>1. exiting = FALSE /\ Types /\ SlotInv /\ \A s \in Threads : CallInv(s) /\ Live(s)
  BY <1>0, Alive
<1>2. CASE indices' = indices \cup {t} /\ Go(t, "publish") /\ UNCHANGED callVars
  <2>1. Frame(t, "publish", call[t], target[t], home[t])
    BY <1>1, <1>2, FrameSame
  <2>2. /\ at'[t] = "publish" /\ \A s \in Threads \ {t} : at'[s] = at[s]
        /\ UNCHANGED <<call, target, home>>
    BY <1>1, <1>2 DEF Types, Go, callVars
  <2>3. Place(t)' = Place(t)
    BY <1>0, <2>2 DEF Place, InCall, SlotCalls
  <2>4. CallInv(t)' /\ CreatorInv(t)'
    BY <1>0, <1>1, <2>2 DEF CallInv, CreatorInv, Live, recordVars, Naming, Own, Creating
  <2>5. SlotInv'
    BY <1>0, <1>1, <1>2, <2>2 DEF SlotInv, OneIndex, Types, Creating, heldVars
  <2> QED
    BY <1>0, <1>1, <1>2, <2>1, <2>3, <2>4, <2>5, SamePlace, Move
    DEF Types, InCall, SlotCalls, Creating, Naming
<1>3. CASE call[t] = "exit" /\ Go(t, "exit") /\ UNCHANGED callVars /\ UNCHANGED indices
  <2>1. Frame(t, "exit", call[t], target[t], home[t])
    BY <1>1, <1>3, FrameSame
  <2>2. /\ at'[t] = "exit" /\ \A s \in Threads \ {t} : at'[s] = at[s]
        /\ UNCHANGED <<call, target, home>>
    BY <1>1, <1>3 DEF Types, Go, callVars
  <2>3. Place(t)' = Place(t)
    BY <1>0, <2>2 DEF Place, InCall, SlotCalls
  <2>4. CallInv(t)' /\ CreatorInv(t)'
    BY <1>0, <1>1, <1>3, <2>2 DEF CallInv, CreatorInv, Live, recordVars, Naming, Own, Creating
  <2>5. SlotInv'
    BY <1>0, <1>1, <1>3, <2>2 DEF SlotInv, OneIndex, Types, Creating, heldVars
  <2> QED
    BY <1>0, <1>1, <1>3, <2>1, <2>3, <2>4, <2>5, SamePlace, Move
    DEF Types, InCall, SlotCalls, Creating, Naming
<1>4. CASE Return(t) /\ UNCHANGED indices
  BY <1>0, <1>4, ReturnInv DEF slotVars, heldVars
<1> QED
  BY <1>2, <1>3, <1>4 DEF FlsAlloc

\* The loser of the race frees its index; either way one is published.
LEMMA PublishInv == ASSUME IndInv, NEW t \in Threads, Publish(t) PROVE IndInv'
<1>0. /\ os[t] = "running" /\ at[t] = "publish"
      /\ UNCHANGED <<heldVars, recordVars, os, joinable, exiting>> /\ UNCHANGED callVars
      /\ Go(t, call[t])
      /\ IF self_slot = Unset THEN self_slot' = t /\ UNCHANGED indices
                              ELSE indices' = indices \ {t} /\ UNCHANGED self_slot
  BY DEF Publish, Runs, callVars
<1>1. exiting = FALSE /\ Types /\ SlotInv /\ \A s \in Threads : CallInv(s) /\ Live(s)
  BY <1>0, Alive
<1>2. call[t] \in {"self", "create", "exit"}
  BY <1>0, <1>1 DEF CallInv
<1>3. Frame(t, call[t], call[t], target[t], home[t])
  BY <1>0, <1>1, FrameSame
<1>4. /\ at'[t] = call[t] /\ \A s \in Threads \ {t} : at'[s] = at[s]
      /\ UNCHANGED <<call, target, home>>
  BY <1>0, <1>1 DEF Types, Go, callVars
<1>5. Place(t)' = Place(t)
  BY <1>0, <1>2, <1>4 DEF Place, InCall, SlotCalls, Creating
<1>6. CallInv(t)' /\ CreatorInv(t)'
  BY <1>0, <1>1, <1>2, <1>4 DEF CallInv, CreatorInv, Live, recordVars, Naming, Own, Creating
<1>7. self_slot' \in Threads /\ self_slot' # Unset /\ indices' \subseteq Threads
  BY <1>0, <1>1, NamesAssumption DEF Types
<1>8. OneIndex'
  <2>1. ASSUME NEW s \in indices' PROVE s = self_slot' \/ at'[s] = "publish"
    <3>1. s \in indices /\ s \in Threads /\ (s = self_slot \/ at[s] = "publish")
      BY <1>0, <1>1, <1>7 DEF SlotInv, OneIndex
    <3>2. CASE self_slot = Unset
      BY <1>0, <1>4, <3>1, <3>2, NamesAssumption
    <3>3. CASE self_slot # Unset
      BY <1>0, <1>4, <3>1, <3>3
    <3> QED
      BY <3>2, <3>3
  <2> QED
    BY <1>7, <2>1 DEF OneIndex
<1>9. SlotInv'
  BY <1>7, <1>8 DEF SlotInv
<1> QED
  BY <1>0, <1>1, <1>2, <1>3, <1>5, <1>6, <1>7, <1>9, SamePlace, Move
  DEF Types, InCall, SlotCalls, Creating, Naming

-----------------------------------------------------------------------------
(* The thread's own steps that leave the records alone *)

\* A thread outside its calls goes from one place to the next.
LEMMA OwnMove ==
  ASSUME IndInv, NEW t \in Threads, os[t] = "running", at[t] \in {"body", "leave", "exit"},
         NEW l \in {"finish", "leave", "ExitThread"},
         NEW h \in {"body", "destructors", "leave", "callback"}, Frame(t, l, None, None, h),
         UNCHANGED <<slotVars, recordVars, os, joinable, exiting>>,
         t \in Foreign => ForeignInv(t)', t \in Children => ChildInv(t)'
  PROVE  IndInv'
<1>1. exiting = FALSE /\ Types /\ SlotInv /\ \A s \in Threads : CallInv(s) /\ Live(s)
  BY Alive
<1>2. /\ at'[t] = l /\ call'[t] = None /\ target'[t] = None /\ home'[t] = h
      /\ \A s \in Threads \ {t} : at'[s] = at[s]
  BY <1>1, FrameAt
<1>3. CallInv(t)' /\ CreatorInv(t)'
  BY <1>2 DEF CallInv, CreatorInv, Naming, Own, Creating, None
<1>4. SlotInv'
  BY <1>1, <1>2 DEF SlotInv, OneIndex, slotVars, heldVars, Creating, Types
<1> QED
  BY <1>1, <1>3, <1>4, Move
  DEF Naming, slotVars, heldVars, Own, Types, InCall, SlotCalls, Creating

\* The start routine returns, pthread_exit chooses its way out, or a foreign thread
\* ends.
LEMMA LeaveInv ==
  ASSUME IndInv, NEW t \in Threads, BodyReturns(t) \/ Exit(t) \/ Leave(t) \/ ForeignReturns(t)
  PROVE  IndInv'
<1>0. /\ os[t] = "running" /\ at[t] \in {"body", "leave", "exit"}
      /\ UNCHANGED <<slotVars, recordVars, os, joinable, exiting>>
  BY DEF BodyReturns, Exit, Leave, ForeignReturns, Runs
<1>1. exiting = FALSE /\ Types /\ SlotInv /\ \A s \in Threads : CallInv(s) /\ Live(s)
  BY <1>0, Alive
<1>2. UNCHANGED <<fls, spare, noslot, mem, handle, open, state, result, os, joinable>>
  BY <1>0 DEF slotVars, heldVars, recordVars
<1>3. /\ t \notin Foreign \/ t \notin Children
      /\ home[t] \in {"body", "destructors", "leave", "callback"}
      /\ at[t] = "exit" => home[t] = "body"
      /\ t \in Foreign => handle[t] = None /\ ForeignInv(t)
      /\ t \in Children => handle[t] = "set" /\ ChildInv(t)
  BY <1>0, <1>1, ThreadsAssumption DEF Types, CallInv, Live, ForeignInv, ChildInv
<1>4. Place(t) = IF at[t] = "exit" THEN "body" ELSE at[t]
  BY <1>0, <1>3 DEF Place, InCall, SlotCalls, Creating, Naming
<1>5. PICK l \in {"finish", "leave", "ExitThread"} :
        /\ Frame(t, l, None, None, home[t])
        /\ l = "finish" => t \in Children /\ Place(t) = "body"
        /\ l = "leave" => Place(t) = "body" /\ (t \in Children => fls[t] # t)
        /\ l = "ExitThread" => t \in Foreign \/ Place(t) = "leave"
  <2>1. CASE BodyReturns(t)
    <3>1. at[t] = "body" /\ call[t] = None /\ target[t] = None /\ t \in Children
      BY <1>1, <2>1 DEF BodyReturns, Runs, CallInv, Own
    <3> QED
      BY <1>1, <1>4, <2>1, <3>1, FrameSame DEF BodyReturns
  <2>2. CASE Exit(t)
    <3> DEFINE l == IF fls[t] = t /\ handle[t] # None THEN "finish" ELSE "leave"
    <3>1. Frame(t, l, None, None, home[t]) /\ Place(t) = "body"
      BY <1>1, <1>4, <2>2 DEF Exit, Runs, Frame, Go, Types
    <3>2. l = "finish" => t \in Children
      BY <1>3 DEF Threads
    <3>3. l = "leave" => (t \in Children => fls[t] # t)
      BY <1>3 DEF None
    <3> QED
      BY <3>1, <3>2, <3>3
  <2>3. CASE Leave(t)
    <3>1. at[t] = "leave" /\ call[t] = None /\ target[t] = None
      BY <1>1, <2>3 DEF Leave, Runs, CallInv, Own
    <3> QED
      BY <1>1, <1>4, <2>3, <3>1, FrameSame DEF Leave
  <2>4. CASE ForeignReturns(t)
    <3>1. at[t] = "body" /\ call[t] = None /\ target[t] = None /\ t \in Foreign
      BY <1>1, <2>4 DEF ForeignReturns, Runs, CallInv, Own
    <3> QED
      BY <1>1, <2>4, <3>1, FrameSame DEF ForeignReturns
  <2> QED
    BY <2>1, <2>2, <2>3, <2>4
<1>6. at'[t] = l
  BY <1>1, <1>5, FrameAt
<1>7. Place(t)' = l
  BY <1>6 DEF Place, InCall, SlotCalls, Creating, Naming
<1>8. t \in Foreign => ForeignInv(t)'
  BY <1>0, <1>1, <1>2, <1>3, <1>5, <1>7 DEF Live, ForeignInv
<1>9. t \in Children => ChildInv(t)'
  BY <1>0, <1>1, <1>2, <1>3, <1>4, <1>5, <1>7 DEF Live, ChildInv, SpareInv, Own
<1> QED
  BY <1>0, <1>3, <1>5, <1>8, <1>9, OwnMove

-----------------------------------------------------------------------------
(* Steps of a thread on its own record *)

\* The step changes the thread's own record and place. Whether others may take the
\* record stays as it is, so nobody else notices.
LEMMA OwnStep ==
  ASSUME IndInv, NEW t \in Threads, os[t] = "running", exiting = FALSE,
         at[t] \notin Naming, at[t] # "publish", call[t] # "create",
         UNCHANGED <<self_slot, indices, handle, joinable, exiting>>,
         \A s \in Threads \ {t} : /\ at'[s] = at[s] /\ call'[s] = call[s]
                                  /\ target'[s] = target[s] /\ home'[s] = home[s]
                                  /\ fls'[s] = fls[s] /\ spare'[s] = spare[s]
                                  /\ mem'[s] = mem[s] /\ state'[s] = state[s]
                                  /\ result'[s] = result[s] /\ os'[s] = os[s]
                                  /\ (s \in open') = (s \in open)
                                  /\ (s \in noslot') = (s \in noslot),
         at'[t] \in Own, call'[t] = None, target'[t] = None,
         at[t] = "ExitThread" /\ result[t] => at'[t] = "ExitThread" /\ result'[t],
         Takeable(t)' = Takeable(t),
         t \in Foreign => ForeignInv(t)', t \in Children => ChildInv(t)',
         Types', fls'[t] # None => self_slot # Unset
  PROVE  IndInv'
<1>1. Types /\ SlotInv /\ \A s \in Threads : CallInv(s) /\ Live(s)
  BY DEF IndInv
<1>2. ASSUME NEW s \in Threads PROVE CallInv(s)'
  <2>1. CASE s = t
    BY <2>1 DEF CallInv, Own, Naming, Creating, None
  <2>2. CASE s # t
    BY <1>1, <2>2 DEF CallInv
  <2> QED
    BY <2>1, <2>2
<1>3. SlotInv'
  <2>1. ASSUME NEW s \in indices' PROVE s = self_slot' \/ at'[s] = "publish"
    BY <1>1 DEF SlotInv, OneIndex, Types
  <2> QED
    BY <1>1, <2>1 DEF SlotInv, OneIndex, Own, Creating, Types
<1>4. \A s \in Threads : (s \in Foreign => ForeignInv(s)') /\ (s \in Children => ChildInv(s)')
  BY <1>1 DEF Live, ForeignInv, ChildInv, SpareInv, Place
<1>5. ASSUME NEW s \in Threads PROVE CreatorInv(s)'
  <2>1. CASE s = t
    BY <2>1 DEF CreatorInv, None
  <2>2. CASE s # t
    <3>1. call[s] = "create" => target[s] # t /\ target[s] \in Threads
      <4>1. call[s] = "create" => at[s] \in {"FlsAlloc", "publish"} \cup Creating
        BY <1>1 DEF CallInv, Types, InCall, SlotCalls, None
      <4>2. call[s] = "create" => target[s] \in Threads
        BY <1>1 DEF CallInv, Threads
      <4> QED
        BY <1>1, <4>1, <4>2 DEF Live, CreatorInv, Creating
    <3> QED
      BY <1>1, <2>2, <3>1 DEF Live, CreatorInv, None
  <2> QED
    BY <2>1, <2>2
<1>6. \A s, x \in Threads : Holds(s, x)' = Holds(s, x)
  <2>1. at'[t] \notin Naming
    BY DEF Own, Naming
  <2> QED
    BY <1>1, <2>1 DEF Holds
<1>7. \A x \in Threads : Takeable(x)' = Takeable(x)
  BY DEF Takeable
<1>8. ASSUME NEW s \in Threads PROVE ClaimInv(s)'
  <2>1. CASE s = t
    BY <2>1 DEF ClaimInv, Own, Naming
  <2>2. CASE s # t
    BY <1>1, <1>6, <1>7, <2>2 DEF Live, ClaimInv, CallInv
  <2> QED
    BY <2>1, <2>2
<1>9. ASSUME NEW s \in Threads PROVE TakerInv(s)'
  BY <1>1, <1>6, <1>7 DEF Live, TakerInv
<1> QED
  BY <1>1, <1>2, <1>3, <1>4, <1>5, <1>8, <1>9 DEF IndInv, Live

\* adopt() gives a thread the library did not start a detached record, and a child
\* whose own is not in the slot a second one.
LEMMA AdoptInv == ASSUME IndInv, NEW t \in Threads, Adopt(t) PROVE IndInv'
<1>0. /\ os[t] = "running" /\ at[t] = "self" /\ Return(t)
      /\ UNCHANGED <<self_slot, indices, noslot, handle, open, result, os, joinable, exiting>>
  BY DEF Adopt, Runs
<1>1. exiting = FALSE /\ Types /\ SlotInv /\ \A s \in Threads : CallInv(s) /\ Live(s)
  BY <1>0, Alive
<1>2. /\ at'[t] = home[t] /\ call'[t] = None /\ target'[t] = None /\ home'[t] = "body"
      /\ \A s \in Threads \ {t} : /\ at'[s] = at[s] /\ call'[s] = call[s]
                                  /\ target'[s] = target[s] /\ home'[s] = home[s]
  BY <1>0, <1>1, FrameSame, FrameAt
<1>3. home[t] \in {"body", "destructors", "leave", "callback"} /\ call[t] = "self"
  BY <1>0, <1>1 DEF Types, CallInv
<1>4. /\ at' \in [Threads -> InCall \cup Own]
      /\ call' \in [Threads -> {None, "self", "create", "exit"}]
      /\ target' \in [Threads -> Threads \cup {None}]
      /\ home' \in [Threads -> {"body", "destructors", "leave", "callback"}]
  BY <1>0, <1>1, <1>3, FrameSame, FrameType DEF Own
<1>5. Place(t) = home[t] /\ Place(t)' = home[t]
  BY <1>0, <1>2, <1>3 DEF Place, InCall, SlotCalls, Creating, Naming
<1>6. self_slot # Unset
  BY <1>0, <1>1 DEF SlotInv
<1>7. CASE UNCHANGED <<fls, spare, mem, state>>
  BY <1>0, <1>7, ReturnInv DEF slotVars, heldVars, recordVars
<1>8. CASE /\ fls[t] = None /\ t \in Foreign
           /\ fls' = [fls EXCEPT ![t] = t]
           /\ mem' = [mem EXCEPT ![t] = "live"]
           /\ state' = [state EXCEPT ![t] = "DETACHED"]
           /\ UNCHANGED spare
  <2>1. t \notin Children
    BY <1>8, ThreadsAssumption
  <2>2. t # Spare
    BY NamesAssumption
  <2>3. Types'
    BY <1>0, <1>1, <1>4, <1>8, <2>2 DEF Types
  <2>4. ForeignInv(t)'
    BY <1>0, <1>1, <1>3, <1>5, <1>8, NamesAssumption DEF Live, ForeignInv, Types
  <2>5. Takeable(t)' = Takeable(t)
    BY <2>1 DEF Takeable
  <2>6. \A s \in Threads \ {t} : fls'[s] = fls[s] /\ mem'[s] = mem[s] /\ state'[s] = state[s]
    BY <1>1, <1>8 DEF Types
  <2> QED
    BY <1>0, <1>1, <1>2, <1>3, <1>6, <1>8, <2>1, <2>3, <2>4, <2>5, <2>6, OwnStep
    DEF Own, Naming
<1>9. CASE /\ fls[t] = None /\ t \in Children
           /\ fls' = [fls EXCEPT ![t] = Spare]
           /\ spare' = [spare EXCEPT ![t] = "live"]
           /\ UNCHANGED <<mem, state>>
  <2>1. t \notin Foreign /\ ChildInv(t) /\ None # Spare /\ None # t
    BY <1>1, <1>9, ThreadsAssumption, NamesAssumption DEF Live, None, Spare
  <2>2. t \in noslot /\ Place(t) # "callback"
    BY <1>0, <1>3, <1>5, <1>9, <2>1 DEF ChildInv
  <2>3. Types'
    BY <1>0, <1>1, <1>4, <1>9, <2>2 DEF Types
  <2>4. fls'[t] = Spare /\ spare'[t] = "live" /\ Spare # t
    BY <1>1, <1>9, NamesAssumption DEF Types
  <2>5. ChildInv(t)'
    BY <1>0, <1>3, <1>5, <1>9, <2>1, <2>2, <2>4 DEF ChildInv, SpareInv
  <2>6. Takeable(t)' = Takeable(t)
    BY <1>0, <1>2, <1>3, <1>9 DEF Takeable
  <2>7. \A s \in Threads \ {t} : fls'[s] = fls[s] /\ spare'[s] = spare[s]
    BY <1>1, <1>9 DEF Types
  <2> QED
    BY <1>0, <1>1, <1>2, <1>3, <1>6, <1>9, <2>1, <2>3, <2>5, <2>6, <2>7, OwnStep
    DEF Own, Naming
<1> QED
  BY <1>7, <1>8, <1>9 DEF Adopt

\* The thread's steps from the start routine's entry to the end of its record.
LEMMA ThreadStepInv ==
  ASSUME IndInv, NEW t \in Threads,
         Start(t) \/ Finish(t) \/ ClearSlot(t) \/ ExchangeState(t) \/ ReleaseSelf(t)
  PROVE  IndInv'
<1>0. /\ os[t] = "running" /\ at[t] \in {"start", "finish", "destructors", "exchange", "release"}
      /\ UNCHANGED <<self_slot, indices, spare, handle, joinable, exiting, os, call, target, home>>
  BY DEF Start, Finish, ClearSlot, ExchangeState, ReleaseSelf, Runs, slotVars, heldVars, recordVars, callVars
<1>1. exiting = FALSE /\ Types /\ SlotInv /\ \A s \in Threads : CallInv(s) /\ Live(s)
  BY <1>0, Alive
<1>2. call[t] = None /\ target[t] = None /\ Place(t) = at[t]
  BY <1>0, <1>1 DEF CallInv, Own, Place, InCall, SlotCalls, Creating, Naming
<1>3. t \in Children /\ t \notin Foreign /\ ChildInv(t)
  BY <1>0, <1>1, <1>2, ThreadsAssumption DEF Live, ForeignInv, Threads
<1>4. self_slot # Unset
  BY <1>0, <1>1, <1>3 DEF SlotInv
<1>5. PICK l \in {"body", "destructors", "exchange", "release", "ExitThread"} : Go(t, l)
  BY DEF Start, Finish, ClearSlot, ExchangeState, ReleaseSelf
<1>6. /\ at'[t] = l /\ Place(t)' = l /\ \A s \in Threads \ {t} : at'[s] = at[s]
      /\ at' \in [Threads -> InCall \cup Own]
  BY <1>1, <1>5 DEF Go, Types, Place, InCall, SlotCalls, Creating, Naming, Own
<1>7. ASSUME Types', ChildInv(t)', Takeable(t)' = Takeable(t),
             \A s \in Threads \ {t} : /\ fls'[s] = fls[s] /\ mem'[s] = mem[s]
                                      /\ state'[s] = state[s] /\ result'[s] = result[s]
                                      /\ (s \in open') = (s \in open)
                                      /\ (s \in noslot') = (s \in noslot)
      PROVE  IndInv'
  BY <1>0, <1>1, <1>2, <1>3, <1>4, <1>6, <1>7, OwnStep DEF Own, Naming, None
<1>8. CASE Start(t)
  <2>1. /\ UNCHANGED <<mem, open, state, result>> /\ at[t] = "start" /\ l = "body"
    BY <1>1, <1>6, <1>8 DEF Start, Runs, recordVars, Go, Types
  <2>2. Takeable(t)' = Takeable(t)
    BY <1>0, <1>6, <2>1 DEF Takeable
  <2>3. /\ t \notin noslot /\ fls[t] = None /\ t # Spare /\ t # None
        /\ spare[t] # "live" /\ ~result[t]
    BY <1>0, <1>2, <1>3, <2>1, NamesAssumption DEF ChildInv, SpareInv
  <2>4. CASE fls' = [fls EXCEPT ![t] = t] /\ UNCHANGED noslot
    <3>1. Types'
      BY <1>0, <1>1, <1>6, <2>1, <2>3, <2>4 DEF Types
    <3>2. fls'[t] = t /\ \A s \in Threads \ {t} : fls'[s] = fls[s]
      BY <1>1, <2>4 DEF Types
    <3>3. ChildInv(t)'
      BY <1>0, <1>2, <1>3, <1>6, <2>1, <2>3, <2>4, <3>2 DEF ChildInv, SpareInv, Own
    <3> QED
      BY <1>7, <2>1, <2>2, <2>4, <3>1, <3>2, <3>3
  <2>5. CASE noslot' = noslot \cup {t} /\ UNCHANGED fls
    <3>1. Types'
      BY <1>0, <1>1, <1>3, <1>6, <2>1, <2>5 DEF Types
    <3>2. ChildInv(t)'
      BY <1>0, <1>2, <1>3, <1>6, <2>1, <2>3, <2>5 DEF ChildInv, SpareInv, Own
    <3> QED
      BY <1>7, <2>1, <2>2, <2>5, <3>1, <3>2
  <2> QED
    BY <1>8, <2>4, <2>5 DEF Start
<1>9. CASE Finish(t)
  <2>1. /\ UNCHANGED <<noslot, fls, mem, open, state>> /\ result' = [result EXCEPT ![t] = TRUE]
        /\ at[t] = "finish" /\ l = "destructors"
    BY <1>1, <1>6, <1>9 DEF Finish, Runs, slotVars, heldVars, Go, Types
  <2>2. Types'
    BY <1>0, <1>1, <1>6, <2>1 DEF Types
  <2>3. ChildInv(t)'
    BY <1>0, <1>1, <1>2, <1>3, <1>6, <2>1 DEF ChildInv, SpareInv, Types, Own
  <2>4. Takeable(t)' = Takeable(t)
    BY <1>0, <1>6, <2>1 DEF Takeable
  <2> QED
    BY <1>1, <1>7, <2>1, <2>2, <2>3, <2>4 DEF Types
<1>10. CASE ClearSlot(t)
  <2>1. /\ UNCHANGED <<noslot, mem, open, state, result>> /\ fls' = [fls EXCEPT ![t] = None]
        /\ at[t] = "destructors" /\ l = "exchange"
    BY <1>1, <1>6, <1>10 DEF ClearSlot, Runs, recordVars, Go, Types
  <2>2. /\ None # Spare /\ None # t /\ fls'[t] = None
        /\ \A s \in Threads \ {t} : fls'[s] = fls[s]
    BY <1>1, <2>1, NamesAssumption DEF None, Spare, Types
  <2>3. Types'
    BY <1>0, <1>1, <1>6, <2>1, <2>2 DEF Types
  <2>4. ChildInv(t)'
    BY <1>0, <1>2, <1>3, <1>6, <2>1, <2>2 DEF ChildInv, SpareInv, Own
  <2>5. Takeable(t)' = Takeable(t)
    BY <1>0, <1>6, <2>1 DEF Takeable
  <2> QED
    BY <1>7, <2>1, <2>2, <2>3, <2>4, <2>5
<1>11. CASE ExchangeState(t)
  <2>1. /\ UNCHANGED <<noslot, fls, mem, open, result>> /\ state' = [state EXCEPT ![t] = "EXITED"]
        /\ at[t] = "exchange" /\ l = IF state[t] = "DETACHED" THEN "release" ELSE "ExitThread"
    BY <1>1, <1>6, <1>11 DEF ExchangeState, Runs, slotVars, heldVars, Go, Types
  <2>2. Types'
    BY <1>0, <1>1, <1>6, <2>1 DEF Types
  <2>3. ChildInv(t)'
    BY <1>0, <1>1, <1>2, <1>3, <1>6, <2>1 DEF ChildInv, SpareInv, Types, Own
  <2>4. Takeable(t)' = Takeable(t)
    BY <1>0, <1>1, <1>2, <1>3, <1>6, <2>1 DEF Takeable, ChildInv, SpareInv, Types
  <2> QED
    BY <1>1, <1>7, <2>1, <2>2, <2>3, <2>4 DEF Types
<1>12. CASE ReleaseSelf(t)
  <2>1. /\ UNCHANGED <<noslot, fls, state, result>> /\ mem' = [mem EXCEPT ![t] = "freed"]
        /\ open' = open \ {t}
        /\ at[t] = "release" /\ l = "ExitThread"
    BY <1>0, <1>1, <1>2, <1>3, <1>6, <1>12
    DEF ReleaseSelf, Runs, slotVars, heldVars, Go, Types, Free, ChildInv, SpareInv, None
  <2>2. Types'
    BY <1>0, <1>1, <1>6, <2>1 DEF Types
  <2>3. ChildInv(t)'
    BY <1>0, <1>1, <1>2, <1>3, <1>6, <2>1 DEF ChildInv, SpareInv, Types, Own
  <2>4. Takeable(t)' = Takeable(t)
    BY <1>0, <1>1, <1>6, <2>1 DEF Takeable, Types
  <2> QED
    BY <1>1, <1>7, <2>1, <2>2, <2>3, <2>4 DEF Types
<1> QED
  BY <1>8, <1>9, <1>10, <1>11, <1>12

\* A thread ends at once, or has the slot's callback run on the record that is there; in
\* a process that exits the callback does nothing.
LEMMA EndThreadInv == ASSUME IndInv, NEW t \in Threads, EndThread(t) PROVE IndInv'
<1>0. /\ os[t] = "running" /\ at[t] = "ExitThread" /\ Types /\ SlotInv
      /\ \A s \in Threads : CallInv(s)
      /\ UNCHANGED <<self_slot, indices, fls, spare, noslot, mem, handle, open, state, result,
                     home, call, target, joinable, exiting>>
  BY DEF EndThread, Runs, IndInv, slotVars, heldVars, recordVars, callVars
<1>1. CASE exiting
  <2>1. os' = [os EXCEPT ![t] = "ended"] /\ UNCHANGED at
    BY <1>1 DEF EndThread
  <2>2. Types'
    BY <1>0, <2>1 DEF Types
  <2>3. ASSUME NEW s \in Threads PROVE CallInv(s)'
    BY <1>0, <2>1 DEF CallInv
  <2>4. SlotInv'
    BY <1>0, <2>1 DEF SlotInv, OneIndex, Types
  <2>5. ASSUME NEW s \in Threads PROVE ExitInv(s)'
    BY <1>0, <1>1, <2>1 DEF IndInv, ExitInv, Types
  <2> QED
    BY <1>0, <1>1, <2>2, <2>3, <2>4, <2>5 DEF IndInv
<1>2. CASE ~exiting
  <2>1. exiting = FALSE /\ Live(t) /\ call[t] = None /\ target[t] = None /\ Place(t) = "ExitThread"
    BY <1>0, <1>2 DEF IndInv, Types, CallInv, Own, Place, InCall, SlotCalls, Creating, Naming
  <2>2. fls'[t] # None => self_slot # Unset
    BY <1>0 DEF SlotInv
  <2>3. CASE fls[t] = None
    <3>1. os' = [os EXCEPT ![t] = "ended"] /\ UNCHANGED at
      BY <1>2, <2>3 DEF EndThread
    <3>2. Types'
      BY <1>0, <3>1 DEF Types
    <3>3. os'[t] = "ended" /\ \A s \in Threads \ {t} : os'[s] = os[s]
      BY <1>0, <3>1 DEF Types
    <3>4. Place(t)' = "ExitThread"
      BY <1>0, <2>1, <3>1 DEF Place
    <3>5. t \in Foreign => ForeignInv(t)'
      BY <1>0, <2>1, <2>3, <3>3, <3>4, NamesAssumption DEF Live, ForeignInv
    <3>6. t \in Children => ChildInv(t)'
      BY <1>0, <2>1, <2>3, <3>3, <3>4 DEF Live, ChildInv, SpareInv, Own, None, Spare
    <3>7. Takeable(t)' = Takeable(t)
      BY <1>0, <3>1, <3>3 DEF Takeable
    <3> QED
      BY <1>0, <2>1, <2>2, <3>1, <3>2, <3>3, <3>5, <3>6, <3>7, OwnStep DEF Own, Naming, None
  <2>4. CASE fls[t] # None
    <3>1. at' = [at EXCEPT ![t] = "callback"] /\ UNCHANGED os
      BY <1>2, <2>4 DEF EndThread, Go
    <3>2. Types'
      BY <1>0, <3>1 DEF Types, Own
    <3>3. at'[t] = "callback" /\ \A s \in Threads \ {t} : at'[s] = at[s]
      BY <1>0, <3>1 DEF Types
    <3>4. Place(t)' = "callback"
      BY <3>3 DEF Place, InCall, SlotCalls, Creating, Naming
    <3>5. fls[t] \in {t, Spare} /\ (t \in Foreign => fls[t] = t)
      BY <1>0, <2>4, ThreadsAssumption DEF Types
    <3>6. t \in Foreign => ForeignInv(t)' /\ ~result[t]
      BY <1>0, <2>1, <3>1, <3>4, <3>5 DEF Live, ForeignInv
    <3>7. t \in Children => ChildInv(t)' /\ ~result[t]
      <4>1. ASSUME t \in Children
            PROVE  ChildInv(t) /\ ~result[t] /\ fls[t] = Spare /\ t # Spare
        BY <1>0, <2>1, <2>4, <3>5, <4>1, NamesAssumption DEF Live, ChildInv
      <4> QED
        BY <1>0, <2>1, <3>1, <3>4, <4>1 DEF ChildInv, SpareInv, Own
    <3>8. Takeable(t)' = Takeable(t)
      BY <1>0, <3>1, <3>3 DEF Takeable
    <3> QED
      BY <1>0, <2>1, <2>2, <3>1, <3>2, <3>3, <3>6, <3>7, <3>8, OwnStep
      DEF Own, Naming, None, Threads
  <2> QED
    BY <2>3, <2>4
<1> QED
  BY <1>1, <1>2

\* The callback frees the record of a thread the library did not start, or the second
\* one of a child; a child's own is not there any more, or never was.
LEMMA CallbackInv == ASSUME IndInv, NEW t \in Threads, Callback(t) PROVE IndInv'
<1>0. /\ os[t] = "running" /\ at[t] = "callback"
      /\ UNCHANGED <<self_slot, indices, fls, noslot, handle, open, state, result,
                     home, call, target, joinable, exiting>>
      /\ os' = [os EXCEPT ![t] = "ended"] /\ at' = [at EXCEPT ![t] = "ExitThread"]
  BY DEF Callback, Runs, Go, callVars
<1>1. exiting = FALSE /\ Types /\ SlotInv /\ \A s \in Threads : CallInv(s) /\ Live(s)
  BY <1>0, Alive
<1>2. call[t] = None /\ target[t] = None /\ Place(t) = "callback"
  BY <1>0, <1>1 DEF CallInv, Own, Place, InCall, SlotCalls, Creating, Naming
<1>3. /\ os'[t] = "ended" /\ at'[t] = "ExitThread" /\ Place(t)' = "ExitThread"
      /\ \A s \in Threads \ {t} : os'[s] = os[s] /\ at'[s] = at[s]
      /\ os' \in [Threads -> {"none", "suspended", "running", "ended"}]
      /\ at' \in [Threads -> InCall \cup Own]
  BY <1>0, <1>1 DEF Types, Own, Place, InCall, SlotCalls, Creating, Naming
<1>4. fls'[t] # None => self_slot # Unset
  BY <1>0, <1>1 DEF SlotInv
<1>f. /\ at[t] \notin Naming /\ at[t] # "publish" /\ at[t] # "ExitThread" /\ call[t] # "create"
      /\ at'[t] \in Own /\ call'[t] = None /\ target'[t] = None
      /\ \A s \in Threads \ {t} : /\ at'[s] = at[s] /\ call'[s] = call[s]
                                  /\ target'[s] = target[s] /\ home'[s] = home[s]
                                  /\ fls'[s] = fls[s] /\ state'[s] = state[s]
                                  /\ result'[s] = result[s] /\ os'[s] = os[s]
                                  /\ (s \in open') = (s \in open)
                                  /\ (s \in noslot') = (s \in noslot)
  BY <1>0, <1>2, <1>3 DEF Own, Naming, None
<1>5. CASE t \in Foreign
  <2>1. ForeignInv(t) /\ fls[t] = t /\ t # Spare /\ t \notin Children
    BY <1>1, <1>2, <1>5, ThreadsAssumption, NamesAssumption DEF Live, ForeignInv
  <2>2. mem' = [mem EXCEPT ![t] = "freed"] /\ UNCHANGED spare
    BY <2>1 DEF Callback, Free
  <2>3. Types'
    BY <1>0, <1>1, <1>3, <2>2 DEF Types
  <2>4. mem'[t] = "freed" /\ \A s \in Threads \ {t} : mem'[s] = mem[s]
    BY <1>1, <2>2 DEF Types
  <2>5. ForeignInv(t)'
    BY <1>0, <1>3, <2>1, <2>2, <2>4 DEF ForeignInv
  <2>6. Takeable(t)' = Takeable(t)
    BY <2>1 DEF Takeable
  <2> QED
    BY <1>0, <1>1, <1>4, <1>f, <2>1, <2>2, <2>3, <2>4, <2>5, <2>6, OwnStep
<1>6. CASE t \in Children
  <2>1. ChildInv(t) /\ fls[t] = Spare /\ t \notin Foreign
    BY <1>0, <1>1, <1>2, <1>6, ThreadsAssumption DEF Live, ChildInv
  <2>2. spare' = [spare EXCEPT ![t] = "freed"] /\ UNCHANGED mem
    BY <2>1 DEF Callback
  <2>3. Types'
    BY <1>0, <1>1, <1>3, <2>2 DEF Types
  <2>4. spare'[t] = "freed" /\ \A s \in Threads \ {t} : spare'[s] = spare[s]
    BY <1>1, <2>2 DEF Types
  <2>5. ChildInv(t)'
    BY <1>0, <1>2, <1>3, <2>1, <2>2, <2>4 DEF ChildInv, SpareInv, Own
  <2>6. Takeable(t)' = Takeable(t)
    BY <1>0, <1>3, <2>2 DEF Takeable
  <2> QED
    BY <1>0, <1>1, <1>4, <1>f, <2>1, <2>2, <2>3, <2>4, <2>5, <2>6, OwnStep
<1> QED
  BY <1>5, <1>6 DEF Threads

\* Of the threads of a process that exits only one goes on.
LEMMA ProcessExitInv == ASSUME IndInv, NEW t \in Threads, ProcessExit(t) PROVE IndInv'
<1>0. /\ os[t] = "running" /\ at[t] = "body" /\ exiting' = TRUE
      /\ os' = [s \in Threads |-> IF s = t THEN "running" ELSE "ended"]
      /\ at' = [at EXCEPT ![t] = "ExitThread"]
      /\ UNCHANGED <<self_slot, indices, fls, spare, noslot, mem, handle, open, state, result,
                     home, call, target, joinable>>
  BY DEF ProcessExit, Runs, Go, slotVars, heldVars, recordVars, callVars
<1>1. exiting = FALSE /\ Types /\ SlotInv /\ \A s \in Threads : CallInv(s) /\ Live(s)
  BY <1>0, Alive
<1>2. Types'
  BY <1>0, <1>1 DEF Types, Own
<1>3. ASSUME NEW s \in Threads PROVE CallInv(s)'
  BY <1>0, <1>1 DEF CallInv, Types, Own, Naming, Creating
<1>4. SlotInv'
  BY <1>0, <1>1 DEF SlotInv, OneIndex, Types, Creating
<1>5. (fls[t] = t => mem[t] = "live") /\ (fls[t] = Spare => spare[t] = "live")
  <2>1. Place(t) = "body"
    BY <1>0 DEF Place, InCall, SlotCalls, Creating, Naming
  <2>2. CASE t \in Foreign
    BY <1>0, <1>1, <2>2, ThreadsAssumption DEF Live, ForeignInv, Types
  <2>3. CASE t \in Children
    BY <1>0, <1>1, <2>1, <2>3 DEF Live, ChildInv, SpareInv
  <2> QED
    BY <2>2, <2>3 DEF Threads
<1>6. ASSUME NEW s \in Threads PROVE ExitInv(s)'
  BY <1>0, <1>1, <1>5 DEF ExitInv, Types
<1> QED
  BY <1>0, <1>2, <1>3, <1>4, <1>6 DEF IndInv

-----------------------------------------------------------------------------
(* pthread_create *)

\* While a thread creates another, no third one knows of it.
LEMMA CreatorAlone ==
  ASSUME IndInv, NEW t \in Threads, os[t] = "running", at[t] \in Creating
  PROVE  /\ target[t] \in Children /\ target[t] \in Threads \ {t} /\ call[t] = "create"
         /\ os[target[t]] \in {"none", "suspended"} /\ at[target[t]] = "start"
         /\ \A s \in Threads \ {t} : ~(call[s] = "create" /\ target[s] = target[t])
         /\ \A s \in Threads : ~(at[s] \in Naming /\ target[s] = target[t])
<1>1. exiting = FALSE /\ Types /\ SlotInv /\ \A s \in Threads : CallInv(s) /\ Live(s)
  BY Alive DEF Creating
<1>2. call[t] = "create" /\ target[t] \in Children /\ target[t] \in Threads
  BY <1>1 DEF CallInv, Threads
<1>3. os[target[t]] \in {"none", "suspended"}
  BY <1>1, <1>2 DEF Live, CreatorInv, Creating
<1>4. at[target[t]] = "start" /\ target[t] # t
  BY <1>1, <1>2, <1>3 DEF Live, ChildInv, SpareInv
<1>5. \A s \in Threads \ {t} : ~(call[s] = "create" /\ target[s] = target[t])
  BY <1>1, <1>2 DEF Live, CreatorInv
<1>6. ASSUME NEW s \in Threads, at[s] \in Naming, target[s] = target[t] PROVE FALSE
  <2>1. s # target[t]
    BY <1>4, <1>6 DEF Naming
  <2>2. Holds(s, target[s])
    BY <1>6, <2>1 DEF Holds
  <2> QED
    BY <1>1, <1>3, <1>6, <2>2 DEF Live, ClaimInv, Takeable
<1> QED
  BY <1>2, <1>3, <1>4, <1>5, <1>6

\* A step of the creator on the new thread's record.
LEMMA CreateStep ==
  ASSUME IndInv, NEW t \in Threads, os[t] = "running", at[t] \in Creating,
         UNCHANGED <<slotVars, result, exiting>>,
         NEW x, x = target[t],
         \A s \in Threads \ {x} : /\ mem'[s] = mem[s] /\ state'[s] = state[s]
                                  /\ os'[s] = os[s] /\ handle'[s] = handle[s]
                                  /\ (s \in open') = (s \in open)
                                  /\ (s \in joinable') = (s \in joinable),
         NEW l, NEW c, NEW r, NEW h, Frame(t, l, c, r, h),
         \/ l \in Creating /\ c = "create" /\ r = x /\ h = home[t]
         \/ l = home[t] /\ c = None /\ r = None /\ h = "body",
         mem' \in [Threads -> {"none", "live", "freed"}],
         state' \in [Threads -> {None, "JOINABLE", "DETACHED", "EXITED"}],
         os' \in [Threads -> {"none", "suspended", "running", "ended"}],
         handle' \in [Threads -> {None, "set"}],
         open' \subseteq Children, joinable' \subseteq Children,
         CreatorInv(t)', ChildInv(x)',
         x \in joinable' => Takeable(x)', Takeable(x)' => x \in joinable'
  PROVE  IndInv'
<1>1. exiting = FALSE /\ Types /\ SlotInv /\ \A s \in Threads : CallInv(s) /\ Live(s)
  BY Alive DEF Creating
<1>2. /\ x \in Children /\ x \in Threads \ {t} /\ call[t] = "create"
      /\ os[x] \in {"none", "suspended"} /\ at[x] = "start"
      /\ \A s \in Threads \ {t} : ~(call[s] = "create" /\ target[s] = x)
      /\ \A s \in Threads : ~(at[s] \in Naming /\ target[s] = x)
  BY CreatorAlone
<1>3. /\ at'[t] = l /\ call'[t] = c /\ target'[t] = r /\ home'[t] = h
      /\ \A s \in Threads \ {t} : /\ at'[s] = at[s] /\ call'[s] = call[s]
                                  /\ target'[s] = target[s] /\ home'[s] = home[s]
  BY <1>1, FrameAt
<1>4. /\ home[t] \in {"body", "destructors", "leave", "callback"}
      /\ l \in InCall \cup Own /\ c \in {None, "create"} /\ r \in Threads \cup {None}
      /\ l \notin Naming /\ l # "release" /\ h \in {"body", "destructors", "leave", "callback"}
  BY <1>1, <1>2 DEF Types, InCall, Own, Creating, Naming
<1>5. Types'
  <2>1. /\ at' \in [Threads -> InCall \cup Own]
        /\ call' \in [Threads -> {None, "self", "create", "exit"}]
        /\ target' \in [Threads -> Threads \cup {None}]
        /\ home' \in [Threads -> {"body", "destructors", "leave", "callback"}]
    BY <1>1, <1>4, FrameType
  <2> QED
    BY <1>1, <2>1 DEF Types, slotVars, heldVars
<1>6. ASSUME NEW s \in Threads PROVE CallInv(s)'
  <2>1. CASE s = t
    BY <1>1, <1>2, <1>3, <1>4, <2>1 DEF CallInv, Own, Naming, Creating, None
  <2>2. CASE s # t
    BY <1>1, <1>3, <2>2 DEF CallInv
  <2> QED
    BY <2>1, <2>2
<1>7. SlotInv'
  <2>1. self_slot # Unset
    BY <1>1 DEF SlotInv
  <2>2. OneIndex'
    BY <1>1, <1>3, <1>4, <2>1 DEF SlotInv, OneIndex, slotVars, heldVars, Types, Creating
  <2> QED
    BY <2>1, <2>2 DEF SlotInv, slotVars, heldVars
<1>8. Place(t)' = Place(t)
  BY <1>3, <1>4 DEF Place, InCall, Creating, SlotCalls, Naming
<1>9. ASSUME NEW s \in Threads
      PROVE  (s \in Foreign => ForeignInv(s)') /\ (s \in Children => ChildInv(s)')
  <2>1. CASE s = x
    BY <1>2, <2>1, ThreadsAssumption
  <2>2. CASE s = t
    BY <1>1, <1>2, <1>8, <2>2 DEF Live, ForeignInv, ChildInv, SpareInv, slotVars, heldVars
  <2>3. CASE s # x /\ s # t
    BY <1>1, <1>3, <2>3 DEF Live, ForeignInv, ChildInv, SpareInv, Place, slotVars, heldVars
  <2> QED
    BY <2>1, <2>2, <2>3
<1>10. ASSUME NEW s \in Threads PROVE CreatorInv(s)'
  <2>1. CASE s = t
    BY <2>1
  <2>2. CASE s # t
    <3>1. call[s] = "create" => target[s] \in Threads \ {x}
      BY <1>1, <1>2, <2>2 DEF CallInv, Threads
    <3> QED
      BY <1>1, <1>3, <2>2, <3>1 DEF Live, CreatorInv
  <2> QED
    BY <2>1, <2>2
<1>11. /\ \A y \in Threads \ {x} : Takeable(y)' = Takeable(y)
       /\ \A s, y \in Threads \ {x} : Holds(s, y)' = Holds(s, y)
       /\ \A s \in Threads : ~Holds(s, x)' /\ ~Holds(x, s)' /\ ~Holds(x, s)
  BY <1>1, <1>2, <1>3, <1>4 DEF Takeable, Holds, Naming, Creating
<1>12. ASSUME NEW s \in Threads PROVE ClaimInv(s)'
  <2>1. CASE s = t
    BY <1>3, <1>4, <2>1 DEF ClaimInv
  <2>2. CASE s # t
    <3>1. at[s] \in Naming => s # x /\ target[s] \in Threads \ {x}
      BY <1>1, <1>2 DEF CallInv, Naming
    <3>2. at[s] = "reap" => target[s] # t
      BY <1>1 DEF Live, ClaimInv, Naming, Creating
    <3>3. at[s] = "reap" => /\ at'[target[s]] = "ExitThread"
                            /\ result'[target[s]] \/ os'[target[s]] = "ended"
      BY <1>1, <1>3, <3>1, <3>2 DEF Live, ClaimInv, Naming
    <3> QED
      BY <1>1, <1>3, <1>11, <2>2, <3>1, <3>3 DEF Live, ClaimInv, slotVars, heldVars
  <2> QED
    BY <2>1, <2>2
<1>13. ASSUME NEW s \in Threads PROVE TakerInv(s)'
  BY <1>1, <1>11 DEF Live, TakerInv
<1> QED
  BY <1>1, <1>5, <1>6, <1>7, <1>9, <1>10, <1>12, <1>13 DEF IndInv, Live

\* pthread_create has a record for the thread, or returns without one.
LEMMA NewRecordInv == ASSUME IndInv, NEW t \in Threads, NewRecord(t) PROVE IndInv'
<1>0. /\ os[t] = "running" /\ at[t] = "create" /\ at[t] \in Creating
      /\ UNCHANGED <<slotVars, handle, open, result, os, joinable, exiting>>
  BY DEF NewRecord, Runs, Creating
<1>1. exiting = FALSE /\ Types /\ SlotInv /\ \A s \in Threads : CallInv(s) /\ Live(s)
  BY <1>0, Alive
<1>x. PICK x : x = target[t]
  OBVIOUS
<1>2. /\ x \in Children /\ x \in Threads \ {t} /\ call[t] = "create" /\ at[x] = "start"
      /\ \A s \in Threads \ {t} : ~(call[s] = "create" /\ target[s] = x)
  BY <1>0, <1>x, CreatorAlone
<1>3. CASE Return(t) /\ UNCHANGED <<mem, state>>
  BY <1>0, <1>3, ReturnInv DEF recordVars
<1>4. CASE /\ mem' = [mem EXCEPT ![target[t]] = "live"]
           /\ \E s \in {"JOINABLE", "DETACHED"} : state' = [state EXCEPT ![target[t]] = s]
           /\ Go(t, "CreateThread")
           /\ UNCHANGED callVars
  <2>1. os[x] = "none" /\ mem[x] = "none"
    BY <1>0, <1>1, <1>2, <1>x DEF Live, CreatorInv
  <2>2. /\ mem' \in [Threads -> {"none", "live", "freed"}] /\ mem'[x] = "live"
        /\ state' \in [Threads -> {None, "JOINABLE", "DETACHED", "EXITED"}]
        /\ state'[x] \in {"JOINABLE", "DETACHED"}
        /\ \A s \in Threads \ {x} : mem'[s] = mem[s] /\ state'[s] = state[s]
    BY <1>1, <1>2, <1>x, <1>4 DEF Types
  <2>3. Frame(t, "CreateThread", "create", x, home[t])
    BY <1>1, <1>2, <1>x, <1>4, FrameSame
  <2>4. /\ at'[t] = "CreateThread" /\ call'[t] = "create" /\ target'[t] = x
        /\ \A s \in Threads \ {t} : /\ at'[s] = at[s] /\ call'[s] = call[s]
                                    /\ target'[s] = target[s] /\ home'[s] = home[s]
    BY <1>1, <2>3, FrameAt
  <2>5. CreatorInv(t)'
    BY <1>0, <1>2, <2>1, <2>2, <2>4 DEF CreatorInv
  <2>6. ChildInv(x)'
    BY <1>0, <1>1, <1>2, <2>1, <2>2, <2>4 DEF Live, ChildInv, SpareInv, Place, slotVars, heldVars
  <2>7. x \notin joinable' /\ ~Takeable(x)'
    BY <1>0, <1>1, <1>2, <2>1 DEF Live, ChildInv, SpareInv, Takeable
  <2>8. \A s \in Threads \ {x} : /\ os'[s] = os[s] /\ handle'[s] = handle[s]
                                  /\ (s \in open') = (s \in open)
                                  /\ (s \in joinable') = (s \in joinable)
    BY <1>0
  <2>9. "CreateThread" \in Creating
    BY DEF Creating
  <2> QED
    BY <1>0, <1>1, <2>2, <2>3, <2>5, <2>6, <2>7, <2>8, <2>9, <1>x, CreateStep DEF Types
<1> QED
  BY <1>3, <1>4 DEF NewRecord

\* The thread exists, suspended, or its record is freed again.
LEMMA CreateThreadInv == ASSUME IndInv, NEW t \in Threads, CreateThread(t) PROVE IndInv'
<1>0. /\ os[t] = "running" /\ at[t] = "CreateThread" /\ at[t] \in Creating
      /\ UNCHANGED <<slotVars, handle, state, result, joinable, exiting>>
  BY DEF CreateThread, Runs, Creating
<1>1. exiting = FALSE /\ Types /\ SlotInv /\ \A s \in Threads : CallInv(s) /\ Live(s)
  BY <1>0, Alive
<1>x. PICK x : x = target[t]
  OBVIOUS
<1>2. /\ x \in Children /\ x \in Threads \ {t} /\ call[t] = "create" /\ at[x] = "start"
      /\ \A s \in Threads \ {t} : ~(call[s] = "create" /\ target[s] = x)
  BY <1>0, <1>x, CreatorAlone
<1>3. /\ os[x] = "none" /\ mem[x] = "live" /\ state[x] \in {"JOINABLE", "DETACHED"}
      /\ handle[x] = None /\ x \notin open /\ x \notin joinable /\ fls[x] = None
      /\ ChildInv(x)
  BY <1>0, <1>1, <1>2, <1>x DEF Live, CreatorInv, ChildInv, SpareInv
<1>4. \A s \in Threads \ {x} : /\ state'[s] = state[s] /\ handle'[s] = handle[s]
                               /\ (s \in joinable') = (s \in joinable)
  BY <1>0
<1>5. CASE /\ os' = [os EXCEPT ![target[t]] = "suspended"]
           /\ open' = open \cup {target[t]}
           /\ Go(t, "handle")
           /\ UNCHANGED <<mem, callVars>>
  <2>1. /\ os' \in [Threads -> {"none", "suspended", "running", "ended"}] /\ os'[x] = "suspended"
        /\ open' \subseteq Children
        /\ \A s \in Threads \ {x} : os'[s] = os[s] /\ mem'[s] = mem[s]
                                      /\ (s \in open') = (s \in open)
    BY <1>1, <1>2, <1>x, <1>5 DEF Types
  <2>2. Frame(t, "handle", "create", x, home[t])
    BY <1>1, <1>2, <1>x, <1>5, FrameSame
  <2>3. /\ at'[t] = "handle" /\ call'[t] = "create" /\ target'[t] = x
        /\ \A s \in Threads \ {t} : /\ at'[s] = at[s] /\ call'[s] = call[s]
                                    /\ target'[s] = target[s] /\ home'[s] = home[s]
    BY <1>1, <2>2, FrameAt
  <2>4. CreatorInv(t)'
    BY <1>0, <1>2, <1>3, <2>1, <2>3 DEF CreatorInv
  <2>5. ChildInv(x)'
    BY <1>0, <1>2, <1>3, <1>5, <2>1, <2>3 DEF ChildInv, SpareInv, slotVars, heldVars
  <2>6. x \notin joinable' /\ ~Takeable(x)'
    BY <1>0, <1>3, <2>1 DEF Takeable
  <2>7. "handle" \in Creating
    BY DEF Creating
  <2> QED
    BY <1>0, <1>1, <1>4, <1>5, <2>1, <2>2, <2>4, <2>5, <2>6, <2>7, <1>x, CreateStep DEF Types
<1>6. CASE Free(target[t]) /\ Return(t) /\ UNCHANGED <<os, open>>
  <2>1. /\ mem' \in [Threads -> {"none", "live", "freed"}] /\ mem'[x] = "freed"
        /\ \A s \in Threads \ {x} : os'[s] = os[s] /\ mem'[s] = mem[s]
                                      /\ (s \in open') = (s \in open)
    BY <1>1, <1>2, <1>x, <1>6 DEF Types, Free
  <2>2. Frame(t, home[t], None, None, "body")
    BY <1>1, <1>6, FrameSame
  <2>3. call'[t] = None /\ at'[x] = at[x] /\ home'[x] = home[x]
    BY <1>1, <1>2, <2>2, FrameAt
  <2>4. CreatorInv(t)'
    BY <2>3 DEF CreatorInv, None
  <2>5. ChildInv(x)'
    BY <1>0, <1>2, <1>3, <1>6, <2>1, <2>3 DEF ChildInv, SpareInv, slotVars, heldVars
  <2>6. x \notin joinable' /\ ~Takeable(x)'
    BY <1>0, <1>3, <2>1 DEF Takeable
  <2> QED
    BY <1>0, <1>1, <1>4, <1>6, <2>1, <2>2, <2>4, <2>5, <2>6, <1>x, CreateStep DEF Types
<1> QED
  BY <1>5, <1>6 DEF CreateThread

\* The handle is stored in the record while the thread still sleeps.
LEMMA SetHandleInv == ASSUME IndInv, NEW t \in Threads, SetHandle(t) PROVE IndInv'
<1>0. /\ os[t] = "running" /\ at[t] = "handle" /\ at[t] \in Creating
      /\ handle' = [handle EXCEPT ![target[t]] = "set"]
      /\ Go(t, "resume") /\ UNCHANGED callVars
      /\ UNCHANGED <<slotVars, mem, open, state, result, os, joinable, exiting>>
  BY DEF SetHandle, Runs, Creating, callVars
<1>1. exiting = FALSE /\ Types /\ SlotInv /\ \A s \in Threads : CallInv(s) /\ Live(s)
  BY <1>0, Alive
<1>x. PICK x : x = target[t]
  OBVIOUS
<1>2. /\ x \in Children /\ x \in Threads \ {t} /\ call[t] = "create" /\ at[x] = "start"
      /\ \A s \in Threads \ {t} : ~(call[s] = "create" /\ target[s] = x)
  BY <1>0, <1>x, CreatorAlone
<1>3. os[x] = "suspended" /\ ChildInv(x)
  BY <1>0, <1>1, <1>2, <1>x DEF Live, CreatorInv
<1>4. /\ handle' \in [Threads -> {None, "set"}] /\ handle'[x] = "set"
      /\ \A s \in Threads \ {x} : /\ handle'[s] = handle[s] /\ state'[s] = state[s]
                                  /\ mem'[s] = mem[s] /\ os'[s] = os[s]
                                  /\ (s \in open') = (s \in open)
                                  /\ (s \in joinable') = (s \in joinable)
  BY <1>0, <1>1, <1>2, <1>x DEF Types
<1>5. Frame(t, "resume", "create", x, home[t])
  BY <1>0, <1>1, <1>2, <1>x, FrameSame
<1>6. /\ at'[t] = "resume" /\ call'[t] = "create" /\ target'[t] = x
      /\ \A s \in Threads \ {t} : /\ at'[s] = at[s] /\ call'[s] = call[s]
                                  /\ target'[s] = target[s] /\ home'[s] = home[s]
  BY <1>1, <1>5, FrameAt
<1>7. CreatorInv(t)'
  BY <1>0, <1>2, <1>3, <1>4, <1>6 DEF CreatorInv
<1>8. ChildInv(x)'
  BY <1>0, <1>2, <1>3, <1>4, <1>6 DEF ChildInv, SpareInv, slotVars, heldVars
<1>9. x \notin joinable' /\ ~Takeable(x)'
  BY <1>0, <1>3 DEF Takeable, ChildInv, SpareInv
<1>10. "resume" \in Creating
  BY DEF Creating
<1> QED
  BY <1>0, <1>1, <1>4, <1>5, <1>7, <1>8, <1>9, <1>10, <1>x, CreateStep DEF Types

\* The new thread runs, and is the caller's to join or detach unless it is detached.
LEMMA ResumeInv == ASSUME IndInv, NEW t \in Threads, Resume(t) PROVE IndInv'
<1>0. /\ os[t] = "running" /\ at[t] = "resume" /\ at[t] \in Creating
      /\ os' = [os EXCEPT ![target[t]] = "running"]
      /\ joinable' = IF state[target[t]] = "JOINABLE" THEN joinable \cup {target[t]} ELSE joinable
      /\ Return(t)
      /\ UNCHANGED <<slotVars, mem, handle, open, state, result, exiting>>
  BY DEF Resume, Runs, Creating, recordVars
<1>1. exiting = FALSE /\ Types /\ SlotInv /\ \A s \in Threads : CallInv(s) /\ Live(s)
  BY <1>0, Alive
<1>x. PICK x : x = target[t]
  OBVIOUS
<1>2. /\ x \in Children /\ x \in Threads \ {t} /\ call[t] = "create" /\ at[x] = "start"
  BY <1>0, <1>x, CreatorAlone
<1>3. os[x] = "suspended" /\ handle[x] = "set" /\ ChildInv(x)
  BY <1>0, <1>1, <1>2, <1>x DEF Live, CreatorInv
<1>4. /\ os' \in [Threads -> {"none", "suspended", "running", "ended"}] /\ os'[x] = "running"
      /\ joinable' \subseteq Children
      /\ \A s \in Threads \ {x} : /\ handle'[s] = handle[s] /\ state'[s] = state[s]
                                  /\ mem'[s] = mem[s] /\ os'[s] = os[s]
                                  /\ (s \in open') = (s \in open)
                                  /\ (s \in joinable') = (s \in joinable)
  BY <1>0, <1>1, <1>2, <1>x DEF Types
<1>5. Frame(t, home[t], None, None, "body")
  BY <1>0, <1>1, FrameSame
<1>6. call'[t] = None /\ at'[x] = "start"
  BY <1>1, <1>2, <1>5, FrameAt
<1>7. CreatorInv(t)'
  BY <1>6 DEF CreatorInv, None
<1>8. ChildInv(x)'
  <2>1. Place(x)' = "start" /\ "start" \in Own
    BY <1>6 DEF Place, InCall, SlotCalls, Creating, Naming, Own
  <2>2. /\ UNCHANGED <<fls, spare, noslot, mem, handle, open, state, result>>
        /\ mem[x] = "live" /\ state[x] \in {"JOINABLE", "DETACHED"} /\ fls[x] = None
        /\ x \notin noslot /\ ~result[x]
    BY <1>0, <1>3 DEF ChildInv, slotVars, heldVars
  <2> QED
    BY <1>3, <1>4, <2>1, <2>2 DEF ChildInv, SpareInv, None, Spare
<1>9. x \in joinable' <=> Takeable(x)'
  BY <1>0, <1>2, <1>3, <1>4, <1>6, <1>x DEF Takeable, ChildInv, SpareInv
<1> QED
  BY <1>0, <1>1, <1>4, <1>5, <1>7, <1>8, <1>9, <1>x, CreateStep DEF Types

-----------------------------------------------------------------------------
(* pthread_join, pthread_detach *)

\* What a caller knows of the thread it names: it is itself, or has a record that
\* nobody else will take.
LEMMA Named ==
  ASSUME IndInv, NEW t \in Threads, os[t] = "running", at[t] \in Naming,
         NEW x, x = target[t]
  PROVE  /\ x \in Threads /\ os[x] \in {"running", "ended"} /\ call[t] = None
         /\ x = t => /\ at[t] \in {"join", "wait", "detach"}
                     /\ fls[t] = t => at[t] # "wait"
                     /\ fls[t] # t => t \in Children
                     /\ state[t] \in {"JOINABLE", "DETACHED"}
                     /\ handle[t] = None => state[t] = "DETACHED"
         /\ x # t => x \in Children /\ handle[x] = "set"
         /\ Holds(t, x) => /\ Takeable(x) /\ x \notin joinable
                           /\ \A s \in Threads \ {t} : ~Holds(s, x)
<1>1. exiting = FALSE /\ Types /\ SlotInv /\ \A s \in Threads : CallInv(s) /\ Live(s)
  BY Alive DEF Naming
<1>2. x \in Threads /\ call[t] = None
  BY <1>1 DEF CallInv
<1>3. x # t => Holds(t, x)
  BY DEF Holds
<1>4. Holds(t, x) => Takeable(x) /\ x \notin joinable /\ \A s \in Threads \ {t} : ~Holds(s, x)
  BY <1>1 DEF Live, ClaimInv
<1>5. x # t => x \in Children /\ handle[x] = "set" /\ os[x] \in {"running", "ended"}
  BY <1>1, <1>2, <1>3, <1>4 DEF Takeable, Live, ChildInv, SpareInv
<1>6. x = t => /\ at[t] \in {"join", "wait", "detach"}
               /\ fls[t] = t => at[t] # "wait"
               /\ fls[t] # t => t \in Children
  BY <1>1 DEF Live, ClaimInv
<1>7. ASSUME x = t
      PROVE  state[t] \in {"JOINABLE", "DETACHED"} /\ (handle[t] = None => state[t] = "DETACHED")
  <2>1. Place(t) \in {"body", "destructors", "leave", "callback"}
    BY <1>1 DEF Place, InCall, Types
  <2>2. CASE t \in Foreign
    BY <1>1, <1>6, <1>7, <2>2, ThreadsAssumption DEF Live, ForeignInv
  <2>3. CASE t \in Children
    BY <1>1, <1>6, <1>7, <2>1, <2>3 DEF Live, ChildInv, SpareInv, None
  <2> QED
    BY <2>2, <2>3 DEF Threads
<1> QED
  BY <1>2, <1>3, <1>4, <1>5, <1>6, <1>7

\* A step of a caller on the record of the thread it names.
LEMMA NameStep ==
  ASSUME IndInv, NEW t \in Threads, os[t] = "running",
         at[t] \in Naming \cup {"body", "destructors", "leave", "callback"},
         UNCHANGED <<slotVars, handle, result, os, exiting>>,
         NEW x \in Threads, os[x] \in {"running", "ended"},
         \A s \in Threads \ {x} : /\ mem'[s] = mem[s] /\ state'[s] = state[s]
                                  /\ (s \in open') = (s \in open)
                                  /\ (s \in joinable') = (s \in joinable),
         NEW l, NEW r, NEW h, Frame(t, l, None, r, h),
         \/ l \in Naming /\ r \in Threads /\ h = Place(t)
         \/ l = home[t] /\ r = None /\ h = "body" /\ at[t] \in Naming,
         mem' \in [Threads -> {"none", "live", "freed"}],
         state' \in [Threads -> {None, "JOINABLE", "DETACHED", "EXITED"}],
         open' \subseteq Children, joinable' \subseteq Children,
         Place(x)' = Place(x) =>
           (x \in Foreign => ForeignInv(x)') /\ (x \in Children => ChildInv(x)'),
         \A s \in Threads : ClaimInv(s)' /\ TakerInv(s)'
  PROVE  IndInv'
<1>1. exiting = FALSE /\ Types /\ SlotInv /\ \A s \in Threads : CallInv(s) /\ Live(s)
  BY Alive DEF Naming
<1>2. /\ at'[t] = l /\ call'[t] = None /\ target'[t] = r /\ home'[t] = h
      /\ \A s \in Threads \ {t} : /\ at'[s] = at[s] /\ call'[s] = call[s]
                                  /\ target'[s] = target[s] /\ home'[s] = home[s]
  BY <1>1, FrameAt
<1>3. /\ home[t] \in {"body", "destructors", "leave", "callback"} /\ Place(t) \in {"body", "destructors", "leave", "callback"}
      /\ l \in InCall \cup Own /\ r \in Threads \cup {None}
      /\ h \in {"body", "destructors", "leave", "callback"}
      /\ l \in Naming \cup {"body", "destructors", "leave", "callback"}
  BY <1>1 DEF Types, Place, InCall, Own, SlotCalls, Creating, Naming
<1>4. Types'
  <2>1. /\ at' \in [Threads -> InCall \cup Own]
        /\ call' \in [Threads -> {None, "self", "create", "exit"}]
        /\ target' \in [Threads -> Threads \cup {None}]
        /\ home' \in [Threads -> {"body", "destructors", "leave", "callback"}]
    BY <1>1, <1>3, FrameType
  <2> QED
    BY <1>1, <2>1 DEF Types, slotVars, heldVars
<1>5. ASSUME NEW s \in Threads PROVE CallInv(s)'
  <2>1. CASE s = t
    BY <1>2, <1>3, <2>1 DEF CallInv, Own, Naming, Creating, None
  <2>2. CASE s # t
    BY <1>1, <1>2, <2>2 DEF CallInv
  <2> QED
    BY <2>1, <2>2
<1>6. SlotInv'
  <2>1. OneIndex'
    BY <1>1, <1>2, <1>3 DEF SlotInv, OneIndex, slotVars, heldVars, Types, Naming
  <2> QED
    BY <1>1, <1>2, <1>3, <2>1 DEF SlotInv, slotVars, heldVars, Naming, Creating
<1>7. \A s \in Threads : Place(s)' = Place(s)
  BY <1>1, <1>2, <1>3 DEF Place, InCall, Creating, SlotCalls, Naming
<1>8. ASSUME NEW s \in Threads
      PROVE  (s \in Foreign => ForeignInv(s)') /\ (s \in Children => ChildInv(s)')
  <2>1. CASE s = x
    BY <1>7, <2>1
  <2>2. CASE s # x /\ s = t
    BY <1>1, <1>7, <2>2 DEF Live, ForeignInv, ChildInv, SpareInv, slotVars, heldVars
  <2>3. CASE s # x /\ s # t
    BY <1>1, <1>2, <1>7, <2>3 DEF Live, ForeignInv, ChildInv, SpareInv, slotVars, heldVars
  <2> QED
    BY <2>1, <2>2, <2>3
<1>9. ASSUME NEW s \in Threads PROVE CreatorInv(s)'
  <2>1. CASE s = t
    BY <1>2, <2>1 DEF CreatorInv, None
  <2>2. CASE s # t
    <3>1. call[s] = "create" => at[s] \in {"FlsAlloc", "publish"} \cup Creating
      BY <1>1 DEF CallInv, Types, InCall, SlotCalls, None
    <3>2. call[s] = "create" => target[s] \in Threads \ {x}
      BY <1>1, <3>1 DEF Live, CreatorInv, CallInv, Threads, Creating
    <3> QED
      BY <1>1, <1>2, <2>2, <3>2 DEF Live, CreatorInv, None
  <2> QED
    BY <2>1, <2>2
<1> QED
  BY <1>1, <1>4, <1>5, <1>6, <1>8, <1>9 DEF IndInv, Live

\* A caller sets out to join or detach a thread, and is the only one that does.
LEMMA ClaimStepInv ==
  ASSUME IndInv, NEW t \in Threads, NEW l \in {"join", "detach"}, Claim(t, l)
  PROVE  IndInv'
<1>0. /\ os[t] = "running" /\ at[t] \in {"body", "destructors", "leave", "callback"}
      /\ home' = [home EXCEPT ![t] = at[t]] /\ at' = [at EXCEPT ![t] = l]
      /\ UNCHANGED <<self_slot, indices, fls, spare, noslot, mem, handle, open, state, result,
                     os, call, exiting>>
  BY DEF Claim, InClient, Go, slotVars, heldVars, recordVars
<1>1. exiting = FALSE /\ Types /\ SlotInv /\ \A s \in Threads : CallInv(s) /\ Live(s)
  BY <1>0, Alive
<1>2. PICK x \in Threads :
        /\ MayName(t, x, l)
        /\ joinable' = IF l = "join" /\ x = t THEN joinable ELSE joinable \ {x}
        /\ target' = [target EXCEPT ![t] = x]
  BY DEF Claim
<1>3. /\ at'[t] = l /\ target'[t] = x
      /\ \A s \in Threads \ {t} : at'[s] = at[s] /\ target'[s] = target[s]
      /\ at[t] \notin Naming /\ at'[t] \in Naming
  BY <1>0, <1>1, <1>2 DEF Types, Naming
<1>4. /\ Place(t) = at[t] /\ Place(t) \in {"body", "destructors", "leave", "callback"}
      /\ call[t] = None
      /\ Frame(t, l, None, x, Place(t))
  <2>1. Place(t) = at[t] /\ call[t] = None
    BY <1>0, <1>1 DEF Place, CallInv, Own, InCall, SlotCalls, Creating, Naming
  <2> QED
    BY <1>0, <1>1, <1>2, <2>1 DEF Frame, Types
<1>5. /\ x \in joinable \/ (x = t /\ fls[t] = t /\ (l = "detach" => state[x] = "DETACHED"))
      /\ x = t => fls[t] = t \/ t \in Children
      /\ x \in joinable => Takeable(x)
      /\ os[x] \in {"running", "ended"}
      /\ x = t /\ Takeable(x) => state[x] = "JOINABLE"
  <2>1. x = fls[t] => x = t
    BY <1>1, NamesAssumption DEF Types
  <2>2. x \in joinable => Takeable(x) /\ x \in Children
    BY <1>1 DEF Live, TakerInv, Takeable
  <2>3. x = t /\ x \in Children => state[t] \in {"JOINABLE", "DETACHED"}
    BY <1>0, <1>1, <1>4 DEF Live, ChildInv, SpareInv
  <2> QED
    BY <1>0, <1>2, <2>1, <2>2, <2>3 DEF MayName, Takeable
<1>6. \A y \in Threads : Takeable(y)' = Takeable(y)
  BY <1>0, <1>3 DEF Takeable
<1>7. \A s \in Threads \ {t} : \A y \in Threads : Holds(s, y)' = Holds(s, y)
  BY <1>0, <1>3 DEF Holds
<1>8. \A y \in Threads : ~Holds(t, y) /\ (Holds(t, y)' => y = x /\ x \in joinable)
  BY <1>0, <1>3, <1>5 DEF Holds
<1>9. x \in joinable /\ (x # t \/ l = "detach") => Holds(t, x)'
  BY <1>0, <1>3, <1>5 DEF Holds
<1>10. joinable' \subseteq joinable /\ (Holds(t, x)' => x \notin joinable')
  BY <1>0, <1>2, <1>3 DEF Holds
<1>11. ASSUME NEW s \in Threads PROVE ClaimInv(s)'
  <2>1. CASE s = t
    <3>1. \A s1 \in Threads \ {t} : x \in joinable => ~Holds(s1, x)
      BY <1>1 DEF Live, ClaimInv, Holds
    <3> QED
      BY <1>0, <1>3, <1>5, <1>6, <1>7, <1>8, <1>10, <2>1, <3>1 DEF ClaimInv
  <2>2. CASE s # t
    <3>1. at[s] \in Naming => target[s] \in Threads
      BY <1>1 DEF CallInv
    <3>2. at[s] = "reap" => target[s] # t
      BY <1>0, <1>1 DEF Live, ClaimInv, Naming
    <3> QED
      BY <1>0, <1>1, <1>3, <1>6, <1>7, <1>8, <1>10, <2>2, <3>1, <3>2 DEF Live, ClaimInv
  <2> QED
    BY <2>1, <2>2
<1>12. ASSUME NEW y \in Threads PROVE TakerInv(y)'
  <2>1. y \in joinable' => Takeable(y)'
    BY <1>1, <1>6, <1>10 DEF Live, TakerInv
  <2>2. ASSUME Takeable(y)' PROVE y \in joinable' \/ \E s \in Threads : Holds(s, y)'
    <3>1. y \in joinable \/ \E s \in Threads \ {t} : Holds(s, y)
      BY <1>1, <1>6, <1>8, <2>2 DEF Live, TakerInv
    <3>2. y \in joinable /\ y \notin joinable' => y = x /\ (x # t \/ l = "detach")
      BY <1>2
    <3> QED
      BY <1>7, <1>9, <3>1, <3>2
  <2> QED
    BY <2>1, <2>2 DEF TakerInv
<1>13. Place(x)' = Place(x) => (x \in Foreign => ForeignInv(x)') /\ (x \in Children => ChildInv(x)')
  BY <1>0, <1>1, <1>5 DEF Live, ForeignInv, ChildInv, SpareInv
<1>14. /\ \A s \in Threads \ {x} : (s \in joinable') = (s \in joinable)
       /\ joinable' \subseteq Children
  BY <1>1, <1>2 DEF Types
<1> QED
  BY <1>0, <1>1, <1>3, <1>4, <1>5, <1>11, <1>12, <1>13, <1>14, NameStep DEF Types, slotVars, heldVars

\* A caller goes on to wait for a thread, or to take its record.
LEMMA NameOn ==
  ASSUME IndInv, NEW t \in Threads, os[t] = "running", at[t] \in Naming,
         UNCHANGED <<slotVars, recordVars, os, joinable, exiting>>,
         NEW x, x = target[t], NEW l \in {"wait", "reap"},
         x = t => l = "wait" /\ at[t] # "detach" /\ fls[t] # t /\ t \in Children,
         l = "reap" => at[x] = "ExitThread" /\ (result[x] \/ os[x] = "ended"),
         Go(t, l), UNCHANGED callVars
  PROVE  IndInv'
<1>0. UNCHANGED <<fls, spare, noslot, mem, handle, open, state, result, os, joinable, exiting>>
  BY DEF recordVars, slotVars, heldVars
<1>1. exiting = FALSE /\ Types /\ SlotInv /\ \A s \in Threads : CallInv(s) /\ Live(s)
  BY Alive DEF Naming
<1>2. /\ x \in Threads /\ os[x] \in {"running", "ended"} /\ call[t] = None
  BY Named
<1>3. Frame(t, l, None, x, home[t]) /\ Place(t) = home[t] /\ l \in Naming
  BY <1>1, <1>2, FrameSame DEF Place, InCall, Naming
<1>4. /\ at'[t] = l /\ target'[t] = x
      /\ \A s \in Threads \ {t} : at'[s] = at[s] /\ target'[s] = target[s]
  BY <1>1, <1>3, FrameAt
<1>5. \A y \in Threads : Takeable(y)' = Takeable(y)
  BY <1>0, <1>4 DEF Takeable, Naming
<1>6. \A s, y \in Threads : Holds(s, y)' = Holds(s, y)
  BY <1>0, <1>3, <1>4 DEF Holds
<1>7. ASSUME NEW s \in Threads PROVE ClaimInv(s)' /\ TakerInv(s)'
  <2>1. TakerInv(s)'
    BY <1>0, <1>1, <1>5, <1>6 DEF Live, TakerInv
  <2>2. CASE s = t
    BY <1>0, <1>1, <1>2, <1>3, <1>4, <1>5, <1>6, <2>1, <2>2 DEF Live, ClaimInv
  <2>3. CASE s # t
    <3>1. at[s] \in Naming => target[s] \in Threads
      BY <1>1 DEF CallInv
    <3>2. at[s] = "reap" => target[s] # t
      BY <1>1 DEF Live, ClaimInv, Naming
    <3> QED
      BY <1>0, <1>1, <1>4, <1>5, <1>6, <2>1, <2>3, <3>1, <3>2 DEF Live, ClaimInv
  <2> QED
    BY <2>2, <2>3, <2>1
<1>8. Place(x)' = Place(x) => (x \in Foreign => ForeignInv(x)') /\ (x \in Children => ChildInv(x)')
  BY <1>0, <1>1, <1>2 DEF Live, ForeignInv, ChildInv, SpareInv
<1> QED
  BY <1>0, <1>1, <1>2, <1>3, <1>7, <1>8, NameStep DEF Types

\* A caller that has nothing of the record returns; it named itself.
LEMMA NameReturn ==
  ASSUME IndInv, NEW t \in Threads, os[t] = "running", at[t] \in Naming,
         UNCHANGED <<slotVars, recordVars, os, joinable, exiting>>,
         ~Holds(t, target[t]), Return(t)
  PROVE  IndInv'
<1>0. UNCHANGED <<fls, spare, noslot, mem, handle, open, state, result, os, joinable, exiting>>
  BY DEF recordVars, slotVars, heldVars
<1>1. exiting = FALSE /\ Types /\ SlotInv /\ \A s \in Threads : CallInv(s) /\ Live(s)
  BY Alive DEF Naming
<1>2. Frame(t, home[t], None, None, "body") /\ home[t] \in {"body", "destructors", "leave", "callback"}
  BY <1>1, FrameSame DEF Types
<1>3. /\ at'[t] = home[t] /\ target'[t] = None
      /\ \A s \in Threads \ {t} : at'[s] = at[s] /\ target'[s] = target[s]
  BY <1>1, <1>2, FrameAt
<1>4. \A y \in Threads : Takeable(y)' = Takeable(y)
  BY <1>0, <1>2, <1>3 DEF Takeable, Naming
<1>5. \A s, y \in Threads : Holds(s, y)' = Holds(s, y)
  BY <1>0, <1>2, <1>3 DEF Holds, Naming
<1>6. ASSUME NEW s \in Threads PROVE ClaimInv(s)' /\ TakerInv(s)'
  <2>1. TakerInv(s)'
    BY <1>0, <1>1, <1>4, <1>5 DEF Live, TakerInv
  <2>2. CASE s = t
    BY <1>2, <1>3, <2>1, <2>2 DEF ClaimInv, Naming
  <2>3. CASE s # t
    <3>1. at[s] \in Naming => target[s] \in Threads
      BY <1>1 DEF CallInv
    <3>2. at[s] = "reap" => target[s] # t
      BY <1>1 DEF Live, ClaimInv, Naming
    <3> QED
      BY <1>0, <1>1, <1>3, <1>4, <1>5, <2>1, <2>3, <3>1, <3>2 DEF Live, ClaimInv
  <2> QED
    BY <2>2, <2>3
<1>7. Place(t)' = Place(t) => (t \in Foreign => ForeignInv(t)') /\ (t \in Children => ChildInv(t)')
  BY <1>0, <1>1 DEF Live, ForeignInv, ChildInv, SpareInv
<1> QED
  BY <1>0, <1>1, <1>2, <1>6, <1>7, NameStep DEF Types

\* pthread_join refuses the thread, or goes on to wait for it.
LEMMA JoinCheckInv == ASSUME IndInv, NEW t \in Threads, JoinCheck(t) PROVE IndInv'
<1>0. /\ os[t] = "running" /\ at[t] = "join" /\ at[t] \in Naming
      /\ UNCHANGED <<slotVars, recordVars, os, joinable, exiting>>
  BY DEF JoinCheck, Runs, Naming
<1>x. PICK x : x = target[t]
  OBVIOUS
<1>1. exiting = FALSE /\ Types
  BY <1>0, Alive
<1>2. /\ x \in Threads
      /\ x = t /\ fls[t] # t => t \in Children
      /\ x # t => handle[x] = "set" /\ Takeable(x) /\ fls[t] # x
  BY <1>0, <1>x, <1>1, Named, NamesAssumption DEF Types, Holds
<1>3. CASE Return(t) /\ (fls[t] = x \/ handle[x] = None \/ state[x] = "DETACHED")
  <2>1. x = t
    BY <1>2, <1>3 DEF None, Takeable
  <2>2. ~Holds(t, x)
    BY <1>0, <2>1 DEF Holds
  <2> QED
    BY <1>0, <1>3, <2>2, <1>x, NameReturn
<1>4. CASE Go(t, "wait") /\ UNCHANGED callVars /\ x # fls[t]
  BY <1>0, <1>2, <1>4, <1>x, NameOn
<1> QED
  BY <1>3, <1>4, <1>x DEF JoinCheck

\* A thread that has ended has made its last access.
LEMMA JoinWaitInv == ASSUME IndInv, NEW t \in Threads, JoinWait(t) PROVE IndInv'
<1>0. /\ os[t] = "running" /\ at[t] = "wait" /\ at[t] \in Naming
      /\ UNCHANGED <<slotVars, recordVars, os, joinable, exiting>>
      /\ os[target[t]] = "ended" /\ Go(t, "reap") /\ UNCHANGED callVars
  BY DEF JoinWait, Runs, Naming, callVars
<1>x. PICK x : x = target[t]
  OBVIOUS
<1>1. exiting = FALSE /\ Types /\ \A s \in Threads : Live(s)
  BY <1>0, Alive
<1>2. x \in Threads /\ x # t /\ x \in Children
  <2>1. x # t
    BY <1>0, <1>x
  <2> QED
    BY <1>0, <1>x, <2>1, Named
<1>3. Place(x) = "ExitThread"
  BY <1>0, <1>x, <1>1, <1>2 DEF Live, ChildInv, SpareInv, Own
<1>4. at[x] = "ExitThread"
  BY <1>1, <1>2, <1>3 DEF Place, Types
<1> QED
  BY <1>0, <1>x, <1>2, <1>4, NameOn

\* The compare-exchange of pthread_detach: before the thread's own exchange it leaves
\* the record to the thread, after it takes the record.
LEMMA DetachStateInv == ASSUME IndInv, NEW t \in Threads, DetachState(t) PROVE IndInv'
<1>0. /\ os[t] = "running" /\ at[t] = "detach" /\ at[t] \in Naming
      /\ UNCHANGED <<self_slot, indices, fls, spare, noslot, mem, handle, open, result, os,
                     joinable, exiting>>
  BY DEF DetachState, Runs, Naming, slotVars, heldVars
<1>x. PICK x : x = target[t]
  OBVIOUS
<1>1. exiting = FALSE /\ Types /\ SlotInv /\ \A s \in Threads : CallInv(s) /\ Live(s)
  BY <1>0, Alive
<1>2. /\ x \in Threads /\ os[x] \in {"running", "ended"} /\ call[t] = None
      /\ x = t => /\ state[t] \in {"JOINABLE", "DETACHED"}
                  /\ handle[t] = None => state[t] = "DETACHED"
      /\ x # t => x \in Children /\ handle[x] = "set"
      /\ Holds(t, x) => /\ Takeable(x) /\ x \notin joinable
                        /\ \A s \in Threads \ {t} : ~Holds(s, x)
  BY <1>0, <1>x, Named
<1>3. Holds(t, x) <=> (x # t \/ state[x] = "JOINABLE")
  BY <1>0, <1>x DEF Holds
<1>4. CASE /\ handle[x] = None \/ state[x] = "DETACHED"
           /\ Return(t) /\ UNCHANGED state
  <2>1. ~Holds(t, x)
    BY <1>2, <1>3, <1>4, <1>1 DEF Takeable, None
  <2> QED
    BY <1>0, <1>4, <2>1, <1>x, NameReturn DEF slotVars, heldVars, recordVars
<1>5. CASE /\ handle[x] # None /\ state[x] \notin {"JOINABLE", "DETACHED"}
           /\ Go(t, "reap") /\ UNCHANGED callVars /\ UNCHANGED state
  <2>1. x # t /\ state[x] = "EXITED" /\ at[x] # "release"
    BY <1>2, <1>3, <1>5 DEF Takeable
  <2>2. at[x] = "ExitThread" /\ result[x]
    <3>1. ChildInv(x) /\ os[x] \in {"running", "ended"}
      BY <1>1, <1>2, <2>1 DEF Live
    <3>2. Place(x) \in {"release", "ExitThread"}
      BY <2>1, <3>1 DEF ChildInv, Own
    <3>3. Place(x) = "ExitThread" /\ at[x] = "ExitThread"
      BY <1>1, <1>2, <2>1, <3>2 DEF Place, Types
    <3> QED
      BY <2>1, <3>1, <3>3 DEF ChildInv
  <2> QED
    BY <1>0, <1>5, <2>1, <2>2, <1>x, NameOn DEF slotVars, heldVars, recordVars
<1>6. CASE /\ handle[x] # None /\ state[x] = "JOINABLE"
           /\ Return(t) /\ state' = [state EXCEPT ![x] = "DETACHED"]
  <2>1. Holds(t, x) /\ Takeable(x) /\ x \notin joinable /\ \A s \in Threads \ {t} : ~Holds(s, x)
    BY <1>2, <1>3, <1>6
  <2>2. Frame(t, home[t], None, None, "body") /\ home[t] \in {"body", "destructors", "leave", "callback"}
    BY <1>1, <1>6, FrameSame DEF Types
  <2>3. /\ at'[t] = home[t] /\ target'[t] = None
        /\ \A s \in Threads \ {t} : at'[s] = at[s] /\ target'[s] = target[s]
    BY <1>1, <2>2, FrameAt
  <2>4. /\ state' \in [Threads -> {None, "JOINABLE", "DETACHED", "EXITED"}]
        /\ state'[x] = "DETACHED" /\ \A s \in Threads \ {x} : state'[s] = state[s]
    BY <1>1, <1>2, <1>6 DEF Types
  <2>5. ~Takeable(x)' /\ \A y \in Threads \ {x} : Takeable(y)' = Takeable(y)
    BY <1>0, <2>2, <2>3, <2>4 DEF Takeable
  <2>6. /\ \A s \in Threads : \A y \in Threads \ {x} : Holds(s, y)' = Holds(s, y)
        /\ \A s \in Threads : ~Holds(s, x)'
    BY <1>0, <1>x, <2>1, <2>2, <2>3, <2>4 DEF Holds, Naming
  <2>7. ASSUME NEW s \in Threads PROVE ClaimInv(s)' /\ TakerInv(s)'
    <3>1. TakerInv(s)'
      BY <1>0, <1>1, <2>1, <2>5, <2>6 DEF Live, TakerInv
    <3>2. CASE s = t
      BY <2>2, <2>3, <3>1, <3>2 DEF ClaimInv, Naming
    <3>3. CASE s # t
      <4>1. at[s] \in Naming => target[s] \in Threads
        BY <1>1 DEF CallInv
      <4>2. at[s] = "reap" => target[s] # t
        BY <1>0, <1>1 DEF Live, ClaimInv, Naming
      <4> QED
        BY <1>0, <1>1, <2>3, <2>5, <2>6, <3>1, <3>3, <4>1, <4>2 DEF Live, ClaimInv
    <3> QED
      BY <3>2, <3>3
  <2>8. Place(x)' = Place(x) =>
          (x \in Foreign => ForeignInv(x)') /\ (x \in Children => ChildInv(x)')
    BY <1>0, <1>1, <1>2, <1>6, <2>4 DEF Live, ForeignInv, ChildInv, SpareInv
  <2> QED
    BY <1>0, <1>1, <1>2, <2>2, <2>4, <2>7, <2>8, NameStep DEF Types, slotVars, heldVars
<1> QED
  <2>1. \/ handle[x] = None /\ Return(t) /\ UNCHANGED state
        \/ /\ handle[x] # None /\ state[x] = "JOINABLE"
           /\ Return(t) /\ state' = [state EXCEPT ![x] = "DETACHED"]
        \/ state[x] = "DETACHED" /\ Return(t) /\ UNCHANGED state
        \/ /\ handle[x] # None /\ state[x] \notin {"JOINABLE", "DETACHED"}
           /\ Go(t, "reap") /\ UNCHANGED callVars /\ UNCHANGED state
    BY <1>x DEF DetachState, callVars
  <2> QED
    BY <1>4, <1>5, <1>6, <2>1

\* The record and the handle go, and with them the only claim to them.
LEMMA ReapInv == ASSUME IndInv, NEW t \in Threads, Reap(t) PROVE IndInv'
<1>0. /\ os[t] = "running" /\ at[t] = "reap" /\ at[t] \in Naming
      /\ open' = open \ {target[t]} /\ mem' = [mem EXCEPT ![target[t]] = "freed"] /\ Return(t)
      /\ UNCHANGED <<self_slot, indices, fls, spare, noslot, handle, state, result, os,
                     joinable, exiting>>
  BY DEF Reap, Runs, Naming, Free, slotVars, heldVars
<1>x. PICK x : x = target[t]
  OBVIOUS
<1>1. exiting = FALSE /\ Types /\ SlotInv /\ \A s \in Threads : CallInv(s) /\ Live(s)
  BY <1>0, Alive
<1>2. /\ x \in Threads /\ x # t /\ x \in Children /\ os[x] \in {"running", "ended"}
      /\ Holds(t, x) /\ x \notin joinable /\ at[x] = "ExitThread"
      /\ result[x] \/ os[x] = "ended"
      /\ \A s \in Threads \ {t} : ~Holds(s, x)
  <2>1. x \in Threads /\ x # t /\ x \in Children /\ os[x] \in {"running", "ended"}
    <3>1. x # t
      BY <1>0, <1>x, Named
    <3> QED
      BY <1>0, <1>x, <3>1, Named
  <2>2. Holds(t, x)
    BY <1>0, <1>x, <2>1 DEF Holds
  <2>3. at[x] = "ExitThread" /\ (result[x] \/ os[x] = "ended")
    BY <1>0, <1>1, <1>x DEF Live, ClaimInv
  <2> QED
    BY <1>0, <1>x, <2>1, <2>2, <2>3, Named
<1>3. Frame(t, home[t], None, None, "body") /\ home[t] \in {"body", "destructors", "leave", "callback"}
  BY <1>0, <1>1, FrameSame DEF Types
<1>4. /\ at'[t] = home[t] /\ target'[t] = None
      /\ \A s \in Threads \ {t} : at'[s] = at[s] /\ target'[s] = target[s]
  BY <1>1, <1>3, FrameAt
<1>5. /\ mem' \in [Threads -> {"none", "live", "freed"}] /\ mem'[x] = "freed"
      /\ \A s \in Threads \ {x} : mem'[s] = mem[s] /\ (s \in open') = (s \in open)
      /\ open' \subseteq Children /\ x \notin open'
  BY <1>0, <1>1, <1>2, <1>x DEF Types
<1>6. ~Takeable(x)' /\ \A y \in Threads \ {x} : Takeable(y)' = Takeable(y)
  BY <1>0, <1>3, <1>4, <1>5 DEF Takeable
<1>7. /\ \A s \in Threads : \A y \in Threads \ {x} : Holds(s, y)' = Holds(s, y)
      /\ \A s \in Threads : ~Holds(s, x)'
  BY <1>0, <1>x, <1>2, <1>3, <1>4 DEF Holds, Naming
<1>8. ASSUME NEW s \in Threads PROVE ClaimInv(s)' /\ TakerInv(s)'
  <2>1. TakerInv(s)'
    BY <1>0, <1>1, <1>2, <1>6, <1>7 DEF Live, TakerInv
  <2>2. CASE s = t
    BY <1>3, <1>4, <2>1, <2>2 DEF ClaimInv, Naming
  <2>3. CASE s # t
    <3>1. at[s] \in Naming => target[s] \in Threads
      BY <1>1 DEF CallInv
    <3>2. at[s] = "reap" => target[s] # t
      BY <1>0, <1>1 DEF Live, ClaimInv, Naming
    <3> QED
      BY <1>0, <1>1, <1>4, <1>6, <1>7, <2>1, <2>3, <3>1, <3>2 DEF Live, ClaimInv
  <2> QED
    BY <2>2, <2>3
<1>9. Place(x) = "ExitThread" /\ x \notin Foreign
  BY <1>2, ThreadsAssumption DEF Place, InCall, SlotCalls, Creating, Naming
<1>10. Place(x)' = Place(x) => (x \in Foreign => ForeignInv(x)') /\ (x \in Children => ChildInv(x)')
  BY <1>0, <1>1, <1>2, <1>5, <1>9 DEF Live, ChildInv, SpareInv, Own
<1> QED
  BY <1>0, <1>1, <1>2, <1>3, <1>5, <1>8, <1>10, NameStep DEF Types, slotVars, heldVars

\* Every action, and a step that changes nothing, preserves the invariant.
LEMMA IndInvNext == ASSUME IndInv, [Next]_vars PROVE IndInv'
<1>1. CASE UNCHANGED vars
  BY <1>1 DEF vars, IndInv, Types, CallInv, SlotInv, OneIndex, ExitInv, Live, ForeignInv, ChildInv, SpareInv,
              CreatorInv, ClaimInv, TakerInv, Takeable, Holds, Place
<1>2. ASSUME NEW t \in Threads, Calls(t) PROVE IndInv'
  <2>1. CASE PthreadSelf(t) \/ Create(t) \/ PthreadExit(t)
    BY <2>1, CallsInv
  <2>2. CASE ProcessExit(t)
    BY <2>2, ProcessExitInv
  <2>3. CASE PthreadJoin(t) \/ PthreadDetach(t)
    BY <2>3, ClaimStepInv DEF PthreadJoin, PthreadDetach
  <2> QED
    BY <1>2, <2>1, <2>2, <2>3 DEF Calls
<1>3. ASSUME NEW t \in Threads, BodyReturns(t) \/ ForeignReturns(t) PROVE IndInv'
  BY <1>3, LeaveInv
<1>4. ASSUME NEW t \in Threads, Steps(t) PROVE IndInv'
  <2>1. CASE FlsAlloc(t)
    BY <2>1, FlsAllocInv
  <2>2. CASE Publish(t)
    BY <2>2, PublishInv
  <2>3. CASE Adopt(t)
    BY <2>3, AdoptInv
  <2>4. CASE NewRecord(t)
    BY <2>4, NewRecordInv
  <2>5. CASE CreateThread(t)
    BY <2>5, CreateThreadInv
  <2>6. CASE SetHandle(t)
    BY <2>6, SetHandleInv
  <2>7. CASE Resume(t)
    BY <2>7, ResumeInv
  <2>8. CASE Exit(t) \/ Leave(t)
    BY <2>8, LeaveInv
  <2>9. CASE Start(t) \/ Finish(t) \/ ClearSlot(t) \/ ExchangeState(t) \/ ReleaseSelf(t)
    BY <2>9, ThreadStepInv
  <2>10. CASE EndThread(t)
    BY <2>10, EndThreadInv
  <2>11. CASE JoinCheck(t)
    BY <2>11, JoinCheckInv
  <2>12. CASE JoinWait(t)
    BY <2>12, JoinWaitInv
  <2>13. CASE DetachState(t)
    BY <2>13, DetachStateInv
  <2>14. CASE Reap(t)
    BY <2>14, ReapInv
  <2>15. CASE Callback(t)
    BY <2>15, CallbackInv
  <2> QED
    BY <1>4, <2>1, <2>2, <2>3, <2>4, <2>5, <2>6, <2>7, <2>8, <2>9, <2>10, <2>11, <2>12,
       <2>13, <2>14, <2>15 DEF Steps
<1> QED
  BY <1>1, <1>2, <1>3, <1>4 DEF Next

\* The invariant holds in every state of every behaviour.
LEMMA IndInvAlways == Spec => []IndInv
  BY IndInvInit, IndInvNext, PTL DEF Spec

\* Each record stays in the slot of its own thread and only pthread_create's threads
\* have handles, whatever the threads call and whichever call fails.
THEOREM TypeCorrect == Spec => []TypeOK
<1>1. IndInv => TypeOK
  BY DEF IndInv, Types, TypeOK
<1> QED
  BY <1>1, IndInvAlways, PTL

\* One index is published, and an allocation that lost the race is freed.
THEOREM OneSlot == Spec => []OneIndex
<1>1. IndInv => OneIndex
  BY DEF IndInv, SlotInv
<1> QED
  BY <1>1, IndInvAlways, PTL

\* No running thread reaches a record that was freed, for any number of threads that
\* create, join, detach and end one another.
THEOREM RecordsLive == Spec => []NoUseAfterFree
<1>1. ASSUME IndInv, NEW t \in Threads, os[t] = "running", fls[t] = Spare
      PROVE  spare[t] = "live"
  <2>1. t \in Children
    BY <1>1 DEF IndInv, Types
  <2>2. exiting => spare[t] = "live"
    BY <1>1 DEF IndInv, ExitInv
  <2>3. ~exiting => spare[t] = "live"
    BY <1>1, <2>1 DEF IndInv, Live, ChildInv, SpareInv
  <2> QED
    BY <2>2, <2>3
<1>2. ASSUME IndInv, NEW t \in Threads, os[t] = "running", NEW r \in Touches(t)
      PROVE  mem[r] = "live"
  <2>t. Types /\ r \in Threads /\ fls[t] \in {t, None, Spare}
    BY <1>2 DEF IndInv, Types, Touches
  <2>s. r = fls[t] => r = t
    BY <2>t, NamesAssumption
  <2>1. CASE exiting
    <3>1. at[t] = "ExitThread" /\ (fls[t] = t => mem[t] = "live")
      BY <1>2, <2>1 DEF IndInv, ExitInv
    <3> QED
      BY <1>2, <2>s, <3>1 DEF Touches
  <2>2. CASE ~exiting
    <3>0. Live(t) /\ CallInv(t) /\ at[t] \in InCall \cup Own
      BY <1>2, <2>t, <2>2 DEF IndInv, Types
    <3>1. CASE r = fls[t]
      <4>1. r = t /\ fls[t] = t /\ t # None /\ t # Spare
        BY <2>s, <3>1, NamesAssumption
      <4>2. CASE t \in Foreign
        BY <1>2, <3>0, <4>1, <4>2 DEF Live, ForeignInv
      <4>3. CASE t \in Children
        <5>1. ChildInv(t)
          BY <3>0, <4>3 DEF Live
        <5>2. Place(t) # "ExitThread"
          BY <1>2, <4>1, <5>1 DEF ChildInv
        <5> QED
          BY <1>2, <4>1, <5>1, <5>2 DEF ChildInv
      <4> QED
        BY <4>2, <4>3 DEF Threads
    <3>2. CASE r = t /\ at[t] \in {"start", "finish", "exchange", "release"}
      <4>1. Place(t) = at[t]
        BY <3>2 DEF Place, InCall, SlotCalls, Creating, Naming
      <4>2. CASE t \in Foreign
        BY <3>0, <3>2, <4>1, <4>2 DEF Live, ForeignInv
      <4>3. CASE t \in Children
        BY <1>2, <3>0, <3>2, <4>1, <4>3 DEF Live, ChildInv
      <4> QED
        BY <4>2, <4>3 DEF Threads
    <3>3. CASE r = target[t] /\ at[t] \in {"CreateThread", "handle", "resume"}
      <4>1. CreatorInv(t) /\ call[t] = "create" /\ r \in Children
        BY <3>0, <3>3 DEF Live, CallInv, Creating
      <4>2. ChildInv(r)
        BY <1>2, <2>t, <2>2, <4>1 DEF IndInv, Live
      <4> QED
        BY <3>3, <4>1, <4>2 DEF CreatorInv, ChildInv
    <3>4. CASE r = target[t] /\ at[t] \in Naming
      <4>1. ClaimInv(t)
        BY <3>0 DEF Live
      <4>2. CASE r = t /\ fls[t] = t
        BY <3>1, <4>2
      <4>3. CASE r = t /\ fls[t] # t
        <5>1. t \in Children /\ ChildInv(t)
          BY <3>0, <3>4, <4>1, <4>3 DEF ClaimInv, Live
        <5>2. Place(t) # "ExitThread"
          BY <2>t, <3>4 DEF Place, InCall, Types
        <5> QED
          BY <1>2, <4>3, <5>1, <5>2 DEF ChildInv
      <4>4. CASE r # t
        BY <3>4, <4>1, <4>4 DEF ClaimInv, Holds, Takeable
      <4> QED
        BY <4>2, <4>3, <4>4
    <3> QED
      BY <1>2, <3>1, <3>2, <3>3, <3>4 DEF Touches, Naming
  <2> QED
    BY <2>1, <2>2
<1>3. IndInv => NoUseAfterFree
  BY <1>1, <1>2 DEF NoUseAfterFree
<1> QED
  BY <1>3, IndInvAlways, PTL

\* A thread that ended and that nobody may join or detach any more leaves neither its
\* record nor its handle behind, but for the two cases of a thread whose record did not
\* get into its slot: a detached one that left by pthread_exit, and the second record of
\* one whose routine returned.
THEOREM NoLeak == Spec => []NothingLeaks
<1>1. ASSUME IndInv, NEW t \in Threads, ~exiting, os[t] = "ended", Settled(t)
      PROVE  /\ mem[t] = "live" \/ t \in open => Skipped(t) /\ state[t] = "DETACHED"
             /\ spare[t] = "live" => t \in noslot /\ result[t]
  <2>0. Types /\ Live(t)
    BY <1>1 DEF IndInv
  <2>1. CASE t \in Foreign
    <3>1. t \notin Children
      BY <2>1, ThreadsAssumption
    <3> QED
      BY <1>1, <2>0, <2>1, <3>1 DEF Live, ForeignInv, Types
  <2>2. CASE t \in Children
    <3>1. ~Takeable(t)
      BY <1>1, <2>0 DEF Live, TakerInv, Settled, Holds
    <3>2. ChildInv(t)
      BY <2>0, <2>2 DEF Live
    <3>3. Place(t) = "ExitThread"
      BY <1>1, <3>2 DEF ChildInv, Own
    <3>4. at[t] # "release"
      BY <3>3 DEF Place, InCall, SlotCalls, Creating, Naming
    <3>5. mem[t] = "live" => state[t] \notin {"JOINABLE", "EXITED"}
      BY <1>1, <2>2, <3>1, <3>4 DEF Takeable
    <3>6. mem[t] = "live" => Skipped(t) /\ state[t] = "DETACHED"
      BY <1>1, <3>2, <3>3, <3>5 DEF ChildInv, Skipped
    <3>7. t \in open => mem[t] = "live"
      BY <3>2 DEF ChildInv
    <3>8. spare[t] = "live" => t \in noslot /\ result[t]
      BY <1>1, <3>2 DEF ChildInv, SpareInv
    <3> QED
      BY <3>6, <3>7, <3>8
  <2> QED
    BY <2>1, <2>2 DEF Threads
<1>2. IndInv => NothingLeaks
  BY <1>1 DEF NothingLeaks
<1> QED
  BY <1>2, IndInvAlways, PTL

\* pthread_join and pthread_detach take a record over only when its thread has made its
\* last access, and stored its result unless its pthread_exit skipped `finish`, when the
\* thread has ended altogether.
THEOREM TakenOver == Spec => []TakenWhenDone
<1>1. ASSUME IndInv, NEW t \in Threads, os[t] = "running", at[t] = "reap"
      PROVE  /\ at[target[t]] = "ExitThread"
             /\ result[target[t]] \/ (Skipped(target[t]) /\ os[target[t]] = "ended")
  <2>1. ~exiting
    BY <1>1 DEF IndInv, ExitInv
  <2>2. CallInv(t) /\ Live(t)
    BY <1>1, <2>1 DEF IndInv
  <2>3. at[t] \in Naming /\ target[t] \in Threads /\ ClaimInv(t)
    BY <1>1, <2>2 DEF CallInv, Live, Naming
  <2>4. /\ at[target[t]] = "ExitThread" /\ target[t] # t
        /\ result[target[t]] \/ os[target[t]] = "ended"
    BY <1>1, <2>3 DEF ClaimInv
  <2>5. Takeable(target[t])
    BY <2>3, <2>4 DEF ClaimInv, Holds
  <2>6. ChildInv(target[t]) /\ os[target[t]] \in {"running", "ended"}
    BY <1>1, <2>1, <2>3, <2>5 DEF IndInv, Live, Takeable
  <2>7. Place(target[t]) = "ExitThread"
    BY <2>4 DEF Place, InCall, SlotCalls, Creating, Naming
  <2> QED
    BY <2>4, <2>6, <2>7 DEF ChildInv, Skipped
<1>2. IndInv => TakenWhenDone
  BY <1>1 DEF TakenWhenDone
<1> QED
  BY <1>2, IndInvAlways, PTL
=============================================================================
