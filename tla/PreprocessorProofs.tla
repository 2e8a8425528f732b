------------------------ MODULE PreprocessorProofs --------------------------
(* The line pass of the preprocessor, for any texts and any diagnostics: the  *)
(* conditional stack, the level of a diagnostic at every line, types, and the *)
(* silence of a file whose include guard is registered.                       *)
EXTENDS Preprocessor, FiniteSetTheorems, TLAPS

-----------------------------------------------------------------------------
(* The control of diagnostics: what each operation leaves of a lookup *)

AllLevels == Levels \cup {CmdLine}
Event == [at : Nat, level : AllLevels]
Extent == [from : Nat, to : Nat \cup {OpenEnd}]

Control ==
  [events     : [Codes -> Seq(Event)],
   suppressed : [Codes -> Seq(Extent)],
   once       : [Codes -> Nat \cup {OpenEnd}],
   stack      : Seq([Codes -> AllLevels]),
   open       : SUBSET Codes]

\* Nothing of the control lies past offset n, and the last extent of a code is open
\* exactly while the code is among the open ones.
Placed(ctl, n) ==
  \A c \in Codes :
    /\ \A k \in 1..Len(ctl.events[c]) : ctl.events[c][k].at <= n
    /\ \A k \in 1..Len(ctl.suppressed[c]) : ctl.suppressed[c][k].from <= n
    /\ c \in ctl.open => Len(ctl.suppressed[c]) > 0 /\ Last(ctl.suppressed[c]).to = OpenEnd
    /\ c \notin ctl.open /\ Len(ctl.suppressed[c]) > 0 =>
         Last(ctl.suppressed[c]).to \in Nat /\ Last(ctl.suppressed[c]).to <= n

\* The two controls give every code the same level at every offset below n.
SameBelow(old, new, n) ==
  \A c \in Codes : \A x \in Nat : x < n => LevelAt(new, c, x) = LevelAt(old, c, x)

\* The binary search lands within the list, and at its end when nothing in it lies past
\* the offset.
LEMMA BeforeBound ==
  ASSUME NEW n \in Nat, NEW f, DOMAIN f = 1..n, NEW x \in Nat
  PROVE  /\ Before(f, x) \in 0..n
         /\ (\A k \in 1..n : f[k] <= x) => Before(f, x) = n
<1> DEFINE T == {k \in DOMAIN f : f[k] <= x}
<1>1. IsFiniteSet(1..n) /\ Cardinality(1..n) = n
  BY FS_Interval
<1>2. T \subseteq 1..n
  OBVIOUS
<1>3. IsFiniteSet(T) /\ Cardinality(T) <= n
  BY <1>1, <1>2, FS_Subset
<1>4. Cardinality(T) \in Nat
  BY <1>3, FS_CardinalityType
<1>5. (\A k \in 1..n : f[k] <= x) => T = 1..n
  OBVIOUS
<1>6. Before(f, x) = Cardinality(T)
  BY DEF Before
<1> HIDE DEF T
<1> QED
  BY <1>1, <1>3, <1>4, <1>5, <1>6

\* What is added past the offset is not found.
LEMMA BeforeSame ==
  ASSUME NEW n \in Nat, NEW m \in Nat, n <= m, NEW f, DOMAIN f = 1..n, NEW g, DOMAIN g = 1..m,
         NEW x \in Nat,
         \A k \in 1..n : g[k] = f[k],
         \A k \in (n + 1)..m : ~(g[k] <= x)
  PROVE  Before(g, x) = Before(f, x)
<1>1. {k \in DOMAIN g : g[k] <= x} = {k \in DOMAIN f : f[k] <= x}
  OBVIOUS
<1> QED
  BY <1>1 DEF Before

\* The fields of a control.
LEMMA ControlFields ==
  ASSUME NEW ctl \in Control
  PROVE  /\ ctl.events \in [Codes -> Seq(Event)]
         /\ ctl.suppressed \in [Codes -> Seq(Extent)]
         /\ ctl.once \in [Codes -> Nat \cup {OpenEnd}]
         /\ ctl.stack \in Seq([Codes -> AllLevels])
         /\ ctl.open \subseteq Codes
BY DEF Control

\* The level of a code depends on its events and its extents only.
LEMMA LevelFields ==
  ASSUME NEW old, NEW new, NEW c \in Codes, NEW x,
         new.events[c] = old.events[c], new.suppressed[c] = old.suppressed[c]
  PROVE  LevelAt(new, c, x) = LevelAt(old, c, x)
BY DEF LevelAt, IsSuppressed

\* At an offset nothing lies past, the level is the one the last pragma left, and
\* "ignore" while an extent is open.
LEMMA LevelNow ==
  ASSUME NEW ctl \in Control, NEW n \in Nat, Placed(ctl, n), NEW c \in Codes
  PROVE  LevelAt(ctl, c, n) = IF c \in ctl.open THEN "ignore"
                              ELSE IF Current(ctl, c) = CmdLine THEN BaseLevel[c]
                              ELSE Current(ctl, c)
<1> DEFINE ev == ctl.events[c]
           ex == ctl.suppressed[c]
           i == Before([k \in DOMAIN ev |-> ev[k].at], n)
           j == Before([k \in DOMAIN ex |-> ex[k].from], n)
<1>1. ev \in Seq(Event) /\ ex \in Seq(Extent)
  BY ControlFields
<1>2. i = Len(ev)
  <2>1. DOMAIN [k \in DOMAIN ev |-> ev[k].at] = 1..Len(ev) /\ Len(ev) \in Nat
    BY <1>1
  <2>2. \A k \in 1..Len(ev) : [m \in DOMAIN ev |-> ev[m].at][k] <= n
    BY <1>1 DEF Placed
  <2> QED
    BY <2>1, <2>2, BeforeBound
<1>3. j = Len(ex)
  <2>1. DOMAIN [k \in DOMAIN ex |-> ex[k].from] = 1..Len(ex) /\ Len(ex) \in Nat
    BY <1>1
  <2>2. \A k \in 1..Len(ex) : [m \in DOMAIN ex |-> ex[m].from][k] <= n
    BY <1>1 DEF Placed
  <2> QED
    BY <2>1, <2>2, BeforeBound
<1>4. IsSuppressed(ctl, c, n) <=> c \in ctl.open
  <2> DEFINE last == Last(ex)
  <2>1. IsSuppressed(ctl, c, n) <=> (Len(ex) > 0 /\ (last.to = OpenEnd \/ n < last.to))
    BY <1>3 DEF IsSuppressed, Last
  <2>2. c \in ctl.open => Len(ex) > 0 /\ last.to = OpenEnd
    BY DEF Placed
  <2>3. c \notin ctl.open /\ Len(ex) > 0 => last.to \in Nat /\ last.to <= n
    BY DEF Placed
  <2> HIDE DEF last, ex
  <2>4. c \notin ctl.open => ~(Len(ex) > 0 /\ (last.to = OpenEnd \/ n < last.to))
    BY <2>3 DEF OpenEnd
  <2> QED
    BY <2>1, <2>2, <2>4
<1>5. LevelAt(ctl, c, n) = IF IsSuppressed(ctl, c, n) THEN "ignore"
                           ELSE IF i = 0 \/ ev[i].level = CmdLine THEN BaseLevel[c] ELSE ev[i].level
  BY DEF LevelAt
<1>6. ev = <<>> <=> Len(ev) = 0
  BY <1>1
<1> QED
  BY <1>2, <1>4, <1>5, <1>6 DEF Current, Last

\* An event at n says nothing of the offsets before it.
LEMMA EventLater ==
  ASSUME NEW old \in Control, NEW new \in Control, NEW c \in Codes, NEW n \in Nat,
         NEW e \in Event, e.at = n,
         new.events[c] = Append(old.events[c], e), new.suppressed[c] = old.suppressed[c],
         NEW x \in Nat, x < n
  PROVE  LevelAt(new, c, x) = LevelAt(old, c, x)
<1> DEFINE ev == old.events[c]
           nv == new.events[c]
           i == Before([k \in DOMAIN ev |-> ev[k].at], x)
           j == Before([k \in DOMAIN nv |-> nv[k].at], x)
<1>1. ev \in Seq(Event) /\ nv \in Seq(Event) /\ Len(nv) = Len(ev) + 1 /\ Len(ev) \in Nat
      /\ DOMAIN ev = 1..Len(ev) /\ DOMAIN nv = 1..(Len(ev) + 1)
      /\ nv[Len(ev) + 1] = e /\ \A k \in 1..Len(ev) : nv[k] = ev[k]
  BY ControlFields
<1>2. i \in 0..Len(ev)
  BY <1>1, BeforeBound
<1>3. j = i
  <2> DEFINE f == [k \in DOMAIN ev |-> ev[k].at]
             g == [k \in DOMAIN nv |-> nv[k].at]
  <2>0. PICK m \in Nat : m = Len(ev)
    BY <1>1
  <2>1. DOMAIN f = 1..m /\ DOMAIN g = 1..(m + 1)
    BY <1>1, <2>0
  <2>2. \A k \in 1..m : g[k] = f[k]
    BY <1>1, <2>0
  <2>3. \A k \in (m + 1)..(m + 1) : ~(g[k] <= x)
    BY <1>1, <2>0
  <2>4. Before(g, x) = Before(f, x)
    <3> HIDE DEF f, g
    <3>1. m + 1 \in Nat /\ m <= m + 1
      OBVIOUS
    <3> QED
      BY <2>1, <2>2, <2>3, <3>1, BeforeSame
  <2> QED
    BY <2>4 DEF f, g
<1>4. IsSuppressed(new, c, x) <=> IsSuppressed(old, c, x)
  BY DEF IsSuppressed
<1>5. LevelAt(old, c, x) = IF IsSuppressed(old, c, x) THEN "ignore"
                           ELSE IF i = 0 \/ ev[i].level = CmdLine THEN BaseLevel[c] ELSE ev[i].level
  BY DEF LevelAt
<1>6. LevelAt(new, c, x) = IF IsSuppressed(new, c, x) THEN "ignore"
                           ELSE IF j = 0 \/ nv[j].level = CmdLine THEN BaseLevel[c] ELSE nv[j].level
  BY DEF LevelAt
<1>7. i = 0 \/ nv[i] = ev[i]
  BY <1>1, <1>2
<1> HIDE DEF i, j, ev, nv
<1> QED
  BY <1>3, <1>4, <1>5, <1>6, <1>7

\* The extents decide whether a code is suppressed; its events decide the rest.
LEMMA LevelSuppressed ==
  ASSUME NEW old, NEW new, NEW c \in Codes, NEW x, new.events[c] = old.events[c],
         IsSuppressed(new, c, x) <=> IsSuppressed(old, c, x)
  PROVE  LevelAt(new, c, x) = LevelAt(old, c, x)
<1> DEFINE lvl(ctl) == LET events == ctl.events[c]
                           i == Before([k \in DOMAIN events |-> events[k].at], x)
                       IN  IF i = 0 \/ events[i].level = CmdLine THEN BaseLevel[c]
                           ELSE events[i].level
<1>1. LevelAt(old, c, x) = IF IsSuppressed(old, c, x) THEN "ignore" ELSE lvl(old)
  BY DEF LevelAt
<1>2. LevelAt(new, c, x) = IF IsSuppressed(new, c, x) THEN "ignore" ELSE lvl(new)
  BY DEF LevelAt
<1>3. lvl(new) = lvl(old)
  OBVIOUS
<1> HIDE DEF lvl
<1> QED
  BY <1>1, <1>2, <1>3

\* An extent opened at n suppresses nothing before it.
LEMMA ExtentLater ==
  ASSUME NEW old \in Control, NEW new \in Control, NEW c \in Codes, NEW n \in Nat,
         NEW e \in Extent, e.from = n,
         new.suppressed[c] = Append(old.suppressed[c], e), new.events[c] = old.events[c],
         NEW x \in Nat, x < n
  PROVE  LevelAt(new, c, x) = LevelAt(old, c, x)
<1> DEFINE ex == old.suppressed[c]
           nx == new.suppressed[c]
           i == Before([k \in DOMAIN ex |-> ex[k].from], x)
           j == Before([k \in DOMAIN nx |-> nx[k].from], x)
<1>1. ex \in Seq(Extent) /\ nx \in Seq(Extent) /\ Len(nx) = Len(ex) + 1 /\ Len(ex) \in Nat
      /\ DOMAIN ex = 1..Len(ex) /\ DOMAIN nx = 1..(Len(ex) + 1)
      /\ nx[Len(ex) + 1] = e /\ \A k \in 1..Len(ex) : nx[k] = ex[k]
  BY ControlFields
<1>2. i \in 0..Len(ex)
  BY <1>1, BeforeBound
<1>3. j = i
  <2> DEFINE f == [k \in DOMAIN ex |-> ex[k].from]
             g == [k \in DOMAIN nx |-> nx[k].from]
  <2>0. PICK m \in Nat : m = Len(ex)
    BY <1>1
  <2>1. DOMAIN f = 1..m /\ DOMAIN g = 1..(m + 1)
    BY <1>1, <2>0
  <2>2. \A k \in 1..m : g[k] = f[k]
    BY <1>1, <2>0
  <2>3. \A k \in (m + 1)..(m + 1) : ~(g[k] <= x)
    BY <1>1, <2>0
  <2>4. Before(g, x) = Before(f, x)
    <3> HIDE DEF f, g
    <3>1. m + 1 \in Nat /\ m <= m + 1
      OBVIOUS
    <3> QED
      BY <2>1, <2>2, <2>3, <3>1, BeforeSame
  <2> QED
    BY <2>4 DEF f, g
<1>4. IsSuppressed(old, c, x) <=> (i > 0 /\ (ex[i].to = OpenEnd \/ x < ex[i].to))
  BY DEF IsSuppressed
<1>5. IsSuppressed(new, c, x) <=> (j > 0 /\ (nx[j].to = OpenEnd \/ x < nx[j].to))
  BY DEF IsSuppressed
<1>6. i > 0 => nx[i] = ex[i]
  BY <1>1, <1>2
<1>7. IsSuppressed(new, c, x) <=> IsSuppressed(old, c, x)
  <2> HIDE DEF i, j, ex, nx
  <2> QED
    BY <1>3, <1>4, <1>5, <1>6
<1> QED
  BY <1>7, LevelSuppressed

\* An open extent that is closed at n still suppresses what it did before n.
LEMMA ExtentClosed ==
  ASSUME NEW old \in Control, NEW new \in Control, NEW c \in Codes, NEW n \in Nat,
         Len(old.suppressed[c]) > 0, Last(old.suppressed[c]).to = OpenEnd,
         new.suppressed[c] = [old.suppressed[c] EXCEPT ![Len(old.suppressed[c])].to = n],
         new.events[c] = old.events[c],
         NEW x \in Nat, x < n
  PROVE  LevelAt(new, c, x) = LevelAt(old, c, x)
<1> DEFINE ex == old.suppressed[c]
           nx == new.suppressed[c]
           f == [k \in DOMAIN ex |-> ex[k].from]
           g == [k \in DOMAIN nx |-> nx[k].from]
           i == Before(f, x)
           j == Before(g, x)
<1>0. old.suppressed \in [Codes -> Seq(Extent)]
  BY ControlFields
<1>1. ex \in Seq(Extent) /\ Len(ex) \in Nat /\ DOMAIN ex = 1..Len(ex)
  BY <1>0
<1>2. /\ DOMAIN nx = 1..Len(ex)
      /\ nx[Len(ex)] = [ex[Len(ex)] EXCEPT !.to = n]
      /\ \A k \in 1..Len(ex) : k # Len(ex) => nx[k] = ex[k]
  BY <1>1
<1>3. ex[Len(ex)] \in Extent
  BY <1>1
<1>4. nx[Len(ex)].from = ex[Len(ex)].from /\ nx[Len(ex)].to = n
  BY <1>2, <1>3 DEF Extent
<1>5. f = g
  BY <1>1, <1>2, <1>4
<1>6. i \in 0..Len(ex) /\ j = i
  BY <1>1, <1>5, BeforeBound
<1>7. IsSuppressed(old, c, x) <=> (i > 0 /\ (ex[i].to = OpenEnd \/ x < ex[i].to))
  BY DEF IsSuppressed
<1>8. IsSuppressed(new, c, x) <=> (j > 0 /\ (nx[j].to = OpenEnd \/ x < nx[j].to))
  BY DEF IsSuppressed
<1>9. IsSuppressed(new, c, x) <=> IsSuppressed(old, c, x)
  <2>1. CASE i = Len(ex)
    <3>1. ex[i].to = OpenEnd /\ x < nx[i].to
      BY <1>4, <2>1 DEF Last
    <3> HIDE DEF i, j, ex, nx
    <3> QED
      BY <1>6, <1>7, <1>8, <3>1
  <2>2. CASE i # Len(ex)
    <3> HIDE DEF i, j, ex, nx
    <3>1. i > 0 => nx[i] = ex[i]
      BY <1>1, <1>2, <1>6, <2>2
    <3> QED
      BY <1>6, <1>7, <1>8, <3>1
  <2> QED
    BY <2>1, <2>2
<1> QED
  BY <1>9, LevelSuppressed

\* The stack of a control is set.
LEMMA SetStack ==
  ASSUME NEW ctl \in Control, NEW s \in Seq([Codes -> AllLevels]),
         NEW new, new = [ctl EXCEPT !.stack = s]
  PROVE  /\ new \in Control /\ new.stack = s
         /\ new.events = ctl.events /\ new.suppressed = ctl.suppressed /\ new.open = ctl.open
BY DEF Control

\* The events of a control are set.
LEMMA SetEvents ==
  ASSUME NEW ctl \in Control, NEW s \in [Codes -> Seq(Event)],
         NEW new, new = [ctl EXCEPT !.events = s]
  PROVE  /\ new \in Control /\ new.events = s
         /\ new.stack = ctl.stack /\ new.suppressed = ctl.suppressed /\ new.open = ctl.open
BY DEF Control

\* The offsets `once` holds from are set.
LEMMA SetOnce ==
  ASSUME NEW ctl \in Control, NEW s \in [Codes -> Nat \cup {OpenEnd}],
         NEW new, new = [ctl EXCEPT !.once = s]
  PROVE  /\ new \in Control /\ new.stack = ctl.stack
         /\ new.events = ctl.events /\ new.suppressed = ctl.suppressed /\ new.open = ctl.open
BY DEF Control

\* The end of a sequence after an append.
LEMMA AppendLast ==
  ASSUME NEW S, NEW t \in Seq(S), NEW e \in S
  PROVE  /\ Append(t, e) \in Seq(S) /\ Len(Append(t, e)) = Len(t) + 1
         /\ Append(t, e) # <<>> /\ Last(Append(t, e)) = e
<1>1. Append(t, e) \in Seq(S) /\ Len(Append(t, e)) = Len(t) + 1 /\ Len(t) \in Nat
  OBVIOUS
<1>2. Append(t, e)[Len(t) + 1] = e
  OBVIOUS
<1>3. Append(t, e) # <<>>
  BY <1>1
<1> QED
  BY <1>1, <1>2, <1>3 DEF Last

\* What an operation at offset n may do to a control.
Keeps(ctl, new, n) == new \in Control /\ Placed(new, n) /\ SameBelow(ctl, new, n)

\* A control with one more event at n for some of the codes.
LEMMA EventsKeep ==
  ASSUME NEW ctl \in Control, NEW n \in Nat, Placed(ctl, n), NEW new \in Control,
         new.suppressed = ctl.suppressed, new.open = ctl.open,
         \A c \in Codes : \/ new.events[c] = ctl.events[c]
                          \/ \E e \in Event : e.at = n /\ new.events[c] = Append(ctl.events[c], e)
  PROVE  Keeps(ctl, new, n)
<1>1. ASSUME NEW c \in Codes
      PROVE  /\ \A k \in 1..Len(new.events[c]) : new.events[c][k].at <= n
             /\ \A x \in Nat : x < n => LevelAt(new, c, x) = LevelAt(ctl, c, x)
  <2>1. CASE new.events[c] = ctl.events[c]
    BY <2>1, LevelFields DEF Placed
  <2>2. CASE \E e \in Event : e.at = n /\ new.events[c] = Append(ctl.events[c], e)
    <3>1. PICK e \in Event : e.at = n /\ new.events[c] = Append(ctl.events[c], e)
      BY <2>2
    <3>2. \A x \in Nat : x < n => LevelAt(new, c, x) = LevelAt(ctl, c, x)
      BY <3>1, EventLater
    <3>3. ctl.events[c] \in Seq(Event)
      BY ControlFields
    <3>4. \A k \in 1..Len(ctl.events[c]) : ctl.events[c][k].at <= n
      BY DEF Placed
    <3>5. ASSUME NEW s \in Seq(Event), \A k \in 1..Len(s) : s[k].at <= n
          PROVE  \A k \in 1..Len(Append(s, e)) : Append(s, e)[k].at <= n
      BY <3>1, <3>5
    <3> QED
      BY <3>1, <3>2, <3>3, <3>4, <3>5
  <2> QED
    BY <1>1, <2>1, <2>2
<1>2. Placed(new, n)
  BY <1>1 DEF Placed
<1> QED
  BY <1>1, <1>2 DEF Keeps, SameBelow

\* `#pragma ... ignored` and the like: the level from here on.
LEMMA RecordKeeps ==
  ASSUME NEW ctl \in Control, NEW n \in Nat, Placed(ctl, n), NEW c, NEW level \in AllLevels,
         NEW new, new = Record(ctl, n, c, level)
  PROVE  /\ Keeps(ctl, new, n) /\ new.stack = ctl.stack /\ new.open = ctl.open
         /\ \A d \in Codes : Current(new, d) = IF d = c THEN level ELSE Current(ctl, d)
<1>1. CASE c \notin Codes
  <2>1. new = ctl
    BY <1>1 DEF Record
  <2> QED
    BY <1>1, <2>1 DEF Keeps, SameBelow
<1>2. CASE c \in Codes
  <2> DEFINE e == [at |-> n, level |-> level]
             s == [ctl.events EXCEPT ![c] = Append(ctl.events[c], e)]
  <2>1. ctl.events \in [Codes -> Seq(Event)] /\ e \in Event
    BY ControlFields DEF Event
  <2>2. s \in [Codes -> Seq(Event)] /\ s[c] = Append(ctl.events[c], e)
        /\ \A d \in Codes \ {c} : s[d] = ctl.events[d]
    <3>1. Append(ctl.events[c], e) \in Seq(Event)
      BY <1>2, <2>1
    <3> HIDE DEF e
    <3> QED
      BY <1>2, <2>1, <3>1
  <2>3. new = [ctl EXCEPT !.events = s]
    BY <1>2 DEF Record
  <2>4. /\ new \in Control /\ new.events = s
        /\ new.stack = ctl.stack /\ new.suppressed = ctl.suppressed /\ new.open = ctl.open
    <3> HIDE DEF s
    <3> QED
      BY <2>2, <2>3, SetEvents
  <2>5. e.at = n /\ e.level = level
    OBVIOUS
  <2>6. Keeps(ctl, new, n)
    <3> HIDE DEF s, e
    <3>1. \A d \in Codes : \/ new.events[d] = ctl.events[d]
                           \/ e.at = n /\ new.events[d] = Append(ctl.events[d], e)
      BY <1>2, <2>2, <2>4, <2>5
    <3> QED
      BY <2>1, <2>4, <3>1, EventsKeep
  <2>7. Current(new, c) = level
    <3> HIDE DEF e, s
    <3>1. \A t \in Seq(Event) : Append(t, e) # <<>> /\ Last(Append(t, e)) = e
      BY <2>1, AppendLast
    <3> QED
      BY <1>2, <2>1, <2>2, <2>4, <2>5, <3>1 DEF Current
  <2>8. \A d \in Codes \ {c} : Current(new, d) = Current(ctl, d)
    <3> HIDE DEF e, s
    <3> QED
      BY <2>2, <2>4 DEF Current
  <2> QED
    BY <2>4, <2>6, <2>7, <2>8
<1> QED
  BY <1>1, <1>2

\* The current level of a code is one of the levels.
LEMMA CurrentType ==
  ASSUME NEW ctl \in Control, NEW c \in Codes
  PROVE  Current(ctl, c) \in AllLevels
<1>1. ctl.events[c] \in Seq(Event)
  BY ControlFields
<1>2. ASSUME NEW s \in Seq(Event), s # <<>> PROVE Last(s).level \in AllLevels
  <2>1. Last(s) \in Event
    BY <1>2 DEF Last
  <2> QED
    BY <2>1 DEF Event
<1> QED
  BY <1>1, <1>2 DEF Current, AllLevels

\* A push saves the levels in force and changes none.
LEMMA PushKeeps ==
  ASSUME NEW ctl \in Control, NEW n \in Nat, Placed(ctl, n), NEW new, new = PushLevels(ctl)
  PROVE  /\ Keeps(ctl, new, n) /\ new.open = ctl.open
         /\ new.stack = Append(ctl.stack, [c \in Codes |-> Current(ctl, c)])
         /\ \A d \in Codes : Current(new, d) = Current(ctl, d)
<1> DEFINE now == [c \in Codes |-> Current(ctl, c)]
           s == Append(ctl.stack, now)
<1>1. now \in [Codes -> AllLevels]
  BY CurrentType
<1>2. s \in Seq([Codes -> AllLevels])
  <2> HIDE DEF now
  <2>1. ctl.stack \in Seq([Codes -> AllLevels])
    BY ControlFields
  <2> QED
    BY <1>1, <2>1
<1>3. new = [ctl EXCEPT !.stack = s]
  BY DEF PushLevels
<1>4. /\ new \in Control /\ new.stack = s
      /\ new.events = ctl.events /\ new.suppressed = ctl.suppressed /\ new.open = ctl.open
  <2> HIDE DEF s
  <2> QED
    BY <1>2, <1>3, SetStack
<1> HIDE DEF s
<1>5. Keeps(ctl, new, n)
  BY <1>4, EventsKeep
<1>6. \A d \in Codes : Current(new, d) = Current(ctl, d)
  BY <1>4 DEF Current
<1> QED
  BY <1>4, <1>5, <1>6 DEF s

\* A pop puts back, for every code, the level the matching push saw.
LEMMA PopKeeps ==
  ASSUME NEW ctl \in Control, NEW n \in Nat, Placed(ctl, n), ctl.stack # <<>>,
         NEW new, new = PopLevels(ctl, n)
  PROVE  /\ Keeps(ctl, new, n) /\ new.open = ctl.open /\ new.stack = Front(ctl.stack)
         /\ \A d \in Codes : Current(new, d) = Last(ctl.stack)[d]
<1> DEFINE saved == Last(ctl.stack)
           ev(d) == [at |-> n, level |-> saved[d]]
           e == [d \in Codes |-> IF saved[d] = Current(ctl, d) THEN ctl.events[d]
                                 ELSE Append(ctl.events[d], ev(d))]
           s == Front(ctl.stack)
<1>1. saved \in [Codes -> AllLevels] /\ s \in Seq([Codes -> AllLevels])
  <2>1. ctl.stack \in Seq([Codes -> AllLevels])
    BY ControlFields
  <2>2. ASSUME NEW T, NEW t \in Seq(T), t # <<>> PROVE Last(t) \in T /\ Front(t) \in Seq(T)
    BY <2>2 DEF Last, Front
  <2> QED
    BY <2>1, <2>2
<1> HIDE DEF saved
<1>2. \A d \in Codes : ev(d) \in Event /\ ev(d).at = n /\ ev(d).level = saved[d]
  BY <1>1 DEF Event
<1>3. \A d \in Codes : ctl.events[d] \in Seq(Event)
  BY ControlFields
<1> HIDE DEF ev
<1>4. \A d \in Codes : /\ Append(ctl.events[d], ev(d)) \in Seq(Event)
                       /\ Append(ctl.events[d], ev(d)) # <<>>
                       /\ Last(Append(ctl.events[d], ev(d))) = ev(d)
  BY <1>2, <1>3, AppendLast
<1>5. e \in [Codes -> Seq(Event)]
  BY <1>3, <1>4
<1>6. new = [ctl EXCEPT !.stack = s, !.events = e]
  BY DEF PopLevels, saved, ev
<1>7. /\ new \in Control /\ new.stack = s /\ new.events = e
      /\ new.suppressed = ctl.suppressed /\ new.open = ctl.open
  <2> HIDE DEF s, e
  <2> QED
    BY <1>1, <1>5, <1>6 DEF Control
<1>8. Keeps(ctl, new, n)
  <2>1. \A d \in Codes : \/ new.events[d] = ctl.events[d]
                         \/ new.events[d] = Append(ctl.events[d], ev(d))
    BY <1>7
  <2> HIDE DEF e
  <2> QED
    BY <1>2, <1>7, <2>1, EventsKeep
<1>9. ASSUME NEW d \in Codes PROVE Current(new, d) = saved[d]
  <2>1. CASE saved[d] = Current(ctl, d)
    <3>1. new.events[d] = ctl.events[d]
      BY <1>7, <2>1
    <3> QED
      BY <2>1, <3>1 DEF Current
  <2>2. CASE saved[d] # Current(ctl, d)
    <3>1. new.events[d] = Append(ctl.events[d], ev(d))
      BY <1>7, <2>2
    <3> HIDE DEF e
    <3> QED
      BY <1>2, <1>4, <3>1 DEF Current
  <2> QED
    BY <2>1, <2>2
<1> QED
  BY <1>7, <1>8, <1>9 DEF saved

\* `once` is no matter of levels.
LEMMA OnceKeeps ==
  ASSUME NEW ctl \in Control, NEW n \in Nat, Placed(ctl, n), NEW c, NEW new, new = ReportOnce(ctl, n, c)
  PROVE  /\ Keeps(ctl, new, n) /\ new.open = ctl.open /\ new.stack = ctl.stack
         /\ \A d \in Codes : Current(new, d) = Current(ctl, d)
<1>1. CASE new = ctl
  BY <1>1 DEF Keeps, SameBelow
<1>2. CASE new # ctl
  <2> DEFINE s == [ctl.once EXCEPT ![c] = n]
  <2>1. c \in Codes /\ new = [ctl EXCEPT !.once = s]
    BY <1>2 DEF ReportOnce
  <2>2. s \in [Codes -> Nat \cup {OpenEnd}]
    BY <2>1, ControlFields
  <2> HIDE DEF s
  <2>3. /\ new \in Control /\ new.stack = ctl.stack
        /\ new.events = ctl.events /\ new.suppressed = ctl.suppressed /\ new.open = ctl.open
    BY <2>1, <2>2, SetOnce
  <2> QED
    BY <2>3, EventsKeep DEF Current
<1> QED
  BY <1>1, <1>2

\* `suppress` opens an extent where the output is.
LEMMA OpenKeeps ==
  ASSUME NEW ctl \in Control, NEW n \in Nat, Placed(ctl, n), NEW c,
         NEW new, new = OpenSuppress(ctl, n, c)
  PROVE  /\ Keeps(ctl, new, n) /\ new.stack = ctl.stack
         /\ new.open = ctl.open \cup ({c} \cap Codes)
         /\ \A d \in Codes : Current(new, d) = Current(ctl, d)
<1>1. CASE c \notin Codes
  <2>1. new = ctl /\ {c} \cap Codes = {}
    BY <1>1 DEF OpenSuppress
  <2> QED
    BY <2>1 DEF Keeps, SameBelow
<1>2. CASE c \in Codes
  <2> DEFINE e == [from |-> n, to |-> OpenEnd]
             s == [ctl.suppressed EXCEPT ![c] = Append(ctl.suppressed[c], e)]
             o == ctl.open \cup {c}
  <2>1. e \in Extent /\ e.from = n /\ e.to = OpenEnd
    BY DEF Extent
  <2>2. ctl.suppressed \in [Codes -> Seq(Extent)] /\ o \in SUBSET Codes
    BY <1>2, ControlFields
  <2> HIDE DEF e
  <2>3. /\ Append(ctl.suppressed[c], e) \in Seq(Extent)
        /\ Len(Append(ctl.suppressed[c], e)) = Len(ctl.suppressed[c]) + 1
        /\ Last(Append(ctl.suppressed[c], e)) = e
    BY <1>2, <2>1, <2>2, AppendLast
  <2>4. s \in [Codes -> Seq(Extent)] /\ s[c] = Append(ctl.suppressed[c], e)
        /\ \A d \in Codes \ {c} : s[d] = ctl.suppressed[d]
    BY <1>2, <2>2, <2>3
  <2>5. new = [ctl EXCEPT !.open = o, !.suppressed = s]
    BY <1>2 DEF OpenSuppress, e
  <2> HIDE DEF s, o
  <2>6. /\ new \in Control /\ new.suppressed = s /\ new.open = o
        /\ new.events = ctl.events /\ new.stack = ctl.stack
    BY <2>2, <2>4, <2>5 DEF Control
  <2>7. SameBelow(ctl, new, n)
    <3>1. \A x \in Nat : x < n => LevelAt(new, c, x) = LevelAt(ctl, c, x)
      BY <1>2, <2>1, <2>4, <2>6, ExtentLater
    <3>2. ASSUME NEW d \in Codes \ {c}, NEW x \in Nat
          PROVE  LevelAt(new, d, x) = LevelAt(ctl, d, x)
      <4>1. new.events[d] = ctl.events[d] /\ new.suppressed[d] = ctl.suppressed[d]
        BY <2>4, <2>6
      <4> QED
        BY <4>1, LevelFields
    <3> QED
      BY <3>1, <3>2 DEF SameBelow
  <2>8. Placed(new, n)
    <3>1. \A k \in 1..Len(s[c]) : s[c][k].from <= n
      <4>1. ctl.suppressed[c] \in Seq(Extent)
        BY <1>2, <2>2
      <4>2. \A k \in 1..Len(ctl.suppressed[c]) : ctl.suppressed[c][k].from <= n
        BY <1>2 DEF Placed
      <4>3. ASSUME NEW t \in Seq(Extent), \A k \in 1..Len(t) : t[k].from <= n
            PROVE  \A k \in 1..Len(Append(t, e)) : Append(t, e)[k].from <= n
        BY <2>1, <4>3
      <4> QED
        BY <2>4, <4>1, <4>2, <4>3
    <3>2. Len(s[c]) > 0 /\ Last(s[c]).to = OpenEnd
      BY <1>2, <2>1, <2>2, <2>3, <2>4
    <3>3. c \in o /\ \A d \in Codes \ {c} : d \in o <=> d \in ctl.open
      BY DEF o
    <3>4. \A d \in Codes \ {c} : new.suppressed[d] = ctl.suppressed[d]
      BY <2>4, <2>6
    <3> QED
      BY <1>2, <2>6, <3>1, <3>2, <3>3, <3>4 DEF Placed
  <2>9. \A d \in Codes : Current(new, d) = Current(ctl, d)
    BY <2>6 DEF Current
  <2>10. o = ctl.open \cup ({c} \cap Codes)
    BY <1>2 DEF o
  <2> QED
    BY <2>6, <2>7, <2>8, <2>9, <2>10 DEF Keeps
<1> QED
  BY <1>1, <1>2

\* The extents open at offset n end there.
LEMMA CloseKeeps ==
  ASSUME NEW ctl \in Control, NEW n \in Nat, Placed(ctl, n), NEW new, new = CloseSuppress(ctl, n)
  PROVE  /\ Keeps(ctl, new, n) /\ new.stack = ctl.stack /\ new.open = {}
         /\ \A d \in Codes : Current(new, d) = Current(ctl, d)
<1> DEFINE closed(t) == [t EXCEPT ![Len(t)].to = n]
           s == [c \in Codes |-> IF c \in ctl.open THEN closed(ctl.suppressed[c])
                                 ELSE ctl.suppressed[c]]
<1>1. ASSUME NEW t \in Seq(Extent), Len(t) > 0
      PROVE  /\ closed(t) \in Seq(Extent) /\ Len(closed(t)) = Len(t)
             /\ Last(closed(t)).to = n
             /\ \A k \in 1..Len(t) : closed(t)[k].from = t[k].from
  <2>1. t[Len(t)] \in Extent /\ Len(t) \in Nat /\ DOMAIN t = 1..Len(t)
    BY <1>1
  <2> DEFINE e == [t[Len(t)] EXCEPT !.to = n]
  <2>2. e \in Extent /\ e.to = n /\ e.from = t[Len(t)].from
    BY <2>1 DEF Extent
  <2>3. closed(t) = [t EXCEPT ![Len(t)] = e]
    OBVIOUS
  <2> HIDE DEF e, closed
  <2>4. closed(t) \in Seq(Extent) /\ Len(closed(t)) = Len(t) /\ closed(t)[Len(t)] = e
        /\ \A k \in 1..Len(t) : k # Len(t) => closed(t)[k] = t[k]
    BY <1>1, <2>1, <2>2, <2>3
  <2>5. Last(closed(t)) = e
    BY <2>4 DEF Last
  <2> QED
    BY <2>2, <2>4, <2>5
<1>2. ctl.suppressed \in [Codes -> Seq(Extent)]
  BY ControlFields
<1>3. new = [ctl EXCEPT !.open = {}, !.suppressed = s]
  BY DEF CloseSuppress
<1>4. \A c \in ctl.open : /\ c \in Codes /\ Len(ctl.suppressed[c]) > 0
                          /\ Last(ctl.suppressed[c]).to = OpenEnd
  BY ControlFields DEF Placed
<1>5. /\ DOMAIN s = Codes
      /\ \A c \in Codes : s[c] = IF c \in ctl.open THEN closed(ctl.suppressed[c])
                                 ELSE ctl.suppressed[c]
  OBVIOUS
<1>6. s \in [Codes -> Seq(Extent)]
  <2> HIDE DEF closed
  <2> QED
    BY <1>1, <1>2, <1>4
<1> HIDE DEF s
<1>7. /\ new \in Control /\ new.suppressed = s /\ new.open = {}
      /\ new.events = ctl.events /\ new.stack = ctl.stack
  BY <1>3, <1>6 DEF Control
<1>8. SameBelow(ctl, new, n)
  <2> SUFFICES ASSUME NEW c \in Codes, NEW x \in Nat, x < n
               PROVE  LevelAt(new, c, x) = LevelAt(ctl, c, x)
    BY DEF SameBelow
  <2>1. new.events[c] = ctl.events[c]
    BY <1>7
  <2>2. CASE c \in ctl.open
    <3>1. new.suppressed[c] = [ctl.suppressed[c] EXCEPT ![Len(ctl.suppressed[c])].to = n]
      BY <1>5, <1>7, <2>2
    <3> HIDE DEF closed
    <3> QED
      BY <1>4, <1>7, <2>1, <2>2, <3>1, ExtentClosed
  <2>3. CASE c \notin ctl.open
    <3>1. new.suppressed[c] = ctl.suppressed[c]
      BY <1>5, <1>7, <2>3
    <3> QED
      BY <2>1, <3>1, LevelFields
  <2> QED
    BY <2>2, <2>3
<1> HIDE DEF closed
<1>9. Placed(new, n)
  <2>1. ASSUME NEW c \in ctl.open
        PROVE  /\ \A k \in 1..Len(s[c]) : s[c][k].from <= n
               /\ Last(s[c]).to = n
    <3>1. /\ c \in Codes /\ s[c] = closed(ctl.suppressed[c])
          /\ ctl.suppressed[c] \in Seq(Extent) /\ Len(ctl.suppressed[c]) > 0
      BY <1>2, <1>4, <1>5
    <3>2. \A k \in 1..Len(ctl.suppressed[c]) : ctl.suppressed[c][k].from <= n
      BY <3>1 DEF Placed
    <3>3. PICK t \in Seq(Extent) : t = ctl.suppressed[c]
      BY <3>1
    <3>4. /\ Len(closed(t)) = Len(t) /\ Last(closed(t)).to = n
          /\ \A k \in 1..Len(t) : closed(t)[k].from = t[k].from
      BY <1>1, <3>1, <3>3
    <3> QED
      BY <3>1, <3>2, <3>3, <3>4
  <2>2. \A c \in Codes \ ctl.open : new.suppressed[c] = ctl.suppressed[c]
    BY <1>5, <1>7
  <2> QED
    BY <1>7, <2>1, <2>2 DEF Placed
<1>10. \A d \in Codes : Current(new, d) = Current(ctl, d)
  BY <1>7 DEF Current
<1> QED
  BY <1>7, <1>8, <1>9, <1>10 DEF Keeps

\* What lies at or before n lies at or before what follows.
LEMMA PlacedLater ==
  ASSUME NEW ctl \in Control, NEW n \in Nat, NEW m \in Nat, n <= m, Placed(ctl, n)
  PROVE  Placed(ctl, m)
<1>1. \A c \in Codes : ctl.events[c] \in Seq(Event) /\ ctl.suppressed[c] \in Seq(Extent)
  BY ControlFields
<1>2. ASSUME NEW t \in Seq(Event) PROVE \A k \in 1..Len(t) : t[k].at \in Nat
  <2>1. \A k \in 1..Len(t) : t[k] \in Event
    OBVIOUS
  <2>2. \A e \in Event : e.at \in Nat
    BY DEF Event
  <2> QED
    BY <2>1, <2>2
<1>3. ASSUME NEW t \in Seq(Extent) PROVE \A k \in 1..Len(t) : t[k].from \in Nat
  <2>1. \A k \in 1..Len(t) : t[k] \in Extent
    OBVIOUS
  <2>2. \A e \in Extent : e.from \in Nat
    BY DEF Extent
  <2> QED
    BY <2>1, <2>2
<1>4. ASSUME NEW c \in Codes
      PROVE  /\ \A k \in 1..Len(ctl.events[c]) : ctl.events[c][k].at <= m
             /\ \A k \in 1..Len(ctl.suppressed[c]) : ctl.suppressed[c][k].from <= m
  <2>1. /\ \A k \in 1..Len(ctl.events[c]) : ctl.events[c][k].at \in Nat
        /\ \A k \in 1..Len(ctl.suppressed[c]) : ctl.suppressed[c][k].from \in Nat
    BY <1>1, <1>2, <1>3
  <2> QED
    BY <2>1 DEF Placed
<1> QED
  BY <1>4 DEF Placed

-----------------------------------------------------------------------------
(* The level looked up is the level that was in force *)

Scopes ==
  [want  : [Codes -> AllLevels], saved : Seq([Codes -> AllLevels]),
   cover : [Codes -> 0..2],      next  : [Codes -> 0..2]]

Written(out) == \E T : out \in Seq(T)

\* A preprocessor with a control and an output; the rest of it has no part in levels.
Shaped(p) == "ctl" \in DOMAIN p /\ "out" \in DOMAIN p

\* The control belongs to the text written so far.
ControlPlaced ==
  /\ Shaped(pp) /\ Written(pp.out)
  /\ pp.ctl \in Control /\ Placed(pp.ctl, Len(pp.out))

\* What was expected of a line before holds of the control now, and was expected of text
\* that is written.
ExpectInv ==
  \A e \in expect : /\ e.code \in Codes /\ e.at \in Nat /\ e.at < Len(pp.out)
                    /\ LevelAt(pp.ctl, e.code, e.at) = e.level

\* The control and the pragmas agree: the last event of a code is what the pragmas say,
\* the pushes saved the same, and an extent is open exactly on the line it is to cover.
Agrees(ctl, s) ==
  /\ s \in Scopes
  /\ s.saved = ctl.stack
  /\ \A c \in Codes : s.want[c] = Current(ctl, c)

Sync ==
  /\ Agrees(pp.ctl, scope)
  /\ \A c \in Codes : scope.next[c] = 0 /\ (scope.cover[c] = 1 <=> c \in pp.ctl.open)

LevelInv == ControlPlaced /\ ExpectInv /\ (Running => Sync)

\* One more piece of output.
LEMMA WriteOne ==
  ASSUME NEW out, Written(out), NEW t
  PROVE  Written(Append(out, t)) /\ Len(Append(out, t)) = Len(out) + 1 /\ Len(out) \in Nat
<1>1. PICK T : out \in Seq(T)
  BY DEF Written
<1>2. out \in Seq(T \cup {t})
  BY <1>1
<1>3. Append(out, t) \in Seq(T \cup {t}) /\ Len(Append(out, t)) = Len(out) + 1 /\ Len(out) \in Nat
  BY <1>2
<1> QED
  BY <1>3 DEF Written

\* q is p with one more piece of output.
Wrote(p, q) ==
  Shaped(q) /\ q.ctl = p.ctl /\ Written(q.out) /\ Len(q.out) = Len(p.out) + 1

\* q is p as far as levels go.
Like(p, q) == Shaped(q) /\ q.ctl = p.ctl /\ q.out = p.out

\* What a line writes.
LEMMA PutWrites ==
  ASSUME NEW p, Shaped(p), Written(p.out), NEW t
  PROVE  Wrote(p, Put(p, t))
<1>1. Shaped(Put(p, t)) /\ Put(p, t).ctl = p.ctl /\ Put(p, t).out = Append(p.out, t)
  BY DEF Shaped, Put
<1> QED
  BY <1>1, WriteOne DEF Wrote

\* What changes neither the control nor the output.
LEMMA OtherFields ==
  ASSUME NEW p, Shaped(p), NEW v
  PROVE  /\ Like(p, [p EXCEPT !.macros = v]) /\ Like(p, [p EXCEPT !.pushed = v])
         /\ Like(p, [p EXCEPT !.once = v]) /\ Like(p, [p EXCEPT !.guards = v])
         /\ Like(p, [p EXCEPT !.counter = v]) /\ Like(p, [p EXCEPT !.records = v])
         /\ Like(p, [p EXCEPT !.system = v]) /\ Like(p, [p EXCEPT !.exports = v])
         /\ Like(p, [p EXCEPT !.entrypoint = v]) /\ Like(p, [p EXCEPT !.diags = v])
         /\ Like(p, [p EXCEPT !.sink = v]) /\ Like(p, [p EXCEPT !.rec = v])
BY DEF Shaped, Like

\* A name noted, or a diagnostic raised.
LEMMA NotedLike ==
  ASSUME NEW p, Shaped(p), NEW n
  PROVE  Like(p, Noted(p, n)) /\ Like(p, Warned(p, n)) /\ Like(p, Recording(p))
<1>1. Like(p, p)
  BY DEF Like
<1>2. Like(p, Noted(p, n))
  BY <1>1, OtherFields DEF Noted
<1>3. Like(p, Warned(p, n))
  BY OtherFields DEF Warned
<1>4. Like(p, Recording(p))
  BY OtherFields DEF Recording
<1> QED
  BY <1>2, <1>3, <1>4

\* The tail of a line: the extents open before it end with it.
LEMMA LineKeeps ==
  ASSUME ControlPlaced, NEW fr, NEW q, Shaped(q), Written(q.out), Len(q.out) = Len(pp.out) + 1,
         Keeps(pp.ctl, q.ctl, Len(pp.out)), EndLine(fr, q)
  PROVE  /\ ControlPlaced' /\ Len(pp'.out) = Len(pp.out) + 1 /\ Len(pp.out) \in Nat
         /\ SameBelow(pp.ctl, pp'.ctl, Len(pp.out)) /\ SameBelow(q.ctl, pp'.ctl, Len(pp.out) + 1)
         /\ pp'.ctl.stack = q.ctl.stack
         /\ pp'.ctl.open = IF Closing THEN {} ELSE q.ctl.open
         /\ \A c \in Codes : Current(pp'.ctl, c) = Current(q.ctl, c)
<1> DEFINE n == Len(pp.out)
<1>1. n \in Nat /\ n + 1 \in Nat
  BY WriteOne DEF ControlPlaced
<1>2. q.ctl \in Control /\ Placed(q.ctl, n) /\ SameBelow(pp.ctl, q.ctl, n)
  BY DEF Keeps
<1>3. PICK ctl : ctl = q.ctl
  OBVIOUS
<1>4. Placed(ctl, n + 1)
  BY <1>1, <1>2, <1>3, PlacedLater
<1>5. /\ Shaped(pp') /\ pp'.out = q.out
      /\ pp'.ctl = IF Closing THEN CloseSuppress(ctl, n + 1) ELSE ctl
  BY <1>3 DEF EndLine, Shaped
<1>6. /\ Keeps(ctl, pp'.ctl, n + 1) /\ pp'.ctl.stack = ctl.stack
      /\ pp'.ctl.open = IF Closing THEN {} ELSE ctl.open
      /\ \A c \in Codes : Current(pp'.ctl, c) = Current(ctl, c)
  <2>1. CASE Closing
    <3>1. PICK new : new = CloseSuppress(ctl, n + 1)
      OBVIOUS
    <3>2. pp'.ctl = new
      BY <1>5, <2>1, <3>1
    <3> QED
      BY <1>1, <1>2, <1>3, <1>4, <2>1, <3>1, <3>2, CloseKeeps
  <2>2. CASE ~Closing
    BY <1>2, <1>3, <1>4, <1>5, <2>2 DEF Keeps, SameBelow
  <2> QED
    BY <2>1, <2>2
<1>7. ControlPlaced'
  BY <1>5, <1>6 DEF ControlPlaced, Keeps
<1>8. SameBelow(pp.ctl, pp'.ctl, n)
  BY <1>1, <1>2, <1>3, <1>6 DEF Keeps, SameBelow
<1> QED
  BY <1>1, <1>3, <1>5, <1>6, <1>7, <1>8 DEF Keeps

\* A line keeps the agreement when its pragma does to the control what it does to the
\* scope, and the levels it expects are those of its own offset.
LEMMA StepKeeps ==
  ASSUME LevelInv, NEW fr, NEW q, Shaped(q), Written(q.out), Len(q.out) = Len(pp.out) + 1,
         Keeps(pp.ctl, q.ctl, Len(pp.out)), EndLine(fr, q),
         NEW s, Agrees(q.ctl, s), scope' = NextLine(s),
         \A c \in Codes : s.next[c] = 1 <=> (~Closing /\ c \in q.ctl.open),
         \A e \in expect' \ expect : /\ e.code \in Codes /\ e.at = Len(pp.out)
                                     /\ LevelAt(q.ctl, e.code, e.at) = e.level
  PROVE  LevelInv'
<1> DEFINE n == Len(pp.out)
<1>0. ControlPlaced
  BY DEF LevelInv
<1>1. /\ ControlPlaced' /\ Len(pp'.out) = n + 1 /\ n \in Nat
      /\ SameBelow(pp.ctl, pp'.ctl, n) /\ SameBelow(q.ctl, pp'.ctl, n + 1)
      /\ pp'.ctl.stack = q.ctl.stack
      /\ pp'.ctl.open = IF Closing THEN {} ELSE q.ctl.open
      /\ \A c \in Codes : Current(pp'.ctl, c) = Current(q.ctl, c)
  BY <1>0, LineKeeps
<1> HIDE DEF n
<1>2. ExpectInv'
  <2> SUFFICES ASSUME NEW e \in expect'
               PROVE  /\ e.code \in Codes /\ e.at \in Nat /\ e.at < n + 1
                      /\ LevelAt(pp'.ctl, e.code, e.at) = e.level
    BY <1>1 DEF ExpectInv
  <2>1. CASE e \in expect
    BY <1>1, <2>1 DEF LevelInv, ExpectInv, SameBelow, n
  <2>2. CASE e \notin expect
    BY <1>1, <2>2 DEF SameBelow, n
  <2> QED
    BY <2>1, <2>2
<1>3. Sync'
  <2>1. s \in Scopes /\ s.saved = q.ctl.stack /\ \A c \in Codes : s.want[c] = Current(q.ctl, c)
    BY DEF Agrees
  <2>2. /\ scope' \in Scopes /\ scope'.want = s.want /\ scope'.saved = s.saved
        /\ scope'.cover = s.next /\ \A c \in Codes : scope'.next[c] = 0
    <3> DEFINE z == [c \in Codes |-> 0]
    <3>1. scope' = [s EXCEPT !.cover = s.next, !.next = z]
      BY DEF NextLine, NoScope
    <3>2. z \in [Codes -> 0..2] /\ s.next \in [Codes -> 0..2] /\ \A c \in Codes : z[c] = 0
      BY <2>1 DEF Scopes
    <3> HIDE DEF z
    <3> QED
      BY <2>1, <3>1, <3>2 DEF Scopes
  <2> QED
    BY <1>1, <2>1, <2>2 DEF Sync, Agrees
<1> QED
  BY <1>1, <1>2, <1>3 DEF LevelInv

\* A control that stays as it is.
LEMMA SameKeeps ==
  ASSUME NEW ctl \in Control, NEW n, Placed(ctl, n)
  PROVE  Keeps(ctl, ctl, n)
BY DEF Keeps, SameBelow

\* A line that is neither text nor a diagnostic pragma.
LEMMA PlainKeeps ==
  ASSUME LevelInv, Running, NEW fr, NEW q, Wrote(pp, q), Plain(fr, q)
  PROVE  LevelInv'
<1>1. Shaped(q) /\ q.ctl = pp.ctl /\ Written(q.out) /\ Len(q.out) = Len(pp.out) + 1
  BY DEF Wrote
<1>2. Keeps(pp.ctl, q.ctl, Len(pp.out))
  BY <1>1, SameKeeps DEF LevelInv, ControlPlaced
<1>3. EndLine(fr, q) /\ scope' = NextLine(scope) /\ expect' = expect
  BY DEF Plain
<1>4. Agrees(q.ctl, scope)
  BY <1>1 DEF LevelInv, Sync
<1>5. \A c \in Codes : scope.next[c] = 1 <=> (~Closing /\ c \in q.ctl.open)
  BY <1>1 DEF LevelInv, Sync, Closing
<1> QED
  BY <1>1, <1>2, <1>3, <1>4, <1>5, StepKeeps

\* The same, when a blank is what it writes.
LEMMA BlankKeeps ==
  ASSUME LevelInv, Running, NEW fr, NEW p, Like(pp, p), Plain(fr, Blank(p))
  PROVE  LevelInv'
<1>1. Shaped(p) /\ p.ctl = pp.ctl /\ p.out = pp.out
  BY DEF Like
<1>2. Wrote(p, Blank(p))
  BY <1>1, PutWrites DEF LevelInv, ControlPlaced, Blank
<1>3. PICK q : q = Blank(p)
  OBVIOUS
<1>4. Wrote(pp, q)
  BY <1>1, <1>2, <1>3 DEF Wrote
<1> QED
  BY <1>3, <1>4, PlainKeeps

\* A diagnostic pragma.
LEMMA PragmaKeeps ==
  ASSUME LevelInv, Running, NEW p, Shaped(p), p.out = pp.out, Keeps(pp.ctl, p.ctl, Len(pp.out)),
         NEW s, Agrees(p.ctl, s), DiagPragma(p, s),
         \A c \in Codes : s.next[c] = 1 <=> (~Closing /\ c \in p.ctl.open)
  PROVE  LevelInv'
<1> DEFINE p1 == [p EXCEPT !.diags = @ + 1]
<1>1. Like(p, p1)
  BY OtherFields
<1> HIDE DEF p1
<1>2. Shaped(p1) /\ p1.ctl = p.ctl /\ p1.out = pp.out
  BY <1>1 DEF Like
<1>3. Wrote(p1, Blank(p1))
  BY <1>2, PutWrites DEF LevelInv, ControlPlaced, Blank
<1>4. PICK q : q = Blank(p1)
  OBVIOUS
<1>5. Shaped(q) /\ q.ctl = p.ctl /\ Written(q.out) /\ Len(q.out) = Len(pp.out) + 1
  BY <1>2, <1>3, <1>4 DEF Wrote
<1>6. EndLine(Scan(Fr, Line), q) /\ scope' = NextLine(s) /\ expect' = expect
  BY <1>4 DEF DiagPragma, p1
<1>7. PICK fr : fr = Scan(Fr, Line)
  OBVIOUS
<1> QED
  BY <1>5, <1>6, <1>7, StepKeeps

\* What the running pass knows before a pragma.
LEMMA BeforePragma ==
  ASSUME LevelInv, Running
  PROVE  /\ Len(pp.out) \in Nat /\ pp.ctl \in Control /\ Placed(pp.ctl, Len(pp.out))
         /\ scope \in Scopes /\ scope.saved = pp.ctl.stack
         /\ \A c \in Codes : scope.want[c] = Current(pp.ctl, c) /\ scope.next[c] = 0
         /\ \A ctl : LET p == [pp EXCEPT !.ctl = ctl] IN Shaped(p) /\ p.out = pp.out /\ p.ctl = ctl
<1>1. Len(pp.out) \in Nat
  BY WriteOne DEF LevelInv, ControlPlaced
<1>2. \A ctl : LET p == [pp EXCEPT !.ctl = ctl] IN Shaped(p) /\ p.out = pp.out /\ p.ctl = ctl
  BY DEF Shaped, LevelInv, ControlPlaced
<1> QED
  BY <1>1, <1>2 DEF LevelInv, Sync, Agrees, ControlPlaced

\* A level pragma.
LEMMA SetLevelKeeps ==
  ASSUME LevelInv, SetLevel
  PROVE  LevelInv'
<1>1. Running /\ Line.op \in AllLevels
  BY DEF SetLevel, Reading, HasLine, AllLevels
<1>2. PICK new, p, s : /\ new = Record(pp.ctl, Len(pp.out), Line.arg, Line.op)
                       /\ p = [pp EXCEPT !.ctl = new]
                       /\ s = [scope EXCEPT !.want[Line.arg] = Line.op]
  OBVIOUS
<1>3. /\ Keeps(pp.ctl, new, Len(pp.out)) /\ new.stack = pp.ctl.stack /\ new.open = pp.ctl.open
      /\ \A d \in Codes : Current(new, d) = IF d = Line.arg THEN Line.op ELSE Current(pp.ctl, d)
  BY <1>1, <1>2, BeforePragma, RecordKeeps
<1>4. Shaped(p) /\ p.out = pp.out /\ p.ctl = new
  BY <1>1, <1>2, BeforePragma
<1>5. /\ s \in Scopes /\ s.saved = scope.saved /\ s.next = scope.next
      /\ \A d \in Codes : s.want[d] = IF d = Line.arg THEN Line.op ELSE scope.want[d]
  <2>1. scope \in Scopes
    BY <1>1, BeforePragma
  <2>2. PICK a, o : a = Line.arg /\ o = Line.op
    OBVIOUS
  <2>3. PICK w : w = [scope.want EXCEPT ![a] = o]
    OBVIOUS
  <2>4. s = [scope EXCEPT !.want = w]
    BY <1>2, <2>2, <2>3
  <2>5. scope.want \in [Codes -> AllLevels]
    BY <2>1 DEF Scopes
  <2>6. w \in [Codes -> AllLevels] /\ \A d \in Codes : w[d] = IF d = a THEN o ELSE scope.want[d]
    BY <1>1, <2>2, <2>3, <2>5
  <2>7. s \in Scopes /\ s.saved = scope.saved /\ s.next = scope.next /\ s.want = w
    BY <2>1, <2>4, <2>6 DEF Scopes
  <2> QED
    BY <2>2, <2>6, <2>7
<1>6. Agrees(p.ctl, s)
  BY <1>1, <1>3, <1>4, <1>5, BeforePragma DEF Agrees
<1>7. \A c \in Codes : s.next[c] = 1 <=> (~Closing /\ c \in p.ctl.open)
  BY <1>1, <1>3, <1>4, <1>5, BeforePragma DEF Closing
<1>8. DiagPragma(p, s)
  BY <1>2 DEF SetLevel
<1> QED
  BY <1>1, <1>3, <1>4, <1>6, <1>7, <1>8, PragmaKeeps

\* A push.
LEMMA PushDiagKeeps ==
  ASSUME LevelInv, PushDiag
  PROVE  LevelInv'
<1>1. Running
  BY DEF PushDiag, Reading, HasLine
<1>2. PICK new, p, s : /\ new = PushLevels(pp.ctl)
                       /\ p = [pp EXCEPT !.ctl = new]
                       /\ s = [scope EXCEPT !.saved = Append(@, scope.want)]
  OBVIOUS
<1>3. /\ Keeps(pp.ctl, new, Len(pp.out)) /\ new.open = pp.ctl.open
      /\ new.stack = Append(pp.ctl.stack, [c \in Codes |-> Current(pp.ctl, c)])
      /\ \A d \in Codes : Current(new, d) = Current(pp.ctl, d)
  BY <1>1, <1>2, BeforePragma, PushKeeps
<1>4. Shaped(p) /\ p.out = pp.out /\ p.ctl = new
  BY <1>1, <1>2, BeforePragma
<1>5. scope \in Scopes /\ scope.saved = pp.ctl.stack
      /\ \A c \in Codes : scope.want[c] = Current(pp.ctl, c) /\ scope.next[c] = 0
  BY <1>1, BeforePragma
<1>6. scope.want = [c \in Codes |-> Current(pp.ctl, c)]
  <2>1. scope.want \in [Codes -> AllLevels]
    BY <1>5 DEF Scopes
  <2> QED
    BY <1>5, <2>1
<1>7. s \in Scopes /\ s.saved = Append(scope.saved, scope.want) /\ s.next = scope.next /\ s.want = scope.want
  <2>1. PICK v : v = Append(scope.saved, scope.want)
    OBVIOUS
  <2>2. scope.saved \in Seq([Codes -> AllLevels]) /\ scope.want \in [Codes -> AllLevels]
    BY <1>5 DEF Scopes
  <2>3. v \in Seq([Codes -> AllLevels])
    BY <2>1, <2>2
  <2>4. s = [scope EXCEPT !.saved = v]
    BY <1>2, <2>1
  <2>5. s \in Scopes /\ s.saved = v /\ s.next = scope.next /\ s.want = scope.want
    BY <1>5, <2>3, <2>4 DEF Scopes
  <2> QED
    BY <2>1, <2>5
<1>8. Agrees(p.ctl, s)
  BY <1>3, <1>4, <1>5, <1>6, <1>7 DEF Agrees
<1>9. \A c \in Codes : s.next[c] = 1 <=> (~Closing /\ c \in p.ctl.open)
  BY <1>3, <1>4, <1>5, <1>7 DEF Closing
<1>10. DiagPragma(p, s)
  BY <1>2 DEF PushDiag
<1> QED
  BY <1>1, <1>3, <1>4, <1>8, <1>9, <1>10, PragmaKeeps

\* A pop, of a push or of none.
LEMMA PopDiagKeeps ==
  ASSUME LevelInv, PopDiag
  PROVE  LevelInv'
<1>1. Running
  BY DEF PopDiag, Reading, HasLine
<1>2. PICK new, p : new = PopLevels(pp.ctl, Len(pp.out)) /\ p = [pp EXCEPT !.ctl = new]
  OBVIOUS
<1>3. Shaped(p) /\ p.out = pp.out /\ p.ctl = new
  BY <1>1, <1>2, BeforePragma
<1>4. scope \in Scopes /\ scope.saved = pp.ctl.stack
      /\ \A c \in Codes : scope.want[c] = Current(pp.ctl, c) /\ scope.next[c] = 0
  BY <1>1, BeforePragma
<1>5. CASE pp.ctl.stack = <<>>
  <2>1. new = pp.ctl
    BY <1>2, <1>5 DEF PopLevels
  <2>2. PICK w : w = Warned(p, "popped")
    OBVIOUS
  <2>3. Shaped(w) /\ w.out = pp.out /\ w.ctl = pp.ctl
    BY <1>3, <2>1, <2>2, NotedLike DEF Like
  <2>4. Keeps(pp.ctl, w.ctl, Len(pp.out))
    BY <1>1, <2>3, BeforePragma, SameKeeps
  <2>5. Agrees(w.ctl, scope)
    BY <1>4, <2>3 DEF Agrees
  <2>6. \A c \in Codes : scope.next[c] = 1 <=> (~Closing /\ c \in w.ctl.open)
    BY <1>4, <2>3 DEF Closing
  <2>7. DiagPragma(w, scope)
    BY <1>2, <1>5, <2>2 DEF PopDiag
  <2> QED
    BY <1>1, <2>3, <2>4, <2>5, <2>6, <2>7, PragmaKeeps
<1>6. CASE pp.ctl.stack # <<>>
  <2>1. /\ Keeps(pp.ctl, new, Len(pp.out)) /\ new.open = pp.ctl.open
        /\ new.stack = Front(pp.ctl.stack)
        /\ \A d \in Codes : Current(new, d) = Last(pp.ctl.stack)[d]
    BY <1>1, <1>2, <1>6, BeforePragma, PopKeeps
  <2>2. PICK l, f, s : /\ l = Last(scope.saved) /\ f = Front(scope.saved)
                       /\ s = [scope EXCEPT !.want = l, !.saved = f]
    OBVIOUS
  <2>3. l \in [Codes -> AllLevels] /\ f \in Seq([Codes -> AllLevels])
    <3>1. ASSUME NEW T, NEW t \in Seq(T), t # <<>> PROVE Last(t) \in T /\ Front(t) \in Seq(T)
      BY <3>1 DEF Last, Front
    <3>2. scope.saved \in Seq([Codes -> AllLevels])
      BY <1>4 DEF Scopes
    <3> QED
      BY <1>4, <1>6, <2>2, <3>1, <3>2
  <2>4. s \in Scopes /\ s.want = l /\ s.saved = f /\ s.next = scope.next
    BY <1>4, <2>2, <2>3 DEF Scopes
  <2>5. Agrees(p.ctl, s)
    BY <1>3, <1>4, <2>1, <2>2, <2>4 DEF Agrees
  <2>6. \A c \in Codes : s.next[c] = 1 <=> (~Closing /\ c \in p.ctl.open)
    BY <1>3, <1>4, <2>1, <2>4 DEF Closing
  <2>7. DiagPragma(p, s)
    BY <1>2, <1>6, <2>2 DEF PopDiag
  <2> QED
    BY <1>1, <1>3, <2>1, <2>5, <2>6, <2>7, PragmaKeeps
<1> QED
  BY <1>5, <1>6

\* A `suppress`: on a covered line its own extent ends with that line.
LEMMA SuppressKeeps ==
  ASSUME LevelInv, Suppress
  PROVE  LevelInv'
<1>1. Running
  BY DEF Suppress, Reading, HasLine
<1>2. PICK new, p, s, k : /\ new = OpenSuppress(pp.ctl, Len(pp.out), Line.arg)
                          /\ p = [pp EXCEPT !.ctl = new]
                          /\ k = IF Closing THEN 2 ELSE 1
                          /\ s = [scope EXCEPT !.next[Line.arg] = k]
  OBVIOUS
<1>3. /\ Keeps(pp.ctl, new, Len(pp.out)) /\ new.stack = pp.ctl.stack
      /\ new.open = pp.ctl.open \cup ({Line.arg} \cap Codes)
      /\ \A d \in Codes : Current(new, d) = Current(pp.ctl, d)
  BY <1>1, <1>2, BeforePragma, OpenKeeps
<1>4. Shaped(p) /\ p.out = pp.out /\ p.ctl = new
  BY <1>1, <1>2, BeforePragma
<1>5. scope \in Scopes /\ scope.saved = pp.ctl.stack
      /\ \A c \in Codes : scope.want[c] = Current(pp.ctl, c) /\ scope.next[c] = 0
  BY <1>1, BeforePragma
<1>6. /\ s \in Scopes /\ s.saved = scope.saved /\ s.want = scope.want
      /\ \A d \in Codes : s.next[d] = IF d = Line.arg THEN k ELSE 0
  <2>1. PICK a : a = Line.arg
    OBVIOUS
  <2>2. PICK w : w = [scope.next EXCEPT ![a] = k]
    OBVIOUS
  <2>3. s = [scope EXCEPT !.next = w]
    BY <1>2, <2>1, <2>2
  <2>4. scope.next \in [Codes -> 0..2] /\ k \in 0..2
    BY <1>2, <1>5 DEF Scopes
  <2>5. w \in [Codes -> 0..2] /\ \A d \in Codes : w[d] = IF d = a THEN k ELSE 0
    BY <1>5, <2>2, <2>4
  <2>6. s \in Scopes /\ s.saved = scope.saved /\ s.want = scope.want /\ s.next = w
    BY <1>5, <2>3, <2>5 DEF Scopes
  <2> QED
    BY <2>1, <2>5, <2>6
<1>7. Agrees(p.ctl, s)
  BY <1>3, <1>4, <1>5, <1>6 DEF Agrees
<1>8. \A c \in Codes : s.next[c] = 1 <=> (~Closing /\ c \in p.ctl.open)
  BY <1>2, <1>3, <1>4, <1>6 DEF Closing
<1>9. DiagPragma(p, s)
  BY <1>2 DEF Suppress
<1> QED
  BY <1>1, <1>3, <1>4, <1>7, <1>8, <1>9, PragmaKeeps

\* A `once`.
LEMMA ReportOnceKeeps ==
  ASSUME LevelInv, ReportOnceLine
  PROVE  LevelInv'
<1>1. Running
  BY DEF ReportOnceLine, Reading, HasLine
<1>2. PICK new, p : /\ new = ReportOnce(pp.ctl, Len(pp.out), Line.arg)
                    /\ p = [pp EXCEPT !.ctl = new]
  OBVIOUS
<1>3. /\ Keeps(pp.ctl, new, Len(pp.out)) /\ new.open = pp.ctl.open /\ new.stack = pp.ctl.stack
      /\ \A d \in Codes : Current(new, d) = Current(pp.ctl, d)
  BY <1>1, <1>2, BeforePragma, OnceKeeps
<1>4. Shaped(p) /\ p.out = pp.out /\ p.ctl = new
  BY <1>1, <1>2, BeforePragma
<1>5. Agrees(p.ctl, scope)
  BY <1>1, <1>3, <1>4, BeforePragma DEF Agrees
<1>6. \A c \in Codes : scope.next[c] = 1 <=> (~Closing /\ c \in p.ctl.open)
  BY <1>1, <1>3, <1>4, BeforePragma DEF Closing
<1>7. DiagPragma(p, scope)
  BY <1>2 DEF ReportOnceLine
<1> QED
  BY <1>1, <1>3, <1>4, <1>5, <1>6, <1>7, PragmaKeeps

\* A text line: the level in force is the one its offset has, now and from now on.
LEMMA ContentKeeps ==
  ASSUME LevelInv, Content
  PROVE  LevelInv'
<1>1. Running
  BY DEF Content, Reading, HasLine
<1>2. PICK q : Wrote(pp, q) /\ EndLine(Scan(Fr, Line), q)
  <2>0. Shaped(pp) /\ Written(pp.out)
    BY DEF LevelInv, ControlPlaced
  <2> DEFINE p == CASE Line.op = "text" ->
                         Put(Noted(pp, Line.arg), <<"text", Line.arg, pp.macros[Line.arg]>>)
                    [] Line.op = "counter" ->
                         Put([pp EXCEPT !.counter = @ + 1, !.rec.counter = @ \/ pp.rec.on],
                             <<"counter", pp.counter>>)
                    [] OTHER -> Blank(pp)
  <2>1. EndLine(Scan(Fr, Line), p)
    BY DEF Content
  <2>2. ASSUME NEW p1, Like(pp, p1), NEW t PROVE Wrote(pp, Put(p1, t))
    <3>1. Shaped(p1) /\ p1.ctl = pp.ctl /\ p1.out = pp.out
      BY <2>2 DEF Like
    <3>2. Wrote(p1, Put(p1, t))
      BY <2>0, <3>1, PutWrites
    <3> QED
      BY <3>1, <3>2 DEF Wrote
  <2>3. /\ Like(pp, Noted(pp, Line.arg)) /\ Like(pp, pp)
        /\ Like(pp, [pp EXCEPT !.counter = @ + 1, !.rec.counter = @ \/ pp.rec.on])
    <3>1. Like(pp, Noted(pp, Line.arg))
      BY <2>0, NotedLike
    <3> QED
      BY <2>0, <3>1 DEF Like, Shaped
  <2>4. Wrote(pp, p)
    <3>1. Wrote(pp, Put(Noted(pp, Line.arg), <<"text", Line.arg, pp.macros[Line.arg]>>))
      BY <2>2, <2>3
    <3>2. Wrote(pp, Put([pp EXCEPT !.counter = @ + 1, !.rec.counter = @ \/ pp.rec.on],
                        <<"counter", pp.counter>>))
      BY <2>2, <2>3
    <3>3. Wrote(pp, Blank(pp))
      BY <2>2, <2>3 DEF Blank
    <3> QED
      BY <3>1, <3>2, <3>3
  <2> QED
    BY <2>1, <2>4
<1>3. Shaped(q) /\ q.ctl = pp.ctl /\ Written(q.out) /\ Len(q.out) = Len(pp.out) + 1
  BY <1>2 DEF Wrote
<1>4. Keeps(pp.ctl, q.ctl, Len(pp.out))
  BY <1>1, <1>3, BeforePragma, SameKeeps
<1>5. Agrees(q.ctl, scope)
  BY <1>1, <1>3 DEF LevelInv, Sync
<1>6. \A c \in Codes : scope.next[c] = 1 <=> (~Closing /\ c \in q.ctl.open)
  BY <1>1, <1>3 DEF LevelInv, Sync, Closing
<1>7. scope' = NextLine(scope)
  BY DEF Content
<1>8. ASSUME NEW e \in expect' \ expect
      PROVE  /\ e.code \in Codes /\ e.at = Len(pp.out)
             /\ LevelAt(q.ctl, e.code, e.at) = e.level
  <2>1. PICK c \in Codes : /\ scope.cover[c] # 2
                           /\ e = [at |-> Len(pp.out), code |-> c, level |-> InForce(c)]
    BY <1>8 DEF Content
  <2>2. LevelAt(pp.ctl, c, Len(pp.out)) = IF c \in pp.ctl.open THEN "ignore"
                                          ELSE IF Current(pp.ctl, c) = CmdLine THEN BaseLevel[c]
                                          ELSE Current(pp.ctl, c)
    BY <1>1, BeforePragma, LevelNow
  <2>3. (scope.cover[c] = 1 <=> c \in pp.ctl.open) /\ scope.want[c] = Current(pp.ctl, c)
    BY <1>1 DEF LevelInv, Sync, Agrees
  <2>4. InForce(c) = LevelAt(pp.ctl, c, Len(pp.out))
    BY <2>2, <2>3 DEF InForce
  <2> QED
    BY <1>3, <2>1, <2>4
<1>9. PICK fr : fr = Scan(Fr, Line)
  OBVIOUS
<1> QED
  BY <1>2, <1>3, <1>4, <1>5, <1>6, <1>7, <1>8, <1>9, StepKeeps

\* The lines that change no level, and no output but their own blank.
LEMMA OtherLinesKeep ==
  ASSUME LevelInv, SkipLine \/ If \/ Define \/ Undef \/ PushMacro \/ PopMacro \/ Once \/ UnknownPragma
  PROVE  LevelInv'
<1>0. Shaped(pp) /\ Like(pp, pp)
  BY DEF LevelInv, ControlPlaced, Like
<1>1. \A n : Like(pp, Noted(pp, n)) /\ Like(pp, Warned(pp, n))
  BY <1>0, NotedLike
<1>2. ASSUME NEW fr, NEW p, Like(pp, p), Running, Plain(fr, Blank(p)) PROVE LevelInv'
  BY <1>2, BlankKeeps
<1>3. ASSUME NEW p, Like(pp, p), NEW q, Like(p, q) PROVE Like(pp, q) /\ Shaped(p)
  BY <1>3 DEF Like
<1>4. CASE SkipLine
  BY <1>0, <1>2, <1>4 DEF SkipLine, HasLine
<1>5. CASE If
  <2>1. PICK fr, p : /\ p = IF Fr.active THEN Noted(pp, Line.arg) ELSE pp
                     /\ Running /\ Plain(fr, Blank(p))
    BY <1>5 DEF If, Reading, HasLine
  <2> QED
    BY <1>0, <1>1, <1>2, <2>1
<1>6. CASE Define
  <2> DEFINE p == IF InSystemHeader \/ pp.macros[Line.arg] \in {0, Line.val}
                  THEN pp ELSE Warned(pp, "redefined")
             q == [Noted(p, Line.arg) EXCEPT !.macros[Line.arg] = Line.val]
  <2>1. Running /\ Plain(Scan(Fr, Line), Blank(q))
    BY <1>6 DEF Define, Reading, HasLine
  <2>2. Like(pp, p)
    BY <1>0, <1>1
  <2> HIDE DEF p
  <2>3. Like(pp, Noted(p, Line.arg)) /\ Shaped(Noted(p, Line.arg))
    BY <1>3, <2>2, NotedLike DEF Like
  <2>4. Like(Noted(p, Line.arg), q)
    BY <2>3, OtherFields
  <2> HIDE DEF q
  <2> QED
    BY <1>2, <1>3, <2>1, <2>3, <2>4
<1>7. CASE Undef
  <2> DEFINE q == [Noted(pp, Line.arg) EXCEPT !.macros[Line.arg] = 0]
  <2>1. Running /\ Plain(Scan(Fr, Line), Blank(q))
    BY <1>7 DEF Undef, Reading, HasLine
  <2>2. Like(Noted(pp, Line.arg), q)
    BY <1>1, OtherFields DEF Like
  <2> HIDE DEF q
  <2> QED
    BY <1>1, <1>2, <1>3, <2>1, <2>2
<1>8. CASE PushMacro
  <2> DEFINE q == [Noted(pp, Line.arg) EXCEPT !.pushed[Line.arg] = Append(@, pp.macros[Line.arg])]
  <2>1. Running /\ Plain(Scan(Fr, Line), Blank(q))
    BY <1>8 DEF PushMacro, Reading, HasLine
  <2>2. Like(Noted(pp, Line.arg), q)
    BY <1>1, OtherFields DEF Like
  <2> HIDE DEF q
  <2> QED
    BY <1>1, <1>2, <1>3, <2>1, <2>2
<1>9. CASE PopMacro
  <2> DEFINE p == Noted(pp, Line.arg)
             q == IF pp.pushed[Line.arg] = <<>> THEN Warned(p, "popped")
                  ELSE [p EXCEPT !.macros[Line.arg] = Last(pp.pushed[Line.arg]),
                                 !.pushed[Line.arg] = Front(@)]
  <2>1. Running /\ Plain(Scan(Fr, Line), Blank(q))
    BY <1>9 DEF PopMacro, Reading, HasLine
  <2>2. Like(pp, p) /\ Shaped(p)
    BY <1>1 DEF Like
  <2> HIDE DEF p
  <2>3. Like(p, Warned(p, "popped"))
    BY <2>2, NotedLike
  <2>4. Like(p, [p EXCEPT !.macros[Line.arg] = Last(pp.pushed[Line.arg]),
                          !.pushed[Line.arg] = Front(@)])
    BY <2>2 DEF Like, Shaped
  <2>5. Like(p, q)
    BY <2>3, <2>4
  <2> HIDE DEF q
  <2> QED
    BY <1>2, <1>3, <2>1, <2>2, <2>5
<1>10. CASE Once
  <2>1. PICK q : q = [pp EXCEPT !.once = @ \cup {Fr.file}] /\ Running /\ Plain(Scan(Fr, Line), Blank(q))
    BY <1>10 DEF Once, Reading, HasLine
  <2>2. Like(pp, q)
    BY <1>0, <2>1, OtherFields
  <2> QED
    BY <1>2, <2>1, <2>2
<1>11. CASE UnknownPragma
  BY <1>1, <1>2, <1>11 DEF UnknownPragma, Reading, HasLine
<1> QED
  BY <1>4, <1>5, <1>6, <1>7, <1>8, <1>9, <1>10, <1>11

\* A pass that stops on an error leaves the control alone.
LEMMA FailKeeps ==
  ASSUME LevelInv, Fail
  PROVE  LevelInv'
<1>1. ~Running'
  BY DEF Fail, Running
<1> QED
  BY <1>1 DEF Fail, LevelInv, ControlPlaced, ExpectInv

\* The lines that may stop the pass.
LEMMA FailingLinesKeep ==
  ASSUME LevelInv, Elif \/ Else \/ Endif \/ SidePragma
  PROVE  LevelInv'
<1>0. Shaped(pp) /\ Like(pp, pp)
  BY DEF LevelInv, ControlPlaced, Like
<1>1. \A n : Like(pp, Noted(pp, n))
  BY <1>0, NotedLike
<1>2. ASSUME NEW fr, NEW p, Like(pp, p), Running, Plain(fr, Blank(p)) PROVE LevelInv'
  BY <1>2, BlankKeeps
<1>3. CASE Fail
  BY <1>3, FailKeeps
<1>4. CASE Elif
  <2>1. Fail \/ \E fr, p : /\ p = IF Eligible(Fr) THEN Noted(pp, Line.arg) ELSE pp
                           /\ Running /\ Plain(fr, Blank(p))
    BY <1>4 DEF Elif, Reading, HasLine
  <2> QED
    BY <1>0, <1>1, <1>2, <1>3, <2>1
<1>5. CASE Else
  <2>1. Fail \/ \E fr : Running /\ Plain(fr, Blank(pp))
    BY <1>5 DEF Else, Reading, HasLine
  <2> QED
    BY <1>0, <1>2, <1>3, <2>1
<1>6. CASE Endif
  <2>1. Fail \/ \E fr : Running /\ Plain(fr, Blank(pp))
    BY <1>6 DEF Endif, Reading, HasLine
  <2> QED
    BY <1>0, <1>2, <1>3, <2>1
<1>7. CASE SidePragma
  <2> DEFINE p == Apply(pp, Line)
             q == IF p.rec.on THEN [p EXCEPT !.rec.events = Append(@, Line)] ELSE p
  <2>1. Fail \/ (Running /\ Plain(Scan(Fr, Line), Blank(q)))
    BY <1>7 DEF SidePragma, Reading, HasLine
  <2>2. Like(pp, p)
    BY <1>0, OtherFields DEF Apply
  <2> HIDE DEF p
  <2>3. Like(pp, q)
    BY <2>2 DEF Like, Shaped
  <2> HIDE DEF q
  <2> QED
    BY <1>2, <1>3, <2>1, <2>3
<1> QED
  BY <1>4, <1>5, <1>6, <1>7

\* The text goes on in a marker: the extents and the scope stay open across it.
LEMMA MarkerKeeps ==
  ASSUME LevelInv, Wrote(pp, pp'), UNCHANGED <<phase, scope, expect>>
  PROVE  LevelInv'
<1> DEFINE n == Len(pp.out)
<1>1. /\ Shaped(pp') /\ pp'.ctl = pp.ctl /\ Written(pp'.out) /\ Len(pp'.out) = n + 1
      /\ n \in Nat /\ pp.ctl \in Control /\ Placed(pp.ctl, n)
  BY WriteOne DEF Wrote, LevelInv, ControlPlaced
<1>2. Placed(pp.ctl, n + 1)
  BY <1>1, PlacedLater
<1>3. ControlPlaced'
  BY <1>1, <1>2 DEF ControlPlaced
<1>4. ExpectInv'
  BY <1>1 DEF ExpectInv, LevelInv
<1>5. Running' => Sync'
  BY <1>1 DEF LevelInv, Sync, Running
<1> QED
  BY <1>3, <1>4, <1>5 DEF LevelInv

\* An include: refused, of a file that adds nothing, or opened.
LEMMA IncludeKeeps ==
  ASSUME LevelInv, Include
  PROVE  LevelInv'
<1>0. Shaped(pp) /\ Like(pp, pp) /\ Written(pp.out)
  BY DEF LevelInv, ControlPlaced, Like
<1>1. Running
  BY DEF Include, Reading, HasLine
<1> DEFINE f == Line.arg
           p1 == IF pp.rec.on THEN [pp EXCEPT !.rec.files = @ \cup {f}] ELSE pp
           p2 == IF f \notin pp.once /\ f \in DOMAIN pp.guards THEN Noted(p1, pp.guards[f]) ELSE p1
           traced(status) == [p2 EXCEPT !.records = Append(@, <<Len(frames), f, status>>)]
           opened == [traced("opened") EXCEPT !.system = IF f \in System THEN @ \cup {f} ELSE @]
<1>2. \/ Fail
      \/ Plain(Scan(Fr, Line), Marker(traced("cached"), Fr.file, Fr.idx + 1))
      \/ pp' = Marker(opened, f, 1) /\ UNCHANGED <<phase, scope, expect>>
  BY DEF Include
<1>3. ASSUME NEW p, Like(pp, p), NEW q, Like(p, q) PROVE Like(pp, q) /\ Shaped(p)
  BY <1>3 DEF Like
<1>4. Like(pp, p1)
  BY <1>0 DEF Like, Shaped
<1> HIDE DEF p1
<1>5. Like(pp, p2)
  <2>1. Like(p1, Noted(p1, pp.guards[f]))
    BY <1>4, NotedLike DEF Like
  <2> QED
    BY <1>3, <1>4, <2>1
<1> HIDE DEF p2
<1>6. ASSUME NEW status PROVE Like(pp, traced(status))
  <2>1. Like(p2, traced(status))
    BY <1>5, OtherFields DEF Like
  <2> QED
    BY <1>3, <1>5, <2>1
<1> HIDE DEF traced
<1>7. Like(pp, opened)
  <2>1. PICK t, v : /\ t = traced("opened") /\ v = IF f \in System THEN t.system \cup {f} ELSE t.system
                    /\ opened = [t EXCEPT !.system = v]
    OBVIOUS
  <2>2. Shaped(t)
    BY <1>6, <2>1 DEF Like
  <2>3. Like(t, opened)
    BY <2>1, <2>2 DEF Like, Shaped
  <2> QED
    BY <1>3, <1>6, <2>1, <2>3
<1> HIDE DEF opened
<1>8. ASSUME NEW p, Like(pp, p), NEW file, NEW line PROVE Wrote(pp, Marker(p, file, line))
  <2>1. Shaped(p) /\ p.ctl = pp.ctl /\ p.out = pp.out
    BY <1>8 DEF Like
  <2>2. Wrote(p, Marker(p, file, line))
    BY <1>0, <2>1, PutWrites DEF Marker
  <2> QED
    BY <2>1, <2>2 DEF Wrote
<1>9. CASE Plain(Scan(Fr, Line), Marker(traced("cached"), Fr.file, Fr.idx + 1))
  <2>1. PICK fr, q : fr = Scan(Fr, Line) /\ q = Marker(traced("cached"), Fr.file, Fr.idx + 1)
    OBVIOUS
  <2>2. Wrote(pp, q)
    BY <1>6, <1>8, <2>1
  <2> QED
    BY <1>1, <1>9, <2>1, <2>2, PlainKeeps
<1>10. CASE pp' = Marker(opened, f, 1) /\ UNCHANGED <<phase, scope, expect>>
  <2>1. Wrote(pp, pp')
    BY <1>7, <1>8, <1>10
  <2> QED
    BY <1>10, <2>1, MarkerKeeps
<1> QED
  BY <1>2, <1>9, <1>10, FailKeeps

\* The end of a buffer: every extent ends there.
LEMMA FinishedKeeps ==
  ASSUME LevelInv
  PROVE  /\ Shaped(Finished) /\ Finished.out = pp.out /\ Keeps(pp.ctl, Finished.ctl, Len(pp.out))
         /\ Finished.ctl.stack = pp.ctl.stack /\ Finished.ctl.open = {}
         /\ \A c \in Codes : Current(Finished.ctl, c) = Current(pp.ctl, c)
<1> DEFINE p1 == [pp EXCEPT !.ctl = CloseSuppress(@, Len(pp.out))]
           p2 == IF Fr.cond = <<>> THEN p1 ELSE Warned(p1, "directive")
<1>1. Shaped(pp) /\ Len(pp.out) \in Nat /\ pp.ctl \in Control /\ Placed(pp.ctl, Len(pp.out))
  BY WriteOne DEF LevelInv, ControlPlaced
<1>2. PICK new : new = CloseSuppress(pp.ctl, Len(pp.out))
  OBVIOUS
<1>3. Shaped(p1) /\ p1.out = pp.out /\ p1.ctl = new
  BY <1>1, <1>2 DEF Shaped
<1> HIDE DEF p1
<1>4. Like(p1, p2)
  <2>1. Like(p1, p1) /\ Like(p1, Warned(p1, "directive"))
    BY <1>3, NotedLike DEF Like
  <2> QED
    BY <2>1
<1>5. \/ Finished = p2
      \/ \E g : Finished = [p2 EXCEPT !.guards = g]
  BY DEF Finished, p1
<1> HIDE DEF p2
<1>6. Shaped(Finished) /\ Finished.out = pp.out /\ Finished.ctl = new
  <2>1. Shaped(p2) /\ p2.out = pp.out /\ p2.ctl = new
    BY <1>3, <1>4 DEF Like
  <2>2. CASE Finished = p2
    BY <2>1, <2>2
  <2>3. CASE \E g : Finished = [p2 EXCEPT !.guards = g]
    <3>1. PICK g : Finished = [p2 EXCEPT !.guards = g]
      BY <2>3
    <3> QED
      BY <2>1, <3>1 DEF Shaped
  <2> QED
    BY <1>5, <2>2, <2>3
<1> QED
  BY <1>1, <1>2, <1>6, CloseKeeps

\* No line is covered after it.
LEMMA UncoveredAgrees ==
  ASSUME NEW ctl, NEW s, Agrees(ctl, s)
  PROVE  /\ Agrees(ctl, Uncovered(s))
         /\ \A c \in Codes : Uncovered(s).next[c] = 0 /\ Uncovered(s).cover[c] = 0
<1> DEFINE z == [c \in Codes |-> 0]
<1>1. Uncovered(s) = [s EXCEPT !.cover = z, !.next = z]
  BY DEF Uncovered, NoScope
<1>2. z \in [Codes -> 0..2] /\ \A c \in Codes : z[c] = 0
  OBVIOUS
<1> HIDE DEF z
<1>3. s \in Scopes
  BY DEF Agrees
<1>4. PICK u : u = [s EXCEPT !.cover = z, !.next = z]
  OBVIOUS
<1>5. u \in Scopes /\ u.want = s.want /\ u.saved = s.saved /\ u.cover = z /\ u.next = z
  BY <1>2, <1>3, <1>4 DEF Scopes
<1> QED
  BY <1>1, <1>2, <1>4, <1>5 DEF Agrees

\* The end of an included file and the marker after it.
LEMMA EndIncludeKeeps ==
  ASSUME LevelInv, EndInclude
  PROVE  LevelInv'
<1> DEFINE n == Len(pp.out)
<1>0. Running /\ n \in Nat /\ n + 1 \in Nat /\ Written(pp.out)
  BY WriteOne DEF EndInclude, AtEnd, LevelInv, ControlPlaced
<1>1. PICK fin : fin = Finished
  OBVIOUS
<1>2. /\ Shaped(fin) /\ fin.out = pp.out /\ Keeps(pp.ctl, fin.ctl, n)
      /\ fin.ctl.stack = pp.ctl.stack /\ fin.ctl.open = {}
      /\ \A c \in Codes : Current(fin.ctl, c) = Current(pp.ctl, c)
  BY <1>1, FinishedKeeps
<1>3. PICK outer, p : /\ p = Marker(fin, outer.file, outer.idx + 1)
                      /\ pp' = IF outer.closing THEN [p EXCEPT !.ctl = CloseSuppress(@, Len(p.out))]
                               ELSE p
  BY <1>1 DEF EndInclude
<1>4. Wrote(fin, p)
  BY <1>0, <1>2, <1>3, PutWrites DEF Marker
<1>5. /\ Shaped(p) /\ p.ctl = fin.ctl /\ Written(p.out) /\ Len(p.out) = n + 1
      /\ p.ctl \in Control /\ Placed(p.ctl, n)
  BY <1>2, <1>4 DEF Wrote, Keeps
<1>6. Placed(p.ctl, n + 1)
  BY <1>0, <1>5, PlacedLater
<1>7. PICK new : new = CloseSuppress(p.ctl, n + 1)
  OBVIOUS
<1>8. /\ Keeps(p.ctl, new, n + 1) /\ new.stack = p.ctl.stack /\ new.open = {}
      /\ \A c \in Codes : Current(new, c) = Current(p.ctl, c)
  BY <1>0, <1>5, <1>6, <1>7, CloseKeeps
<1>9. /\ Shaped(pp') /\ pp'.out = p.out /\ (pp'.ctl = new \/ pp'.ctl = p.ctl)
  BY <1>3, <1>5, <1>7 DEF Shaped
<1>10. /\ pp'.ctl \in Control /\ Placed(pp'.ctl, n + 1) /\ SameBelow(p.ctl, pp'.ctl, n + 1)
       /\ pp'.ctl.stack = pp.ctl.stack /\ pp'.ctl.open = {}
       /\ \A c \in Codes : Current(pp'.ctl, c) = Current(pp.ctl, c)
  <2>1. CASE pp'.ctl = new
    BY <1>2, <1>5, <1>8, <2>1 DEF Keeps
  <2>2. CASE pp'.ctl = p.ctl
    BY <1>2, <1>5, <1>6, <2>2 DEF SameBelow
  <2> QED
    BY <1>9, <2>1, <2>2
<1>11. ControlPlaced'
  BY <1>5, <1>9, <1>10 DEF ControlPlaced
<1>12. ExpectInv'
  <2>1. expect' = expect /\ Len(pp'.out) = n + 1
    BY <1>5, <1>9 DEF EndInclude
  <2>2. \A c \in Codes : \A x \in Nat : x < n => LevelAt(pp'.ctl, c, x) = LevelAt(pp.ctl, c, x)
    BY <1>0, <1>2, <1>5, <1>10 DEF Keeps, SameBelow
  <2> QED
    BY <1>0, <2>1, <2>2 DEF ExpectInv, LevelInv
<1>13. Sync'
  <2>1. Agrees(pp'.ctl, scope) /\ scope' = Uncovered(scope)
    BY <1>0, <1>10 DEF LevelInv, Sync, Agrees, EndInclude
  <2> QED
    BY <1>10, <2>1, UncoveredAgrees DEF Sync
<1> QED
  BY <1>11, <1>12, <1>13 DEF LevelInv

\* The preprocessor a pass starts with agrees with the empty scope.
LEMMA StartAgrees ==
  ASSUME NEW f, NEW p, p = Fresh \/ p = Recording(Fresh), NEW q, q = Marker(p, f, 1)
  PROVE  /\ Shaped(q) /\ Written(q.out) /\ q.ctl \in Control /\ Placed(q.ctl, Len(q.out))
         /\ Agrees(q.ctl, NoScope) /\ q.ctl.open = {}
         /\ \A c \in Codes : NoScope.next[c] = 0 /\ NoScope.cover[c] = 0
<1>1. /\ "ctl" \in DOMAIN Fresh /\ "out" \in DOMAIN Fresh
      /\ Fresh.ctl = NoControl /\ Fresh.out = <<>>
  BY DEF Fresh
<1>2. Shaped(Fresh)
  BY <1>1 DEF Shaped
<1>3. Like(Fresh, p)
  BY <1>2, NotedLike DEF Like
<1>4. Shaped(p) /\ p.ctl = NoControl /\ p.out = <<>> /\ Written(p.out)
  <2>1. <<>> \in Seq({})
    OBVIOUS
  <2> QED
    BY <1>1, <1>3, <2>1 DEF Like, Written
<1>5. Shaped(q) /\ q.ctl = NoControl /\ Written(q.out)
  BY <1>4, PutWrites DEF Wrote, Marker
<1>6. /\ NoControl \in Control /\ NoControl.stack = <<>> /\ NoControl.open = {}
      /\ \A c \in Codes : NoControl.events[c] = <<>> /\ NoControl.suppressed[c] = <<>>
  BY DEF NoControl, Control
<1>7. \A n : Placed(NoControl, n)
  BY <1>6 DEF Placed
<1>8. /\ NoScope \in Scopes /\ NoScope.saved = <<>>
      /\ \A c \in Codes : NoScope.want[c] = CmdLine /\ NoScope.cover[c] = 0 /\ NoScope.next[c] = 0
  BY DEF NoScope, Scopes, AllLevels
<1>9. \A c \in Codes : Current(NoControl, c) = CmdLine
  BY <1>6 DEF Current
<1> QED
  BY <1>5, <1>6, <1>7, <1>8, <1>9 DEF Agrees

\* The end of the preamble: the source follows, or the decision whether to read it.
LEMMA EndPreambleKeeps ==
  ASSUME LevelInv, EndPreamble
  PROVE  LevelInv'
<1> DEFINE n == Len(pp.out)
<1>0. Running /\ n \in Nat /\ Written(pp.out)
  BY WriteOne DEF EndPreamble, AtEnd, LevelInv, ControlPlaced
<1>1. PICK fin : fin = Finished
  OBVIOUS
<1>2. /\ Shaped(fin) /\ fin.out = pp.out /\ Keeps(pp.ctl, fin.ctl, n)
      /\ fin.ctl.stack = pp.ctl.stack /\ fin.ctl.open = {}
      /\ \A c \in Codes : Current(fin.ctl, c) = Current(pp.ctl, c)
  BY <1>1, FinishedKeeps
<1>3. /\ Shaped(pp') /\ Written(pp'.out) /\ pp'.ctl = fin.ctl
      /\ Len(pp'.out) = n \/ Len(pp'.out) = n + 1
  <2>1. CASE phase = "retry"
    BY <1>0, <1>1, <1>2, <2>1 DEF EndPreamble
  <2>2. CASE phase # "retry"
    <3>1. PICK p : /\ p = Recording(fin) \/ p = fin
                   /\ pp' = Marker(p, "main", 1)
      BY <1>1, <2>2 DEF EndPreamble, Start
    <3>2. Like(fin, p)
      BY <1>2, <3>1, NotedLike DEF Like
    <3>3. Wrote(p, pp')
      BY <1>0, <1>2, <3>1, <3>2, PutWrites DEF Like, Marker
    <3> QED
      BY <1>2, <3>2, <3>3 DEF Wrote, Like
  <2> QED
    BY <2>1, <2>2
<1>4. PICK m \in Nat : m = Len(pp'.out) /\ n <= m
  BY <1>0, <1>3
<1>5. fin.ctl \in Control /\ Placed(fin.ctl, n) /\ SameBelow(pp.ctl, fin.ctl, n)
  BY <1>2 DEF Keeps
<1>6. ControlPlaced'
  BY <1>0, <1>3, <1>4, <1>5, PlacedLater DEF ControlPlaced
<1>7. ExpectInv'
  <2>1. expect' = expect
    BY DEF EndPreamble
  <2> QED
    BY <1>0, <1>3, <1>4, <1>5, <2>1 DEF ExpectInv, LevelInv, SameBelow
<1>8. Sync'
  <2>1. Agrees(pp'.ctl, scope) /\ scope' = Uncovered(scope)
    BY <1>0, <1>2, <1>3 DEF LevelInv, Sync, Agrees, EndPreamble
  <2> QED
    BY <1>2, <1>3, <2>1, UncoveredAgrees DEF Sync
<1> QED
  BY <1>6, <1>7, <1>8 DEF LevelInv

\* The end of the source.
LEMMA EndSourceKeeps ==
  ASSUME LevelInv, EndSource
  PROVE  LevelInv'
<1>1. PICK fin : fin = Finished
  OBVIOUS
<1>2. Shaped(fin) /\ fin.out = pp.out /\ Keeps(pp.ctl, fin.ctl, Len(pp.out)) /\ pp' = fin
      /\ expect' = expect
  BY <1>1, FinishedKeeps DEF EndSource
<1>3. ~Running'
  BY DEF EndSource, Running
<1>4. ControlPlaced'
  BY <1>2 DEF ControlPlaced, LevelInv, Keeps
<1>5. ExpectInv'
  BY <1>2 DEF ExpectInv, LevelInv, Keeps, SameBelow
<1> QED
  BY <1>3, <1>4, <1>5 DEF LevelInv

\* Every step keeps the level of the lines behind it.
LEMMA LevelStep ==
  ASSUME LevelInv, [Next]_vars
  PROVE  LevelInv'
<1>1. CASE LineStep
  BY <1>1, OtherLinesKeep, FailingLinesKeep, SetLevelKeeps, PushDiagKeeps, PopDiagKeeps,
     SuppressKeeps, ReportOnceKeeps, ContentKeeps, IncludeKeeps DEF LineStep
<1>2. CASE Reuse \/ Decline \/ \E h \in AutoHeaders : Retry(h)
  <2>1. pp' = Marker(Fresh, Preamble, 1) /\ scope' = NoScope /\ expect' = {}
    BY <1>2 DEF Reuse, Decline, Retry, StartFull, Start
  <2>2. PICK f, p, q : f = Preamble /\ p = Fresh /\ q = Marker(p, f, 1)
    OBVIOUS
  <2>3. /\ Shaped(q) /\ Written(q.out) /\ q.ctl \in Control /\ Placed(q.ctl, Len(q.out))
        /\ Agrees(q.ctl, NoScope) /\ q.ctl.open = {}
        /\ \A c \in Codes : NoScope.next[c] = 0 /\ NoScope.cover[c] = 0
    BY <2>2, StartAgrees
  <2> QED
    BY <2>1, <2>2, <2>3 DEF LevelInv, ControlPlaced, ExpectInv, Sync
<1>3. CASE UNCHANGED vars
  BY <1>3 DEF vars, LevelInv, ControlPlaced, ExpectInv, Running, Sync
<1> QED
  BY <1>1, <1>2, <1>3, EndIncludeKeeps, EndPreambleKeeps, EndSourceKeeps DEF Next, PassStep

\* The first pass starts with nothing expected.
LEMMA LevelInit == Init => LevelInv
<1> SUFFICES ASSUME Init PROVE LevelInv
  OBVIOUS
<1>1. PICK f, p : /\ p = Fresh \/ p = Recording(Fresh)
                  /\ pp = Marker(p, f, 1) /\ scope = NoScope /\ expect = {}
  BY DEF Init, Start
<1>2. PICK q : q = Marker(p, f, 1)
  OBVIOUS
<1>3. /\ Shaped(q) /\ Written(q.out) /\ q.ctl \in Control /\ Placed(q.ctl, Len(q.out))
      /\ Agrees(q.ctl, NoScope) /\ q.ctl.open = {}
      /\ \A c \in Codes : NoScope.next[c] = 0 /\ NoScope.cover[c] = 0
  BY <1>1, <1>2, StartAgrees
<1> QED
  BY <1>1, <1>2, <1>3 DEF LevelInv, ControlPlaced, ExpectInv, Sync

\* Whatever the texts: the level looked up by offset is the level the pragmas had put in
\* force when the line at that offset was read, and no later push, pop, `suppress`,
\* include or retry changes it.
THEOREM LevelsScoped == Spec => []LevelIsScoped
<1>1. LevelInv => LevelIsScoped
  BY DEF LevelInv, ExpectInv, LevelIsScoped
<1> QED
  BY <1>1, LevelInit, LevelStep, PTL DEF Spec

-----------------------------------------------------------------------------
(* The conditional stack of every open buffer *)

\* The stack of conditionals: an arm that is taken counts as one, and `parent` says whether
\* every arm around it is.
CondOK(cond) ==
  /\ cond \in Seq(CondFrames)
  /\ \A k \in 1..Len(cond) : /\ cond[k].taken => cond[k].any
                             /\ cond[k].parent <=> \A j \in 1..(k - 1) : cond[j].taken

AllTaken(cond) == \A k \in 1..Len(cond) : cond[k].taken

FrameOK(fr) ==
  /\ "cond" \in DOMAIN fr /\ "active" \in DOMAIN fr
  /\ CondOK(fr.cond)
  /\ fr.active \in BOOLEAN
  /\ fr.active <=> AllTaken(fr.cond)

FramesInv == Written(frames) /\ \A i \in 1..Len(frames) : FrameOK(frames[i])

\* An #if: its arm is taken only where the line itself is live.
LEMMA CondPush ==
  ASSUME NEW c, CondOK(c), NEW x \in CondFrames,
         x.parent <=> AllTaken(c), x.taken => x.parent, x.any <=> x.taken
  PROVE  CondOK(Append(c, x)) /\ (AllTaken(Append(c, x)) <=> x.taken)
<1> DEFINE d == Append(c, x)
           n == Len(c)
<1>1. /\ d \in Seq(CondFrames) /\ Len(d) = n + 1 /\ n \in Nat /\ d[n + 1] = x
      /\ \A k \in 1..n : d[k] = c[k]
  BY DEF CondOK
<1> HIDE DEF d, n
<1>2. \A k \in 1..n : /\ c[k].taken => c[k].any
                      /\ c[k].parent <=> \A j \in 1..(k - 1) : c[j].taken
  BY DEF CondOK, n
<1>3. AllTaken(c) <=> \A k \in 1..n : c[k].taken
  BY DEF AllTaken, n
<1>4. AllTaken(d) <=> x.taken
  BY <1>1, <1>3 DEF AllTaken
<1>5. ASSUME NEW k \in 1..(n + 1)
      PROVE  /\ d[k].taken => d[k].any
             /\ d[k].parent <=> \A j \in 1..(k - 1) : d[j].taken
  <2>1. CASE k = n + 1
    BY <1>1, <1>3, <2>1
  <2>2. CASE k # n + 1
    BY <1>1, <1>2, <2>2
  <2> QED
    BY <2>1, <2>2
<1> QED
  BY <1>1, <1>4, <1>5 DEF CondOK, d

\* An #elif or #else: the last arm changes, what is around it does not.
LEMMA CondArm ==
  ASSUME NEW c, CondOK(c), c # <<>>, NEW x \in CondFrames,
         x.parent <=> Last(c).parent, x.taken => x.parent, x.taken => x.any,
         NEW d, d = [c EXCEPT ![Len(c)] = x]
  PROVE  CondOK(d) /\ (AllTaken(d) <=> x.taken)
<1> DEFINE n == Len(c)
<1>1. c \in Seq(CondFrames) /\ n \in Nat /\ n > 0 /\ Last(c) = c[n]
  BY DEF CondOK, Last
<1>2. /\ d \in Seq(CondFrames) /\ Len(d) = n /\ d[n] = x
      /\ \A k \in 1..(n - 1) : d[k] = c[k]
  BY <1>1
<1>3. \A k \in 1..n : /\ c[k].taken => c[k].any
                      /\ c[k].parent <=> \A j \in 1..(k - 1) : c[j].taken
  BY DEF CondOK
<1> HIDE DEF n
<1>4. x.parent <=> \A j \in 1..(n - 1) : d[j].taken
  BY <1>1, <1>2, <1>3
<1>5. AllTaken(d) <=> x.taken
  BY <1>1, <1>2, <1>4 DEF AllTaken
<1>6. ASSUME NEW k \in 1..n
      PROVE  /\ d[k].taken => d[k].any
             /\ d[k].parent <=> \A j \in 1..(k - 1) : d[j].taken
  <2>1. CASE k = n
    BY <1>2, <1>4, <2>1
  <2>2. CASE k # n
    BY <1>1, <1>2, <1>3, <2>2
  <2> QED
    BY <2>1, <2>2
<1> QED
  BY <1>2, <1>5, <1>6 DEF CondOK

\* An #endif: the line after it is as live as the #if was.
LEMMA CondPop ==
  ASSUME NEW c, CondOK(c), c # <<>>
  PROVE  CondOK(Front(c)) /\ (AllTaken(Front(c)) <=> Last(c).parent) /\ Last(c).parent \in BOOLEAN
<1> DEFINE n == Len(c)
           d == Front(c)
<1>1. c \in Seq(CondFrames) /\ n \in Nat /\ n > 0 /\ Last(c) = c[n] /\ c[n] \in CondFrames
  BY DEF CondOK, Last
<1>2. d \in Seq(CondFrames) /\ Len(d) = n - 1 /\ \A k \in 1..(n - 1) : d[k] = c[k]
  <2>1. d = SubSeq(c, 1, n - 1)
    BY DEF Front
  <2>2. \A k \in 1..(n - 1) : c[k] \in CondFrames
    BY <1>1
  <2> HIDE DEF d, n
  <2>3. d = [k \in 1..(n - 1) |-> c[k]]
    BY <1>1, <2>1
  <2>4. n - 1 \in Nat
    BY <1>1
  <2> QED
    BY <2>2, <2>3, <2>4
<1>3. \A k \in 1..n : /\ c[k].taken => c[k].any
                      /\ c[k].parent <=> \A j \in 1..(k - 1) : c[j].taken
  BY DEF CondOK
<1> HIDE DEF n, d
<1>4. AllTaken(d) <=> Last(c).parent
  BY <1>1, <1>2, <1>3 DEF AllTaken
<1>5. CondOK(d)
  <2>1. ASSUME NEW k \in 1..(n - 1)
        PROVE  /\ d[k].taken => d[k].any
               /\ d[k].parent <=> \A j \in 1..(k - 1) : d[j].taken
    <3>1. d[k] = c[k] /\ \A j \in 1..(k - 1) : d[j] = c[j]
      BY <1>1, <1>2
    <3> QED
      BY <1>1, <1>3, <3>1
  <2> QED
    BY <1>2, <2>1 DEF CondOK
<1>6. Last(c).parent \in BOOLEAN
  BY <1>1 DEF CondFrames
<1> QED
  BY <1>4, <1>5, <1>6 DEF d

\* The guard scan leaves the conditionals alone.
LEMMA ScanFrame ==
  ASSUME NEW fr, FrameOK(fr), NEW line
  PROVE  /\ FrameOK(Scan(fr, line))
         /\ Scan(fr, line).cond = fr.cond /\ Scan(fr, line).active = fr.active
<1>1. /\ "cond" \in DOMAIN Scan(fr, line) /\ "active" \in DOMAIN Scan(fr, line)
      /\ Scan(fr, line).cond = fr.cond /\ Scan(fr, line).active = fr.active
  BY DEF Scan, FrameOK
<1> QED
  BY <1>1 DEF FrameOK

\* The innermost buffer.
LEMMA TopFrame ==
  ASSUME FramesInv, frames # <<>>
  PROVE  /\ Len(frames) \in Nat /\ Len(frames) > 0
         /\ Fr = frames[Len(frames)] /\ FrameOK(Fr)
<1>1. PICK T : frames \in Seq(T)
  BY DEF FramesInv, Written
<1>2. Len(frames) \in Nat /\ Len(frames) > 0
  BY <1>1
<1> QED
  BY <1>2 DEF FramesInv, Fr, Last

\* A buffer that keeps its conditionals is as it was.
LEMMA SameFrame ==
  ASSUME NEW fr, FrameOK(fr), NEW new, "cond" \in DOMAIN new, "active" \in DOMAIN new,
         new.cond = fr.cond, new.active = fr.active
  PROVE  FrameOK(new)
BY DEF FrameOK

\* The end of a line, with the innermost buffer it leaves.
LEMMA FrameLine ==
  ASSUME FramesInv, frames # <<>>, NEW fr, FrameOK(fr), NEW p, EndLine(fr, p)
  PROVE  FramesInv'
<1>1. PICK x : x = [fr EXCEPT !.idx = @ + 1]
  OBVIOUS
<1>2. "cond" \in DOMAIN x /\ "active" \in DOMAIN x /\ x.cond = fr.cond /\ x.active = fr.active
  BY <1>1 DEF FrameOK
<1>3. FrameOK(x)
  BY <1>2, SameFrame
<1>4. PICK i : i = Len(frames)
  OBVIOUS
<1>5. frames' = [frames EXCEPT ![i] = x] /\ i \in 1..Len(frames)
  BY <1>1, <1>4, TopFrame DEF EndLine
<1>6. /\ Written(frames') /\ Len(frames') = Len(frames) /\ frames'[i] = x
      /\ \A k \in 1..Len(frames) : k # i => frames'[k] = frames[k]
  <2>1. PICK T : frames \in Seq(T)
    BY DEF FramesInv, Written
  <2>2. frames \in Seq(T \cup {x}) /\ Len(frames) \in Nat /\ DOMAIN frames = 1..Len(frames)
    BY <2>1
  <2>3. frames' \in Seq(T \cup {x}) /\ Len(frames') = Len(frames)
    BY <1>5, <2>2
  <2> QED
    BY <1>5, <2>2, <2>3 DEF Written
<1>7. \A k \in 1..Len(frames) : FrameOK(frames'[k])
  BY <1>3, <1>6 DEF FramesInv
<1> QED
  BY <1>6, <1>7 DEF FramesInv

\* A pass over no buffer, or over the first line of one.
LEMMA FrameStart ==
  ASSUME NEW s, s = <<>> \/ \E f : s = <<NewFrame(f)>>
  PROVE  Written(s) /\ \A i \in 1..Len(s) : FrameOK(s[i])
<1>1. CASE s = <<>>
  <2>1. s \in Seq({}) /\ Len(s) = 0
    BY <1>1
  <2> QED
    BY <2>1 DEF Written
<1>2. CASE \E f : s = <<NewFrame(f)>>
  <2>1. PICK f, x : x = NewFrame(f) /\ s = <<x>>
    BY <1>2
  <2>2. s \in Seq({x}) /\ Len(s) = 1 /\ s[1] = x
    BY <2>1
  <2>3. /\ "cond" \in DOMAIN x /\ "active" \in DOMAIN x /\ x.cond = <<>> /\ x.active = TRUE
    BY <2>1 DEF NewFrame
  <2>4. CondOK(<<>>) /\ AllTaken(<<>>)
    BY DEF CondOK, AllTaken
  <2>5. FrameOK(x)
    BY <2>3, <2>4 DEF FrameOK
  <2> QED
    BY <2>2, <2>5 DEF Written
<1> QED
  BY <1>1, <1>2

\* The lines that are no conditional.
LEMMA OtherFrames ==
  ASSUME FramesInv,
         \/ SkipLine \/ Define \/ Undef \/ PushMacro \/ PopMacro \/ Once \/ UnknownPragma
         \/ SidePragma \/ SetLevel \/ PushDiag \/ PopDiag \/ Suppress \/ ReportOnceLine \/ Content
  PROVE  FramesInv'
<1>1. frames # <<>> /\ (frames' = <<>> \/ \E p : EndLine(Scan(Fr, Line), p))
  <2>1. CASE SkipLine \/ Define \/ Undef \/ PushMacro \/ PopMacro \/ Once \/ UnknownPragma
    BY <2>1 DEF SkipLine, Define, Undef, PushMacro, PopMacro, Once, UnknownPragma, Plain,
                Reading, HasLine
  <2>2. CASE SidePragma
    BY <2>2 DEF SidePragma, Fail, Plain, Reading, HasLine
  <2>3. CASE SetLevel \/ PushDiag \/ PopDiag \/ Suppress \/ ReportOnceLine
    BY <2>3 DEF SetLevel, PushDiag, PopDiag, Suppress, ReportOnceLine, DiagPragma, Reading, HasLine
  <2>4. CASE Content
    BY <2>4 DEF Content, Reading, HasLine
  <2> QED
    BY <2>1, <2>2, <2>3, <2>4
<1>2. CASE frames' = <<>>
  BY <1>2, FrameStart DEF FramesInv
<1>3. CASE \E p : EndLine(Scan(Fr, Line), p)
  <2>1. PICK fr, p : fr = Scan(Fr, Line) /\ EndLine(fr, p)
    BY <1>3
  <2>2. FrameOK(fr)
    BY <1>1, <2>1, TopFrame, ScanFrame
  <2> QED
    BY <1>1, <2>1, <2>2, FrameLine
<1> QED
  BY <1>1, <1>2, <1>3

\* The conditionals.
LEMMA CondFramesKept ==
  ASSUME FramesInv, If \/ Elif \/ Else \/ Endif
  PROVE  FramesInv'
<1>0. frames # <<>>
  BY DEF If, Elif, Else, Endif, Reading, HasLine
<1>1. PICK fr : fr = Scan(Fr, Line)
  OBVIOUS
<1>2. FrameOK(fr) /\ fr.cond = Fr.cond /\ fr.active = Fr.active
  BY <1>0, <1>1, TopFrame, ScanFrame
<1>3. CondOK(fr.cond) /\ fr.active \in BOOLEAN /\ (fr.active <=> AllTaken(fr.cond))
  BY <1>2 DEF FrameOK
<1>4. ASSUME NEW new, FrameOK(new), NEW p, EndLine(new, p) PROVE FramesInv'
  BY <1>0, <1>4, FrameLine
<1>5. CASE frames' = <<>>
  BY <1>5, FrameStart DEF FramesInv
<1>6. CASE If
  <2>1. PICK taken, p : taken \in BOOLEAN /\ (taken => fr.active) /\ EndLine(PushBranch(fr, taken), p)
    <3> DEFINE truth == Defined(Line.arg) <=> Line.op = "ifdef"
    <3>1. \E p : EndLine(PushBranch(fr, Fr.active /\ truth), p)
      BY <1>1, <1>6 DEF If, Plain
    <3> HIDE DEF truth
    <3>2. (Fr.active /\ truth) \in BOOLEAN /\ ((Fr.active /\ truth) => fr.active)
      BY <1>2
    <3> QED
      BY <3>1, <3>2
  <2>2. PICK x : x = [parent |-> fr.active, taken |-> taken, any |-> taken, sawElse |-> FALSE]
    OBVIOUS
  <2>3. x \in CondFrames /\ x.parent = fr.active /\ x.taken = taken /\ x.any = taken
    BY <1>3, <2>1, <2>2 DEF CondFrames
  <2>4. CondOK(Append(fr.cond, x)) /\ (AllTaken(Append(fr.cond, x)) <=> taken)
    BY <1>3, <2>1, <2>3, CondPush
  <2>5. PICK new : new = PushBranch(fr, taken)
    OBVIOUS
  <2>6. /\ "cond" \in DOMAIN new /\ "active" \in DOMAIN new
        /\ new.cond = Append(fr.cond, x) /\ new.active = taken
    BY <1>2, <2>2, <2>5 DEF FrameOK, PushBranch
  <2>7. FrameOK(new)
    BY <2>1, <2>4, <2>6 DEF FrameOK
  <2> QED
    BY <1>4, <2>1, <2>5, <2>7
<1>7. CASE Elif \/ Else
  <2>1. \/ frames' = <<>>
        \/ \E taken \in BOOLEAN, isElse \in BOOLEAN : \E p :
              /\ fr.cond # <<>> /\ (taken => Last(fr.cond).parent)
              /\ EndLine(Arm(fr, taken, isElse), p)
    <3>1. CASE Elif /\ frames' # <<>>
      <4> DEFINE taken == Eligible(Fr) /\ Defined(Line.arg)
      <4>1. fr.cond # <<>> /\ \E p : EndLine(Arm(fr, taken, FALSE), p)
        BY <1>1, <1>2, <3>1 DEF Elif, Fail, Plain
      <4>2. taken \in BOOLEAN /\ (taken => Last(fr.cond).parent)
        BY <1>2 DEF Eligible
      <4> QED
        BY <4>1, <4>2
    <3>2. CASE Else /\ frames' # <<>>
      <4>1. fr.cond # <<>> /\ \E p : EndLine(Arm(fr, Eligible(Fr), TRUE), p)
        BY <1>1, <1>2, <3>2 DEF Else, Fail, Plain
      <4>2. Eligible(Fr) \in BOOLEAN /\ (Eligible(Fr) => Last(fr.cond).parent)
        BY <1>2 DEF Eligible
      <4> QED
        BY <4>1, <4>2
    <3> QED
      BY <1>7, <3>1, <3>2
  <2>2. ASSUME NEW taken \in BOOLEAN, NEW isElse \in BOOLEAN, NEW p,
               fr.cond # <<>>, taken => Last(fr.cond).parent, EndLine(Arm(fr, taken, isElse), p)
        PROVE  FramesInv'
    <3>1. PICK c, n, y : c = fr.cond /\ n = Len(c) /\ y = c[n]
      OBVIOUS
    <3>2. c \in Seq(CondFrames) /\ n \in Nat /\ n > 0 /\ y = Last(c) /\ y \in CondFrames
      BY <1>3, <2>2, <3>1 DEF CondOK, Last
    <3>3. PICK x : x = [parent |-> y.parent, taken |-> taken, any |-> y.any \/ taken,
                     sawElse |-> y.sawElse \/ isElse]
      OBVIOUS
    <3>4. x \in CondFrames /\ x.parent = y.parent /\ x.taken = taken /\ (x.taken => x.any)
      BY <2>2, <3>2, <3>3 DEF CondFrames
    <3>5. PICK d : d = [c EXCEPT ![Len(c)] = x]
      OBVIOUS
    <3>6. CondOK(d) /\ (AllTaken(d) <=> taken)
      BY <1>3, <2>2, <3>1, <3>2, <3>4, <3>5, CondArm
    <3>7. PICK new : new = Arm(fr, taken, isElse)
      OBVIOUS
    <3>8. new = [fr EXCEPT !.active = taken, !.cond = d]
      BY <3>1, <3>2, <3>3, <3>5, <3>7 DEF Arm
    <3>9. /\ "cond" \in DOMAIN new /\ "active" \in DOMAIN new
          /\ new.cond = d /\ new.active = taken
      BY <1>2, <3>8 DEF FrameOK
    <3>10. FrameOK(new)
      BY <2>2, <3>6, <3>9 DEF FrameOK
    <3> QED
      BY <1>4, <2>2, <3>7, <3>10
  <2> QED
    BY <1>5, <2>1, <2>2
<1>8. CASE Endif
  <2>1. \/ frames' = <<>>
        \/ /\ fr.cond # <<>>
           /\ \E p : EndLine([fr EXCEPT !.active = Last(fr.cond).parent, !.cond = Front(@)], p)
    BY <1>1, <1>2, <1>8 DEF Endif, Fail, Plain
  <2>2. ASSUME fr.cond # <<>>, NEW p,
               EndLine([fr EXCEPT !.active = Last(fr.cond).parent, !.cond = Front(@)], p)
        PROVE  FramesInv'
    <3>1. /\ CondOK(Front(fr.cond)) /\ (AllTaken(Front(fr.cond)) <=> Last(fr.cond).parent)
          /\ Last(fr.cond).parent \in BOOLEAN
      BY <1>3, <2>2, CondPop
    <3>2. PICK new : new = [fr EXCEPT !.active = Last(fr.cond).parent, !.cond = Front(@)]
      OBVIOUS
    <3>3. /\ "cond" \in DOMAIN new /\ "active" \in DOMAIN new
          /\ new.cond = Front(fr.cond) /\ new.active = Last(fr.cond).parent
      BY <1>2, <3>2 DEF FrameOK
    <3>4. FrameOK(new)
      BY <3>1, <3>3 DEF FrameOK
    <3> QED
      BY <1>4, <2>2, <3>2, <3>4
  <2> QED
    BY <1>5, <2>1, <2>2
<1> QED
  BY <1>6, <1>7, <1>8

\* An include adds a buffer, which starts live.
LEMMA IncludeFrames ==
  ASSUME FramesInv, Include
  PROVE  FramesInv'
<1>0. frames # <<>>
  BY DEF Include, Reading, HasLine
<1>1. PICK fr : fr = Scan(Fr, Line)
  OBVIOUS
<1>2. FrameOK(fr)
  BY <1>0, <1>1, TopFrame, ScanFrame
<1>3. \/ frames' = <<>>
      \/ \E p : EndLine(fr, p)
      \/ \E f : frames' = Append([frames EXCEPT ![Len(frames)] = [fr EXCEPT !.closing = Closing]],
                                 NewFrame(f))
  BY <1>1 DEF Include, Fail, Plain
<1>4. CASE frames' = <<>>
  BY <1>4, FrameStart DEF FramesInv
<1>5. CASE \E p : EndLine(fr, p)
  BY <1>0, <1>2, <1>5, FrameLine
<1>6. ASSUME NEW f, frames' = Append([frames EXCEPT ![Len(frames)] = [fr EXCEPT !.closing = Closing]],
                                     NewFrame(f))
      PROVE  FramesInv'
  <2>1. PICK x, y, i, s : /\ x = [fr EXCEPT !.closing = Closing] /\ y = NewFrame(f)
                          /\ i = Len(frames) /\ s = [frames EXCEPT ![i] = x]
    OBVIOUS
  <2>2. FrameOK(x)
    <3>1. "cond" \in DOMAIN x /\ "active" \in DOMAIN x /\ x.cond = fr.cond /\ x.active = fr.active
      BY <1>2, <2>1 DEF FrameOK
    <3> QED
      BY <1>2, <3>1, SameFrame
  <2>3. FrameOK(y)
    <3>1. PICK s1 : s1 = <<y>>
      OBVIOUS
    <3>2. s1 = <<NewFrame(f)>> /\ Len(s1) = 1 /\ s1[1] = y /\ 1 \in 1..1
      BY <2>1, <3>1
    <3>3. \A k \in 1..Len(s1) : FrameOK(s1[k])
      BY <3>2, FrameStart
    <3> QED
      BY <3>2, <3>3
  <2>4. PICK T : frames \in Seq(T)
    BY DEF FramesInv, Written
  <2>5. frames \in Seq(T \cup {x, y}) /\ i \in Nat /\ DOMAIN frames = 1..i /\ i > 0
    BY <1>0, <2>1, <2>4
  <2>6. /\ s \in Seq(T \cup {x, y}) /\ Len(s) = i /\ s[i] = x
        /\ \A k \in 1..i : k # i => s[k] = frames[k]
    BY <2>1, <2>5
  <2>7. frames' = Append(s, y)
    BY <1>6, <2>1
  <2>8. /\ frames' \in Seq(T \cup {x, y}) /\ Len(frames') = i + 1 /\ frames'[i + 1] = y
        /\ \A k \in 1..i : frames'[k] = s[k]
    BY <2>5, <2>6, <2>7
  <2>9. \A k \in 1..i : FrameOK(s[k])
    BY <2>1, <2>2, <2>6 DEF FramesInv
  <2> QED
    BY <2>3, <2>5, <2>8, <2>9 DEF FramesInv, Written
<1> QED
  BY <1>3, <1>4, <1>5, <1>6

\* The end of an include takes its buffer off, and moves the one around it on.
LEMMA EndIncludeFrames ==
  ASSUME FramesInv, EndInclude
  PROVE  FramesInv'
<1>1. PICK i, o : /\ i = Len(frames) - 1 /\ o = frames[i]
                  /\ frames' = [Front(frames) EXCEPT ![i].idx = @ + 1]
  BY DEF EndInclude
<1>2. PICK T : frames \in Seq(T)
  BY DEF FramesInv, Written
<1>3. Len(frames) \in Nat /\ i \in Nat /\ i > 0
  BY <1>1, <1>2 DEF EndInclude, InInclude
<1>4. PICK s : s = Front(frames)
  OBVIOUS
<1>5. s \in Seq(T) /\ Len(s) = i /\ \A k \in 1..i : s[k] = frames[k]
  <2>1. s = [k \in 1..i |-> frames[k]]
    BY <1>1, <1>2, <1>3, <1>4 DEF Front
  <2>2. \A k \in 1..i : frames[k] \in T
    BY <1>1, <1>2, <1>3
  <2> QED
    BY <1>3, <2>1, <2>2
<1>6. PICK x : x = [o EXCEPT !.idx = @ + 1]
  OBVIOUS
<1>7. FrameOK(o)
  BY <1>1, <1>3 DEF FramesInv
<1>8. FrameOK(x)
  <2>1. "cond" \in DOMAIN x /\ "active" \in DOMAIN x /\ x.cond = o.cond /\ x.active = o.active
    BY <1>6, <1>7 DEF FrameOK
  <2> QED
    BY <1>7, <2>1, SameFrame
<1>9. frames' = [s EXCEPT ![i] = x]
  <2>1. frames' = [s EXCEPT ![i] = [s[i] EXCEPT !.idx = @ + 1]]
    BY <1>1, <1>4
  <2>2. s[i] = o
    BY <1>1, <1>3, <1>5
  <2> QED
    BY <1>6, <2>1, <2>2
<1>10. s \in Seq(T \cup {x}) /\ DOMAIN s = 1..i
  BY <1>5
<1>11. /\ frames' \in Seq(T \cup {x}) /\ Len(frames') = i /\ frames'[i] = x
       /\ \A k \in 1..i : k # i => frames'[k] = s[k]
  BY <1>3, <1>5, <1>9, <1>10
<1>12. \A k \in 1..i : FrameOK(frames'[k])
  BY <1>1, <1>3, <1>5, <1>8, <1>11 DEF FramesInv
<1> QED
  BY <1>11, <1>12 DEF FramesInv, Written

\* Every step keeps the conditionals of every buffer.
LEMMA FramesStep ==
  ASSUME FramesInv, [Next]_vars
  PROVE  FramesInv'
<1>1. CASE LineStep
  BY <1>1, OtherFrames, CondFramesKept, IncludeFrames DEF LineStep
<1>2. CASE EndPreamble \/ EndSource \/ Reuse \/ Decline \/ \E h \in AutoHeaders : Retry(h)
  <2>1. frames' = <<>> \/ \E f : frames' = <<NewFrame(f)>>
    BY <1>2 DEF EndPreamble, EndSource, Reuse, Decline, Retry, StartFull, Start
  <2> QED
    BY <2>1, FrameStart DEF FramesInv
<1>3. CASE UNCHANGED vars
  BY <1>3 DEF vars, FramesInv
<1> QED
  BY <1>1, <1>2, <1>3, EndIncludeFrames DEF Next, PassStep

\* A pass starts with no conditional open.
LEMMA FramesInit == Init => FramesInv
<1>1. Init => frames = <<>> \/ \E f : frames = <<NewFrame(f)>>
  BY DEF Init, Start
<1> QED
  BY <1>1, FrameStart DEF FramesInv

\* Whatever the texts and however deep: a line is live exactly when the arm being read of
\* every open conditional of its file is taken, and no arm is taken in a branch not taken.
THEOREM ArmsActive == Spec => []ActiveIsArms
<1>1. FramesInv => ActiveIsArms
  <2> SUFFICES ASSUME FramesInv, NEW i \in DOMAIN frames
               PROVE  LET cond == frames[i].cond
                      IN  /\ frames[i].active <=> \A k \in DOMAIN cond : cond[k].taken
                          /\ \A k \in DOMAIN cond :
                                /\ cond[k].taken => cond[k].any
                                /\ cond[k].parent <=> \A j \in 1 .. k - 1 : cond[j].taken
    BY DEF ActiveIsArms
  <2>1. PICK T : frames \in Seq(T)
    BY DEF FramesInv, Written
  <2>2. i \in 1..Len(frames)
    BY <2>1
  <2>3. FrameOK(frames[i])
    BY <2>2 DEF FramesInv
  <2>4. PICK cond : cond = frames[i].cond
    OBVIOUS
  <2>5. CondOK(cond) /\ (frames[i].active <=> AllTaken(cond))
    BY <2>3, <2>4 DEF FrameOK
  <2>6. DOMAIN cond = 1..Len(cond)
    BY <2>5 DEF CondOK
  <2> QED
    BY <2>4, <2>5, <2>6 DEF CondOK, AllTaken
<1> QED
  BY <1>1, FramesInit, FramesStep, PTL DEF Spec

-----------------------------------------------------------------------------
(* Types: the macro table, the registries and the open buffers *)

Files == Headers \cup {"main", Preamble}

LineOK(line) ==
  /\ line.op \in NamingOps => line.arg \in Names
  /\ line.op = "define" => line.val \in Nat

Inputs == prog \in Programs /\ forced \in Seq(Headers)

\* The lines of a file, and of the preamble.
LEMMA TextLines ==
  ASSUME Inputs, NEW f \in Files
  PROVE  /\ Len(Text(f)) \in Nat
         /\ \A i \in 1..Len(Text(f)) : /\ LineOK(Text(f)[i])
                                       /\ f = Preamble => Text(f)[i].op = "include"
<1>1. CASE f = Preamble
  <2>1. PICK s : s = Text(f)
    OBVIOUS
  <2>2. s = [i \in 1..Len(forced) |-> [op |-> "include", arg |-> forced[i]]] /\ Len(forced) \in Nat
    BY <1>1, <2>1 DEF Text, Inputs
  <2>3. Len(s) = Len(forced) /\ \A i \in 1..Len(forced) : s[i].op = "include"
    BY <2>2
  <2> QED
    BY <2>1, <2>2, <2>3 DEF LineOK, NamingOps
<1>2. CASE f # Preamble
  <2>1. PICK s : s = prog[f]
    OBVIOUS
  <2>2. Text(f) = s /\ f \in DOMAIN prog
    BY <1>2, <2>1, HeadersAssumption DEF Text, Inputs, Files
  <2>3. s \in Seq(ToSet(s)) /\ \A line \in ToSet(s) : LineOK(line)
    BY <2>1, <2>2, TextsAssumption DEF LineOK, Inputs
  <2>4. Len(s) \in Nat /\ \A i \in 1..Len(s) : s[i] \in ToSet(s)
    BY <2>3
  <2> QED
    BY <1>2, <2>2, <2>3, <2>4
<1> QED
  BY <1>1, <1>2

\* The macro table, the saved macros and the registries of files.
TablesOK(p) ==
  /\ {"macros", "pushed", "once", "guards"} \subseteq DOMAIN p
  /\ p.macros \in [Names -> Nat]
  /\ p.pushed \in [Names -> Seq(Nat)]
  /\ p.once \subseteq Headers \cup {"main"}
  /\ DOMAIN p.guards \subseteq Headers
  /\ \A f \in DOMAIN p.guards : p.guards[f] \in Names

\* q has the tables of p.
SameTables(p, q) ==
  /\ {"macros", "pushed", "once", "guards"} \subseteq DOMAIN q
  /\ q.macros = p.macros /\ q.pushed = p.pushed /\ q.once = p.once /\ q.guards = p.guards

\* A preprocessor with the same tables is as well typed.
LEMMA TablesSame ==
  ASSUME NEW p, TablesOK(p), NEW q, SameTables(p, q)
  PROVE  TablesOK(q)
BY DEF TablesOK, SameTables

\* Tables are the same in turn.
LEMMA TablesChain ==
  ASSUME NEW p, NEW q, SameTables(p, q), NEW r, SameTables(q, r)
  PROVE  SameTables(p, r)
BY DEF SameTables

\* What leaves the tables alone.
LEMMA OtherThanTables ==
  ASSUME NEW p, {"macros", "pushed", "once", "guards"} \subseteq DOMAIN p, NEW v
  PROVE  /\ SameTables(p, p)
         /\ SameTables(p, [p EXCEPT !.ctl = v]) /\ SameTables(p, [p EXCEPT !.out = v])
         /\ SameTables(p, [p EXCEPT !.counter = v]) /\ SameTables(p, [p EXCEPT !.records = v])
         /\ SameTables(p, [p EXCEPT !.system = v]) /\ SameTables(p, [p EXCEPT !.exports = v])
         /\ SameTables(p, [p EXCEPT !.entrypoint = v]) /\ SameTables(p, [p EXCEPT !.diags = v])
         /\ SameTables(p, [p EXCEPT !.sink = v]) /\ SameTables(p, [p EXCEPT !.rec = v])
BY DEF SameTables

\* Output, a name noted, a diagnostic, the recorder.
LEMMA TablesKept ==
  ASSUME NEW p, TablesOK(p), NEW n, NEW m
  PROVE  /\ TablesOK(Put(p, n)) /\ TablesOK(Blank(p)) /\ TablesOK(Marker(p, n, m))
         /\ TablesOK(Noted(p, n)) /\ TablesOK(Warned(p, n)) /\ TablesOK(Recording(p))
<1>0. {"macros", "pushed", "once", "guards"} \subseteq DOMAIN p
  BY DEF TablesOK
<1>1. \A t : SameTables(p, Put(p, t))
  BY <1>0, OtherThanTables DEF Put
<1>2. SameTables(p, Noted(p, n))
  BY <1>0, OtherThanTables DEF Noted
<1>3. SameTables(p, Warned(p, n))
  BY <1>0, OtherThanTables DEF Warned
<1>4. SameTables(p, Recording(p))
  BY <1>0, OtherThanTables DEF Recording
<1> QED
  BY <1>1, <1>2, <1>3, <1>4, TablesSame DEF Blank, Marker

\* The end of a line.
LEMMA TablesLine ==
  ASSUME NEW fr, NEW p, TablesOK(p), EndLine(fr, p)
  PROVE  TablesOK(pp')
<1>1. SameTables(p, pp')
  BY OtherThanTables DEF EndLine, TablesOK
<1> QED
  BY <1>1, TablesSame

\* A macro is given a definition, or loses it.
LEMMA MacroSet ==
  ASSUME NEW p, TablesOK(p), NEW n, NEW v \in Nat
  PROVE  TablesOK([p EXCEPT !.macros[n] = v])
<1>1. PICK m, q : m = [p.macros EXCEPT ![n] = v] /\ q = [p EXCEPT !.macros = m]
  OBVIOUS
<1>2. m \in [Names -> Nat]
  BY <1>1 DEF TablesOK
<1>3. TablesOK(q)
  BY <1>1, <1>2 DEF TablesOK
<1> QED
  BY <1>1, <1>3

\* The saves of a macro are replaced.
LEMMA PushedSet ==
  ASSUME NEW p, TablesOK(p), NEW n, NEW v \in Seq(Nat)
  PROVE  TablesOK([p EXCEPT !.pushed[n] = v])
<1>1. PICK m, q : m = [p.pushed EXCEPT ![n] = v] /\ q = [p EXCEPT !.pushed = m]
  OBVIOUS
<1>2. m \in [Names -> Seq(Nat)]
  BY <1>1 DEF TablesOK
<1>3. TablesOK(q)
  BY <1>1, <1>2 DEF TablesOK
<1> QED
  BY <1>1, <1>3

GuardStates == {"leading", "open", "closed", "disqualified"}

\* An open buffer: a line of its file, or its end; a guard that may count has a name.
Buffer(fr) ==
  /\ {"file", "idx", "guard", "gname"} \subseteq DOMAIN fr
  /\ fr.file \in Files
  /\ fr.idx \in 1..(Len(Text(fr.file)) + 1)
  /\ fr.guard \in GuardStates
  /\ fr.guard \in {"open", "closed"} => fr.gname \in Names

\* Below the innermost buffer every one stands on the line of its include; above the
\* outermost every one is of a header.
Buffers ==
  /\ Len(frames) <= MaxDepth + 1
  /\ \A i \in 1..Len(frames) :
        /\ Buffer(frames[i])
        /\ i > 1 => frames[i].file \in Headers
        /\ i < Len(frames) => frames[i].idx <= Len(Text(frames[i].file))

TypeInv == phase \in Phases /\ Inputs /\ TablesOK(pp) /\ Buffers

\* The line being read.
LEMMA LineRead ==
  ASSUME TypeInv, FramesInv, HasLine
  PROVE  /\ Buffer(Fr) /\ Fr.idx \in 1..Len(Text(Fr.file)) /\ LineOK(Line)
         /\ Line.op = "once" => Fr.file \in Headers \cup {"main"}
         /\ Len(frames) > 1 => Fr.file \in Headers
<1>1. Len(frames) \in Nat /\ Len(frames) > 0 /\ Fr = frames[Len(frames)]
  BY TopFrame DEF HasLine
<1>2. Buffer(Fr) /\ (Len(frames) > 1 => Fr.file \in Headers)
  BY <1>1 DEF TypeInv, Buffers
<1>3. PICK f, i : f = Fr.file /\ i = Fr.idx
  OBVIOUS
<1>4. f \in Files /\ i \in 1..(Len(Text(f)) + 1) /\ i <= Len(Text(f))
  BY <1>2, <1>3 DEF Buffer, HasLine
<1>5. /\ Len(Text(f)) \in Nat
      /\ \A k \in 1..Len(Text(f)) : /\ LineOK(Text(f)[k])
                                    /\ f = Preamble => Text(f)[k].op = "include"
  BY <1>4, TextLines DEF TypeInv
<1>6. i \in 1..Len(Text(f))
  BY <1>4, <1>5
<1>7. Line = Text(f)[i]
  BY <1>3 DEF Line
<1> QED
  BY <1>2, <1>3, <1>4, <1>5, <1>6, <1>7 DEF Files

\* The scan keeps a buffer a buffer.
LEMMA ScanBuffer ==
  ASSUME NEW fr, Buffer(fr), NEW line, LineOK(line)
  PROVE  /\ Buffer(Scan(fr, line))
         /\ Scan(fr, line).file = fr.file /\ Scan(fr, line).idx = fr.idx
<1>1. PICK new : new = Scan(fr, line)
  OBVIOUS
<1>2. {"file", "idx", "guard", "gname"} \subseteq DOMAIN new /\ new.file = fr.file /\ new.idx = fr.idx
  BY <1>1 DEF Scan, Buffer
<1>3. new.guard \in GuardStates /\ (new.guard \in {"open", "closed"} => new.gname \in Names)
  BY <1>1 DEF Scan, Buffer, GuardStates, LineOK, NamingOps
<1> QED
  BY <1>1, <1>2, <1>3 DEF Buffer

\* fr2 is fr to the types.
SameBuffer(fr, fr2) ==
  /\ {"file", "idx", "guard", "gname"} \subseteq DOMAIN fr2
  /\ fr2.file = fr.file /\ fr2.idx = fr.idx /\ fr2.guard = fr.guard /\ fr2.gname = fr.gname

\* The end of a line moves the innermost buffer to its next line.
LEMMA BufferLine ==
  ASSUME TypeInv, FramesInv, HasLine, NEW fr, SameBuffer(Scan(Fr, Line), fr), NEW p, EndLine(fr, p),
         TablesOK(p)
  PROVE  TypeInv'
<1>1. PICK i, x : i = Len(frames) /\ x = [fr EXCEPT !.idx = @ + 1]
  OBVIOUS
<1>2. i \in Nat /\ i > 0 /\ Fr = frames[i]
  BY <1>1, TopFrame DEF HasLine
<1>3. /\ Buffer(Fr) /\ Fr.idx \in 1..Len(Text(Fr.file)) /\ LineOK(Line)
      /\ i > 1 => Fr.file \in Headers
  BY <1>1, LineRead
<1>4. PICK sc : sc = Scan(Fr, Line)
  OBVIOUS
<1>5. Buffer(sc) /\ sc.file = Fr.file /\ sc.idx = Fr.idx
  BY <1>3, <1>4, ScanBuffer
<1>6. PICK n \in Nat : n = Len(Text(Fr.file))
  BY <1>3, TextLines DEF TypeInv, Buffer
<1>7. /\ {"file", "idx", "guard", "gname"} \subseteq DOMAIN x
      /\ x.file = Fr.file /\ x.idx = Fr.idx + 1 /\ x.guard = sc.guard /\ x.gname = sc.gname
  BY <1>1, <1>4, <1>5 DEF SameBuffer
<1>8. Buffer(x)
  BY <1>3, <1>5, <1>6, <1>7 DEF Buffer
<1>9. frames' = [frames EXCEPT ![i] = x] /\ UNCHANGED <<prog, phase, forced>>
  BY <1>1 DEF EndLine
<1>10. PICK T : frames \in Seq(T)
  BY DEF FramesInv, Written
<1>11. Len(frames') = i /\ frames'[i] = x /\ \A k \in 1..i : k # i => frames'[k] = frames[k]
  <2>1. frames \in Seq(T \cup {x}) /\ DOMAIN frames = 1..i
    BY <1>1, <1>10
  <2> QED
    BY <1>2, <1>9, <2>1
<1>12. \A f : Text(f)' = Text(f)
  BY <1>9 DEF Text
<1>13. ASSUME NEW k \in 1..i
       PROVE  /\ Buffer(frames'[k])
              /\ k > 1 => frames'[k].file \in Headers
              /\ k < i => frames'[k].idx <= Len(Text(frames'[k].file))
  <2>1. CASE k = i
    BY <1>2, <1>3, <1>7, <1>8, <1>11, <2>1
  <2>2. CASE k # i
    BY <1>1, <1>2, <1>11, <2>2 DEF TypeInv, Buffers
  <2> QED
    BY <2>1, <2>2
<1>14. Buffers'
  BY <1>1, <1>9, <1>11, <1>12, <1>13 DEF Buffers, Buffer, TypeInv, Text
<1>15. TablesOK(pp')
  BY TablesLine
<1> QED
  BY <1>9, <1>14, <1>15 DEF TypeInv, Inputs, TablesOK

\* What the scan and a conditional leave of a buffer.
LEMMA BufferSame ==
  ASSUME NEW fr, Buffer(fr)
  PROVE  /\ SameBuffer(fr, fr)
         /\ \A taken : SameBuffer(fr, PushBranch(fr, taken))
         /\ \A taken, isElse : SameBuffer(fr, Arm(fr, taken, isElse))
         /\ \A a, c : SameBuffer(fr, [fr EXCEPT !.active = a, !.cond = c])
<1>1. \A a, c : SameBuffer(fr, [fr EXCEPT !.active = a, !.cond = c])
  BY DEF SameBuffer, Buffer
<1>2. \A taken : SameBuffer(fr, PushBranch(fr, taken))
  BY <1>1 DEF PushBranch
<1>3. \A taken, isElse : SameBuffer(fr, Arm(fr, taken, isElse))
  BY DEF SameBuffer, Buffer, Arm
<1> QED
  BY <1>1, <1>2, <1>3 DEF SameBuffer, Buffer

\* An error stops the pass.
LEMMA FailTypes ==
  ASSUME TypeInv, Fail
  PROVE  TypeInv'
<1>1. /\ frames' = <<>> /\ Len(<<>>) = 0 /\ phase' \in Phases
      /\ UNCHANGED <<prog, forced, pp>>
  BY DEF Fail, Phases
<1>2. Buffers'
  BY <1>1, HeadersAssumption DEF Buffers
<1> QED
  BY <1>1, <1>2 DEF TypeInv, Inputs, TablesOK

\* The lines that only move the pass on.
LEMMA LineTypes ==
  ASSUME TypeInv, FramesInv,
         \/ SkipLine \/ If \/ Elif \/ Else \/ Endif \/ UnknownPragma \/ SidePragma
         \/ SetLevel \/ PushDiag \/ PopDiag \/ Suppress \/ ReportOnceLine \/ Content
  PROVE  TypeInv'
<1>0. CASE Fail
  BY <1>0, FailTypes
<1>1. HasLine
  BY DEF SkipLine, If, Elif, Else, Endif, UnknownPragma, SidePragma, SetLevel, PushDiag, PopDiag,
         Suppress, ReportOnceLine, Content, Reading
<1>2. PICK sc : sc = Scan(Fr, Line)
  OBVIOUS
<1>3. Buffer(sc)
  BY <1>1, <1>2, LineRead, ScanBuffer
<1>4. ASSUME NEW fr, SameBuffer(sc, fr), NEW p, TablesOK(p), EndLine(fr, p) PROVE TypeInv'
  BY <1>1, <1>2, <1>4, BufferLine
<1>5. TablesOK(pp) /\ SameBuffer(sc, sc)
  BY <1>3, BufferSame DEF TypeInv
<1>6. ASSUME NEW p, TablesOK(p) PROVE TablesOK(Blank(p)) /\ \A t : TablesOK(Put(p, t))
  BY <1>6, TablesKept
<1>7. \A n : TablesOK(Noted(pp, n)) /\ TablesOK(Warned(pp, n))
  BY <1>5, TablesKept
<1>8. CASE SkipLine \/ UnknownPragma
  <2>1. \E p : TablesOK(p) /\ EndLine(sc, p)
    BY <1>2, <1>5, <1>6, <1>7, <1>8 DEF SkipLine, UnknownPragma, Plain
  <2> QED
    BY <1>4, <1>5, <2>1
<1>9. CASE If
  <2>1. \E taken, p : TablesOK(p) /\ EndLine(PushBranch(sc, taken), p)
    BY <1>2, <1>5, <1>6, <1>7, <1>9 DEF If, Plain
  <2> QED
    BY <1>3, <1>4, <2>1, BufferSame
<1>10. CASE Elif
  <2>1. Fail \/ \E taken, p : TablesOK(p) /\ EndLine(Arm(sc, taken, FALSE), p)
    BY <1>2, <1>5, <1>6, <1>7, <1>10 DEF Elif, Plain
  <2> QED
    BY <1>0, <1>3, <1>4, <2>1, BufferSame
<1>11. CASE Else
  <2>1. Fail \/ \E taken, p : TablesOK(p) /\ EndLine(Arm(sc, taken, TRUE), p)
    BY <1>2, <1>5, <1>6, <1>7, <1>11 DEF Else, Plain
  <2> QED
    BY <1>0, <1>3, <1>4, <2>1, BufferSame
<1>12. CASE Endif
  <2>1. Fail \/ \E a, c, p : TablesOK(p) /\ EndLine([sc EXCEPT !.active = a, !.cond = c], p)
    BY <1>2, <1>5, <1>6, <1>12 DEF Endif, Plain
  <2> QED
    BY <1>0, <1>3, <1>4, <2>1, BufferSame
<1>13. CASE SidePragma
  <2> DEFINE p == Apply(pp, Line)
             q == IF p.rec.on THEN [p EXCEPT !.rec.events = Append(@, Line)] ELSE p
  <2>1. Fail \/ EndLine(sc, Blank(q))
    BY <1>2, <1>13 DEF SidePragma, Plain
  <2>2. SameTables(pp, p)
    BY <1>5, OtherThanTables DEF Apply, TablesOK
  <2>3. TablesOK(p)
    BY <1>5, <2>2, TablesSame
  <2> HIDE DEF p
  <2>4. SameTables(p, q)
    BY <2>3 DEF SameTables, TablesOK
  <2> HIDE DEF q
  <2>5. TablesOK(Blank(q))
    BY <1>6, <2>3, <2>4, TablesSame
  <2> QED
    BY <1>0, <1>4, <1>5, <2>1, <2>5
<1>14. CASE SetLevel \/ PushDiag \/ PopDiag \/ Suppress \/ ReportOnceLine
  <2>1. \E ctl : LET p == [pp EXCEPT !.ctl = ctl]
                     w == Warned(p, "popped")
                 IN  \/ EndLine(sc, Blank([p EXCEPT !.diags = @ + 1]))
                     \/ EndLine(sc, Blank([w EXCEPT !.diags = @ + 1]))
    BY <1>2, <1>14 DEF SetLevel, PushDiag, PopDiag, Suppress, ReportOnceLine, DiagPragma
  <2>2. PICK ctl, p, w : /\ p = [pp EXCEPT !.ctl = ctl] /\ w = Warned(p, "popped")
                         /\ \/ EndLine(sc, Blank([p EXCEPT !.diags = @ + 1]))
                            \/ EndLine(sc, Blank([w EXCEPT !.diags = @ + 1]))
    BY <2>1
  <2>3. TablesOK(p)
    <3>1. SameTables(pp, p)
      BY <1>5, <2>2, OtherThanTables DEF TablesOK
    <3> QED
      BY <1>5, <3>1, TablesSame
  <2>4. TablesOK(w)
    BY <2>2, <2>3, TablesKept
  <2>5. ASSUME NEW q, TablesOK(q) PROVE TablesOK(Blank([q EXCEPT !.diags = @ + 1]))
    <3>1. PICK d, u : d = q.diags + 1 /\ u = [q EXCEPT !.diags = d]
      OBVIOUS
    <3>2. SameTables(q, u)
      BY <2>5, <3>1 DEF SameTables, TablesOK
    <3>3. TablesOK(u)
      BY <2>5, <3>2, TablesSame
    <3> QED
      BY <1>6, <3>1, <3>3
  <2> QED
    BY <1>4, <1>5, <2>2, <2>3, <2>4, <2>5
<1>15. CASE Content
  <2>1. PICK c : c = [pp EXCEPT !.counter = @ + 1, !.rec.counter = @ \/ pp.rec.on]
    OBVIOUS
  <2>2. TablesOK(c)
    <3>1. SameTables(pp, c)
      BY <1>5, <2>1 DEF SameTables, TablesOK
    <3> QED
      BY <1>5, <3>1, TablesSame
  <2>3. \E p : /\ EndLine(sc, p)
               /\ \/ \E t : p = Put(Noted(pp, Line.arg), t)
                  \/ \E t : p = Put(c, t)
                  \/ p = Blank(pp)
    BY <1>2, <1>15, <2>1 DEF Content
  <2> QED
    BY <1>4, <1>5, <1>6, <1>7, <2>2, <2>3
<1> QED
  BY <1>8, <1>9, <1>10, <1>11, <1>12, <1>13, <1>14, <1>15

\* The lines that change the macro table or the registry of `#pragma once`.
LEMMA MacroTypes ==
  ASSUME TypeInv, FramesInv, Define \/ Undef \/ PushMacro \/ PopMacro \/ Once
  PROVE  TypeInv'
<1>1. HasLine
  BY DEF Define, Undef, PushMacro, PopMacro, Once, Reading
<1>2. PICK sc, n : sc = Scan(Fr, Line) /\ n = Line.arg
  OBVIOUS
<1>3. Buffer(sc) /\ LineOK(Line)
  BY <1>1, <1>2, LineRead, ScanBuffer
<1>4. TablesOK(pp) /\ SameBuffer(sc, sc)
  BY <1>3, BufferSame DEF TypeInv
<1>5. ASSUME NEW p, TablesOK(p), EndLine(sc, Blank(p)) PROVE TypeInv'
  <2>1. PICK q : q = Blank(p)
    OBVIOUS
  <2>2. TablesOK(q)
    BY <1>5, <2>1, TablesKept
  <2> QED
    BY <1>1, <1>2, <1>4, <1>5, <2>1, <2>2, BufferLine
<1>6. TablesOK(Noted(pp, n)) /\ TablesOK(Warned(pp, "redefined"))
  BY <1>4, TablesKept
<1>7. pp.macros \in [Names -> Nat] /\ pp.pushed \in [Names -> Seq(Nat)]
  BY <1>4 DEF TablesOK
<1>8. CASE Define
  <2>1. PICK p, v : /\ p = pp \/ p = Warned(pp, "redefined")
                    /\ v = Line.val
                    /\ EndLine(sc, Blank([Noted(p, n) EXCEPT !.macros[n] = v]))
    BY <1>2, <1>8 DEF Define, Plain
  <2>2. v \in Nat
    BY <1>3, <1>8, <2>1 DEF Define, Reading, LineOK
  <2>3. TablesOK(Noted(p, n))
    BY <1>4, <1>6, <2>1, TablesKept
  <2> QED
    BY <1>5, <2>1, <2>2, <2>3, MacroSet
<1>9. CASE Undef
  <2>1. EndLine(sc, Blank([Noted(pp, n) EXCEPT !.macros[n] = 0]))
    BY <1>2, <1>9 DEF Undef, Plain
  <2> QED
    BY <1>5, <1>6, <2>1, MacroSet
<1>10. CASE PushMacro
  <2>1. PICK p, v : /\ p = Noted(pp, n) /\ v = Append(p.pushed[n], pp.macros[n])
                    /\ EndLine(sc, Blank([p EXCEPT !.pushed[n] = v]))
    BY <1>2, <1>10 DEF PushMacro, Plain
  <2>2. n \in Names
    BY <1>2, <1>3, <1>10 DEF PushMacro, Reading, LineOK, NamingOps
  <2>3. p.pushed[n] \in Seq(Nat) /\ pp.macros[n] \in Nat
    BY <1>6, <1>7, <2>1, <2>2 DEF TablesOK
  <2>4. v \in Seq(Nat)
    BY <2>1, <2>3
  <2> QED
    BY <1>5, <1>6, <2>1, <2>4, PushedSet
<1>11. CASE PopMacro
  <2>1. PICK p : p = Noted(pp, n)
    OBVIOUS
  <2>2. \/ EndLine(sc, Blank(Warned(p, "popped")))
        \/ /\ pp.pushed[n] # <<>>
           /\ EndLine(sc, Blank([p EXCEPT !.macros[n] = Last(pp.pushed[n]), !.pushed[n] = Front(@)]))
    BY <1>2, <1>11, <2>1 DEF PopMacro, Plain
  <2>3. n \in Names
    BY <1>2, <1>3, <1>11 DEF PopMacro, Reading, LineOK, NamingOps
  <2>4. TablesOK(p) /\ p.pushed = pp.pushed
    <3>1. p.pushed = pp.pushed
      BY <1>4, <2>1 DEF Noted, TablesOK
    <3> QED
      BY <1>6, <2>1, <3>1
  <2>5. CASE EndLine(sc, Blank(Warned(p, "popped")))
    BY <1>5, <2>4, <2>5, TablesKept
  <2>6. CASE /\ pp.pushed[n] # <<>>
             /\ EndLine(sc, Blank([p EXCEPT !.macros[n] = Last(pp.pushed[n]), !.pushed[n] = Front(@)]))
    <3>1. PICK l, f, q : /\ l = Last(pp.pushed[n]) /\ f = Front(p.pushed[n])
                         /\ q = [p EXCEPT !.macros[n] = l, !.pushed[n] = f]
      OBVIOUS
    <3>2. pp.pushed[n] \in Seq(Nat)
      BY <1>7, <2>3
    <3>3. l \in Nat /\ f \in Seq(Nat)
      <4>1. ASSUME NEW T, NEW t \in Seq(T), t # <<>> PROVE Last(t) \in T /\ Front(t) \in Seq(T)
        BY <4>1 DEF Last, Front
      <4> QED
        BY <2>4, <2>6, <3>1, <3>2, <4>1
    <3>4. PICK m, r : m = [p.macros EXCEPT ![n] = l] /\ r = [p.pushed EXCEPT ![n] = f]
      OBVIOUS
    <3>5. m \in [Names -> Nat] /\ r \in [Names -> Seq(Nat)]
      BY <2>4, <3>3, <3>4 DEF TablesOK
    <3>6. q = [p EXCEPT !.macros = m, !.pushed = r]
      BY <3>1, <3>4
    <3>7. TablesOK(q)
      BY <2>4, <3>5, <3>6 DEF TablesOK
    <3>8. EndLine(sc, Blank(q))
      BY <2>6, <3>1
    <3> QED
      BY <1>5, <3>7, <3>8
  <2> QED
    BY <2>2, <2>5, <2>6
<1>12. CASE Once
  <2>1. PICK o, q : /\ o = pp.once \cup {Fr.file} /\ q = [pp EXCEPT !.once = o]
                    /\ EndLine(sc, Blank(q))
    BY <1>2, <1>12 DEF Once, Plain
  <2>2. Line.op = "once"
    BY <1>12 DEF Once, Reading
  <2>3. Fr.file \in Headers \cup {"main"}
    BY <1>1, <2>2, LineRead
  <2>4. TablesOK(q)
    BY <1>4, <2>1, <2>3 DEF TablesOK
  <2> QED
    BY <1>5, <2>1, <2>4
<1> QED
  BY <1>8, <1>9, <1>10, <1>11, <1>12

\* The first line of a file.
LEMMA NewBuffer ==
  ASSUME Inputs, NEW f \in Files
  PROVE  Buffer(NewFrame(f)) /\ NewFrame(f).file = f
<1>1. PICK x : x = NewFrame(f)
  OBVIOUS
<1>2. /\ {"file", "idx", "guard", "gname"} \subseteq DOMAIN x
      /\ x.file = f /\ x.idx = 1 /\ x.guard = "leading"
  BY <1>1 DEF NewFrame
<1>3. Len(Text(f)) \in Nat
  BY TextLines
<1> QED
  BY <1>1, <1>2, <1>3 DEF Buffer, GuardStates

\* An include opens a header, within the depth the code allows.
LEMMA IncludeTypes ==
  ASSUME TypeInv, FramesInv, Include
  PROVE  TypeInv'
<1>1. HasLine
  BY DEF Include, Reading
<1>2. PICK sc, i : sc = Scan(Fr, Line) /\ i = Len(frames)
  OBVIOUS
<1>3. /\ Buffer(Fr) /\ Fr.idx \in 1..Len(Text(Fr.file)) /\ LineOK(Line)
      /\ i > 1 => Fr.file \in Headers
  BY <1>1, <1>2, LineRead
<1>4. Buffer(sc) /\ sc.file = Fr.file /\ sc.idx = Fr.idx
  BY <1>2, <1>3, ScanBuffer
<1> DEFINE f == Line.arg
           p1 == IF pp.rec.on THEN [pp EXCEPT !.rec.files = @ \cup {f}] ELSE pp
           p2 == IF f \notin pp.once /\ f \in DOMAIN pp.guards THEN Noted(p1, pp.guards[f]) ELSE p1
           traced(status) == [p2 EXCEPT !.records = Append(@, <<Len(frames), f, status>>)]
           opened == [traced("opened") EXCEPT !.system = IF f \in System THEN @ \cup {f} ELSE @]
<1>5. \/ Fail
      \/ EndLine(sc, Marker(traced("cached"), Fr.file, Fr.idx + 1))
      \/ /\ f \in Headers /\ ~TooDeep
         /\ frames' = Append([frames EXCEPT ![Len(frames)] = [sc EXCEPT !.closing = Closing]],
                             NewFrame(f))
         /\ pp' = Marker(opened, f, 1) /\ UNCHANGED <<prog, phase, forced>>
  BY <1>2 DEF Include, Plain
<1>6. TablesOK(pp) /\ SameBuffer(sc, sc)
  BY <1>4, BufferSame DEF TypeInv
<1>7. TablesOK(p1)
  <2>1. SameTables(pp, p1)
    BY <1>6 DEF SameTables, TablesOK
  <2> QED
    BY <1>6, <2>1, TablesSame
<1> HIDE DEF p1
<1>8. TablesOK(p2)
  BY <1>7, TablesKept
<1> HIDE DEF p2
<1>9. ASSUME NEW status PROVE TablesOK(traced(status))
  <2>1. SameTables(p2, traced(status))
    BY <1>8 DEF SameTables, TablesOK
  <2> QED
    BY <1>8, <2>1, TablesSame
<1> HIDE DEF traced
<1>10. TablesOK(opened)
  <2>1. PICK t, v : /\ t = traced("opened") /\ v = IF f \in System THEN t.system \cup {f} ELSE t.system
                    /\ opened = [t EXCEPT !.system = v]
    OBVIOUS
  <2>2. TablesOK(t)
    BY <1>9, <2>1
  <2>3. SameTables(t, opened)
    BY <2>1, <2>2 DEF SameTables, TablesOK
  <2> QED
    BY <2>2, <2>3, TablesSame
<1> HIDE DEF opened
<1>11. CASE EndLine(sc, Marker(traced("cached"), Fr.file, Fr.idx + 1))
  <2>1. PICK q : q = Marker(traced("cached"), Fr.file, Fr.idx + 1)
    OBVIOUS
  <2>2. TablesOK(q)
    BY <1>9, <2>1, TablesKept
  <2> QED
    BY <1>1, <1>2, <1>6, <1>11, <2>1, <2>2, BufferLine
<1>12. CASE /\ f \in Headers /\ ~TooDeep
            /\ frames' = Append([frames EXCEPT ![Len(frames)] = [sc EXCEPT !.closing = Closing]],
                                NewFrame(f))
            /\ pp' = Marker(opened, f, 1) /\ UNCHANGED <<prog, phase, forced>>
  <2>1. PICK x, y, s : /\ x = [sc EXCEPT !.closing = Closing] /\ y = NewFrame(f)
                       /\ s = [frames EXCEPT ![i] = x]
    OBVIOUS
  <2>2. /\ Buffer(x) /\ x.file = Fr.file /\ x.idx = Fr.idx
    BY <1>4, <2>1 DEF Buffer
  <2>3. Buffer(y) /\ y.file = f
    BY <1>12, <2>1, NewBuffer DEF TypeInv, Files
  <2>4. PICK T : frames \in Seq(T)
    BY DEF FramesInv, Written
  <2>5. frames \in Seq(T \cup {x, y}) /\ i \in Nat /\ DOMAIN frames = 1..i /\ i > 0
    BY <1>1, <1>2, <2>4 DEF HasLine
  <2>6. /\ s \in Seq(T \cup {x, y}) /\ Len(s) = i /\ s[i] = x
        /\ \A k \in 1..i : k # i => s[k] = frames[k]
    BY <2>1, <2>5
  <2>7. frames' = Append(s, y)
    BY <1>2, <1>12, <2>1
  <2>8. /\ Len(frames') = i + 1 /\ frames'[i + 1] = y
        /\ \A k \in 1..i : frames'[k] = s[k]
    BY <2>5, <2>6, <2>7
  <2>9. i + 1 <= MaxDepth + 1
    BY <1>2, <1>12, <2>5, HeadersAssumption DEF TooDeep
  <2>10. ASSUME NEW k \in 1..(i + 1)
         PROVE  /\ Buffer(frames'[k])
                /\ k > 1 => frames'[k].file \in Headers
                /\ k < i + 1 => frames'[k].idx <= Len(Text(frames'[k].file))
    <3>1. CASE k = i + 1
      BY <1>12, <2>3, <2>5, <2>8, <3>1
    <3>2. CASE k = i
      <4>1. frames'[k] = x
        BY <2>5, <2>6, <2>8, <3>2
      <4>2. Len(Text(Fr.file)) \in Nat
        BY <1>3, TextLines DEF TypeInv, Buffer
      <4> QED
        BY <1>3, <2>2, <3>2, <4>1, <4>2
    <3>3. CASE k # i /\ k # i + 1
      <4>1. k \in 1..i /\ k < i /\ frames'[k] = frames[k]
        BY <2>5, <2>6, <2>8, <3>3
      <4> QED
        BY <1>2, <4>1 DEF TypeInv, Buffers
    <3> QED
      BY <3>1, <3>2, <3>3
  <2>11. Buffers'
    BY <1>12, <2>8, <2>9, <2>10 DEF Buffers, Buffer, Text
  <2>12. TablesOK(pp')
    BY <1>10, <1>12, TablesKept
  <2> QED
    BY <1>12, <2>11, <2>12 DEF TypeInv, Inputs, TablesOK
<1> QED
  BY <1>5, <1>11, <1>12, FailTypes

\* The end of a buffer registers its guard, if it has one.
LEMMA FinishedTables ==
  ASSUME TypeInv, FramesInv, frames # <<>>
  PROVE  TablesOK(Finished)
<1>1. Len(frames) \in Nat /\ Len(frames) > 0 /\ Fr = frames[Len(frames)]
  BY TopFrame
<1>2. Buffer(Fr) /\ (InInclude => Fr.file \in Headers)
  BY <1>1 DEF TypeInv, Buffers, InInclude
<1> DEFINE p1 == [pp EXCEPT !.ctl = CloseSuppress(@, Len(pp.out))]
           p2 == IF Fr.cond = <<>> THEN p1 ELSE Warned(p1, "directive")
           g == [f \in DOMAIN p2.guards \cup {Fr.file} |->
                    IF f = Fr.file THEN GuardOf(Fr) ELSE p2.guards[f]]
<1>3. TablesOK(p1)
  <2>1. SameTables(pp, p1)
    BY DEF SameTables, TypeInv, TablesOK
  <2> QED
    BY <2>1, TablesSame DEF TypeInv
<1> HIDE DEF p1
<1>4. TablesOK(p2)
  BY <1>3, TablesKept
<1>5. Finished = IF InInclude /\ GuardOf(Fr) # "" THEN [p2 EXCEPT !.guards = g] ELSE p2
  BY DEF Finished, p1
<1> HIDE DEF p2
<1>6. CASE InInclude /\ GuardOf(Fr) # ""
  <2>1. GuardOf(Fr) \in Names
    BY <1>2, <1>6 DEF GuardOf, Buffer
  <2>2. DOMAIN g \subseteq Headers /\ \A f \in DOMAIN g : g[f] \in Names
    BY <1>2, <1>4, <1>6, <2>1 DEF TablesOK
  <2> HIDE DEF g
  <2>3. Finished = [p2 EXCEPT !.guards = g]
    BY <1>5, <1>6
  <2> QED
    BY <1>4, <2>2, <2>3 DEF TablesOK
<1> QED
  BY <1>4, <1>5, <1>6

\* The end of an included file.
LEMMA EndIncludeTypes ==
  ASSUME TypeInv, FramesInv, EndInclude
  PROVE  TypeInv'
<1>1. PICK i, o : /\ i = Len(frames) - 1 /\ o = frames[i]
                  /\ frames' = [Front(frames) EXCEPT ![i].idx = @ + 1]
  BY DEF EndInclude
<1>2. PICK T : frames \in Seq(T)
  BY DEF FramesInv, Written
<1>3. Len(frames) \in Nat /\ Len(frames) = i + 1 /\ i \in Nat /\ i > 0 /\ frames # <<>>
  BY <1>1, <1>2 DEF EndInclude, InInclude
<1>4. PICK s : s = Front(frames)
  OBVIOUS
<1>5. s \in Seq(T) /\ Len(s) = i /\ \A k \in 1..i : s[k] = frames[k]
  <2>1. s = [k \in 1..i |-> frames[k]]
    BY <1>1, <1>2, <1>3, <1>4 DEF Front
  <2>2. \A k \in 1..i : frames[k] \in T
    BY <1>1, <1>2, <1>3
  <2> QED
    BY <1>3, <2>1, <2>2
<1>6. PICK x : x = [o EXCEPT !.idx = @ + 1]
  OBVIOUS
<1>7. Buffer(o) /\ (i > 1 => o.file \in Headers) /\ o.idx <= Len(Text(o.file))
  BY <1>1, <1>3 DEF TypeInv, Buffers
<1>8. Buffer(x) /\ x.file = o.file
  <2>1. /\ {"file", "idx", "guard", "gname"} \subseteq DOMAIN x
        /\ x.file = o.file /\ x.idx = o.idx + 1 /\ x.guard = o.guard /\ x.gname = o.gname
    BY <1>6, <1>7 DEF Buffer
  <2>2. PICK n \in Nat : n = Len(Text(o.file))
    BY <1>7, TextLines DEF TypeInv, Buffer
  <2> QED
    BY <1>7, <2>1, <2>2 DEF Buffer
<1>9. frames' = [s EXCEPT ![i] = x]
  <2>1. frames' = [s EXCEPT ![i] = [s[i] EXCEPT !.idx = @ + 1]]
    BY <1>1, <1>4
  <2>2. s[i] = o
    BY <1>1, <1>3, <1>5
  <2> QED
    BY <1>6, <2>1, <2>2
<1>10. /\ Len(frames') = i /\ frames'[i] = x
       /\ \A k \in 1..i : k # i => frames'[k] = frames[k]
  <2>1. s \in Seq(T \cup {x}) /\ DOMAIN s = 1..i
    BY <1>5
  <2> QED
    BY <1>3, <1>5, <1>9, <2>1
<1>11. ASSUME NEW k \in 1..i
       PROVE  /\ Buffer(frames'[k])
              /\ k > 1 => frames'[k].file \in Headers
              /\ k < i => frames'[k].idx <= Len(Text(frames'[k].file))
  <2>1. CASE k = i
    BY <1>3, <1>7, <1>8, <1>10, <2>1
  <2>2. CASE k # i
    BY <1>3, <1>10, <2>2 DEF TypeInv, Buffers
  <2> QED
    BY <2>1, <2>2
<1>12. i <= MaxDepth + 1
  BY <1>3, HeadersAssumption DEF TypeInv, Buffers
<1>13. UNCHANGED <<prog, phase, forced>>
  BY DEF EndInclude
<1>14. Buffers'
  BY <1>10, <1>11, <1>12, <1>13 DEF Buffers, Buffer, Text
<1>15. TablesOK(pp')
  <2>1. PICK p : /\ TablesOK(p)
                 /\ pp' = p \/ pp' = [p EXCEPT !.ctl = CloseSuppress(@, Len(p.out))]
    BY <1>3, FinishedTables, TablesKept DEF EndInclude
  <2>2. SameTables(p, [p EXCEPT !.ctl = CloseSuppress(@, Len(p.out))])
    BY <2>1 DEF SameTables, TablesOK
  <2> QED
    BY <2>1, <2>2, TablesSame
<1> QED
  BY <1>13, <1>14, <1>15 DEF TypeInv, Inputs, TablesOK

\* A pass over no buffer, or over the first line of one.
LEMMA StartBuffers ==
  ASSUME Inputs, NEW s, s = <<>> \/ \E f \in Files : s = <<NewFrame(f)>>
  PROVE  /\ Len(s) <= MaxDepth + 1
         /\ \A i \in 1..Len(s) : /\ Buffer(s[i])
                                 /\ i > 1 => s[i].file \in Headers
                                 /\ i < Len(s) => s[i].idx <= Len(Text(s[i].file))
<1>1. CASE s = <<>>
  BY <1>1, HeadersAssumption
<1>2. CASE \E f \in Files : s = <<NewFrame(f)>>
  <2>1. PICK f, x : f \in Files /\ x = NewFrame(f) /\ s = <<x>>
    BY <1>2
  <2>2. Len(s) = 1 /\ s[1] = x
    BY <2>1
  <2>3. Buffer(x)
    BY <2>1, NewBuffer
  <2> QED
    BY <2>2, <2>3, HeadersAssumption
<1> QED
  BY <1>1, <1>2

\* The tables a pass starts with.
LEMMA FreshTables == TablesOK(Fresh) /\ TablesOK(Recording(Fresh))
<1>1. TablesOK(Fresh)
  BY DEF TablesOK, Fresh
<1> QED
  BY <1>1, TablesKept

\* The preamble of a retry: the list has grown by one.
LEMMA RetryTypes ==
  ASSUME TypeInv, NEW h \in AutoHeaders, Retry(h)
  PROVE  TypeInv'
<1>1. /\ phase' \in Phases /\ prog' = prog /\ forced' = Append(forced, h)
      /\ frames' = <<NewFrame(Preamble)>> /\ pp' = Marker(Fresh, Preamble, 1)
  BY DEF Retry, Start, Phases
<1>2. forced' \in Seq(Headers)
  BY <1>1, HeadersAssumption DEF TypeInv, Inputs
<1>3. PICK t : t = Text(Preamble)'
  OBVIOUS
<1>4. t = [i \in 1..Len(forced') |-> [op |-> "include", arg |-> forced'[i]]] /\ Len(forced') \in Nat
  BY <1>2, <1>3 DEF Text
<1>5. Len(t) \in Nat
  BY <1>4
<1>6. PICK x : x = NewFrame(Preamble)
  OBVIOUS
<1>7. /\ {"file", "idx", "guard", "gname"} \subseteq DOMAIN x
      /\ x.file = Preamble /\ x.idx = 1 /\ x.guard = "leading"
  BY <1>6 DEF NewFrame
<1>8. Len(frames') = 1 /\ frames'[1] = x
  BY <1>1, <1>6
<1>9. Buffer(x)'
  BY <1>3, <1>5, <1>7 DEF Buffer, GuardStates, Files
<1>10. Buffers'
  BY <1>8, <1>9, HeadersAssumption DEF Buffers
<1>11. TablesOK(pp')
  BY <1>1, FreshTables, TablesKept
<1> QED
  BY <1>1, <1>2, <1>10, <1>11 DEF TypeInv, Inputs, TablesOK

\* Every step keeps the types.
LEMMA TypeStep ==
  ASSUME TypeInv, FramesInv, [Next]_vars
  PROVE  TypeInv'
<1>1. CASE LineStep
  BY <1>1, LineTypes, MacroTypes, IncludeTypes DEF LineStep
<1>2. CASE EndPreamble \/ EndSource \/ Reuse \/ Decline
  <2>1. /\ UNCHANGED <<prog, forced>> /\ phase' \in Phases
        /\ frames' = <<>> \/ \E f \in Files : frames' = <<NewFrame(f)>>
    BY <1>2 DEF EndPreamble, EndSource, Reuse, Decline, StartFull, Start, Phases, Files, TypeInv
  <2>2. PICK s : s = frames'
    OBVIOUS
  <2>3. /\ Len(s) <= MaxDepth + 1
        /\ \A i \in 1..Len(s) : /\ Buffer(s[i])
                                /\ i > 1 => s[i].file \in Headers
                                /\ i < Len(s) => s[i].idx <= Len(Text(s[i].file))
    BY <2>1, <2>2, StartBuffers DEF TypeInv
  <2>4. Buffers'
    BY <2>1, <2>2, <2>3 DEF Buffers, Buffer, Text
  <2>5. TablesOK(pp')
    <3>1. CASE EndPreamble \/ EndSource
      <4>1. TablesOK(Finished)
        BY <3>1, FinishedTables DEF EndPreamble, EndSource, AtEnd
      <4>2. \/ pp' = Finished
            \/ pp' = Marker(Finished, "main", 1)
            \/ pp' = Marker(Recording(Finished), "main", 1)
        BY <3>1 DEF EndPreamble, EndSource, Start
      <4> QED
        BY <4>1, <4>2, TablesKept
    <3>2. CASE Reuse \/ Decline
      BY <3>2, FreshTables, TablesKept DEF Reuse, Decline, StartFull, Start
    <3> QED
      BY <1>2, <3>1, <3>2
  <2> QED
    BY <2>1, <2>4, <2>5 DEF TypeInv, Inputs, TablesOK
<1>3. CASE UNCHANGED vars
  BY <1>3 DEF vars, TypeInv, Inputs, TablesOK, Buffers, Buffer, Text
<1> QED
  BY <1>1, <1>2, <1>3, EndIncludeTypes, RetryTypes DEF Next, PassStep

\* A pass starts well typed.
LEMMA TypeInit == Init => TypeInv
<1> SUFFICES ASSUME Init PROVE TypeInv
  OBVIOUS
<1>1. Inputs /\ phase \in Phases
  BY HeadersAssumption DEF Init, Inputs, Phases
<1>2. \E f \in Files : frames = <<NewFrame(f)>>
  BY DEF Init, Start, Files
<1>3. TablesOK(pp)
  BY FreshTables, TablesKept DEF Init, Start
<1>4. Buffers
  BY <1>1, <1>2, StartBuffers DEF Buffers
<1> QED
  BY <1>1, <1>3, <1>4 DEF TypeInv

\* Types hold of every pass over any texts, and no chain of includes, however they are
\* nested or repeated, opens more than MAX_INCLUDE_DEPTH files at once.
THEOREM TypeCorrect == Spec => []TypeOK
<1>1. TypeInv /\ FramesInv /\ LevelInv => TypeOK
  <2> SUFFICES ASSUME TypeInv, FramesInv, LevelInv PROVE TypeOK
    OBVIOUS
  <2>1. PICK T : frames \in Seq(T)
    BY DEF FramesInv, Written
  <2>2. ASSUME NEW i \in DOMAIN frames
        PROVE  /\ frames[i].file \in Headers \cup {"main", Preamble}
               /\ frames[i].idx \in 1 .. Len(Text(frames[i].file)) + 1
               /\ frames[i].cond \in Seq(CondFrames)
               /\ frames[i].active \in BOOLEAN
               /\ frames[i].guard \in {"leading", "open", "closed", "disqualified"}
    <3>1. i \in 1..Len(frames)
      BY <2>1
    <3>2. FrameOK(frames[i]) /\ Buffer(frames[i])
      BY <3>1 DEF FramesInv, TypeInv, Buffers
    <3> QED
      BY <3>2 DEF FrameOK, CondOK, Buffer, Files, GuardStates
  <2>3. pp.ctl.open \subseteq Codes
    BY ControlFields DEF LevelInv, ControlPlaced
  <2>4. ASSUME NEW c \in Codes, NEW e \in ToSet(pp.ctl.events[c])
        PROVE  e.at \in Nat /\ e.level \in Levels \cup {CmdLine}
    <3>1. PICK s : s = pp.ctl.events[c]
      OBVIOUS
    <3>2. s \in Seq(Event)
      BY <3>1, ControlFields DEF LevelInv, ControlPlaced
    <3>3. e \in Event
      BY <2>4, <3>1, <3>2 DEF ToSet
    <3> QED
      BY <3>3 DEF Event, AllLevels
  <2> QED
    BY <2>2, <2>3, <2>4 DEF TypeOK, TypeInv, Inputs, TablesOK, Buffers
<1> QED
  BY <1>1, TypeInit, TypeStep, FramesInit, FramesStep, LevelInit, LevelStep, PTL DEF Spec

-----------------------------------------------------------------------------
(* The guard of a file: what the scan has seen of the file's conditionals *)

\* One line more is counted or is not.
LEMMA CountNext ==
  ASSUME NEW t, NEW ops, NEW i \in Nat \ {0}
  PROVE  /\ Count(t, ops, i) \in Nat
         /\ Count(t, ops, i + 1) = IF t[i].op \in ops THEN Count(t, ops, i) + 1
                                   ELSE Count(t, ops, i)
<1> DEFINE S == {j \in 1..(i - 1) : t[j].op \in ops}
           R == {j \in 1..(i + 1 - 1) : t[j].op \in ops}
<1>1. IsFiniteSet(1..(i - 1))
  BY FS_Interval
<1>2. IsFiniteSet(S)
  BY <1>1, FS_Subset
<1>3. Cardinality(S) \in Nat
  BY <1>2, FS_CardinalityType
<1>4. R = IF t[i].op \in ops THEN S \cup {i} ELSE S
  <2>1. 1..(i + 1 - 1) = 1..(i - 1) \cup {i}
    OBVIOUS
  <2> QED
    BY <2>1
<1>5. i \notin S
  OBVIOUS
<1>6. Count(t, ops, i) = Cardinality(S) /\ Count(t, ops, i + 1) = Cardinality(R)
  BY DEF Count
<1> HIDE DEF S, R
<1>7. Cardinality(S \cup {i}) = Cardinality(S) + 1
  BY <1>2, <1>5, FS_AddElement
<1> QED
  BY <1>3, <1>4, <1>6, <1>7

\* An #if nests what follows one level deeper, an #endif one less; no other line does.
LEMMA DepthNext ==
  ASSUME NEW t, NEW i \in Nat \ {0}
  PROVE  /\ Depth(t, i) \in Int
         /\ t[i].op \in {"ifdef", "ifndef"} => Depth(t, i + 1) = Depth(t, i) + 1
         /\ t[i].op = "endif" => Depth(t, i + 1) = Depth(t, i) - 1
         /\ t[i].op \notin {"ifdef", "ifndef", "endif"} => Depth(t, i + 1) = Depth(t, i)
<1> DEFINE a == Count(t, {"ifdef", "ifndef"}, i)
           b == Count(t, {"endif"}, i)
           c == Count(t, {"ifdef", "ifndef"}, i + 1)
           d == Count(t, {"endif"}, i + 1)
<1>1. a \in Nat /\ b \in Nat
  BY CountNext
<1>2. c = IF t[i].op \in {"ifdef", "ifndef"} THEN a + 1 ELSE a
  BY CountNext
<1>3. d = IF t[i].op \in {"endif"} THEN b + 1 ELSE b
  BY CountNext
<1>4. Depth(t, i) = a - b /\ Depth(t, i + 1) = c - d
  BY DEF Depth
<1> HIDE DEF a, b, c, d
<1> QED
  BY <1>1, <1>2, <1>3, <1>4

\* Blank lines nest nothing.
LEMMA DepthBlank ==
  ASSUME NEW t, NEW i \in Nat \ {0}, \A k \in 1..(i - 1) : t[k].op = "blank"
  PROVE  Depth(t, i) = 0
<1>1. {j \in 1..(i - 1) : t[j].op \in {"ifdef", "ifndef"}} = {}
  OBVIOUS
<1>2. {j \in 1..(i - 1) : t[j].op \in {"endif"}} = {}
  OBVIOUS
<1>3. Count(t, {"ifdef", "ifndef"}, i) = 0 /\ Count(t, {"endif"}, i) = 0
  BY <1>1, <1>2, FS_EmptySet DEF Count
<1> QED
  BY <1>3 DEF Depth

\* Every line from o to k is inside a conditional, and line k is no other arm of the one
\* that line o opens.
Inside(t, o, k) ==
  /\ \A j \in (o + 1)..k : Depth(t, j) >= 1
  /\ ~(Depth(t, k) = 1 /\ t[k].op \in {"elif", "else"})

\* Of the lines before n, o is `#ifndef g`, those before it are blank, and those after it are
\* inside its one arm or blank.
Enclosed(t, o, g, n) ==
  /\ o \in 1..(n - 1) /\ t[o].op = "ifndef" /\ t[o].arg = g
  /\ \A k \in 1..(o - 1) : t[k].op = "blank"
  /\ \A k \in (o + 1)..(n - 1) : t[k].op = "blank" \/ Inside(t, o, k)

\* What the state of the scan says of the lines before n.
Seen(t, guard, g, n) ==
  /\ guard = "leading" => \A k \in 1..(n - 1) : t[k].op = "blank"
  /\ guard = "open" => \E o : /\ Enclosed(t, o, g, n)
                              /\ \A j \in (o + 1)..(n - 1) : Depth(t, j) >= 1
  /\ guard = "closed" => \E o : Enclosed(t, o, g, n)

\* A line more that is inside the guard or blank.
LEMMA EnclosedNext ==
  ASSUME NEW t, NEW o, NEW g, NEW n \in Nat \ {0}, Enclosed(t, o, g, n),
         t[n].op = "blank" \/ Inside(t, o, n)
  PROVE  Enclosed(t, o, g, n + 1)
<1>1. o \in 1..(n + 1 - 1)
  BY DEF Enclosed
<1>2. ASSUME NEW k \in (o + 1)..(n + 1 - 1) PROVE t[k].op = "blank" \/ Inside(t, o, k)
  <2>1. CASE k = n
    BY <2>1
  <2>2. CASE k # n
    <3>1. k \in (o + 1)..(n - 1)
      BY <2>2 DEF Enclosed
    <3> QED
      BY <3>1 DEF Enclosed
  <2> QED
    BY <2>1, <2>2
<1> QED
  BY <1>1, <1>2 DEF Enclosed

\* A guard that encloses the whole file silences it: with its macro defined, the one arm the
\* lines are in does not hold.
LEMMA EnclosedQuiet ==
  ASSUME NEW t, NEW o, NEW g, NEW n \in Nat, DOMAIN t = 1..n, Enclosed(t, o, g, n + 1),
         NEW macros, macros[g] # 0, NEW i \in DOMAIN t,
         t[i].op \notin CondOps \cup {"blank"}
  PROVE  ~LiveLine(t, i, macros)
<1>1. o \in 1..n /\ t[o].op = "ifndef" /\ t[o].arg = g /\ \A k \in 1..(o - 1) : t[k].op = "blank"
  BY DEF Enclosed
<1>2. i \in Nat /\ i > o /\ i <= n
  BY <1>1 DEF CondOps
<1>3. ASSUME NEW k \in (o + 1)..i, t[k].op # "blank" PROVE Inside(t, o, k)
  <2>1. k \in (o + 1)..(n + 1 - 1)
    BY <1>1, <1>2
  <2> QED
    BY <1>3, <2>1 DEF Enclosed
<1>4. \A j \in (o + 1)..i : Depth(t, j) >= 1
  BY <1>1, <1>2, <1>3 DEF Inside
<1>5. Depth(t, o) = 0
  BY <1>1, DepthBlank
<1> DEFINE Opens(j) == /\ t[j].op \in {"ifdef", "ifndef"} /\ Depth(t, j) = 1 - 1
                       /\ \A k \in j + 1 .. i : Depth(t, k) >= 1
           opener == CHOOSE j \in 1 .. i - 1 : Opens(j)
<1>6. o \in 1 .. i - 1 /\ Opens(o)
  BY <1>1, <1>2, <1>4, <1>5
<1>7. ASSUME NEW j \in 1 .. i - 1, Opens(j) PROVE j = o
  <2>1. CASE j < o
    <3>1. j \in 1..(o - 1)
      BY <1>1, <2>1
    <3> QED
      BY <1>1, <1>7, <3>1
  <2>2. CASE j > o
    <3>1. j \in (o + 1)..i
      BY <1>1, <1>2, <2>2
    <3>2. Depth(t, j) >= 1
      BY <1>4, <3>1
    <3> QED
      BY <1>7, <3>2
  <2> QED
    BY <1>1, <2>1, <2>2
<1>8. opener = o
  BY <1>6, <1>7
<1>9. {j \in o + 1 .. i - 1 : t[j].op \in {"elif", "else"} /\ Depth(t, j) = 1} = {}
  <2>1. ASSUME NEW j \in o + 1 .. i - 1, t[j].op \in {"elif", "else"}, Depth(t, j) = 1 PROVE FALSE
    <3>1. j \in (o + 1)..i /\ t[j].op # "blank"
      BY <1>1, <1>2, <2>1
    <3>2. Inside(t, o, j)
      BY <1>3, <3>1
    <3> QED
      BY <2>1, <3>2 DEF Inside
  <2> QED
    BY <2>1
<1>10. Arms(t, i, 1) = {opener} \cup {j \in opener + 1 .. i - 1 :
                                        t[j].op \in {"elif", "else"} /\ Depth(t, j) = 1}
  BY DEF Arms
<1> HIDE DEF opener
<1>11. Arms(t, i, 1) = {o}
  BY <1>8, <1>9, <1>10
<1>12. PICK arms : arms = Arms(t, i, 1)
  OBVIOUS
<1>13. PICK mine : mine = CHOOSE j \in arms : \A k \in arms : k <= j
  OBVIOUS
<1>14. mine = o
  <2>1. o <= o
    BY <1>1
  <2> QED
    BY <1>11, <1>12, <1>13, <2>1
<1>15. ~Holds(t[mine], macros)
  BY <1>1, <1>14 DEF Holds
<1>16. 1 \in 1 .. Depth(t, i)
  <2>1. Depth(t, i) \in Int
    BY <1>2, DepthNext
  <2>2. Depth(t, i) >= 1
    BY <1>2, <1>1, <1>4
  <2> QED
    BY <2>1, <2>2
<1> SUFFICES ASSUME LiveLine(t, i, macros) PROVE FALSE
  OBVIOUS
<1>17. Holds(t[CHOOSE j \in Arms(t, i, 1) : \A k \in Arms(t, i, 1) : k <= j], macros)
  BY <1>16 DEF LiveLine
<1> QED
  BY <1>12, <1>13, <1>15, <1>17

\* The scan of one line, at the depth of that line.
LEMMA ScanSees ==
  ASSUME NEW t, NEW n \in Nat \ {0}, NEW fr, {"guard", "gname"} \subseteq DOMAIN fr,
         fr.guard \in GuardStates, fr.cond \in Seq(CondFrames), Depth(t, n) = Len(fr.cond),
         Seen(t, fr.guard, fr.gname, n)
  PROVE  Seen(t, Scan(fr, t[n]).guard, Scan(fr, t[n]).gname, n + 1)
<1>1. PICK sc, line, depth : sc = Scan(fr, t[n]) /\ line = t[n] /\ depth = Len(fr.cond)
  OBVIOUS
<1>2. Depth(t, n) = depth /\ depth \in Nat
  BY <1>1
<1> DEFINE state == IF fr.guard = "open" /\ depth = 0 THEN "closed" ELSE fr.guard
           ends  == \/ state \in {"leading", "closed"}
                    \/ state = "open" /\ depth = 1 /\ line.op \in {"else", "elif"}
<1>3. sc = IF line.op = "ifndef" /\ state = "leading" /\ depth = 0
           THEN [fr EXCEPT !.guard = "open", !.gname = line.arg]
           ELSE IF line.op # "blank" /\ ends
           THEN [fr EXCEPT !.guard = "disqualified"]
           ELSE [fr EXCEPT !.guard = state]
  BY <1>1 DEF Scan
<1>4. \A k \in 1..(n + 1 - 1) : k = n \/ k \in 1..(n - 1)
  OBVIOUS
<1>5. CASE line.op = "ifndef" /\ state = "leading" /\ depth = 0
  <2>1. sc.guard = "open" /\ sc.gname = line.arg
    BY <1>3, <1>5
  <2>2. fr.guard = "leading"
    BY <1>5
  <2>3. \A k \in 1..(n - 1) : t[k].op = "blank"
    BY <2>2 DEF Seen
  <2>4. Enclosed(t, n, line.arg, n + 1) /\ \A j \in (n + 1)..(n + 1 - 1) : Depth(t, j) >= 1
    BY <1>1, <1>5, <2>3 DEF Enclosed
  <2> QED
    BY <1>1, <2>1, <2>4 DEF Seen
<1>6. CASE ~(line.op = "ifndef" /\ state = "leading" /\ depth = 0) /\ line.op # "blank" /\ ends
  <2>1. sc.guard = "disqualified"
    BY <1>3, <1>6
  <2> QED
    BY <1>1, <2>1 DEF Seen
<1>7. CASE ~(line.op = "ifndef" /\ state = "leading" /\ depth = 0) /\ ~(line.op # "blank" /\ ends)
  <2>1. sc.guard = state /\ sc.gname = fr.gname
    BY <1>3, <1>7
  <2>2. CASE state = "disqualified"
    BY <1>1, <2>1, <2>2 DEF Seen
  <2>3. CASE state = "leading"
    <3>1. fr.guard = "leading" /\ line.op = "blank"
      BY <1>7, <2>3
    <3>2. \A k \in 1..(n + 1 - 1) : t[k].op = "blank"
      BY <1>1, <1>4, <3>1 DEF Seen
    <3> QED
      BY <1>1, <2>1, <2>3, <3>2 DEF Seen
  <2>4. CASE state = "closed"
    <3>1. line.op = "blank" /\ fr.guard \in {"open", "closed"}
      BY <1>7, <2>4
    <3>2. PICK o : Enclosed(t, o, fr.gname, n)
      BY <3>1 DEF Seen
    <3>3. Enclosed(t, o, fr.gname, n + 1)
      BY <1>1, <3>1, <3>2, EnclosedNext
    <3> QED
      BY <1>1, <2>1, <2>4, <3>3 DEF Seen
  <2>5. CASE state = "open"
    <3>1. fr.guard = "open" /\ depth # 0
      BY <2>5
    <3>2. PICK o : Enclosed(t, o, fr.gname, n) /\ \A j \in (o + 1)..(n - 1) : Depth(t, j) >= 1
      BY <3>1 DEF Seen
    <3>3. Depth(t, n) >= 1
      BY <1>1, <1>2, <3>1
    <3>4. \A j \in (o + 1)..n : Depth(t, j) >= 1
      BY <3>2, <3>3 DEF Enclosed
    <3>5. line.op = "blank" \/ ~(depth = 1 /\ line.op \in {"elif", "else"})
      BY <1>7, <2>5
    <3>6. t[n].op = "blank" \/ Inside(t, o, n)
      BY <1>1, <1>2, <3>4, <3>5 DEF Inside
    <3>7. Enclosed(t, o, fr.gname, n + 1)
      BY <3>2, <3>6, EnclosedNext
    <3>8. \A j \in (o + 1)..(n + 1 - 1) : Depth(t, j) >= 1
      BY <3>4
    <3> QED
      BY <1>1, <2>1, <2>5, <3>7, <3>8 DEF Seen
  <2> QED
    BY <2>2, <2>3, <2>4, <2>5 DEF GuardStates
<1> QED
  BY <1>5, <1>6, <1>7

\* The innermost buffer is about to read line idx; one below it stands on the line of its
\* include, which the scan has seen.
AboutToRead(t, fr) ==
  Depth(t, fr.idx) = Len(fr.cond) /\ Seen(t, fr.guard, fr.gname, fr.idx)

OnInclude(t, fr) ==
  /\ Depth(t, fr.idx) = Len(fr.cond) /\ Seen(t, fr.guard, fr.gname, fr.idx + 1)
  /\ t[fr.idx].op = "include"

Scanned ==
  \A i \in 1..Len(frames) :
    /\ i = Len(frames) => AboutToRead(Text(frames[i].file), frames[i])
    /\ i < Len(frames) => OnInclude(Text(frames[i].file), frames[i])

\* The line the innermost buffer reads, as the scan sees it.
LEMMA LineSeen ==
  ASSUME TypeInv, FramesInv, Scanned, HasLine
  PROVE  /\ Fr.idx \in Nat \ {0} /\ Line = Text(Fr.file)[Fr.idx]
         /\ Depth(Text(Fr.file), Fr.idx) = Len(Fr.cond)
         /\ Scan(Fr, Line).cond = Fr.cond /\ Fr.cond \in Seq(CondFrames)
         /\ Seen(Text(Fr.file), Scan(Fr, Line).guard, Scan(Fr, Line).gname, Fr.idx + 1)
<1>1. Len(frames) \in Nat /\ Len(frames) > 0 /\ Fr = frames[Len(frames)] /\ FrameOK(Fr)
  BY TopFrame DEF HasLine
<1>2. Buffer(Fr) /\ Fr.idx \in 1..Len(Text(Fr.file))
  BY LineRead
<1>3. PICK t, n, fr : t = Text(Fr.file) /\ n = Fr.idx /\ fr = Fr
  OBVIOUS
<1>4. n \in Nat \ {0} /\ Line = t[n]
  BY <1>2, <1>3 DEF Line
<1>5. AboutToRead(t, fr)
  BY <1>1, <1>3 DEF Scanned
<1>6. Depth(t, n) = Len(fr.cond) /\ Seen(t, fr.guard, fr.gname, n)
  BY <1>3, <1>5 DEF AboutToRead
<1>7. {"guard", "gname"} \subseteq DOMAIN fr /\ fr.guard \in GuardStates /\ fr.cond \in Seq(CondFrames)
  BY <1>1, <1>2, <1>3 DEF Buffer, FrameOK, CondOK
<1>8. Seen(t, Scan(fr, t[n]).guard, Scan(fr, t[n]).gname, n + 1)
  BY <1>4, <1>6, <1>7, ScanSees
<1>9. Scan(Fr, Line).cond = Fr.cond
  BY <1>1, ScanFrame
<1> QED
  BY <1>3, <1>4, <1>6, <1>7, <1>8, <1>9

\* The end of a line whose conditional stack follows the nesting of the text.
LEMMA ScanLine ==
  ASSUME TypeInv, FramesInv, Scanned, HasLine, NEW fr, SameBuffer(Scan(Fr, Line), fr),
         Len(fr.cond) = Depth(Text(Fr.file), Fr.idx + 1), NEW p, EndLine(fr, p), "cond" \in DOMAIN fr
  PROVE  Scanned'
<1>1. PICK i, x, sc : i = Len(frames) /\ x = [fr EXCEPT !.idx = @ + 1] /\ sc = Scan(Fr, Line)
  OBVIOUS
<1>2. i \in Nat /\ i > 0 /\ Fr = frames[i]
  BY <1>1, TopFrame DEF HasLine
<1>3. Buffer(Fr) /\ LineOK(Line)
  BY LineRead
<1>4. sc.file = Fr.file /\ sc.idx = Fr.idx
  BY <1>1, <1>3, ScanBuffer
<1>5. /\ x.file = Fr.file /\ x.idx = Fr.idx + 1 /\ x.guard = sc.guard /\ x.gname = sc.gname
      /\ x.cond = fr.cond
  BY <1>1, <1>4 DEF SameBuffer
<1>6. PICK t : t = Text(Fr.file)
  OBVIOUS
<1>7. AboutToRead(t, x)
  BY <1>1, <1>5, <1>6, LineSeen DEF AboutToRead
<1>8. frames' = [frames EXCEPT ![i] = x] /\ UNCHANGED <<prog, forced>>
  BY <1>1 DEF EndLine
<1>9. PICK T : frames \in Seq(T)
  BY DEF FramesInv, Written
<1>10. Len(frames') = i /\ frames'[i] = x /\ \A k \in 1..i : k # i => frames'[k] = frames[k]
  <2>1. frames \in Seq(T \cup {x}) /\ DOMAIN frames = 1..i
    BY <1>1, <1>9
  <2> QED
    BY <1>2, <1>8, <2>1
<1>11. ASSUME NEW k \in 1..i
       PROVE  /\ k = i => AboutToRead(Text(frames'[k].file), frames'[k])
              /\ k < i => OnInclude(Text(frames'[k].file), frames'[k])
  <2>1. CASE k = i
    BY <1>2, <1>5, <1>6, <1>7, <1>10, <2>1
  <2>2. CASE k # i
    <3>1. k < i /\ frames'[k] = frames[k]
      BY <1>2, <1>10, <2>2
    <3>2. OnInclude(Text(frames[k].file), frames[k])
      BY <1>1, <3>1 DEF Scanned
    <3> QED
      BY <2>2, <3>1, <3>2
  <2> QED
    BY <2>1, <2>2
<1> QED
  BY <1>8, <1>10, <1>11 DEF Scanned, Text

\* No buffer, or the first line of one.
LEMMA StartScanned ==
  ASSUME NEW s, s = <<>> \/ \E f : s = <<NewFrame(f)>>
  PROVE  /\ \A t : \A i \in 1..Len(s) : AboutToRead(t, s[i])
         /\ \A i \in 1..Len(s) : i = Len(s)
<1>1. CASE s = <<>>
  <2>1. Len(s) = 0
    BY <1>1
  <2> QED
    BY <2>1
<1>2. CASE \E f : s = <<NewFrame(f)>>
  <2>1. PICK f, x : x = NewFrame(f) /\ s = <<x>>
    BY <1>2
  <2>2. Len(s) = 1 /\ s[1] = x
    BY <2>1
  <2>3. x.idx = 1 /\ x.cond = <<>> /\ x.guard = "leading" /\ Len(<<>>) = 0
    BY <2>1 DEF NewFrame
  <2>4. ASSUME NEW t PROVE AboutToRead(t, x)
    <3>1. Depth(t, 1) = 0
      BY DepthBlank
    <3>2. Seen(t, "leading", x.gname, 1)
      BY DEF Seen
    <3> QED
      BY <2>3, <3>1, <3>2 DEF AboutToRead
  <2> QED
    BY <2>2, <2>4
<1> QED
  BY <1>1, <1>2

\* A step after which no buffer is open, or one at its first line.
LEMMA ScannedAnew ==
  ASSUME frames' = <<>> \/ \E f : frames' = <<NewFrame(f)>>
  PROVE  Scanned'
<1>1. PICK s : s = frames'
  OBVIOUS
<1>2. (\A t : \A i \in 1..Len(s) : AboutToRead(t, s[i])) /\ \A i \in 1..Len(s) : i = Len(s)
  BY <1>1, StartScanned
<1>3. \A i \in 1..Len(s) : ~(i < Len(s))
  BY <1>2
<1> QED
  BY <1>1, <1>2, <1>3 DEF Scanned

\* The lines that are no conditional.
LEMMA OtherScanned ==
  ASSUME TypeInv, FramesInv, Scanned,
         \/ SkipLine \/ Define \/ Undef \/ PushMacro \/ PopMacro \/ Once \/ UnknownPragma
         \/ SidePragma \/ SetLevel \/ PushDiag \/ PopDiag \/ Suppress \/ ReportOnceLine \/ Content
  PROVE  Scanned'
<1>1. /\ HasLine /\ Line.op \notin {"ifdef", "ifndef", "endif"}
      /\ frames' = <<>> \/ \E p : EndLine(Scan(Fr, Line), p)
  <2>1. CASE SkipLine
    BY <2>1 DEF SkipLine, Plain, CondOps
  <2>2. CASE Define \/ Undef \/ PushMacro \/ PopMacro \/ Once \/ UnknownPragma
    BY <2>2 DEF Define, Undef, PushMacro, PopMacro, Once, UnknownPragma, Plain, Reading
  <2>3. CASE SidePragma
    BY <2>3 DEF SidePragma, Fail, Plain, Reading
  <2>4. CASE SetLevel
    BY <2>4 DEF SetLevel, DiagPragma, Reading, Levels, CmdLine
  <2>5. CASE PushDiag \/ PopDiag \/ Suppress \/ ReportOnceLine
    BY <2>5 DEF PushDiag, PopDiag, Suppress, ReportOnceLine, DiagPragma, Reading
  <2>6. CASE Content
    BY <2>6 DEF Content, Reading
  <2> QED
    BY <2>1, <2>2, <2>3, <2>4, <2>5, <2>6
<1>2. CASE frames' = <<>>
  BY <1>2, ScannedAnew
<1>3. CASE \E p : EndLine(Scan(Fr, Line), p)
  <2>1. PICK fr, p : fr = Scan(Fr, Line) /\ EndLine(fr, p)
    BY <1>3
  <2>2. /\ Fr.idx \in Nat \ {0} /\ Line = Text(Fr.file)[Fr.idx]
        /\ Depth(Text(Fr.file), Fr.idx) = Len(Fr.cond) /\ fr.cond = Fr.cond
    BY <1>1, <2>1, LineSeen
  <2>3. Len(fr.cond) = Depth(Text(Fr.file), Fr.idx + 1)
    BY <1>1, <2>2, DepthNext
  <2>4. SameBuffer(fr, fr) /\ "cond" \in DOMAIN fr
    BY <1>1, <2>1, LineRead, ScanBuffer, BufferSame, TopFrame, ScanFrame DEF HasLine, FrameOK
  <2> QED
    BY <1>1, <2>1, <2>3, <2>4, ScanLine
<1> QED
  BY <1>1, <1>2, <1>3

\* The conditionals: the stack is as deep as the text is nested.
LEMMA CondScanned ==
  ASSUME TypeInv, FramesInv, Scanned, If \/ Elif \/ Else \/ Endif
  PROVE  Scanned'
<1>1. HasLine /\ frames # <<>>
  BY DEF If, Elif, Else, Endif, Reading, HasLine
<1>2. PICK sc, t, n, c : sc = Scan(Fr, Line) /\ t = Text(Fr.file) /\ n = Fr.idx /\ c = Fr.cond
  OBVIOUS
<1>3. n \in Nat \ {0} /\ Line = t[n] /\ Depth(t, n) = Len(c) /\ sc.cond = c /\ c \in Seq(CondFrames)
  BY <1>1, <1>2, LineSeen
<1>4. Buffer(sc) /\ "cond" \in DOMAIN sc
  BY <1>1, <1>2, LineRead, ScanBuffer, TopFrame, ScanFrame DEF FrameOK
<1>5. ASSUME NEW fr, SameBuffer(sc, fr), Len(fr.cond) = Depth(t, n + 1), "cond" \in DOMAIN fr,
             NEW p, EndLine(fr, p)
      PROVE  Scanned'
  BY <1>1, <1>2, <1>5, ScanLine
<1>6. CASE Fail
  BY <1>6, ScannedAnew DEF Fail
<1>7. CASE If
  <2>1. PICK taken, p : EndLine(PushBranch(sc, taken), p)
    BY <1>2, <1>7 DEF If, Plain
  <2>2. PICK fr : fr = PushBranch(sc, taken)
    OBVIOUS
  <2>3. "cond" \in DOMAIN fr /\ \E x : fr.cond = Append(c, x)
    BY <1>3, <1>4, <2>2 DEF PushBranch
  <2>4. PICK x, d : d = Append(c, x) /\ fr.cond = d
    BY <2>3
  <2>5. Len(d) = Len(c) + 1
    <3>1. c \in Seq(CondFrames \cup {x})
      BY <1>3
    <3> QED
      BY <2>4, <3>1
  <2>6. t[n].op \in {"ifdef", "ifndef"}
    BY <1>3, <1>7 DEF If, Reading
  <2>7. Len(fr.cond) = Depth(t, n + 1)
    BY <1>3, <2>4, <2>5, <2>6, DepthNext
  <2> QED
    BY <1>4, <1>5, <2>1, <2>2, <2>3, <2>7, BufferSame
<1>8. CASE Elif \/ Else
  <2>1. Fail \/ \E taken, isElse, p : c # <<>> /\ EndLine(Arm(sc, taken, isElse), p)
    <3>1. CASE Elif
      BY <1>2, <3>1 DEF Elif, Plain
    <3>2. CASE Else
      BY <1>2, <3>2 DEF Else, Plain
    <3> QED
      BY <1>8, <3>1, <3>2
  <2>2. ASSUME NEW taken, NEW isElse, NEW p, EndLine(Arm(sc, taken, isElse), p) PROVE Scanned'
    <3>1. PICK fr : fr = Arm(sc, taken, isElse)
      OBVIOUS
    <3>2. "cond" \in DOMAIN fr /\ \E x : fr.cond = [c EXCEPT ![Len(c)] = x]
      BY <1>3, <1>4, <3>1 DEF Arm
    <3>3. PICK x, d : d = [c EXCEPT ![Len(c)] = x] /\ fr.cond = d
      BY <3>2
    <3>4. Len(d) = Len(c)
      <4>1. c \in Seq(CondFrames \cup {x})
        BY <1>3
      <4> QED
        BY <3>3, <4>1
    <3>5. t[n].op \in {"elif", "else"}
      BY <1>3, <1>8 DEF Elif, Else, Reading
    <3>6. Len(fr.cond) = Depth(t, n + 1)
      BY <1>3, <3>3, <3>4, <3>5, DepthNext
    <3> QED
      BY <1>4, <1>5, <2>2, <3>1, <3>2, <3>6, BufferSame
  <2> QED
    BY <1>6, <2>1, <2>2
<1>9. CASE Endif
  <2>1. Fail \/ \E a, p : c # <<>> /\ EndLine([sc EXCEPT !.active = a, !.cond = Front(@)], p)
    BY <1>2, <1>9 DEF Endif, Plain
  <2>2. ASSUME NEW a, NEW p, c # <<>>, EndLine([sc EXCEPT !.active = a, !.cond = Front(@)], p)
        PROVE  Scanned'
    <3>1. PICK d, fr : d = Front(c) /\ fr = [sc EXCEPT !.active = a, !.cond = d]
      OBVIOUS
    <3>2. fr = [sc EXCEPT !.active = a, !.cond = Front(@)]
      BY <1>3, <3>1
    <3>3. "cond" \in DOMAIN fr /\ fr.cond = d /\ SameBuffer(sc, fr)
      BY <1>4, <3>1, BufferSame
    <3>4. Len(d) = Len(c) - 1
      <4>1. Len(c) \in Nat /\ Len(c) > 0
        BY <1>3, <2>2
      <4>2. d = [k \in 1..(Len(c) - 1) |-> c[k]]
        BY <1>3, <3>1, <4>1 DEF Front
      <4> QED
        BY <4>1, <4>2
    <3>5. t[n].op = "endif"
      BY <1>3, <1>9 DEF Endif, Reading
    <3>6. Len(fr.cond) = Depth(t, n + 1)
      BY <1>3, <3>3, <3>4, <3>5, DepthNext
    <3> QED
      BY <1>5, <2>2, <3>2, <3>3, <3>6
  <2> QED
    BY <1>6, <2>1, <2>2
<1> QED
  BY <1>7, <1>8, <1>9

\* An include leaves its buffer on its line, with the scan past it, and opens another.
LEMMA IncludeScanned ==
  ASSUME TypeInv, FramesInv, Scanned, Include
  PROVE  Scanned'
<1>1. HasLine /\ frames # <<>> /\ Line.op = "include"
  BY DEF Include, Reading, HasLine
<1>2. PICK sc, t, n, i : sc = Scan(Fr, Line) /\ t = Text(Fr.file) /\ n = Fr.idx /\ i = Len(frames)
  OBVIOUS
<1>3. /\ n \in Nat \ {0} /\ Line = t[n] /\ Depth(t, n) = Len(sc.cond)
      /\ Seen(t, sc.guard, sc.gname, n + 1)
  BY <1>1, <1>2, LineSeen
<1>4. Buffer(sc) /\ "cond" \in DOMAIN sc /\ sc.file = Fr.file /\ sc.idx = n
  BY <1>1, <1>2, LineRead, ScanBuffer, TopFrame, ScanFrame DEF FrameOK
<1>5. \/ frames' = <<>>
      \/ \E p : EndLine(sc, p)
      \/ \E f : /\ frames' = Append([frames EXCEPT ![Len(frames)] = [sc EXCEPT !.closing = Closing]],
                                    NewFrame(f))
                /\ UNCHANGED <<prog, forced>>
  BY <1>2 DEF Include, Fail, Plain
<1>6. CASE \E p : EndLine(sc, p)
  <2>1. Len(sc.cond) = Depth(t, n + 1)
    BY <1>1, <1>3, DepthNext
  <2> QED
    BY <1>1, <1>2, <1>4, <1>6, <2>1, ScanLine, BufferSame
<1>7. ASSUME NEW f, UNCHANGED <<prog, forced>>,
             frames' = Append([frames EXCEPT ![Len(frames)] = [sc EXCEPT !.closing = Closing]],
                              NewFrame(f))
      PROVE  Scanned'
  <2>1. PICK x, y, s : /\ x = [sc EXCEPT !.closing = Closing] /\ y = NewFrame(f)
                       /\ s = [frames EXCEPT ![i] = x]
    OBVIOUS
  <2>2. OnInclude(t, x) /\ x.file = Fr.file
    <3>1. /\ x.file = Fr.file /\ x.idx = n /\ x.guard = sc.guard /\ x.gname = sc.gname
          /\ x.cond = sc.cond
      BY <1>4, <2>1 DEF Buffer
    <3> QED
      BY <1>1, <1>3, <3>1 DEF OnInclude
  <2>3. AboutToRead(Text(y.file), y)
    <3>1. PICK s1 : s1 = <<y>>
      OBVIOUS
    <3>2. s1 = <<NewFrame(f)>> /\ Len(s1) = 1 /\ s1[1] = y /\ 1 \in 1..1
      BY <2>1, <3>1
    <3>3. \A u : \A k \in 1..Len(s1) : AboutToRead(u, s1[k])
      BY <3>2, StartScanned
    <3> QED
      BY <3>2, <3>3
  <2>4. PICK T : frames \in Seq(T)
    BY DEF FramesInv, Written
  <2>5. frames \in Seq(T \cup {x, y}) /\ i \in Nat /\ DOMAIN frames = 1..i /\ i > 0
    BY <1>1, <1>2, <2>4
  <2>6. /\ s \in Seq(T \cup {x, y}) /\ Len(s) = i /\ s[i] = x
        /\ \A k \in 1..i : k # i => s[k] = frames[k]
    BY <2>1, <2>5
  <2>7. frames' = Append(s, y)
    BY <1>2, <1>7, <2>1
  <2>8. /\ Len(frames') = i + 1 /\ frames'[i + 1] = y
        /\ \A k \in 1..i : frames'[k] = s[k]
    BY <2>5, <2>6, <2>7
  <2>9. ASSUME NEW k \in 1..(i + 1)
        PROVE  /\ k = i + 1 => AboutToRead(Text(frames'[k].file), frames'[k])
               /\ k < i + 1 => OnInclude(Text(frames'[k].file), frames'[k])
    <3>1. CASE k = i + 1
      BY <2>3, <2>5, <2>8, <3>1
    <3>2. CASE k = i
      <4>1. frames'[k] = x
        BY <2>5, <2>6, <2>8, <3>2
      <4> QED
        BY <1>2, <2>2, <2>5, <3>2, <4>1
    <3>3. CASE k # i /\ k # i + 1
      <4>1. k \in 1..i /\ k < i /\ frames'[k] = frames[k]
        BY <2>5, <2>6, <2>8, <3>3
      <4> QED
        BY <1>2, <4>1, <3>3 DEF Scanned
    <3> QED
      BY <3>1, <3>2, <3>3
  <2> QED
    BY <1>7, <2>8, <2>9 DEF Scanned, Text
<1> QED
  BY <1>5, <1>6, <1>7, ScannedAnew

\* The end of an include moves the buffer around it past the line.
LEMMA EndIncludeScanned ==
  ASSUME TypeInv, FramesInv, Scanned, EndInclude
  PROVE  Scanned'
<1>1. PICK i, o : /\ i = Len(frames) - 1 /\ o = frames[i]
                  /\ frames' = [Front(frames) EXCEPT ![i].idx = @ + 1]
  BY DEF EndInclude
<1>2. PICK T : frames \in Seq(T)
  BY DEF FramesInv, Written
<1>3. Len(frames) \in Nat /\ Len(frames) = i + 1 /\ i \in Nat /\ i > 0
  BY <1>1, <1>2 DEF EndInclude, InInclude
<1>4. PICK s : s = Front(frames)
  OBVIOUS
<1>5. s \in Seq(T) /\ Len(s) = i /\ \A k \in 1..i : s[k] = frames[k]
  <2>1. s = [k \in 1..i |-> frames[k]]
    BY <1>1, <1>2, <1>3, <1>4 DEF Front
  <2>2. \A k \in 1..i : frames[k] \in T
    BY <1>1, <1>2, <1>3
  <2> QED
    BY <1>3, <2>1, <2>2
<1>6. PICK x, t : x = [o EXCEPT !.idx = @ + 1] /\ t = Text(o.file)
  OBVIOUS
<1>7. Buffer(o) /\ "cond" \in DOMAIN o /\ OnInclude(t, o)
  BY <1>1, <1>3, <1>6 DEF TypeInv, Buffers, FramesInv, FrameOK, Scanned
<1>8. /\ x.file = o.file /\ x.idx = o.idx + 1 /\ x.guard = o.guard /\ x.gname = o.gname
      /\ x.cond = o.cond
  BY <1>6, <1>7 DEF Buffer
<1>9. AboutToRead(t, x)
  <2>1. o.idx \in Nat \ {0}
    <3>1. Len(Text(o.file)) \in Nat
      BY <1>7, TextLines DEF TypeInv, Buffer
    <3> QED
      BY <1>7, <3>1 DEF Buffer
  <2>2. Depth(t, o.idx + 1) = Depth(t, o.idx)
    BY <1>7, <2>1, DepthNext DEF OnInclude
  <2> QED
    BY <1>7, <1>8, <2>2 DEF AboutToRead, OnInclude
<1>10. frames' = [s EXCEPT ![i] = x]
  <2>1. frames' = [s EXCEPT ![i] = [s[i] EXCEPT !.idx = @ + 1]]
    BY <1>1, <1>4
  <2>2. s[i] = o
    BY <1>1, <1>3, <1>5
  <2> QED
    BY <1>6, <2>1, <2>2
<1>11. /\ Len(frames') = i /\ frames'[i] = x
       /\ \A k \in 1..i : k # i => frames'[k] = frames[k]
  <2>1. s \in Seq(T \cup {x}) /\ DOMAIN s = 1..i
    BY <1>5
  <2> QED
    BY <1>3, <1>5, <1>10, <2>1
<1>12. ASSUME NEW k \in 1..i
       PROVE  /\ k = i => AboutToRead(Text(frames'[k].file), frames'[k])
              /\ k < i => OnInclude(Text(frames'[k].file), frames'[k])
  <2>1. CASE k = i
    <3>1. frames'[k] = x /\ ~(k < i) /\ Text(x.file) = t
      BY <1>3, <1>6, <1>8, <1>11, <2>1
    <3> QED
      BY <1>9, <3>1
  <2>2. CASE k # i
    <3>1. k \in 1..Len(frames) /\ k < Len(frames) /\ frames'[k] = frames[k]
      BY <1>3, <1>11, <2>2
    <3> QED
      BY <2>2, <3>1 DEF Scanned
  <2> QED
    BY <2>1, <2>2
<1>13. UNCHANGED <<prog, forced>>
  BY DEF EndInclude
<1> QED
  BY <1>11, <1>12, <1>13 DEF Scanned, Text

\* Every step keeps the scan of every buffer.
LEMMA ScannedStep ==
  ASSUME TypeInv, FramesInv, Scanned, [Next]_vars
  PROVE  Scanned'
<1>1. CASE LineStep
  BY <1>1, OtherScanned, CondScanned, IncludeScanned DEF LineStep
<1>2. CASE EndPreamble \/ EndSource \/ Reuse \/ Decline \/ \E h \in AutoHeaders : Retry(h)
  <2>1. frames' = <<>> \/ \E f : frames' = <<NewFrame(f)>>
    BY <1>2 DEF EndPreamble, EndSource, Reuse, Decline, Retry, StartFull, Start
  <2> QED
    BY <2>1, ScannedAnew
<1>3. CASE UNCHANGED vars
  BY <1>3 DEF vars, Scanned, Text
<1> QED
  BY <1>1, <1>2, <1>3, EndIncludeScanned DEF Next, PassStep

\* The registry of guards of p.
HasGuards(p, g) == "guards" \in DOMAIN p /\ p.guards = g

\* What leaves the registry alone.
LEMMA OtherThanGuards ==
  ASSUME NEW p, NEW g, HasGuards(p, g), NEW v
  PROVE  /\ HasGuards([p EXCEPT !.ctl = v], g) /\ HasGuards([p EXCEPT !.out = v], g)
         /\ HasGuards([p EXCEPT !.counter = v], g) /\ HasGuards([p EXCEPT !.records = v], g)
         /\ HasGuards([p EXCEPT !.system = v], g) /\ HasGuards([p EXCEPT !.exports = v], g)
         /\ HasGuards([p EXCEPT !.entrypoint = v], g) /\ HasGuards([p EXCEPT !.diags = v], g)
         /\ HasGuards([p EXCEPT !.sink = v], g) /\ HasGuards([p EXCEPT !.rec = v], g)
         /\ HasGuards([p EXCEPT !.macros = v], g) /\ HasGuards([p EXCEPT !.pushed = v], g)
         /\ HasGuards([p EXCEPT !.once = v], g)
BY DEF HasGuards

\* Output, a name noted, a diagnostic, the recorder.
LEMMA GuardsKept ==
  ASSUME NEW p, NEW g, HasGuards(p, g), NEW n, NEW m
  PROVE  /\ HasGuards(Put(p, n), g) /\ HasGuards(Blank(p), g) /\ HasGuards(Marker(p, n, m), g)
         /\ HasGuards(Noted(p, n), g) /\ HasGuards(Warned(p, n), g) /\ HasGuards(Recording(p), g)
BY OtherThanGuards DEF Put, Blank, Marker, Noted, Warned, Recording

\* The end of a line.
LEMMA GuardsLine ==
  ASSUME NEW fr, NEW p, NEW g, HasGuards(p, g), EndLine(fr, p)
  PROVE  HasGuards(pp', g)
BY OtherThanGuards DEF EndLine

\* No line registers a guard: only the end of a buffer does.
LEMMA LineGuards ==
  ASSUME NEW g, HasGuards(pp, g), LineStep
  PROVE  HasGuards(pp', g)
<1>1. CASE pp' = pp
  BY <1>1 DEF HasGuards
<1>2. ASSUME NEW fr, NEW p, HasGuards(p, g), EndLine(fr, p) PROVE HasGuards(pp', g)
  BY <1>2, GuardsLine
<1>3. ASSUME NEW p, HasGuards(p, g)
      PROVE  /\ HasGuards(Blank(p), g) /\ \A t : HasGuards(Put(p, t), g)
             /\ \A n : HasGuards(Noted(p, n), g) /\ HasGuards(Warned(p, n), g)
  BY <1>3, GuardsKept
<1>4. CASE SkipLine \/ UnknownPragma
  <2>1. \E fr, p : HasGuards(p, g) /\ EndLine(fr, p)
    BY <1>3, <1>4 DEF SkipLine, UnknownPragma, Plain
  <2> QED
    BY <1>2, <2>1
<1>5. CASE If \/ Elif \/ Else \/ Endif
  <2>1. pp' = pp \/ \E fr, p : HasGuards(p, g) /\ EndLine(fr, p)
    <3>1. CASE If
      BY <1>3, <3>1 DEF If, Plain
    <3>2. CASE Elif
      BY <1>3, <3>2 DEF Elif, Plain, Fail
    <3>3. CASE Else \/ Endif
      BY <1>3, <3>3 DEF Else, Endif, Plain, Fail
    <3> QED
      BY <1>5, <3>1, <3>2, <3>3
  <2> QED
    BY <1>1, <1>2, <2>1
<1>6. CASE Define
  <2>1. PICK n, fr, p : /\ p = pp \/ \E c : p = Warned(pp, c)
                        /\ EndLine(fr, Blank([Noted(p, n) EXCEPT !.macros[n] = Line.val]))
    BY <1>6 DEF Define, Plain
  <2>2. HasGuards(Noted(p, n), g)
    BY <1>3, <2>1
  <2>3. PICK q : q = Noted(p, n)
    OBVIOUS
  <2>4. HasGuards([q EXCEPT !.macros[n] = Line.val], g)
    BY <2>2, <2>3 DEF HasGuards
  <2> QED
    BY <1>2, <1>3, <2>1, <2>3, <2>4
<1>7. CASE Undef
  <2>1. PICK n, fr, q : q = Noted(pp, n) /\ EndLine(fr, Blank([q EXCEPT !.macros[n] = 0]))
    BY <1>7 DEF Undef, Plain
  <2>2. HasGuards(q, g)
    BY <1>3, <2>1
  <2>3. HasGuards([q EXCEPT !.macros[n] = 0], g)
    BY <2>2 DEF HasGuards
  <2> QED
    BY <1>2, <1>3, <2>1, <2>3
<1>8. CASE PushMacro
  <2>1. PICK n, fr, q : /\ q = Noted(pp, n)
                        /\ EndLine(fr, Blank([q EXCEPT !.pushed[n] = Append(@, pp.macros[n])]))
    BY <1>8 DEF PushMacro, Plain
  <2>2. HasGuards(q, g)
    BY <1>3, <2>1
  <2>3. HasGuards([q EXCEPT !.pushed[n] = Append(@, pp.macros[n])], g)
    BY <2>2 DEF HasGuards
  <2> QED
    BY <1>2, <1>3, <2>1, <2>3
<1>9. CASE PopMacro
  <2>1. PICK n, fr, q : /\ q = Noted(pp, n)
                        /\ \/ EndLine(fr, Blank(Warned(q, "popped")))
                           \/ EndLine(fr, Blank([q EXCEPT !.macros[n] = Last(pp.pushed[n]),
                                                          !.pushed[n] = Front(@)]))
    BY <1>9 DEF PopMacro, Plain
  <2>2. HasGuards(q, g)
    BY <1>3, <2>1
  <2>3. HasGuards([q EXCEPT !.macros[n] = Last(pp.pushed[n]), !.pushed[n] = Front(@)], g)
    BY <2>2 DEF HasGuards
  <2> QED
    BY <1>2, <1>3, <2>1, <2>2, <2>3
<1>10. CASE Once
  <2>1. PICK fr, v : EndLine(fr, Blank([pp EXCEPT !.once = v]))
    BY <1>10 DEF Once, Plain
  <2> QED
    BY <1>2, <1>3, <2>1, OtherThanGuards
<1>11. CASE SidePragma
  <2> DEFINE p == Apply(pp, Line)
             q == IF p.rec.on THEN [p EXCEPT !.rec.events = Append(@, Line)] ELSE p
  <2>1. pp' = pp \/ \E fr : EndLine(fr, Blank(q))
    BY <1>11 DEF SidePragma, Plain, Fail
  <2>2. HasGuards(p, g)
    BY OtherThanGuards DEF Apply
  <2> HIDE DEF p
  <2>3. HasGuards(q, g)
    BY <2>2 DEF HasGuards
  <2> HIDE DEF q
  <2> QED
    BY <1>1, <1>2, <1>3, <2>1, <2>3
<1>12. CASE SetLevel \/ PushDiag \/ PopDiag \/ Suppress \/ ReportOnceLine
  <2>1. \E ctl, fr : LET p == [pp EXCEPT !.ctl = ctl]
                         w == Warned(p, "popped")
                     IN  \/ EndLine(fr, Blank([p EXCEPT !.diags = @ + 1]))
                         \/ EndLine(fr, Blank([w EXCEPT !.diags = @ + 1]))
    BY <1>12 DEF SetLevel, PushDiag, PopDiag, Suppress, ReportOnceLine, DiagPragma
  <2>2. PICK ctl, fr, p, w : /\ p = [pp EXCEPT !.ctl = ctl] /\ w = Warned(p, "popped")
                             /\ \/ EndLine(fr, Blank([p EXCEPT !.diags = @ + 1]))
                                \/ EndLine(fr, Blank([w EXCEPT !.diags = @ + 1]))
    BY <2>1
  <2>3. HasGuards(p, g)
    BY <2>2, OtherThanGuards
  <2>4. HasGuards(w, g)
    BY <1>3, <2>2, <2>3
  <2>5. ASSUME NEW q, HasGuards(q, g) PROVE HasGuards(Blank([q EXCEPT !.diags = @ + 1]), g)
    <3>1. HasGuards([q EXCEPT !.diags = @ + 1], g)
      BY <2>5 DEF HasGuards
    <3> QED
      BY <1>3, <3>1
  <2> QED
    BY <1>2, <2>2, <2>3, <2>4, <2>5
<1>13. CASE Content
  <2>1. PICK c : c = [pp EXCEPT !.counter = @ + 1, !.rec.counter = @ \/ pp.rec.on]
    OBVIOUS
  <2>2. HasGuards(c, g)
    BY <2>1 DEF HasGuards
  <2>3. \E fr, p : /\ EndLine(fr, p)
                   /\ \/ \E t : p = Put(Noted(pp, Line.arg), t)
                      \/ \E t : p = Put(c, t)
                      \/ p = Blank(pp)
    BY <1>13, <2>1 DEF Content
  <2> QED
    BY <1>2, <1>3, <2>2, <2>3
<1>14. CASE Include
  <2> DEFINE f == Line.arg
             p1 == IF pp.rec.on THEN [pp EXCEPT !.rec.files = @ \cup {f}] ELSE pp
             p2 == IF f \notin pp.once /\ f \in DOMAIN pp.guards THEN Noted(p1, pp.guards[f]) ELSE p1
             traced(status) == [p2 EXCEPT !.records = Append(@, <<Len(frames), f, status>>)]
             opened == [traced("opened") EXCEPT !.system = IF f \in System THEN @ \cup {f} ELSE @]
  <2>1. \/ pp' = pp
        \/ \E fr : EndLine(fr, Marker(traced("cached"), Fr.file, Fr.idx + 1))
        \/ pp' = Marker(opened, f, 1)
    BY <1>14 DEF Include, Plain, Fail
  <2>2. HasGuards(p1, g)
    BY DEF HasGuards
  <2> HIDE DEF p1
  <2>3. HasGuards(p2, g)
    BY <1>3, <2>2
  <2> HIDE DEF p2
  <2>4. \A status : HasGuards(traced(status), g)
    BY <2>3 DEF HasGuards
  <2> HIDE DEF traced
  <2>5. HasGuards(opened, g)
    BY <2>4 DEF HasGuards
  <2> HIDE DEF opened
  <2> QED
    BY <1>1, <1>2, <2>1, <2>4, <2>5, GuardsKept
<1> QED
  BY <1>4, <1>5, <1>6, <1>7, <1>8, <1>9, <1>10, <1>11, <1>12, <1>13, <1>14 DEF LineStep

\* Every guard of the registry encloses the file it is registered for.
EnclosedFile(f, g) == \E o : Enclosed(prog[f], o, g, Len(prog[f]) + 1)

Registered(p) == "guards" \in DOMAIN p /\ \A f \in DOMAIN p.guards : EnclosedFile(f, p.guards[f])

\* The buffer that ends has been scanned to its last line.
LEMMA FinishedRegisters ==
  ASSUME TypeInv, FramesInv, Scanned, Registered(pp), AtEnd
  PROVE  Registered(Finished)
<1>1. Len(frames) \in Nat /\ Len(frames) > 0 /\ Fr = frames[Len(frames)]
  BY TopFrame DEF AtEnd
<1>2. Buffer(Fr) /\ AboutToRead(Text(Fr.file), Fr)
  BY <1>1 DEF TypeInv, Buffers, Scanned
<1>3. PICK t, n : t = Text(Fr.file) /\ n = Fr.idx
  OBVIOUS
<1>4. Len(t) \in Nat /\ n = Len(t) + 1 /\ Seen(t, Fr.guard, Fr.gname, n)
  <2>1. Len(Text(Fr.file)) \in Nat
    BY <1>2, TextLines DEF TypeInv, Buffer
  <2> QED
    BY <1>2, <1>3, <2>1 DEF Buffer, AtEnd, AboutToRead
<1> DEFINE p1 == [pp EXCEPT !.ctl = CloseSuppress(@, Len(pp.out))]
           p2 == IF Fr.cond = <<>> THEN p1 ELSE Warned(p1, "directive")
           g == [f \in DOMAIN p2.guards \cup {Fr.file} |->
                    IF f = Fr.file THEN GuardOf(Fr) ELSE p2.guards[f]]
<1>5. HasGuards(p1, pp.guards)
  BY DEF Registered, HasGuards
<1> HIDE DEF p1
<1>6. HasGuards(p2, pp.guards)
  BY <1>5, GuardsKept
<1>7. Finished = IF InInclude /\ GuardOf(Fr) # "" THEN [p2 EXCEPT !.guards = g] ELSE p2
  BY DEF Finished, p1
<1> HIDE DEF p2
<1>8. CASE InInclude /\ GuardOf(Fr) # ""
  <2>1. Fr.guard \in {"open", "closed"} /\ GuardOf(Fr) = Fr.gname
    BY <1>8 DEF GuardOf
  <2>2. PICK o : Enclosed(t, o, Fr.gname, n)
    BY <1>4, <2>1 DEF Seen
  <2>3. o \in 1..Len(t) /\ t[o].op = "ifndef"
    BY <1>4, <2>2 DEF Enclosed
  <2>4. Fr.file # Preamble
    BY <1>2, <1>3, <2>3, TextLines DEF TypeInv, Buffer
  <2>5. t = prog[Fr.file]
    BY <1>3, <2>4 DEF Text
  <2>6. EnclosedFile(Fr.file, GuardOf(Fr))
    BY <1>4, <2>1, <2>2, <2>5 DEF EnclosedFile
  <2>7. \A f \in DOMAIN g : EnclosedFile(f, g[f])
    BY <1>6, <2>6 DEF Registered, HasGuards
  <2> HIDE DEF g
  <2>8. Finished = [p2 EXCEPT !.guards = g]
    BY <1>7, <1>8
  <2> QED
    BY <1>6, <2>7, <2>8 DEF Registered, HasGuards
<1>9. CASE ~(InInclude /\ GuardOf(Fr) # "")
  BY <1>6, <1>7, <1>9 DEF Registered, HasGuards
<1> QED
  BY <1>8, <1>9

\* A preprocessor with the registry of another.
LEMMA RegisteredSame ==
  ASSUME NEW p, Registered(p), NEW q, HasGuards(q, p.guards)
  PROVE  Registered(q)
BY DEF Registered, HasGuards

\* A new preprocessor has registered nothing.
LEMMA FreshRegistered ==
  ASSUME NEW f
  PROVE  Registered(Marker(Fresh, f, 1)) /\ Registered(Marker(Recording(Fresh), f, 1))
<1>1. PICK g : g = [x \in {} |-> ""]
  OBVIOUS
<1>2. HasGuards(Fresh, g)
  BY <1>1 DEF Fresh, HasGuards
<1>3. HasGuards(Marker(Fresh, f, 1), g) /\ HasGuards(Recording(Fresh), g)
  BY <1>2, GuardsKept
<1>4. HasGuards(Marker(Recording(Fresh), f, 1), g)
  BY <1>3, GuardsKept
<1>5. DOMAIN g = {}
  BY <1>1
<1> QED
  BY <1>3, <1>4, <1>5 DEF Registered, HasGuards

\* Every step keeps the registry.
LEMMA RegisteredStep ==
  ASSUME TypeInv, FramesInv, Scanned, Registered(pp), [Next]_vars
  PROVE  Registered(pp)'
<1>1. prog' = prog
  BY DEF Next, PassStep, LineStep, SkipLine, If, Elif, Else, Endif, Define, Undef, PushMacro,
         PopMacro, Once, SidePragma, UnknownPragma, SetLevel, PushDiag, PopDiag, Suppress,
         ReportOnceLine, Content, Include, EndInclude, EndPreamble, EndSource, Reuse, Decline,
         Retry, StartFull, Plain, DiagPragma, EndLine, Fail, vars
<1> SUFFICES Registered(pp')
  BY <1>1 DEF Registered, EnclosedFile
<1>2. CASE LineStep
  <2>1. HasGuards(pp, pp.guards)
    BY DEF Registered, HasGuards
  <2> QED
    BY <1>2, <2>1, LineGuards, RegisteredSame
<1>3. CASE EndInclude \/ EndPreamble \/ EndSource
  <2>1. PICK p : p = Finished
    OBVIOUS
  <2>2. Registered(p)
    BY <1>3, <2>1, FinishedRegisters DEF EndInclude, EndPreamble, EndSource
  <2>3. HasGuards(p, p.guards)
    BY <2>2 DEF Registered, HasGuards
  <2>4. \/ pp' = p
        \/ \E f, n : pp' = Marker(p, f, n)
        \/ \E f, n : pp' = Marker(Recording(p), f, n)
        \/ \E f, n, v : pp' = [Marker(p, f, n) EXCEPT !.ctl = v]
    BY <1>3, <2>1 DEF EndInclude, EndPreamble, EndSource, Start
  <2>5. HasGuards(pp', p.guards)
    <3>1. PICK g : g = p.guards
      OBVIOUS
    <3>2. HasGuards(p, g) /\ HasGuards(Recording(p), g) /\ \A f, n : HasGuards(Marker(p, f, n), g)
      BY <2>3, <3>1, GuardsKept
    <3>3. \A f, n : HasGuards(Marker(Recording(p), f, n), g)
      BY <3>2, GuardsKept
    <3>4. \A f, n, v : HasGuards([Marker(p, f, n) EXCEPT !.ctl = v], g)
      BY <3>2, OtherThanGuards
    <3> QED
      BY <2>4, <3>1, <3>2, <3>3, <3>4
  <2> QED
    BY <2>2, <2>5, RegisteredSame
<1>4. CASE Reuse \/ Decline \/ \E h \in AutoHeaders : Retry(h)
  <2>1. pp' = Marker(Fresh, Preamble, 1)
    BY <1>4 DEF Reuse, Decline, Retry, StartFull, Start
  <2> QED
    BY <2>1, FreshRegistered
<1>5. CASE UNCHANGED vars
  BY <1>5 DEF vars
<1> QED
  BY <1>2, <1>3, <1>4, <1>5 DEF Next, PassStep

\* Whatever the texts: an include the guard registry drops would have contributed nothing,
\* since no line of the file is live once the macro registered for it is defined.
THEOREM GuardsSilent == Spec => []GuardSilent
<1>1. Init => Scanned /\ Registered(pp)
  <2> SUFFICES ASSUME Init PROVE Scanned /\ Registered(pp)
    OBVIOUS
  <2>1. /\ \E f : frames = <<NewFrame(f)>>
        /\ \E f : pp = Marker(Fresh, f, 1) \/ pp = Marker(Recording(Fresh), f, 1)
    BY DEF Init, Start
  <2>2. PICK s : s = frames
    OBVIOUS
  <2>3. (\A t : \A i \in 1..Len(s) : AboutToRead(t, s[i])) /\ \A i \in 1..Len(s) : i = Len(s)
    BY <2>1, <2>2, StartScanned
  <2>4. \A i \in 1..Len(s) : ~(i < Len(s))
    BY <2>3
  <2>5. Scanned
    BY <2>2, <2>3, <2>4 DEF Scanned
  <2> QED
    BY <2>1, <2>5, FreshRegistered
<1>2. Scanned /\ Registered(pp) /\ TypeInv /\ FramesInv /\ [Next]_vars => (Scanned /\ Registered(pp))'
  BY ScannedStep, RegisteredStep
<1>3. TypeInv /\ Registered(pp) => GuardSilent
  <2> SUFFICES ASSUME TypeInv, Registered(pp), NEW f \in DOMAIN pp.guards, Guarded(f),
                      NEW i \in DOMAIN prog[f], prog[f][i].op \notin CondOps \cup {"blank"}
               PROVE  ~LiveLine(prog[f], i, pp.macros)
    BY DEF GuardSilent, Quiet
  <2>1. PICK t, g : t = prog[f] /\ g = pp.guards[f]
    OBVIOUS
  <2>2. PICK o : Enclosed(t, o, g, Len(t) + 1)
    BY <2>1 DEF Registered, EnclosedFile
  <2>3. pp.macros[g] # 0
    BY <2>1 DEF Guarded, Defined
  <2>4. f \in Headers
    BY DEF TypeInv, TablesOK
  <2>5. t \in Seq(ToSet(t))
    BY <2>1, <2>4, HeadersAssumption, TextsAssumption DEF TypeInv, Inputs
  <2>6. Len(t) \in Nat /\ DOMAIN t = 1..Len(t)
    BY <2>5
  <2> QED
    BY <2>1, <2>2, <2>3, <2>6, EnclosedQuiet
<1> QED
  BY <1>1, <1>2, <1>3, TypeInit, TypeStep, FramesInit, FramesStep, PTL DEF Spec
=============================================================================
