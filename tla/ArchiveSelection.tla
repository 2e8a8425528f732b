-------------------------- MODULE ArchiveSelection --------------------------
(***************************************************************************)
(* Which objects a native link includes (src/src/cli/native_link.rs): the  *)
(* rebinding of auto-included library functions, select_archive_members    *)
(* with Selection's account, pull and take_alternates, the units' default  *)
(* libraries, the on-demand pool and yield_pool_definitions.               *)
(*                                                                         *)
(* An object is a record of names: strong, weak and abs are what it        *)
(* defines, refs its strong undefined references, imports the names it     *)
(* routes to a library, bound those of them an auto-included header bound, *)
(* alts its COFF alternate names, libs its default libraries; src names    *)
(* it, and ok is FALSE for an archive member that is no object.  A slot is *)
(* an input of the link in command-line order.  An archive's index lists   *)
(* what its members define.                                                *)
(***************************************************************************)
EXTENDS Naturals, FiniteSets, SequencesExt

CONSTANTS
    Symbols,    \* the names of the link
    ImpOf,      \* from the names __imp_X to X
    Resolved,   \* link_resolves_symbol: the names the link makes itself
    Links       \* the links: records of their inputs, see LinkFields

Fixed(s) == [kind |-> "fixed", objs |-> s]
Lazy(s) == [kind |-> "lazy", objs |-> s]
Shared(names) == [kind |-> "shared", exports |-> names]
Group(start) == [kind |-> "group", start |-> start]

Maps(D, R) == UNION {[A -> R] : A \in SUBSET D}

Objects ==
    [src : STRING, strong : SUBSET Symbols, weak : SUBSET Symbols,
     abs : SUBSET Symbols, refs : SUBSET Symbols, imports : SUBSET Symbols,
     bound : SUBSET Symbols, alts : Maps(Symbols, Symbols),
     libs : SUBSET STRING, ok : BOOLEAN]

Slots ==
    [kind : {"fixed", "lazy"}, objs : Seq(Objects)]
    \cup [kind : {"shared"}, exports : SUBSET Symbols]
    \cup [kind : {"group"}, start : BOOLEAN]

\* How many groups the first i inputs of s start (end); a level input is
\* outside every group or ends an outermost one.
Bounds(s, i, start) ==
    Cardinality({j \in 1 .. i : s[j].kind = "group" /\ s[j].start = start})

Level(s, i) == Bounds(s, i, TRUE) = Bounds(s, i, FALSE)

\* A command line whose groups do not pair is refused before the link
\* (cli/args.rs, check_groups), and a linker script brings its group whole.
Paired(s) ==
    /\ \A i \in 0 .. Len(s) : Bounds(s, i, FALSE) <= Bounds(s, i, TRUE)
    /\ Level(s, Len(s))

\* Alternate names are a COFF object's.
NoAlternates(s) == \A j \in DOMAIN s : DOMAIN s[j].alts = {}

LinkFields == {"inOrder", "slots", "pool", "libs", "clib", "entry"}

LinkOK(l) ==
    /\ DOMAIN l = LinkFields
    /\ l.inOrder \in BOOLEAN
    /\ l.slots \in Seq(Slots) /\ Paired(l.slots)
    /\ l.pool \in Seq(Objects)
    /\ \A n \in DOMAIN l.libs : l.libs[n] \in [members : Seq(Objects), exports : SUBSET Symbols]
    /\ l.entry \in Symbols \cup {""}
    /\ l.inOrder =>
          /\ NoAlternates(l.pool)
          /\ \A k \in DOMAIN l.slots : l.slots[k].kind \in {"fixed", "lazy"} =>
                NoAlternates(l.slots[k].objs)

ASSUME LinksAssumption ==
    /\ DOMAIN ImpOf \subseteq Symbols /\ Resolved \subseteq Symbols
    /\ \A n \in DOMAIN ImpOf : ImpOf[n] \in Symbols
    /\ "" \notin Symbols
    /\ \A l \in Links : LinkOK(l)

VARIABLES
    link,      \* the inputs: inOrder for ELF, the default libraries found by
               \* name, what the C library admits, the freestanding entry
    slots,     \* the inputs and the archives added to them
    sel,       \* the Selection
    linked,    \* the objects accounted for, as <<slot, member>>, in order
    walk,      \* the walk: the slot, the object in it, the group and its depth
    job,       \* the stage, and the pull under way
    poolSlot,  \* embedded.pool_slot, 0 before the pool is pushed
    searched,  \* the default libraries already looked for
    objs       \* what the objects handed to the link define

selectVars == <<link, slots, sel, linked, walk, job, poolSlot, searched, objs>>

CmdLineEntry == "<command line>"

Stages == {"rebind", "walk", "pull", "alternates", "default", "libraries", "pool",
           "assemble", "selected", "failed"}

Obj(m) == slots[m[1]].objs[m[2]]
Defs(o) == o.strong \cup o.weak \cup o.abs
Undefined == DOMAIN sel.undefined
Members(k) == {<<k, j>> : j \in DOMAIN slots[k].objs}
IsLazy(k) == slots[k].kind = "lazy"
AllLazy(s) == {k \in DOMAIN s : s[k].kind = "lazy"}
ExportsOf(s) == UNION {s[k].exports : k \in {i \in DOMAIN s : s[i].kind = "shared"}}

(***************************************************************************)
(* Selection.                                                              *)
(***************************************************************************)
\* Account for one object: its definitions answer references, its strong
\* references that nothing answers are asked for, and with __imp_X also X.
Account(s, o) ==
    LET known  == s.defined \cup Defs(o) \cup s.shared \cup o.imports
        direct == o.refs \ known
        asked  == direct \cup ({ImpOf[n] : n \in direct \cap DOMAIN ImpOf} \ known)
        open   == (DOMAIN s.undefined \cup asked) \ Defs(o)
    IN  [s EXCEPT !.defined = @ \cup Defs(o),
                  !.shared = @ \cup o.imports,
                  !.alternates = [n \in DOMAIN @ \cup DOMAIN o.alts |->
                        IF n \in DOMAIN o.alts THEN o.alts[n] ELSE @[n]],
                  !.undefined = [n \in open |->
                        IF n \in DOMAIN @ THEN @[n] ELSE o.src]]

\* Variant: the name that takes its alternate stays undefined.
TakeAlternateKeeps(acc, n) ==
    LET s   == acc[1]
        alt == s.alternates[n]
    IN  <<[s EXCEPT !.undefined = [m \in DOMAIN @ \cup {alt} |->
                IF m = alt THEN @[n] ELSE @[m]]], TRUE>>

\* One name of take_alternates; the second component says whether a name
\* was asked for that was not before.
TakeAlternate(acc, n) ==
    LET s    == acc[1]
        alt  == s.alternates[n]
        rest == DOMAIN s.undefined \ {n}
        asks == alt \notin s.defined \cup s.shared
    IN  <<[s EXCEPT !.undefined = [m \in rest \cup (IF asks THEN {alt} ELSE {}) |->
                IF asks /\ m = alt THEN @[n] ELSE @[m]]],
          acc[2] \/ (asks /\ alt \notin rest)>>

Stalled == DOMAIN sel.alternates \cap Undefined

InLink(m) == \E i \in DOMAIN linked : linked[i] = m

\* The names that ask for member m: its strong definitions still undefined.
Wanted(m) == IF InLink(m) THEN {} ELSE Obj(m).strong \cap Undefined

(***************************************************************************)
(* A pull: sweeps over the members of the archives of a span, a set of     *)
(* slots, in their order until one takes none.  `after` is the member the  *)
(* sweep took last.                                                        *)
(***************************************************************************)
Sweep == UNION {Members(k) : k \in job.span}

Before(m, n) == m[1] < n[1] \/ (m[1] = n[1] /\ m[2] < n[2])

Start == <<0, 0>>

\* What the sweep has still to look at.
Rest == {m \in Sweep : Before(job.after, m)}

StartPull(span, ret) ==
    job' = [stage |-> "pull", span |-> span, after |-> Start, progress |-> FALSE,
            ret |-> ret, todo |-> {}]

Goto(stage) == job' = [job EXCEPT !.stage = stage]
At(stage) == job.stage = stage

\* The next member of the sweep that is asked for; one that is no object
\* ends the link when it is read.
PullMember ==
    /\ At("pull")
    /\ \E m \in Rest :
          /\ Wanted(m) # {}
          /\ \A x \in Rest : Before(x, m) => Wanted(x) = {}
          /\ \/ /\ ~Obj(m).ok
                /\ Goto("failed")
                /\ UNCHANGED <<sel, linked>>
             \/ /\ Obj(m).ok
                /\ \E n \in Wanted(m) :
                      sel' = [Account(sel, Obj(m)) EXCEPT !.inclusions =
                                Append(@, [member |-> m, symbol |-> n,
                                           by |-> sel.undefined[n]])]
                /\ linked' = Append(linked, m)
                /\ job' = [job EXCEPT !.after = m, !.progress = TRUE]
    /\ UNCHANGED <<link, slots, walk, poolSlot, searched, objs>>

\* Variant: an archive is swept once.
EndSweepOnce ==
    /\ At("pull")
    /\ \A m \in Rest : Wanted(m) = {}
    /\ Goto(job.ret)
    /\ UNCHANGED <<sel, link, slots, linked, walk, poolSlot, searched, objs>>

\* The end of a sweep: another one follows if it took a member, and the
\* alternates of the stalled names if it did not.
EndSweep ==
    /\ At("pull")
    /\ \A m \in Rest : Wanted(m) = {}
    /\ job' = IF job.progress
              THEN [job EXCEPT !.after = Start, !.progress = FALSE]
              ELSE [job EXCEPT !.stage = "alternates", !.todo = Stalled]
    /\ UNCHANGED <<sel, link, slots, linked, walk, poolSlot, searched, objs>>

\* take_alternates, a name at a time in the order of a hash map.
TakeAlternates ==
    /\ At("alternates")
    /\ \E n \in job.todo :
          LET took == TakeAlternate(<<sel, job.progress>>, n)
          IN  /\ sel' = took[1]
              /\ job' = [job EXCEPT !.todo = @ \ {n}, !.progress = took[2]]
    /\ UNCHANGED <<link, slots, linked, walk, poolSlot, searched, objs>>

\* The archives are swept again if an alternate asks for more.
EndAlternates ==
    /\ At("alternates") /\ job.todo = {}
    /\ IF job.progress THEN StartPull(job.span, job.ret) ELSE Goto(job.ret)
    /\ UNCHANGED <<sel, link, slots, linked, walk, poolSlot, searched, objs>>

(***************************************************************************)
(* rebind_auto_includes: a unit whose header bound a function the link     *)
(* defines is compiled again without the binding.  The pool joins first.   *)
(* A source of it or a unit that does not compile ends the link, and so    *)
(* does a member read for its definitions that is no object.               *)
(***************************************************************************)
BoundIn(s) ==
    UNION {o.bound : o \in UNION {ToSet(s[k].objs) :
                        k \in {i \in DOMAIN s : s[i].kind = "fixed"}}}

\* The inputs with the units compiled again.
Rebound(s) ==
    LET defs == UNION {UNION {o.strong : o \in ToSet(s[k].objs)} :
                        k \in {i \in DOMAIN s : s[i].kind \in {"fixed", "lazy"}}}
        again(o) == [o EXCEPT !.imports = @ \ (o.bound \cap defs)]
    IN  [k \in DOMAIN s |->
            IF s[k].kind # "fixed" THEN s[k]
            ELSE Fixed([j \in DOMAIN s[k].objs |-> again(s[k].objs[j])])]

Rebind ==
    /\ At("rebind")
    /\ IF BoundIn(slots) = {}
       THEN Goto("walk") /\ UNCHANGED <<slots, poolSlot>>
       ELSE LET all == Append(slots, Lazy(link.pool))
            IN  \/ poolSlot' = Len(all) /\ slots' = Rebound(all) /\ Goto("walk")
                \/ Goto("failed") /\ UNCHANGED <<poolSlot, slots>>
    /\ UNCHANGED <<link, sel, linked, walk, searched, objs>>

(***************************************************************************)
(* The walk over the slots in command-line order.                          *)
(***************************************************************************)
InWalk(kinds) ==
    At("walk") /\ walk.at <= Len(slots) /\ slots[walk.at].kind \in kinds

Step(w) == walk' = [w EXCEPT !.at = @ + 1, !.obj = 1]

\* The objects of an input are accounted for one after the other.
WalkFixed ==
    /\ InWalk({"fixed"})
    /\ LET here == slots[walk.at].objs
       IN  \/ /\ walk.obj <= Len(here)
              /\ sel' = Account(sel, here[walk.obj])
              /\ linked' = Append(linked, <<walk.at, walk.obj>>)
              /\ walk' = [walk EXCEPT !.obj = @ + 1]
           \/ walk.obj > Len(here) /\ Step(walk) /\ UNCHANGED <<sel, linked>>
    /\ UNCHANGED <<link, slots, job, poolSlot, searched, objs>>

\* An ELF archive is pulled at its place, a group's where the group ends.
WalkLazy ==
    /\ InWalk({"lazy"})
    /\ \/ ~link.inOrder /\ Step(walk) /\ UNCHANGED job
       \/ /\ link.inOrder /\ walk.depth > 0
          /\ Step([walk EXCEPT !.group = @ \cup {walk.at}])
          /\ UNCHANGED job
       \/ /\ link.inOrder /\ walk.depth = 0
          /\ Step(walk)
          /\ StartPull({walk.at}, "walk")
    /\ UNCHANGED <<link, slots, sel, linked, poolSlot, searched, objs>>

WalkShared ==
    /\ InWalk({"shared"})
    /\ LET names == slots[walk.at].exports
       IN  sel' = IF link.inOrder
                  THEN [sel EXCEPT !.undefined = [n \in Undefined \ names |-> @[n]],
                                   !.shared = @ \cup names]
                  ELSE sel
    /\ Step(walk)
    /\ UNCHANGED <<link, slots, linked, job, poolSlot, searched, objs>>

WalkGroup ==
    /\ InWalk({"group"})
    /\ LET depth == IF slots[walk.at].start THEN walk.depth + 1 ELSE walk.depth - 1
       IN  IF depth = 0
           THEN /\ Step([walk EXCEPT !.depth = 0, !.group = {}])
                /\ StartPull(walk.group, "walk")
           ELSE /\ Step([walk EXCEPT !.depth = depth])
                /\ UNCHANGED job
    /\ UNCHANGED <<link, slots, sel, linked, poolSlot, searched, objs>>

\* Mach-O and PE links search every archive once the walk is over.
EndWalk ==
    /\ At("walk") /\ walk.at > Len(slots)
    /\ IF link.inOrder THEN Goto("pool") ELSE StartPull(AllLazy(slots), "default")
    /\ UNCHANGED <<link, slots, sel, linked, walk, poolSlot, searched, objs>>

(***************************************************************************)
(* What follows the walk.                                                  *)
(***************************************************************************)
\* A round of pull_default_libraries: the libraries the included objects
\* name, each looked for once.
DefaultLibraries ==
    /\ At("default")
    /\ LET named == UNION {Obj(linked[i]).libs : i \in DOMAIN linked} \ searched
       IN  /\ searched' = searched \cup named
           /\ job' = [job EXCEPT !.stage = "libraries", !.progress = FALSE,
                                 !.todo = named \cap DOMAIN link.libs]
    /\ UNCHANGED <<link, slots, sel, linked, walk, poolSlot, objs>>

\* One that is found joins after the other inputs: what its import members
\* export, then its archive. One that is not an archive ends the link.
AddLibrary ==
    /\ At("libraries")
    /\ \E n \in job.todo :
          LET lib == link.libs[n]
          IN  \/ /\ slots' = Append(IF lib.exports = {} THEN slots
                                    ELSE Append(slots, Shared(lib.exports)),
                                    Lazy(lib.members))
                 /\ job' = [job EXCEPT !.todo = @ \ {n}, !.progress = TRUE]
              \/ Goto("failed") /\ UNCHANGED slots
    /\ UNCHANGED <<link, sel, linked, walk, poolSlot, searched, objs>>

EndLibraries ==
    /\ At("libraries") /\ job.todo = {}
    /\ IF job.progress THEN StartPull(AllLazy(slots), "default") ELSE Goto("pool")
    /\ UNCHANGED <<link, slots, sel, linked, walk, poolSlot, searched, objs>>

\* A name the link or the loader will resolve does not call for the pool.
Covered(n) ==
    n \in DOMAIN ImpOf \cup Resolved \cup ExportsOf(slots) \cup link.clib

\* The pool is offered once, as the last archive, when something is missing;
\* a source of it that does not compile ends the link.
OfferPool ==
    /\ At("pool")
    /\ IF poolSlot = 0 /\ \E n \in Undefined : ~Covered(n)
       THEN LET all == Append(slots, Lazy(link.pool))
            IN  \/ /\ poolSlot' = Len(all)
                   /\ slots' = all
                   /\ StartPull(IF link.inOrder THEN {Len(all)} ELSE AllLazy(all),
                                "assemble")
                \/ Goto("failed") /\ UNCHANGED <<poolSlot, slots>>
       ELSE Goto("assemble") /\ UNCHANGED <<poolSlot, slots>>
    /\ UNCHANGED <<link, sel, linked, walk, searched, objs>>

\* The objects of slot k, an archive's in the order they were pulled.
Included(k) ==
    IF slots[k].kind = "fixed" THEN [j \in DOMAIN slots[k].objs |-> <<k, j>>]
    ELSE SelectSeq(linked, LAMBDA m : m[1] = k)

\* What the objects ms define once the names `weak` are weak in the pool's;
\* weakAbs are the absolute ones among these.
Yielding(ms, weak) ==
    [i \in DOMAIN ms |->
        LET o     == Obj(ms[i])
            yield == IF ms[i][1] = poolSlot THEN weak ELSE {}
        IN  [strong |-> o.strong \ yield, weak |-> o.weak \cup (o.strong \cap yield),
             abs |-> o.abs \ yield, weakAbs |-> o.abs \cap yield]]

\* Variant: only what stands before the pool counts as the program.
YieldBefore(ms) ==
    Yielding(ms, UNION {Defs(Obj(m)) : m \in {x \in ToSet(ms) : x[1] < poolSlot}})

\* yield_pool_definitions: what the program defines too is weak in the pool.
Yield(ms) ==
    Yielding(ms, UNION {Defs(Obj(m)) : m \in {x \in ToSet(ms) : x[1] # poolSlot}})

Order == FlattenSeq([k \in DOMAIN slots |-> Included(k)])

Assemble ==
    /\ At("assemble")
    /\ objs' = Yield(Order)
    /\ Goto("selected")
    /\ UNCHANGED <<link, slots, sel, linked, walk, poolSlot, searched>>

\* A freestanding entry is a root of the link.
InitSelection(l) ==
    /\ link = l
    /\ slots = link.slots
    /\ sel = [defined |-> {}, shared |-> {}, alternates |-> [n \in {} |-> n],
              undefined |-> [n \in (IF link.entry = "" THEN {} ELSE {link.entry})
                                |-> CmdLineEntry],
              inclusions |-> <<>>]
    /\ linked = <<>>
    /\ walk = [at |-> 1, obj |-> 1, depth |-> 0, group |-> {}]
    /\ job = [stage |-> "rebind", span |-> {}, after |-> Start, progress |-> FALSE,
              ret |-> "walk", todo |-> {}]
    /\ poolSlot = 0
    /\ searched = {}
    /\ objs = <<>>

SelectStep ==
    \/ Rebind \/ WalkFixed \/ WalkLazy \/ WalkShared \/ WalkGroup \/ EndWalk
    \/ PullMember \/ EndSweep \/ TakeAlternates \/ EndAlternates
    \/ DefaultLibraries \/ AddLibrary \/ EndLibraries \/ OfferPool \/ Assemble

(***************************************************************************)
(* Properties.                                                             *)
(***************************************************************************)
SelectionTypeOK ==
    /\ job.stage \in Stages
    /\ slots \in Seq(Slots)
    /\ sel.defined \subseteq Symbols /\ Undefined \subseteq Symbols
    /\ sel.defined \cap Undefined = {}
    /\ \A i, j \in DOMAIN linked : linked[i] = linked[j] => i = j
    /\ walk.depth \in Nat
    /\ poolSlot \in 0 .. Len(slots)

\* The names that stand for what the references in `names` ask, by way of
\* __imp_X and of the alternates the objects of the link give.
StandFor(names, others) ==
    {n \in Symbols : \A S \in SUBSET Symbols :
        /\ names \subseteq S
        /\ \A m \in S \cap DOMAIN ImpOf : ImpOf[m] \in S
        /\ \A o \in others : \A m \in S \cap DOMAIN o.alts : o.alts[m] \in S
        => n \in S}

\* Member i of the link, pulled from an archive, was asked for: an object
\* before it (or the command line) refers to the symbol the link map names,
\* that object is the one the map names, and nothing before it defines it.
AskedFor(i, inclusion) ==
    LET before == {Obj(linked[h]) : h \in 1 .. i - 1}
    IN  /\ inclusion.member = linked[i]
        /\ inclusion.symbol \in Obj(linked[i]).strong
        /\ \A o \in before : inclusion.symbol \notin Defs(o)
        /\ \/ /\ inclusion.by = CmdLineEntry
              /\ inclusion.symbol \in StandFor({link.entry}, before)
           \/ \E o \in before :
                /\ o.src = inclusion.by
                /\ inclusion.symbol \in StandFor(o.refs, before)

\* The places in the link of what was pulled, and the number of each.
Pulled == {i \in DOMAIN linked : IsLazy(linked[i][1])}
Rank(i) == Cardinality({h \in Pulled : h <= i})

\* The slot at which the archive of slot k is pulled in an ELF link: its own,
\* or the end of the outermost group it is in.
PulledAt(k) ==
    CHOOSE i \in k .. Len(slots) :
        Level(slots, i) /\ \A j \in k .. i - 1 : ~Level(slots, j)

LeftOut(k) == {m \in Members(k) : ~InLink(m)}

\* An archive answers every reference made before it is pulled; outside ELF,
\* every reference.
NoneMissed ==
    \A k \in AllLazy(slots) : \A m \in LeftOut(k) : \A n \in Wanted(m) :
        /\ link.inOrder
        /\ n # link.entry
        /\ \A i \in DOMAIN linked :
              linked[i][1] <= PulledAt(k) => n \notin Obj(linked[i]).refs

\* A strong reference nothing answers and nobody asks for any more took its
\* alternate, which it does only when no archive of the line defines it.
\* (A group on the line of a link that is not ELF is left out: see the README.)
AlternateLast ==
    \A i \in DOMAIN linked :
        \A n \in Obj(linked[i]).refs \ (sel.defined \cup sel.shared \cup Undefined) :
            /\ n \in DOMAIN sel.alternates
            /\ \/ \E k \in DOMAIN slots : slots[k].kind = "group"
               \/ \A k \in {x \in DOMAIN link.slots : IsLazy(x)} :
                     \A m \in LeftOut(k) : n \notin Obj(m).strong

\* The selection is exact: no member that a reference asked for is missing,
\* no reference is forgotten, and every member pulled was asked for, by the
\* object and for the symbol the link map says.
SelectionExact ==
    At("selected") =>
        /\ NoneMissed
        /\ AlternateLast
        /\ Len(sel.inclusions) = Cardinality(Pulled)
        /\ \A i \in Pulled : AskedFor(i, sel.inclusions[Rank(i)])

\* No strong definition of the pool stands against one of the program, wherever on
\* the line the object that makes it joined.
PoolYields ==
    At("selected") =>
        \A i, j \in DOMAIN objs :
            Order[i][1] = poolSlot /\ Order[j][1] # poolSlot =>
                (objs[i].strong \cup objs[i].abs) \cap Defs(objs[j]) = {}
=============================================================================
