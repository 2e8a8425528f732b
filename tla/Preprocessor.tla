---------------------------- MODULE Preprocessor ----------------------------
(***************************************************************************)
(* The line pass of the preprocessor (src/src/c5/preprocessor): the        *)
(* conditional stack, includes with `#pragma once` and include guards, the *)
(* macro table with push_macro / pop_macro, the diagnostic pragmas, and    *)
(* the reuse of a recorded source pass by the auto-include retry           *)
(* (process_recording, process_reusing; src/src/c5/compiler/mod.rs).       *)
(*                                                                         *)
(* A file is a sequence of logical lines (continuations joined, comments   *)
(* stripped, an invocation on one line), a line a record with the          *)
(* directive it spells in op and its operand in arg.  A macro's value      *)
(* stands for its whole definition, of either kind; 0 is "not defined".    *)
(* The output is the sequence of what each line wrote, so a position in it *)
(* is the offset the diagnostic events are keyed on.                       *)
(***************************************************************************)
EXTENDS DiagControl

CONSTANTS
    Headers,      \* the files an include can name
    Names,        \* macro names
    System,       \* the headers a system directory or the bundled set supplies
    Programs,     \* the texts: functions from Headers \cup {"main"} to lines
    UserForced,   \* the -include list of the command line
    AutoHeaders,  \* the headers an auto-include retry can append
    MaxDepth      \* MAX_INCLUDE_DEPTH

ASSUME HeadersAssumption ==
    /\ System \subseteq Headers /\ AutoHeaders \subseteq Headers
    /\ UserForced \in Seq(Headers)
    /\ MaxDepth \in Nat
    /\ \A t \in Programs : DOMAIN t = Headers \cup {"main"}

\* A directive or a text line that is about a macro names one, and a #define
\* gives it a definition: a line that does not parse so is not one of these.
NamingOps ==
    {"ifdef", "ifndef", "elif", "define", "undef", "push_macro", "pop_macro", "text"}

ASSUME TextsAssumption ==
    \A t \in Programs : \A f \in DOMAIN t :
        /\ t[f] \in Seq(ToSet(t[f]))
        /\ \A line \in ToSet(t[f]) :
              /\ line.op \in NamingOps => line.arg \in Names
              /\ line.op = "define" => line.val \in Nat

VARIABLES
    prog,    \* the text of every file
    phase,   \* the pass, or what it came to (Phases)
    forced,  \* opts.force_includes
    pp,      \* the Preprocessor of the running pass
    frames,  \* the LinePass of each open buffer, innermost last
    prior,   \* PpReuse: the preprocessor at source entry and at its end
    reused,  \* what process_reusing left, <<>> before or when it declined
    scope,   \* history: the levels the pragmas read so far put in force
    expect   \* history: the level in force at each text line of the pass

vars == <<prog, phase, forced, pp, frames, prior, reused, scope, expect>>

Phases == {"record", "recorded", "retry", "decide", "fallback", "full", "done", "failed"}

Preamble == "<force-include>"

CondOps == {"ifdef", "ifndef", "elif", "else", "endif"}

\* A preprocessor as `new` makes it; rec is the ReuseRecorder, off until
\* process_recording installs it.
Fresh ==
    [macros |-> [n \in Names |-> 0], pushed |-> [n \in Names |-> <<>>],
     once |-> {}, guards |-> [f \in {} |-> ""], counter |-> 0,
     out |-> <<>>, records |-> <<>>, system |-> {},
     exports |-> <<>>, entrypoint |-> "",
     ctl |-> NoControl, diags |-> 0, sink |-> NoSink,
     rec |-> [on |-> FALSE, names |-> {}, counter |-> FALSE,
              files |-> {}, events |-> <<>>]]

\* A LinePass: the guard scan starts before any line; closing keeps, while
\* an include is open, whether the include's line ends an extent.
NewFrame(f) ==
    [file |-> f, idx |-> 1, cond |-> <<>>, active |-> TRUE,
     guard |-> "leading", gname |-> "", closing |-> FALSE]

Put(p, token) == [p EXCEPT !.out = Append(@, token)]
Blank(p) == Put(p, <<"nl">>)
Marker(p, f, line) == Put(p, <<"marker", f, line>>)

Text(f) ==
    IF f = Preamble
    THEN [i \in DOMAIN forced |-> [op |-> "include", arg |-> forced[i]]]
    ELSE prog[f]

Running == phase \in {"record", "retry", "full"}
Fr == Last(frames)
Line == Text(Fr.file)[Fr.idx]
HasLine == Running /\ frames # <<>> /\ Fr.idx <= Len(Text(Fr.file))
Reading(ops) == HasLine /\ Line.op \in ops
InInclude == Len(frames) > 1
InSystemHeader == InInclude /\ Fr.file \in System
Closing == pp.ctl.open # {}

Warned(p, c) ==
    [p EXCEPT !.sink = Emit(@, p.ctl, c, Len(p.out), Fr.file, Fr.idx)]

\* obs_note: what the recorded source pass looked up.
Noted(p, n) == IF p.rec.on THEN [p EXCEPT !.rec.names = @ \cup {n}] ELSE p

Defined(n) == pp.macros[n] # 0

(***************************************************************************)
(* The include-guard scan: it sees every line before the line is applied,  *)
(* with the conditional depth at that point.                               *)
(***************************************************************************)
\* Variant: an #else or #elif of the guard itself goes unnoticed.
ScanIgnoresElse(fr, line) ==
    LET depth == Len(fr.cond)
        state == IF fr.guard = "open" /\ depth = 0 THEN "closed" ELSE fr.guard
    IN  IF line.op = "ifndef" /\ state = "leading" /\ depth = 0
        THEN [fr EXCEPT !.guard = "open", !.gname = line.arg]
        ELSE IF line.op # "blank" /\ state \in {"leading", "closed"}
        THEN [fr EXCEPT !.guard = "disqualified"]
        ELSE [fr EXCEPT !.guard = state]

Scan(fr, line) ==
    LET depth == Len(fr.cond)
        state == IF fr.guard = "open" /\ depth = 0 THEN "closed" ELSE fr.guard
        ends  == \/ state \in {"leading", "closed"}
                 \/ state = "open" /\ depth = 1 /\ line.op \in {"else", "elif"}
    IN  IF line.op = "ifndef" /\ state = "leading" /\ depth = 0
        THEN [fr EXCEPT !.guard = "open", !.gname = line.arg]
        ELSE IF line.op # "blank" /\ ends
        THEN [fr EXCEPT !.guard = "disqualified"]
        ELSE [fr EXCEPT !.guard = state]

\* The macro that guards the whole file, "" when none does.
GuardOf(fr) ==
    IF /\ fr.cond = <<>>
       /\ fr.guard \in {"open", "closed"}
    THEN fr.gname ELSE ""

(***************************************************************************)
(* History: scope.want is the level each code has by the pragmas read so   *)
(* far, scope.saved what the open pushes saw, and cover / next how a       *)
(* `suppress` covers the line being read and the one after: 0 not, 1 yes,  *)
(* 2 by a pragma that stood on a covered line itself.                      *)
(***************************************************************************)
NoScope ==
    [want |-> [c \in Codes |-> CmdLine], saved |-> <<>>,
     cover |-> [c \in Codes |-> 0], next |-> [c \in Codes |-> 0]]

InForce(c) ==
    IF scope.cover[c] = 1 THEN "ignore"
    ELSE IF scope.want[c] = CmdLine THEN BaseLevel[c]
    ELSE scope.want[c]

Uncovered(s) == [s EXCEPT !.cover = NoScope.cover, !.next = NoScope.next]

NextLine(s) == [s EXCEPT !.cover = s.next, !.next = NoScope.next]

(***************************************************************************)
(* One line.  EndLine is the tail every line shares: the pass moves on and *)
(* the extents open before the line end where its output does.             *)
(***************************************************************************)
EndLine(fr, p) ==
    /\ frames' = [frames EXCEPT ![Len(frames)] = [fr EXCEPT !.idx = @ + 1]]
    /\ pp' = IF Closing THEN [p EXCEPT !.ctl = CloseSuppress(@, Len(p.out))] ELSE p
    /\ UNCHANGED <<prog, phase, forced, prior, reused>>

\* A line that is neither text nor a diagnostic pragma.
Plain(fr, p) ==
    EndLine(fr, p) /\ scope' = NextLine(scope) /\ UNCHANGED expect

\* An error the pass cannot go past: a first pass ends the compile, a
\* process_reusing falls back to the full pass.
Fail ==
    /\ frames' = <<>>
    /\ phase' = IF phase = "retry" THEN "fallback" ELSE "failed"
    /\ UNCHANGED <<prog, forced, pp, prior, reused, scope, expect>>

Inactive == ~Fr.active

\* Variant: a skipped line is left before the pass moves past it.
SkipStays ==
    /\ HasLine /\ Line.op \notin CondOps /\ Inactive
    /\ UNCHANGED vars

\* A line of a branch not taken leaves a blank.
SkipLine ==
    /\ HasLine /\ Line.op \notin CondOps /\ Inactive
    /\ Plain(Scan(Fr, Line), Blank(pp))

(***************************************************************************)
(* Conditionals.                                                           *)
(***************************************************************************)
PushBranch(fr, taken) ==
    [fr EXCEPT !.active = taken,
               !.cond = Append(@, [parent |-> fr.active, taken |-> taken,
                                   any |-> taken, sawElse |-> FALSE])]

If ==
    /\ Reading({"ifdef", "ifndef"})
    /\ LET truth == Defined(Line.arg) <=> Line.op = "ifdef"
           taken == Fr.active /\ truth
           p     == IF Fr.active THEN Noted(pp, Line.arg) ELSE pp
       IN  Plain(PushBranch(Scan(Fr, Line), taken), Blank(p))

Arm(fr, taken, isElse) ==
    LET arm == Last(fr.cond)
    IN  [fr EXCEPT !.active = taken,
                   !.cond[Len(fr.cond)] = [parent |-> arm.parent, taken |-> taken,
                                           any |-> arm.any \/ taken,
                                           sawElse |-> arm.sawElse \/ isElse]]

\* Variant: an arm of a conditional in a branch not taken may be taken.
EligibleAnywhere(fr) == ~Last(fr.cond).any

Eligible(fr) == Last(fr.cond).parent /\ ~Last(fr.cond).any

\* The expression of an arm that cannot be taken is not evaluated.
Elif ==
    /\ Reading({"elif"})
    /\ IF Fr.cond = <<>> \/ Last(Fr.cond).sawElse THEN Fail
       ELSE LET eval  == Eligible(Fr)
                taken == eval /\ Defined(Line.arg)
                p     == IF eval THEN Noted(pp, Line.arg) ELSE pp
            IN  Plain(Arm(Scan(Fr, Line), taken, FALSE), Blank(p))

Else ==
    /\ Reading({"else"})
    /\ IF Fr.cond = <<>> \/ Last(Fr.cond).sawElse THEN Fail
       ELSE Plain(Arm(Scan(Fr, Line), Eligible(Fr), TRUE), Blank(pp))

Endif ==
    /\ Reading({"endif"})
    /\ IF Fr.cond = <<>> THEN Fail
       ELSE Plain([Scan(Fr, Line) EXCEPT !.active = Last(Fr.cond).parent,
                                         !.cond = Front(@)], Blank(pp))

(***************************************************************************)
(* Macros.  A redefinition to another value is reported outside system     *)
(* headers; a pop with no save is reported and changes nothing.            *)
(***************************************************************************)
Define ==
    /\ Reading({"define"}) /\ Fr.active
    /\ LET n == Line.arg
           p == IF InSystemHeader \/ pp.macros[n] \in {0, Line.val}
                THEN pp ELSE Warned(pp, "redefined")
       IN  Plain(Scan(Fr, Line), Blank([Noted(p, n) EXCEPT !.macros[n] = Line.val]))

Undef ==
    /\ Reading({"undef"}) /\ Fr.active
    /\ Plain(Scan(Fr, Line), Blank([Noted(pp, Line.arg) EXCEPT !.macros[Line.arg] = 0]))

PushMacro ==
    /\ Reading({"push_macro"}) /\ Fr.active
    /\ LET n == Line.arg
       IN  Plain(Scan(Fr, Line),
                 Blank([Noted(pp, n) EXCEPT !.pushed[n] = Append(@, pp.macros[n])]))

PopMacro ==
    /\ Reading({"pop_macro"}) /\ Fr.active
    /\ LET n == Line.arg
           p == Noted(pp, n)
       IN  Plain(Scan(Fr, Line),
                 Blank(IF pp.pushed[n] = <<>> THEN Warned(p, "popped")
                       ELSE [p EXCEPT !.macros[n] = Last(pp.pushed[n]),
                                      !.pushed[n] = Front(@)]))

(***************************************************************************)
(* Pragmas that act on the preprocessor or feed the compile.               *)
(***************************************************************************)
Once ==
    /\ Reading({"once"}) /\ Fr.active
    /\ Plain(Scan(Fr, Line), Blank([pp EXCEPT !.once = @ \cup {Fr.file}]))

\* `export` and `entrypoint`: the side outputs a reused pass replays.
Conflicts(p, e) ==
    e.op = "entrypoint" /\ p.entrypoint \notin {"", e.arg}

Apply(p, e) ==
    IF e.op = "entrypoint" THEN [p EXCEPT !.entrypoint = e.arg]
    ELSE IF e.arg \in ToSet(p.exports) THEN p
    ELSE [p EXCEPT !.exports = Append(@, e.arg)]

SidePragma ==
    /\ Reading({"export", "entrypoint"}) /\ Fr.active
    /\ IF Conflicts(pp, Line) THEN Fail
       ELSE LET p == Apply(pp, Line)
            IN  Plain(Scan(Fr, Line),
                      Blank(IF p.rec.on
                            THEN [p EXCEPT !.rec.events = Append(@, Line)] ELSE p))

UnknownPragma ==
    /\ Reading({"unknown"}) /\ Fr.active
    /\ Plain(Scan(Fr, Line), Blank(Warned(pp, "unknown")))

(***************************************************************************)
(* Diagnostic pragmas: a level, push, pop, `suppress` and `once`.          *)
(***************************************************************************)
DiagPragma(p, s) ==
    /\ EndLine(Scan(Fr, Line), Blank([p EXCEPT !.diags = @ + 1]))
    /\ scope' = NextLine(s)
    /\ UNCHANGED expect

\* `ignored`, `warning`, `error` and the MSVC actions; `default` is CmdLine.
SetLevel ==
    /\ Reading(Levels \cup {CmdLine}) /\ Fr.active
    /\ DiagPragma([pp EXCEPT !.ctl = Record(@, Len(pp.out), Line.arg, Line.op)],
                  [scope EXCEPT !.want[Line.arg] = Line.op])

PushDiag ==
    /\ Reading({"push"}) /\ Fr.active
    /\ DiagPragma([pp EXCEPT !.ctl = PushLevels(@)],
                  [scope EXCEPT !.saved = Append(@, scope.want)])

PopDiag ==
    /\ Reading({"pop"}) /\ Fr.active
    /\ LET p == [pp EXCEPT !.ctl = PopLevels(@, Len(pp.out))]
       IN  IF pp.ctl.stack = <<>> THEN DiagPragma(Warned(p, "popped"), scope)
           ELSE DiagPragma(p, [scope EXCEPT !.want = Last(scope.saved),
                                            !.saved = Front(@)])

Suppress ==
    /\ Reading({"suppress"}) /\ Fr.active
    /\ DiagPragma([pp EXCEPT !.ctl = OpenSuppress(@, Len(pp.out), Line.arg)],
                  [scope EXCEPT !.next[Line.arg] = IF Closing THEN 2 ELSE 1])

ReportOnceLine ==
    /\ Reading({"report_once"}) /\ Fr.active
    /\ DiagPragma([pp EXCEPT !.ctl = ReportOnce(@, Len(pp.out), Line.arg)], scope)

(***************************************************************************)
(* Text: a line that mentions a name writes what the name expands to, one  *)
(* with __COUNTER__ its next value.  A blank line is text too.             *)
(***************************************************************************)
Content ==
    /\ Reading({"text", "counter", "blank"}) /\ Fr.active
    /\ LET p == CASE Line.op = "text" ->
                        Put(Noted(pp, Line.arg), <<"text", Line.arg, pp.macros[Line.arg]>>)
                  [] Line.op = "counter" ->
                        Put([pp EXCEPT !.counter = @ + 1,
                                       !.rec.counter = @ \/ pp.rec.on],
                            <<"counter", pp.counter>>)
                  [] OTHER -> Blank(pp)
       IN  EndLine(Scan(Fr, Line), p)
    /\ expect' = expect \cup {[at |-> Len(pp.out), code |-> c, level |-> InForce(c)] :
                                c \in {d \in Codes : scope.cover[d] # 2}}
    /\ scope' = NextLine(scope)

(***************************************************************************)
(* Includes.  A file `#pragma once` named, or whose guard macro is         *)
(* defined, contributes nothing; otherwise its lines are read by a pass of *)
(* its own, and the marker after it restores the including file.           *)
(***************************************************************************)
Guarded(f) == f \in DOMAIN pp.guards /\ Defined(pp.guards[f])

\* Variant: the bound is checked one level late.
TooDeepLate == Len(frames) - 1 > MaxDepth

TooDeep == Len(frames) - 1 >= MaxDepth

Include ==
    /\ Reading({"include"}) /\ Fr.active
    /\ LET f == Line.arg
           p1 == IF pp.rec.on THEN [pp EXCEPT !.rec.files = @ \cup {f}] ELSE pp
           p2 == IF f \notin pp.once /\ f \in DOMAIN pp.guards
                 THEN Noted(p1, pp.guards[f]) ELSE p1
           traced(status) == [p2 EXCEPT !.records = Append(@, <<Len(frames), f, status>>)]
           opened == [traced("opened") EXCEPT
                        !.system = IF f \in System THEN @ \cup {f} ELSE @]
       IN  CASE f \notin Headers -> Fail
             [] f \in Headers /\ (f \in pp.once \/ Guarded(f)) ->
                  Plain(Scan(Fr, Line), Marker(traced("cached"), Fr.file, Fr.idx + 1))
             [] OTHER ->
                  IF TooDeep THEN Fail
                  ELSE /\ frames' = Append([frames EXCEPT ![Len(frames)] =
                                        [Scan(Fr, Line) EXCEPT !.closing = Closing]],
                                     NewFrame(f))
                       /\ pp' = Marker(opened, f, 1)
                       /\ UNCHANGED <<prog, phase, forced, prior, reused, scope, expect>>

\* LinePass::finish: what every buffer does at its end.
Finished ==
    LET p1 == [pp EXCEPT !.ctl = CloseSuppress(@, Len(pp.out))]
        p2 == IF Fr.cond = <<>> THEN p1 ELSE Warned(p1, "directive")
    IN  IF InInclude /\ GuardOf(Fr) # ""
        THEN [p2 EXCEPT !.guards =
                [f \in DOMAIN @ \cup {Fr.file} |->
                    IF f = Fr.file THEN GuardOf(Fr) ELSE @[f]]]
        ELSE p2

AtEnd == Running /\ frames # <<>> /\ Fr.idx > Len(Text(Fr.file))

EndInclude ==
    /\ AtEnd /\ InInclude
    /\ LET outer == frames[Len(frames) - 1]
           p == Marker(Finished, outer.file, outer.idx + 1)
       IN  /\ frames' = [Front(frames) EXCEPT ![Len(frames) - 1].idx = @ + 1]
           /\ pp' = IF outer.closing
                    THEN [p EXCEPT !.ctl = CloseSuppress(@, Len(p.out))] ELSE p
    /\ scope' = Uncovered(scope)
    /\ UNCHANGED <<prog, phase, forced, prior, reused, expect>>

(***************************************************************************)
(* The passes.  A preamble, when the list is not empty, precedes the       *)
(* source.  The first build records its source pass; a compile that fails  *)
(* on an unknown function appends the header that declares it and reuses   *)
(* the recorded pass, or runs a full one.                                  *)
(***************************************************************************)
Start(p, f) == [frames |-> <<NewFrame(f)>>, pp |-> Marker(p, f, 1)]

Recording(p) == [p EXCEPT !.rec.on = TRUE]

EndPreamble ==
    /\ AtEnd /\ Fr.file = Preamble /\ ~InInclude
    /\ IF phase = "retry"
       THEN /\ phase' = "decide" /\ frames' = <<>> /\ pp' = Finished
            /\ UNCHANGED prior
       ELSE LET p == IF phase = "record" THEN Recording(Finished) ELSE Finished
            IN  /\ frames' = Start(p, "main").frames
                /\ pp' = Start(p, "main").pp
                /\ prior' = IF phase = "record" THEN [prior EXCEPT !.entry = p] ELSE prior
                /\ UNCHANGED phase
    /\ scope' = Uncovered(scope)
    /\ UNCHANGED <<prog, forced, reused, expect>>

\* The pass fails at its end when a diagnostic resolved to an error.
EndSource ==
    /\ AtEnd /\ Fr.file = "main" /\ ~InInclude
    /\ phase' = IF HasErrors(Finished.sink) THEN "failed"
                ELSE IF phase = "record" THEN "recorded" ELSE "done"
    /\ pp' = Finished
    /\ prior' = IF phase = "record" THEN [prior EXCEPT !.leave = Finished] ELSE prior
    /\ frames' = <<>>
    /\ UNCHANGED <<prog, forced, reused, scope, expect>>

\* build_retry after an unknown function that header h declares.
Retry(h) ==
    /\ phase = "recorded" \/ phase = "done"
    /\ h \notin ToSet(forced)
    /\ forced' = Append(forced, h)
    /\ phase' = "retry"
    /\ reused' = <<>>
    /\ frames' = Start(Fresh, Preamble).frames
    /\ pp' = Start(Fresh, Preamble).pp
    /\ scope' = NoScope /\ expect' = {}
    /\ UNCHANGED <<prog, prior>>

\* The names whose definition or saves differ from the recorded entry.
MacroDelta ==
    {n \in Names : \/ pp.macros[n] # prior.entry.macros[n]
                   \/ pp.pushed[n] # prior.entry.pushed[n]}

GuardDelta ==
    {f \in Headers : \/ f \in DOMAIN pp.guards
                        /\ ~(f \in DOMAIN prior.entry.guards
                             /\ prior.entry.guards[f] = pp.guards[f])
                     \/ f \in DOMAIN prior.entry.guards \ DOMAIN pp.guards}

OnceDelta == (pp.once \ prior.entry.once) \cup (prior.entry.once \ pp.once)

\* The recorded pass did not expand __COUNTER__, or would from the same value.
CounterKept == pp.counter = prior.entry.counter \/ ~prior.leave.rec.counter

\* Variant: a source pass that read diagnostic pragmas is reused as well.
ReusableAnyPragma ==
    LET seen == prior.leave.rec
    IN  /\ CounterKept
        /\ MacroDelta \cap seen.names = {}
        /\ OnceDelta \cap seen.files = {}
        /\ GuardDelta \cap seen.files = {}

\* The recorded pass read nothing the extended preamble changed, as far as
\* the code compares: macros, saves, registries and the counter.  (The texts
\* have no `#pragma warn`, whose set is compared too.)
Reusable ==
    LET seen == prior.leave.rec
    IN  /\ CounterKept
        /\ prior.leave.diags = prior.entry.diags
        /\ MacroDelta \cap seen.names = {}
        /\ OnceDelta \cap seen.files = {}
        /\ GuardDelta \cap seen.files = {}

\* What the recorded pass appended to a list.
Since(leave, entry) == SubSeq(leave, Len(entry) + 1, Len(leave))

Replayed ==
    LET p == FoldLeft(Apply, pp, prior.leave.rec.events)
        was == prior.entry
        now == prior.leave
    IN  [p EXCEPT
            !.sink.emitted = @ \o Since(now.sink.emitted, was.sink.emitted),
            !.records      = @ \o Since(now.records, was.records),
            !.out          = @ \o Since(now.out, was.out)]

\* A replayed pragma that conflicts, or an error among the diagnostics,
\* is left to the full pass to report.
ReplayFails ==
    \/ \E i \in DOMAIN prior.leave.rec.events :
          Conflicts(FoldLeft(Apply, pp, SubSeq(prior.leave.rec.events, 1, i - 1)),
                    prior.leave.rec.events[i])
    \/ HasErrors(Replayed.sink)

StartFull ==
    /\ phase' = "full"
    /\ frames' = Start(Fresh, Preamble).frames
    /\ pp' = Start(Fresh, Preamble).pp
    /\ scope' = NoScope /\ expect' = {}
    /\ UNCHANGED <<prog, forced, prior>>

\* process_reusing answers Some.  The program then compiles this text; the
\* full pass that follows here is the reference it is compared with.
Reuse ==
    /\ phase = "decide"
    /\ Reusable /\ ~ReplayFails
    /\ reused' = <<Replayed>>
    /\ StartFull

\* process_reusing answers None (its preamble failed, or one of the checks
\* did), and build runs the full pass.  The filter of observed names may hit
\* for a name the pass never looked up.
Decline ==
    /\ \/ phase = "fallback"
       \/ phase = "decide" /\ (~Reusable \/ ReplayFails \/ MacroDelta # {})
    /\ reused' = <<>>
    /\ StartFull

Init ==
    /\ prog \in Programs
    /\ phase = "record"
    /\ forced = UserForced
    /\ LET first == IF UserForced = <<>> THEN Start(Recording(Fresh), "main")
                    ELSE Start(Fresh, Preamble)
       IN  frames = first.frames /\ pp = first.pp
    /\ prior = [entry |-> Recording(Fresh), leave |-> Fresh]
    /\ reused = <<>>
    /\ scope = NoScope /\ expect = {}

LineStep ==
    \/ SkipLine \/ If \/ Elif \/ Else \/ Endif
    \/ Define \/ Undef \/ PushMacro \/ PopMacro
    \/ Once \/ SidePragma \/ UnknownPragma
    \/ SetLevel \/ PushDiag \/ PopDiag \/ Suppress \/ ReportOnceLine
    \/ Content \/ Include

PassStep ==
    \/ LineStep \/ EndInclude \/ EndPreamble \/ EndSource
    \/ Reuse \/ Decline

Next == PassStep \/ \E h \in AutoHeaders : Retry(h)

\* A pass is a loop of one thread: it runs on.  Whether a compile asks for
\* a retry is the program's choice.
Spec == Init /\ [][Next]_vars /\ WF_vars(PassStep)

(***************************************************************************)
(* Properties.                                                             *)
(***************************************************************************)
CondFrames ==
    [parent : BOOLEAN, taken : BOOLEAN, any : BOOLEAN, sawElse : BOOLEAN]

\* Types of the pass: open buffers, their conditional stacks and guard scans,
\* the macro table, the registries and the pragma events.
TypeOK ==
    /\ phase \in Phases
    /\ forced \in Seq(Headers)
    /\ \A i \in DOMAIN frames :
          /\ frames[i].file \in Headers \cup {"main", Preamble}
          /\ frames[i].idx \in 1 .. Len(Text(frames[i].file)) + 1
          /\ frames[i].cond \in Seq(CondFrames)
          /\ frames[i].active \in BOOLEAN
          /\ frames[i].guard \in {"leading", "open", "closed", "disqualified"}
    /\ Len(frames) <= MaxDepth + 1
    /\ pp.macros \in [Names -> Nat]
    /\ pp.once \subseteq Headers \cup {"main"}
    /\ DOMAIN pp.guards \subseteq Headers /\ \A f \in DOMAIN pp.guards : pp.guards[f] \in Names
    /\ pp.ctl.open \subseteq Codes
    /\ \A c \in Codes : \A e \in ToSet(pp.ctl.events[c]) :
          e.at \in Nat /\ e.level \in Levels \cup {CmdLine}

\* A line is live exactly when the arm being read of every open conditional
\* of its file is taken, and an arm inside a branch not taken never is:
\* `active` and the frames of the conditional stack cannot drift apart.
ActiveIsArms ==
    \A i \in DOMAIN frames :
        LET cond == frames[i].cond
        IN  /\ frames[i].active <=> \A k \in DOMAIN cond : cond[k].taken
            /\ \A k \in DOMAIN cond :
                  /\ cond[k].taken => cond[k].any
                  /\ cond[k].parent <=> \A j \in 1 .. k - 1 : cond[j].taken

(***************************************************************************)
(* What reading a text would do, from its structure alone.  Depth(t, i) is *)
(* the nesting before line i; the arms of the conditional around line i at *)
(* level d are its opener and the #elif / #else lines at that level.       *)
(***************************************************************************)
Count(t, ops, i) == Cardinality({j \in 1 .. i - 1 : t[j].op \in ops})
Depth(t, i) == Count(t, {"ifdef", "ifndef"}, i) - Count(t, {"endif"}, i)

Arms(t, i, d) ==
    LET opener == CHOOSE j \in 1 .. i - 1 :
            /\ t[j].op \in {"ifdef", "ifndef"} /\ Depth(t, j) = d - 1
            /\ \A k \in j + 1 .. i : Depth(t, k) >= d
    IN  {opener} \cup {j \in opener + 1 .. i - 1 :
                        t[j].op \in {"elif", "else"} /\ Depth(t, j) = d}

Holds(line, macros) ==
    CASE line.op = "ifndef" -> macros[line.arg] = 0
      [] line.op = "else" -> TRUE
      [] OTHER -> macros[line.arg] # 0

\* Under these macros line i of t is read live: at every level the arm it is
\* in is the first whose condition holds.
LiveLine(t, i, macros) ==
    \A d \in 1 .. Depth(t, i) :
        LET arms == Arms(t, i, d)
            mine == CHOOSE j \in arms : \A k \in arms : k <= j
        IN  Holds(t[mine], macros) /\ \A k \in arms \ {mine} : ~Holds(t[k], macros)

\* Reading f would write nothing and change nothing.
Quiet(f, macros) ==
    \A i \in DOMAIN prog[f] :
        prog[f][i].op \in CondOps \cup {"blank"} \/ ~LiveLine(prog[f], i, macros)

\* A file the guard registry drops would have contributed nothing: whenever
\* the macro registered for a file is defined, no line of the file is live.
GuardSilent ==
    \A f \in DOMAIN pp.guards : Guarded(f) => Quiet(f, pp.macros)

\* The level looked up by offset, at any later time, is the level the
\* pragmas had put in force when the line at that offset was read: pops
\* restore what the matching push saw, across includes, and a `suppress`
\* silences the one line after it.  (A `suppress` that stands on a covered
\* line is not compared: see the README.)
LevelIsScoped ==
    \A e \in expect : LevelAt(pp.ctl, e.code, e.at) = e.level

\* The passes whose answers are compared: a reused one, and the full pass
\* over the same extended list once it has ended.
Compared == reused # <<>> /\ phase \in {"done", "failed"}

\* A reused source pass compiles what the full pass over the extended list
\* would: the same text, include trace, exports and entry point, and for
\* every diagnostic at every text line the level the full pass gives it.  So
\* nothing the appended header did was read by the recorded pass.
ReusedText ==
    Compared =>
        /\ reused[1].out = pp.out
        /\ reused[1].records = pp.records
        /\ reused[1].exports = pp.exports
        /\ reused[1].entrypoint = pp.entrypoint
        /\ \A e \in expect : LevelAt(reused[1].ctl, e.code, e.at) = e.level

\* What the comment of process_reusing says of the side outputs: they are
\* what a full run would leave, the diagnostics and the set of system headers
\* too; and a pass the full run would fail is not reused.
ReuseIsFull ==
    Compared =>
        /\ phase = "done"
        /\ reused[1].sink.emitted = pp.sink.emitted
        /\ reused[1].system = pp.system

\* Every pass ends, in a text or in an error: unguarded self-inclusion stops
\* at the depth bound, and every line moves the pass on.
PassEnds ==
    (phase \in {"record", "retry", "decide", "fallback", "full"})
        ~> (phase \in {"recorded", "done", "failed"})
=============================================================================
