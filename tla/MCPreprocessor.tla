--------------------------- MODULE MCPreprocessor ---------------------------
(***************************************************************************)
(* Small texts for the preprocessor: one header h, the header ext a retry  *)
(* appends, and main.  Each family varies the lines its question is about. *)
(***************************************************************************)
EXTENDS Preprocessor

MCHeaders == {"u", "h", "ext"}
MCUserForced == <<"u">>
MCNames == {"X", "G"}
MCCodes == {"unknown", "redefined", "popped"}
MCBase == [c \in MCCodes |-> "warning"]

L(op, arg) == [op |-> op, arg |-> arg]
Def(n, v) == [op |-> "define", arg |-> n, val |-> v]
Inc(f) == L("include", f)

Texts(lines, n) == UNION {[1 .. k -> lines] : k \in 0 .. n}
Prog(m, h, u, e) ==
    [f \in MCHeaders \cup {"main"} |->
        CASE f = "main" -> m [] f = "h" -> h [] f = "u" -> u [] OTHER -> e]

\* Header h is included twice; its text is any of the shapes of a guard.
GuardLines ==
    {L("ifndef", "G"), Def("G", 1), L("endif", ""), L("else", ""),
     L("elif", "X"), L("text", "X")}
GuardTexts ==
    {Prog(<<Inc("h"), b, Inc("h")>>, <<a>> \o t, <<>>, <<>>) :
        a \in {L("ifndef", "G"), L("blank", "")},
        b \in {L("undef", "G"), Def("X", 1), Def("G", 1)}, t \in [1 .. 3 -> GuardLines]}

\* The source reads what the appended header may change.
SourceLines ==
    {L("text", "X"), Def("X", 1), L("ifdef", "X"), L("endif", ""), Inc("h"),
     L("pop_macro", "X"), L("counter", ""), L("entrypoint", "a"), L("unknown", ""),
     L("ignore", "unknown")}
ReuseHeaders ==
    {<<L("ifndef", "G"), Def("G", 1), L("text", "X"), L("endif", "")>>,
     <<L("once", ""), L("undef", "X"), L("export", "x")>>}
UserHeaders == {<<>>, <<Def("X", 1), L("push_macro", "X"), L("report_once", "unknown")>>}
Extensions ==
    {<<Inc("h")>>, <<Def("X", 2)>>, <<L("push_macro", "X")>>, <<L("counter", "")>>,
     <<L("entrypoint", "b")>>, <<Def("G", 1)>>, <<Def("X", 1), L("pop_macro", "X")>>,
     <<L("unknown", ""), L("export", "e")>>, <<L("ignore", "unknown")>>,
     <<L("error", "unknown")>>}
BadExtensions == {<<Inc("ext")>>, <<Inc("none")>>}
\* Where nothing includes h its text is left empty.
ReuseTexts ==
    {Prog(m, IF Inc("h") \in ToSet(m) \cup ToSet(e) THEN h ELSE <<>>, u, e) :
        m \in Texts(SourceLines, 2), h \in ReuseHeaders, u \in UserHeaders, e \in Extensions}
    \cup {Prog(m, <<>>, <<>>, e) : m \in Texts(SourceLines, 1), e \in BadExtensions}

\* Pragmas of levels, some of them in an included header.
DiagLines ==
    {L("push", ""), L("pop", ""), L("ignore", "unknown"), L("suppress", "unknown"),
     L("unknown", ""), Inc("h")}
MoreDiagLines ==
    {L("text", "X"), L("cmdline", "unknown"), L("error", "redefined"), L("report_once", "unknown")}
DiagHeader == <<L("push", ""), L("ignore", "redefined"), L("suppress", "unknown")>>
DiagTexts ==
    {Prog(m \o <<L("text", "X")>>, DiagHeader, <<>>, <<>>) :
        m \in [1 .. 4 -> DiagLines] \cup [1 .. 2 -> DiagLines \cup MoreDiagLines]}

MCPrograms == GuardTexts \cup ReuseTexts \cup DiagTexts
=============================================================================
