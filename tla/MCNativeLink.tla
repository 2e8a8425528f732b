---------------------------- MODULE MCNativeLink ----------------------------
(***************************************************************************)
(* Links of up to four inputs over six names; f, g and h are in archives,  *)
(* g and h in the pool as well, and iG is __imp_g.                         *)
(***************************************************************************)
EXTENDS NativeLink

MCSymbols == {"main", "f", "g", "h", "k", "iG"}
MCImpOf == [n \in {"iG"} |-> "g"]
MCPid == [w \in Writers |-> 1]

NoAlts == [n \in {} |-> n]
Unit(src, strong, refs) ==
    [src |-> src, strong |-> strong, weak |-> {}, abs |-> {}, refs |-> refs,
     imports |-> {}, bound |-> {}, alts |-> NoAlts, libs |-> {}, ok |-> TRUE]
With(o, field, v) == [o EXCEPT ![field] = v]

\* main calls f; a second unit defines k and calls g.
A == Unit("a.o", {"main"}, {"f"})
B == Unit("b.o", {"k"}, {"g", "k"})
\* Archives: f needs g; g needs f and comes with h; a weak g; no object.
LibF == Lazy(<<Unit("f", {"f"}, {"g"})>>)
LibG == Lazy(<<Unit("h", {"h"}, {}), Unit("gh", {"g"}, {"f", "h"})>>)
LibWeak == Lazy(<<With(Unit("wg", {"k"}, {}), "weak", {"g"}), Unit("g2", {"g", "h"}, {})>>)
Junk == Lazy(<<With(Unit("junk", {"h"}, {}), "ok", FALSE)>>)
Pool == <<Unit("<g>", {"g", "k"}, {"h"}), Unit("<h>", {"h"}, {})>>

LinkOf(inOrder, s, libs, clib, entry) ==
    [inOrder |-> inOrder, slots |-> s, pool |-> Pool, libs |-> libs,
     clib |-> clib, entry |-> entry]
NoLibs == [n \in {} |-> <<>>]

\* Orders of the inputs, and a group around the last two.
Parts == {Fixed(<<B>>), LibF, LibG, LibWeak, Shared({"g"}), Junk}
Grouped(s) ==
    SubSeq(s, 1, 2) \o <<Group(TRUE)>> \o SubSeq(s, 3, 4) \o <<Group(FALSE)>>
Lines ==
    {<<Fixed(<<A>>)>> \o s : s \in {t \in [1 .. 3 -> Parts] : Cardinality(ToSet(t)) = 3}}
OrderLinks ==
    {LinkOf(TRUE, s, NoLibs, {}, "") : s \in Lines}
    \cup {LinkOf(TRUE, Grouped(s), NoLibs, {"h"}, "") :
            s \in {t \in Lines : LibF \in {t[3], t[4]}}}
    \cup {LinkOf(FALSE, s, NoLibs, {}, "") : s \in {t \in Lines : t[2] = LibF}}

\* PE: alternates, __imp_ names, rebinding and default libraries.
Alts(src, refs, alts) == With(Unit(src, {"main"}, refs), "alts", alts)
PeUnits ==
    {Alts("a.obj", {"f"}, [n \in {"f"} |-> "g"]),
     Alts("a.obj", {"f", "k"}, [n \in {"f", "k"} |-> IF n = "f" THEN "k" ELSE "h"]),
     Alts("a.obj", {"k"}, [n \in {"k", "g"} |-> IF n = "k" THEN "g" ELSE "k"]),
     Unit("a.obj", {"main"}, {"iG"}),
     With(With(Unit("a.obj", {"main"}, {"f", "h"}), "imports", {"h"}), "bound", {"h"}),
     With(With(With(Unit("a.obj", {"main"}, {"g", "f"}), "imports", {"g"}), "bound", {"g"}),
          "libs", {"x"})}
DefaultLibs ==
    [n \in {"x", "y"} |->
        IF n = "x"
        THEN [members |-> <<With(Unit("xf", {"f", "k"}, {}), "libs", {"y", "none"})>>,
              exports |-> {"h"}]
        ELSE [members |-> <<Unit("yh", {"h"}, {})>>, exports |-> {}]]
PeLinks ==
    {LinkOf(FALSE, <<Fixed(<<u>>)>> \o s, DefaultLibs, {}, "") :
        u \in PeUnits,
        s \in {<<>>, <<LibF>>, <<LibG>>, <<Group(TRUE), LibG, Group(FALSE), LibF>>}}
    \cup {LinkOf(FALSE, <<Fixed(<<With(A, "libs", {"x", "y"})>>)>>, DefaultLibs, {}, "")}

\* Freestanding: the entry is the only root.
FreeLinks ==
    {LinkOf(o, s, NoLibs, {}, "f") :
        o \in BOOLEAN, s \in {<<LibF, LibG>>, <<LibG>>, <<Fixed(<<A>>), LibF>>, <<Junk>>}}

MCLinks == OrderLinks \cup PeLinks \cup FreeLinks

\* Every link over a file to replace beside a sibling left behind; one link
\* over every state of the files.
Left == [x \in {<<1, 0>>} |-> Bytes(Old, FALSE)]
MCStarts ==
    {<<l, [kind |-> "regular", open |-> TRUE, dir |-> Left]>> : l \in MCLinks}
    \cup {<<LinkOf(FALSE, <<LibF, LibG>>, NoLibs, {}, "f"), f>> : f \in Files}
=============================================================================
