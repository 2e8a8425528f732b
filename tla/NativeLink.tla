----------------------------- MODULE NativeLink -----------------------------
(***************************************************************************)
(* link_image and emit_image (src/src/cli/native_link.rs): the selection,  *)
(* the checks over what it chose, the image and the output file, which     *)
(* other writers may be replacing at the same time.                        *)
(***************************************************************************)
EXTENDS ArchiveSelection, OutputFile

CONSTANTS
    Linker,   \* the writer that is this link's
    Starts    \* the links, each with the files it finds

ASSUME LinkerAssumption == Linker \in Writers /\ Starts \subseteq Links \X Files

VARIABLES
    step,   \* the driver's step
    exit    \* the process's exit status, -1 while it runs

driverVars == <<step, exit>>
vars == <<selectVars, outputVars, driverVars>>

DriverSteps == {"select", "checks", "emit", "write", "sign", "map", "exited"}

Exit(status) == step' = "exited" /\ exit' = status

Selecting ==
    /\ step = "select" /\ exit = -1
    /\ SelectStep
    /\ UNCHANGED <<outputVars, driverVars>>

\* select_archive_members came back, or ended the process.
EndSelect ==
    /\ step = "select"
    /\ \/ At("failed") /\ Exit(1)
       \/ At("selected") /\ step' = "checks" /\ UNCHANGED exit
    /\ UNCHANGED <<selectVars, outputVars>>

\* There is something to link, and a freestanding entry is defined.
Linkable ==
    /\ objs # <<>>
    /\ link.entry # "" => \E i \in DOMAIN objs :
                              link.entry \in objs[i].strong \cup objs[i].weak

Checks ==
    /\ step = "checks"
    /\ IF Linkable THEN step' = "emit" /\ UNCHANGED exit ELSE Exit(1)
    /\ UNCHANGED <<selectVars, outputVars>>

\* The merge, the warnings made errors, the PLT and the image writer: each
\* ends the process before anything is written.
Emit ==
    /\ step = "emit"
    /\ \/ step' = "write" /\ UNCHANGED exit /\ CallWriter(Linker)
       \/ Exit(1) /\ UNCHANGED outputVars
    /\ UNCHANGED selectVars

\* write_output: an error ends the process.
Written ==
    /\ step = "write"
    /\ \/ writer[Linker].at = "ok" /\ step' = "sign" /\ UNCHANGED exit
       \/ writer[Linker].at = "error" /\ Exit(1)
    /\ UNCHANGED <<selectVars, outputVars>>

\* post_write_native: codesign, which Mach-O outputs of a macOS host need, may
\* fail.
Sign ==
    /\ step = "sign"
    /\ \/ step' = "map" /\ UNCHANGED exit
       \/ ~link.inOrder /\ Exit(1)
    /\ UNCHANGED <<selectVars, outputVars>>

\* The link map, asked for or not, rendered and written or not.
Map ==
    /\ step = "map"
    /\ \E status \in {0, 1} : Exit(status)
    /\ UNCHANGED <<selectVars, outputVars>>

Output(w) ==
    /\ WriterStep(w)
    /\ UNCHANGED <<selectVars, driverVars>>

\* Another process writes the same path.  Its call is placed after the
\* selection, which reads and writes none of its files; one that began
\* earlier is a state of the files the link starts from.
Other(w) ==
    /\ w # Linker
    /\ step \notin {"select", "checks", "emit"}
    /\ CallWriter(w)
    /\ UNCHANGED <<selectVars, driverVars>>

\* A killed link exits with no status of its own.
Killed(w) ==
    /\ Kill(w)
    /\ IF w = Linker THEN step' = "exited" ELSE UNCHANGED step
    /\ UNCHANGED <<selectVars, exit>>

Init ==
    /\ \E s \in Starts : InitSelection(s[1]) /\ InitOutput(s[2])
    /\ step = "select" /\ exit = -1

LinkStep ==
    \/ Selecting \/ EndSelect \/ Checks \/ Emit \/ Written \/ Sign \/ Map
    \/ Output(Linker)

Next == LinkStep \/ \E w \in Writers : Output(w) \/ Other(w) \/ Killed(w)

\* The link is one thread, and it runs on; another writer need not.
Spec == Init /\ [][Next]_vars /\ WF_vars(LinkStep)

\* Types of the selection, the output and the driver; the selection accounts
\* for an object once and never holds a name both defined and undefined.
TypeOK ==
    /\ SelectionTypeOK
    /\ OutputTypeOK
    /\ step \in DriverSteps /\ exit \in {-1, 0, 1}

\* A path is replaced whole or not at all (OutputWhole), a link that exits
\* with 0 has put its image there, and one that failed before it wrote has not.
OutputReplaced ==
    /\ OutputWhole
    /\ exit = 0 => writer[Linker].at = "ok"
    /\ writer[Linker].at = "idle" => path.by # Linker

\* No chain of the alternates of the link's objects comes back to its start.
AllObjects ==
    UNION {ToSet(link.slots[k].objs) :
              k \in {i \in DOMAIN link.slots : link.slots[i].kind \in {"fixed", "lazy"}}}
    \cup UNION {ToSet(link.libs[n].members) : n \in DOMAIN link.libs}
    \cup ToSet(link.pool)

Acyclic ==
    \A S \in SUBSET Symbols : S # {} =>
        \E n \in S : \A o \in AllObjects : n \in DOMAIN o.alts => o.alts[n] \notin S

\* Every link ends: a pull takes members that are finitely many, the default
\* libraries are looked for once each, and alternates end where they form no
\* cycle.
LinkEnds == (step = "select" /\ Acyclic) ~> (step = "exited")
=============================================================================
