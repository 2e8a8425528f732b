-------------------------- MODULE NativeLinkProofs --------------------------
(***************************************************************************)
(* A link, for any inputs, archives, groups and libraries, any set of      *)
(* writers of its path, any process ids and any number of suffixes,        *)
(* whatever fails and whoever is killed: its output, then what it selects. *)
(***************************************************************************)
EXTENDS NativeLink, FiniteSetTheorems, WellFoundedInduction, TLAPS

\* The steps at which a writer has a sibling of its own.
Holding == {"write", "rename", "remove"}

\* The steps on the way to replacing the path, and those of write_in_place.
Replacing == {"create"} \cup Holding
\* The steps of a writer that writes the output in place.
InPlace == {"truncate", "fill", "mode"}

\* The types of the writers, the path and the directory.
FilesOK ==
    /\ writer \in [Writers -> [at : Steps, n : Nat]]
    /\ path \in [by : Writers \cup {Old}, whole : BOOLEAN]
    /\ \A x \in DOMAIN dir : dir[x] \in [by : Writers \cup {Old}, whole : BOOLEAN]

\* A writer's sibling is its own, it has no other, and it is whole when it is
\* renamed.
Owns ==
    \A w \in Writers :
        /\ writer[w].at \in Holding => Name(w) \in DOMAIN dir /\ dir[Name(w)].by = w
        /\ writer[w].at = "rename" => dir[Name(w)].whole
        /\ writer[w].at \in Holding =>
              \A x \in DOMAIN dir : dir[x].by = w => x = Name(w)

\* Whoever has a sibling in the directory works on it, or ended without it.
Siblings ==
    \A x \in DOMAIN dir :
        dir[x].by # Old => writer[dir[x].by].at \in Holding \cup {"error", "killed"}

\* The way a writer takes follows from what the path names and from whether
\* the directory is open; neither changes in what matters.
Routes ==
    \A w \in Writers :
        /\ writer[w].at \in Replacing \cup InPlace => kind # "other"
        /\ writer[w].at = "through" => kind = "other"
        /\ writer[w].at \in InPlace => ~open

\* What a path that is replaced holds.
Contents ==
    open /\ kind # "other" =>
        /\ path.whole
        /\ \A w \in Writers : writer[w].at = "ok" => path.by # Old

\* The invariant of the output file.
OutputInv == FilesOK /\ Owns /\ Siblings /\ Routes /\ Contents

\* The link's own writer follows its driver.
DriverInv ==
    /\ exit # -1 => step = "exited"
    /\ step \in {"select", "checks", "emit"} => writer[Linker].at = "idle"
    /\ step \in {"sign", "map"} => writer[Linker].at = "ok"
    /\ exit = 0 => writer[Linker].at = "ok"
    /\ writer[Linker].at = "idle" => path.by # Linker

\* The inductive invariant of the output file under its driver.
IndInv == OutputInv /\ DriverInv

(***************************************************************************)
(* OutputInv, one effect on the files at a time.                           *)
(***************************************************************************)
\* A writer moves from step to step and touches no file: every call that
\* fails, the decisions, and the kill.
LEMMA MoveKeeps ==
    ASSUME OutputInv, NEW w \in Writers, NEW a \in Steps,
           To(w, a), Unwritten,
           writer[w].at \notin Ended,
           a \in Holding => writer[w].at \in Holding,
           a # "rename",
           writer[w].at \in Holding => a \in Holding \cup {"error", "killed"},
           a \in Replacing \cup InPlace => kind # "other",
           a = "through" => kind = "other",
           a \in InPlace => ~open,
           a = "ok" => ~open \/ kind = "other"
    PROVE  OutputInv'
<1>1. /\ writer' \in [Writers -> [at : Steps, n : Nat]]
      /\ writer'[w].at = a
      /\ \A v \in Writers : writer'[v].n = writer[v].n
      /\ \A v \in Writers \ {w} : writer'[v].at = writer[v].at
  BY DEF OutputInv, FilesOK, To
<1>2. \A v \in Writers : Name(v)' = Name(v)
  BY <1>1 DEF Name
<1>3. FilesOK'
  BY <1>1 DEF OutputInv, FilesOK, Unwritten
<1>4. Owns'
  BY <1>1, <1>2 DEF OutputInv, Owns, Unwritten
<1>5. Siblings'
  BY <1>1 DEF OutputInv, FilesOK, Siblings, Unwritten, Ended
<1>6. Routes'
  BY <1>1 DEF OutputInv, Routes, Unwritten
<1>7. Contents'
  BY <1>1 DEF OutputInv, Contents, Unwritten
<1>8. QED
  BY <1>3, <1>4, <1>5, <1>6, <1>7 DEF OutputInv

\* create_sibling: a new name, which nobody else's file has, or the next one.
LEMMA CreateKeeps ==
    ASSUME OutputInv, NEW w \in Writers, CreateSibling(w)
    PROVE  OutputInv'
<1>0. /\ writer[w].at = "create" /\ writer[w].n \in Nat
      /\ kind # "other"
      /\ \A x \in DOMAIN dir : dir[x].by # w
  BY OldAssumption
     DEF OutputInv, FilesOK, Routes, Siblings, Replacing, Holding, CreateSibling
<1>1. CASE /\ ~Taken(Name(w)) /\ open
           /\ dir' = [x \in DOMAIN dir \cup {Name(w)} |->
                        IF x = Name(w) THEN Bytes(w, FALSE) ELSE dir[x]]
           /\ To(w, "write")
           /\ UNCHANGED <<kind, open, path>>
  <2>1. /\ writer' \in [Writers -> [at : Steps, n : Nat]]
        /\ writer'[w].at = "write"
        /\ \A v \in Writers : writer'[v].n = writer[v].n
        /\ \A v \in Writers \ {w} : writer'[v].at = writer[v].at
    BY <1>1 DEF OutputInv, FilesOK, To, Steps
  <2>2. \A v \in Writers : Name(v)' = Name(v)
    BY <2>1 DEF Name
  <2>3. /\ DOMAIN dir' = DOMAIN dir \cup {Name(w)}
        /\ dir'[Name(w)] = [by |-> w, whole |-> FALSE]
        /\ \A x \in DOMAIN dir : x # Name(w) /\ dir'[x] = dir[x]
    BY <1>1 DEF Bytes, Taken
  <2>4. FilesOK'
    <3>1. dir'[Name(w)] \in [by : Writers \cup {Old}, whole : BOOLEAN]
      BY <2>3
    <3>2. \A x \in DOMAIN dir' : dir'[x] \in [by : Writers \cup {Old}, whole : BOOLEAN]
      BY <2>3, <3>1 DEF OutputInv, FilesOK
    <3>3. QED
      BY <1>1, <2>1, <3>2 DEF OutputInv, FilesOK
  <2>5. Owns'
    <3> SUFFICES ASSUME NEW v \in Writers
                 PROVE  /\ writer'[v].at \in Holding =>
                              Name(v) \in DOMAIN dir' /\ dir'[Name(v)].by = v
                        /\ writer'[v].at = "rename" => dir'[Name(v)].whole
                        /\ writer'[v].at \in Holding =>
                              \A x \in DOMAIN dir' : dir'[x].by = v => x = Name(v)
      BY <2>2 DEF Owns
    <3>1. CASE v = w
      BY <1>0, <2>1, <2>3, <3>1
    <3>2. CASE v # w
      BY <2>1, <2>3, <3>2 DEF OutputInv, Owns, Holding
    <3>3. QED
      BY <3>1, <3>2
  <2>6. Siblings'
    BY <1>0, <2>1, <2>3 DEF OutputInv, FilesOK, Siblings, Holding
  <2>7. Routes'
    BY <1>0, <1>1, <2>1 DEF OutputInv, Routes, Replacing, Holding, InPlace
  <2>8. Contents'
    BY <1>1, <2>1 DEF OutputInv, Contents
  <2>9. QED
    BY <2>4, <2>5, <2>6, <2>7, <2>8 DEF OutputInv
<1>2. CASE /\ writer' = [writer EXCEPT ![w].n = @ + 1]
           /\ Unwritten
  <2>1. /\ writer' \in [Writers -> [at : Steps, n : Nat]]
        /\ \A v \in Writers : writer'[v].at = writer[v].at
        /\ \A v \in Writers \ {w} : writer'[v].n = writer[v].n
    BY <1>2 DEF OutputInv, FilesOK
  <2>2. \A v \in Writers \ {w} : Name(v)' = Name(v)
    BY <2>1 DEF Name
  <2>3. FilesOK'
    BY <1>2, <2>1 DEF OutputInv, FilesOK, Unwritten
  <2>4. Owns'
    BY <1>0, <1>2, <2>1, <2>2 DEF OutputInv, Owns, Unwritten, Holding
  <2>5. Siblings' /\ Routes' /\ Contents'
    BY <1>2, <2>1 DEF OutputInv, FilesOK, Siblings, Routes, Contents, Unwritten
  <2>6. QED
    BY <2>3, <2>4, <2>5 DEF OutputInv
<1>3. CASE To(w, "error") /\ Unwritten
  BY <1>0, <1>3, MoveKeeps DEF Steps, Ended, Holding, Replacing, InPlace
<1>4. CASE ~open /\ To(w, "truncate") /\ Unwritten
  BY <1>0, <1>4, MoveKeeps DEF Steps, Ended, Holding, Replacing, InPlace
<1>5. QED
  BY <1>1, <1>2, <1>3, <1>4 DEF CreateSibling, Unwritten

\* The sibling is filled.
LEMMA WriteKeeps ==
    ASSUME OutputInv, NEW w \in Writers, Write(w)
    PROVE  OutputInv'
<1>0. writer[w].at = "write" /\ kind # "other"
  BY DEF OutputInv, Routes, Replacing, Holding, Write
<1>1. CASE /\ dir' = [dir EXCEPT ![Name(w)].whole = TRUE]
           /\ To(w, "rename") /\ UNCHANGED <<kind, open, path>>
  <2>1. /\ writer' \in [Writers -> [at : Steps, n : Nat]]
        /\ writer'[w].at = "rename"
        /\ \A v \in Writers : writer'[v].n = writer[v].n
        /\ \A v \in Writers \ {w} : writer'[v].at = writer[v].at
    BY <1>1 DEF OutputInv, FilesOK, To, Steps
  <2>2. \A v \in Writers : Name(v)' = Name(v)
    BY <2>1 DEF Name
  <2>3. Name(w) \in DOMAIN dir /\ dir[Name(w)].by = w
    BY <1>0 DEF OutputInv, Owns, Holding
  <2>4. /\ DOMAIN dir' = DOMAIN dir
        /\ dir'[Name(w)] = [dir[Name(w)] EXCEPT !.whole = TRUE]
        /\ \A x \in DOMAIN dir : x # Name(w) => dir'[x] = dir[x]
    BY <1>1, <2>3
  <2>5. /\ dir'[Name(w)] \in [by : Writers \cup {Old}, whole : BOOLEAN]
        /\ dir'[Name(w)].by = w /\ dir'[Name(w)].whole
    BY <2>3, <2>4 DEF OutputInv, FilesOK
  <2>6. FilesOK'
    BY <1>1, <2>1, <2>4, <2>5 DEF OutputInv, FilesOK
  <2>7. \A x \in DOMAIN dir : dir'[x].by = dir[x].by
    BY <2>3, <2>4, <2>5
  <2>8. Owns'
    <3> SUFFICES ASSUME NEW v \in Writers
                 PROVE  /\ writer'[v].at \in Holding =>
                              Name(v) \in DOMAIN dir' /\ dir'[Name(v)].by = v
                        /\ writer'[v].at = "rename" => dir'[Name(v)].whole
                        /\ writer'[v].at \in Holding =>
                              \A x \in DOMAIN dir' : dir'[x].by = v => x = Name(v)
      BY <2>2 DEF Owns
    <3>1. CASE v = w
      BY <1>0, <2>3, <2>4, <2>5, <2>7, <3>1 DEF OutputInv, Owns, Holding
    <3>2. CASE v # w
      BY <2>1, <2>3, <2>4, <2>7, <3>2 DEF OutputInv, Owns, Holding
    <3>3. QED
      BY <3>1, <3>2
  <2>9. Siblings'
    <3> SUFFICES ASSUME NEW x \in DOMAIN dir', dir'[x].by # Old
                 PROVE  writer'[dir'[x].by].at \in Holding \cup {"error", "killed"}
      BY DEF Siblings
    <3>1. x \in DOMAIN dir /\ dir'[x].by = dir[x].by /\ dir[x].by \in Writers
      BY <2>4, <2>7 DEF OutputInv, FilesOK
    <3>2. QED
      BY <2>1, <3>1 DEF OutputInv, Siblings, Holding
  <2>10. Routes' /\ Contents'
    BY <1>0, <1>1, <2>1 DEF OutputInv, Routes, Contents, Replacing, Holding, InPlace
  <2>11. QED
    BY <2>6, <2>8, <2>9, <2>10 DEF OutputInv
<1>2. CASE To(w, "remove") /\ Unwritten
  BY <1>0, <1>2, MoveKeeps DEF Steps, Ended, Holding, Replacing, InPlace
<1>3. QED
  BY <1>1, <1>2 DEF Write, Unwritten

\* A writer's sibling leaves the directory, renamed or removed, and the
\* writer ends.
LEMMA LeaveKeeps ==
    ASSUME OutputInv, NEW w \in Writers, NEW a \in {"ok", "error"},
           writer[w].at \in Holding, To(w, a), dir' = Without(Name(w)),
           UNCHANGED open
    PROVE  /\ writer' \in [Writers -> [at : Steps, n : Nat]]
           /\ writer'[w].at = a
           /\ \A v \in Writers \ {w} : writer'[v] = writer[v]
           /\ \A x \in DOMAIN dir' : dir'[x] \in [by : Writers \cup {Old}, whole : BOOLEAN]
           /\ Owns' /\ Siblings'
<1>1. /\ writer' \in [Writers -> [at : Steps, n : Nat]]
      /\ writer'[w].at = a
      /\ \A v \in Writers \ {w} : writer'[v] = writer[v]
  BY DEF OutputInv, FilesOK, To, Steps, Ended
<1>2. /\ \A v \in Writers \ {w} : Name(v)' = Name(v)
      /\ Name(w) \in DOMAIN dir /\ dir[Name(w)].by = w
  BY <1>1 DEF OutputInv, Owns, Name
<1>3. /\ DOMAIN dir' = DOMAIN dir \ {Name(w)}
      /\ \A x \in DOMAIN dir' : dir'[x] = dir[x]
  BY DEF Without
<1>4. \A x \in DOMAIN dir' : dir'[x] \in [by : Writers \cup {Old}, whole : BOOLEAN]
  BY <1>3 DEF OutputInv, FilesOK
<1>5. Owns'
  BY <1>1, <1>2, <1>3 DEF OutputInv, Owns, Holding
<1>6. Siblings'
  <2> SUFFICES ASSUME NEW x \in DOMAIN dir', dir'[x].by # Old
               PROVE  writer'[dir'[x].by].at \in Holding \cup {"error", "killed"}
    BY DEF Siblings
  <2>1. x \in DOMAIN dir /\ x # Name(w) /\ dir'[x] = dir[x] /\ dir[x].by \in Writers
    BY <1>3, <1>4
  <2>2. dir[x].by # w
    BY <2>1 DEF OutputInv, Owns
  <2>3. QED
    BY <1>1, <2>1, <2>2 DEF OutputInv, Siblings
<1>7. QED
  BY <1>1, <1>4, <1>5, <1>6

\* The rename puts the whole sibling at the path.
LEMMA RenameKeeps ==
    ASSUME OutputInv, NEW w \in Writers, Rename(w)
    PROVE  OutputInv'
<1>0. /\ writer[w].at = "rename" /\ kind # "other"
      /\ Name(w) \in DOMAIN dir /\ dir[Name(w)].by = w /\ dir[Name(w)].whole
  BY DEF OutputInv, Owns, Routes, Replacing, Holding, Rename
<1>1. CASE /\ path' = dir[Name(w)] /\ kind' = "regular"
           /\ dir' = Without(Name(w)) /\ To(w, "ok") /\ UNCHANGED open
  <2>1. /\ writer' \in [Writers -> [at : Steps, n : Nat]]
        /\ writer'[w].at = "ok"
        /\ \A v \in Writers \ {w} : writer'[v] = writer[v]
        /\ \A x \in DOMAIN dir' : dir'[x] \in [by : Writers \cup {Old}, whole : BOOLEAN]
        /\ Owns' /\ Siblings'
    BY <1>0, <1>1, LeaveKeeps DEF Holding
  <2>2. /\ path' \in [by : Writers \cup {Old}, whole : BOOLEAN]
        /\ path'.by = w /\ path'.whole
    BY <1>0, <1>1 DEF OutputInv, FilesOK
  <2>3. FilesOK'
    BY <2>1, <2>2 DEF FilesOK
  <2>4. Routes'
    <3>1. \A v \in Writers \ {w} : writer[v].at # "through"
      BY <1>0 DEF OutputInv, Routes
    <3>2. QED
      BY <1>1, <2>1, <3>1 DEF OutputInv, Routes, Replacing, Holding, InPlace
  <2>5. Contents'
    BY <2>2, OldAssumption DEF Contents
  <2>6. QED
    BY <2>1, <2>3, <2>4, <2>5 DEF OutputInv
<1>2. CASE To(w, "remove") /\ Unwritten
  BY <1>0, <1>2, MoveKeeps DEF Steps, Ended, Holding, Replacing, InPlace
<1>3. QED
  BY <1>1, <1>2 DEF Rename, Unwritten

\* The sibling of a write that failed is removed, or stays.
LEMMA RemoveKeeps ==
    ASSUME OutputInv, NEW w \in Writers, RemoveSibling(w)
    PROVE  OutputInv'
<1>0. writer[w].at = "remove" /\ To(w, "error") /\ UNCHANGED <<kind, open, path>>
  BY DEF RemoveSibling
<1>1. CASE dir' = Without(Name(w))
  <2>1. /\ writer' \in [Writers -> [at : Steps, n : Nat]]
        /\ writer'[w].at = "error"
        /\ \A v \in Writers \ {w} : writer'[v] = writer[v]
        /\ \A x \in DOMAIN dir' : dir'[x] \in [by : Writers \cup {Old}, whole : BOOLEAN]
        /\ Owns' /\ Siblings'
    BY <1>0, <1>1, LeaveKeeps DEF Holding
  <2>2. FilesOK'
    BY <1>0, <2>1 DEF OutputInv, FilesOK
  <2>3. Routes' /\ Contents'
    BY <1>0, <2>1 DEF OutputInv, Routes, Contents, Replacing, Holding, InPlace
  <2>4. QED
    BY <2>1, <2>2, <2>3 DEF OutputInv
<1>2. CASE dir' = dir
  <2>1. Unwritten
    BY <1>0, <1>2 DEF Unwritten
  <2>2. QED
    BY <1>0, <2>1, MoveKeeps DEF Steps, Ended, Holding, Replacing, InPlace
<1>3. QED
  BY <1>1, <1>2 DEF RemoveSibling

\* write_in_place changes the path, in a directory that takes no entries.
LEMMA InPlaceKeeps ==
    ASSUME OutputInv, NEW w \in Writers, Truncate(w) \/ Fill(w)
    PROVE  OutputInv'
<1>0. writer[w].at \in {"truncate", "fill"} /\ kind # "other" /\ ~open
  BY DEF OutputInv, Routes, InPlace, Truncate, Fill
<1>1. ASSUME NEW a \in {"fill", "mode"}, NEW b \in BOOLEAN, To(w, a),
             path' = Bytes(w, b), UNCHANGED <<kind, open, dir>>
      PROVE  OutputInv'
  <2>1. /\ writer' \in [Writers -> [at : Steps, n : Nat]]
        /\ writer'[w].at = a
        /\ \A v \in Writers : writer'[v].n = writer[v].n
        /\ \A v \in Writers \ {w} : writer'[v].at = writer[v].at
    BY <1>1 DEF OutputInv, FilesOK, To, Steps
  <2>2. \A v \in Writers : Name(v)' = Name(v)
    BY <2>1 DEF Name
  <2>3. path' \in [by : Writers \cup {Old}, whole : BOOLEAN]
    BY <1>1 DEF Bytes
  <2>4. FilesOK'
    BY <1>1, <2>1, <2>3 DEF OutputInv, FilesOK
  <2>5. Owns'
    BY <1>0, <1>1, <2>1, <2>2 DEF OutputInv, Owns, Holding
  <2>6. Siblings'
    BY <1>0, <1>1, <2>1 DEF OutputInv, FilesOK, Siblings, Holding
  <2>7. Routes' /\ Contents'
    BY <1>0, <1>1, <2>1 DEF OutputInv, Routes, Contents, Replacing, Holding, InPlace
  <2>8. QED
    BY <2>4, <2>5, <2>6, <2>7 DEF OutputInv
<1>2. CASE To(w, "error") /\ Unwritten
  BY <1>0, <1>2, MoveKeeps DEF Steps, Ended, Holding, Replacing, InPlace
<1>3. CASE Truncate(w)
  BY <1>1, <1>2, <1>3 DEF Truncate, Unwritten
<1>4. CASE Fill(w)
  <2>1. (path.by = w) \in BOOLEAN
    OBVIOUS
  <2>2. QED
    BY <1>1, <1>2, <1>4, <2>1 DEF Fill, Unwritten
<1>5. QED
  BY <1>3, <1>4

\* Every step of a writer, its call and its kill keep OutputInv.
LEMMA WriterKeeps ==
    ASSUME OutputInv, NEW w \in Writers,
           WriterStep(w) \/ CallWriter(w) \/ Kill(w)
    PROVE  OutputInv'
<1> USE DEF Steps, Ended, Holding, Replacing, InPlace
<1>0. writer[w].at \in Steps
  BY DEF OutputInv, FilesOK
<1>1. CASE Stat(w)
  <2>1. CASE kind = "other"
    BY <1>1, <2>1, MoveKeeps DEF Stat
  <2>2. CASE kind # "other"
    BY <1>1, <2>2, MoveKeeps DEF Stat
  <2>3. QED
    BY <2>1, <2>2
<1>2. CASE Through(w)
  <2>1. kind = "other" /\ writer[w].at = "through"
    BY <1>2 DEF Through, OutputInv, Routes
  <2>2. QED
    BY <1>2, <2>1, MoveKeeps DEF Through
<1>3. CASE Mode(w)
  <2>1. ~open /\ writer[w].at = "mode"
    BY <1>3 DEF Mode, OutputInv, Routes
  <2>2. QED
    BY <1>3, <2>1, MoveKeeps DEF Mode
<1>4. CASE CallWriter(w)
  BY <1>4, MoveKeeps DEF CallWriter
<1>5. CASE Kill(w)
  BY <1>0, <1>5, MoveKeeps DEF Kill
<1>6. QED
  BY <1>1, <1>2, <1>3, <1>4, <1>5, CreateKeeps, WriteKeeps, RenameKeeps,
     RemoveKeeps, InPlaceKeeps DEF WriterStep

\* A writer's step touches no other writer; one that ended stays so, none
\* goes back to idle, and the path only changes by bytes of a writer at work.
LEMMA WriterEffect ==
    ASSUME OutputInv, NEW w \in Writers,
           WriterStep(w) \/ CallWriter(w) \/ Kill(w)
    PROVE  /\ \A v \in Writers \ {w} : writer'[v] = writer[v]
           /\ writer[w].at \notin Ended /\ writer'[w].at # "idle"
           /\ writer[w].at = "idle" => CallWriter(w)
           /\ path' # path => path'.by = w
<1> USE DEF Ended
<1>1. \A a : To(w, a) => /\ \A v \in Writers \ {w} : writer'[v] = writer[v]
                         /\ writer'[w].at = a
  BY DEF OutputInv, FilesOK, To
<1>2. CASE Stat(w) \/ Through(w) \/ Mode(w) \/ CallWriter(w) \/ Kill(w)
  BY <1>1, <1>2 DEF Stat, Through, Mode, CallWriter, Kill, Unwritten
<1>3. CASE CreateSibling(w)
  <2>1. CASE writer' = [writer EXCEPT ![w].n = @ + 1]
    BY <1>3, <2>1 DEF CreateSibling, OutputInv, FilesOK
  <2>2. CASE To(w, "write") \/ To(w, "error") \/ To(w, "truncate")
    <3>1. writer[w].at = "create" /\ path' = path
      BY <1>3 DEF CreateSibling
    <3>2. QED
      BY <1>1, <2>2, <3>1
  <2>3. QED
    BY <1>3, <2>1, <2>2 DEF CreateSibling
<1>4. CASE Write(w) \/ RemoveSibling(w)
  BY <1>1, <1>4 DEF Write, RemoveSibling
<1>5. CASE Rename(w)
  <2>1. dir[Name(w)].by = w
    BY <1>5 DEF Rename, OutputInv, Owns, Holding
  <2>2. QED
    BY <1>1, <1>5, <2>1 DEF Rename
<1>6. CASE Truncate(w) \/ Fill(w)
  BY <1>1, <1>6 DEF Truncate, Fill, Bytes
<1>7. QED
  BY <1>2, <1>3, <1>4, <1>5, <1>6 DEF WriterStep

(***************************************************************************)
(* The link.                                                               *)
(***************************************************************************)
\* A link starts before any writer was called.
LEMMA InitInv == Init => IndInv
<1> SUFFICES ASSUME Init PROVE IndInv
  OBVIOUS
<1>1. PICK s \in Starts : InitOutput(s[2])
  BY DEF Init
<1>2. s[2] \in Files
  BY LinkerAssumption
<1>3. /\ writer = [w \in Writers |-> [at |-> "idle", n |-> 0]]
      /\ path = [by |-> Old, whole |-> TRUE]
      /\ dir = s[2].dir
  BY <1>1 DEF InitOutput, Bytes
<1>4. \A x \in DOMAIN dir : dir[x] = [by |-> Old, whole |-> FALSE]
  <2>1. dir \in {NoFiles} \cup {[x \in {<<p, 0>>} |-> Bytes(Old, FALSE)] :
                                   p \in {Pid[w] : w \in Writers}}
    BY <1>2, <1>3 DEF Files
  <2>2. QED
    BY <2>1 DEF NoFiles, Bytes
<1>5. FilesOK
  <2>1. writer \in [Writers -> [at : Steps, n : Nat]]
    BY <1>3 DEF Steps
  <2>2. path \in [by : Writers \cup {Old}, whole : BOOLEAN]
    BY <1>3
  <2>3. \A x \in DOMAIN dir : dir[x] \in [by : Writers \cup {Old}, whole : BOOLEAN]
    <3>1. [by |-> Old, whole |-> FALSE] \in [by : Writers \cup {Old}, whole : BOOLEAN]
      OBVIOUS
    <3>2. QED
      BY <1>4, <3>1, Zenon
  <2>4. QED
    BY <2>1, <2>2, <2>3 DEF FilesOK
<1>6. Owns /\ Siblings /\ Routes /\ Contents
  BY <1>3, <1>4 DEF Owns, Siblings, Routes, Contents, Holding, Replacing, InPlace
<1>7. DriverInv
  BY <1>3, OldAssumption, LinkerAssumption DEF Init, DriverInv
<1>8. QED
  BY <1>5, <1>6, <1>7 DEF IndInv, OutputInv

\* Steps of the driver alone: the files stay.
LEMMA DriverKeeps ==
    ASSUME IndInv, UNCHANGED outputVars,
           Selecting \/ EndSelect \/ Checks \/ Emit \/ Written \/ Sign \/ Map
    PROVE  IndInv'
<1>1. OutputInv'
  BY DEF IndInv, OutputInv, outputVars, FilesOK, Owns, Siblings, Routes, Contents, Name
<1>2. writer' = writer /\ path' = path
  BY DEF outputVars
<1>3. DriverInv'
  <2>1. CASE Selecting
    BY <1>2, <2>1 DEF Selecting, driverVars, IndInv, DriverInv
  <2>2. CASE EndSelect \/ Checks
    BY <1>2, <2>2 DEF EndSelect, Checks, Exit, IndInv, DriverInv
  <2>3. CASE Emit
    BY <1>2, <2>3, LinkerAssumption
       DEF Emit, Exit, CallWriter, To, IndInv, DriverInv, OutputInv, FilesOK
  <2>4. CASE Written \/ Sign \/ Map
    BY <1>2, <2>4 DEF Written, Sign, Map, Exit, IndInv, DriverInv
  <2>5. QED
    BY <2>1, <2>2, <2>3, <2>4
<1>4. QED
  BY <1>1, <1>3 DEF IndInv

\* Steps of a writer, the link's own or another's.
LEMMA OutputKeeps ==
    ASSUME IndInv, NEW w \in Writers,
           \/ Output(w) \/ Other(w) \/ Killed(w)
           \/ w = Linker /\ Emit /\ CallWriter(Linker)
    PROVE  IndInv'
<1>1. WriterStep(w) \/ CallWriter(w) \/ Kill(w)
  BY DEF Output, Other, Killed
<1>2. OutputInv'
  BY <1>1, WriterKeeps DEF IndInv
<1>3. /\ \A v \in Writers \ {w} : writer'[v] = writer[v]
      /\ writer[w].at \notin Ended /\ writer'[w].at # "idle"
      /\ writer[w].at = "idle" => CallWriter(w)
      /\ path' # path => path'.by = w
  BY <1>1, WriterEffect DEF IndInv
<1>4. DriverInv'
  <2>1. CASE w # Linker
    <3>1. writer'[Linker] = writer[Linker] /\ UNCHANGED <<step, exit>>
      BY <1>3, <2>1, LinkerAssumption DEF Output, Other, Killed, driverVars
    <3>2. QED
      BY <1>3, <2>1, <3>1 DEF IndInv, DriverInv
  <2>2. CASE w = Linker /\ Output(w)
    <3>1. writer[w].at # "idle"
      BY <2>2 DEF Output, WriterStep, Stat, Through, CreateSibling, Write, Rename,
                  RemoveSibling, Truncate, Fill, Mode
    <3>2. QED
      BY <1>3, <2>2, <3>1 DEF Output, driverVars, IndInv, DriverInv, Ended
  <2>3. CASE w = Linker /\ Killed(w)
    BY <1>3, <2>3 DEF Killed, IndInv, DriverInv, Ended
  <2>4. CASE w = Linker /\ Emit /\ CallWriter(Linker)
    BY <1>3, <2>4 DEF Emit, Exit, IndInv, DriverInv, Ended
  <2>5. QED
    BY <2>1, <2>2, <2>3, <2>4 DEF Other
<1>5. QED
  BY <1>2, <1>4 DEF IndInv

\* Every step of the link and of its surroundings keeps IndInv.
LEMMA NextInv == IndInv /\ [Next]_vars => IndInv'
<1> SUFFICES ASSUME IndInv, [Next]_vars PROVE IndInv'
  OBVIOUS
<1>1. CASE UNCHANGED vars
  BY <1>1 DEF vars, outputVars, driverVars, IndInv, OutputInv, DriverInv,
              FilesOK, Owns, Siblings, Routes, Contents, Name
<1>2. CASE Selecting \/ EndSelect \/ Checks \/ Written \/ Sign \/ Map
  <2>1. UNCHANGED outputVars
    BY <1>2 DEF Selecting, EndSelect, Checks, Written, Sign, Map
  <2>2. QED
    BY <1>2, <2>1, DriverKeeps
<1>3. CASE Emit
  BY <1>3, DriverKeeps, OutputKeeps, LinkerAssumption DEF Emit
<1>4. CASE \E w \in Writers : Output(w) \/ Other(w) \/ Killed(w)
  BY <1>4, OutputKeeps
<1>5. QED
  BY <1>1, <1>2, <1>3, <1>4, LinkerAssumption DEF Next, LinkStep

\* IndInv is an invariant of every link.
THEOREM Inductive == Spec => []IndInv
<1>1. QED
  BY InitInv, NextInv, PTL DEF Spec

\* The path is replaced whole or not at all, exit status 0 means that the
\* link's image was put there, and a link that ended before its write left
\* the path to others, for any number of writers of write_output_file.
THEOREM ReplacedWhole == Spec => []OutputReplaced
<1>1. IndInv => OutputReplaced
  <2> SUFFICES ASSUME IndInv PROVE OutputReplaced
    OBVIOUS
  <2>1. OutputWhole
    BY DEF OutputWhole, IndInv, OutputInv, Owns, Siblings, Contents, Holding
  <2>2. QED
    BY <2>1 DEF OutputReplaced, IndInv, DriverInv
<1>2. QED
  BY <1>1, Inductive, PTL

(***************************************************************************)
(* The selection.                                                          *)
(***************************************************************************)
Sources == STRING \cup {CmdLineEntry}

\* A line of the link map: the member, the symbol, who asked for it.
Inclusions == [member : Nat \X Nat, symbol : Symbols, by : Sources]

\* The Selection, the walk and the job, field by field.
Selections ==
    [defined : SUBSET Symbols, shared : SUBSET Symbols,
     alternates : Maps(Symbols, Symbols), undefined : Maps(Symbols, Sources),
     inclusions : Seq(Inclusions)]

Walks == [at : Nat \ {0}, obj : Nat \ {0}, depth : Nat, group : SUBSET Nat]

Jobs ==
    [stage : Stages, span : SUBSET Nat, after : Nat \X Nat, progress : BOOLEAN,
     ret : {"walk", "default", "assemble"}, todo : SUBSET (Symbols \cup STRING)]

\* Every variable of the selection has its type.
Typed ==
    /\ link \in Links
    /\ slots \in Seq(Slots)
    /\ sel \in Selections
    /\ linked \in Seq(Nat \X Nat)
    /\ walk \in Walks
    /\ job \in Jobs
    /\ poolSlot \in 0 .. Len(slots)

\* A slot with objects, a member of one, and a pull under way.
HasObjects(k) == k \in DOMAIN slots /\ slots[k].kind \in {"fixed", "lazy"}
IsMember(m) == HasObjects(m[1]) /\ m[2] \in DOMAIN slots[m[1]].objs
Pulling == job.stage \in {"pull", "alternates"}

\* What every slot of an ELF link has.
Plain(s) ==
    \A k \in DOMAIN s : s[k].kind \in {"fixed", "lazy"} => NoAlternates(s[k].objs)

\* The inputs of the link and those added.
SlotsOK ==
    /\ Len(link.slots) <= Len(slots)
    /\ Paired(slots)
    /\ link.inOrder => Plain(slots)

\* The place of the walk in them.
WalkOK ==
    /\ walk.at <= Len(slots) + 1
    /\ walk.depth + Bounds(slots, walk.at - 1, FALSE) = Bounds(slots, walk.at - 1, TRUE)
    /\ \A k \in walk.group : k \in AllLazy(slots) /\ k < walk.at
    /\ walk.depth = 0 => walk.group = {}

\* What the job has to do at its stage.
JobOK ==
    /\ Pulling => job.span \subseteq AllLazy(slots)
    /\ At("alternates") => job.todo \subseteq Stalled
    /\ At("libraries") => job.todo \subseteq DOMAIN link.libs
    /\ At("rebind") => linked = <<>> /\ walk.at = 1
    /\ link.inOrder => job.stage \notin {"default", "libraries"}
    /\ link.inOrder /\ Pulling => job.ret # "default"

\* The slots, the walk and the job agree with each other.
Placed == SlotsOK /\ WalkOK /\ JobOK

\* An object is accounted for once.
Once ==
    /\ \A i \in DOMAIN linked : IsMember(linked[i])
    /\ \A i, j \in DOMAIN linked : linked[i] = linked[j] => i = j
    /\ \A i \in DOMAIN linked : slots[linked[i][1]].kind = "fixed" =>
          Before(linked[i], <<walk.at, walk.obj>>)

\* The objects of the link, and who asks for n among the objects others.
LinkedObjs == {Obj(linked[h]) : h \in DOMAIN linked}

Asked(entry, n, by, others) ==
    \/ by = CmdLineEntry /\ n \in StandFor({entry}, others)
    \/ \E o \in others : o.src = by /\ n \in StandFor(o.refs, others)

\* The Selection is the sum of the objects accounted for, and every name
\* still undefined was asked for by the one it names.
Accounted ==
    /\ sel.defined = UNION {Defs(o) : o \in LinkedObjs}
    /\ sel.defined \cap Undefined = {}
    /\ \A n \in DOMAIN sel.alternates :
          \E o \in LinkedObjs : n \in DOMAIN o.alts /\ o.alts[n] = sel.alternates[n]
    /\ \A n \in Undefined : Asked(link.entry, n, sel.undefined[n], LinkedObjs)

\* The link map has a true line for every member pulled, in order.
Recorded ==
    /\ Len(sel.inclusions) = Cardinality(Pulled)
    /\ \A i \in Pulled : AskedFor(i, sel.inclusions[Rank(i)])

\* The objects of s, and those of archive k not in the link l.
ObjIn(s, m) == s[m[1]].objs[m[2]]
LeftIn(s, l, k) ==
    {m \in {<<k, j>> : j \in DOMAIN s[k].objs} : \A i \in DOMAIN l : l[i] # m}

\* No object left out of the archives K defines n; none is asked for by U.
Nowhere(s, l, n, K) == \A k \in K : \A m \in LeftIn(s, l, k) : n \notin ObjIn(s, m).strong
Quiet(s, l, U, K) ==
    \A k \in K : \A m \in LeftIn(s, l, k) : \A n \in U : n \notin ObjIn(s, m).strong

\* The line has a group; its archives; the names that were dealt with.
HasGroup == \E k \in DOMAIN slots : slots[k].kind = "group"
LineLazy == {k \in DOMAIN link.slots : IsLazy(k)}
Answers == sel.defined \cup sel.shared \cup Undefined

\* Every reference is answered, asked for or has taken its alternate.
Met ==
    /\ \A i \in DOMAIN linked : \A n \in ObjIn(slots, linked[i]).refs :
          \/ n \in Answers
          \/ n \in DOMAIN sel.alternates /\ (HasGroup \/ Nowhere(slots, linked, n, LineLazy))
    /\ link.inOrder /\ link.entry # "" => link.entry \in Answers
    /\ job.stage = "alternates" => \A n \in job.todo : Nowhere(slots, linked, n, job.span)
    /\ Pulling /\ ~link.inOrder /\ ~HasGroup => LineLazy \subseteq job.span

\* What a sweep that took nothing shows.
Swept ==
    /\ job.stage = "alternates" /\ ~job.progress => Quiet(slots, linked, Undefined, job.span)
    /\ job.stage = "pull" /\ ~job.progress => job.after = Start
    /\ ~link.inOrder /\ Pulling /\ job.ret # "walk" => job.span = AllLazy(slots)
    /\ ~link.inOrder /\ (\/ job.stage \in {"default", "pool", "assemble", "selected"}
                         \/ job.stage = "libraries" /\ ~job.progress) =>
          Quiet(slots, linked, Undefined, AllLazy(slots))

\* The archives the walk has passed and not done with.
Ahead == walk.group \cup (IF Pulling THEN job.span ELSE {})

\* No object up to slot i refers to n; archive k answered all of those.
Unasked(s, l, entry, n, i) ==
    /\ n # entry
    /\ \A h \in DOMAIN l : l[h][1] <= i => n \notin ObjIn(s, l[h]).refs
AnsweredTo(s, l, U, entry, k, i) ==
    \A m \in LeftIn(s, l, k) : \A n \in U :
        n \in ObjIn(s, m).strong => Unasked(s, l, entry, n, i)
Answered(s, l, U, entry, at, A, k) ==
    \E i \in k .. at - 1 :
        Level(s, i) /\ (\A a \in A : i < a) /\ AnsweredTo(s, l, U, entry, k, i)

\* An archive of an ELF link that the walk is done with has answered all
\* that was asked for up to a place outside every group.
Turned ==
    \A k \in AllLazy(slots) : k < walk.at /\ k \notin Ahead =>
        Answered(slots, linked, Undefined, link.entry, walk.at, Ahead, k)

\* Where a pull finds the walk, and what follows it.
PullPlace ==
    Pulling =>
        /\ walk.group = {}
        /\ job.ret = "walk" => Level(slots, walk.at - 1) /\ \A k \in job.span : k < walk.at
        /\ job.ret = "assemble" =>
              /\ \A k \in job.span : k >= walk.at
              /\ \A k \in AllLazy(slots) : k < walk.at \/ k \in job.span

\* After the walk an archive was passed, or is asked for nothing.
PoolPlace ==
    /\ job.stage \in {"pool", "assemble", "selected"} =>
          /\ walk.group = {}
          /\ \A k \in AllLazy(slots) :
                k < walk.at \/ Quiet(slots, linked, Undefined, {k})
    /\ job.stage = "pool" => Len(slots) < walk.at

\* An ELF link is pulled in turn.
InTurn ==
    link.inOrder /\ job.stage # "failed" => Turned /\ PullPlace /\ PoolPlace

\* A partial function from D to R.
LEMMA MapsIs ==
    ASSUME NEW D, NEW R, NEW f \in Maps(D, R)
    PROVE  /\ DOMAIN f \subseteq D
           /\ f \in [DOMAIN f -> R]
           /\ \A x \in DOMAIN f : f[x] \in R
<1>1. PICK A \in SUBSET D : f \in [A -> R]
  BY DEF Maps
<1> QED
  BY <1>1

\* A function on a subset of D into R is one.
LEMMA MapsHas ==
    ASSUME NEW D, NEW R, NEW A \in SUBSET D, NEW f \in [A -> R]
    PROVE  f \in Maps(D, R)
  BY DEF Maps

\* The parts of an object.
LEMMA ObjectParts ==
    ASSUME NEW o \in Objects
    PROVE  /\ o.src \in Sources
           /\ o.strong \subseteq Symbols
           /\ o.weak \subseteq Symbols
           /\ o.abs \subseteq Symbols
           /\ o.refs \subseteq Symbols
           /\ o.imports \subseteq Symbols
           /\ Defs(o) \subseteq Symbols
           /\ o.alts \in Maps(Symbols, Symbols)
           /\ DOMAIN o.alts \subseteq Symbols
           /\ \A n \in DOMAIN o.alts : o.alts[n] \in Symbols
           /\ o.libs \subseteq STRING
<1>1. o.alts \in Maps(Symbols, Symbols)
  BY DEF Objects
<1>2. /\ DOMAIN o.alts \subseteq Symbols
      /\ \A n \in DOMAIN o.alts : o.alts[n] \in Symbols
  BY <1>1, MapsIs
<1> HIDE DEF Maps
<1> QED
  BY <1>1, <1>2 DEF Objects, Defs, Sources

\* The parts of a Selection.
LEMMA SelectionParts ==
    ASSUME NEW s \in Selections
    PROVE  /\ s.defined \subseteq Symbols
           /\ s.shared \subseteq Symbols
           /\ s.inclusions \in Seq(Inclusions)
           /\ DOMAIN s.alternates \subseteq Symbols
           /\ \A n \in DOMAIN s.alternates : s.alternates[n] \in Symbols
           /\ DOMAIN s.undefined \subseteq Symbols
           /\ \A n \in DOMAIN s.undefined : s.undefined[n] \in Sources
<1>1. s.alternates \in Maps(Symbols, Symbols) /\ s.undefined \in Maps(Symbols, Sources)
  BY DEF Selections
<1>2. /\ DOMAIN s.alternates \subseteq Symbols
      /\ \A n \in DOMAIN s.alternates : s.alternates[n] \in Symbols
      /\ DOMAIN s.undefined \subseteq Symbols
      /\ \A n \in DOMAIN s.undefined : s.undefined[n] \in Sources
  BY <1>1, MapsIs
<1> HIDE DEF Maps, Inclusions
<1> QED
  BY <1>2 DEF Selections

\* The names an object asks for.
Known(s, o) == s.defined \cup Defs(o) \cup s.shared \cup o.imports
\* The names account adds for o's references, and for their __imp_X.
Direct(s, o) == o.refs \ Known(s, o)
Asks(s, o) ==
    Direct(s, o) \cup ({ImpOf[n] : n \in Direct(s, o) \cap DOMAIN ImpOf} \ Known(s, o))

\* What account makes of a Selection.
LEMMA AccountIs ==
    ASSUME NEW s \in Selections, NEW o \in Objects
    PROVE  /\ Account(s, o) \in Selections
           /\ Account(s, o).defined = s.defined \cup Defs(o)
           /\ Account(s, o).shared = s.shared \cup o.imports
           /\ Account(s, o).inclusions = s.inclusions
           /\ DOMAIN Account(s, o).alternates = DOMAIN s.alternates \cup DOMAIN o.alts
           /\ \A n \in DOMAIN Account(s, o).alternates :
                 Account(s, o).alternates[n] =
                    IF n \in DOMAIN o.alts THEN o.alts[n] ELSE s.alternates[n]
           /\ DOMAIN Account(s, o).undefined = (DOMAIN s.undefined \cup Asks(s, o)) \ Defs(o)
           /\ \A n \in DOMAIN Account(s, o).undefined :
                 Account(s, o).undefined[n] =
                    IF n \in DOMAIN s.undefined THEN s.undefined[n] ELSE o.src
<1> DEFINE left == (DOMAIN s.undefined \cup Asks(s, o)) \ Defs(o)
           alts == [n \in DOMAIN s.alternates \cup DOMAIN o.alts |->
                        IF n \in DOMAIN o.alts THEN o.alts[n] ELSE s.alternates[n]]
           und == [n \in left |-> IF n \in DOMAIN s.undefined THEN s.undefined[n] ELSE o.src]
<1>1. Account(s, o) = [s EXCEPT !.defined = s.defined \cup Defs(o),
                                !.shared = s.shared \cup o.imports,
                                !.alternates = alts, !.undefined = und]
  BY DEF Account, Asks, Known, Direct, Selections
<1>2. Asks(s, o) \subseteq Symbols
  BY ObjectParts, LinksAssumption DEF Asks, Direct
<1>3. alts \in [DOMAIN s.alternates \cup DOMAIN o.alts -> Symbols]
  BY ObjectParts, SelectionParts
<1>4. und \in [left -> Sources]
  BY ObjectParts, SelectionParts
<1>5. alts \in Maps(Symbols, Symbols)
  BY <1>3, MapsHas, ObjectParts, SelectionParts
<1>6. und \in Maps(Symbols, Sources)
  <2>1. left \subseteq Symbols
    BY <1>2, SelectionParts
  <2> HIDE DEF left, und
  <2> QED
    BY <1>4, <2>1, MapsHas
<1>7. DOMAIN alts = DOMAIN s.alternates \cup DOMAIN o.alts /\ DOMAIN und = left
  OBVIOUS
<1>8. \A n \in DOMAIN alts : alts[n] = IF n \in DOMAIN o.alts THEN o.alts[n] ELSE s.alternates[n]
  OBVIOUS
<1>9. \A n \in DOMAIN und : und[n] = IF n \in DOMAIN s.undefined THEN s.undefined[n] ELSE o.src
  OBVIOUS
<1>10. s.defined \cup Defs(o) \in SUBSET Symbols /\ s.shared \cup o.imports \in SUBSET Symbols
  BY ObjectParts, SelectionParts
<1>11. PICK a : a = alts
  OBVIOUS
<1>12. PICK u : u = und
  OBVIOUS
<1>13. Account(s, o) = [s EXCEPT !.defined = s.defined \cup Defs(o),
                                !.shared = s.shared \cup o.imports,
                                !.alternates = a, !.undefined = u]
  BY <1>1, <1>11, <1>12
<1>14. a \in Maps(Symbols, Symbols) /\ u \in Maps(Symbols, Sources)
  BY <1>5, <1>6, <1>11, <1>12
<1>15. /\ Account(s, o) \in Selections
       /\ Account(s, o).defined = s.defined \cup Defs(o)
       /\ Account(s, o).shared = s.shared \cup o.imports
       /\ Account(s, o).inclusions = s.inclusions
       /\ Account(s, o).alternates = a
       /\ Account(s, o).undefined = u
  BY <1>10, <1>13, <1>14 DEF Selections
<1> HIDE DEF alts, und
<1> QED
  BY <1>7, <1>8, <1>9, <1>11, <1>12, <1>15

\* What one name of take_alternates makes of it.
AltOf(s, n) == s.alternates[n]
Asking(s, n) == AltOf(s, n) \notin s.defined \cup s.shared

\* What taking one alternate makes of a Selection.
LEMMA TakeAlternateIs ==
    ASSUME NEW s \in Selections, NEW p \in BOOLEAN,
           NEW n \in DOMAIN s.alternates \cap DOMAIN s.undefined,
           NEW t, t = TakeAlternate(<<s, p>>, n)
    PROVE  /\ t[1] \in Selections
           /\ t[1].defined = s.defined
           /\ t[1].shared = s.shared
           /\ t[1].alternates = s.alternates
           /\ t[1].inclusions = s.inclusions
           /\ DOMAIN t[1].undefined = (DOMAIN s.undefined \ {n})
                                        \cup (IF Asking(s, n) THEN {AltOf(s, n)} ELSE {})
           /\ \A m \in DOMAIN t[1].undefined :
                 t[1].undefined[m] = IF Asking(s, n) /\ m = AltOf(s, n)
                                     THEN s.undefined[n] ELSE s.undefined[m]
           /\ t[2] \in BOOLEAN
           /\ t[2] <=> p \/ (Asking(s, n) /\ AltOf(s, n) \notin DOMAIN s.undefined \ {n})
<1> DEFINE left == (DOMAIN s.undefined \ {n})
                        \cup (IF Asking(s, n) THEN {AltOf(s, n)} ELSE {})
           und == [m \in left |-> IF Asking(s, n) /\ m = AltOf(s, n)
                                  THEN s.undefined[n] ELSE s.undefined[m]]
<1>1. t[1] = [s EXCEPT !.undefined = und]
  BY DEF TakeAlternate, Asking, AltOf, Selections
<1>2. t[2] = (p \/ (Asking(s, n) /\ AltOf(s, n) \notin DOMAIN s.undefined \ {n}))
  BY DEF TakeAlternate, Asking, AltOf
<1>3. left \subseteq Symbols
  BY SelectionParts DEF AltOf
<1>4. und \in [left -> Sources]
  BY SelectionParts
<1>5. und \in Maps(Symbols, Sources)
  <2> HIDE DEF left, und
  <2> QED
    BY <1>3, <1>4, MapsHas
<1>6. /\ DOMAIN und = left
      /\ \A m \in left : und[m] = IF Asking(s, n) /\ m = AltOf(s, n)
                                  THEN s.undefined[n] ELSE s.undefined[m]
  OBVIOUS
<1>7. PICK u : u = und
  OBVIOUS
<1>8. t[1] = [s EXCEPT !.undefined = u] /\ u \in Maps(Symbols, Sources)
  BY <1>1, <1>5, <1>7
<1>9. /\ t[1] \in Selections
      /\ t[1].defined = s.defined
      /\ t[1].shared = s.shared
      /\ t[1].alternates = s.alternates
      /\ t[1].inclusions = s.inclusions
      /\ t[1].undefined = u
  BY <1>8 DEF Selections
<1> HIDE DEF und
<1> QED
  BY <1>2, <1>6, <1>7, <1>9

(***************************************************************************)
(* The slots: what a slot is, and what stays when inputs are added.        *)
(***************************************************************************)
LEMMA SlotIs ==
    ASSUME NEW s \in Slots
    PROVE  /\ s.kind \in {"fixed", "lazy", "shared", "group"}
           /\ s.kind \in {"fixed", "lazy"} => s.objs \in Seq(Objects)
           /\ s.kind = "shared" => s.exports \subseteq Symbols
           /\ s.kind = "group" => s.start \in BOOLEAN
<1> HIDE DEF Objects
<1>1. CASE s \in [kind : {"fixed", "lazy"}, objs : Seq(Objects)]
  BY <1>1
<1>2. CASE s \in [kind : {"shared"}, exports : SUBSET Symbols]
  BY <1>2
<1>3. CASE s \in [kind : {"group"}, start : BOOLEAN]
  BY <1>3
<1> QED
  BY <1>1, <1>2, <1>3 DEF Slots

\* The three constructors make slots.
LEMMA SlotsHas ==
    ASSUME NEW s \in Seq(Objects), NEW names \in SUBSET Symbols
    PROVE  Lazy(s) \in Slots /\ Fixed(s) \in Slots /\ Shared(names) \in Slots
<1> HIDE DEF Objects
<1> QED
  BY DEF Slots, Lazy, Fixed, Shared

\* Input j of s starts (ends) a group.
GroupAt(s, j, b) == s[j].kind = "group" /\ s[j].start = b

\* t starts with the inputs of s, as far as groups go, and adds no group.
NoNewGroup(s, t) ==
    /\ Len(s) <= Len(t)
    /\ \A j \in 1 .. Len(s) : \A b \in BOOLEAN : GroupAt(s, j, b) <=> GroupAt(t, j, b)
    /\ \A j \in Len(s) + 1 .. Len(t) : t[j].kind # "group"

\* A count of groups is a natural number.
LEMMA BoundsType ==
    ASSUME NEW s, NEW i \in Nat, NEW b
    PROVE  Bounds(s, i, b) \in Nat
<1>1. IsFiniteSet(1 .. i)
  BY FS_Interval
<1>2. IsFiniteSet({j \in 1 .. i : s[j].kind = "group" /\ s[j].start = b})
  BY <1>1, FS_Subset
<1> QED
  BY <1>2, FS_CardinalityType DEF Bounds

\* Inputs that are no groups leave the counts before them alone...
LEMMA BoundsKept ==
    ASSUME NEW s \in Seq(Slots), NEW t \in Seq(Slots), NoNewGroup(s, t),
           NEW b \in BOOLEAN, NEW i \in 0 .. Len(s)
    PROVE  Bounds(t, i, b) = Bounds(s, i, b)
<1>1. {j \in 1 .. i : t[j].kind = "group" /\ t[j].start = b}
        = {j \in 1 .. i : s[j].kind = "group" /\ s[j].start = b}
  BY DEF NoNewGroup, GroupAt
<1> QED
  BY <1>1 DEF Bounds

\* ...and add nothing to the counts after.
LEMMA BoundsPast ==
    ASSUME NEW s \in Seq(Slots), NEW t \in Seq(Slots), NoNewGroup(s, t),
           NEW b \in BOOLEAN, NEW i \in Len(s) .. Len(t)
    PROVE  Bounds(t, i, b) = Bounds(s, Len(s), b)
<1>1. {j \in 1 .. i : t[j].kind = "group" /\ t[j].start = b}
        = {j \in 1 .. Len(s) : s[j].kind = "group" /\ s[j].start = b}
  BY DEF NoNewGroup, GroupAt
<1> QED
  BY <1>1 DEF Bounds

\* Groups that pair still pair.
LEMMA PairedKept ==
    ASSUME NEW s \in Seq(Slots), NEW t \in Seq(Slots), NoNewGroup(s, t), Paired(s)
    PROVE  Paired(t)
<1>1. Len(s) \in Nat /\ Len(t) \in Nat /\ Len(s) <= Len(t)
  BY DEF NoNewGroup
<1>2. ASSUME NEW i \in 0 .. Len(t)
      PROVE  Bounds(t, i, FALSE) <= Bounds(t, i, TRUE)
  <2>1. CASE i <= Len(s)
    <3>1. i \in 0 .. Len(s)
      BY <2>1, <1>1
    <3>2. Bounds(t, i, TRUE) = Bounds(s, i, TRUE)
      BY <3>1, BoundsKept
    <3>3. Bounds(t, i, FALSE) = Bounds(s, i, FALSE)
      BY <3>1, BoundsKept
    <3> QED
      BY <3>1, <3>2, <3>3 DEF Paired
  <2>2. CASE ~(i <= Len(s))
    <3>1. i \in Len(s) .. Len(t) /\ Len(s) \in 0 .. Len(s)
      BY <2>2, <1>1
    <3>2. Bounds(t, i, TRUE) = Bounds(s, Len(s), TRUE)
      BY <3>1, BoundsPast
    <3>3. Bounds(t, i, FALSE) = Bounds(s, Len(s), FALSE)
      BY <3>1, BoundsPast
    <3> QED
      BY <3>1, <3>2, <3>3 DEF Paired
  <2> QED
    BY <2>1, <2>2
<1>3. Level(t, Len(t))
  <2>1. Len(t) \in Len(s) .. Len(t)
    BY <1>1
  <2>2. Bounds(t, Len(t), TRUE) = Bounds(s, Len(s), TRUE)
    BY <2>1, BoundsPast
  <2>3. Bounds(t, Len(t), FALSE) = Bounds(s, Len(s), FALSE)
    BY <2>1, BoundsPast
  <2> QED
    BY <2>2, <2>3 DEF Paired, Level
<1> QED
  BY <1>2, <1>3 DEF Paired

\* No input of a paired line ends a group that was not started.
LEMMA PairedAt ==
    ASSUME NEW s, Paired(s), NEW i \in 0 .. Len(s)
    PROVE  Bounds(s, i, FALSE) <= Bounds(s, i, TRUE)
  BY DEF Paired

\* One input more.
LEMMA BoundsStep ==
    ASSUME NEW s \in Seq(Slots), NEW i \in 1 .. Len(s), NEW b \in BOOLEAN
    PROVE  Bounds(s, i, b) = IF GroupAt(s, i, b) THEN Bounds(s, i - 1, b) + 1
                             ELSE Bounds(s, i - 1, b)
<1> DEFINE S == {j \in 1 .. i - 1 : s[j].kind = "group" /\ s[j].start = b}
           T == {j \in 1 .. i : s[j].kind = "group" /\ s[j].start = b}
<1>1. Bounds(s, i, b) = Cardinality(T) /\ Bounds(s, i - 1, b) = Cardinality(S)
  BY DEF Bounds
<1>2. IsFiniteSet(S)
  <2>1. IsFiniteSet(1 .. i - 1)
    BY FS_Interval
  <2> QED
    BY <2>1, FS_Subset
<1>3. CASE GroupAt(s, i, b)
  <2>1. T = S \cup {i} /\ i \notin S
    BY <1>3 DEF GroupAt
  <2> HIDE DEF S, T
  <2> QED
    BY <1>1, <1>2, <1>3, <2>1, FS_AddElement
<1>4. CASE ~GroupAt(s, i, b)
  <2>1. T = S
    BY <1>4 DEF GroupAt
  <2> HIDE DEF S, T
  <2> QED
    BY <1>1, <1>4, <2>1
<1> QED
  BY <1>3, <1>4

\* Before the first input no group was started.
LEMMA BoundsNone == ASSUME NEW s, NEW b PROVE Bounds(s, 0, b) = 0
<1>1. {j \in 1 .. 0 : s[j].kind = "group" /\ s[j].start = b} = {}
  OBVIOUS
<1> QED
  BY <1>1, FS_EmptySet DEF Bounds

(***************************************************************************)
(* Types, and the places of the walk.                                      *)
(***************************************************************************)
LEMMA LinkIs ==
    ASSUME Typed
    PROVE  /\ LinkOK(link)
           /\ link.inOrder \in BOOLEAN
           /\ link.slots \in Seq(Slots)
           /\ link.pool \in Seq(Objects)
           /\ link.entry \in Symbols \cup {""}
           /\ link.inOrder => NoAlternates(link.pool)
  BY LinksAssumption DEF Typed, LinkOK

\* The objects of a slot are objects.
LEMMA ObjsIs ==
    ASSUME Typed, NEW k \in DOMAIN slots, slots[k].kind \in {"fixed", "lazy"}
    PROVE  slots[k].objs \in Seq(Objects)
  BY SlotIs DEF Typed

\* A member is an object.
LEMMA ObjIs ==
    ASSUME Typed, NEW m, IsMember(m)
    PROVE  Obj(m) \in Objects
<1>1. slots[m[1]].objs \in Seq(Objects) /\ m[2] \in DOMAIN slots[m[1]].objs
  BY ObjsIs DEF IsMember, HasObjects
<1> HIDE DEF Objects
<1> QED
  BY <1>1 DEF Obj

\* A slot added at the end, group aside, leaves the others where they are.
LEMMA AddSlot ==
    ASSUME NEW s \in Seq(Slots), NEW x \in Slots, x.kind # "group"
    PROVE  /\ Append(s, x) \in Seq(Slots)
           /\ Len(Append(s, x)) = Len(s) + 1
           /\ \A k \in DOMAIN s : k \in DOMAIN Append(s, x) /\ Append(s, x)[k] = s[k]
           /\ Append(s, x)[Len(s) + 1] = x
           /\ NoNewGroup(s, Append(s, x))
           /\ Plain(s) /\ (x.kind = "lazy" => NoAlternates(x.objs)) /\ x.kind # "fixed"
                => Plain(Append(s, x))
<1>1. /\ Append(s, x) \in Seq(Slots)
      /\ Len(Append(s, x)) = Len(s) + 1
      /\ \A k \in DOMAIN s : k \in DOMAIN Append(s, x) /\ Append(s, x)[k] = s[k]
      /\ Append(s, x)[Len(s) + 1] = x
      /\ DOMAIN s = 1 .. Len(s) /\ Len(s) \in Nat
      /\ DOMAIN Append(s, x) = 1 .. Len(s) + 1
  OBVIOUS
<1>2. PICK t : t = Append(s, x)
  OBVIOUS
<1>3. NoNewGroup(s, t)
  BY <1>1, <1>2 DEF NoNewGroup, GroupAt
<1>4. Plain(s) /\ (x.kind = "lazy" => NoAlternates(x.objs)) /\ x.kind # "fixed" => Plain(t)
  <2>1. \A k \in DOMAIN t : k \in DOMAIN s \/ k = Len(s) + 1
    BY <1>1, <1>2
  <2> QED
    BY <2>1, <1>1, <1>2 DEF Plain
<1> QED
  BY <1>1, <1>2, <1>3, <1>4

\* The slots once the units are compiled again.
LEMMA RebindIs ==
    ASSUME Typed, Rebind
    PROVE  /\ slots' \in Seq(Slots)
           /\ NoNewGroup(slots, slots')
           /\ poolSlot' \in 0 .. Len(slots')
           /\ link.inOrder /\ Plain(slots) => Plain(slots')
<1>1. CASE slots' = slots /\ poolSlot' = poolSlot
  BY <1>1 DEF Typed, NoNewGroup
<1>2. CASE ~(slots' = slots /\ poolSlot' = poolSlot)
  <2> DEFINE all == Append(slots, Lazy(link.pool))
  <2>1. /\ all \in Seq(Slots)
        /\ Len(all) = Len(slots) + 1
        /\ NoNewGroup(slots, all)
        /\ link.inOrder /\ Plain(slots) => Plain(all)
    <3>1. Lazy(link.pool) \in Slots
      BY LinkIs, SlotsHas
    <3>2. Lazy(link.pool).kind = "lazy" /\ Lazy(link.pool).objs = link.pool
      BY DEF Lazy
    <3>3. slots \in Seq(Slots)
      BY DEF Typed
    <3> QED
      BY <3>1, <3>2, <3>3, LinkIs, AddSlot
  <2>2. PICK a : a = all
    OBVIOUS
  <2> HIDE DEF all
  <2>3. PICK defs : /\ poolSlot' = Len(a)
                    /\ slots' = [k \in DOMAIN a |->
                            IF a[k].kind # "fixed" THEN a[k]
                            ELSE Fixed([j \in DOMAIN a[k].objs |->
                                [a[k].objs[j] EXCEPT !.imports = @ \ (a[k].objs[j].bound \cap defs)]])]
    <3>1. poolSlot' = Len(a) /\ slots' = Rebound(a)
      BY <1>2, <2>2 DEF Rebind, all
    <3> HIDE DEF Fixed
    <3> QED
      BY <3>1 DEF Rebound
  <2> DEFINE Again(o) == [o EXCEPT !.imports = @ \ (o.bound \cap defs)]
             New(k) == [j \in DOMAIN a[k].objs |-> Again(a[k].objs[j])]
  <2>4. a \in Seq(Slots) /\ Len(a) \in Nat /\ DOMAIN a = 1 .. Len(a)
    BY <2>1, <2>2
  <2>5. ASSUME NEW o \in Objects
        PROVE  Again(o) \in Objects /\ Again(o).alts = o.alts
    <3> HIDE DEF Maps
    <3> QED
      BY DEF Objects
  <2>6. ASSUME NEW k \in DOMAIN a, a[k].kind = "fixed"
        PROVE  /\ New(k) \in Seq(Objects)
               /\ NoAlternates(a[k].objs) => NoAlternates(New(k))
    <3>1. a[k].objs \in Seq(Objects)
      BY <2>4, <2>6, SlotIs
    <3>2. PICK s : s = a[k].objs
      OBVIOUS
    <3> HIDE DEF Objects, Again
    <3>3. s \in Seq(Objects) /\ \A j \in DOMAIN s : s[j] \in Objects
      BY <3>1, <3>2
    <3>4. New(k) = [j \in DOMAIN s |-> Again(s[j])]
      BY <3>2
    <3>5. [j \in DOMAIN s |-> Again(s[j])] \in Seq(Objects)
      BY <3>3, <2>5
    <3>6. NoAlternates(s) => NoAlternates([j \in DOMAIN s |-> Again(s[j])])
      BY <3>3, <2>5 DEF NoAlternates
    <3> QED
      BY <3>2, <3>4, <3>5, <3>6
  <2>7. ASSUME NEW k \in DOMAIN a
        PROVE  /\ slots'[k] = IF a[k].kind # "fixed" THEN a[k] ELSE Fixed(New(k))
               /\ slots'[k].kind = a[k].kind
               /\ slots'[k] \in Slots
    <3>1. slots'[k] = IF a[k].kind # "fixed" THEN a[k] ELSE Fixed(New(k))
      <4> HIDE DEF Fixed
      <4> QED
        BY <2>3
    <3> HIDE DEF New
    <3>2. CASE a[k].kind # "fixed"
      BY <3>1, <3>2, <2>4
    <3>3. CASE a[k].kind = "fixed"
      <4>1. Fixed(New(k)) \in Slots
        BY <2>6, <3>3, SlotsHas
      <4>2. Fixed(New(k)).kind = "fixed"
        BY DEF Fixed
      <4> QED
        BY <3>1, <3>3, <4>1, <4>2
    <3> QED
      BY <3>1, <3>2, <3>3
  <2>8. DOMAIN slots' = 1 .. Len(a) /\ slots' = [k \in 1 .. Len(a) |-> slots'[k]]
    <3> HIDE DEF Fixed
    <3> QED
      BY <2>3, <2>4
  <2> HIDE DEF New, Again
  <2>9. slots' \in Seq(Slots) /\ Len(slots') = Len(a)
    <3>1. slots' \in [1 .. Len(a) -> Slots]
      BY <2>4, <2>7, <2>8
    <3> HIDE DEF Slots
    <3> QED
      BY <3>1, <2>4, <2>8
  <2>10. NoNewGroup(slots, slots')
    <3>1. NoNewGroup(slots, a) /\ Len(slots) \in Nat
      BY <2>1, <2>2 DEF Typed
    <3>2. ASSUME NEW j \in 1 .. Len(slots), NEW b \in BOOLEAN
          PROVE  GroupAt(slots, j, b) <=> GroupAt(slots', j, b)
      <4>1. j \in DOMAIN a
        BY <2>4, <3>1 DEF NoNewGroup
      <4>2. GroupAt(a, j, b) <=> GroupAt(slots', j, b)
        BY <4>1, <2>7 DEF GroupAt
      <4>3. GroupAt(slots, j, b) <=> GroupAt(a, j, b)
        BY <3>1 DEF NoNewGroup
      <4> QED
        BY <4>2, <4>3
    <3>3. \A j \in Len(slots) + 1 .. Len(slots') : slots'[j].kind # "group"
      BY <2>4, <2>7, <2>9, <3>1 DEF NoNewGroup
    <3> QED
      BY <2>9, <3>1, <3>2, <3>3 DEF NoNewGroup
  <2>11. link.inOrder /\ Plain(slots) => Plain(slots')
    <3>1. link.inOrder /\ Plain(slots) => Plain(a)
      BY <2>1, <2>2
    <3>2. ASSUME Plain(a), NEW k \in DOMAIN a, a[k].kind \in {"fixed", "lazy"}
          PROVE  NoAlternates(slots'[k].objs)
      <4>1. CASE a[k].kind = "lazy"
        BY <2>7, <3>2, <4>1 DEF Plain
      <4>2. CASE a[k].kind = "fixed"
        <5>1. slots'[k] = Fixed(New(k)) /\ Fixed(New(k)).objs = New(k)
          BY <2>7, <4>2 DEF Fixed
        <5>2. NoAlternates(a[k].objs)
          BY <3>2 DEF Plain
        <5>3. NoAlternates(New(k))
          BY <2>6, <4>2, <5>2
        <5> QED
          BY <5>1, <5>3
      <4> QED
        BY <3>2, <4>1, <4>2
    <3>3. Plain(a) => Plain(slots')
      BY <2>4, <2>7, <2>8, <3>2 DEF Plain
    <3> QED
      BY <3>1, <3>3
  <2>12. poolSlot' \in 0 .. Len(slots')
    BY <2>3, <2>4, <2>9
  <2> QED
    BY <2>9, <2>10, <2>11, <2>12
<1> QED
  BY <1>1, <1>2

\* t is s with inputs added that are no objects and no group.
Grown(s, t) ==
    /\ t \in Seq(Slots)
    /\ Len(s) <= Len(t)
    /\ NoNewGroup(s, t)
    /\ \A k \in DOMAIN s : k \in DOMAIN t /\ t[k] = s[k]
    /\ \A k \in DOMAIN t : k \in DOMAIN s \/ t[k].kind \in {"lazy", "shared"}

\* An archive or an import library at the end is growth.
LEMMA GrownOne ==
    ASSUME NEW s \in Seq(Slots), NEW x \in Slots, x.kind \in {"lazy", "shared"}
    PROVE  Grown(s, Append(s, x))
<1>1. PICK t : t = Append(s, x)
  OBVIOUS
<1>2. /\ t \in Seq(Slots)
      /\ Len(t) = Len(s) + 1
      /\ \A k \in DOMAIN s : k \in DOMAIN t /\ t[k] = s[k]
      /\ t[Len(s) + 1] = x
      /\ NoNewGroup(s, t)
  BY <1>1, AddSlot
<1>3. Len(s) \in Nat /\ DOMAIN s = 1 .. Len(s) /\ DOMAIN t = 1 .. Len(t)
  BY <1>2
<1>4. \A k \in DOMAIN t : k \in DOMAIN s \/ t[k].kind \in {"lazy", "shared"}
  BY <1>2, <1>3
<1>5. Grown(s, t)
  BY <1>2, <1>3, <1>4 DEF Grown
<1> QED
  BY <1>1, <1>5

\* Growth is transitive.
LEMMA GrownTwice ==
    ASSUME NEW s \in Seq(Slots), NEW t, NEW u, Grown(s, t), Grown(t, u)
    PROVE  Grown(s, u)
<1>1. /\ t \in Seq(Slots) /\ u \in Seq(Slots)
      /\ Len(s) \in Nat /\ Len(t) \in Nat /\ Len(u) \in Nat
      /\ DOMAIN s = 1 .. Len(s) /\ DOMAIN t = 1 .. Len(t) /\ DOMAIN u = 1 .. Len(u)
      /\ Len(s) <= Len(t) /\ Len(t) <= Len(u)
  BY DEF Grown
<1>2. \A k \in DOMAIN s : k \in DOMAIN u /\ u[k] = s[k]
  BY DEF Grown
<1>3. \A k \in DOMAIN u : k \in DOMAIN s \/ u[k].kind \in {"lazy", "shared"}
  BY DEF Grown
<1>4. NoNewGroup(s, u)
  <2>1. \A j \in 1 .. Len(s) : \A b \in BOOLEAN : GroupAt(s, j, b) <=> GroupAt(u, j, b)
    BY <1>1, <1>2 DEF GroupAt
  <2>2. \A j \in Len(s) + 1 .. Len(u) : u[j].kind # "group"
    BY <1>1, <1>3
  <2> QED
    BY <1>1, <2>1, <2>2 DEF NoNewGroup
<1> QED
  BY <1>1, <1>2, <1>3, <1>4 DEF Grown

\* The default library n joins at the end.
LibraryJoins(n) ==
    /\ slots' = Append(IF link.libs[n].exports = {} THEN slots
                       ELSE Append(slots, Shared(link.libs[n].exports)),
                       Lazy(link.libs[n].members))
    /\ job' = [job EXCEPT !.todo = @ \ {n}, !.progress = TRUE]

\* A default library joins, or ends the link.
LEMMA AddLibraryIs ==
    ASSUME AddLibrary
    PROVE  /\ job.stage = "libraries"
           /\ \/ \E n \in job.todo : LibraryJoins(n)
              \/ Goto("failed") /\ slots' = slots
<1> HIDE DEF Shared, Lazy, Goto
<1> QED
  BY DEF AddLibrary, LibraryJoins, At

\* A default library that joins does at the end.
LEMMA AddLibraryGrows ==
    ASSUME Typed, Placed, AddLibrary
    PROVE  Grown(slots, slots')
<1>0. CASE slots' = slots
  BY <1>0 DEF Grown, NoNewGroup, Typed
<1> SUFFICES ASSUME slots' # slots PROVE Grown(slots, slots')
  BY <1>0
<1>1. PICK n \in job.todo :
         slots' = Append(IF link.libs[n].exports = {} THEN slots
                         ELSE Append(slots, Shared(link.libs[n].exports)),
                         Lazy(link.libs[n].members))
  <2> HIDE DEF Shared, Lazy
  <2> QED
    BY AddLibraryIs DEF LibraryJoins
<1>2. link.libs[n] \in [members : Seq(Objects), exports : SUBSET Symbols]
  <2>1. n \in DOMAIN link.libs
    BY <1>1 DEF Placed, JobOK, AddLibrary
  <2> QED
    BY <2>1, LinkIs DEF LinkOK
<1>3. PICK ms \in Seq(Objects), es \in SUBSET Symbols :
         link.libs[n].members = ms /\ link.libs[n].exports = es
  <2> HIDE DEF Objects
  <2> QED
    BY <1>2
<1>4. Lazy(ms) \in Slots /\ Shared(es) \in Slots
  BY <1>3, SlotsHas
<1>5. Lazy(ms).kind = "lazy" /\ Shared(es).kind = "shared"
  BY DEF Lazy, Shared
<1>6. slots \in Seq(Slots)
  BY DEF Typed
<1> HIDE DEF Lazy, Shared, Slots
<1>7. Grown(slots, Append(slots, Shared(es)))
  BY <1>4, <1>5, <1>6, GrownOne
<1>8. Append(slots, Shared(es)) \in Seq(Slots)
  BY <1>7 DEF Grown
<1>9. Grown(Append(slots, Shared(es)), Append(Append(slots, Shared(es)), Lazy(ms)))
  BY <1>4, <1>5, <1>8, GrownOne
<1>10. Grown(slots, Append(slots, Lazy(ms)))
  BY <1>4, <1>5, <1>6, GrownOne
<1>11. Grown(slots, Append(Append(slots, Shared(es)), Lazy(ms)))
  BY <1>6, <1>7, <1>9, GrownTwice
<1>12. \/ slots' = Append(slots, Lazy(ms))
       \/ slots' = Append(Append(slots, Shared(es)), Lazy(ms))
  BY <1>1, <1>3
<1> QED
  BY <1>10, <1>11, <1>12

\* Offering the pool adds it as the last input, or adds nothing.
PoolJoins ==
    /\ slots' = Append(slots, Lazy(link.pool))
    /\ poolSlot' = Len(slots')
    /\ StartPull(IF link.inOrder THEN {Len(slots')} ELSE AllLazy(slots'), "assemble")

\* The pool joins, or nothing does.
LEMMA OfferPoolIs ==
    ASSUME Typed, OfferPool
    PROVE  \/ PoolJoins
           \/ \E s \in {"failed", "assemble"} :
                 slots' = slots /\ poolSlot' = poolSlot /\ Goto(s)
<1> HIDE DEF Lazy, StartPull, Goto, AllLazy, Covered
<1>1. CASE poolSlot = 0 /\ \E n \in Undefined : ~Covered(n)
  <2>1. \/ /\ poolSlot' = Len(Append(slots, Lazy(link.pool)))
           /\ slots' = Append(slots, Lazy(link.pool))
           /\ StartPull(IF link.inOrder THEN {Len(Append(slots, Lazy(link.pool)))}
                        ELSE AllLazy(Append(slots, Lazy(link.pool))), "assemble")
        \/ Goto("failed") /\ UNCHANGED <<poolSlot, slots>>
    BY <1>1 DEF OfferPool
  <2> QED
    BY <2>1 DEF PoolJoins
<1>2. CASE ~(poolSlot = 0 /\ \E n \in Undefined : ~Covered(n))
  <2>1. Goto("assemble") /\ UNCHANGED <<poolSlot, slots>>
    BY <1>2 DEF OfferPool
  <2> QED
    BY <2>1
<1> QED
  BY <1>1, <1>2

\* The pool joins at the end, as an archive.
LEMMA PoolGrows ==
    ASSUME Typed, PoolJoins
    PROVE  /\ Grown(slots, slots')
           /\ Len(slots') = Len(slots) + 1
           /\ slots'[Len(slots')].kind = "lazy"
           /\ link.inOrder /\ Plain(slots) => Plain(slots')
<1>1. Lazy(link.pool) \in Slots
  BY LinkIs, SlotsHas
<1>2. Lazy(link.pool).kind = "lazy" /\ Lazy(link.pool).objs = link.pool
  BY DEF Lazy
<1>3. slots \in Seq(Slots) /\ slots' = Append(slots, Lazy(link.pool))
  BY DEF Typed, PoolJoins
<1> HIDE DEF Lazy, Slots
<1>4. PICK x : x = Lazy(link.pool)
  OBVIOUS
<1>5. x \in Slots /\ x.kind = "lazy" /\ x.objs = link.pool /\ slots' = Append(slots, x)
  BY <1>1, <1>2, <1>3, <1>4
<1>6. Grown(slots, slots')
  BY <1>3, <1>5, GrownOne
<1>7. /\ Len(slots') = Len(slots) + 1
      /\ slots'[Len(slots) + 1] = x
      /\ Plain(slots) /\ NoAlternates(x.objs) => Plain(slots')
  BY <1>3, <1>5, AddSlot
<1> QED
  BY <1>5, <1>6, <1>7, LinkIs

\* A member the sweep comes to.
LEMMA SweepIs ==
    ASSUME Typed, Placed, Pulling, NEW m \in Sweep
    PROVE  /\ IsMember(m)
           /\ m \in Nat \X Nat
           /\ m[1] \in job.span
           /\ m[1] \in AllLazy(slots)
           /\ slots[m[1]].kind = "lazy"
           /\ Obj(m) \in Objects
<1>1. PICK k \in job.span : m \in Members(k)
  BY DEF Sweep
<1>2. k \in DOMAIN slots /\ slots[k].kind = "lazy" /\ k \in AllLazy(slots)
  BY <1>1 DEF Placed, JobOK, AllLazy
<1>3. PICK j \in DOMAIN slots[k].objs : m = <<k, j>>
  BY <1>1 DEF Members
<1>4. slots[k].objs \in Seq(Objects)
  BY <1>2, ObjsIs
<1>5. j \in Nat /\ k \in Nat
  BY <1>2, <1>3, <1>4 DEF Typed
<1>6. IsMember(m)
  BY <1>2, <1>3 DEF IsMember, HasObjects
<1>7. Obj(m) \in Objects
  BY <1>6, ObjIs
<1> QED
  BY <1>1, <1>2, <1>3, <1>5, <1>6, <1>7

\* A step of the selection keeps the types.
LEMMA TypedStep == Typed /\ Placed /\ Once /\ SelectStep => Typed'
<1> SUFFICES ASSUME Typed, Placed, Once, SelectStep PROVE Typed'
  OBVIOUS
<1> HIDE DEF Slots, Selections, Objects, Inclusions, Maps
<1>0. /\ link \in Links /\ slots \in Seq(Slots) /\ sel \in Selections
      /\ linked \in Seq(Nat \X Nat) /\ walk \in Walks /\ job \in Jobs
      /\ poolSlot \in 0 .. Len(slots) /\ Len(slots) \in Nat
      /\ DOMAIN slots = 1 .. Len(slots)
  BY DEF Typed
\* Moves of the job and of the walk.
<1>g. ASSUME NEW s \in Stages, Goto(s)
      PROVE  job' \in Jobs
  BY <1>0, <1>g DEF Goto, Jobs
<1>p. ASSUME NEW span \in SUBSET Nat, NEW ret \in {"walk", "default", "assemble"},
             StartPull(span, ret)
      PROVE  job' \in Jobs
  BY <1>p DEF StartPull, Jobs, Stages, Start
<1>s. ASSUME NEW w \in Walks, Step(w)
      PROVE  walk' \in Walks
  <2>1. w.at + 1 \in Nat \ {0} /\ 1 \in Nat \ {0}
    BY DEF Walks
  <2>2. PICK a \in Nat \ {0}, b \in Nat \ {0} : walk' = [w EXCEPT !.at = a, !.obj = b]
    BY <1>s, <2>1 DEF Step
  <2> QED
    BY <2>2 DEF Walks
<1>a. ASSUME NEW t \in Seq(Slots)
      PROVE  AllLazy(t) \in SUBSET Nat
  BY DEF AllLazy
<1>1. CASE Rebind
  <2>1. PICK s \in {"walk", "failed"} : Goto(s) /\ UNCHANGED <<link, sel, linked, walk>>
    BY <1>1 DEF Rebind
  <2>2. s \in Stages
    BY DEF Stages
  <2> QED
    BY <1>0, <1>1, <1>g, <2>1, <2>2, RebindIs DEF Typed
<1>2. CASE WalkFixed
  <2>1. /\ walk.at \in DOMAIN slots /\ slots[walk.at].kind = "fixed"
        /\ UNCHANGED <<link, slots, job, poolSlot>>
    BY <1>2, <1>0 DEF WalkFixed, InWalk, Walks
  <2>2. slots[walk.at].objs \in Seq(Objects)
    BY <2>1, ObjsIs
  <2>3. CASE walk.obj <= Len(slots[walk.at].objs)
    <3>1. /\ sel' = Account(sel, slots[walk.at].objs[walk.obj])
          /\ linked' = Append(linked, <<walk.at, walk.obj>>)
          /\ walk' = [walk EXCEPT !.obj = @ + 1]
      <4>1. ~(walk.obj > Len(slots[walk.at].objs))
        BY <2>2, <2>3, <1>0 DEF Walks
      <4> QED
        BY <1>2, <4>1 DEF WalkFixed
    <3>2. slots[walk.at].objs[walk.obj] \in Objects
      BY <2>2, <2>3, <1>0 DEF Walks
    <3>3. sel' \in Selections
      BY <1>0, <3>1, <3>2, AccountIs
    <3>4. <<walk.at, walk.obj>> \in Nat \X Nat
      BY <1>0 DEF Walks
    <3>5. linked' \in Seq(Nat \X Nat)
      BY <1>0, <3>1, <3>4
    <3>6. walk' \in Walks
      <4>1. walk.obj + 1 \in Nat \ {0}
        BY <1>0 DEF Walks
      <4>2. PICK b \in Nat \ {0} : walk' = [walk EXCEPT !.obj = b]
        BY <3>1, <4>1
      <4> QED
        BY <1>0, <4>2 DEF Walks
    <3> QED
      BY <1>0, <2>1, <3>3, <3>5, <3>6 DEF Typed
  <2>4. CASE ~(walk.obj <= Len(slots[walk.at].objs))
    <3>1. Step(walk) /\ UNCHANGED <<sel, linked>>
      BY <1>2, <2>4 DEF WalkFixed
    <3> QED
      BY <1>0, <1>s, <2>1, <3>1 DEF Typed
  <2> QED
    BY <2>3, <2>4
<1>3. CASE WalkLazy
  <2>1. UNCHANGED <<link, slots, sel, linked, poolSlot>>
    BY <1>3 DEF WalkLazy
  <2>2. walk' \in Walks
    <3>1. [walk EXCEPT !.group = @ \cup {walk.at}] \in Walks
      BY <1>0 DEF Walks
    <3>2. Step(walk) \/ Step([walk EXCEPT !.group = @ \cup {walk.at}])
      BY <1>3 DEF WalkLazy
    <3> QED
      BY <1>0, <1>s, <3>1, <3>2
  <2>3. job' \in Jobs
    <3>1. job' = job \/ StartPull({walk.at}, "walk")
      BY <1>3 DEF WalkLazy
    <3>2. {walk.at} \in SUBSET Nat
      BY <1>0 DEF Walks
    <3> QED
      BY <1>0, <1>p, <3>1, <3>2
  <2> QED
    BY <1>0, <2>1, <2>2, <2>3 DEF Typed
<1>4. CASE WalkShared
  <2>1. UNCHANGED <<link, slots, linked, job, poolSlot>> /\ Step(walk)
    BY <1>4 DEF WalkShared
  <2>2. sel' \in Selections
    <3>1. /\ walk.at \in DOMAIN slots /\ slots[walk.at].kind = "shared"
      BY <1>4, <1>0 DEF WalkShared, InWalk, Walks
    <3>2. PICK names : names = slots[walk.at].exports
      OBVIOUS
    <3>3. names \subseteq Symbols
      BY <1>0, <3>1, <3>2, SlotIs
    <3>4. \/ sel' = sel
          \/ sel' = [sel EXCEPT !.undefined = [n \in Undefined \ names |-> sel.undefined[n]],
                                !.shared = sel.shared \cup names]
      BY <1>4, <3>2 DEF WalkShared
    <3>5. PICK u : u = [n \in Undefined \ names |-> sel.undefined[n]]
      OBVIOUS
    <3>6. u \in Maps(Symbols, Sources)
      <4>1. Undefined \ names \in SUBSET Symbols
        BY <1>0, SelectionParts DEF Undefined
      <4>2. u \in [Undefined \ names -> Sources]
        BY <1>0, <3>5, SelectionParts DEF Undefined
      <4> QED
        BY <4>1, <4>2, MapsHas
    <3>7. sel.shared \cup names \subseteq Symbols
      BY <1>0, <3>3, SelectionParts
    <3>8. [sel EXCEPT !.undefined = u, !.shared = sel.shared \cup names] \in Selections
      BY <1>0, <3>6, <3>7 DEF Selections
    <3> QED
      BY <1>0, <3>4, <3>5, <3>8
  <2> QED
    BY <1>0, <1>s, <2>1, <2>2 DEF Typed
<1>5. CASE WalkGroup
  <2>1. UNCHANGED <<link, slots, sel, linked, poolSlot>>
    BY <1>5 DEF WalkGroup
  <2>2. PICK depth : /\ depth = IF slots[walk.at].start THEN walk.depth + 1 ELSE walk.depth - 1
                     /\ IF depth = 0
                        THEN /\ Step([walk EXCEPT !.depth = 0, !.group = {}])
                             /\ StartPull(walk.group, "walk")
                        ELSE /\ Step([walk EXCEPT !.depth = depth])
                             /\ UNCHANGED job
    <3> HIDE DEF Step, StartPull
    <3> QED
      BY <1>5 DEF WalkGroup
  <2>3. /\ walk.at \in DOMAIN slots /\ slots[walk.at].kind = "group"
        /\ slots[walk.at].start \in BOOLEAN
    <3>1. walk.at \in DOMAIN slots /\ slots[walk.at].kind = "group"
      BY <1>5, <1>0 DEF WalkGroup, InWalk, Walks
    <3> QED
      BY <1>0, <3>1, SlotIs
  <2>4. depth \in Nat
    <3>1. CASE slots[walk.at].start
      BY <1>0, <2>2, <3>1 DEF Walks
    <3>2. CASE ~slots[walk.at].start
      <4>0. walk.at \in 1 .. Len(slots) /\ walk.at \in Nat /\ walk.depth \in Nat
        BY <1>0, <2>3 DEF Walks
      <4>1. GroupAt(slots, walk.at, FALSE) /\ ~GroupAt(slots, walk.at, TRUE)
        BY <2>3, <3>2 DEF GroupAt
      <4>2. Bounds(slots, walk.at, FALSE) = Bounds(slots, walk.at - 1, FALSE) + 1
        BY <1>0, <4>0, <4>1, BoundsStep
      <4>3. Bounds(slots, walk.at, TRUE) = Bounds(slots, walk.at - 1, TRUE)
        BY <1>0, <4>0, <4>1, BoundsStep
      <4>4. Bounds(slots, walk.at, FALSE) <= Bounds(slots, walk.at, TRUE)
        <5>1. walk.at \in 0 .. Len(slots) /\ Paired(slots)
          BY <1>0, <4>0 DEF Placed, SlotsOK
        <5> QED
          BY <5>1, PairedAt
      <4>5. walk.depth + Bounds(slots, walk.at - 1, FALSE) = Bounds(slots, walk.at - 1, TRUE)
        BY DEF Placed, WalkOK
      <4>6. Bounds(slots, walk.at - 1, TRUE) \in Nat /\ Bounds(slots, walk.at - 1, FALSE) \in Nat
        <5>1. walk.at - 1 \in Nat
          BY <4>0
        <5> QED
          BY <5>1, BoundsType
      <4>7. walk.depth >= 1
        <5>1. PICK t \in Nat, e \in Nat :
                 t = Bounds(slots, walk.at - 1, TRUE) /\ e = Bounds(slots, walk.at - 1, FALSE)
          BY <4>6
        <5>1a. PICK t1, e1 :
                 t1 = Bounds(slots, walk.at, TRUE) /\ e1 = Bounds(slots, walk.at, FALSE)
          OBVIOUS
        <5>2. e1 = e + 1 /\ t1 = t /\ e1 <= t1 /\ walk.depth + e = t
          BY <4>2, <4>3, <4>4, <4>5, <5>1, <5>1a
        <5> QED
          BY <4>0, <5>2
      <4> QED
        BY <2>2, <3>2, <4>0, <4>7
    <3> QED
      BY <3>1, <3>2
  <2>5. [walk EXCEPT !.depth = 0, !.group = {}] \in Walks /\ [walk EXCEPT !.depth = depth] \in Walks
    BY <1>0, <2>4 DEF Walks
  <2>6. walk' \in Walks
    BY <1>s, <2>2, <2>5
  <2>7. job' \in Jobs
    <3>1. walk.group \in SUBSET Nat
      BY <1>0 DEF Walks
    <3> QED
      BY <1>0, <1>p, <2>2, <3>1
  <2> QED
    BY <1>0, <2>1, <2>6, <2>7 DEF Typed
<1>6. CASE EndWalk
  <2>1. UNCHANGED <<link, slots, sel, linked, walk, poolSlot>>
    BY <1>6 DEF EndWalk
  <2>2. Goto("pool") \/ StartPull(AllLazy(slots), "default")
    BY <1>6 DEF EndWalk
  <2>3. "pool" \in Stages
    BY DEF Stages
  <2>4. job' \in Jobs
    BY <1>0, <1>a, <1>g, <1>p, <2>2, <2>3
  <2> QED
    BY <1>0, <2>1, <2>4 DEF Typed
<1>7. CASE PullMember
  <2>1. UNCHANGED <<link, slots, walk, poolSlot>> /\ Pulling
    BY <1>7 DEF PullMember, Pulling, At
  <2>2. PICK m \in Rest :
           \/ Goto("failed") /\ UNCHANGED <<sel, linked>>
           \/ /\ \E n \in Wanted(m) :
                    sel' = [Account(sel, Obj(m)) EXCEPT !.inclusions =
                              Append(@, [member |-> m, symbol |-> n, by |-> sel.undefined[n]])]
              /\ linked' = Append(linked, m)
              /\ job' = [job EXCEPT !.after = m, !.progress = TRUE]
    BY <1>7 DEF PullMember
  <2>3. m \in Sweep
    BY DEF Rest
  <2>4. m \in Nat \X Nat /\ Obj(m) \in Objects
    BY <2>1, <2>3, SweepIs
  <2>5. CASE Goto("failed") /\ UNCHANGED <<sel, linked>>
    <3>1. "failed" \in Stages
      BY DEF Stages
    <3> QED
      BY <1>0, <1>g, <2>1, <2>5, <3>1 DEF Typed
  <2>6. CASE /\ \E n \in Wanted(m) :
                    sel' = [Account(sel, Obj(m)) EXCEPT !.inclusions =
                              Append(@, [member |-> m, symbol |-> n, by |-> sel.undefined[n]])]
              /\ linked' = Append(linked, m)
              /\ job' = [job EXCEPT !.after = m, !.progress = TRUE]
    <3>1. PICK n \in Wanted(m) :
             sel' = [Account(sel, Obj(m)) EXCEPT !.inclusions =
                       Append(@, [member |-> m, symbol |-> n, by |-> sel.undefined[n]])]
      BY <2>6
    <3>2. PICK a : a = Account(sel, Obj(m))
      OBVIOUS
    <3>3. a \in Selections /\ a.inclusions \in Seq(Inclusions)
      BY <1>0, <2>4, <3>2, AccountIs, SelectionParts
    <3>4. n \in DOMAIN sel.undefined
      BY DEF Wanted, Undefined
    <3>5. PICK x : x = [member |-> m, symbol |-> n, by |-> sel.undefined[n]]
      OBVIOUS
    <3>6. x \in Inclusions
      BY <1>0, <2>4, <3>4, <3>5, SelectionParts DEF Inclusions
    <3>7. sel' = [a EXCEPT !.inclusions = Append(a.inclusions, x)]
      BY <3>1, <3>2, <3>5
    <3>8. Append(a.inclusions, x) \in Seq(Inclusions)
      BY <3>3, <3>6
    <3>9. sel' \in Selections
      BY <3>3, <3>7, <3>8 DEF Selections
    <3>10. linked' \in Seq(Nat \X Nat)
      BY <1>0, <2>4, <2>6
    <3>11. job' \in Jobs
      BY <1>0, <2>4, <2>6 DEF Jobs
    <3> QED
      BY <1>0, <2>1, <3>9, <3>10, <3>11 DEF Typed
  <2> QED
    BY <2>2, <2>5, <2>6
<1>8. CASE EndSweep
  <2>1. UNCHANGED <<sel, link, slots, linked, walk, poolSlot>>
    BY <1>8 DEF EndSweep
  <2>2. Stalled \subseteq Symbols
    BY <1>0, SelectionParts DEF Stalled
  <2>3. \/ job' = [job EXCEPT !.after = Start, !.progress = FALSE]
        \/ job' = [job EXCEPT !.stage = "alternates", !.todo = Stalled]
    BY <1>8 DEF EndSweep
  <2>4. job' \in Jobs
    <3>1. Start \in Nat \X Nat /\ "alternates" \in Stages /\ Stalled \subseteq Symbols \cup STRING
      BY <2>2 DEF Start, Stages
    <3>2. PICK at \in Nat \X Nat, st \in Stages, todo \in SUBSET (Symbols \cup STRING) :
             at = Start /\ st = "alternates" /\ todo = Stalled
      BY <3>1
    <3>3. \/ job' = [job EXCEPT !.after = at, !.progress = FALSE]
          \/ job' = [job EXCEPT !.stage = st, !.todo = todo]
      BY <2>3, <3>2
    <3> QED
      BY <1>0, <3>2, <3>3 DEF Jobs
  <2> QED
    BY <1>0, <2>1, <2>4 DEF Typed
<1>9. CASE TakeAlternates
  <2>1. UNCHANGED <<link, slots, linked, walk, poolSlot>> /\ At("alternates")
    BY <1>9 DEF TakeAlternates
  <2>2. PICK n, t :
           /\ n \in job.todo
           /\ t = TakeAlternate(<<sel, job.progress>>, n)
           /\ sel' = t[1]
           /\ job' = [job EXCEPT !.todo = @ \ {n}, !.progress = t[2]]
    BY <1>9 DEF TakeAlternates
  <2>3. n \in DOMAIN sel.alternates \cap DOMAIN sel.undefined /\ job.progress \in BOOLEAN
    BY <1>0, <2>1, <2>2 DEF Placed, JobOK, Stalled, Undefined, Jobs
  <2>4. t[1] \in Selections /\ t[2] \in BOOLEAN
    BY <1>0, <2>2, <2>3, TakeAlternateIs
  <2>5. job' \in Jobs
    BY <1>0, <2>2, <2>4 DEF Jobs
  <2> QED
    BY <1>0, <2>1, <2>2, <2>4, <2>5 DEF Typed
<1>10. CASE EndAlternates
  <2>1. UNCHANGED <<sel, link, slots, linked, walk, poolSlot>>
    BY <1>10 DEF EndAlternates
  <2>2. StartPull(job.span, job.ret) \/ Goto(job.ret)
    BY <1>10 DEF EndAlternates
  <2>3. /\ job.span \in SUBSET Nat /\ job.ret \in {"walk", "default", "assemble"}
        /\ job.ret \in Stages
    BY <1>0 DEF Jobs, Stages
  <2>4. job' \in Jobs
    BY <1>g, <1>p, <2>2, <2>3
  <2> QED
    BY <1>0, <2>1, <2>4 DEF Typed
<1>11. CASE DefaultLibraries
  <2>1. UNCHANGED <<sel, link, slots, linked, walk, poolSlot>>
    BY <1>11 DEF DefaultLibraries
  <2>2. PICK todo : /\ todo \subseteq UNION {Obj(linked[i]).libs : i \in DOMAIN linked}
                    /\ job' = [job EXCEPT !.stage = "libraries", !.progress = FALSE, !.todo = todo]
    BY <1>11 DEF DefaultLibraries
  <2>3. \A i \in DOMAIN linked : Obj(linked[i]).libs \subseteq STRING
    BY ObjIs, ObjectParts DEF Once
  <2>4. todo \subseteq STRING
    BY <2>2, <2>3
  <2>5. job' \in Jobs
    BY <1>0, <2>2, <2>4 DEF Jobs, Stages
  <2> QED
    BY <1>0, <2>1, <2>5 DEF Typed
<1>12. CASE AddLibrary
  <2>1. UNCHANGED <<link, sel, linked, walk, poolSlot>>
    BY <1>12 DEF AddLibrary
  <2>2. slots' \in Seq(Slots) /\ Len(slots) <= Len(slots')
    BY <1>12, AddLibraryGrows DEF Grown
  <2>3. PICK n : Goto("failed") \/ job' = [job EXCEPT !.todo = @ \ {n}, !.progress = TRUE]
    BY <1>12, AddLibraryIs DEF LibraryJoins
  <2>4. job' \in Jobs
    <3>1. CASE Goto("failed")
      <4>1. "failed" \in Stages
        BY DEF Stages
      <4> QED
        BY <1>0, <1>g, <3>1, <4>1
    <3>2. CASE job' = [job EXCEPT !.todo = @ \ {n}, !.progress = TRUE]
      BY <1>0, <3>2 DEF Jobs
    <3> QED
      BY <2>3, <3>1, <3>2
  <2>5. poolSlot' \in 0 .. Len(slots')
    BY <1>0, <2>1, <2>2
  <2> QED
    BY <1>0, <2>1, <2>2, <2>4, <2>5 DEF Typed
<1>13. CASE EndLibraries
  <2>1. UNCHANGED <<sel, link, slots, linked, walk, poolSlot>>
    BY <1>13 DEF EndLibraries
  <2>2. Goto("pool") \/ StartPull(AllLazy(slots), "default")
    BY <1>13 DEF EndLibraries
  <2>3. "pool" \in Stages
    BY DEF Stages
  <2>4. job' \in Jobs
    BY <1>0, <1>a, <1>g, <1>p, <2>2, <2>3
  <2> QED
    BY <1>0, <2>1, <2>4 DEF Typed
<1>14. CASE OfferPool
  <2>1. UNCHANGED <<link, sel, linked, walk>>
    BY <1>14 DEF OfferPool
  <2>2. CASE PoolJoins
    <3>1. slots' \in Seq(Slots) /\ Len(slots') = Len(slots) + 1
      BY <2>2, PoolGrows DEF Grown
    <3>2. poolSlot' = Len(slots')
          /\ StartPull(IF link.inOrder THEN {Len(slots')} ELSE AllLazy(slots'), "assemble")
      BY <2>2 DEF PoolJoins
    <3>3. (IF link.inOrder THEN {Len(slots')} ELSE AllLazy(slots')) \in SUBSET Nat
      BY <1>0, <1>a, <3>1
    <3>4. job' \in Jobs
      BY <1>p, <3>2, <3>3
    <3>5. poolSlot' \in 0 .. Len(slots')
      BY <1>0, <3>1, <3>2
    <3> QED
      BY <1>0, <2>1, <3>1, <3>4, <3>5 DEF Typed
  <2>3. ASSUME NEW s \in {"failed", "assemble"},
               slots' = slots, poolSlot' = poolSlot, Goto(s)
        PROVE  Typed'
    <3>1. s \in Stages
      BY DEF Stages
    <3> QED
      BY <1>0, <1>g, <2>1, <2>3, <3>1 DEF Typed
  <2> QED
    BY <1>14, <2>2, <2>3, OfferPoolIs
<1>15. CASE Assemble
  <2>1. Goto("selected") /\ UNCHANGED <<link, slots, sel, linked, walk, poolSlot>>
    BY <1>15 DEF Assemble
  <2>2. "selected" \in Stages
    BY DEF Stages
  <2> QED
    BY <1>0, <1>g, <2>1, <2>2 DEF Typed
<1> QED
  BY <1>1, <1>2, <1>3, <1>4, <1>5, <1>6, <1>7, <1>8, <1>9, <1>10, <1>11, <1>12,
     <1>13, <1>14, <1>15 DEF SelectStep

\* Growth loses no archive.
LEMMA GrownLazy ==
    ASSUME NEW s, NEW t, Grown(s, t)
    PROVE  AllLazy(s) \subseteq AllLazy(t)
  BY DEF Grown, AllLazy

\* A step keeps what the slots are.
LEMMA SlotsStep == Typed /\ Placed /\ SelectStep => SlotsOK'
<1> SUFFICES ASSUME Typed, Placed, SelectStep PROVE SlotsOK'
  OBVIOUS
<1>a. link' = link
  BY DEF SelectStep, Rebind, WalkFixed, WalkLazy, WalkShared, WalkGroup,
         EndWalk, PullMember, EndSweep, TakeAlternates, EndAlternates,
         DefaultLibraries, AddLibrary, EndLibraries, OfferPool, Assemble
<1>0. slots \in Seq(Slots) /\ Len(slots) \in Nat /\ link.slots \in Seq(Slots) /\ link' = link
  <2>1. slots \in Seq(Slots)
    BY DEF Typed
  <2>2. link.slots \in Seq(Slots)
    BY LinkIs
  <2> QED
    BY <1>a, <2>1, <2>2
<1>1. ASSUME slots' \in Seq(Slots), NoNewGroup(slots, slots'),
             link.inOrder /\ Plain(slots) => Plain(slots')
      PROVE  SlotsOK'
  <2>1. Paired(slots')
    BY <1>0, <1>1, PairedKept DEF Placed, SlotsOK
  <2>2. Len(link.slots) <= Len(slots')
    BY <1>0, <1>1 DEF Placed, SlotsOK, NoNewGroup
  <2> QED
    BY <1>0, <1>1, <2>1, <2>2 DEF Placed, SlotsOK
<1>2. CASE Rebind
  BY <1>1, <1>2, RebindIs
<1>3. CASE AddLibrary
  <2>1. ~link.inOrder
    BY <1>3 DEF Placed, JobOK, AddLibrary, At
  <2> QED
    BY <1>1, <1>3, <2>1, AddLibraryGrows DEF Grown
<1>4. CASE OfferPool
  <2>1. CASE PoolJoins
    BY <1>1, <2>1, PoolGrows DEF Grown
  <2>2. CASE slots' = slots
    BY <1>0, <2>2 DEF Placed, SlotsOK
  <2> QED
    BY <1>4, <2>1, <2>2, OfferPoolIs
<1>5. CASE slots' = slots
  BY <1>0, <1>5 DEF Placed, SlotsOK
<1> QED
  BY <1>2, <1>3, <1>4, <1>5
     DEF SelectStep, WalkFixed, WalkLazy, WalkShared, WalkGroup, EndWalk, PullMember,
         EndSweep, TakeAlternates, EndAlternates, DefaultLibraries, EndLibraries, Assemble

\* A step keeps the walk's depth and group in line with the slots.
LEMMA WalkStep == Typed /\ Placed /\ SelectStep => WalkOK'
<1> SUFFICES ASSUME Typed, Placed, SelectStep PROVE WalkOK'
  OBVIOUS
<1>0. /\ slots \in Seq(Slots) /\ Len(slots) \in Nat /\ walk \in Walks
      /\ walk.at \in Nat \ {0} /\ walk.depth \in Nat
      /\ DOMAIN slots = 1 .. Len(slots)
      /\ WalkOK /\ walk.at - 1 \in 0 .. Len(slots)
  <2>1. slots \in Seq(Slots) /\ walk \in Walks /\ WalkOK
    BY DEF Typed, Placed
  <2>2. walk.at \in Nat \ {0} /\ walk.depth \in Nat
    BY <2>1 DEF Walks
  <2>3. Len(slots) \in Nat /\ DOMAIN slots = 1 .. Len(slots)
    BY <2>1
  <2>4. walk.at <= Len(slots) + 1
    BY <2>1 DEF WalkOK
  <2> QED
    BY <2>1, <2>2, <2>3, <2>4
\* The walk stays, and the slots grow.
<1>1. ASSUME slots' \in Seq(Slots), NoNewGroup(slots, slots'), walk' = walk,
             AllLazy(slots) \subseteq AllLazy(slots') \/ walk.group = {}
      PROVE  WalkOK'
  <2>1. Bounds(slots', walk.at - 1, TRUE) = Bounds(slots, walk.at - 1, TRUE)
    BY <1>0, <1>1, BoundsKept
  <2>2. Bounds(slots', walk.at - 1, FALSE) = Bounds(slots, walk.at - 1, FALSE)
    BY <1>0, <1>1, BoundsKept
  <2>3. walk.at <= Len(slots') + 1
    BY <1>0, <1>1 DEF NoNewGroup
  <2> QED
    BY <1>0, <1>1, <2>1, <2>2, <2>3 DEF WalkOK
\* The walk goes on from slot walk.at.
<1>2. ASSUME slots' = slots, walk.at \in DOMAIN slots,
             NEW w \in Walks, w.at = walk.at, Step(w),
             w.depth + Bounds(slots, walk.at, FALSE) = Bounds(slots, walk.at, TRUE),
             \A k \in w.group : k \in AllLazy(slots) /\ k <= walk.at,
             w.depth = 0 => w.group = {}
      PROVE  WalkOK'
  <2>1. walk'.at = walk.at + 1 /\ walk'.depth = w.depth /\ walk'.group = w.group
    BY <1>2 DEF Step, Walks
  <2>2. walk'.at - 1 = walk.at /\ walk'.at <= Len(slots) + 1
    BY <1>0, <1>2, <2>1
  <2>3. \A k \in w.group : k < walk'.at
    <3>1. w.group \subseteq Nat
      BY DEF Walks
    <3> QED
      BY <1>0, <1>2, <2>1, <3>1
  <2> QED
    BY <1>2, <2>1, <2>2, <2>3 DEF WalkOK
<1>3. ASSUME walk.at \in DOMAIN slots, slots[walk.at].kind # "group"
      PROVE  walk.depth + Bounds(slots, walk.at, FALSE) = Bounds(slots, walk.at, TRUE)
  <2>1. ~GroupAt(slots, walk.at, TRUE) /\ ~GroupAt(slots, walk.at, FALSE)
    BY <1>3 DEF GroupAt
  <2>2. walk.at \in 1 .. Len(slots)
    BY <1>0, <1>3
  <2>3. Bounds(slots, walk.at, TRUE) = Bounds(slots, walk.at - 1, TRUE)
    BY <1>0, <2>1, <2>2, BoundsStep
  <2>4. Bounds(slots, walk.at, FALSE) = Bounds(slots, walk.at - 1, FALSE)
    BY <1>0, <2>1, <2>2, BoundsStep
  <2> QED
    BY <1>0, <2>3, <2>4 DEF WalkOK
<1>4. \A k \in walk.group : k \in AllLazy(slots) /\ k <= walk.at
  BY <1>0 DEF WalkOK, Walks
<1>5. ASSUME slots' = slots, Step(walk), walk.at \in DOMAIN slots, slots[walk.at].kind # "group"
      PROVE  WalkOK'
  BY <1>0, <1>2, <1>3, <1>4, <1>5 DEF WalkOK
<1>6. ASSUME slots' = slots, walk' = walk
      PROVE  WalkOK'
  BY <1>0, <1>6 DEF WalkOK
<1>7. CASE Rebind
  <2>1. walk' = walk /\ At("rebind")
    BY <1>7 DEF Rebind
  <2>2. walk.group = {}
    <3>1. walk.at = 1
      BY <2>1 DEF Placed, JobOK
    <3> QED
      BY <1>0, <3>1 DEF WalkOK, AllLazy
  <2> QED
    BY <1>1, <1>7, <2>1, <2>2, RebindIs
<1>8. CASE WalkFixed
  <2>1. slots' = slots /\ walk.at \in DOMAIN slots /\ slots[walk.at].kind # "group"
    BY <1>8, <1>0 DEF WalkFixed, InWalk
  <2>2. CASE Step(walk)
    BY <1>5, <2>1, <2>2
  <2>3. CASE walk' = [walk EXCEPT !.obj = @ + 1]
    <3>1. walk'.at = walk.at /\ walk'.depth = walk.depth /\ walk'.group = walk.group
      BY <1>0, <2>3 DEF Walks
    <3> QED
      BY <1>0, <2>1, <3>1 DEF WalkOK
  <2> QED
    BY <1>8, <2>2, <2>3 DEF WalkFixed
<1>9. CASE WalkLazy
  <2>1. slots' = slots /\ walk.at \in DOMAIN slots /\ slots[walk.at].kind = "lazy"
    BY <1>9, <1>0 DEF WalkLazy, InWalk
  <2>2. CASE Step(walk)
    BY <1>5, <2>1, <2>2
  <2>3. CASE walk.depth > 0 /\ Step([walk EXCEPT !.group = @ \cup {walk.at}])
    <3>1. PICK w : w = [walk EXCEPT !.group = @ \cup {walk.at}]
      OBVIOUS
    <3>2. /\ w \in Walks /\ w.at = walk.at /\ w.depth = walk.depth
          /\ w.group = walk.group \cup {walk.at}
      BY <1>0, <3>1 DEF Walks
    <3>3. \A k \in w.group : k \in AllLazy(slots) /\ k <= walk.at
      BY <1>0, <1>4, <2>1, <3>2 DEF AllLazy
    <3>4. w.depth # 0
      BY <1>0, <2>3, <3>2
    <3>5. w.depth + Bounds(slots, walk.at, FALSE) = Bounds(slots, walk.at, TRUE)
      BY <1>3, <2>1, <3>2
    <3>6. Step(w)
      BY <2>3, <3>1
    <3> QED
      BY <1>2, <2>1, <3>2, <3>3, <3>4, <3>5, <3>6
  <2> QED
    BY <1>9, <2>2, <2>3 DEF WalkLazy
<1>10. CASE WalkShared
  <2>1. slots' = slots /\ walk.at \in DOMAIN slots /\ slots[walk.at].kind # "group" /\ Step(walk)
    BY <1>10, <1>0 DEF WalkShared, InWalk
  <2> QED
    BY <1>5, <2>1
<1>11. CASE WalkGroup
  <2>1. slots' = slots /\ walk.at \in DOMAIN slots /\ slots[walk.at].kind = "group"
    BY <1>11, <1>0 DEF WalkGroup, InWalk
  <2>2. slots[walk.at].start \in BOOLEAN
    BY <1>0, <2>1, SlotIs
  <2>3. PICK depth : /\ depth = IF slots[walk.at].start THEN walk.depth + 1 ELSE walk.depth - 1
                     /\ \/ depth = 0 /\ Step([walk EXCEPT !.depth = 0, !.group = {}])
                        \/ depth # 0 /\ Step([walk EXCEPT !.depth = depth])
    <3> HIDE DEF Step, StartPull
    <3> QED
      BY <1>11 DEF WalkGroup
  <2>4. walk.at \in 1 .. Len(slots) /\ walk.at \in 0 .. Len(slots)
    BY <1>0, <2>1
  <2>5. PICK t \in Nat, e \in Nat :
           t = Bounds(slots, walk.at - 1, TRUE) /\ e = Bounds(slots, walk.at - 1, FALSE)
    <3>1. walk.at - 1 \in Nat
      BY <1>0
    <3> QED
      BY <3>1, BoundsType
  <2>6. PICK t1 \in Nat, e1 \in Nat :
           t1 = Bounds(slots, walk.at, TRUE) /\ e1 = Bounds(slots, walk.at, FALSE)
    <3>1. walk.at \in Nat
      BY <1>0
    <3> QED
      BY <3>1, BoundsType
  <2>7. walk.depth + e = t /\ e1 <= t1
    <3>1. e1 <= t1
      BY <2>4, <2>6, PairedAt DEF Placed, SlotsOK
    <3> QED
      BY <1>0, <2>5, <3>1 DEF WalkOK
  <2>8. depth + e1 = t1 /\ depth \in Nat
    <3>1. CASE slots[walk.at].start
      <4>1. GroupAt(slots, walk.at, TRUE) /\ ~GroupAt(slots, walk.at, FALSE)
        BY <2>1, <3>1, <2>2 DEF GroupAt
      <4>2. Bounds(slots, walk.at, TRUE) = Bounds(slots, walk.at - 1, TRUE) + 1
        BY <1>0, <4>1, <2>4, BoundsStep
      <4>3. Bounds(slots, walk.at, FALSE) = Bounds(slots, walk.at - 1, FALSE)
        BY <1>0, <4>1, <2>4, BoundsStep
      <4>4. t1 = t + 1 /\ e1 = e /\ depth = walk.depth + 1
        BY <2>3, <2>5, <2>6, <3>1, <4>2, <4>3
      <4> QED
        BY <1>0, <2>7, <4>4
    <3>2. CASE ~slots[walk.at].start
      <4>1. ~GroupAt(slots, walk.at, TRUE) /\ GroupAt(slots, walk.at, FALSE)
        BY <2>1, <3>2, <2>2 DEF GroupAt
      <4>2. Bounds(slots, walk.at, TRUE) = Bounds(slots, walk.at - 1, TRUE)
        BY <1>0, <4>1, <2>4, BoundsStep
      <4>3. Bounds(slots, walk.at, FALSE) = Bounds(slots, walk.at - 1, FALSE) + 1
        BY <1>0, <4>1, <2>4, BoundsStep
      <4>4. t1 = t /\ e1 = e + 1 /\ depth = walk.depth - 1
        BY <2>3, <2>5, <2>6, <3>2, <4>2, <4>3
      <4> QED
        BY <1>0, <2>7, <4>4
    <3> QED
      BY <3>1, <3>2
  <2>9. CASE depth = 0 /\ Step([walk EXCEPT !.depth = 0, !.group = {}])
    <3>1. PICK w : w = [walk EXCEPT !.depth = 0, !.group = {}]
      OBVIOUS
    <3>2. w \in Walks /\ w.at = walk.at /\ w.depth = 0 /\ w.group = {} /\ Step(w)
      BY <1>0, <2>9, <3>1 DEF Walks
    <3>3. w.depth + Bounds(slots, walk.at, FALSE) = Bounds(slots, walk.at, TRUE)
      BY <2>6, <2>8, <2>9, <3>2
    <3> QED
      BY <1>2, <2>1, <3>2, <3>3
  <2>10. CASE depth # 0 /\ Step([walk EXCEPT !.depth = depth])
    <3>1. PICK w : w = [walk EXCEPT !.depth = depth]
      OBVIOUS
    <3>2. w \in Walks /\ w.at = walk.at /\ w.depth = depth /\ w.group = walk.group /\ Step(w)
      BY <1>0, <2>8, <2>10, <3>1 DEF Walks
    <3>3. w.depth + Bounds(slots, walk.at, FALSE) = Bounds(slots, walk.at, TRUE)
      BY <2>6, <2>8, <3>2
    <3> QED
      BY <1>2, <1>4, <2>1, <2>10, <3>2, <3>3
  <2> QED
    BY <2>3, <2>9, <2>10
<1>12. CASE AddLibrary
  <2>1. walk' = walk
    BY <1>12 DEF AddLibrary
  <2> QED
    BY <1>1, <1>12, <2>1, AddLibraryGrows, GrownLazy DEF Grown
<1>13. CASE OfferPool
  <2>1. walk' = walk
    BY <1>13 DEF OfferPool
  <2>2. CASE PoolJoins
    BY <1>1, <2>1, <2>2, PoolGrows, GrownLazy DEF Grown
  <2>3. CASE slots' = slots
    BY <1>6, <2>1, <2>3
  <2> QED
    BY <1>13, <2>2, <2>3, OfferPoolIs
<1>14. CASE EndWalk \/ PullMember \/ EndSweep \/ TakeAlternates \/ EndAlternates
            \/ DefaultLibraries \/ EndLibraries \/ Assemble
  <2>1. slots' = slots /\ walk' = walk
    BY <1>14 DEF EndWalk, PullMember, EndSweep, TakeAlternates, EndAlternates,
                 DefaultLibraries, EndLibraries, Assemble
  <2> QED
    BY <1>6, <2>1
<1> QED
  BY <1>7, <1>8, <1>9, <1>10, <1>11, <1>12, <1>13, <1>14 DEF SelectStep

\* A change of stage changes nothing else.
LEMMA GotoIs ==
    ASSUME Typed, NEW s, Goto(s)
    PROVE  /\ job'.stage = s /\ job'.span = job.span /\ job'.ret = job.ret
           /\ job'.todo = job.todo /\ job'.progress = job.progress /\ job'.after = job.after
<1> HIDE DEF Stages
<1> QED
  BY DEF Typed, Jobs, Goto

\* A pull starts at the first member.
LEMMA StartPullIs ==
    ASSUME NEW span, NEW ret, StartPull(span, ret)
    PROVE  /\ job'.stage = "pull" /\ job'.span = span /\ job'.ret = ret
           /\ job'.todo = {} /\ job'.progress = FALSE /\ job'.after = Start
  BY DEF StartPull

\* The member a sweep takes is the first one asked for.
LEMMA PullIs ==
    ASSUME Typed, Placed, PullMember
    PROVE  \E m \in Rest :
             /\ m \in Sweep /\ IsMember(m) /\ Obj(m) \in Objects
             /\ m[1] \in job.span /\ slots[m[1]].kind = "lazy" /\ m \in Nat \X Nat
             /\ Wanted(m) # {}
             /\ \/ Goto("failed") /\ sel' = sel /\ linked' = linked
                \/ /\ \E n \in Wanted(m) :
                         sel' = [Account(sel, Obj(m)) EXCEPT !.inclusions =
                                   Append(@, [member |-> m, symbol |-> n,
                                              by |-> sel.undefined[n]])]
                   /\ linked' = Append(linked, m)
                   /\ job' = [job EXCEPT !.after = m, !.progress = TRUE]
<1>1. PICK m \in Rest :
         /\ Wanted(m) # {}
         /\ \/ Goto("failed") /\ sel' = sel /\ linked' = linked
            \/ /\ \E n \in Wanted(m) :
                     sel' = [Account(sel, Obj(m)) EXCEPT !.inclusions =
                               Append(@, [member |-> m, symbol |-> n, by |-> sel.undefined[n]])]
               /\ linked' = Append(linked, m)
               /\ job' = [job EXCEPT !.after = m, !.progress = TRUE]
  BY DEF PullMember
<1>2. m \in Sweep /\ Pulling
  BY DEF Rest, PullMember, Pulling, At
<1>3. /\ IsMember(m) /\ Obj(m) \in Objects /\ m[1] \in job.span
      /\ slots[m[1]].kind = "lazy" /\ m \in Nat \X Nat
  BY <1>2, SweepIs
<1> HIDE DEF Goto, Account
<1> QED
  BY <1>1, <1>2, <1>3

\* What a take of one alternate leaves.
LEMMA TakeIs ==
    ASSUME Typed, Placed, TakeAlternates
    PROVE  \E n \in job.todo :
             /\ n \in DOMAIN sel.alternates /\ n \in Undefined
             /\ sel' \in Selections
             /\ sel'.defined = sel.defined
             /\ sel'.shared = sel.shared
             /\ sel'.alternates = sel.alternates
             /\ sel'.inclusions = sel.inclusions
             /\ DOMAIN sel'.undefined = (Undefined \ {n})
                                          \cup (IF Asking(sel, n) THEN {AltOf(sel, n)} ELSE {})
             /\ \A m \in DOMAIN sel'.undefined :
                   sel'.undefined[m] = IF Asking(sel, n) /\ m = AltOf(sel, n)
                                       THEN sel.undefined[n] ELSE sel.undefined[m]
             /\ job'.progress <=>
                   job.progress \/ (Asking(sel, n) /\ AltOf(sel, n) \notin Undefined \ {n})
             /\ job'.progress \in BOOLEAN
             /\ job'.stage = "alternates" /\ job'.span = job.span /\ job'.ret = job.ret
             /\ job'.after = job.after /\ job'.todo = job.todo \ {n}
<1>1. PICK n, t :
         /\ n \in job.todo
         /\ t = TakeAlternate(<<sel, job.progress>>, n)
         /\ sel' = t[1]
         /\ job' = [job EXCEPT !.todo = @ \ {n}, !.progress = t[2]]
  BY DEF TakeAlternates
<1>2. job \in Jobs /\ sel \in Selections /\ job.stage = "alternates"
  BY DEF Typed, TakeAlternates, At
<1>3. n \in DOMAIN sel.alternates \cap DOMAIN sel.undefined /\ job.progress \in BOOLEAN
  <2>1. job.progress \in BOOLEAN
    BY <1>2 DEF Jobs
  <2> QED
    BY <1>1, <1>2, <2>1 DEF Placed, JobOK, Stalled, Undefined, At
<1>4. /\ job'.progress = t[2] /\ job'.stage = "alternates" /\ job'.span = job.span
      /\ job'.ret = job.ret /\ job'.after = job.after /\ job'.todo = job.todo \ {n}
  <2> HIDE DEF Stages
  <2> QED
    BY <1>1, <1>2 DEF Jobs
<1>5. /\ t[1] \in Selections
      /\ t[1].defined = sel.defined
      /\ t[1].shared = sel.shared
      /\ t[1].alternates = sel.alternates
      /\ t[1].inclusions = sel.inclusions
      /\ DOMAIN t[1].undefined = (DOMAIN sel.undefined \ {n})
                                   \cup (IF Asking(sel, n) THEN {AltOf(sel, n)} ELSE {})
      /\ \A m \in DOMAIN t[1].undefined :
            t[1].undefined[m] = IF Asking(sel, n) /\ m = AltOf(sel, n)
                                THEN sel.undefined[n] ELSE sel.undefined[m]
      /\ t[2] \in BOOLEAN
      /\ t[2] <=> job.progress \/ (Asking(sel, n) /\ AltOf(sel, n) \notin DOMAIN sel.undefined \ {n})
  BY <1>1, <1>2, <1>3, TakeAlternateIs
<1> HIDE DEF TakeAlternate, Asking, AltOf, Selections
<1>5a. n \in job.todo
  BY <1>1
<1>6. WITNESS n \in job.todo
<1> QED
  BY <1>1, <1>3, <1>4, <1>5 DEF Undefined

\* A step keeps the job in line with the walk.
LEMMA JobStep == Typed /\ Placed /\ SelectStep => JobOK'
<1> SUFFICES ASSUME Typed, Placed, SelectStep PROVE JobOK'
  OBVIOUS
<1> HIDE DEF Goto, StartPull
<1>0. JobOK /\ link' = link /\ job \in Jobs /\ link.inOrder \in BOOLEAN
  <2>1. link' = link
    BY DEF SelectStep, Rebind, WalkFixed, WalkLazy, WalkShared, WalkGroup,
           EndWalk, PullMember, EndSweep, TakeAlternates, EndAlternates,
           DefaultLibraries, AddLibrary, EndLibraries, OfferPool, Assemble
  <2> QED
    BY <2>1, LinkIs DEF Typed, Placed
<1>1. ASSUME NEW s, Goto(s), s \notin {"pull", "alternates", "libraries", "rebind"},
             s = "default" => ~link.inOrder
      PROVE  JobOK'
  <2>1. job'.stage = s
    BY <1>1, GotoIs
  <2> QED
    BY <1>0, <1>1, <2>1 DEF JobOK, Pulling, At
<1>2. ASSUME NEW span, NEW ret, StartPull(span, ret), span \subseteq AllLazy(slots'),
             ret = "default" => ~link.inOrder
      PROVE  JobOK'
  <2>1. job'.stage = "pull" /\ job'.span = span /\ job'.ret = ret
    BY <1>2, StartPullIs
  <2> QED
    BY <1>0, <1>2, <2>1 DEF JobOK, Pulling, At
<1>3. ASSUME job' = job, At("walk")
      PROVE  JobOK'
  <2>1. job'.stage = "walk"
    BY <1>3 DEF At
  <2> QED
    BY <1>0, <1>3, <2>1 DEF JobOK, Pulling, At
<1>4. CASE Rebind
  <2>1. PICK s \in {"walk", "failed"} : Goto(s)
    BY <1>4 DEF Rebind
  <2> QED
    BY <1>1, <2>1
<1>5. CASE WalkFixed \/ WalkShared
  <2>1. job' = job /\ At("walk")
    BY <1>5 DEF WalkFixed, WalkShared, InWalk
  <2> QED
    BY <1>3, <2>1
<1>6. CASE WalkLazy
  <2>1. /\ At("walk") /\ slots' = slots /\ walk.at \in AllLazy(slots)
    <3>1. walk.at \in Nat \ {0} /\ slots \in Seq(Slots)
      BY DEF Typed, Walks
    <3> QED
      BY <1>6, <3>1 DEF WalkLazy, InWalk, AllLazy
  <2>2. job' = job \/ StartPull({walk.at}, "walk")
    BY <1>6 DEF WalkLazy
  <2>3. CASE job' = job
    BY <1>3, <2>1, <2>3
  <2>4. CASE StartPull({walk.at}, "walk")
    BY <1>2, <2>1, <2>4
  <2> QED
    BY <2>2, <2>3, <2>4
<1>7. CASE WalkGroup
  <2>1. At("walk") /\ slots' = slots /\ walk.group \subseteq AllLazy(slots)
    BY <1>7 DEF WalkGroup, InWalk, Placed, WalkOK
  <2>2. job' = job \/ StartPull(walk.group, "walk")
    BY <1>7 DEF WalkGroup
  <2>3. CASE job' = job
    BY <1>3, <2>1, <2>3
  <2>4. CASE StartPull(walk.group, "walk")
    BY <1>2, <2>1, <2>4
  <2> QED
    BY <2>2, <2>3, <2>4
<1>8. CASE EndWalk
  <2>1. slots' = slots
    BY <1>8 DEF EndWalk
  <2>2. Goto("pool") \/ (~link.inOrder /\ StartPull(AllLazy(slots), "default"))
    BY <1>8 DEF EndWalk
  <2>3. CASE Goto("pool")
    BY <1>1, <2>3
  <2>4. CASE ~link.inOrder /\ StartPull(AllLazy(slots), "default")
    BY <1>2, <2>1, <2>4
  <2> QED
    BY <2>2, <2>3, <2>4
<1>9. CASE PullMember
  <2>1. slots' = slots /\ job.stage = "pull"
    BY <1>9 DEF PullMember, At
  <2>2. PICK m : Goto("failed") \/ job' = [job EXCEPT !.after = m, !.progress = TRUE]
    BY <1>9 DEF PullMember
  <2>3. CASE Goto("failed")
    BY <1>1, <2>3
  <2>4. CASE job' = [job EXCEPT !.after = m, !.progress = TRUE]
    <3>1. job'.stage = "pull" /\ job'.span = job.span /\ job'.ret = job.ret
      BY <1>0, <2>1, <2>4 DEF Jobs
    <3> QED
      BY <1>0, <2>1, <3>1 DEF JobOK, Pulling, At
  <2> QED
    BY <2>2, <2>3, <2>4
<1>10. CASE EndSweep
  <2>1. slots' = slots /\ sel' = sel /\ job.stage = "pull"
    BY <1>10 DEF EndSweep, At
  <2>2. \/ job' = [job EXCEPT !.after = Start, !.progress = FALSE]
        \/ job' = [job EXCEPT !.stage = "alternates", !.todo = Stalled]
    BY <1>10 DEF EndSweep
  <2>3. CASE job' = [job EXCEPT !.after = Start, !.progress = FALSE]
    <3>1. job'.stage = "pull" /\ job'.span = job.span /\ job'.ret = job.ret
      BY <1>0, <2>1, <2>3 DEF Jobs
    <3> QED
      BY <1>0, <2>1, <3>1 DEF JobOK, Pulling, At
  <2>4. CASE job' = [job EXCEPT !.stage = "alternates", !.todo = Stalled]
    <3>1. /\ job'.stage = "alternates" /\ job'.span = job.span /\ job'.ret = job.ret
          /\ job'.todo = Stalled
      BY <1>0, <2>1, <2>4 DEF Jobs
    <3>2. Stalled' = Stalled
      BY <2>1 DEF Stalled, Undefined
    <3> QED
      BY <1>0, <2>1, <3>1, <3>2 DEF JobOK, Pulling, At
  <2> QED
    BY <2>2, <2>3, <2>4
<1>11. CASE TakeAlternates
  <2>1. slots' = slots /\ job.stage = "alternates"
    BY <1>11 DEF TakeAlternates, At
  <2>2. PICK n \in job.todo :
           /\ sel'.alternates = sel.alternates
           /\ Undefined \ {n} \subseteq Undefined'
           /\ job'.stage = "alternates" /\ job'.span = job.span /\ job'.ret = job.ret
           /\ job'.todo = job.todo \ {n}
    BY <1>11, TakeIs DEF Undefined
  <2>3. job'.todo \subseteq Stalled'
    BY <1>0, <2>1, <2>2 DEF JobOK, Stalled, At
  <2> QED
    BY <1>0, <2>1, <2>2, <2>3 DEF JobOK, Pulling, At
<1>12. CASE EndAlternates
  <2>1. slots' = slots /\ Pulling
    BY <1>12 DEF EndAlternates, At, Pulling
  <2>2. job.ret \in {"walk", "default", "assemble"} /\ (link.inOrder => job.ret # "default")
    BY <1>0, <2>1 DEF Jobs, JobOK
  <2>3. job.span \subseteq AllLazy(slots')
    BY <1>0, <2>1 DEF JobOK
  <2>4. CASE StartPull(job.span, job.ret)
    BY <1>2, <2>2, <2>3, <2>4
  <2>5. CASE Goto(job.ret)
    BY <1>1, <2>2, <2>5
  <2> QED
    BY <1>12, <2>4, <2>5 DEF EndAlternates
<1>13. CASE DefaultLibraries
  <2>1. PICK todo \in SUBSET DOMAIN link.libs :
           job' = [job EXCEPT !.stage = "libraries", !.progress = FALSE, !.todo = todo]
    BY <1>13 DEF DefaultLibraries
  <2>2. job'.stage = "libraries" /\ job'.todo = todo
    BY <1>0, <2>1 DEF Jobs
  <2>3. ~link.inOrder
    BY <1>0, <1>13 DEF DefaultLibraries, JobOK, At
  <2> QED
    BY <1>0, <2>1, <2>2, <2>3 DEF JobOK, Pulling, At
<1>14. CASE AddLibrary
  <2>1. job.stage = "libraries"
    BY <1>14, AddLibraryIs
  <2>2. CASE Goto("failed")
    BY <1>1, <2>2
  <2>3. ASSUME NEW n, job' = [job EXCEPT !.todo = @ \ {n}, !.progress = TRUE] PROVE JobOK'
    <3>1. job'.stage = "libraries" /\ job'.todo = job.todo \ {n}
      BY <1>0, <2>1, <2>3 DEF Jobs
    <3> QED
      BY <1>0, <2>1, <3>1 DEF JobOK, Pulling, At
  <2> QED
    BY <1>14, <2>2, <2>3, AddLibraryIs DEF LibraryJoins
<1>15. CASE EndLibraries
  <2>1. slots' = slots /\ ~link.inOrder
    BY <1>0, <1>15 DEF EndLibraries, JobOK, At
  <2>2. CASE Goto("pool")
    BY <1>1, <2>2
  <2>3. CASE StartPull(AllLazy(slots), "default")
    BY <1>2, <2>1, <2>3
  <2> QED
    BY <1>15, <2>2, <2>3 DEF EndLibraries
<1>16. CASE OfferPool
  <2>1. CASE PoolJoins
    <3>1. StartPull(IF link.inOrder THEN {Len(slots')} ELSE AllLazy(slots'), "assemble")
      BY <2>1 DEF PoolJoins
    <3>2. Len(slots') \in AllLazy(slots')
      <4>1. slots' \in Seq(Slots) /\ Len(slots') = Len(slots) + 1 /\ Len(slots) \in Nat
            /\ slots'[Len(slots')].kind = "lazy"
        BY <2>1, PoolGrows DEF Grown, Typed
      <4> QED
        BY <4>1 DEF AllLazy
    <3>3. (IF link.inOrder THEN {Len(slots')} ELSE AllLazy(slots')) \subseteq AllLazy(slots')
      BY <3>2
    <3> QED
      BY <1>2, <3>1, <3>3
  <2>2. ASSUME NEW s \in {"failed", "assemble"}, Goto(s)
        PROVE  JobOK'
    BY <1>1, <2>2
  <2> QED
    BY <1>16, <2>1, <2>2, OfferPoolIs
<1>17. CASE Assemble
  <2>1. Goto("selected")
    BY <1>17 DEF Assemble
  <2> QED
    BY <1>1, <2>1
<1> QED
  BY <1>4, <1>5, <1>6, <1>7, <1>8, <1>9, <1>10, <1>11, <1>12, <1>13, <1>14, <1>15,
     <1>16, <1>17 DEF SelectStep

\* A step keeps the slots, the walk and the job in agreement.
LEMMA PlacedStep == Typed /\ Placed /\ SelectStep => Placed'
  BY SlotsStep, WalkStep, JobStep DEF Placed

(***************************************************************************)
(* What the steps do to the objects of the link.                           *)
(***************************************************************************)
\* The slots of the objects in the link stay as they are once the first one
\* is accounted for.
Kept == \A i \in DOMAIN linked :
            /\ linked[i][1] \in DOMAIN slots'
            /\ slots'[linked[i][1]] = slots[linked[i][1]]

\* A step accounts for one object more, m.
Joins(m) ==
    /\ slots' = slots
    /\ IsMember(m) /\ m \in Nat \X Nat /\ Obj(m) \in Objects
    /\ ~InLink(m)
    /\ linked' = Append(linked, m)

\* Object m of an input joins the link.
FixedJoins(m) ==
    /\ Joins(m)
    /\ m = <<walk.at, walk.obj>>
    /\ slots[m[1]].kind = "fixed"
    /\ sel' = Account(sel, Obj(m))
    /\ walk' = [walk EXCEPT !.obj = @ + 1]
    /\ At("walk") /\ job' = job

\* Member m of an archive joins the link.
PulledJoins(m) ==
    /\ Joins(m)
    /\ m \in Rest /\ m \in Sweep
    /\ m[1] \in job.span /\ slots[m[1]].kind = "lazy"
    /\ \E n \in Wanted(m) :
          sel' = [Account(sel, Obj(m)) EXCEPT !.inclusions =
                    Append(@, [member |-> m, symbol |-> n, by |-> sel.undefined[n]])]
    /\ walk' = walk
    /\ At("pull") /\ job' = [job EXCEPT !.after = m, !.progress = TRUE]

\* The other steps of the selection account for none.
NoneJoins ==
    /\ linked' = linked
    /\ walk'.at >= walk.at
    /\ walk'.at = walk.at => walk'.obj = walk.obj
    /\ Kept

\* An input's object joins, or the walk goes on.
LEMMA FixedIs ==
    ASSUME Typed, Placed, Once, WalkFixed
    PROVE  \/ \E m \in Nat \X Nat : FixedJoins(m)
           \/ Step(walk) /\ UNCHANGED <<sel, linked, slots, job>>
<1>0. walk.at \in Nat \ {0} /\ walk.obj \in Nat \ {0} /\ slots \in Seq(Slots)
  BY DEF Typed, Walks
<1>1. /\ walk.at \in DOMAIN slots /\ slots[walk.at].kind = "fixed"
      /\ slots' = slots /\ job' = job /\ At("walk")
  BY <1>0 DEF WalkFixed, InWalk
<1>2. slots[walk.at].objs \in Seq(Objects)
  BY <1>1, ObjsIs
<1>3. CASE walk.obj <= Len(slots[walk.at].objs)
  <2>1. /\ sel' = Account(sel, slots[walk.at].objs[walk.obj])
        /\ linked' = Append(linked, <<walk.at, walk.obj>>)
        /\ walk' = [walk EXCEPT !.obj = @ + 1]
    <3>1. ~(walk.obj > Len(slots[walk.at].objs))
      BY <1>0, <1>2, <1>3
    <3> QED
      BY <3>1 DEF WalkFixed
  <2>2. PICK m \in Nat \X Nat : m = <<walk.at, walk.obj>>
    BY <1>0
  <2>3. m[1] = walk.at /\ m[2] = walk.obj
    BY <2>2
  <2>4. IsMember(m)
    BY <1>0, <1>1, <1>2, <1>3, <2>3 DEF IsMember, HasObjects
  <2>5. ~InLink(m)
    <3> SUFFICES ASSUME NEW i \in DOMAIN linked, linked[i] = m PROVE FALSE
      BY DEF InLink
    <3>1. Before(linked[i], <<walk.at, walk.obj>>)
      BY <1>1, <2>3 DEF Once
    <3> QED
      BY <1>0, <2>2, <3>1 DEF Before
  <2>6. Obj(m) = slots[walk.at].objs[walk.obj] /\ Obj(m) \in Objects
    BY <2>3, <2>4, ObjIs DEF Obj
  <2>7. FixedJoins(m)
    BY <1>1, <2>1, <2>2, <2>3, <2>4, <2>5, <2>6 DEF FixedJoins, Joins
  <2> QED
    BY <2>7
<1>4. CASE ~(walk.obj <= Len(slots[walk.at].objs))
  BY <1>1, <1>4 DEF WalkFixed
<1> QED
  BY <1>3, <1>4

\* A member joins, or the link fails.
LEMMA PulledIs ==
    ASSUME Typed, Placed, PullMember
    PROVE  \/ \E m \in Nat \X Nat : PulledJoins(m)
           \/ Goto("failed") /\ UNCHANGED <<sel, linked, slots, walk>>
<1>1. slots' = slots /\ walk' = walk /\ At("pull")
  BY DEF PullMember
<1>2. PICK m \in Rest :
             /\ m \in Sweep /\ IsMember(m) /\ Obj(m) \in Objects
             /\ m[1] \in job.span /\ slots[m[1]].kind = "lazy" /\ m \in Nat \X Nat
             /\ Wanted(m) # {}
             /\ \/ Goto("failed") /\ sel' = sel /\ linked' = linked
                \/ /\ \E n \in Wanted(m) :
                         sel' = [Account(sel, Obj(m)) EXCEPT !.inclusions =
                                   Append(@, [member |-> m, symbol |-> n,
                                              by |-> sel.undefined[n]])]
                   /\ linked' = Append(linked, m)
                   /\ job' = [job EXCEPT !.after = m, !.progress = TRUE]
  BY PullIs
<1>3. ~InLink(m)
  BY <1>2 DEF Wanted
<1>4. CASE Goto("failed") /\ sel' = sel /\ linked' = linked
  BY <1>1, <1>4
<1>5. CASE /\ \E n \in Wanted(m) :
                    sel' = [Account(sel, Obj(m)) EXCEPT !.inclusions =
                              Append(@, [member |-> m, symbol |-> n,
                                         by |-> sel.undefined[n]])]
           /\ linked' = Append(linked, m)
           /\ job' = [job EXCEPT !.after = m, !.progress = TRUE]
  <2>1. PulledJoins(m)
    BY <1>1, <1>2, <1>3, <1>5 DEF PulledJoins, Joins
  <2> QED
    BY <1>2, <2>1
<1> QED
  BY <1>2, <1>4, <1>5

\* The walk goes to the next slot.
LEMMA StepIs ==
    ASSUME Typed, NEW w \in Walks, w.at = walk.at, Step(w)
    PROVE  /\ walk'.at = walk.at + 1 /\ walk'.obj = 1
           /\ walk'.depth = w.depth /\ walk'.group = w.group
           /\ walk.at \in Nat
<1>1. walk' = [w EXCEPT !.at = w.at + 1, !.obj = 1] /\ walk.at \in Nat
  BY DEF Step, Typed, Walks
<1> QED
  BY <1>1 DEF Walks

\* Growth leaves the objects of the link where they are.
LEMMA GrownKeeps ==
    ASSUME Once, Grown(slots, slots')
    PROVE  Kept
<1>1. \A i \in DOMAIN linked : linked[i][1] \in DOMAIN slots
  BY DEF Once, IsMember, HasObjects
<1> QED
  BY <1>1 DEF Kept, Grown

\* Every step of the selection is one of the three.
LEMMA StepJoins ==
    ASSUME Typed, Placed, Once, SelectStep
    PROVE  \/ \E m \in Nat \X Nat : FixedJoins(m) \/ PulledJoins(m)
           \/ NoneJoins
<1>0. walk.at \in Nat /\ walk \in Walks
  BY DEF Typed, Walks
<1>a. ASSUME slots' = slots PROVE Kept
  BY <1>a DEF Kept, Once, IsMember, HasObjects
<1>b. ASSUME slots' = slots, linked' = linked, NEW w \in Walks, w.at = walk.at, Step(w)
      PROVE  NoneJoins
  <2>1. walk'.at = walk.at + 1
    BY <1>b, StepIs
  <2> QED
    BY <1>0, <1>a, <1>b, <2>1 DEF NoneJoins
<1>c. ASSUME Kept, linked' = linked, walk' = walk
      PROVE  NoneJoins
  BY <1>0, <1>c DEF NoneJoins
<1>1. CASE Rebind
  <2>1. linked' = linked /\ walk' = walk /\ linked = <<>>
    BY <1>1 DEF Rebind, Placed, JobOK
  <2>2. Kept
    BY <2>1 DEF Kept
  <2> QED
    BY <1>c, <2>1, <2>2
<1>2. CASE WalkFixed
  BY <1>0, <1>2, <1>b, FixedIs
<1>3. CASE WalkLazy
  <2>1. slots' = slots /\ linked' = linked
    BY <1>3 DEF WalkLazy
  <2>2. PICK w : Step(w) /\ (w = walk \/ w = [walk EXCEPT !.group = @ \cup {walk.at}])
    BY <1>3 DEF WalkLazy
  <2>3. w \in Walks /\ w.at = walk.at
    BY <1>0, <2>2 DEF Walks
  <2> QED
    BY <1>b, <2>1, <2>2, <2>3
<1>4. CASE WalkShared
  <2>1. slots' = slots /\ linked' = linked /\ Step(walk)
    BY <1>4 DEF WalkShared
  <2> QED
    BY <1>0, <1>b, <2>1
<1>5. CASE WalkGroup
  <2>1. slots' = slots /\ linked' = linked
    BY <1>5 DEF WalkGroup
  <2>2. PICK d : \/ Step([walk EXCEPT !.depth = 0, !.group = {}])
                 \/ Step([walk EXCEPT !.depth = d])
    BY <1>5 DEF WalkGroup
  <2>3. walk'.at = walk.at + 1
    BY <1>0, <2>2 DEF Step, Walks
  <2> QED
    BY <1>0, <1>a, <2>1, <2>3 DEF NoneJoins
<1>6. CASE PullMember
  <2>1. CASE slots' = slots /\ linked' = linked /\ walk' = walk
    BY <1>a, <1>c, <2>1
  <2> QED
    BY <1>6, <2>1, PulledIs
<1>7. CASE AddLibrary
  <2>1. linked' = linked /\ walk' = walk
    BY <1>7 DEF AddLibrary
  <2> QED
    BY <1>7, <1>c, <2>1, AddLibraryGrows, GrownKeeps
<1>8. CASE OfferPool
  <2>1. linked' = linked /\ walk' = walk
    BY <1>8 DEF OfferPool
  <2>2. CASE PoolJoins
    BY <1>c, <2>1, <2>2, PoolGrows, GrownKeeps
  <2>3. CASE slots' = slots
    BY <1>a, <1>c, <2>1, <2>3
  <2> QED
    BY <1>8, <2>2, <2>3, OfferPoolIs
<1>9. CASE EndWalk \/ EndSweep \/ TakeAlternates \/ EndAlternates
           \/ DefaultLibraries \/ EndLibraries \/ Assemble
  <2>1. slots' = slots /\ linked' = linked /\ walk' = walk
    BY <1>9 DEF EndWalk, EndSweep, TakeAlternates, EndAlternates,
                DefaultLibraries, EndLibraries, Assemble
  <2> QED
    BY <1>a, <1>c, <2>1
<1> QED
  BY <1>1, <1>2, <1>3, <1>4, <1>5, <1>6, <1>7, <1>8, <1>9 DEF SelectStep

\* What the link is after an object joined.
LEMMA JoinIs ==
    ASSUME Typed, NEW m, Joins(m)
    PROVE  /\ Len(linked) \in Nat /\ DOMAIN linked = 1 .. Len(linked)
           /\ Len(linked') = Len(linked) + 1 /\ DOMAIN linked' = 1 .. Len(linked) + 1
           /\ \A i \in DOMAIN linked : i \in DOMAIN linked' /\ linked'[i] = linked[i]
           /\ linked'[Len(linked) + 1] = m
           /\ \A i \in DOMAIN linked : linked[i] # m
  BY DEF Typed, Joins, InLink

\* No step accounts for an object twice.
LEMMA OnceStep == Typed /\ Placed /\ Once /\ SelectStep => Once'
<1> SUFFICES ASSUME Typed, Placed, Once, SelectStep PROVE Once'
  OBVIOUS
<1>0. /\ walk.at \in Nat /\ walk.obj \in Nat /\ walk \in Walks
      /\ linked \in Seq(Nat \X Nat)
      /\ \A i \in DOMAIN linked : linked[i][1] \in Nat /\ linked[i][2] \in Nat
  <2>1. walk.at \in Nat /\ walk.obj \in Nat /\ walk \in Walks /\ linked \in Seq(Nat \X Nat)
    BY DEF Typed, Walks
  <2> QED
    BY <2>1
<1>1. CASE NoneJoins
  <2>1. walk'.at \in Nat
    <3>1. Typed'
      BY TypedStep
    <3> QED
      BY <3>1 DEF Typed, Walks
  <2>2. \A i \in DOMAIN linked : IsMember(linked[i])'
    BY <1>1 DEF NoneJoins, Kept, Once, IsMember, HasObjects
  <2>3. ASSUME NEW i \in DOMAIN linked, slots'[linked[i][1]].kind = "fixed"
        PROVE  Before(linked[i], <<walk'.at, walk'.obj>>)
    <3>1. Before(linked[i], <<walk.at, walk.obj>>)
      BY <1>1, <2>3 DEF NoneJoins, Kept, Once
    <3> QED
      BY <1>0, <1>1, <2>1, <3>1 DEF Before, NoneJoins
  <2> QED
    BY <1>1, <2>2, <2>3 DEF NoneJoins, Once
<1>2. ASSUME NEW m \in Nat \X Nat, Joins(m), walk'.at = walk.at, walk'.obj \in Nat,
             walk'.obj >= walk.obj,
             slots[m[1]].kind = "fixed" => Before(m, <<walk.at, walk'.obj>>)
      PROVE  Once'
  <2>1. /\ Len(linked) \in Nat /\ DOMAIN linked = 1 .. Len(linked)
        /\ Len(linked') = Len(linked) + 1 /\ DOMAIN linked' = 1 .. Len(linked) + 1
        /\ \A i \in DOMAIN linked : i \in DOMAIN linked' /\ linked'[i] = linked[i]
        /\ linked'[Len(linked) + 1] = m
        /\ \A i \in DOMAIN linked : linked[i] # m
    BY <1>2, JoinIs
  <2>2. \A i \in DOMAIN linked' : i \in DOMAIN linked \/ i = Len(linked) + 1
    BY <2>1
  <2>3. slots' = slots /\ IsMember(m)
    BY <1>2 DEF Joins
  <2>4. ASSUME NEW i \in DOMAIN linked' PROVE IsMember(linked[i])'
    <3>1. CASE i \in DOMAIN linked
      BY <2>1, <2>3, <3>1 DEF Once, IsMember, HasObjects
    <3>2. CASE i = Len(linked) + 1
      BY <2>1, <2>3, <3>2 DEF IsMember, HasObjects
    <3> QED
      BY <2>2, <3>1, <3>2
  <2>5. ASSUME NEW i \in DOMAIN linked', NEW j \in DOMAIN linked', linked'[i] = linked'[j]
        PROVE  i = j
    BY <2>1, <2>2, <2>5 DEF Once
  <2>6. ASSUME NEW i \in DOMAIN linked', slots'[linked'[i][1]].kind = "fixed"
        PROVE  Before(linked'[i], <<walk'.at, walk'.obj>>)
    <3>1. CASE i \in DOMAIN linked
      <4>1. Before(linked[i], <<walk.at, walk.obj>>)
        BY <2>1, <2>3, <2>6, <3>1 DEF Once
      <4>2. Before(linked[i], <<walk'.at, walk'.obj>>)
        BY <1>0, <1>2, <3>1, <4>1 DEF Before
      <4> QED
        BY <2>1, <3>1, <4>2
    <3>2. CASE i = Len(linked) + 1
      BY <1>2, <2>1, <2>3, <2>6, <3>2
    <3> QED
      BY <2>2, <3>1, <3>2
  <2> QED
    BY <2>4, <2>5, <2>6 DEF Once
<1>3. ASSUME NEW m \in Nat \X Nat, FixedJoins(m)
      PROVE  Once'
  <2>1. Joins(m) /\ m = <<walk.at, walk.obj>> /\ walk' = [walk EXCEPT !.obj = @ + 1]
    BY <1>3 DEF FixedJoins
  <2>2. walk'.at = walk.at /\ walk'.obj = walk.obj + 1
    BY <1>0, <2>1 DEF Walks
  <2>3. Before(m, <<walk.at, walk'.obj>>)
    BY <1>0, <2>1, <2>2 DEF Before
  <2>4. walk'.obj \in Nat /\ walk'.obj >= walk.obj
    BY <1>0, <2>2
  <2> QED
    BY <1>2, <2>1, <2>2, <2>3, <2>4
<1>4. ASSUME NEW m \in Nat \X Nat, PulledJoins(m)
      PROVE  Once'
  <2>1. Joins(m) /\ walk' = walk /\ slots[m[1]].kind # "fixed"
    BY <1>4 DEF PulledJoins
  <2>2. walk'.obj \in Nat /\ walk'.obj >= walk.obj
    BY <1>0, <2>1
  <2> QED
    BY <1>2, <2>1, <2>2
<1> QED
  BY <1>1, <1>3, <1>4, StepJoins

\* A link starts with its types and in its place.
LEMMA InitBase ==
    ASSUME NEW l \in Links, InitSelection(l)
    PROVE  Typed /\ Placed /\ Once
<1>1. LinkOK(l) /\ link = l
  BY LinksAssumption DEF InitSelection
<1>2. /\ link \in Links /\ link.slots \in Seq(Slots) /\ Paired(link.slots)
      /\ link.entry \in Symbols \cup {""} /\ slots = link.slots
      /\ link.inOrder => Plain(slots)
  BY <1>1 DEF LinkOK, InitSelection, Plain
<1>3. sel \in Selections
  <2>1. PICK alts, und :
           /\ alts = [n \in {} |-> n]
           /\ und = [n \in (IF link.entry = "" THEN {} ELSE {link.entry}) |-> CmdLineEntry]
           /\ sel = [defined |-> {}, shared |-> {}, alternates |-> alts,
                     undefined |-> und, inclusions |-> <<>>]
    BY DEF InitSelection
  <2>2. alts \in Maps(Symbols, Symbols)
    <3>1. alts \in [{} -> Symbols]
      BY <2>1
    <3> QED
      BY <3>1, MapsHas
  <2>3. und \in Maps(Symbols, Sources)
    <3>1. (IF link.entry = "" THEN {} ELSE {link.entry}) \in SUBSET Symbols
      BY <1>2
    <3>2. PICK D \in SUBSET Symbols : D = (IF link.entry = "" THEN {} ELSE {link.entry})
      BY <3>1
    <3>3. und = [n \in D |-> CmdLineEntry]
      BY <2>1, <3>2
    <3>4. CmdLineEntry \in Sources
      BY DEF Sources
    <3>5. und \in [D -> Sources]
      BY <3>3, <3>4
    <3> QED
      BY <3>5, MapsHas
  <2>4. <<>> \in Seq(Inclusions)
    OBVIOUS
  <2> HIDE DEF Inclusions
  <2> QED
    BY <2>1, <2>2, <2>3, <2>4 DEF Selections
<1>4. walk = [at |-> 1, obj |-> 1, depth |-> 0, group |-> {}] /\ walk \in Walks
  <2>1. walk = [at |-> 1, obj |-> 1, depth |-> 0, group |-> {}]
    BY Zenon DEF InitSelection
  <2> QED
    BY <2>1 DEF Walks
<1>5. /\ job = [stage |-> "rebind", span |-> {}, after |-> Start, progress |-> FALSE,
                ret |-> "walk", todo |-> {}]
      /\ job \in Jobs
  <2>1. Start \in Nat \X Nat /\ "rebind" \in Stages
    BY DEF Start, Stages
  <2> HIDE DEF Start, Stages
  <2> QED
    BY <2>1 DEF InitSelection, Jobs
<1>6. linked = <<>> /\ poolSlot = 0 /\ linked \in Seq(Nat \X Nat)
  <2>1. linked = <<>> /\ poolSlot = 0
    BY Zenon DEF InitSelection
  <2> QED
    BY <2>1
<1>7. slots \in Seq(Slots) /\ Len(slots) \in Nat /\ Len(link.slots) = Len(slots)
  <2>1. PICK s : s = link.slots
    OBVIOUS
  <2>2. slots = s /\ s \in Seq(Slots)
    BY <1>2, <2>1
  <2> HIDE DEF Slots
  <2> QED
    BY <2>1, <2>2
<1>8. Typed
  <2> HIDE DEF Slots, Selections, Walks, Jobs
  <2>1. poolSlot \in 0 .. Len(slots)
    BY <1>6, <1>7
  <2> QED
    BY <1>2, <1>3, <1>4, <1>5, <1>6, <1>7, <2>1 DEF Typed
<1>9. SlotsOK
  <2>1. Paired(slots)
    BY <1>2
  <2>2. Len(link.slots) <= Len(slots)
    BY <1>7
  <2>3. link.inOrder => Plain(slots)
    BY <1>2
  <2> QED
    BY <2>1, <2>2, <2>3 DEF SlotsOK
<1>10. WalkOK
  <2>1. Bounds(slots, 0, TRUE) = 0 /\ Bounds(slots, 0, FALSE) = 0
    BY BoundsNone
  <2>2. walk.at = 1 /\ walk.at - 1 = 0 /\ walk.depth = 0 /\ walk.group = {}
    BY <1>4
  <2>3. walk.at <= Len(slots) + 1
    BY <1>7, <2>2
  <2>4. walk.depth + Bounds(slots, walk.at - 1, FALSE) = Bounds(slots, walk.at - 1, TRUE)
    <3>1. Bounds(slots, walk.at - 1, TRUE) = 0 /\ Bounds(slots, walk.at - 1, FALSE) = 0
      BY <2>1, <2>2, Zenon
    <3>2. PICK t, e : t = Bounds(slots, walk.at - 1, TRUE) /\ e = Bounds(slots, walk.at - 1, FALSE)
      OBVIOUS
    <3>3. t = 0 /\ e = 0
      BY <3>1, <3>2
    <3>4. walk.depth + e = t
      BY <2>2, <3>3
    <3> QED
      BY <3>2, <3>4
  <2> QED
    BY <2>2, <2>3, <2>4 DEF WalkOK
<1>11. JobOK
  BY <1>4, <1>5, <1>6 DEF JobOK, Pulling, At
<1>12. Once
  BY <1>6 DEF Once
<1> QED
  BY <1>8, <1>9, <1>10, <1>11, <1>12 DEF Placed

(***************************************************************************)
(* What the Selection says of the objects in the link.                     *)
(***************************************************************************)
\* Answers found by a shared library, or none: names are no longer asked for.
Narrows ==
    /\ sel'.defined = sel.defined /\ sel'.alternates = sel.alternates
    /\ sel'.inclusions = sel.inclusions
    /\ sel.shared \subseteq sel'.shared
    /\ Undefined' \subseteq Undefined
    /\ \A n \in Undefined' : sel'.undefined[n] = sel.undefined[n]
    /\ \A n \in Undefined : n \in Undefined' \/ n \in sel'.shared

\* The steps that neither join an object nor take an alternate only narrow
\* what is undefined.
LEMMA NarrowsIs ==
    ASSUME Typed, SelectStep
    PROVE  WalkFixed \/ PullMember \/ TakeAlternates \/ Narrows
<1>1. ASSUME sel' = sel PROVE Narrows
  BY <1>1 DEF Narrows, Undefined
<1>2. CASE WalkShared
  <2>1. PICK names : names = slots[walk.at].exports
    OBVIOUS
  <2>2. \/ sel' = sel
        \/ sel' = [sel EXCEPT !.undefined = [n \in Undefined \ names |-> sel.undefined[n]],
                              !.shared = sel.shared \cup names]
    BY <1>2, <2>1 DEF WalkShared
  <2>3. CASE sel' = [sel EXCEPT !.undefined = [n \in Undefined \ names |-> sel.undefined[n]],
                                !.shared = sel.shared \cup names]
    <3>1. PICK u : u = [n \in Undefined \ names |-> sel.undefined[n]]
      OBVIOUS
    <3>2. DOMAIN u = Undefined \ names /\ \A n \in DOMAIN u : u[n] = sel.undefined[n]
      BY <3>1
    <3>3. sel' = [sel EXCEPT !.undefined = u, !.shared = sel.shared \cup names] /\ sel \in Selections
      BY <2>3, <3>1 DEF Typed
    <3>4. /\ sel'.defined = sel.defined /\ sel'.alternates = sel.alternates
          /\ sel'.inclusions = sel.inclusions
          /\ sel'.shared = sel.shared \cup names /\ sel'.undefined = u
      <4> HIDE DEF Maps, Inclusions
      <4> QED
        BY <3>3 DEF Selections
    <3> QED
      BY <3>2, <3>4 DEF Narrows, Undefined
  <2> QED
    BY <1>1, <2>2, <2>3
<1> QED
  BY <1>1, <1>2 DEF SelectStep, Rebind, WalkLazy, WalkGroup, EndWalk, EndSweep,
     EndAlternates, DefaultLibraries, AddLibrary, EndLibraries, OfferPool, Assemble

\* A step accounts for an object, narrows what is asked for, or takes an
\* alternate.
LEMMA StepKinds ==
    ASSUME Typed, Placed, Once, SelectStep
    PROVE  \/ \E m \in Nat \X Nat : FixedJoins(m) \/ PulledJoins(m)
           \/ NoneJoins /\ (Narrows \/ TakeAlternates)
<1>1. ASSUME NoneJoins, WalkFixed PROVE Narrows
  <2>1. ASSUME NEW m, FixedJoins(m) PROVE FALSE
    <3>1. Len(linked') = Len(linked) + 1 /\ Len(linked) \in Nat
      BY <2>1, JoinIs DEF FixedJoins
    <3> QED
      BY <1>1, <3>1 DEF NoneJoins
  <2>2. sel' = sel
    BY <1>1, <2>1, FixedIs
  <2> QED
    BY <2>2 DEF Narrows, Undefined
<1>2. ASSUME NoneJoins, PullMember PROVE Narrows
  <2>1. ASSUME NEW m, PulledJoins(m) PROVE FALSE
    <3>1. Len(linked') = Len(linked) + 1 /\ Len(linked) \in Nat
      BY <2>1, JoinIs DEF PulledJoins
    <3> QED
      BY <1>2, <3>1 DEF NoneJoins
  <2>2. sel' = sel
    BY <1>2, <2>1, PulledIs
  <2> QED
    BY <2>2 DEF Narrows, Undefined
<1> QED
  BY <1>1, <1>2, StepJoins, NarrowsIs

\* A name stands for itself, and with it its __imp_ partner and alternate.
LEMMA StandSelf ==
    ASSUME NEW names \in SUBSET Symbols, NEW others, NEW n \in names
    PROVE  n \in StandFor(names, others)
  BY DEF StandFor

\* __imp_X brings X.
LEMMA StandImp ==
    ASSUME NEW names, NEW others, NEW n \in StandFor(names, others) \cap DOMAIN ImpOf
    PROVE  ImpOf[n] \in StandFor(names, others)
<1>1. ImpOf[n] \in Symbols
  BY LinksAssumption
<1> QED
  BY <1>1 DEF StandFor

\* An alternate of one of the objects.
LEMMA StandAlt ==
    ASSUME NEW names, NEW others, NEW o \in others,
           NEW n \in StandFor(names, others) \cap DOMAIN o.alts, o.alts[n] \in Symbols
    PROVE  o.alts[n] \in StandFor(names, others)
  BY DEF StandFor

\* More objects give more alternates.
LEMMA StandMore ==
    ASSUME NEW names, NEW others, NEW more, others \subseteq more
    PROVE  StandFor(names, others) \subseteq StandFor(names, more)
  BY DEF StandFor

\* What was asked for stays asked for when objects join.
LEMMA AskedMore ==
    ASSUME NEW e, NEW n, NEW by, NEW others, NEW more, others \subseteq more, Asked(e, n, by, others)
    PROVE  Asked(e, n, by, more)
<1> HIDE DEF StandFor
<1>1. \A names : StandFor(names, others) \subseteq StandFor(names, more)
  BY StandMore
<1> QED
  BY <1>1 DEF Asked

\* Who asks for a name asks for its alternate.
LEMMA AskedAlt ==
    ASSUME NEW e, NEW n, NEW by, NEW others, NEW o \in others, n \in DOMAIN o.alts,
           o.alts[n] \in Symbols, Asked(e, n, by, others)
    PROVE  Asked(e, o.alts[n], by, others)
<1> HIDE DEF StandFor
<1>1. \A names : n \in StandFor(names, others) => o.alts[n] \in StandFor(names, others)
  BY StandAlt
<1> QED
  BY <1>1 DEF Asked

\* The names an object asks for stand for its references.
LEMMA AsksStand ==
    ASSUME NEW s, NEW o \in Objects, NEW others, NEW n \in Asks(s, o)
    PROVE  n \in StandFor(o.refs, others)
<1> HIDE DEF StandFor
<1>1. o.refs \in SUBSET Symbols
  BY ObjectParts
<1>2. \A r \in o.refs : r \in StandFor(o.refs, others)
  BY <1>1, StandSelf
<1>3. \A r \in o.refs : r \in DOMAIN ImpOf => ImpOf[r] \in StandFor(o.refs, others)
  BY <1>2, StandImp
<1> QED
  BY <1>2, <1>3 DEF Asks, Direct

\* The objects of the link after m joined.
LEMMA ObjsJoin ==
    ASSUME Typed, NEW m, Joins(m)
    PROVE  LinkedObjs' = LinkedObjs \cup {Obj(m)}
<1>1. /\ Len(linked) \in Nat /\ DOMAIN linked = 1 .. Len(linked)
      /\ DOMAIN linked' = 1 .. Len(linked) + 1
      /\ \A i \in DOMAIN linked : i \in DOMAIN linked' /\ linked'[i] = linked[i]
      /\ linked'[Len(linked) + 1] = m
  BY JoinIs
<1>2. slots' = slots
  BY DEF Joins
<1>3. \A h \in DOMAIN linked' : h \in DOMAIN linked \/ h = Len(linked) + 1
  BY <1>1
<1>4. \A h \in DOMAIN linked : slots'[linked'[h][1]].objs[linked'[h][2]] = Obj(linked[h])
  BY <1>1, <1>2 DEF Obj
<1>5. slots'[linked'[Len(linked) + 1][1]].objs[linked'[Len(linked) + 1][2]] = Obj(m)
  BY <1>1, <1>2 DEF Obj
<1>6. Len(linked) + 1 \in DOMAIN linked'
  BY <1>1
<1>7. LinkedObjs' = {slots'[linked'[h][1]].objs[linked'[h][2]] : h \in DOMAIN linked'}
  BY DEF LinkedObjs, Obj
<1>8. PICK f, g : /\ f = [h \in DOMAIN linked' |-> slots'[linked'[h][1]].objs[linked'[h][2]]]
                  /\ g = [h \in DOMAIN linked |-> Obj(linked[h])]
  OBVIOUS
<1>9. LinkedObjs' = {f[h] : h \in DOMAIN linked'} /\ LinkedObjs = {g[h] : h \in DOMAIN linked}
  BY <1>7, <1>8 DEF LinkedObjs
<1>10. \A h \in DOMAIN linked : f[h] = g[h] /\ h \in DOMAIN linked'
  BY <1>1, <1>4, <1>8
<1>11. f[Len(linked) + 1] = Obj(m)
  BY <1>5, <1>6, <1>8
<1>12. PICK o, last : o = Obj(m) /\ last = Len(linked) + 1
  OBVIOUS
<1>13. {f[h] : h \in DOMAIN linked'} = {g[h] : h \in DOMAIN linked} \cup {o}
  BY <1>3, <1>6, <1>10, <1>11, <1>12
<1> QED
  BY <1>9, <1>12, <1>13

\* The objects of the link when none joins.
LEMMA ObjsStay ==
    ASSUME NoneJoins
    PROVE  /\ LinkedObjs' = LinkedObjs
           /\ \A i \in DOMAIN linked : slots'[linked[i][1]].objs[linked[i][2]] = Obj(linked[i])
<1>1. \A i \in DOMAIN linked : slots'[linked[i][1]].objs[linked[i][2]] = Obj(linked[i])
  BY DEF NoneJoins, Kept, Obj
<1>2. LinkedObjs' = {slots'[linked'[h][1]].objs[linked'[h][2]] : h \in DOMAIN linked'}
  BY DEF LinkedObjs, Obj
<1>3. linked' = linked
  BY DEF NoneJoins
<1>4. PICK f, g : /\ f = [h \in DOMAIN linked |-> slots'[linked[h][1]].objs[linked[h][2]]]
                  /\ g = [h \in DOMAIN linked |-> Obj(linked[h])]
  OBVIOUS
<1>5. LinkedObjs' = {f[h] : h \in DOMAIN linked} /\ LinkedObjs = {g[h] : h \in DOMAIN linked}
  BY <1>2, <1>3, <1>4 DEF LinkedObjs
<1>6. \A h \in DOMAIN linked : f[h] = g[h]
  BY <1>1, <1>4
<1> QED
  BY <1>1, <1>5, <1>6

\* The inputs of the link are not touched.
LEMMA LinkStays == ASSUME SelectStep PROVE link' = link
  BY DEF SelectStep, Rebind, WalkFixed, WalkLazy, WalkShared, WalkGroup,
         EndWalk, PullMember, EndSweep, TakeAlternates, EndAlternates,
         DefaultLibraries, AddLibrary, EndLibraries, OfferPool, Assemble

\* A step that accounts for an object accounts for it in the Selection.
AccountsFor(m) ==
    /\ sel'.defined = sel.defined \cup Defs(Obj(m))
    /\ sel'.shared = sel.shared \cup Obj(m).imports
    /\ DOMAIN sel'.alternates = DOMAIN sel.alternates \cup DOMAIN Obj(m).alts
    /\ \A n \in DOMAIN sel'.alternates :
          sel'.alternates[n] =
             IF n \in DOMAIN Obj(m).alts THEN Obj(m).alts[n] ELSE sel.alternates[n]
    /\ DOMAIN sel'.undefined = (Undefined \cup Asks(sel, Obj(m))) \ Defs(Obj(m))
    /\ \A n \in DOMAIN sel'.undefined :
          sel'.undefined[n] = IF n \in Undefined THEN sel.undefined[n] ELSE Obj(m).src

\* An input's object is accounted for and is no line of the map.
LEMMA FixedAccounts ==
    ASSUME Typed, NEW m, FixedJoins(m)
    PROVE  AccountsFor(m) /\ sel'.inclusions = sel.inclusions
<1>1. sel \in Selections /\ Obj(m) \in Objects /\ sel' = Account(sel, Obj(m))
  BY DEF Typed, FixedJoins, Joins
<1> HIDE DEF Account, Asks
<1> QED
  BY <1>1, AccountIs DEF AccountsFor, Undefined

\* A member is accounted for and is a line of the map.
LEMMA PulledAccounts ==
    ASSUME Typed, NEW m, PulledJoins(m)
    PROVE  /\ AccountsFor(m)
           /\ \E n \in Wanted(m) :
                 sel'.inclusions = Append(sel.inclusions, [member |-> m, symbol |-> n,
                                                           by |-> sel.undefined[n]])
<1>1. sel \in Selections /\ Obj(m) \in Objects
  BY DEF Typed, PulledJoins, Joins
<1>2. PICK n \in Wanted(m) :
          sel' = [Account(sel, Obj(m)) EXCEPT !.inclusions =
                    Append(@, [member |-> m, symbol |-> n, by |-> sel.undefined[n]])]
  BY DEF PulledJoins
<1>3. PICK a, x : a = Account(sel, Obj(m)) /\ x = [member |-> m, symbol |-> n, by |-> sel.undefined[n]]
  OBVIOUS
<1>4. sel' = [a EXCEPT !.inclusions = Append(a.inclusions, x)]
  BY <1>2, <1>3
<1>5. /\ a \in Selections
      /\ a.defined = sel.defined \cup Defs(Obj(m))
      /\ a.shared = sel.shared \cup Obj(m).imports
      /\ a.inclusions = sel.inclusions
      /\ DOMAIN a.alternates = DOMAIN sel.alternates \cup DOMAIN Obj(m).alts
      /\ \A k \in DOMAIN a.alternates :
            a.alternates[k] =
               IF k \in DOMAIN Obj(m).alts THEN Obj(m).alts[k] ELSE sel.alternates[k]
      /\ DOMAIN a.undefined = (DOMAIN sel.undefined \cup Asks(sel, Obj(m))) \ Defs(Obj(m))
      /\ \A k \in DOMAIN a.undefined :
            a.undefined[k] =
               IF k \in DOMAIN sel.undefined THEN sel.undefined[k] ELSE Obj(m).src
  BY <1>1, <1>3, AccountIs
<1>6. /\ sel'.defined = a.defined /\ sel'.shared = a.shared
      /\ sel'.alternates = a.alternates /\ sel'.undefined = a.undefined
      /\ sel'.inclusions = Append(a.inclusions, x)
  <2>1. a \in Selections
    BY <1>5
  <2> HIDE DEF Maps, Inclusions
  <2> QED
    BY <1>4, <2>1 DEF Selections
<1> HIDE DEF Account, Asks, Defs
<1>7. AccountsFor(m)
  BY <1>5, <1>6 DEF AccountsFor, Undefined
<1> QED
  BY <1>3, <1>5, <1>6, <1>7

\* The names an object of the link has are symbols.
LEMMA LinkedParts ==
    ASSUME Typed, Once, NEW o \in LinkedObjs
    PROVE  /\ o \in Objects
           /\ o.refs \subseteq Symbols
           /\ \A n \in DOMAIN o.alts : o.alts[n] \in Symbols
<1>1. \A h \in DOMAIN linked : Obj(linked[h]) \in Objects
  BY ObjIs DEF Once
<1>2. o \in Objects
  BY <1>1 DEF LinkedObjs
<1> QED
  BY <1>2, ObjectParts

\* A step keeps the Selection's account.
LEMMA AccountedStep ==
    Typed /\ Placed /\ Once /\ Accounted /\ SelectStep => Accounted'
<1> SUFFICES ASSUME Typed, Placed, Once, Accounted, SelectStep PROVE Accounted'
  OBVIOUS
<1> HIDE DEF Asked, StandFor, Asks, Defs
<1>0. link' = link
  BY LinkStays
<1>1. PICK L : L = LinkedObjs
  OBVIOUS
<1>2. /\ sel.defined = UNION {Defs(o) : o \in L}
      /\ sel.defined \cap Undefined = {}
      /\ \A n \in DOMAIN sel.alternates :
            \E o \in L : n \in DOMAIN o.alts /\ o.alts[n] = sel.alternates[n]
      /\ \A n \in Undefined : Asked(link.entry, n, sel.undefined[n], L)
  BY <1>1 DEF Accounted
<1>3. ASSUME NEW m, Joins(m), AccountsFor(m)
      PROVE  Accounted'
  <2>1. PICK o \in Objects : o = Obj(m)
    BY <1>3 DEF Joins
  <2>2. LinkedObjs' = L \cup {o}
    BY <1>1, <1>3, <2>1, ObjsJoin
  <2>3. /\ sel'.defined = sel.defined \cup Defs(o)
        /\ DOMAIN sel'.alternates = DOMAIN sel.alternates \cup DOMAIN o.alts
        /\ \A n \in DOMAIN sel'.alternates :
              sel'.alternates[n] = IF n \in DOMAIN o.alts THEN o.alts[n] ELSE sel.alternates[n]
        /\ Undefined' = (Undefined \cup Asks(sel, o)) \ Defs(o)
        /\ \A n \in Undefined' :
              sel'.undefined[n] = IF n \in Undefined THEN sel.undefined[n] ELSE o.src
    BY <1>3, <2>1 DEF AccountsFor, Undefined
  <2>4. sel'.defined = UNION {Defs(x) : x \in L \cup {o}}
    BY <1>2, <2>3
  <2>5. sel'.defined \cap Undefined' = {}
    <3>1. Asks(sel, o) \cap sel.defined = {}
      BY DEF Asks, Direct, Known
    <3> QED
      BY <1>2, <2>3, <3>1
  <2>6. ASSUME NEW n \in DOMAIN sel'.alternates
        PROVE  \E x \in L \cup {o} : n \in DOMAIN x.alts /\ x.alts[n] = sel'.alternates[n]
    <3>1. CASE n \in DOMAIN o.alts
      BY <2>3, <2>6, <3>1
    <3>2. CASE n \notin DOMAIN o.alts
      <4>1. n \in DOMAIN sel.alternates /\ sel'.alternates[n] = sel.alternates[n]
        BY <2>3, <2>6, <3>2
      <4> QED
        BY <1>2, <4>1
    <3> QED
      BY <3>1, <3>2
  <2>7. ASSUME NEW n \in Undefined'
        PROVE  Asked(link.entry, n, sel'.undefined[n], L \cup {o})
    <3>1. CASE n \in Undefined
      <4>1. Asked(link.entry, n, sel.undefined[n], L) /\ sel'.undefined[n] = sel.undefined[n]
        BY <1>2, <2>3, <2>7, <3>1
      <4>2. Asked(link.entry, n, sel.undefined[n], L \cup {o})
        BY <4>1, AskedMore
      <4> QED
        BY <4>1, <4>2
    <3>2. CASE n \notin Undefined
      <4>1. n \in Asks(sel, o) /\ sel'.undefined[n] = o.src
        BY <2>3, <2>7, <3>2
      <4>2. n \in StandFor(o.refs, L \cup {o})
        BY <4>1, AsksStand
      <4> QED
        BY <4>1, <4>2 DEF Asked
    <3> QED
      BY <3>1, <3>2
  <2> QED
    BY <1>0, <2>2, <2>4, <2>5, <2>6, <2>7 DEF Accounted
<1>4. CASE NoneJoins /\ Narrows
  <2>1. LinkedObjs' = L
    BY <1>1, <1>4, ObjsStay
  <2>2. /\ sel'.defined = sel.defined /\ sel'.alternates = sel.alternates
        /\ Undefined' \subseteq Undefined
        /\ \A n \in Undefined' : sel'.undefined[n] = sel.undefined[n]
    BY <1>4 DEF Narrows
  <2> QED
    BY <1>0, <1>2, <2>1, <2>2 DEF Accounted
<1>5. CASE TakeAlternates
  <2>1. slots' = slots /\ linked' = linked
    BY <1>5 DEF TakeAlternates
  <2>2. LinkedObjs' = L
    BY <1>1, <2>1 DEF LinkedObjs, Obj
  <2>3. PICK n \in job.todo :
             /\ n \in DOMAIN sel.alternates /\ n \in Undefined
             /\ sel'.defined = sel.defined
             /\ sel'.alternates = sel.alternates
             /\ DOMAIN sel'.undefined = (Undefined \ {n})
                                          \cup (IF Asking(sel, n) THEN {AltOf(sel, n)} ELSE {})
             /\ \A m \in DOMAIN sel'.undefined :
                   sel'.undefined[m] = IF Asking(sel, n) /\ m = AltOf(sel, n)
                                       THEN sel.undefined[n] ELSE sel.undefined[m]
    BY <1>5, TakeIs
  <2>4. PICK a : a = AltOf(sel, n)
    OBVIOUS
  <2>5. sel.defined \cap Undefined' = {}
    BY <1>2, <2>3 DEF Undefined, Asking
  <2>6. Asked(link.entry, a, sel.undefined[n], L)
    <3>1. PICK o \in L : n \in DOMAIN o.alts /\ o.alts[n] = a
      BY <1>2, <2>3, <2>4 DEF AltOf
    <3>2. a \in Symbols
      BY <1>1, <3>1, LinkedParts
    <3>3. Asked(link.entry, n, sel.undefined[n], L)
      BY <1>2, <2>3
    <3> QED
      BY <3>1, <3>2, <3>3, AskedAlt
  <2>7. ASSUME NEW m \in Undefined'
        PROVE  Asked(link.entry, m, sel'.undefined[m], L)
    <3>0. m \in DOMAIN sel'.undefined
      BY <2>7 DEF Undefined
    <3>1. CASE Asking(sel, n) /\ m = a
      <4>1. sel'.undefined[m] = sel.undefined[n]
        BY <2>3, <2>4, <3>0, <3>1
      <4> QED
        BY <2>6, <3>1, <4>1
    <3>2. CASE ~(Asking(sel, n) /\ m = a)
      <4>1. m \in Undefined /\ sel'.undefined[m] = sel.undefined[m]
        BY <2>3, <2>4, <3>0, <3>2
      <4> QED
        BY <1>2, <4>1
    <3> QED
      BY <3>1, <3>2
  <2> QED
    BY <1>0, <1>2, <2>2, <2>3, <2>5, <2>7 DEF Accounted
<1>6. ASSUME NEW m, FixedJoins(m) PROVE Accounted'
  BY <1>3, <1>6, FixedAccounts DEF FixedJoins
<1>7. ASSUME NEW m, PulledJoins(m) PROVE Accounted'
  BY <1>3, <1>7, PulledAccounts DEF PulledJoins
<1> QED
  BY <1>4, <1>5, <1>6, <1>7, StepKinds

(***************************************************************************)
(* The inclusions: one for every member pulled, in the order of the pulls. *)
(***************************************************************************)
ObjAt(s, l, h) == s[l[h][1]].objs[l[h][2]]

\* Inclusion x is right for place i of the objects l of the inputs s.
InclusionOK(s, l, entry, i, x) ==
    LET before == {ObjAt(s, l, h) : h \in 1 .. i - 1}
    IN  /\ x.member = l[i]
        /\ x.symbol \in ObjAt(s, l, i).strong
        /\ \A o \in before : x.symbol \notin Defs(o)
        /\ \/ x.by = CmdLineEntry /\ x.symbol \in StandFor({entry}, before)
           \/ \E o \in before : o.src = x.by /\ x.symbol \in StandFor(o.refs, before)

\* The number of place i among the places P.
NumberIn(P, i) == Cardinality({h \in P : h <= i})

\* The link map, stated of the state's parts, here and in the next state.
LEMMA RecordedIs ==
    Recorded <=>
        /\ Len(sel.inclusions) = Cardinality(Pulled)
        /\ \A i \in Pulled :
              InclusionOK(slots, linked, link.entry, i, sel.inclusions[NumberIn(Pulled, i)])
<1>1. ASSUME NEW i, NEW x
      PROVE  AskedFor(i, x) <=> InclusionOK(slots, linked, link.entry, i, x)
  <2> HIDE DEF StandFor, Defs
  <2> QED
    BY DEF AskedFor, InclusionOK, ObjAt, Obj
<1>2. \A i : Rank(i) = NumberIn(Pulled, i)
  BY DEF Rank, NumberIn
<1> HIDE DEF InclusionOK
<1> QED
  BY <1>1, <1>2 DEF Recorded

\* The same in the next state.
LEMMA RecordedNext ==
    ASSUME Len(sel'.inclusions) = Cardinality(Pulled'),
           \A i \in Pulled' :
              InclusionOK(slots', linked', link'.entry, i, sel'.inclusions[NumberIn(Pulled', i)])
    PROVE  Recorded'
<1>1. (Recorded <=>
        /\ Len(sel.inclusions) = Cardinality(Pulled)
        /\ \A i \in Pulled :
              InclusionOK(slots, linked, link.entry, i, sel.inclusions[NumberIn(Pulled, i)]))'
  BY RecordedIs, PTL
<1> QED
  BY <1>1

\* The places pulled up to i.
Upto(i) == {h \in Pulled : h <= i}

\* They are finitely many.
LEMMA UptoFinite ==
    ASSUME Typed
    PROVE  IsFiniteSet(Pulled) /\ \A i : IsFiniteSet(Upto(i))
<1>1. IsFiniteSet(1 .. Len(linked))
  BY FS_Interval DEF Typed
<1>2. Pulled \subseteq 1 .. Len(linked)
  BY DEF Pulled, Typed
<1>3. IsFiniteSet(Pulled)
  BY <1>1, <1>2, FS_Subset
<1>4. \A i : Upto(i) \subseteq Pulled
  BY DEF Upto
<1> QED
  BY <1>3, <1>4, FS_Subset

\* A place in the link, as it was when the object there joined.
PlaceKept(i) ==
    /\ i \in DOMAIN linked'
    /\ \A h \in 1 .. i :
          linked'[h] = linked[h] /\ slots'[linked[h][1]] = slots[linked[h][1]]

\* A true line of the map stays true while what it speaks of stays.
LEMMA AskedForKept ==
    ASSUME NEW i \in Nat \ {0}, NEW x, PlaceKept(i), link' = link, InclusionOK(slots, linked, link.entry, i, x)
    PROVE  InclusionOK(slots', linked', link'.entry, i, x)
<1> HIDE DEF StandFor, Defs
<1>1. \A h \in 1 .. i : slots'[linked'[h][1]].objs[linked'[h][2]] = Obj(linked[h])
  BY DEF PlaceKept, Obj
<1>2. PICK f, g : /\ f = [h \in 1 .. i - 1 |-> slots'[linked'[h][1]].objs[linked'[h][2]]]
                  /\ g = [h \in 1 .. i - 1 |-> Obj(linked[h])]
  OBVIOUS
<1>3. f = g
  <2>1. \A h \in 1 .. i - 1 : slots'[linked'[h][1]].objs[linked'[h][2]] = Obj(linked[h])
    BY <1>1
  <2> QED
    BY <1>2, <2>1
<1>4. PICK B : B = {Obj(linked[h]) : h \in 1 .. i - 1}
  OBVIOUS
<1>5. B = {slots'[linked'[h][1]].objs[linked'[h][2]] : h \in 1 .. i - 1}
  <2>1. B = {g[h] : h \in 1 .. i - 1}
    BY <1>2, <1>4
  <2>2. {f[h] : h \in 1 .. i - 1} = {slots'[linked'[h][1]].objs[linked'[h][2]] : h \in 1 .. i - 1}
    BY <1>2
  <2> QED
    BY <1>3, <2>1, <2>2
<1>6. i \in 1 .. i
  OBVIOUS
<1>7. linked'[i] = linked[i] /\ slots'[linked'[i][1]].objs[linked'[i][2]] = Obj(linked[i])
  BY <1>1, <1>6 DEF PlaceKept
<1>8. /\ x.member = linked[i]
      /\ x.symbol \in Obj(linked[i]).strong
      /\ \A o \in B : x.symbol \notin Defs(o)
      /\ \/ x.by = CmdLineEntry /\ x.symbol \in StandFor({link.entry}, B)
         \/ \E o \in B : o.src = x.by /\ x.symbol \in StandFor(o.refs, B)
  BY <1>4 DEF InclusionOK, ObjAt, Obj
<1>9. /\ x.member = linked'[i]
      /\ x.symbol \in slots'[linked'[i][1]].objs[linked'[i][2]].strong
      /\ \A o \in B : x.symbol \notin Defs(o)
      /\ \/ x.by = CmdLineEntry /\ x.symbol \in StandFor({link'.entry}, B)
         \/ \E o \in B : o.src = x.by /\ x.symbol \in StandFor(o.refs, B)
  BY <1>7, <1>8
<1> QED
  BY <1>5, <1>9 DEF InclusionOK, ObjAt

\* A step keeps the link map true.
LEMMA RecordedStep ==
    Typed /\ Placed /\ Once /\ Accounted /\ Recorded /\ SelectStep => Recorded'
<1> SUFFICES ASSUME Typed, Placed, Once, Accounted, Recorded, SelectStep PROVE Recorded'
  OBVIOUS
<1> HIDE DEF InclusionOK
<1>r. /\ Len(sel.inclusions) = Cardinality(Pulled)
      /\ \A i \in Pulled :
            InclusionOK(slots, linked, link.entry, i, sel.inclusions[NumberIn(Pulled, i)])
  BY RecordedIs
<1>0. link' = link
  BY LinkStays
<1>1. /\ linked \in Seq(Nat \X Nat) /\ Len(linked) \in Nat /\ DOMAIN linked = 1 .. Len(linked)
      /\ Pulled \subseteq 1 .. Len(linked)
      /\ sel.inclusions \in Seq(Inclusions) /\ Len(sel.inclusions) \in Nat
  <2>1. linked \in Seq(Nat \X Nat) /\ sel.inclusions \in Seq(Inclusions)
    BY SelectionParts DEF Typed
  <2> HIDE DEF Inclusions
  <2> QED
    BY <2>1 DEF Pulled
<1>2. ASSUME NEW i \in DOMAIN linked, Kept, \A h \in DOMAIN linked : h \in DOMAIN linked' /\ linked'[h] = linked[h]
      PROVE  PlaceKept(i)
  <2>1. \A h \in 1 .. i : h \in DOMAIN linked
    BY <1>1, <1>2
  <2> QED
    BY <1>2, <2>1 DEF PlaceKept, Kept
<1>3. CASE NoneJoins /\ sel'.inclusions = sel.inclusions
  <2>1. linked' = linked /\ Kept
    BY <1>3 DEF NoneJoins
  <2>2. \A i \in DOMAIN linked : slots'[linked[i][1]].kind = slots[linked[i][1]].kind
    BY <2>1 DEF Kept
  <2>3. Pulled' = Pulled
    BY <2>1, <2>2 DEF Pulled, IsLazy
  <2>4. \A i : NumberIn(Pulled', i) = NumberIn(Pulled, i)
    BY <2>3 DEF NumberIn
  <2>5. ASSUME NEW i \in Pulled
        PROVE  InclusionOK(slots', linked', link'.entry, i, sel'.inclusions[NumberIn(Pulled', i)])
    <3>1. PICK x : x = sel.inclusions[NumberIn(Pulled, i)]
      OBVIOUS
    <3>2. InclusionOK(slots, linked, link.entry, i, x)
      BY <1>r, <2>5, <3>1
    <3>3. PlaceKept(i)
      BY <1>1, <1>2, <2>1
    <3>4. InclusionOK(slots', linked', link'.entry, i, x)
      BY <1>0, <1>1, <3>2, <3>3, AskedForKept
    <3>5. sel'.inclusions[NumberIn(Pulled', i)] = x
      BY <1>3, <2>4, <3>1
    <3> QED
      BY <3>4, <3>5
  <2>6. Len(sel'.inclusions) = Cardinality(Pulled')
    BY <1>r, <1>3, <2>3
  <2> QED
    BY RecordedNext, <2>3, <2>5, <2>6
\* One object more: the places before it keep their numbers.
<1>4. ASSUME NEW m, Joins(m)
      PROVE  /\ Kept
             /\ \A i \in DOMAIN linked : PlaceKept(i)
             /\ Len(linked) + 1 \in DOMAIN linked'
             /\ linked'[Len(linked) + 1] = m
             /\ Len(linked) + 1 \notin Pulled
             /\ Pulled' = IF slots[m[1]].kind = "lazy" THEN Pulled \cup {Len(linked) + 1} ELSE Pulled
             /\ \A i \in Pulled : NumberIn(Pulled', i) = NumberIn(Pulled, i)
  <2>1. /\ slots' = slots
        /\ \A i \in DOMAIN linked : i \in DOMAIN linked' /\ linked'[i] = linked[i]
        /\ DOMAIN linked' = 1 .. Len(linked) + 1
        /\ linked'[Len(linked) + 1] = m
    BY <1>4, JoinIs DEF Joins
  <2>2. Kept
    BY <2>1 DEF Kept, Once, IsMember, HasObjects
  <2>3. Len(linked) + 1 \notin Pulled /\ Len(linked) + 1 \in DOMAIN linked'
    BY <1>1, <2>1
  <2>4. Pulled' = {i \in 1 .. Len(linked) + 1 : slots[linked'[i][1]].kind = "lazy"}
    BY <2>1 DEF Pulled, IsLazy
  <2>5. Pulled = {i \in 1 .. Len(linked) : slots[linked'[i][1]].kind = "lazy"}
    BY <1>1, <2>1 DEF Pulled, IsLazy
  <2>6. Pulled' = IF slots[m[1]].kind = "lazy" THEN Pulled \cup {Len(linked) + 1} ELSE Pulled
    BY <1>1, <2>1, <2>4, <2>5
  <2>7. ASSUME NEW i \in Pulled PROVE NumberIn(Pulled', i) = NumberIn(Pulled, i)
    <3>1. {h \in Pulled' : h <= i} = {h \in Pulled : h <= i}
      BY <1>1, <2>6
    <3> QED
      BY <3>1 DEF NumberIn
  <2> QED
    BY <1>2, <2>1, <2>2, <2>3, <2>6, <2>7
<1>5. ASSUME NEW m, FixedJoins(m)
      PROVE  Recorded'
  <2>1. Joins(m) /\ slots[m[1]].kind = "fixed" /\ sel'.inclusions = sel.inclusions
    BY <1>5, FixedAccounts DEF FixedJoins
  <2>2. Pulled' = Pulled /\ \A i \in Pulled : NumberIn(Pulled', i) = NumberIn(Pulled, i) /\ PlaceKept(i)
    BY <1>1, <1>4, <2>1
  <2>3. ASSUME NEW i \in Pulled
        PROVE  InclusionOK(slots', linked', link'.entry, i, sel'.inclusions[NumberIn(Pulled', i)])
    <3>1. PICK x : x = sel.inclusions[NumberIn(Pulled, i)]
      OBVIOUS
    <3>2. InclusionOK(slots, linked, link.entry, i, x)
      BY <1>r, <2>3, <3>1
    <3>3. InclusionOK(slots', linked', link'.entry, i, x)
      BY <1>0, <1>1, <2>2, <3>2, AskedForKept
    <3>4. sel'.inclusions[NumberIn(Pulled', i)] = x
      BY <2>1, <2>2, <3>1
    <3> QED
      BY <3>3, <3>4
  <2>4. Len(sel'.inclusions) = Cardinality(Pulled')
    BY <1>r, <2>1, <2>2
  <2> QED
    BY RecordedNext, <2>2, <2>3, <2>4
<1>6. ASSUME NEW m, PulledJoins(m)
      PROVE  Recorded'
  <2>1. Joins(m) /\ slots[m[1]].kind = "lazy"
    BY <1>6 DEF PulledJoins
  <2>2. PICK last : last = Len(linked) + 1
    OBVIOUS
  <2>3. /\ Pulled' = Pulled \cup {last} /\ last \notin Pulled
        /\ last \in DOMAIN linked' /\ linked'[last] = m /\ last \in Nat \ {0}
        /\ \A i \in Pulled : NumberIn(Pulled', i) = NumberIn(Pulled, i) /\ PlaceKept(i)
    BY <1>1, <1>4, <2>1, <2>2
  <2>4. Cardinality(Pulled') = Cardinality(Pulled) + 1 /\ Cardinality(Pulled) \in Nat
    BY <2>3, UptoFinite, FS_AddElement, FS_CardinalityType
  <2>5. PICK n, y :
           /\ n \in Wanted(m)
           /\ y = [member |-> m, symbol |-> n, by |-> sel.undefined[n]]
           /\ sel'.inclusions = Append(sel.inclusions, y)
    BY <1>6, PulledAccounts
  <2>6. /\ Len(sel'.inclusions) = Len(sel.inclusions) + 1
        /\ \A p \in 1 .. Len(sel.inclusions) : sel'.inclusions[p] = sel.inclusions[p]
        /\ sel'.inclusions[Len(sel.inclusions) + 1] = y
    <3>1. PICK s : s = sel.inclusions /\ s \in Seq(Inclusions)
      BY <1>1
    <3>2. PICK t : t = sel'.inclusions /\ t = Append(s, y)
      BY <2>5, <3>1
    <3>3. /\ Len(t) = Len(s) + 1
          /\ \A p \in 1 .. Len(s) : t[p] = s[p]
          /\ t[Len(s) + 1] = y
      <4> HIDE DEF Inclusions
      <4> QED
        BY <3>1, <3>2
    <3> QED
      BY <3>1, <3>2, <3>3
  <2>7. Len(sel'.inclusions) = Cardinality(Pulled')
    BY <1>r, <2>4, <2>6
  \* The numbers of the earlier ones, and of the new one.
  <2>8. ASSUME NEW i \in Pulled
        PROVE  NumberIn(Pulled, i) \in 1 .. Len(sel.inclusions)
    <3>1. IsFiniteSet(Upto(i)) /\ IsFiniteSet(Pulled) /\ Upto(i) \subseteq Pulled /\ NumberIn(Pulled, i) = Cardinality(Upto(i))
      BY UptoFinite DEF Upto, NumberIn
    <3>2. Cardinality(Upto(i)) <= Cardinality(Pulled) /\ Cardinality(Upto(i)) \in Nat
      BY <3>1, FS_Subset, FS_CardinalityType
    <3>3. i \in Upto(i)
      BY <1>1, <2>8 DEF Upto
    <3>4. Cardinality(Upto(i)) # 0
      BY <3>1, <3>3, FS_EmptySet
    <3> QED
      BY <1>r, <1>1, <2>4, <3>1, <3>2, <3>4
  <2>9. NumberIn(Pulled', last) = Len(sel.inclusions) + 1
    <3>1. \A h \in Pulled \cup {last} : h <= last
      BY <1>1, <2>2
    <3>1a. {h \in Pulled' : h <= last} = Pulled'
      BY <2>3, <3>1
    <3>2. NumberIn(Pulled', last) = Cardinality({h \in Pulled' : h <= last})
      BY DEF NumberIn
    <3> QED
      BY <1>r, <2>4, <3>1a, <3>2
  <2>10. ASSUME NEW i \in Pulled
        PROVE  InclusionOK(slots', linked', link'.entry, i, sel'.inclusions[NumberIn(Pulled', i)])
    <3>1. PICK x : x = sel.inclusions[NumberIn(Pulled, i)]
      OBVIOUS
    <3>2. InclusionOK(slots, linked, link.entry, i, x)
      BY <1>r, <2>10, <3>1
    <3>2a. PlaceKept(i) /\ i \in Nat \ {0}
      BY <1>1, <2>3
    <3>3. InclusionOK(slots', linked', link'.entry, i, x)
      BY <1>0, <3>2, <3>2a, AskedForKept
    <3>4. sel'.inclusions[NumberIn(Pulled', i)] = x
      BY <2>3, <2>6, <2>8, <3>1
    <3> QED
      BY <3>3, <3>4
  <2>11. InclusionOK(slots', linked', link'.entry, last, y)
    <3> HIDE DEF StandFor, Defs
    <3>1. slots' = slots /\ Kept
      BY <1>4, <2>1 DEF Joins
    <3>2. PICK B : B = LinkedObjs
      OBVIOUS
    <3>3. {slots'[linked'[h][1]].objs[linked'[h][2]] : h \in 1 .. last - 1} = B
      <4>1. 1 .. last - 1 = DOMAIN linked
        BY <1>1, <2>2
      <4>2. \A h \in DOMAIN linked : linked'[h] = linked[h]
        BY <2>1, JoinIs
      <4>3. PICK f, g : /\ f = [h \in DOMAIN linked |-> slots'[linked'[h][1]].objs[linked'[h][2]]]
                        /\ g = [h \in DOMAIN linked |-> Obj(linked[h])]
        OBVIOUS
      <4>4. f = g
        BY <3>1, <4>2, <4>3 DEF Obj
      <4>5. {slots'[linked'[h][1]].objs[linked'[h][2]] : h \in DOMAIN linked} = {f[h] : h \in DOMAIN linked}
        BY <4>3
      <4>6. B = {g[h] : h \in DOMAIN linked}
        BY <3>2, <4>3 DEF LinkedObjs
      <4> QED
        BY <4>1, <4>4, <4>5, <4>6
    <3>4. n \in Undefined /\ n \in Obj(m).strong
      BY <2>5 DEF Wanted
    <3>5. Asked(link.entry, n, sel.undefined[n], B)
      BY <3>2, <3>4 DEF Accounted
    <3>6. \A o \in B : n \notin Defs(o)
      BY <3>2, <3>4 DEF Accounted
    <3>7. slots'[linked'[last][1]].objs[linked'[last][2]] = Obj(m)
      BY <2>3, <3>1 DEF Obj
    <3>8. y.member = m /\ y.symbol = n /\ y.by = sel.undefined[n]
      BY <2>5
    <3>9. /\ y.member = linked'[last]
          /\ y.symbol \in slots'[linked'[last][1]].objs[linked'[last][2]].strong
          /\ \A o \in B : y.symbol \notin Defs(o)
          /\ \/ y.by = CmdLineEntry /\ y.symbol \in StandFor({link'.entry}, B)
             \/ \E o \in B : o.src = y.by /\ y.symbol \in StandFor(o.refs, B)
      BY <1>0, <2>3, <3>4, <3>5, <3>6, <3>7, <3>8 DEF Asked
    <3> QED
      BY <3>3, <3>9 DEF InclusionOK, ObjAt
  <2>12. InclusionOK(slots', linked', link'.entry, last, sel'.inclusions[NumberIn(Pulled', last)])
    <3>1. sel'.inclusions[NumberIn(Pulled', last)] = y
      BY <2>6, <2>9
    <3> QED
      BY <2>11, <3>1
  <2> QED
    BY RecordedNext, <2>3, <2>7, <2>10, <2>12
<1>7. NoneJoins /\ (Narrows \/ TakeAlternates) => sel'.inclusions = sel.inclusions
  BY TakeIs DEF Narrows
<1> QED
  BY <1>3, <1>5, <1>6, <1>7, StepKinds

(***************************************************************************)
(* The references.                                                         *)
(***************************************************************************)
LEMMA SlotsGrow ==
    ASSUME Typed, Placed, SelectStep, ~Rebind
    PROVE  Grown(slots, slots')
<1>1. ASSUME slots' = slots PROVE Grown(slots, slots')
  BY <1>1 DEF Grown, NoNewGroup, Typed
<1>2. CASE AddLibrary
  BY <1>2, AddLibraryGrows
<1>3. CASE OfferPool
  BY <1>1, <1>3, OfferPoolIs, PoolGrows
<1>4. CASE ~AddLibrary /\ ~OfferPool
  <2>1. slots' = slots
    BY <1>4 DEF SelectStep, WalkFixed, WalkLazy, WalkShared, WalkGroup, EndWalk, PullMember,
        EndSweep, TakeAlternates, EndAlternates, DefaultLibraries, EndLibraries, Assemble
  <2> QED
    BY <1>1, <2>1
<1> QED
  BY <1>2, <1>3, <1>4

\* No step takes an object out of the link.
LEMMA LinkedStays ==
    ASSUME Typed, Placed, Once, SelectStep
    PROVE  /\ \A i \in DOMAIN linked : i \in DOMAIN linked' /\ linked'[i] = linked[i]
           /\ Kept
<1>1. ASSUME NEW m, Joins(m)
      PROVE  /\ \A i \in DOMAIN linked : i \in DOMAIN linked' /\ linked'[i] = linked[i]
             /\ Kept
  <2>1. \A i \in DOMAIN linked : i \in DOMAIN linked' /\ linked'[i] = linked[i]
    BY <1>1, JoinIs
  <2>2. Kept
    BY <1>1 DEF Joins, Kept, Once, IsMember, HasObjects
  <2> QED
    BY <2>1, <2>2
<1>2. ASSUME NoneJoins
      PROVE  /\ \A i \in DOMAIN linked : i \in DOMAIN linked' /\ linked'[i] = linked[i]
             /\ Kept
  BY <1>2 DEF NoneJoins
<1> QED
  BY <1>1, <1>2, StepJoins DEF FixedJoins, PulledJoins

\* What is left out of an archive never grows.
LEMMA LeftStays ==
    ASSUME Typed, Placed, Once, SelectStep, ~Rebind, NEW k \in AllLazy(slots)
    PROVE  /\ k \in AllLazy(slots')
           /\ LeftIn(slots', linked', k) \subseteq LeftIn(slots, linked, k)
           /\ \A m \in LeftIn(slots, linked, k) : ObjIn(slots', m) = ObjIn(slots, m)
<1>1. k \in DOMAIN slots' /\ slots'[k] = slots[k] /\ slots[k].kind = "lazy"
  BY SlotsGrow DEF Grown, AllLazy
<1>2. \A i \in DOMAIN linked : i \in DOMAIN linked' /\ linked'[i] = linked[i]
  BY LinkedStays
<1>3. LeftIn(slots', linked', k) \subseteq LeftIn(slots, linked, k)
  BY <1>1, <1>2 DEF LeftIn
<1>4. \A m \in LeftIn(slots, linked, k) : m[1] = k
  BY DEF LeftIn
<1>5. \A m \in LeftIn(slots, linked, k) : ObjIn(slots', m) = ObjIn(slots, m)
  BY <1>1, <1>4 DEF ObjIn
<1> QED
  BY <1>1, <1>3, <1>5 DEF AllLazy

\* A name no member left out defines is defined by none later.
LEMMA NowhereStays ==
    ASSUME Typed, Placed, Once, SelectStep, ~Rebind, NEW K \in SUBSET AllLazy(slots), NEW n,
           Nowhere(slots, linked, n, K)
    PROVE  Nowhere(slots', linked', n, K)
<1> HIDE DEF LeftIn, ObjIn
<1>1. ASSUME NEW k \in K, NEW m \in LeftIn(slots', linked', k)
      PROVE  n \notin ObjIn(slots', m).strong
  <2>1. k \in AllLazy(slots)
    OBVIOUS
  <2>2. m \in LeftIn(slots, linked, k) /\ ObjIn(slots', m) = ObjIn(slots, m)
    BY <2>1, LeftStays
  <2> QED
    BY <2>2 DEF Nowhere
<1> QED
  BY <1>1 DEF Nowhere

\* Archives that are asked for nothing are so while nothing new is asked.
LEMMA QuietStays ==
    ASSUME Typed, Placed, Once, SelectStep, ~Rebind, NEW K \in SUBSET AllLazy(slots),
           Quiet(slots, linked, Undefined, K), Undefined' \subseteq Undefined
    PROVE  Quiet(slots', linked', Undefined', K)
<1> HIDE DEF LeftIn, ObjIn
<1>1. ASSUME NEW k \in K, NEW m \in LeftIn(slots', linked', k), NEW n \in Undefined'
      PROVE  n \notin ObjIn(slots', m).strong
  <2>1. k \in AllLazy(slots) /\ n \in Undefined
    OBVIOUS
  <2>2. m \in LeftIn(slots, linked, k) /\ ObjIn(slots', m) = ObjIn(slots, m)
    BY <2>1, LeftStays
  <2> QED
    BY <2>1, <2>2 DEF Quiet
<1> QED
  BY <1>1 DEF Quiet

\* The archives and groups of the line stay what they were.
LEMMA LineStays ==
    ASSUME Typed, Placed, SelectStep, ~Rebind
    PROVE  /\ LineLazy' = LineLazy
           /\ LineLazy \subseteq AllLazy(slots)
           /\ HasGroup' <=> HasGroup
<1>1. /\ link' = link /\ Grown(slots, slots') /\ slots \in Seq(Slots) /\ slots' \in Seq(Slots)
      /\ link.slots \in Seq(Slots) /\ Len(link.slots) <= Len(slots)
  BY LinkStays, SlotsGrow, LinkIs DEF Placed, SlotsOK, Typed, Grown
<1>2. DOMAIN link.slots \subseteq DOMAIN slots
  <2> HIDE DEF Slots
  <2> QED
    BY <1>1
<1>3. \A k \in DOMAIN slots : k \in DOMAIN slots' /\ slots'[k] = slots[k]
  BY <1>1 DEF Grown
<1>4. \A k \in DOMAIN slots' : k \in DOMAIN slots \/ slots'[k].kind # "group"
  BY <1>1 DEF Grown
<1>5. LineLazy' = LineLazy /\ LineLazy \subseteq AllLazy(slots)
  BY <1>1, <1>2, <1>3 DEF LineLazy, IsLazy, AllLazy
<1>6. HasGroup' <=> HasGroup
  BY <1>3, <1>4 DEF HasGroup
<1> QED
  BY <1>5, <1>6

\* An ELF link has no alternates.
LEMMA NoneInOrder ==
    ASSUME Typed, Placed, Once, Accounted, link.inOrder
    PROVE  DOMAIN sel.alternates = {}
<1> SUFFICES ASSUME NEW n \in DOMAIN sel.alternates PROVE FALSE
  OBVIOUS
<1>1. PICK o \in LinkedObjs : n \in DOMAIN o.alts
  BY DEF Accounted
<1>2. PICK i \in DOMAIN linked : o = Obj(linked[i])
  BY DEF LinkedObjs
<1>3. IsMember(linked[i])
  BY DEF Once
<1>4. Plain(slots)
  BY DEF Placed, SlotsOK
<1>5. NoAlternates(slots[linked[i][1]].objs)
  BY <1>3, <1>4 DEF Plain, IsMember, HasObjects
<1>6. DOMAIN slots[linked[i][1]].objs[linked[i][2]].alts = {}
  BY <1>3, <1>5 DEF NoAlternates, IsMember
<1> QED
  BY <1>1, <1>2, <1>6 DEF Obj

\* Where a sweep that took nothing ends, nothing it passed is asked for.
LEMMA SweepQuiet ==
    ASSUME Typed, Placed, Swept, EndSweep, ~job.progress
    PROVE  Quiet(slots, linked, Undefined, job.span)
<1>1. job.after = Start /\ \A m \in Rest : Wanted(m) = {}
  BY DEF Swept, EndSweep, At
<1>2. Pulling
  BY DEF EndSweep, At, Pulling
<1>3. ASSUME NEW k \in job.span, NEW m \in LeftIn(slots, linked, k), NEW n \in Undefined
      PROVE  n \notin ObjIn(slots, m).strong
  <2>1. m \in Members(k) /\ ~InLink(m)
    BY DEF LeftIn, Members, InLink
  <2>2. m \in Sweep
    BY <2>1 DEF Sweep
  <2>3. m \in Nat \X Nat /\ m[1] \in AllLazy(slots) /\ m[1] \in Nat
    BY <1>2, <2>2, SweepIs
  <2>4. m[1] > 0
    BY <2>3 DEF AllLazy, Typed
  <2>5. m \in Rest
    BY <1>1, <2>2, <2>3, <2>4 DEF Rest, Before, Start
  <2>6. Wanted(m) = {}
    BY <1>1, <2>5
  <2> QED
    BY <2>1, <2>6 DEF Wanted, Obj, ObjIn
<1> QED
  BY <1>3 DEF Quiet

\* How a step comes to be in a pull.
LEMMA PullingIs ==
    ASSUME Typed, Placed, SelectStep, ~Rebind, Pulling'
    PROVE  \/ /\ Pulling /\ job'.span = job.span /\ job'.ret = job.ret
              /\ slots' = slots /\ walk' = walk
           \/ /\ ~Pulling /\ job'.stage = "pull" /\ ~job'.progress /\ job'.after = Start
              /\ \/ job'.ret = "walk" /\ (link.inOrder \/ HasGroup) /\ (WalkLazy \/ WalkGroup)
                 \/ job'.ret = "default" /\ ~link.inOrder /\ job'.span = AllLazy(slots')
                 \/ job'.ret = "assemble" /\ PoolJoins /\ OfferPool
<1> HIDE DEF Stages
<1>0. job \in Jobs /\ job.ret \in {"walk", "default", "assemble"}
  BY DEF Typed, Jobs
<1>1. job'.stage \in {"pull", "alternates"}
  BY DEF Pulling
<1>2. ASSUME NEW s \in {"walk", "default", "libraries", "pool", "assemble", "selected", "failed"},
             job'.stage = s
      PROVE  FALSE
  BY <1>1, <1>2
<1>3. CASE WalkFixed \/ WalkShared
  <2>1. job' = job /\ job.stage = "walk"
    BY <1>3 DEF WalkFixed, WalkShared, InWalk, At
  <2> QED
    BY <1>2, <2>1
<1>4. CASE WalkLazy
  <2>1. job.stage = "walk" /\ (job' = job \/ (link.inOrder /\ StartPull({walk.at}, "walk")))
    BY <1>4 DEF WalkLazy, InWalk, At
  <2>2. link.inOrder /\ StartPull({walk.at}, "walk")
    BY <1>2, <2>1
  <2> QED
    BY <1>4, <2>1, <2>2, StartPullIs DEF Pulling
<1>5. CASE WalkGroup
  <2>1. job.stage = "walk" /\ (job' = job \/ StartPull(walk.group, "walk"))
    BY <1>5 DEF WalkGroup, InWalk, At
  <2>2. StartPull(walk.group, "walk")
    BY <1>2, <2>1
  <2>3. HasGroup
    <3>1. walk.at \in DOMAIN slots /\ slots[walk.at].kind = "group"
      BY <1>5 DEF WalkGroup, InWalk, Typed, Walks
    <3> QED
      BY <3>1 DEF HasGroup
  <2> QED
    BY <1>5, <2>1, <2>2, <2>3, StartPullIs DEF Pulling
<1>6. CASE EndWalk \/ EndLibraries
  <2>1. /\ job.stage \in {"walk", "libraries"} /\ slots' = slots
        /\ Goto("pool") \/ StartPull(AllLazy(slots), "default")
        /\ link.inOrder => Goto("pool") \/ job.stage = "libraries"
    BY <1>6 DEF EndWalk, EndLibraries, At
  <2>2. ~Goto("pool")
    BY <1>2, GotoIs
  <2>3. StartPull(AllLazy(slots), "default") /\ ~link.inOrder
    BY <2>1, <2>2 DEF Placed, JobOK
  <2> QED
    BY <2>1, <2>3, StartPullIs DEF Pulling
<1>7. CASE PullMember
  <2>1. slots' = slots /\ walk' = walk /\ job.stage = "pull"
    BY <1>7 DEF PullMember, At
  <2>2. ~Goto("failed")
    BY <1>2, GotoIs
  <2>3. PICK m : job' = [job EXCEPT !.after = m, !.progress = TRUE]
    BY <1>7, <2>2 DEF PullMember
  <2>4. job'.span = job.span /\ job'.ret = job.ret
    BY <1>0, <2>3 DEF Jobs
  <2> QED
    BY <2>1, <2>4 DEF Pulling
<1>8. CASE EndSweep
  <2>1. slots' = slots /\ walk' = walk /\ job.stage = "pull"
    BY <1>8 DEF EndSweep, At
  <2>2. job'.span = job.span /\ job'.ret = job.ret
    <3>1. PICK T : T = Stalled
      OBVIOUS
    <3>2. \/ job' = [job EXCEPT !.after = Start, !.progress = FALSE]
          \/ job' = [job EXCEPT !.stage = "alternates", !.todo = T]
      BY <1>8, <3>1 DEF EndSweep
    <3> QED
      BY <1>0, <3>2 DEF Jobs
  <2> QED
    BY <2>1, <2>2 DEF Pulling
<1>9. CASE TakeAlternates
  <2>1. slots' = slots /\ walk' = walk /\ job.stage = "alternates"
    BY <1>9 DEF TakeAlternates, At
  <2> QED
    BY <1>9, <2>1, TakeIs DEF Pulling
<1>10. CASE EndAlternates
  <2>1. /\ slots' = slots /\ walk' = walk /\ job.stage = "alternates"
        /\ StartPull(job.span, job.ret) \/ Goto(job.ret)
    BY <1>10 DEF EndAlternates, At
  <2>2. ~Goto(job.ret)
    BY <1>0, <1>2, GotoIs
  <2> QED
    BY <2>1, <2>2, StartPullIs DEF Pulling
<1>11. CASE DefaultLibraries \/ AddLibrary
  <2>2. job'.stage = "libraries"
    <3>1. CASE AddLibrary
      <4>1. ~Goto("failed")
        BY <1>2, GotoIs
      <4>2. PICK n : job' = [job EXCEPT !.todo = @ \ {n}, !.progress = TRUE]
        BY <3>1, <4>1, AddLibraryIs DEF LibraryJoins
      <4>3. job.stage = "libraries"
        BY <3>1, AddLibraryIs
      <4> QED
        BY <1>0, <4>2, <4>3 DEF Jobs
    <3>2. CASE DefaultLibraries
      <4>1. PICK T : job' = [job EXCEPT !.stage = "libraries", !.progress = FALSE, !.todo = T]
        BY <3>2 DEF DefaultLibraries
      <4> QED
        BY <1>0, <4>1 DEF Jobs
    <3> QED
      BY <1>11, <3>1, <3>2
  <2> QED
    BY <1>2, <2>2
<1>12. CASE OfferPool
  <2>1. job.stage = "pool"
    BY <1>12 DEF OfferPool, At
  <2>2. \A s \in {"failed", "assemble"} : ~Goto(s)
    BY <1>2, GotoIs
  <2>3. PoolJoins
    BY <1>12, <2>2, OfferPoolIs
  <2>4. PICK K : StartPull(K, "assemble")
    BY <2>3 DEF PoolJoins
  <2> QED
    BY <1>12, <2>1, <2>3, <2>4, StartPullIs DEF Pulling
<1>13. CASE Assemble
  <2>1. Goto("selected")
    BY <1>13 DEF Assemble
  <2> QED
    BY <1>2, <2>1, GotoIs
<1> QED
  BY <1>3, <1>4, <1>5, <1>6, <1>7, <1>8, <1>9, <1>10, <1>11, <1>12, <1>13 DEF SelectStep

\* How the alternates' stage is entered and stayed in.
LEMMA AlternatesIs ==
    ASSUME Typed, Placed, SelectStep, ~Rebind, job'.stage = "alternates"
    PROVE  \/ /\ EndSweep /\ ~job.progress /\ ~job'.progress /\ job'.todo = Stalled
              /\ sel' = sel /\ linked' = linked
           \/ TakeAlternates
<1> HIDE DEF Stages
<1>0. job \in Jobs /\ job.ret \in {"walk", "default", "assemble"} /\ job.progress \in BOOLEAN
  BY DEF Typed, Jobs
<1>1. Pulling /\ Pulling'
  <2>1. Pulling'
    BY DEF Pulling
  <2> QED
    BY <2>1, PullingIs
<1>2. CASE PullMember
  <2>1. job.stage = "pull"
    BY <1>2 DEF PullMember, At
  <2>2. ~Goto("failed")
    BY GotoIs
  <2>3. PICK m : job' = [job EXCEPT !.after = m, !.progress = TRUE]
    BY <1>2, <2>2 DEF PullMember
  <2> QED
    BY <1>0, <2>1, <2>3 DEF Jobs
<1>3. CASE EndSweep
  <2>1. job.stage = "pull" /\ sel' = sel /\ linked' = linked
    BY <1>3 DEF EndSweep, At
  <2>2. CASE job.progress
    <3>1. job' = [job EXCEPT !.after = Start, !.progress = FALSE]
      BY <1>3, <2>2 DEF EndSweep
    <3> QED
      BY <1>0, <2>1, <3>1 DEF Jobs
  <2>3. CASE ~job.progress
    <3>1. PICK T : T = Stalled
      OBVIOUS
    <3>2. job' = [job EXCEPT !.stage = "alternates", !.todo = T]
      BY <1>3, <2>3, <3>1 DEF EndSweep
    <3>3. job'.todo = T /\ job'.progress = job.progress
      BY <1>0, <3>2 DEF Jobs
    <3> QED
      BY <1>3, <2>1, <2>3, <3>1, <3>3
  <2> QED
    BY <2>2, <2>3
<1>4. CASE EndAlternates
  <2>1. StartPull(job.span, job.ret) \/ Goto(job.ret)
    BY <1>4 DEF EndAlternates
  <2> QED
    BY <1>0, <2>1, StartPullIs, GotoIs
<1>5. PullMember \/ EndSweep \/ TakeAlternates \/ EndAlternates
  <2>1. job.stage \in {"pull", "alternates"}
    BY <1>1 DEF Pulling
  <2> QED
    BY <2>1 DEF SelectStep, WalkFixed, WalkLazy, WalkShared, WalkGroup, EndWalk,
        DefaultLibraries, AddLibrary, EndLibraries, OfferPool, Assemble, InWalk, At
<1> QED
  BY <1>2, <1>3, <1>4, <1>5

\* An object that joins forgets no name and has all its own dealt with.
LEMMA AnswersJoin ==
    ASSUME Typed, NEW m, Joins(m), AccountsFor(m)
    PROVE  Answers \subseteq Answers' /\ Obj(m).refs \subseteq Answers'
<1>1. PICK o : o = Obj(m)
  OBVIOUS
<1> HIDE DEF Defs
<1>2. /\ sel'.defined = sel.defined \cup Defs(o)
      /\ sel'.shared = sel.shared \cup o.imports
      /\ Undefined' = (Undefined \cup Asks(sel, o)) \ Defs(o)
  BY <1>1 DEF AccountsFor, Undefined
<1>3. Answers' = sel'.defined \cup sel'.shared \cup Undefined'
  BY DEF Answers
<1>4. Answers \subseteq Answers'
  BY <1>2, <1>3 DEF Answers
<1>5. ASSUME NEW n \in o.refs PROVE n \in Answers'
  <2>1. CASE n \in Known(sel, o)
    BY <1>2, <1>3, <2>1 DEF Known
  <2>2. CASE n \notin Known(sel, o)
    BY <1>2, <1>3, <2>2 DEF Asks, Direct
  <2> QED
    BY <2>1, <2>2
<1> QED
  BY <1>1, <1>4, <1>5

\* A step forgets no reference.
LEMMA MetStep ==
    Typed /\ Placed /\ Once /\ Accounted /\ Met /\ Swept /\ SelectStep => Met'
<1> SUFFICES ASSUME Typed, Placed, Once, Accounted, Met, Swept, SelectStep PROVE Met'
  OBVIOUS
<1> HIDE DEF Nowhere, ObjIn
<1>0. link' = link /\ linked \in Seq(Nat \X Nat)
  BY LinkStays DEF Typed
<1>1. CASE Rebind
  <2>1. linked' = <<>> /\ sel' = sel /\ job'.stage \in {"walk", "failed"}
    BY <1>1, GotoIs DEF Rebind, Placed, JobOK
  <2>2. Answers' = Answers
    BY <2>1 DEF Answers, Undefined
  <2>3. ~Pulling'
    BY <2>1 DEF Pulling
  <2>4. DOMAIN linked' = {}
    BY <2>1
  <2>5. link'.inOrder /\ link'.entry # "" => link'.entry \in Answers'
    BY <1>0, <2>2 DEF Met
  <2> QED
    BY <2>1, <2>3, <2>4, <2>5 DEF Met
<1>2. CASE ~Rebind
  <2>1. /\ LineLazy' = LineLazy /\ (HasGroup' <=> HasGroup)
        /\ LineLazy \subseteq AllLazy(slots)
        /\ \A i \in DOMAIN linked : i \in DOMAIN linked' /\ linked'[i] = linked[i]
        /\ \A i \in DOMAIN linked : slots'[linked[i][1]] = slots[linked[i][1]]
    BY <1>2, LineStays, LinkedStays DEF Kept
  <2>2. \A i \in DOMAIN linked : ObjIn(slots', linked'[i]) = ObjIn(slots, linked[i])
    BY <2>1 DEF ObjIn
  <2>3. \A n : Nowhere(slots, linked, n, LineLazy) => Nowhere(slots', linked', n, LineLazy')
    BY <1>2, <2>1, NowhereStays
  \* What a reference may still be.
  <2>4. ASSUME NEW n \in Answers, n \notin Answers'
        PROVE  /\ ~link.inOrder
               /\ n \in DOMAIN sel'.alternates
               /\ HasGroup' \/ Nowhere(slots', linked', n, LineLazy')
    <3>1. TakeAlternates
      <4>1. ASSUME NEW m, FixedJoins(m) \/ PulledJoins(m) PROVE FALSE
        BY <2>4, <4>1, AnswersJoin, FixedAccounts, PulledAccounts DEF FixedJoins, PulledJoins
      <4>2. ~Narrows
        BY <2>4 DEF Narrows, Answers
      <4> QED
        BY <4>1, <4>2, StepKinds
    <3>2. PICK t \in job.todo :
             /\ t \in DOMAIN sel.alternates
             /\ sel'.defined = sel.defined /\ sel'.shared = sel.shared
             /\ sel'.alternates = sel.alternates
             /\ Undefined \ {t} \subseteq DOMAIN sel'.undefined
      BY <3>1, TakeIs
    <3>3. n = t
      BY <2>4, <3>2 DEF Answers, Undefined
    <3>4. ~link.inOrder
      BY <3>2, NoneInOrder
    <3>5. Pulling /\ Nowhere(slots, linked, t, job.span)
      BY <3>1, <3>2 DEF TakeAlternates, At, Pulling, Met
    <3>6. HasGroup \/ Nowhere(slots, linked, n, LineLazy)
      <4>1. ASSUME ~HasGroup PROVE LineLazy \subseteq job.span
        BY <3>4, <3>5, <4>1 DEF Met
      <4> QED
        BY <3>3, <3>5, <4>1 DEF Nowhere
    <3> QED
      BY <2>1, <2>3, <3>2, <3>3, <3>4, <3>6
  <2>5. ASSUME NEW n \in DOMAIN sel.alternates PROVE n \in DOMAIN sel'.alternates
    <3>1. ASSUME NEW m, FixedJoins(m) \/ PulledJoins(m) PROVE n \in DOMAIN sel'.alternates
      BY <2>5, <3>1, FixedAccounts, PulledAccounts DEF AccountsFor
    <3> QED
      BY <2>5, <3>1, StepKinds, TakeIs DEF Narrows
  <2>6. ASSUME NEW i \in DOMAIN linked', NEW n \in ObjIn(slots', linked'[i]).refs
        PROVE  \/ n \in Answers'
               \/ n \in DOMAIN sel'.alternates /\ (HasGroup' \/ Nowhere(slots', linked', n, LineLazy'))
    <3>1. CASE i \in DOMAIN linked
      <4>1. n \in ObjIn(slots, linked[i]).refs
        BY <2>2, <2>6, <3>1
      <4>2. n \in Answers \/ (n \in DOMAIN sel.alternates
                /\ (HasGroup \/ Nowhere(slots, linked, n, LineLazy)))
        BY <3>1, <4>1 DEF Met
      <4> QED
        BY <2>1, <2>3, <2>4, <2>5, <4>2
    <3>2. CASE i \notin DOMAIN linked
      <4>1. PICK m : FixedJoins(m) \/ PulledJoins(m)
        BY <3>2, StepKinds DEF NoneJoins
      <4>2. Joins(m) /\ AccountsFor(m)
        BY <4>1, FixedAccounts, PulledAccounts DEF FixedJoins, PulledJoins
      <4>3. linked'[i] = m
        BY <3>2, <4>2, JoinIs
      <4>4. ObjIn(slots', linked'[i]) = Obj(m)
        BY <4>2, <4>3 DEF ObjIn, Obj, Joins
      <4> QED
        BY <2>6, <4>2, <4>4, AnswersJoin
    <3> QED
      BY <3>1, <3>2
  <2>7. link'.inOrder /\ link'.entry # "" => link'.entry \in Answers'
    BY <1>0, <2>4 DEF Met
  <2>8. ASSUME job'.stage = "alternates", NEW n \in job'.todo
        PROVE  Nowhere(slots', linked', n, job'.span)
    <3>1. Pulling' /\ Pulling /\ job'.span = job.span /\ job.span \subseteq AllLazy(slots)
      <4>1. Pulling'
        BY <2>8 DEF Pulling
      <4>2. Pulling /\ job'.span = job.span
        BY <1>2, <2>8, <4>1, PullingIs
      <4> QED
        BY <4>1, <4>2 DEF Placed, JobOK
    <3>2. Nowhere(slots, linked, n, job.span)
      <4>1. CASE TakeAlternates
        <5>1. n \in job.todo
          BY <2>8, <4>1, TakeIs
        <5> QED
          BY <4>1, <5>1 DEF Met, TakeAlternates, At
      <4>2. CASE EndSweep /\ ~job.progress /\ job'.todo = Stalled
        <5>1. n \in Undefined
          BY <2>8, <4>2 DEF Stalled
        <5>2. Quiet(slots, linked, Undefined, job.span)
          BY <4>2, SweepQuiet
        <5> QED
          BY <5>1, <5>2 DEF Quiet, Nowhere
      <4> QED
        BY <1>2, <2>8, <4>1, <4>2, AlternatesIs
    <3> QED
      BY <1>2, <3>1, <3>2, NowhereStays
  <2>9. ASSUME Pulling', ~link'.inOrder, ~HasGroup'
        PROVE  LineLazy' \subseteq job'.span
    <3>1. CASE Pulling /\ job'.span = job.span
      BY <1>0, <2>1, <2>9, <3>1 DEF Met
    <3>2. CASE job'.span = AllLazy(slots')
      <4>1. \A k \in AllLazy(slots) : k \in AllLazy(slots')
        BY <1>2, LeftStays
      <4> QED
        BY <2>1, <3>2, <4>1
    <3>3. CASE PoolJoins
      <4>1. StartPull(AllLazy(slots'), "assemble")
        BY <1>0, <2>9, <3>3 DEF PoolJoins
      <4> QED
        BY <3>2, <4>1, StartPullIs
    <3> QED
      BY <1>0, <1>2, <2>1, <2>9, <3>1, <3>2, <3>3, PullingIs
  <2> QED
    BY <2>6, <2>7, <2>8, <2>9 DEF Met
<1> QED
  BY <1>1, <1>2

\* The stages after the walk outside ELF, where every archive was swept.
Late(j) ==
    \/ j.stage \in {"default", "pool", "assemble", "selected"}
    \/ j.stage = "libraries" /\ ~j.progress

\* How the last stages of a link that is not ELF are reached: from an end of
\* a pull with every archive quiet.
LEMMA LateIs ==
    ASSUME Typed, Placed, Swept, SelectStep, ~link.inOrder, Late(job')
    PROVE  /\ slots' = slots /\ linked' = linked /\ sel' = sel
           /\ Quiet(slots, linked, Undefined, AllLazy(slots))
<1> HIDE DEF Stages, Quiet
<1>0. job \in Jobs /\ job.ret \in {"walk", "default", "assemble"} /\ job.progress \in BOOLEAN
  BY DEF Typed, Jobs
<1>1. job'.stage \notin {"walk", "pull", "alternates", "failed"}
  BY DEF Late
<1>2. ASSUME Late(job) PROVE Quiet(slots, linked, Undefined, AllLazy(slots))
  BY <1>2 DEF Late, Swept
<1>3. CASE Rebind
  <2>1. Goto("walk") \/ Goto("failed")
    BY <1>3 DEF Rebind
  <2> QED
    BY <1>1, <2>1, GotoIs
<1>4. CASE WalkFixed \/ WalkLazy \/ WalkShared \/ WalkGroup
  <2>1. job.stage = "walk" /\ (job' = job \/ \E K : StartPull(K, "walk"))
    BY <1>4 DEF WalkFixed, WalkLazy, WalkShared, WalkGroup, InWalk, At
  <2> QED
    BY <1>1, <2>1, StartPullIs
<1>5. CASE EndWalk
  <2>1. StartPull(AllLazy(slots), "default")
    BY <1>5 DEF EndWalk
  <2> QED
    BY <1>1, <2>1, StartPullIs
<1>6. CASE PullMember
  <2>1. job.stage = "pull"
    BY <1>6 DEF PullMember, At
  <2>2. ~Goto("failed")
    BY <1>1, GotoIs
  <2>3. PICK m : job' = [job EXCEPT !.after = m, !.progress = TRUE]
    BY <1>6, <2>2 DEF PullMember
  <2> QED
    BY <1>0, <1>1, <2>1, <2>3 DEF Jobs
<1>7. CASE EndSweep
  <2>1. job.stage = "pull"
    BY <1>7 DEF EndSweep, At
  <2>2. PICK T : T = Stalled
    OBVIOUS
  <2>3. \/ job' = [job EXCEPT !.after = Start, !.progress = FALSE]
        \/ job' = [job EXCEPT !.stage = "alternates", !.todo = T]
    BY <1>7, <2>2 DEF EndSweep
  <2> QED
    BY <1>0, <1>1, <2>1, <2>3 DEF Jobs
<1>8. CASE TakeAlternates
  BY <1>1, <1>8, TakeIs
<1>9. CASE EndAlternates
  <2>1. job.stage = "alternates" /\ slots' = slots /\ linked' = linked /\ sel' = sel
    BY <1>9 DEF EndAlternates, At
  <2>2. ~StartPull(job.span, job.ret)
    BY <1>1, StartPullIs
  <2>3. ~job.progress /\ Goto(job.ret)
    BY <1>9, <2>2 DEF EndAlternates
  <2>4. job.ret # "walk"
    BY <1>1, <2>3, GotoIs
  <2>5. job.span = AllLazy(slots)
    BY <2>1, <2>4 DEF Swept, Pulling
  <2>6. Quiet(slots, linked, Undefined, job.span)
    BY <2>1, <2>3 DEF Swept
  <2> QED
    BY <2>1, <2>5, <2>6
<1>10. CASE DefaultLibraries \/ Assemble
  <2>1. /\ job.stage \in {"default", "assemble"}
        /\ slots' = slots /\ linked' = linked /\ sel' = sel
    BY <1>10 DEF DefaultLibraries, Assemble, At
  <2> QED
    BY <1>2, <2>1 DEF Late
<1>11. CASE AddLibrary
  <2>0. ~Goto("failed")
    BY <1>1, GotoIs
  <2>1. job.stage = "libraries" /\ \E n : job' = [job EXCEPT !.todo = @ \ {n}, !.progress = TRUE]
    BY <1>11, <2>0, AddLibraryIs DEF LibraryJoins
  <2>2. job'.stage = "libraries" /\ job'.progress
    BY <1>0, <2>1 DEF Jobs
  <2> QED
    BY <2>2 DEF Late
<1>12. CASE EndLibraries
  <2>1. job.stage = "libraries" /\ slots' = slots /\ linked' = linked /\ sel' = sel
    BY <1>12 DEF EndLibraries, At
  <2>2. ~StartPull(AllLazy(slots), "default")
    BY <1>1, StartPullIs
  <2>3. ~job.progress
    BY <1>12, <2>2 DEF EndLibraries
  <2> QED
    BY <1>2, <2>1, <2>3 DEF Late
<1>13. CASE OfferPool
  <2>1. job.stage = "pool" /\ linked' = linked /\ sel' = sel
    BY <1>13 DEF OfferPool, At
  <2>2. ~PoolJoins
    <3>1. ASSUME NEW K, StartPull(K, "assemble") PROVE FALSE
      BY <1>1, <3>1, StartPullIs
    <3> QED
      BY <3>1 DEF PoolJoins
  <2>3. slots' = slots
    BY <1>13, <2>2, OfferPoolIs
  <2> QED
    BY <1>2, <2>1, <2>3 DEF Late
<1> QED
  BY <1>3, <1>4, <1>5, <1>6, <1>7, <1>8, <1>9, <1>10, <1>11, <1>12, <1>13 DEF SelectStep

\* A step keeps what a sweep has shown quiet.
LEMMA SweptStep ==
    Typed /\ Placed /\ Once /\ Swept /\ SelectStep => Swept'
<1> SUFFICES ASSUME Typed, Placed, Once, Swept, SelectStep PROVE Swept'
  OBVIOUS
<1> HIDE DEF Quiet, Stages
<1>0. /\ link' = link /\ job \in Jobs /\ job.ret \in {"walk", "default", "assemble"}
      /\ job.progress \in BOOLEAN
  BY LinkStays DEF Typed, Jobs
<1>1. CASE Rebind
  <2>1. job'.stage \in {"walk", "failed"}
    BY <1>1, GotoIs DEF Rebind
  <2> QED
    BY <2>1 DEF Swept, Pulling
<1>2. CASE ~Rebind
  <2>1. ASSUME job'.stage = "alternates", ~job'.progress
        PROVE  Quiet(slots', linked', Undefined', job'.span)
    <3>1. Pulling' /\ Pulling /\ job'.span = job.span /\ job.span \subseteq AllLazy(slots)
      <4>1. Pulling'
        BY <2>1 DEF Pulling
      <4>2. Pulling /\ job'.span = job.span
        BY <1>2, <2>1, <4>1, PullingIs
      <4> QED
        BY <4>1, <4>2 DEF Placed, JobOK
    <3>2. Quiet(slots, linked, Undefined, job.span) /\ Undefined' \subseteq Undefined
      <4>1. CASE TakeAlternates
        <5>1. PICK n \in job.todo :
                 /\ DOMAIN sel'.undefined = (Undefined \ {n})
                                         \cup (IF Asking(sel, n) THEN {AltOf(sel, n)} ELSE {})
                 /\ job'.progress <=>
                       job.progress \/ (Asking(sel, n) /\ AltOf(sel, n) \notin Undefined \ {n})
          BY <4>1, TakeIs
        <5>2. ~job.progress /\ ~(Asking(sel, n) /\ AltOf(sel, n) \notin Undefined \ {n})
          BY <2>1, <5>1
        <5>3. Undefined' \subseteq Undefined
          BY <5>1, <5>2 DEF Undefined
        <5> QED
          BY <4>1, <5>2, <5>3 DEF Swept, TakeAlternates, At
      <4>2. CASE EndSweep /\ ~job.progress /\ sel' = sel
        BY <4>2, SweepQuiet DEF Undefined
      <4> QED
        BY <1>2, <2>1, <4>1, <4>2, AlternatesIs
    <3> QED
      BY <1>2, <3>1, <3>2, QuietStays
  <2>2. ASSUME job'.stage = "pull", ~job'.progress
        PROVE  job'.after = Start
    <3>1. CASE ~Pulling
      <4>1. Pulling'
        BY <2>2 DEF Pulling
      <4> QED
        BY <1>2, <3>1, <4>1, PullingIs
    <3>2. CASE Pulling
      <4>1. PullMember \/ EndSweep \/ TakeAlternates \/ EndAlternates
        <5>1. job.stage \in {"pull", "alternates"}
          BY <3>2 DEF Pulling
        <5> QED
          BY <1>2, <5>1 DEF SelectStep, WalkFixed, WalkLazy, WalkShared, WalkGroup, EndWalk,
              DefaultLibraries, AddLibrary, EndLibraries, OfferPool, Assemble, InWalk, At
      <4>2. CASE PullMember
        <5>1. ~Goto("failed")
          BY <2>2, GotoIs
        <5>2. PICK m : job' = [job EXCEPT !.after = m, !.progress = TRUE]
          BY <4>2, <5>1 DEF PullMember
        <5> QED
          BY <1>0, <2>2, <5>2 DEF Jobs
      <4>3. CASE EndSweep
        <5>1. PICK T : T = Stalled
          OBVIOUS
        <5>2. \/ job' = [job EXCEPT !.after = Start, !.progress = FALSE]
              \/ job' = [job EXCEPT !.stage = "alternates", !.todo = T]
          BY <4>3, <5>1 DEF EndSweep
        <5> QED
          BY <1>0, <2>2, <5>2 DEF Jobs
      <4>4. CASE TakeAlternates
        BY <2>2, <4>4, TakeIs
      <4>5. CASE EndAlternates
        <5>1. StartPull(job.span, job.ret) \/ Goto(job.ret)
          BY <4>5 DEF EndAlternates
        <5> QED
          BY <1>0, <2>2, <5>1, StartPullIs, GotoIs
      <4> QED
        BY <4>1, <4>2, <4>3, <4>4, <4>5
    <3> QED
      BY <3>1, <3>2
  <2>3. ASSUME ~link'.inOrder, Pulling', job'.ret # "walk"
        PROVE  job'.span = AllLazy(slots')
    <3>1. CASE Pulling /\ job'.span = job.span /\ job'.ret = job.ret /\ slots' = slots
      BY <1>0, <2>3, <3>1 DEF Swept
    <3>2. CASE PoolJoins
      <4>1. StartPull(AllLazy(slots'), "assemble")
        BY <1>0, <2>3, <3>2 DEF PoolJoins
      <4> QED
        BY <4>1, StartPullIs
    <3> QED
      BY <1>2, <2>3, <3>1, <3>2, PullingIs
  <2>4. ASSUME ~link'.inOrder, Late(job')
        PROVE  Quiet(slots', linked', Undefined', AllLazy(slots'))
    <3>1. /\ slots' = slots /\ linked' = linked /\ sel' = sel
          /\ Quiet(slots, linked, Undefined, AllLazy(slots))
      BY <1>0, <2>4, LateIs
    <3>2. Undefined' = Undefined
      BY <3>1 DEF Undefined
    <3> QED
      BY <3>1, <3>2
  <2> QED
    BY <2>1, <2>2, <2>3, <2>4 DEF Swept, Late
<1> QED
  BY <1>1, <1>2

(***************************************************************************)
(* An ELF link.                                                            *)
(***************************************************************************)
\* A name that an ELF link asks for newly was not asked for before.
LEMMA NewlyAsked ==
    ASSUME Typed, Placed, Once, Accounted, Met, SelectStep, link.inOrder,
           NEW n \in Undefined', n \notin Undefined
    PROVE  n # link.entry /\ \A h \in DOMAIN linked : n \notin ObjIn(slots, linked[h]).refs
<1>1. DOMAIN sel.alternates = {}
  BY NoneInOrder
<1>2. PICK m : Joins(m) /\ AccountsFor(m)
  <2>1. ~Narrows
    BY DEF Narrows
  <2>2. ~TakeAlternates
    BY <1>1, TakeIs
  <2> QED
    BY <2>1, <2>2, StepKinds, FixedAccounts, PulledAccounts DEF FixedJoins, PulledJoins
<1>3. n \in Asks(sel, Obj(m)) /\ n \notin Defs(Obj(m))
  BY <1>2 DEF AccountsFor, Undefined
<1>4. n \notin sel.defined \cup sel.shared
  BY <1>3 DEF Asks, Direct, Known
<1>5. n \notin Answers
  BY <1>4 DEF Answers
<1>6. n \in Symbols
  <2>1. Typed'
    BY TypedStep
  <2>2. sel' \in Selections
    BY <2>1 DEF Typed
  <2> QED
    BY <2>2, SelectionParts DEF Undefined
<1>7. n # link.entry
  BY <1>5, <1>6, LinksAssumption DEF Met
<1> QED
  BY <1>1, <1>5, <1>7 DEF Met

\* An archive that has answered stays so.
LEMMA AnsweredStays ==
    ASSUME Typed, Placed, Once, Accounted, Met, SelectStep, ~Rebind, link.inOrder,
           NEW k \in AllLazy(slots),
           Answered(slots, linked, Undefined, link.entry, walk.at, Ahead, k),
           \A a \in Ahead' : a \in Ahead \/ a >= walk.at
    PROVE  Answered(slots', linked', Undefined', link'.entry, walk'.at, Ahead', k)
<1>0. /\ walk.at \in Nat /\ walk'.at \in Nat /\ slots \in Seq(Slots) /\ slots' \in Seq(Slots)
      /\ Len(slots) \in Nat /\ walk.at <= Len(slots) + 1 /\ k \in Nat
      /\ link' = link /\ walk \in Walks /\ Ahead' \subseteq Nat
  <2>1. Typed'
    BY TypedStep
  <2>2. walk.at \in Nat /\ walk'.at \in Nat /\ slots \in Seq(Slots) /\ slots' \in Seq(Slots) /\ walk \in Walks
        /\ walk'.group \subseteq Nat /\ job'.span \subseteq Nat
    BY <2>1 DEF Typed, Walks, Jobs
  <2>3. Ahead' \subseteq Nat
    BY <2>2 DEF Ahead
  <2> QED
    BY <2>2, <2>3, LinkStays DEF Placed, WalkOK, AllLazy
<1>1. PICK i \in k .. walk.at - 1 :
         /\ Level(slots, i) /\ \A a \in Ahead : i < a
         /\ AnsweredTo(slots, linked, Undefined, link.entry, k, i)
  BY DEF Answered
<1>2. i \in Nat /\ i \in 0 .. Len(slots) /\ i < walk.at
  BY <1>0
<1>3. Level(slots', i)
  <2>1. NoNewGroup(slots, slots')
    BY SlotsGrow DEF Grown
  <2>2. \A b \in BOOLEAN : Bounds(slots', i, b) = Bounds(slots, i, b)
    BY <1>0, <1>2, <2>1, BoundsKept
  <2>3. Bounds(slots', i, TRUE) = Bounds(slots, i, TRUE) /\ Bounds(slots', i, FALSE) = Bounds(slots, i, FALSE)
    BY <2>2
  <2> HIDE DEF Bounds
  <2> QED
    BY <1>1, <2>3 DEF Level
<1>4. walk'.at >= walk.at
  <2>1. ASSUME NEW m, FixedJoins(m) PROVE walk'.at = walk.at
    BY <1>0, <2>1 DEF FixedJoins, Walks
  <2>2. ASSUME NEW m, PulledJoins(m) PROVE walk'.at = walk.at
    BY <2>2 DEF PulledJoins
  <2> QED
    BY <1>0, <2>1, <2>2, StepJoins DEF NoneJoins
<1>5. \A a \in Ahead' : i < a
  BY <1>0, <1>1, <1>2
<1>6. ASSUME NEW h \in DOMAIN linked', linked'[h][1] <= i
      PROVE  h \in DOMAIN linked
  <2> SUFFICES ASSUME h \notin DOMAIN linked PROVE FALSE
    OBVIOUS
  <2>1. PICK m : FixedJoins(m) \/ PulledJoins(m)
    BY StepJoins DEF NoneJoins
  <2>2. Joins(m) /\ m \in Nat \X Nat
    BY <2>1 DEF FixedJoins, PulledJoins, Joins
  <2>3. linked'[h] = m
    BY <2>2, JoinIs
  <2>4. m[1] \in Nat /\ m[1] <= i
    BY <1>6, <2>2, <2>3
  <2>5. CASE FixedJoins(m)
    <3>1. m[1] = walk.at
      BY <2>5 DEF FixedJoins
    <3> QED
      BY <1>0, <1>2, <2>4, <3>1
  <2>6. CASE PulledJoins(m)
    <3>1. m[1] \in Ahead
      BY <2>6 DEF PulledJoins, Ahead, Pulling, At
    <3> QED
      BY <1>1, <1>2, <2>4, <3>1
  <2> QED
    BY <2>1, <2>5, <2>6
<1> HIDE DEF LeftIn, ObjIn
<1>7. \A h \in DOMAIN linked : linked'[h] = linked[h] /\ ObjIn(slots', linked'[h]) = ObjIn(slots, linked[h])
  BY LinkedStays DEF Kept, ObjIn
<1>8. ASSUME NEW m \in LeftIn(slots', linked', k), NEW n \in Undefined', n \in ObjIn(slots', m).strong
      PROVE  Unasked(slots', linked', link.entry, n, i)
  <2>1. m \in LeftIn(slots, linked, k) /\ ObjIn(slots', m) = ObjIn(slots, m)
    BY LeftStays
  <2>2. n # link.entry /\ \A h \in DOMAIN linked : linked[h][1] <= i => n \notin ObjIn(slots, linked[h]).refs
    <3>1. CASE n \in Undefined
      BY <1>1, <1>8, <2>1, <3>1 DEF AnsweredTo, Unasked
    <3>2. CASE n \notin Undefined
      BY <3>2, NewlyAsked
    <3> QED
      BY <3>1, <3>2
  <2> QED
    BY <1>6, <1>7, <2>2 DEF Unasked
<1>9. AnsweredTo(slots', linked', Undefined', link'.entry, k, i)
  BY <1>0, <1>8 DEF AnsweredTo
<1>10. i \in k .. walk'.at - 1
  BY <1>0, <1>1, <1>2, <1>4
<1> HIDE DEF AnsweredTo, Level
<1> QED
  BY <1>3, <1>5, <1>9, <1>10 DEF Answered

\* A step of an ELF link keeps its turn.
LEMMA InTurnStep ==
    Typed /\ Placed /\ Once /\ Accounted /\ Met /\ Swept /\ InTurn /\ SelectStep => InTurn'
<1> SUFFICES ASSUME Typed, Placed, Once, Accounted, Met, Swept, InTurn, SelectStep,
                    link.inOrder, job'.stage # "failed"
             PROVE  Turned' /\ PullPlace' /\ PoolPlace'
  BY LinkStays DEF InTurn
<1> HIDE DEF Answered, Quiet, Level, Stages, Slots
<1>0. /\ walk \in Walks /\ walk.at \in Nat \ {0} /\ walk.depth \in Nat
      /\ slots \in Seq(Slots) /\ Len(slots) \in Nat /\ DOMAIN slots = 1 .. Len(slots)
      /\ AllLazy(slots) \subseteq 1 .. Len(slots) /\ walk.at <= Len(slots) + 1
      /\ job \in Jobs /\ job.ret \in {"walk", "default", "assemble"} /\ job.progress \in BOOLEAN
      /\ Typed' /\ Placed' /\ link' = link
  <2>1. /\ walk \in Walks /\ slots \in Seq(Slots) /\ job \in Jobs
    BY DEF Typed
  <2>2. DOMAIN slots = 1 .. Len(slots) /\ Len(slots) \in Nat
    BY <2>1
  <2>3. AllLazy(slots) \subseteq 1 .. Len(slots)
    BY <2>2 DEF AllLazy
  <2> QED
    BY <2>1, <2>2, <2>3, TypedStep, PlacedStep, LinkStays DEF Walks, Jobs, Placed, WalkOK
<1>1. job.stage # "failed" /\ job.stage \notin {"default", "libraries"}
  <2>1. job.stage \notin {"default", "libraries"}
    BY DEF Placed, JobOK
  <2> QED
    BY <2>1 DEF SelectStep, Rebind, WalkFixed, WalkLazy, WalkShared, WalkGroup, EndWalk,
        PullMember, EndSweep, TakeAlternates, EndAlternates, DefaultLibraries, AddLibrary,
        EndLibraries, OfferPool, Assemble, InWalk, At
<1>2. Turned /\ PullPlace /\ PoolPlace
  BY <1>1 DEF InTurn
\* The archives passed, in a step that leaves no archive.
<1>3. ASSUME ~Rebind, slots' = slots, Ahead \subseteq Ahead',
             \A a \in Ahead' : a \in Ahead \/ a >= walk.at,
             \/ walk'.at = walk.at
             \/ walk'.at = walk.at + 1 /\ (walk.at \in AllLazy(slots) => walk.at \in Ahead')
      PROVE  Turned'
  <2>1. ASSUME NEW k \in AllLazy(slots'), k < walk'.at, k \notin Ahead'
        PROVE  Answered(slots', linked', Undefined', link'.entry, walk'.at, Ahead', k)
    <3>1. k \in AllLazy(slots) /\ k \notin Ahead /\ k \in Nat
      BY <1>0, <1>3, <2>1
    <3>2. k < walk.at
      BY <1>0, <1>3, <2>1, <3>1
    <3>3. Answered(slots, linked, Undefined, link.entry, walk.at, Ahead, k)
      BY <1>2, <3>1, <3>2 DEF Turned
    <3> QED
      BY <1>3, <3>1, <3>3, AnsweredStays
  <2> QED
    BY <2>1 DEF Turned
\* Such a step of the walk, outside a pull.
<1>4. ASSUME job.stage = "walk", job' = job
      PROVE  PullPlace' /\ PoolPlace' /\ Ahead = walk.group /\ Ahead' = walk'.group
  BY <1>4 DEF PullPlace, PoolPlace, Pulling, Ahead
<1>5. ASSUME job.stage = "walk", NEW K, StartPull(K, "walk"), walk'.group = {}, walk'.depth = 0,
             \A k \in K : k < walk'.at
      PROVE  PullPlace' /\ PoolPlace' /\ Ahead = walk.group /\ Ahead' = K
  <2>1. job'.stage = "pull" /\ job'.span = K /\ job'.ret = "walk"
    BY <1>5, StartPullIs
  <2>2. Level(slots', walk'.at - 1)
    <3>1. /\ walk'.depth + Bounds(slots', walk'.at - 1, FALSE) = Bounds(slots', walk'.at - 1, TRUE)
          /\ walk'.at - 1 \in Nat
      <4>1. WalkOK'
        BY <1>0 DEF Placed
      <4>2. walk' \in Walks
        BY <1>0 DEF Typed
      <4>3. walk'.at - 1 \in Nat
        BY <4>2 DEF Walks
      <4> HIDE DEF Bounds
      <4> QED
        BY <4>1, <4>3 DEF WalkOK
    <3>2. PICK x \in Nat, y \in Nat :
             x = Bounds(slots', walk'.at - 1, FALSE) /\ y = Bounds(slots', walk'.at - 1, TRUE)
      BY <3>1, BoundsType
    <3>3. 0 + x = y
      BY <1>5, <3>1, <3>2
    <3>4. x = y
      BY <3>3
    <3> QED
      BY <3>2, <3>4 DEF Level
  <2> QED
    BY <1>5, <2>1, <2>2 DEF PullPlace, PoolPlace, Pulling, Ahead
<1>6. CASE Rebind
  <2>1. walk' = walk /\ walk.at = 1 /\ job'.stage \in {"walk", "failed"}
    BY <1>6, GotoIs DEF Rebind, Placed, JobOK
  <2>2. AllLazy(slots') \subseteq Nat \ {0}
    BY <1>0 DEF AllLazy, Typed
  <2>3. Turned'
    BY <2>1, <2>2 DEF Turned
  <2> QED
    BY <2>1, <2>3 DEF PullPlace, PoolPlace, Pulling
<1>7. CASE WalkFixed
  <2>1. job.stage = "walk" /\ job' = job /\ slots' = slots /\ walk.at \notin AllLazy(slots) /\ ~Rebind
    BY <1>7 DEF WalkFixed, InWalk, At, AllLazy, Rebind
  <2>2. walk'.at \in {walk.at, walk.at + 1} /\ walk'.group = walk.group
    <3>1. walk' = [walk EXCEPT !.obj = @ + 1] \/ Step(walk)
      BY <1>7 DEF WalkFixed
    <3> QED
      BY <1>0, <3>1 DEF Step, Walks
  <2> QED
    BY <1>3, <1>4, <2>1, <2>2
<1>8. CASE WalkShared
  <2>1. job.stage = "walk" /\ job' = job /\ slots' = slots /\ walk.at \notin AllLazy(slots) /\ ~Rebind
    BY <1>8 DEF WalkShared, InWalk, At, AllLazy, Rebind
  <2>2. walk'.at = walk.at + 1 /\ walk'.group = walk.group
    <3>1. Step(walk)
      BY <1>8 DEF WalkShared
    <3> QED
      BY <1>0, <3>1, StepIs
  <2> QED
    BY <1>3, <1>4, <2>1, <2>2
<1>9. CASE WalkLazy
  <2>1. job.stage = "walk" /\ slots' = slots /\ ~Rebind
    BY <1>9 DEF WalkLazy, InWalk, At, Rebind
  <2>2. CASE walk.depth > 0
    <3>1. Step([walk EXCEPT !.group = @ \cup {walk.at}]) /\ job' = job
      BY <1>0, <1>9, <2>2 DEF WalkLazy
    <3>2. walk'.at = walk.at + 1 /\ walk'.group = walk.group \cup {walk.at}
      BY <1>0, <3>1 DEF Step, Walks
    <3> QED
      BY <1>0, <1>3, <1>4, <2>1, <3>1, <3>2
  <2>3. CASE walk.depth = 0
    <3>1. Step(walk) /\ StartPull({walk.at}, "walk")
      BY <1>0, <1>9, <2>3 DEF WalkLazy
    <3>2. walk.group = {}
      BY <2>3 DEF Placed, WalkOK
    <3>3. walk'.at = walk.at + 1 /\ walk'.group = {} /\ walk'.depth = 0
      BY <1>0, <2>3, <3>1, <3>2, StepIs
    <3>4. \A k \in {walk.at} : k < walk'.at
      BY <1>0, <3>3
    <3>5. PullPlace' /\ PoolPlace' /\ Ahead = walk.group /\ Ahead' = {walk.at}
      BY <1>5, <2>1, <3>1, <3>3, <3>4
    <3> QED
      BY <1>0, <1>3, <2>1, <3>2, <3>3, <3>5
  <2> QED
    BY <1>0, <2>2, <2>3
<1>10. CASE WalkGroup
  <2>1. job.stage = "walk" /\ slots' = slots /\ walk.at \notin AllLazy(slots) /\ ~Rebind
    BY <1>10 DEF WalkGroup, InWalk, At, AllLazy, Rebind
  <2>2. PICK d : /\ d = 0 => Step([walk EXCEPT !.depth = 0, !.group = {}])
                             /\ StartPull(walk.group, "walk")
                 /\ d # 0 => Step([walk EXCEPT !.depth = d]) /\ job' = job
    BY <1>10 DEF WalkGroup
  <2>3. CASE d # 0
    <3>1. walk'.at = walk.at + 1 /\ walk'.group = walk.group /\ job' = job
      BY <1>0, <2>2, <2>3 DEF Step, Walks
    <3> QED
      BY <1>3, <1>4, <2>1, <3>1
  <2>4. CASE d = 0
    <3>1. walk'.at = walk.at + 1 /\ walk'.group = {} /\ walk'.depth = 0
      BY <1>0, <2>2, <2>4 DEF Step, Walks
    <3>2. \A k \in walk.group : k < walk'.at
      BY <1>0, <3>1 DEF Placed, WalkOK
    <3>3. PullPlace' /\ PoolPlace' /\ Ahead = walk.group /\ Ahead' = walk.group
      BY <1>5, <2>1, <2>2, <2>4, <3>1, <3>2
    <3> QED
      BY <1>3, <2>1, <3>1, <3>3
  <2> QED
    BY <2>3, <2>4
<1>11. CASE EndWalk
  <2>1. /\ job.stage = "walk" /\ Goto("pool") /\ slots' = slots /\ walk' = walk
        /\ walk.at > Len(slots) /\ ~Rebind
    BY <1>11 DEF EndWalk, At, Rebind
  <2>2. job'.stage = "pool" /\ walk.at - 1 = Len(slots)
    BY <1>0, <2>1, GotoIs
  <2>3. Ahead = walk.group /\ Ahead' = walk.group
    BY <2>1, <2>2 DEF Ahead, Pulling
  <2>4. walk.group = {}
    <3>1. /\ walk.depth + Bounds(slots, Len(slots), FALSE) = Bounds(slots, Len(slots), TRUE)
          /\ Bounds(slots, Len(slots), FALSE) = Bounds(slots, Len(slots), TRUE)
      BY <2>2 DEF Placed, WalkOK, SlotsOK, Paired, Level
    <3>2. PICK x \in Nat : x = Bounds(slots, Len(slots), FALSE)
      BY <1>0, BoundsType
    <3>3. walk.depth + x = x
      BY <3>1, <3>2
    <3>4. walk.depth = 0
      BY <1>0, <3>3
    <3> QED
      BY <3>4 DEF Placed, WalkOK
  <2>5. Turned'
    BY <1>3, <2>1, <2>3
  <2>6. \A k \in AllLazy(slots') : k < walk'.at
    BY <1>0, <2>1
  <2> QED
    BY <2>1, <2>2, <2>4, <2>5, <2>6 DEF PullPlace, PoolPlace, Pulling
\* A step within a pull.
<1>12. ASSUME Pulling, Pulling'
       PROVE  Turned' /\ PullPlace' /\ PoolPlace'
  <2>1. ~Rebind /\ job.stage \in {"pull", "alternates"} /\ job'.stage \in {"pull", "alternates"}
    BY <1>12 DEF Pulling, Rebind, At
  <2>2. job'.span = job.span /\ job'.ret = job.ret /\ slots' = slots /\ walk' = walk
    BY <1>12, <2>1, PullingIs
  <2>3. Ahead' = Ahead
    BY <1>12, <2>2 DEF Ahead
  <2>4. Turned'
    BY <1>3, <2>1, <2>2, <2>3
  <2>5. PullPlace'
    BY <1>2, <1>12, <2>2 DEF PullPlace
  <2>6. PoolPlace'
    BY <2>1 DEF PoolPlace
  <2> QED
    BY <2>4, <2>5, <2>6
<1>13. CASE PullMember
  <2>1. Pulling
    BY <1>13 DEF PullMember, Pulling, At
  <2>2. ~Goto("failed")
    BY GotoIs
  <2>3. PICK m : job' = [job EXCEPT !.after = m, !.progress = TRUE]
    BY <1>13, <2>2 DEF PullMember
  <2>4. Pulling'
    BY <1>0, <2>1, <2>3 DEF Jobs, Pulling
  <2> QED
    BY <1>12, <2>1, <2>4
<1>14. CASE EndSweep
  <2>1. Pulling
    BY <1>14 DEF EndSweep, Pulling, At
  <2>2. PICK T : T = Stalled
    OBVIOUS
  <2>3. \/ job' = [job EXCEPT !.after = Start, !.progress = FALSE]
        \/ job' = [job EXCEPT !.stage = "alternates", !.todo = T]
    BY <1>14, <2>2 DEF EndSweep
  <2>4. Pulling'
    BY <1>0, <2>1, <2>3 DEF Jobs, Pulling
  <2> QED
    BY <1>12, <2>1, <2>4
<1>15. CASE TakeAlternates
  BY <1>15, NoneInOrder, TakeIs
<1>16. CASE EndAlternates
  <2>1. /\ job.stage = "alternates" /\ Pulling /\ slots' = slots /\ walk' = walk /\ ~Rebind
        /\ linked' = linked /\ sel' = sel
    BY <1>16 DEF EndAlternates, At, Pulling, Rebind
  <2>2. CASE StartPull(job.span, job.ret)
    <3>1. Pulling'
      BY <2>2, StartPullIs DEF Pulling
    <3> QED
      BY <1>12, <2>1, <3>1
  <2>3. CASE ~job.progress /\ Goto(job.ret)
    <3>1. job'.stage = job.ret /\ job.ret \in {"walk", "assemble"}
      BY <1>0, <2>1, <2>3, GotoIs DEF Placed, JobOK
    <3>2. Quiet(slots, linked, Undefined, job.span)
      BY <2>1, <2>3 DEF Swept
    <3>3. walk.group = {} /\ Ahead = job.span /\ Ahead' = {} /\ Undefined' = Undefined
      BY <1>2, <2>1, <3>1 DEF PullPlace, Ahead, Pulling, Undefined
    \* An archive already done with.
    <3>4. ASSUME NEW k \in AllLazy(slots), k < walk.at, k \notin job.span
          PROVE  Answered(slots', linked', Undefined', link'.entry, walk'.at, Ahead', k)
      <4>1. Answered(slots, linked, Undefined, link.entry, walk.at, Ahead, k)
        BY <1>2, <3>3, <3>4 DEF Turned
      <4> QED
        BY <2>1, <3>3, <4>1, AnsweredStays
    <3>5. CASE job.ret = "walk"
      <4>1. Level(slots, walk.at - 1) /\ \A k \in job.span : k < walk.at
        BY <1>2, <2>1, <3>5 DEF PullPlace
      <4>2. ASSUME NEW k \in job.span, k \in Nat
            PROVE  Answered(slots', linked', Undefined', link'.entry, walk'.at, Ahead', k)
        <5>1. k <= walk.at - 1
          BY <1>0, <4>1, <4>2
        <5>2. AnsweredTo(slots, linked, Undefined, link.entry, k, walk.at - 1)
          BY <3>2 DEF AnsweredTo, Quiet
        <5>3. walk.at - 1 \in k .. walk.at - 1
          BY <1>0, <4>2, <5>1
        <5> HIDE DEF AnsweredTo
        <5> QED
          BY <1>0, <2>1, <3>3, <4>1, <5>2, <5>3 DEF Answered
      <4>3. Turned'
        BY <1>0, <2>1, <3>4, <4>2 DEF Turned
      <4>4. job'.stage = "walk"
        BY <3>1, <3>5
      <4> QED
        BY <4>3, <4>4 DEF PullPlace, PoolPlace, Pulling
    <3>6. CASE job.ret = "assemble"
      <4>1. /\ \A k \in job.span : k >= walk.at
            /\ \A k \in AllLazy(slots) : k < walk.at \/ k \in job.span
        BY <1>2, <2>1, <3>6 DEF PullPlace
      <4>2. \A k \in AllLazy(slots) : k < walk.at => k \notin job.span
        BY <1>0, <4>1
      <4>3. Turned'
        BY <2>1, <3>4, <4>2 DEF Turned
      <4>4. job'.stage = "assemble"
        BY <3>1, <3>6
      <4>5. \A k \in AllLazy(slots') : k < walk'.at \/ Quiet(slots', linked', Undefined', {k})
        <5>1. \A k \in job.span : Quiet(slots, linked, Undefined, {k})
          BY <3>2 DEF Quiet
        <5> QED
          BY <2>1, <3>3, <4>1, <5>1
      <4> QED
        BY <2>1, <3>3, <4>3, <4>4, <4>5 DEF PullPlace, PoolPlace, Pulling
    <3> QED
      BY <3>1, <3>5, <3>6
  <2> QED
    BY <1>16, <2>2, <2>3 DEF EndAlternates
<1>17. CASE OfferPool
  <2>1. job.stage = "pool" /\ linked' = linked /\ sel' = sel /\ walk' = walk /\ ~Rebind /\ ~Pulling
    BY <1>17 DEF OfferPool, At, Rebind, Pulling
  <2>2. /\ walk.group = {} /\ Len(slots) < walk.at /\ Ahead = {} /\ Undefined' = Undefined
        /\ \A k \in AllLazy(slots) : k < walk.at \/ Quiet(slots, linked, Undefined, {k})
    BY <1>2, <2>1 DEF PoolPlace, Ahead, Undefined
  <2>3. CASE PoolJoins
    <3>1. Grown(slots, slots') /\ Len(slots') = Len(slots) + 1
      BY <2>3, PoolGrows
    <3>2. StartPull({Len(slots')}, "assemble")
      BY <2>3 DEF PoolJoins
    <3>3. job'.stage = "pull" /\ job'.span = {Len(slots')} /\ job'.ret = "assemble"
      BY <3>2, StartPullIs
    <3>4. walk.at = Len(slots')
      BY <1>0, <2>2, <3>1
    <3>5. Ahead' = {walk.at}
      BY <2>1, <2>2, <3>3, <3>4 DEF Ahead, Pulling
    <3>6. \A k \in AllLazy(slots') : k \in AllLazy(slots) \/ k = walk.at
      <4>1. slots' \in Seq(Slots)
        BY <3>1 DEF Grown
      <4>2. \A k \in DOMAIN slots' : k \in DOMAIN slots \/ k = walk.at
        BY <1>0, <3>1, <3>4, <4>1
      <4> QED
        BY <3>1, <4>2 DEF AllLazy, Grown
    <3>7. ASSUME NEW k \in AllLazy(slots'), k < walk'.at, k \notin Ahead'
          PROVE  Answered(slots', linked', Undefined', link'.entry, walk'.at, Ahead', k)
      <4>1. k \in AllLazy(slots) /\ k < walk.at /\ k \notin Ahead
        BY <2>1, <2>2, <3>5, <3>6, <3>7
      <4>2. Answered(slots, linked, Undefined, link.entry, walk.at, Ahead, k)
        BY <1>2, <4>1 DEF Turned
      <4>3. \A a \in Ahead' : a \in Ahead \/ a >= walk.at
        BY <1>0, <3>5
      <4> QED
        BY <2>1, <4>1, <4>2, <4>3, AnsweredStays
    <3>8. Turned'
      BY <3>7 DEF Turned
    <3>9. \A k \in AllLazy(slots') : k < walk'.at \/ k \in job'.span
      BY <1>0, <2>1, <2>2, <3>3, <3>4, <3>6
    <3>10. PullPlace'
      BY <1>0, <2>1, <2>2, <3>3, <3>4, <3>9 DEF PullPlace
    <3> QED
      BY <3>3, <3>8, <3>10 DEF PoolPlace
  <2>4. CASE slots' = slots /\ Goto("assemble")
    <3>1. job'.stage = "assemble"
      BY <2>4, GotoIs
    <3>2. Ahead' = Ahead
      BY <2>1, <3>1 DEF Ahead, Pulling
    <3>3. Turned'
      BY <1>3, <2>1, <2>4, <3>2
    <3> QED
      BY <2>1, <2>2, <2>4, <3>1, <3>3 DEF PullPlace, PoolPlace, Pulling
  <2>5. ~Goto("failed")
    BY GotoIs
  <2> QED
    BY <1>17, <2>3, <2>4, <2>5, OfferPoolIs
<1>18. CASE Assemble
  <2>1. /\ job.stage = "assemble" /\ Goto("selected") /\ slots' = slots /\ linked' = linked
        /\ sel' = sel /\ walk' = walk /\ ~Rebind
    BY <1>18 DEF Assemble, At, Rebind
  <2>2. job'.stage = "selected"
    BY <2>1, GotoIs
  <2>3. Ahead' = Ahead /\ Undefined' = Undefined
    BY <2>1, <2>2 DEF Ahead, Pulling, Undefined
  <2>4. Turned'
    BY <1>3, <2>1, <2>3
  <2> QED
    BY <1>2, <2>1, <2>2, <2>3, <2>4 DEF PullPlace, PoolPlace, Pulling
<1>19. ~DefaultLibraries /\ ~AddLibrary /\ ~EndLibraries
  BY <1>1 DEF DefaultLibraries, AddLibrary, EndLibraries, At
<1> QED
  BY <1>6, <1>7, <1>8, <1>9, <1>10, <1>11, <1>13, <1>14, <1>15, <1>16, <1>17, <1>18, <1>19
     DEF SelectStep

(***************************************************************************)
(* The selection's invariant.                                              *)
(***************************************************************************)
SelectionInv ==
    Typed /\ Placed /\ Once /\ Accounted /\ Recorded /\ Met /\ Swept /\ InTurn

\* A link starts in the invariant.
LEMMA InitSelectionInv ==
    ASSUME NEW l \in Links, InitSelection(l)
    PROVE  SelectionInv
<1>1. Typed /\ Placed /\ Once
  BY InitBase
<1>2. /\ linked = <<>> /\ walk.at = 1 /\ job.stage = "rebind"
      /\ sel.defined = {} /\ sel.shared = {} /\ sel.inclusions = <<>>
      /\ DOMAIN sel.alternates = {}
      /\ Undefined = IF link.entry = "" THEN {} ELSE {link.entry}
      /\ \A n \in Undefined : sel.undefined[n] = CmdLineEntry
  BY DEF InitSelection, Undefined
<1>3. DOMAIN linked = {} /\ LinkedObjs = {} /\ Pulled = {} /\ ~Pulling
  <2>1. DOMAIN linked = {}
    <3>1. linked = <<>>
      BY <1>2
    <3> QED
      BY <3>1
  <2>2. ~Pulling
    BY <1>2 DEF Pulling
  <2>3. Pulled = {} /\ LinkedObjs = {}
    BY <2>1 DEF LinkedObjs, Pulled
  <2> QED
    BY <2>1, <2>2, <2>3
<1>4. link.entry \in Symbols \cup {""}
  BY <1>1, LinkIs
<1>5. Accounted
  <2>1. ASSUME NEW n \in Undefined PROVE Asked(link.entry, n, sel.undefined[n], {})
    <3>1. n = link.entry /\ link.entry \in Symbols /\ sel.undefined[n] = CmdLineEntry
      BY <1>2, <1>4, <2>1
    <3>2. n \in StandFor({link.entry}, {})
      BY <3>1, StandSelf
    <3> QED
      BY <3>1, <3>2 DEF Asked
  <2>2. UNION {Defs(o) : o \in {}} = {}
    OBVIOUS
  <2> QED
    BY <1>2, <1>3, <2>1, <2>2 DEF Accounted
<1>6. Recorded
  <2>1. Cardinality(Pulled) = 0
    BY <1>3, FS_EmptySet
  <2>2. Len(sel.inclusions) = 0
    <3>1. Len(<<>>) = 0
      OBVIOUS
    <3> QED
      BY <1>2, <3>1
  <2> QED
    BY <1>3, <2>1, <2>2 DEF Recorded
<1>7. Met
  BY <1>2, <1>3 DEF Met, Answers
<1>8. Swept
  BY <1>2, <1>3 DEF Swept
<1>9. InTurn
  <2>1. AllLazy(slots) \subseteq Nat \ {0}
    BY <1>1 DEF AllLazy, Typed
  <2>2. \A k \in AllLazy(slots) : ~(k < walk.at)
    <3>1. walk.at = 1
      BY <1>2
    <3> QED
      BY <2>1, <3>1
  <2>3. Turned
    BY <2>2 DEF Turned
  <2>4. PullPlace /\ PoolPlace
    BY <1>2, <1>3 DEF PullPlace, PoolPlace
  <2> QED
    BY <2>3, <2>4 DEF InTurn
<1> QED
  BY <1>1, <1>5, <1>6, <1>7, <1>8, <1>9 DEF SelectionInv

\* A step of the selection keeps the invariant...
LEMMA SelectionStep ==
    ASSUME SelectionInv, SelectStep
    PROVE  SelectionInv'
  BY TypedStep, PlacedStep, OnceStep, AccountedStep, RecordedStep, MetStep, SweptStep,
     InTurnStep DEF SelectionInv

\* ...and so does a step of another part.
LEMMA SelectionStutter ==
    ASSUME SelectionInv, UNCHANGED selectVars
    PROVE  SelectionInv'
<1>1. /\ link' = link /\ slots' = slots /\ sel' = sel /\ linked' = linked /\ walk' = walk
      /\ job' = job /\ poolSlot' = poolSlot
  BY DEF selectVars
<1>2. Undefined' = Undefined /\ LinkedObjs' = LinkedObjs /\ Pulled' = Pulled
      /\ (Pulling' <=> Pulling)
  BY <1>1 DEF Undefined, LinkedObjs, Pulled, Pulling, Obj, IsLazy
<1>3. Typed'
  BY <1>1 DEF SelectionInv, Typed
<1>4. Placed'
  BY <1>1, <1>2 DEF SelectionInv, Placed, SlotsOK, WalkOK, JobOK, Stalled, At
<1>5. Once'
  BY <1>1 DEF SelectionInv, Once, IsMember, HasObjects
<1>6. Accounted'
  BY <1>1, <1>2 DEF SelectionInv, Accounted
<1>7. Recorded'
  <2> HIDE DEF InclusionOK, NumberIn
  <2>1. /\ Len(sel.inclusions) = Cardinality(Pulled)
        /\ \A i \in Pulled :
              InclusionOK(slots, linked, link.entry, i, sel.inclusions[NumberIn(Pulled, i)])
    BY RecordedIs DEF SelectionInv
  <2>2. /\ Len(sel'.inclusions) = Cardinality(Pulled')
        /\ \A i \in Pulled' :
              InclusionOK(slots', linked', link'.entry, i, sel'.inclusions[NumberIn(Pulled', i)])
    BY <1>1, <1>2, <2>1
  <2> QED
    BY <2>2, RecordedNext
<1>8. Met'
  <2>1. Answers' = Answers /\ LineLazy' = LineLazy /\ (HasGroup' <=> HasGroup)
    BY <1>1, <1>2 DEF Answers, LineLazy, HasGroup, IsLazy
  <2> HIDE DEF Nowhere, ObjIn
  <2> QED
    BY <1>1, <1>2, <2>1 DEF SelectionInv, Met
<1>9. Swept'
  <2> HIDE DEF Quiet
  <2> QED
    BY <1>1, <1>2 DEF SelectionInv, Swept
<1>10. InTurn'
  <2>1. Ahead' = Ahead
    BY <1>1, <1>2 DEF Ahead
  <2> HIDE DEF Quiet, Answered, Level
  <2>2. Turned => Turned'
    BY <1>1, <1>2, <2>1 DEF Turned
  <2>3. PullPlace => PullPlace'
    BY <1>1, <1>2 DEF PullPlace
  <2>4. PoolPlace => PoolPlace'
    BY <1>1, <1>2 DEF PoolPlace
  <2> QED
    BY <1>1, <2>2, <2>3, <2>4 DEF SelectionInv, InTurn
<1> QED
  BY <1>3, <1>4, <1>5, <1>6, <1>7, <1>8, <1>9, <1>10 DEF SelectionInv

(***************************************************************************)
(* What it says of a selection that is done.                               *)
(***************************************************************************)
LEMMA LeftIs ==
    ASSUME NEW k, NEW m \in LeftOut(k)
    PROVE  m \in LeftIn(slots, linked, k) /\ Obj(m) = ObjIn(slots, m)
           /\ Wanted(m) = Obj(m).strong \cap Undefined
<1>1. m \in Members(k) /\ ~InLink(m)
  BY DEF LeftOut
<1> QED
  BY <1>1 DEF LeftIn, Members, InLink, Wanted, Obj, ObjIn

\* An archive is pulled no later than at a level input after it.
LEMMA PulledAtIs ==
    ASSUME NEW k \in Nat, NEW i \in k .. Len(slots), Len(slots) \in Nat, Level(slots, i)
    PROVE  PulledAt(k) \in Nat /\ PulledAt(k) <= i
<1> HIDE DEF Level
<1> DEFINE T == {j \in k .. Len(slots) : Level(slots, j)}
<1>1. T \subseteq Nat /\ T # {}
  OBVIOUS
<1>2. PICK x \in T : \A y \in T : ~(<<y, x>> \in OpToRel(<, Nat))
  BY <1>1, NatLessThanWellFounded, WFMin
<1>3. \A y \in T : ~(y < x)
  BY <1>1, <1>2 DEF OpToRel
<1>4. x \in k .. Len(slots) /\ Level(slots, x) /\ \A j \in k .. x - 1 : ~Level(slots, j)
  BY <1>3
<1>5. PICK p : p = PulledAt(k)
  OBVIOUS
<1>6. p \in k .. Len(slots) /\ Level(slots, p) /\ \A j \in k .. p - 1 : ~Level(slots, j)
  BY <1>4, <1>5 DEF PulledAt
<1>7. p <= i
  BY <1>6
<1> QED
  BY <1>5, <1>6, <1>7

\* At the end no archive is asked for what it has.
LEMMA NoneIsMissed ==
    ASSUME SelectionInv, At("selected")
    PROVE  NoneMissed
<1>0. job.stage = "selected" /\ Typed /\ Swept /\ InTurn /\ WalkOK
  BY DEF SelectionInv, Placed, At
<1>1. SUFFICES ASSUME NEW k \in AllLazy(slots), NEW m \in LeftOut(k), NEW n \in Wanted(m)
               PROVE  /\ link.inOrder
                      /\ n # link.entry
                      /\ \A i \in DOMAIN linked :
                            linked[i][1] <= PulledAt(k) => n \notin Obj(linked[i]).refs
  BY DEF NoneMissed
<1>2. m \in LeftIn(slots, linked, k) /\ n \in ObjIn(slots, m).strong /\ n \in Undefined
  BY <1>1, LeftIs
<1>3. /\ slots \in Seq(Slots) /\ Len(slots) \in Nat /\ k \in Nat /\ walk.at \in Nat
      /\ walk.at <= Len(slots) + 1 /\ linked \in Seq(Nat \X Nat)
  <2>1. slots \in Seq(Slots) /\ walk.at \in Nat /\ linked \in Seq(Nat \X Nat)
    BY <1>0 DEF Typed, Walks
  <2> QED
    BY <1>0, <2>1 DEF WalkOK, AllLazy
<1> HIDE DEF LeftIn, ObjIn
<1>4. link.inOrder
  <2> SUFFICES ASSUME ~link.inOrder PROVE FALSE
    OBVIOUS
  <2>1. Quiet(slots, linked, Undefined, AllLazy(slots))
    BY <1>0 DEF Swept
  <2> QED
    BY <1>2, <2>1 DEF Quiet
<1>5. Turned /\ PoolPlace
  BY <1>0, <1>4 DEF InTurn
<1>6. Ahead = {} /\ (k < walk.at \/ Quiet(slots, linked, Undefined, {k}))
  BY <1>0, <1>5 DEF PoolPlace, Ahead, Pulling
<1>7. k < walk.at
  BY <1>2, <1>6 DEF Quiet
<1>8. Answered(slots, linked, Undefined, link.entry, walk.at, Ahead, k)
  BY <1>5, <1>6, <1>7 DEF Turned
<1>9. PICK i \in k .. walk.at - 1 :
         Level(slots, i) /\ AnsweredTo(slots, linked, Undefined, link.entry, k, i)
  BY <1>8 DEF Answered
<1>10. Unasked(slots, linked, link.entry, n, i)
  BY <1>2, <1>9 DEF AnsweredTo
<1>11. PulledAt(k) \in Nat /\ PulledAt(k) <= i /\ i \in Nat
  <2>1. i \in k .. Len(slots) /\ i \in Nat
    BY <1>3
  <2> QED
    BY <1>3, <1>9, <2>1, PulledAtIs
<1>12. ASSUME NEW h \in DOMAIN linked, linked[h][1] <= PulledAt(k)
       PROVE  n \notin Obj(linked[h]).refs
  <2>1. linked[h][1] \in Nat
    BY <1>3
  <2>2. PICK p \in Nat : p = PulledAt(k)
    BY <1>11
  <2>3. linked[h][1] <= i
    BY <1>11, <1>12, <2>1, <2>2
  <2> QED
    BY <1>10, <2>3 DEF Unasked, Obj, ObjIn
<1> QED
  BY <1>4, <1>10, <1>12 DEF Unasked

\* A reference forgotten took its alternate, after the archives.
LEMMA AlternateIsLast ==
    ASSUME SelectionInv
    PROVE  AlternateLast
<1>1. SUFFICES ASSUME NEW i \in DOMAIN linked, NEW n \in Obj(linked[i]).refs,
                      n \notin sel.defined \cup sel.shared \cup Undefined
               PROVE  /\ n \in DOMAIN sel.alternates
                      /\ \/ HasGroup
                         \/ \A k \in LineLazy : \A m \in LeftOut(k) : n \notin Obj(m).strong
  BY DEF AlternateLast, HasGroup, LineLazy
<1>2. /\ n \in DOMAIN sel.alternates
      /\ HasGroup \/ Nowhere(slots, linked, n, LineLazy)
  BY <1>1 DEF SelectionInv, Met, Answers, Obj, ObjIn
<1>3. ASSUME Nowhere(slots, linked, n, LineLazy), NEW k \in LineLazy, NEW m \in LeftOut(k)
      PROVE  n \notin Obj(m).strong
  BY <1>3, LeftIs DEF Nowhere
<1> QED
  BY <1>2, <1>3

\* The invariant gives the property.
LEMMA SelectedExact ==
    ASSUME SelectionInv
    PROVE  SelectionExact
<1> SUFFICES ASSUME At("selected") PROVE
        /\ NoneMissed
        /\ AlternateLast
        /\ Len(sel.inclusions) = Cardinality(Pulled)
        /\ \A i \in Pulled : AskedFor(i, sel.inclusions[Rank(i)])
  BY DEF SelectionExact
<1>1. Recorded
  BY DEF SelectionInv
<1> QED
  BY <1>1, NoneIsMissed, AlternateIsLast DEF Recorded

(***************************************************************************)
(* What the objects handed to the link define.                             *)
(***************************************************************************)
FromIn(l, k) == SelectSeq(l, LAMBDA m : m[1] = k)
\* The objects handed to the link, in order.
OrderIn(s, l) ==
    FlattenSeq([k \in DOMAIN s |->
        IF s[k].kind = "fixed" THEN [j \in DOMAIN s[k].objs |-> <<k, j>>]
        ELSE FromIn(l, k)])

\* The names the objects ms outside the pool's slot p define.
ProgramIn(s, p, ms) ==
    UNION {Defs(ObjIn(s, m)) : m \in {x \in ToSet(ms) : x[1] # p}}

\* What the pool's object is left with.
LeftStrong(s, p, ms, i) ==
    (ObjIn(s, ms[i]).strong \cup ObjIn(s, ms[i]).abs)
        \ (IF ms[i][1] = p THEN ProgramIn(s, p, ms) ELSE {})

\* d is what the objects ms define once the pool yields.
Yields(d, s, p, ms) ==
    /\ DOMAIN d = DOMAIN ms
    /\ \A i \in DOMAIN ms :
          /\ d[i].strong \cup d[i].abs = LeftStrong(s, p, ms, i)
          /\ ms[i][1] # p => Defs(d[i]) = Defs(ObjIn(s, ms[i]))

\* The definitions handed to the link are those the pool yielded.
Yielded == job.stage = "selected" => Yields(objs, slots, poolSlot, OrderIn(slots, linked))

\* The same order.
LEMMA OrderIs == Order = OrderIn(slots, linked)
  BY DEF Order, OrderIn, Included, FromIn

\* What yield_pool_definitions returns.
LEMMA YieldIs ==
    ASSUME NEW ms
    PROVE  Yields(Yield(ms), slots, poolSlot, ms)
<1>1. PICK W : W = UNION {Defs(Obj(m)) : m \in {x \in ToSet(ms) : x[1] # poolSlot}}
  OBVIOUS
<1>2. W = ProgramIn(slots, poolSlot, ms)
  BY <1>1 DEF ProgramIn, Obj, ObjIn
<1>3. PICK d : d = Yield(ms) /\ d = Yielding(ms, W)
  BY <1>1 DEF Yield
<1>4. DOMAIN d = DOMAIN ms
  BY <1>3 DEF Yielding
<1>5. ASSUME NEW i \in DOMAIN ms
      PROVE  /\ d[i].strong \cup d[i].abs = LeftStrong(slots, poolSlot, ms, i)
             /\ ms[i][1] # poolSlot => Defs(d[i]) = Defs(ObjIn(slots, ms[i]))
  <2>1. PICK o, y : /\ o = Obj(ms[i])
                    /\ y = IF ms[i][1] = poolSlot THEN W ELSE {}
    OBVIOUS
  <2>2. d[i] = [strong |-> o.strong \ y, weak |-> o.weak \cup (o.strong \cap y),
                abs |-> o.abs \ y, weakAbs |-> o.abs \cap y]
    BY <1>3, <1>5, <2>1 DEF Yielding
  <2>3. /\ d[i].strong = o.strong \ y /\ d[i].weak = o.weak \cup (o.strong \cap y)
        /\ d[i].abs = o.abs \ y
    BY <2>2
  <2>4. o = ObjIn(slots, ms[i])
    BY <2>1 DEF Obj, ObjIn
  <2> HIDE DEF ProgramIn, ObjIn
  <2>5. LeftStrong(slots, poolSlot, ms, i) = (o.strong \cup o.abs) \ y
    BY <1>2, <2>1, <2>4 DEF LeftStrong
  <2> QED
    BY <2>1, <2>3, <2>4, <2>5 DEF Defs
<1> QED
  BY <1>3, <1>4, <1>5 DEF Yields

\* A step of the selection keeps it...
LEMMA YieldedStep ==
    ASSUME Typed, SelectStep
    PROVE  Yielded'
<1> HIDE DEF OrderIn, Yields, Stages
<1> SUFFICES ASSUME job'.stage = "selected"
             PROVE  Yields(objs', slots', poolSlot', OrderIn(slots', linked'))
  BY DEF Yielded
<1>0. job \in Jobs /\ job.ret \in {"walk", "default", "assemble"}
  BY DEF Typed, Jobs
<1>1. \A s \in {"walk", "default", "libraries", "pool", "assemble", "failed"} : ~Goto(s)
  BY GotoIs
<1>2. \A K, r : ~StartPull(K, r)
  BY StartPullIs
<1>4. Assemble
  <2>1. ~Rebind /\ ~EndWalk /\ ~EndLibraries
    BY <1>1, <1>2 DEF Rebind, EndWalk, EndLibraries
  <2>2. ~EndAlternates
    BY <1>0, <1>1, <1>2 DEF EndAlternates
  <2>3. ~WalkFixed /\ ~WalkLazy /\ ~WalkShared /\ ~WalkGroup
    BY <1>2 DEF WalkFixed, WalkLazy, WalkShared, WalkGroup, InWalk, At
  <2>4. ~PullMember
    <3> SUFFICES ASSUME PullMember PROVE FALSE
      OBVIOUS
    <3>1. PICK m : job' = [job EXCEPT !.after = m, !.progress = TRUE]
      BY <1>1 DEF PullMember
    <3>2. job.stage = "pull"
      BY DEF PullMember, At
    <3> QED
      BY <1>0, <3>1, <3>2 DEF Jobs
  <2>5. ~EndSweep
    <3> SUFFICES ASSUME EndSweep PROVE FALSE
      OBVIOUS
    <3>1. PICK T : T = Stalled
      OBVIOUS
    <3>2. \/ job' = [job EXCEPT !.after = Start, !.progress = FALSE]
          \/ job' = [job EXCEPT !.stage = "alternates", !.todo = T]
      BY <3>1 DEF EndSweep
    <3>3. job.stage = "pull"
      BY DEF EndSweep, At
    <3> QED
      BY <1>0, <3>2, <3>3 DEF Jobs
  <2>6. ~TakeAlternates
    <3> SUFFICES ASSUME TakeAlternates PROVE FALSE
      OBVIOUS
    <3>1. PICK n, t : job' = [job EXCEPT !.todo = @ \ {n}, !.progress = t]
      BY DEF TakeAlternates
    <3>2. job.stage = "alternates"
      BY DEF TakeAlternates, At
    <3> QED
      BY <1>0, <3>1, <3>2 DEF Jobs
  <2>7. ~DefaultLibraries
    <3> SUFFICES ASSUME DefaultLibraries PROVE FALSE
      OBVIOUS
    <3>1. PICK T : job' = [job EXCEPT !.stage = "libraries", !.progress = FALSE, !.todo = T]
      BY DEF DefaultLibraries
    <3>2. job.stage = "default"
      BY DEF DefaultLibraries, At
    <3> QED
      BY <1>0, <3>1, <3>2 DEF Jobs
  <2>8. ~AddLibrary
    <3> SUFFICES ASSUME AddLibrary PROVE FALSE
      OBVIOUS
    <3>1. PICK n : job' = [job EXCEPT !.todo = @ \ {n}, !.progress = TRUE]
      BY <1>1, AddLibraryIs DEF LibraryJoins
    <3>2. job.stage = "libraries"
      BY AddLibraryIs
    <3> QED
      BY <1>0, <3>1, <3>2 DEF Jobs
  <2>9. ~OfferPool
    <3>1. ~PoolJoins
      BY <1>2 DEF PoolJoins
    <3> QED
      BY <1>1, <3>1, OfferPoolIs
  <2> QED
    BY <2>1, <2>2, <2>3, <2>4, <2>5, <2>6, <2>7, <2>8, <2>9 DEF SelectStep
<1>5. slots' = slots /\ linked' = linked /\ poolSlot' = poolSlot /\ objs' = Yield(Order)
  BY <1>4 DEF Assemble
<1>6. PICK ms : ms = OrderIn(slots, linked) /\ objs' = Yield(ms)
  BY <1>5, OrderIs
<1>7. Yields(objs', slots, poolSlot, ms)
  BY <1>6, YieldIs
<1> QED
  BY <1>5, <1>6, <1>7

\* ...and so does a step of another part.
LEMMA YieldedStutter ==
    ASSUME Yielded, UNCHANGED selectVars
    PROVE  Yielded'
<1> HIDE DEF OrderIn, Yields
<1> QED
  BY DEF Yielded, selectVars

\* What yielded stands against nothing.
LEMMA PoolHasYielded ==
    ASSUME Yielded
    PROVE  PoolYields
<1> SUFFICES ASSUME At("selected"), NEW i \in DOMAIN objs, NEW j \in DOMAIN objs,
                    Order[i][1] = poolSlot, Order[j][1] # poolSlot
             PROVE  (objs[i].strong \cup objs[i].abs) \cap Defs(objs[j]) = {}
  BY DEF PoolYields
<1>1. PICK ms : ms = Order
  OBVIOUS
<1>2. Yields(objs, slots, poolSlot, ms)
  BY <1>1, OrderIs DEF Yielded, At
<1>3. i \in DOMAIN ms /\ j \in DOMAIN ms /\ ms[i][1] = poolSlot /\ ms[j][1] # poolSlot
  BY <1>1, <1>2 DEF Yields
<1>4. objs[i].strong \cup objs[i].abs = LeftStrong(slots, poolSlot, ms, i)
      /\ Defs(objs[j]) = Defs(ObjIn(slots, ms[j]))
  <2> HIDE DEF LeftStrong, ObjIn, Defs
  <2> QED
    BY <1>2, <1>3 DEF Yields
<1>5. Defs(ObjIn(slots, ms[j])) \subseteq ProgramIn(slots, poolSlot, ms)
  <2>1. ms[j] \in {x \in ToSet(ms) : x[1] # poolSlot}
    BY <1>3 DEF ToSet
  <2> QED
    BY <2>1 DEF ProgramIn
<1> HIDE DEF ProgramIn
<1> QED
  BY <1>3, <1>4, <1>5 DEF LeftStrong

\* The invariant gives the type invariant.
LEMMA SelectionTyped ==
    ASSUME SelectionInv
    PROVE  SelectionTypeOK
<1> HIDE DEF Slots, Stages
<1>1. sel.defined \subseteq Symbols /\ Undefined \subseteq Symbols
  BY SelectionParts DEF SelectionInv, Typed, Undefined
<1>2. job.stage \in Stages /\ walk.depth \in Nat
  BY DEF SelectionInv, Typed, Jobs, Walks
<1> QED
  BY <1>1, <1>2 DEF SelectionInv, Typed, Accounted, Once, SelectionTypeOK

(***************************************************************************)
(* The link as a whole.                                                    *)
(***************************************************************************)
\* The sizes of the output's state, and of the driver's.
Sizes ==
    /\ kind \in {"absent", "regular", "other"} /\ open \in BOOLEAN
    /\ \A w \in Writers : writer[w].n <= MaxTry
    /\ step \in DriverSteps /\ exit \in {-1, 0, 1}

\* The inductive invariant of the link.
LinkInv == SelectionInv /\ Yielded /\ Sizes

\* A link starts in the invariant.
LEMMA InitLinkInv == Init => LinkInv
<1> SUFFICES ASSUME Init PROVE LinkInv
  OBVIOUS
<1>1. PICK s \in Starts : InitSelection(s[1]) /\ InitOutput(s[2])
  BY DEF Init
<1>2. s[1] \in Links /\ s[2] \in Files
  BY LinkerAssumption
<1>3. SelectionInv
  BY <1>1, <1>2, InitSelectionInv
<1>4. Yielded
  BY <1>1 DEF InitSelection, Yielded
<1>5. Sizes
  <2>1. kind \in {"absent", "regular", "other"} /\ open \in BOOLEAN
    BY <1>1, <1>2 DEF Files, InitOutput
  <2>2. \A w \in Writers : writer[w].n <= MaxTry
    BY <1>1, MaxTryAssumption DEF InitOutput
  <2> QED
    BY <2>1, <2>2 DEF Init, Sizes, DriverSteps
<1> QED
  BY <1>3, <1>4, <1>5 DEF LinkInv

\* A writer's step tries no suffix after the last.
LEMMA WriterSizes ==
    ASSUME FilesOK, Sizes, NEW w \in Writers, WriterStep(w) \/ CallWriter(w) \/ Kill(w)
    PROVE  /\ kind' \in {"absent", "regular", "other"} /\ open' \in BOOLEAN
           /\ \A v \in Writers : writer'[v].n <= MaxTry
<1> HIDE DEF Steps
<1>1. ASSUME NEW a, To(w, a)
      PROVE  \A v \in Writers : writer'[v].n = writer[v].n
  BY <1>1 DEF To, FilesOK
<1>2. CASE Stat(w) \/ Through(w) \/ Mode(w) \/ CallWriter(w) \/ Kill(w)
  <2>1. (\E a : To(w, a)) /\ Unwritten
    BY <1>2 DEF Stat, Through, Mode, CallWriter, Kill
  <2> QED
    BY <1>1, <2>1 DEF Unwritten, Sizes
<1>3. CASE CreateSibling(w)
  <2>1. kind' = kind /\ open' = open
    BY <1>3 DEF CreateSibling
  <2>2. \/ \E a : To(w, a)
        \/ ~LastTry(w) /\ writer' = [writer EXCEPT ![w].n = @ + 1]
    BY <1>3 DEF CreateSibling
  <2>3. ASSUME ~LastTry(w), writer' = [writer EXCEPT ![w].n = @ + 1]
        PROVE  \A v \in Writers : writer'[v].n <= MaxTry
    <3>1. writer[w].n \in Nat /\ ~(writer[w].n >= MaxTry)
      BY <2>3 DEF LastTry, FilesOK
    <3>2. writer'[w].n = writer[w].n + 1
      BY <2>3 DEF FilesOK
    <3>3. \A v \in Writers : v # w => writer'[v].n = writer[v].n
      BY <2>3 DEF FilesOK
    <3>4. writer'[w].n <= MaxTry
      BY <3>1, <3>2, MaxTryAssumption
    <3> QED
      BY <3>3, <3>4 DEF Sizes
  <2> QED
    BY <1>1, <2>1, <2>2, <2>3 DEF Sizes
<1>4. CASE Write(w) \/ RemoveSibling(w) \/ Truncate(w) \/ Fill(w)
  <2>1. (\E a : To(w, a)) /\ kind' = kind /\ open' = open
    BY <1>4 DEF Write, RemoveSibling, Truncate, Fill
  <2> QED
    BY <1>1, <2>1 DEF Sizes
<1>5. CASE Rename(w)
  <2>1. (\E a : To(w, a)) /\ (kind' = kind \/ kind' = "regular") /\ open' = open
    BY <1>5 DEF Rename
  <2> QED
    BY <1>1, <2>1 DEF Sizes
<1> QED
  BY <1>2, <1>3, <1>4, <1>5 DEF WriterStep

\* Every step of a link keeps it.
LEMMA NextLinkInv == IndInv /\ LinkInv /\ [Next]_vars => LinkInv'
<1> SUFFICES ASSUME IndInv, LinkInv, [Next]_vars PROVE LinkInv'
  OBVIOUS
<1>1. SelectionInv /\ Yielded /\ Sizes /\ FilesOK
  BY DEF LinkInv, IndInv, OutputInv
<1>2. ASSUME UNCHANGED selectVars PROVE SelectionInv' /\ Yielded'
  BY <1>1, <1>2, SelectionStutter, YieldedStutter
<1>3. ASSUME UNCHANGED outputVars, step' \in DriverSteps, exit' \in {-1, 0, 1} PROVE Sizes'
  BY <1>1, <1>3 DEF Sizes, outputVars
<1>4. ASSUME NEW w \in Writers, WriterStep(w) \/ CallWriter(w) \/ Kill(w),
             step' \in DriverSteps, exit' \in {-1, 0, 1}
      PROVE  Sizes'
  BY <1>1, <1>4, WriterSizes DEF Sizes
<1>5. step \in DriverSteps /\ exit \in {-1, 0, 1}
  BY <1>1 DEF Sizes
<1>6. CASE UNCHANGED vars
  BY <1>2, <1>3, <1>5, <1>6 DEF vars, driverVars, LinkInv
<1>7. CASE Selecting
  <2>1. SelectStep /\ UNCHANGED outputVars /\ step' = step /\ exit' = exit
    BY <1>7 DEF Selecting, driverVars
  <2>2. SelectionInv' /\ Yielded'
    BY <1>1, <2>1, SelectionStep, YieldedStep DEF SelectionInv
  <2> QED
    BY <1>3, <1>5, <2>1, <2>2 DEF LinkInv
<1>8. CASE EndSelect \/ Checks \/ Written \/ Sign \/ Map
  <2>1. UNCHANGED selectVars /\ UNCHANGED outputVars
    BY <1>8 DEF EndSelect, Checks, Written, Sign, Map
  <2>2. step' \in DriverSteps /\ exit' \in {-1, 0, 1}
    BY <1>5, <1>8 DEF EndSelect, Checks, Written, Sign, Map, Exit, DriverSteps
  <2> QED
    BY <1>2, <1>3, <2>1, <2>2 DEF LinkInv
<1>9. CASE Emit
  <2>1. UNCHANGED selectVars /\ (CallWriter(Linker) \/ UNCHANGED outputVars)
    BY <1>9 DEF Emit
  <2>2. step' \in DriverSteps /\ exit' \in {-1, 0, 1}
    BY <1>5, <1>9 DEF Emit, Exit, DriverSteps
  <2> QED
    BY <1>2, <1>3, <1>4, <2>1, <2>2, LinkerAssumption DEF LinkInv
<1>10. ASSUME NEW w \in Writers, Output(w) \/ Other(w) \/ Killed(w)
       PROVE  LinkInv'
  <2>1. UNCHANGED selectVars /\ (WriterStep(w) \/ CallWriter(w) \/ Kill(w))
    BY <1>10 DEF Output, Other, Killed
  <2>2. step' \in DriverSteps /\ exit' \in {-1, 0, 1}
    BY <1>5, <1>10 DEF Output, Other, Killed, driverVars, DriverSteps
  <2> QED
    BY <1>2, <1>4, <2>1, <2>2 DEF LinkInv
<1> QED
  BY <1>6, <1>7, <1>8, <1>9, <1>10, LinkerAssumption DEF Next, LinkStep

\* The invariant of the selection, of what it hands on and of the sizes holds
\* throughout every link.
THEOREM LinkInductive == Spec => []LinkInv
<1>1. QED
  BY InitLinkInv, NextLinkInv, Inductive, PTL DEF Spec

\* The types of the link's state; Selection::account counts an object once and
\* keeps no name both defined and undefined, and create_sibling tries no suffix
\* after its last.
THEOREM LinkTyped == Spec => []TypeOK
<1>1. IndInv /\ LinkInv => TypeOK
  <2> SUFFICES ASSUME IndInv, LinkInv PROVE TypeOK
    OBVIOUS
  <2>1. SelectionTypeOK
    BY SelectionTyped DEF LinkInv
  <2>2. OutputTypeOK
    <3>1. /\ kind \in {"absent", "regular", "other"} /\ open \in BOOLEAN
          /\ \A w \in Writers : writer[w].n <= MaxTry
      BY DEF LinkInv, Sizes
    <3>2. /\ \A w \in Writers : writer[w].at \in Steps /\ writer[w].n \in Nat
          /\ \A x \in DOMAIN dir : dir[x].whole \in BOOLEAN
      <4> HIDE DEF Steps
      <4> QED
        BY DEF IndInv, OutputInv, FilesOK
    <3>3. \A w \in Writers : writer[w].n \in 0 .. MaxTry
      BY <3>1, <3>2, MaxTryAssumption
    <3> QED
      BY <3>1, <3>2, <3>3 DEF OutputTypeOK
  <2>3. step \in DriverSteps /\ exit \in {-1, 0, 1}
    BY DEF LinkInv, Sizes
  <2> QED
    BY <2>1, <2>2, <2>3 DEF TypeOK
<1>2. QED
  BY <1>1, Inductive, LinkInductive, PTL

\* select_archive_members is exact, for any inputs, groups, archives, alternate
\* names and default libraries: no member that a reference asked for is left
\* out, no reference is forgotten, and each member is in the link map with the
\* symbol and the object that asked for it.
THEOREM SelectsExactly == Spec => []SelectionExact
<1>1. LinkInv => SelectionExact
  BY SelectedExact DEF LinkInv
<1>2. QED
  BY <1>1, LinkInductive, PTL

\* After yield_pool_definitions no strong definition of the on-demand pool
\* stands against a definition of the program.
THEOREM PoolYielded == Spec => []PoolYields
<1>1. LinkInv => PoolYields
  BY PoolHasYielded DEF LinkInv
<1>2. QED
  BY <1>1, LinkInductive, PTL
=============================================================================
