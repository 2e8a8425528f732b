----------------------------- MODULE OutputFile -----------------------------
(***************************************************************************)
(* write_output_file (src/src/c5/output_file.rs): writers that put their   *)
(* output at one path.  A regular file there is replaced: the bytes go to  *)
(* a sibling, which is renamed over the path.  Writers may share a process *)
(* id: threads of one compiler, or compilers in two pid namespaces over    *)
(* one directory.  A writer may be killed at any step, and any file        *)
(* operation may fail.                                                     *)
(***************************************************************************)
EXTENDS Naturals, FiniteSets

CONSTANTS
    Writers,   \* the calls of write_output_file for this path
    Pid,       \* the process id of each
    MaxTry     \* the last suffix create_sibling tries, 64 in the code

ASSUME MaxTryAssumption == MaxTry \in Nat

VARIABLES
    kind,     \* what the path names: "absent", "regular", "other"
    open,     \* whether the directory takes new entries
    path,     \* the contents at the path
    dir,      \* the siblings: from names <<pid, n>> to contents
    writer    \* per writer, where it is, its suffix n and its result

outputVars == <<kind, open, path, dir, writer>>

\* Contents: who wrote them, and whether they are all there.
Old == "old"

ASSUME OldAssumption == Old \notin Writers

Bytes(by, whole) == [by |-> by, whole |-> whole]
NoFiles == [x \in {} |-> Bytes(Old, TRUE)]

Ended == {"ok", "error", "killed"}
Steps == {"idle", "stat", "create", "write", "rename", "remove",
          "through", "truncate", "fill", "mode"} \cup Ended

Name(w) == <<Pid[w], writer[w].n>>

To(w, at) == writer' = [writer EXCEPT ![w].at = at]

Unwritten == UNCHANGED <<kind, open, path, dir>>

\* A file that is no regular one, a device or a symlink, is written through.
Stat(w) ==
    /\ writer[w].at = "stat"
    /\ To(w, IF kind = "other" THEN "through" ELSE "create")
    /\ Unwritten

Through(w) ==
    /\ writer[w].at = "through"
    /\ \E r \in {"ok", "error"} : To(w, r)
    /\ Unwritten

\* Variant: the sibling is opened without create_new.
TakenNever(name) == FALSE

\* create_new refuses a name some file has.
Taken(name) == name \in DOMAIN dir

\* Variant: one suffix more.
LastTryLate(w) == writer[w].n > MaxTry

LastTry(w) == writer[w].n >= MaxTry

\* One round of create_sibling's loop.
CreateSibling(w) ==
    /\ writer[w].at = "create"
    /\ UNCHANGED <<kind, open, path>>
    /\ \/ /\ open /\ ~Taken(Name(w))
          /\ dir' = [x \in DOMAIN dir \cup {Name(w)} |->
                        IF x = Name(w) THEN Bytes(w, FALSE) ELSE dir[x]]
          /\ To(w, "write")
       \/ /\ Taken(Name(w)) /\ ~LastTry(w)
          /\ writer' = [writer EXCEPT ![w].n = @ + 1]
          /\ UNCHANGED dir
       \/ Taken(Name(w)) /\ LastTry(w) /\ To(w, "error") /\ UNCHANGED dir
       \/ ~open /\ ~Taken(Name(w)) /\ To(w, "truncate") /\ UNCHANGED dir
       \/ To(w, "error") /\ UNCHANGED dir

Write(w) ==
    /\ writer[w].at = "write"
    /\ \/ dir' = [dir EXCEPT ![Name(w)].whole = TRUE] /\ To(w, "rename")
       \/ UNCHANGED dir /\ To(w, "remove")
    /\ UNCHANGED <<kind, open, path>>

Without(name) == [x \in DOMAIN dir \ {name} |-> dir[x]]

Rename(w) ==
    /\ writer[w].at = "rename"
    /\ \/ /\ path' = dir[Name(w)] /\ kind' = "regular"
          /\ dir' = Without(Name(w))
          /\ To(w, "ok")
       \/ UNCHANGED <<kind, path, dir>> /\ To(w, "remove")
    /\ UNCHANGED open

\* The error is returned whether or not the sibling could be removed.
RemoveSibling(w) ==
    /\ writer[w].at = "remove"
    /\ dir' \in {dir, Without(Name(w))}
    /\ To(w, "error")
    /\ UNCHANGED <<kind, open, path>>

\* write_in_place: the old file is emptied, filled and given its mode.
Truncate(w) ==
    /\ writer[w].at = "truncate"
    /\ \/ kind = "regular" /\ path' = Bytes(w, FALSE) /\ To(w, "fill")
       \/ UNCHANGED path /\ To(w, "error")
    /\ UNCHANGED <<kind, open, dir>>

Fill(w) ==
    /\ writer[w].at = "fill"
    /\ \/ path' = Bytes(w, path.by = w) /\ To(w, "mode")
       \/ UNCHANGED path /\ To(w, "error")
    /\ UNCHANGED <<kind, open, dir>>

Mode(w) ==
    /\ writer[w].at = "mode"
    /\ \E r \in {"ok", "error"} : To(w, r)
    /\ Unwritten

\* The call of a writer.
CallWriter(w) == writer[w].at = "idle" /\ To(w, "stat") /\ Unwritten

WriterStep(w) ==
    \/ Stat(w) \/ Through(w) \/ CreateSibling(w) \/ Write(w) \/ Rename(w)
    \/ RemoveSibling(w) \/ Truncate(w) \/ Fill(w) \/ Mode(w)

\* The writer's process ends without warning.
Kill(w) ==
    /\ writer[w].at \notin Ended \cup {"idle"}
    /\ To(w, "killed")
    /\ Unwritten

\* What the path and the directory can be: a sibling of an earlier process
\* that had the number of one of these may have stayed behind.
Files ==
    [kind : {"absent", "regular", "other"}, open : BOOLEAN,
     dir : {NoFiles} \cup {[x \in {<<p, 0>>} |-> Bytes(Old, FALSE)] :
                                p \in {Pid[w] : w \in Writers}}]

InitOutput(files) ==
    /\ kind = files.kind /\ open = files.open /\ dir = files.dir
    /\ path = Bytes(Old, TRUE)
    /\ writer = [w \in Writers |-> [at |-> "idle", n |-> 0]]

OutputTypeOK ==
    /\ kind \in {"absent", "regular", "other"} /\ open \in BOOLEAN
    /\ \A w \in Writers : writer[w].at \in Steps /\ writer[w].n \in 0 .. MaxTry
    /\ \A x \in DOMAIN dir : dir[x].whole \in BOOLEAN

\* Whatever fails and whoever is killed, when the directory takes entries the
\* path holds the old file or all of one writer's bytes, a writer that
\* succeeded among them; and a sibling that stays is of a writer at work, of
\* one that was killed, or of one whose error said so.
OutputWhole ==
    open /\ kind # "other" =>
        /\ path.whole
        /\ (\E w \in Writers : writer[w].at = "ok") => path.by # Old
        /\ \A x \in DOMAIN dir : dir[x].by = Old
              \/ writer[dir[x].by].at \in {"write", "rename", "remove", "error", "killed"}
        /\ \A w \in Writers : writer[w].at \in {"write", "rename"} =>
              Name(w) \in DOMAIN dir /\ dir[Name(w)].by = w
=============================================================================
