\* Links of up to four inputs, and a second writer of the output path with the
\* same process id.
CONSTANTS
    Symbols <- MCSymbols
    ImpOf <- MCImpOf
    Resolved = {}
    Links <- MCLinks
    Writers = {"link", "other"}
    Pid <- MCPid
    MaxTry = 1
    Linker = "link"
    Starts <- MCStarts
SPECIFICATION Spec
CHECK_DEADLOCK FALSE
INVARIANT TypeOK
INVARIANT SelectionExact
INVARIANT PoolYields
INVARIANT OutputReplaced
PROPERTY LinkEnds
