\* The texts of a retry: a source, the header it includes and one appended.
CONSTANTS
    Codes <- MCCodes
    BaseLevel <- MCBase
    Headers <- MCHeaders
    Names <- MCNames
    System = {"h"}
    Programs <- ReuseTexts
    UserForced <- MCUserForced
    AutoHeaders = {"ext"}
    MaxDepth = 2
SPECIFICATION Spec
CHECK_DEADLOCK FALSE
INVARIANT ReuseIsFull
