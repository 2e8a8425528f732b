\* Texts of three families over two headers, includes nested at most 2 deep.
CONSTANTS
    Codes <- MCCodes
    BaseLevel <- MCBase
    Headers <- MCHeaders
    Names <- MCNames
    System = {"h"}
    Programs <- MCPrograms
    UserForced <- MCUserForced
    AutoHeaders = {"ext"}
    MaxDepth = 2
SPECIFICATION Spec
CHECK_DEADLOCK FALSE
INVARIANT TypeOK
INVARIANT ActiveIsArms
INVARIANT GuardSilent
INVARIANT LevelIsScoped
INVARIANT ReusedText
PROPERTY PassEnds
