CONSTANTS
    Paths <- paths
    Programs <- programs
    Main <- main
    Dirs <- dirs
    MaxDepth = 4
SPECIFICATION Spec
CHECK_DEADLOCK FALSE
INVARIANTS TypeOK SkipsAsTheStandardSays LineMapIsATree OnceContentOnce BalancedPackInForce
PROPERTY Terminates
