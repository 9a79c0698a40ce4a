SPECIFICATION ZSpec
CONSTANTS
    Values <- MCValues
    Positions <- MCPositions
    Variables <- MCVariables
    Operands <- MCOperands
    Routines <- MCRoutines
    Start <- MCStart
    TrueBranch <- MCTrueBranch
    StackSize <- MCStackSize
    Radix <- MCRadix
INVARIANTS
    ZTypeOK
    DeathsExplained
PROPERTIES
    ImplementsFrames
CONSTRAINTS
    FewPushed
    FewSaved
CHECK_DEADLOCK FALSE
