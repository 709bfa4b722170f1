SPECIFICATION ReaderSpec
CONSTANTS
    Block <- MCBlock
    Reference <- MCReference
    Valid <- MCBlock
    NoBlock = 0
    Genesis = 1
    MinDiff = 2
    Trunk = 5
    ForkA = 3
INVARIANTS SumsExactWithoutShift LookupsLinearizable
