SPECIFICATION LiveSpec
CONSTANTS
    Block <- MCBlock
    Reference <- MCReference
    Valid <- MCValid
    NoBlock = 0
    Genesis = 1
    MinDiff = 2
    Trunk = 9
    ForkA = 6
    ForkB = 8
    MaxCrashes = 3
INVARIANTS Inv StateIsHistory KeptStateIsOfThisChain RollbackNeverThrows
PROPERTIES ImplementsChainState CallsEnd RestartsAfterCleanStop
