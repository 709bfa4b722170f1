SPECIFICATION Spec
CONSTANTS
    MaxUpdateBlocks = 4
    MaxBalance = 17
INVARIANTS ChurnNeverPays FullAfterADay
