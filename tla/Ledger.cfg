SPECIFICATION MCSpec
CONSTANTS
    a1 = a1
    a2 = a2
    a3 = a3
    l1 = l1
    l2 = l2
    None = None
    Account = {a1, a2, a3}
    Lease = {l1, l2}
    Genesis <- MCGenesis
    NumOfSlots = 2
    SlotGap = 1
    MinimalSlotNumber = 1
    MinContender = 2
    MintingReward = 1
    Fee = 1
    Amounts = {2}
    MaxHeight = 3
    MaxTxs = 2
    MaxUpdateBlocks = 2
SYMMETRY Leases
INVARIANTS LeasesAddUp NeverOverLeased SlotsInv SnapshotsCurrent WeightsWithinSupply CoinsConserved MinBySnapshotIsMinimum
PROPERTIES EvictedForGood
