SPECIFICATION WatchedSpec
CONSTANTS
    rich = rich
    poor = poor
    payA = payA
    payB = payB
    payC = payC
    client = client
    reader = reader
    Miner = Miner
    Coordinator = Coordinator
    Nobody = Nobody
    Tx = {payA, payB, payC}
    Account = {rich, poor}
    Sender <- MCSender
    Recipient <- MCRecipient
    Amount <- MCAmount
    Fee <- MCFee
    Stamp <- MCStamp
    Rank <- MCRank
    Funds <- MCFunds
    Inadmissible = {}
    MaxSize = 2
    MaxAge = 0
    PackLimit = 2
    Submitters = {client}
    Readers = {reader}
    MaxTime = 1
    MaxBlocks = 2
INVARIANTS PoolBounded ChargedIsPool MinedLeavesPool
PROPERTIES PortfolioOffOnlyInTransit PacksInOrder
