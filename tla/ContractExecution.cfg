CONSTANTS
    alice = alice
    bob = bob
    carol = carol
    token1 = token1
    Accounts = {alice, bob, carol}
    Contracts = {token1}
    Undefined = Undefined
    MaxLong = 3
    Amounts <- MCAmounts
    Fee = 1
    Funds <- MCFunds
    SumOf <- MCSum
SPECIFICATION Spec
INVARIANTS SupplyBacked WithinMax WellFormed
PROPERTY PromiseKept
