------------------------ MODULE MCContractExecution ------------------------
EXTENDS ContractExecution, Functions, TLC

CONSTANTS alice, bob, carol, token1

\* alice and bob send transactions, carol only receives.
MCFunds == alice :> 3 @@ bob :> 2 @@ carol :> 0

MCAmounts == {0, 1, 3}

MCSum(f) == FoldFunction(LAMBDA x, y : x + y, 0, f)
=============================================================================
