--------------------------- MODULE ContractLedger ---------------------------
(***************************************************************************)
(* What a token contract promises, without its byte code: every change of  *)
(* a contract is one atomic step, inside the limits of the token, and paid *)
(* for by the one account entitled to it.                                  *)
(***************************************************************************)
EXTENDS Integers

CONSTANTS
    Accounts,      \* addresses
    Contracts,     \* contract accounts
    Undefined,     \* the value of a variable that is not set
    Longs,         \* the amounts a 64-bit field of a transaction can hold
    Fee            \* what a transaction costs

VARIABLES
    contracts,     \* contract -> "unused", "failed", or the kind registered
    issuer,        \* contract -> who issues, destroys and splits
    maker,         \* contract -> who appoints the issuer
    max,           \* contract -> limit of the supply
    unity,         \* contract -> how many units make one token
    total,         \* contract -> supply
    balance,       \* contract -> account -> units held
    coins          \* account -> coins, from which the fees are paid

vars == <<contracts, issuer, maker, max, unity, total, balance, coins>>

token == <<contracts, issuer, maker, max, unity, total, balance>>

Kinds == {"split", "plain"}

Init ==
    /\ contracts = [c \in Contracts |-> "unused"]
    /\ issuer = [c \in Contracts |-> Undefined]
    /\ maker = [c \in Contracts |-> Undefined]
    /\ max = [c \in Contracts |-> Undefined]
    /\ unity = [c \in Contracts |-> Undefined]
    /\ total = [c \in Contracts |-> 0]
    /\ balance = [c \in Contracts |-> [a \in Accounts |-> 0]]
    /\ coins \in [Accounts -> Nat]

Pay(a) == coins[a] >= Fee /\ coins' = [coins EXCEPT ![a] = @ - Fee]

Registered(c) == contracts[c] \in Kinds

\* A new contract: its maker is its first issuer, and nothing is issued yet.
Create(c, a) ==
    /\ contracts[c] = "unused"
    /\ Pay(a)
    /\ \E k \in Kinds : contracts' = [contracts EXCEPT ![c] = k]
    /\ maker' = [maker EXCEPT ![c] = a]
    /\ issuer' = [issuer EXCEPT ![c] = a]
    /\ \E m \in Longs : max' = [max EXCEPT ![c] = m]
    /\ \E u \in Longs \ {0} : unity' = [unity EXCEPT ![c] = u]
    /\ UNCHANGED <<total, balance>>

\* A registration that fails uses up its contract account.
CreateFails(c, a) ==
    /\ contracts[c] = "unused"
    /\ Pay(a)
    /\ contracts' = [contracts EXCEPT ![c] = "failed"]
    /\ UNCHANGED <<issuer, maker, max, unity, total, balance>>

\* Only the maker appoints an issuer.
Supersede(c, a) ==
    /\ Registered(c)
    /\ Pay(maker[c])
    /\ issuer' = [issuer EXCEPT ![c] = a]
    /\ UNCHANGED <<contracts, maker, max, unity, total, balance>>

\* Only the issuer changes the supply, and only its own holding with it.
Issue(c, n) ==
    /\ Registered(c)
    /\ total[c] + n <= max[c]
    /\ Pay(issuer[c])
    /\ total' = [total EXCEPT ![c] = @ + n]
    /\ balance' = [balance EXCEPT ![c][issuer[c]] = @ + n]
    /\ UNCHANGED <<contracts, issuer, maker, max, unity>>

Destroy(c, n) ==
    /\ Registered(c)
    /\ n <= balance[c][issuer[c]]
    /\ Pay(issuer[c])
    /\ total' = [total EXCEPT ![c] = @ - n]
    /\ balance' = [balance EXCEPT ![c][issuer[c]] = @ - n]
    /\ UNCHANGED <<contracts, issuer, maker, max, unity>>

\* Only a contract with the split function, and only at its issuer's word.
Split(c, n) ==
    /\ contracts[c] = "split"
    /\ n > 0
    /\ Pay(issuer[c])
    /\ unity' = [unity EXCEPT ![c] = n]
    /\ UNCHANGED <<contracts, issuer, maker, max, total, balance>>

\* Only its holder moves a unit.
Move(c, a, b, n) ==
    /\ Registered(c)
    /\ a # b
    /\ n <= balance[c][a]
    /\ Pay(a)
    /\ balance' = [balance EXCEPT ![c][a] = @ - n, ![c][b] = @ + n]
    /\ UNCHANGED <<contracts, issuer, maker, max, unity, total>>

\* Everything else costs its sender the fee and does nothing.
Refuse(a) == Pay(a) /\ UNCHANGED token

Next ==
    \/ \E c \in Contracts, a \in Accounts : Create(c, a) \/ CreateFails(c, a) \/ Supersede(c, a)
    \/ \E c \in Contracts, n \in Longs : Issue(c, n) \/ Destroy(c, n) \/ Split(c, n)
    \/ \E c \in Contracts, a, b \in Accounts, n \in Longs : Move(c, a, b, n)
    \/ \E a \in Accounts : Refuse(a)

Spec == Init /\ [][Next]_vars
=============================================================================
