------------------------- MODULE ContractExecution -------------------------
(***************************************************************************)
(* The execution of a contract: RegisterContractTransactionDiff and        *)
(* ExecuteContractFunctionTransactionDiff, the byte code of the two        *)
(* contracts of ContractPermitted, and OpcFuncDiffer, which folds a        *)
(* function's opcodes into an OpcDiff.  Each opcode sees the state under   *)
(* the diff of the opcodes before it, and the first that fails drops       *)
(* everything but the fee.                                                 *)
(***************************************************************************)
EXTENDS Integers, Sequences

CONSTANTS
    Accounts,      \* addresses
    Contracts,     \* contract accounts, one for each registration transaction
    Undefined,     \* None
    MaxLong,       \* Long.MaxValue
    Amounts,       \* the amounts that appear in transactions
    Fee,           \* the fee of a transaction
    Funds,         \* account -> coins at the start
    SumOf(_)       \* the sum of the values of a function

Longs == 0 .. MaxLong

\* SumOf adds up: all the proofs use of it.
ASSUME ConstantsAssumption ==
    /\ MaxLong \in Nat /\ Fee \in Nat /\ Amounts \subseteq Longs
    /\ Undefined \notin Accounts /\ Undefined \notin Int
    /\ Funds \in [Accounts -> Nat]

ASSUME SumAssumption ==
    /\ SumOf([a \in Accounts |-> 0]) = 0
    /\ \A f \in [Accounts -> Longs] : \A a \in Accounts :
          /\ f[a] <= SumOf(f)
          /\ \A n \in Longs : SumOf([f EXCEPT ![a] = n]) = SumOf(f) - f[a] + n

VARIABLES
    contracts,      \* contract -> "unused", "failed", or the kind registered
    contractDB,     \* contract -> state variable -> address
    contractTokens, \* contract -> number of tokens
    tokenDB,        \* contract -> max and unity of its token
    total,          \* tokenAccountBalance, at the key of the supply
    balance,        \* tokenAccountBalance, at the key of an account
    coins,          \* account -> balance, from which fees are paid
    exec            \* the transaction the differ is at work on

vars == <<contracts, contractDB, contractTokens, tokenDB, total, balance, coins, exec>>

state == <<contracts, contractDB, contractTokens, tokenDB, total, balance, coins>>

-----------------------------------------------------------------------------
(* Data entries; an amount that is negative does not parse. *)

Entry(t, v) == [type |-> t, value |-> v]

Entries == [type : {"Address"}, value : Accounts] \cup [type : {"Amount"}, value : Longs]
               \cup [type : {"ContractAccount"}, value : Contracts]
               \cup [type : {"ShortText"}, value : {Undefined}]

CheckTypes(params, data) ==
    /\ Len(params) = Len(data)
    /\ \A i \in 1 .. Len(params) :
          \/ data[i].type = params[i]
          \/ params[i] = "Account" /\ data[i].type \in {"Address", "ContractAccount"}

(* The two permitted contracts; indices into the data stack count from 0. *)

Op(name, args) == [opc |-> name, args |-> args]

Func(name, params, code) == [name |-> name, params |-> params, code |-> code]

GetIssuer == Op("CDBVRGet", <<"issuer", 1>>)

CallerIsIssuer == Op("AssertIsCallerOrigin", <<1>>)

InitFunc == Func("init", <<"Amount", "Amount", "ShortText">>,
    <<Op("Load", <<3>>), Op("CDBVSet", <<"issuer", 3>>), Op("CDBVSet", <<"maker", 3>>),
      Op("TDBNewToken", <<0, 1, 2>>)>>)

SupersedeFunc == Func("supersede", <<"Account">>,
    <<Op("CDBVRGet", <<"maker", 1>>), Op("AssertIsSignerOrigin", <<1>>),
      Op("CDBVSet", <<"issuer", 0>>)>>)

\* Fault: the caller of issue is not asserted.
IssueFuncUnasserted == Func("issue", <<"Amount">>, <<GetIssuer, Op("TDBADeposit", <<1, 0>>)>>)

IssueFunc == Func("issue", <<"Amount">>,
    <<GetIssuer, CallerIsIssuer, Op("TDBADeposit", <<1, 0>>)>>)

DestroyFunc == Func("destroy", <<"Amount">>,
    <<GetIssuer, CallerIsIssuer, Op("TDBAWithdraw", <<1, 0>>)>>)

SplitFunc == Func("split", <<"Amount">>,
    <<GetIssuer, CallerIsIssuer, Op("TDBSplit", <<0>>)>>)

\* Fault: the caller is loaded over the last argument.
SendFuncMisplaced == Func("send", <<"Account", "Amount">>,
    <<Op("Load", <<1>>), Op("TDBATransfer", <<2, 0, 1>>)>>)

SendFunc == Func("send", <<"Account", "Amount">>,
    <<Op("Load", <<2>>), Op("TDBATransfer", <<2, 0, 1>>)>>)

TransferFunc == Func("transfer", <<"Account", "Account", "Amount">>,
    <<Op("AssertIsCallerOrigin", <<0>>), Op("TDBATransfer", <<0, 1, 2>>)>>)

DepositFunc == Func("deposit", <<"Account", "ContractAccount", "Amount">>,
    <<Op("AssertIsCallerOrigin", <<0>>), Op("TDBATransfer", <<0, 1, 2>>)>>)

WithdrawFunc == Func("withdraw", <<"ContractAccount", "Account", "Amount">>,
    <<Op("AssertIsCallerOrigin", <<1>>), Op("TDBATransfer", <<0, 1, 2>>)>>)

TotalSupplyFunc == Func("totalSupply", <<>>, <<Op("TDBRTotal", <<0>>), Op("Return", <<0>>)>>)

MaxSupplyFunc == Func("maxSupply", <<>>, <<Op("TDBRMax", <<0>>), Op("Return", <<0>>)>>)

BalanceOfFunc == Func("balanceOf", <<"Account">>,
    <<Op("TDBARBalance", <<0, 1>>), Op("Return", <<1>>)>>)

GetIssuerFunc == Func("getIssuer", <<>>, <<Op("CDBVRGet", <<"issuer", 0>>), Op("Return", <<0>>)>>)

Kinds == {"split", "plain"}

Descriptor(kind) ==
    IF kind = "split"
    THEN <<SupersedeFunc, IssueFunc, DestroyFunc, SplitFunc, SendFunc, TransferFunc, DepositFunc,
           WithdrawFunc, TotalSupplyFunc, MaxSupplyFunc, BalanceOfFunc, GetIssuerFunc>>
    ELSE <<SupersedeFunc, IssueFunc, DestroyFunc, SendFunc, TransferFunc, DepositFunc,
           WithdrawFunc, TotalSupplyFunc, MaxSupplyFunc, BalanceOfFunc, GetIssuerFunc>>

NoFunc == Func("none", <<>>, <<>>)

(* The data a transaction may carry: well typed, too short, or one amount. *)

Inputs == {Entry("Address", a) : a \in Accounts} \cup {Entry("Amount", n) : n \in Amounts}
              \cup {Entry("ContractAccount", c) : c \in Contracts} \cup {Entry("ShortText", Undefined)}

CallData(f) == {d \in [1 .. Len(f.params) -> Inputs] : CheckTypes(f.params, d)}
                   \cup {<<>>} \cup {<<Entry("Amount", n)>> : n \in Amounts}

-----------------------------------------------------------------------------
StateVars == {"issuer", "maker"}

TokenKeys == {"max", "unity"}

\* The part of an OpcDiff that concerns one contract: the state variables and
\* the token information it sets, and what it adds to the number of tokens,
\* to the supply and to the holdings.
OpcDiff(set, new, about, supply, units) ==
    [db |-> set, tokens |-> new, info |-> about, total |-> supply, balance |-> units]

NoVars == [v \in StateVars |-> Undefined]

NoInfo == [k \in TokenKeys |-> Undefined]

NoUnits == [a \in Accounts |-> 0]

NoDiff == OpcDiff(NoVars, 0, NoInfo, 0, NoUnits)

Override(older, newer) ==
    [k \in DOMAIN older |-> IF newer[k] = Undefined THEN older[k] ELSE newer[k]]

\* opcDiffMonoid.combine
Combine(older, newer) ==
    OpcDiff(Override(older.db, newer.db), older.tokens + newer.tokens,
            Override(older.info, newer.info), older.total + newer.total,
            [a \in Accounts |-> older.balance[a] + newer.balance[a]])

\* The stored state of contract c under diff d (CompositeStateReader).
Under(c, d) ==
    Combine(OpcDiff(contractDB[c], contractTokens[c], tokenDB[c], total[c], balance[c]), d)

Idle == [phase |-> "idle"]

Init ==
    /\ contracts = [c \in Contracts |-> "unused"]
    /\ contractDB = [c \in Contracts |-> NoVars]
    /\ contractTokens = [c \in Contracts |-> 0]
    /\ tokenDB = [c \in Contracts |-> NoInfo]
    /\ total = [c \in Contracts |-> 0]
    /\ balance = [c \in Contracts |-> NoUnits]
    /\ coins = Funds
    /\ exec = Idle

-----------------------------------------------------------------------------
(* The fold. *)

Enter(phase, status, c, signer, kind, f, data) ==
    exec' = [phase |-> phase, status |-> status, contract |-> c, signer |-> signer,
             kind |-> kind, func |-> f, pc |-> 1, data |-> data, diff |-> NoDiff]

\* A function is entered when its data has the declared types.
Open(c, signer, kind, f, data) ==
    IF CheckTypes(f.params, data)
    THEN Enter("run", "Success", c, signer, kind, f, data)
    ELSE Enter("done", "ContractDataTypeMismatch", c, signer, kind, f, data)

\* RegisterContractTransactionDiff, for a transaction that is not in the chain yet
Register ==
    /\ exec = Idle
    /\ \E c \in Contracts, signer \in Accounts, kind \in Kinds, data \in CallData(InitFunc) :
          /\ contracts[c] = "unused"
          /\ Open(c, signer, kind, InitFunc, data)
    /\ UNCHANGED state

\* ExecuteContractFunctionTransactionDiff
Call ==
    /\ exec = Idle
    /\ \E c \in Contracts, signer \in Accounts :
          \/ /\ contracts[c] \in Kinds
             /\ \E i \in 1 .. Len(Descriptor(contracts[c])) :
                   LET f == Descriptor(contracts[c])[i]
                   IN  \E data \in CallData(f) : Open(c, signer, contracts[c], f, data)
          \/ /\ contracts[c] \in Kinds
             /\ Enter("done", "InvalidFunctionIndex", c, signer, contracts[c], NoFunc, <<>>)
          \/ /\ contracts[c] \notin Kinds
             /\ Enter("done", "InvalidContractAddress", c, signer, "none", NoFunc, <<>>)
    /\ UNCHANGED state

Opc == exec.func.code[exec.pc]

Ended == exec.pc > Len(exec.func.code)

Running(name) == exec # Idle /\ exec.phase = "run" /\ ~Ended /\ Opc.opc = name

Arg(i) == Opc.args[i]

\* checkInput of every opcode object
InStack(is) == \A i \in is : Arg(i) \in 0 .. Len(exec.data) - 1

Data(i) == exec.data[Arg(i) + 1]

Now == Under(exec.contract, exec.diff)

\* dataStack.patch(pointer, Seq(e), 1)
Patch(p, e) == IF p = Len(exec.data) THEN Append(exec.data, e) ELSE [exec.data EXCEPT ![p + 1] = e]

\* Right(d, data): the fold goes on; Left(status): it ends, without a diff.
Goes(d, data) ==
    exec' = [exec EXCEPT !.pc = @ + 1, !.diff = Combine(@, d), !.data = data]

Fails(status) ==
    exec' = [exec EXCEPT !.phase = "done", !.status = status, !.diff = NoDiff]

Step(status, d, data) ==
    /\ IF status = "Success" THEN Goes(d, data) ELSE Fails(status)
    /\ UNCHANGED state

\* An opcode that only reads puts what it read on the stack.
Reads(p, status, e) ==
    Step(IF p \notin 0 .. Len(exec.data) THEN "ContractLocalVariableIndexOutOfRange" ELSE status,
         NoDiff, Patch(p, e))

Load == Running("Load") /\ Reads(Arg(1), "Success", Entry("Address", exec.signer))

CDBVRGet ==
    /\ Running("CDBVRGet")
    /\ LET v == Now.db[Arg(1)]
       IN  Reads(Arg(2), IF v = Undefined THEN "ContractStateVariableNotDefined" ELSE "Success",
                 Entry("Address", v))

Asserts(name, status) ==
    /\ Running(name)
    /\ Step(IF ~InStack({1}) THEN "ContractInvalidOPCData"
            ELSE IF Data(1).type # "Address" THEN "ContractDataTypeMismatch"
            ELSE IF Data(1).value # exec.signer THEN status
            ELSE "Success", NoDiff, exec.data)

AssertIsCallerOrigin == Asserts("AssertIsCallerOrigin", "ContractInvalidCaller")

AssertIsSignerOrigin == Asserts("AssertIsSignerOrigin", "ContractInvalidSigner")

CDBVSet ==
    /\ Running("CDBVSet")
    /\ Step(IF ~InStack({2}) THEN "ContractInvalidOPCData"
            ELSE IF Data(2).type # "Address" THEN "ContractInvalidStateVariable"
            ELSE "Success",
            OpcDiff([NoVars EXCEPT ![Arg(1)] = Data(2).value], 0, NoInfo, 0, NoUnits), exec.data)

NewTokenStatus(max, unity, desc) ==
    IF <<max.type, unity.type, desc.type>> # <<"Amount", "Amount", "ShortText">>
       THEN "ContractDataTypeMismatch"
    ELSE IF max.value < 0 \/ unity.value <= 0 THEN "ContractInvalidTokenInfo"
    ELSE "Success"

TDBNewToken ==
    /\ Running("TDBNewToken")
    /\ Step(IF ~InStack({1, 2, 3}) THEN "ContractInvalidOPCData"
            ELSE NewTokenStatus(Data(1), Data(2), Data(3)),
            OpcDiff(NoVars, 1, [max |-> Data(1).value, unity |-> Data(2).value], 0, NoUnits),
            exec.data)

TDBSplit ==
    /\ Running("TDBSplit")
    /\ Step(IF ~InStack({1}) THEN "ContractInvalidOPCData"
            ELSE IF Data(1).type # "Amount" THEN "ContractDataTypeMismatch"
            ELSE IF Now.tokens = 0 THEN "ContractInvalidTokenIndex"
            ELSE IF Data(1).value <= 0 THEN "ContractInvalidTokenInfo"
            ELSE "Success",
            OpcDiff(NoVars, 0, [NoInfo EXCEPT !["unity"] = Data(1).value], 0, NoUnits), exec.data)

\* Fault: the sum is compared without addExact, and wraps around.
DepositStatusWrapping(s, issuer, amount) ==
    IF s.tokens = 0 THEN "ContractInvalidTokenIndex"
    ELSE IF ((amount.value + s.total + MaxLong + 1) % (2 * MaxLong + 2)) - MaxLong - 1 > s.info["max"]
       THEN "ContractTokenMaxExceeded"
    ELSE "Success"

DepositStatus(s, issuer, amount) ==
    LET limit == IF s.info["max"] = Undefined THEN 0 ELSE s.info["max"]
    IN  IF issuer.type # "Address" \/ amount.type # "Amount" THEN "ContractDataTypeMismatch"
        ELSE IF s.tokens = 0 THEN "ContractInvalidTokenIndex"
        ELSE IF amount.value + s.total > MaxLong THEN "Failed"
        ELSE IF amount.value < 0 THEN "ContractInvalidAmount"
        ELSE IF amount.value + s.total > limit THEN "ContractTokenMaxExceeded"
        ELSE "Success"

TDBADeposit ==
    /\ Running("TDBADeposit")
    /\ Step(IF ~InStack({1, 2}) THEN "ContractInvalidOPCData" ELSE DepositStatus(Now, Data(1), Data(2)),
            OpcDiff(NoVars, 0, NoInfo, Data(2).value, [NoUnits EXCEPT ![Data(1).value] = Data(2).value]),
            exec.data)

WithdrawStatus(s, issuer, amount) ==
    IF issuer.type # "Address" \/ amount.type # "Amount" THEN "ContractDataTypeMismatch"
    ELSE IF s.tokens = 0 THEN "ContractInvalidTokenIndex"
    ELSE IF amount.value > s.balance[issuer.value] THEN "ContractTokenBalanceInsufficient"
    ELSE IF amount.value < 0 THEN "ContractInvalidAmount"
    ELSE "Success"

TDBAWithdraw ==
    /\ Running("TDBAWithdraw")
    /\ Step(IF ~InStack({1, 2}) THEN "ContractInvalidOPCData" ELSE WithdrawStatus(Now, Data(1), Data(2)),
            OpcDiff(NoVars, 0, NoInfo, -Data(2).value, [NoUnits EXCEPT ![Data(1).value] = -Data(2).value]),
            exec.data)

TransferStatus(s, sender, recipient, amount) ==
    IF sender.type = "ContractAccount" THEN "ContractUnsupportedWithdraw"
    ELSE IF recipient.type = "ContractAccount" THEN "ContractUnsupportedDeposit"
    ELSE IF <<sender.type, recipient.type, amount.type>> # <<"Address", "Address", "Amount">>
       THEN "ContractDataTypeMismatch"
    ELSE IF s.tokens = 0 THEN "ContractInvalidTokenIndex"
    ELSE IF amount.value > s.balance[sender.value] THEN "ContractTokenBalanceInsufficient"
    ELSE IF amount.value + s.balance[recipient.value] > MaxLong THEN "Failed"
    ELSE IF amount.value < 0 THEN "ContractInvalidAmount"
    ELSE "Success"

\* Fault: without the case of equal accounts the second entry of the map wins.
TransferDiffToAnyone(sender, recipient, amount) ==
    OpcDiff(NoVars, 0, NoInfo, 0, [NoUnits EXCEPT ![sender] = -amount, ![recipient] = amount])

TransferDiff(sender, recipient, amount) ==
    IF sender = recipient
    THEN NoDiff
    ELSE OpcDiff(NoVars, 0, NoInfo, 0, [NoUnits EXCEPT ![sender] = -amount, ![recipient] = amount])

TDBATransfer ==
    /\ Running("TDBATransfer")
    /\ Step(IF ~InStack({1, 2, 3}) THEN "ContractInvalidOPCData"
            ELSE TransferStatus(Now, Data(1), Data(2), Data(3)),
            TransferDiff(Data(1).value, Data(2).value, Data(3).value), exec.data)

TDBRTotal ==
    /\ Running("TDBRTotal")
    /\ Reads(Arg(1), IF Now.tokens = 0 THEN "ContractInvalidTokenIndex" ELSE "Success",
             Entry("Amount", Now.total))

TDBRMax ==
    /\ Running("TDBRMax")
    /\ Reads(Arg(1), IF Now.tokens = 0 THEN "ContractInvalidTokenIndex"
                     ELSE IF Now.info["max"] = Undefined THEN "ContractInvalidTokenInfo"
                     ELSE "Success",
             Entry("Amount", Now.info["max"]))

TDBARBalance ==
    /\ Running("TDBARBalance")
    /\ IF ~InStack({1}) THEN Fails("ContractInvalidOPCData") /\ UNCHANGED state
       ELSE IF Data(1).type # "Address" THEN Fails("ContractDataTypeMismatch") /\ UNCHANGED state
       ELSE Reads(Arg(2), IF Now.tokens = 0 THEN "ContractInvalidTokenIndex" ELSE "Success",
                  Entry("Amount", Now.balance[Data(1).value]))

\* ReturnOpc is parsed and always refused.
Return == Running("Return") /\ Step("ContractUnsupportedOPC", NoDiff, exec.data)

Opcode ==
    \/ Load \/ CDBVRGet \/ CDBVSet \/ AssertIsCallerOrigin \/ AssertIsSignerOrigin
    \/ TDBNewToken \/ TDBSplit \/ TDBADeposit \/ TDBAWithdraw \/ TDBATransfer
    \/ TDBRTotal \/ TDBRMax \/ TDBARBalance \/ Return

\* The end of the fold.
Finish ==
    /\ exec # Idle /\ exec.phase = "run" /\ Ended
    /\ exec' = [exec EXCEPT !.phase = "done"]
    /\ UNCHANGED state

\* The whole transaction's diff enters the state: the fee, and what the
\* execution changed or, when it failed, nothing.
Settle ==
    /\ exec # Idle /\ exec.phase = "done"
    /\ coins[exec.signer] >= Fee
    /\ LET c == exec.contract
           s == Under(c, exec.diff)
       IN  /\ contracts' =
                 IF exec.func # InitFunc THEN contracts
                 ELSE [contracts EXCEPT ![c] = IF exec.status = "Success" THEN exec.kind ELSE "failed"]
           /\ contractDB' = [contractDB EXCEPT ![c] = s.db]
           /\ contractTokens' = [contractTokens EXCEPT ![c] = s.tokens]
           /\ tokenDB' = [tokenDB EXCEPT ![c] = s.info]
           /\ total' = [total EXCEPT ![c] = s.total]
           /\ balance' = [balance EXCEPT ![c] = s.balance]
    /\ coins' = [coins EXCEPT ![exec.signer] = @ - Fee]
    /\ exec' = Idle

\* BalanceDiffValidation: a sender that cannot pay has no transaction.
Reject ==
    /\ exec # Idle /\ exec.phase = "done"
    /\ coins[exec.signer] < Fee
    /\ exec' = Idle
    /\ UNCHANGED state

Next == Register \/ Call \/ Opcode \/ Finish \/ Settle \/ Reject

Spec == Init /\ [][Next]_vars

-----------------------------------------------------------------------------
\* Every unit counted in the supply of a token is held by an account, and
\* none besides: deposit, withdraw and transfer keep the three books of
\* tokenAccountBalance in step, a transfer to oneself included.
SupplyBacked == \A c \in Contracts : total[c] = SumOf(balance[c])

\* The supply of a token never passes the limit it was registered with, no
\* holding is negative, and no sum leaves the 64-bit range.
WithinMax ==
    \A c \in Contracts :
       /\ total[c] \in Longs /\ \A a \in Accounts : balance[c][a] \in Longs
       /\ contracts[c] \in Kinds => tokenDB[c]["max"] \in Longs /\ total[c] <= tokenDB[c]["max"]

\* A registration that failed at any of its opcodes leaves nothing of the
\* opcodes before it: no issuer, no maker, no token.
NothingFromFailure ==
    \A c \in Contracts :
       IF contracts[c] \in Kinds
       THEN contractTokens[c] = 1 /\ \A v \in StateVars : contractDB[c][v] \in Accounts
       ELSE contractTokens[c] = 0 /\ contractDB[c] = NoVars /\ tokenDB[c] = NoInfo

\* The byte code of the permitted contracts is well formed: no execution
\* ends for a wrong index, an unset variable or a missing token, and only
\* the functions that return a value end at the unsupported opcode.
WellFormed ==
    exec # Idle =>
       /\ exec.status \notin {"ContractInvalidOPCData", "ContractLocalVariableIndexOutOfRange",
                              "ContractStateVariableNotDefined", "ContractInvalidTokenIndex"}
       /\ exec.status = "ContractUnsupportedOPC" =>
             exec.func.name \in {"totalSupply", "maxSupply", "balanceOf", "getIssuer"}

\* Each opcode, and the settling of the whole, is a step of the contract's
\* promise or no step of it: nobody's units move, no supply changes and no
\* issuer is appointed but in a transaction of the account entitled to it.
Promise == INSTANCE ContractLedger WITH
    issuer <- [c \in Contracts |-> contractDB[c]["issuer"]],
    maker <- [c \in Contracts |-> contractDB[c]["maker"]],
    max <- [c \in Contracts |-> tokenDB[c]["max"]],
    unity <- [c \in Contracts |-> tokenDB[c]["unity"]]

PromiseKept == Promise!Spec
=============================================================================
