---------------------- MODULE ContractExecution_proofs ----------------------
(***************************************************************************)
(* The books of a token, for any accounts, contracts, amounts and limit.   *)
(*                                                                         *)
(* The state is only ever changed by settling a diff, so the argument is   *)
(* about the diff: the invariant says that the state UNDER the diff is     *)
(* sound at every opcode.  The first lemmas let an opcode's own diff be    *)
(* added to that state, one lemma for each opcode that writes then keeps   *)
(* it sound, and what the byte code contributes is short: only init        *)
(* creates a token, and it does so last.                                   *)
(*                                                                         *)
(* The second half reads the byte code: PlaceInv says of every function    *)
(* what holds at each of its opcodes, from which the code is well formed   *)
(* and every execution is one step of ContractLedger.                      *)
(***************************************************************************)
EXTENDS ContractExecution, SequenceTheorems, TLAPS

Diffs == [db : [StateVars -> Accounts \cup {Undefined}], tokens : Int,
          info : [TokenKeys -> Longs \cup {Undefined}], total : Int,
          balance : [Accounts -> Int]]

\* What holds of the state of a contract under the diff of any prefix.
Sound(s) ==
    /\ s \in Diffs
    /\ s.total \in Longs /\ s.balance \in [Accounts -> Longs]
    /\ s.total = SumOf(s.balance)
    /\ \/ s.tokens = 0 /\ s.total = 0
       \/ s.tokens = 1 /\ s.info["max"] \in Longs /\ s.total <= s.info["max"]

Funcs == {InitFunc, SupersedeFunc, IssueFunc, DestroyFunc, SplitFunc, SendFunc, TransferFunc,
          DepositFunc, WithdrawFunc, TotalSupplyFunc, MaxSupplyFunc, BalanceOfFunc,
          GetIssuerFunc, NoFunc}

\* How an execution may end (TransactionStatus).
Statuses ==
    {"ContractDataTypeMismatch", "ContractInvalidAmount", "ContractInvalidCaller",
     "ContractInvalidOPCData", "ContractInvalidSigner", "ContractInvalidStateVariable",
     "ContractInvalidTokenIndex", "ContractInvalidTokenInfo",
     "ContractLocalVariableIndexOutOfRange", "ContractStateVariableNotDefined",
     "ContractTokenBalanceInsufficient", "ContractTokenMaxExceeded",
     "ContractUnsupportedDeposit", "ContractUnsupportedOPC",
     "ContractUnsupportedWithdraw", "Failed", "InvalidContractAddress",
     "InvalidFunctionIndex", "Success"}

Jobs == [phase : {"run", "done"}, status : Statuses, contract : Contracts, signer : Accounts,
         kind : Kinds \cup {"none"}, func : Funcs, pc : Nat \ {0}, data : Seq(Entries),
         diff : Diffs]

Types ==
    /\ contracts \in [Contracts -> {"unused", "failed"} \cup Kinds]
    /\ contractDB \in [Contracts -> [StateVars -> Accounts \cup {Undefined}]]
    /\ contractTokens \in [Contracts -> {0, 1}]
    /\ tokenDB \in [Contracts -> [TokenKeys -> Longs \cup {Undefined}]]
    /\ total \in [Contracts -> Longs]
    /\ balance \in [Contracts -> [Accounts -> Longs]]
    /\ exec = Idle \/ exec \in Jobs

\* How far the registration of a contract has come.
InitProgress ==
    /\ contracts[exec.contract] = "unused"
    /\ exec.kind \in Kinds
    /\ exec.pc <= 4 => exec.diff.tokens = 0
    /\ exec.pc > 4 => exec.diff.tokens = 1
    /\ exec.pc > 2 => exec.diff.db["issuer"] \in Accounts
    /\ exec.pc > 3 => exec.diff.db["maker"] \in Accounts

\* What the execution under way adds to the stored state.
ExecSound ==
    exec # Idle =>
       /\ Sound(Under(exec.contract, exec.diff))
       /\ exec.status # "Success" => exec.diff = NoDiff
       /\ exec.phase = "run" => exec.status = "Success"
       /\ exec.phase = "done" /\ exec.status = "Success" => exec.pc > Len(exec.func.code)
       /\ exec.func = InitFunc => contracts[exec.contract] = "unused" /\ exec.kind \in Kinds
       /\ exec.func = InitFunc /\ exec.status = "Success" => InitProgress
       /\ exec.func # InitFunc => exec.diff.tokens = 0
       /\ exec.func # InitFunc /\ exec.status = "Success" => contracts[exec.contract] \in Kinds

\* What NothingFromFailure says of one contract.
Own(c) ==
    IF contracts[c] \in Kinds
    THEN contractTokens[c] = 1 /\ \A v \in StateVars : contractDB[c][v] \in Accounts
    ELSE contractTokens[c] = 0 /\ contractDB[c] = NoVars /\ tokenDB[c] = NoInfo

BooksInv ==
    /\ Types
    /\ \A c \in Contracts : Sound(Under(c, NoDiff))
    /\ NothingFromFailure
    /\ ExecSound

-----------------------------------------------------------------------------
(* Adding up diffs. *)

LEMMA NoDiffType == NoDiff \in Diffs
  BY ConstantsAssumption DEF NoDiff, Diffs, Longs, NoVars, NoInfo, NoUnits, OpcDiff

LEMMA CombineType ==
  ASSUME NEW d \in Diffs, NEW e \in Diffs
  PROVE  Combine(d, e) \in Diffs
  BY ConstantsAssumption DEF Combine, Override, Diffs, Longs, OpcDiff

\* A diff can be added to the state or to the diff that is under way.
LEMMA CombineAssoc ==
  ASSUME NEW d \in Diffs, NEW e \in Diffs, NEW f \in Diffs
  PROVE  Combine(d, Combine(e, f)) = Combine(Combine(d, e), f)
<1>2. Override(d.db, Override(e.db, f.db)) = Override(Override(d.db, e.db), f.db)
  BY DEF Override, Diffs
<1>3. Override(d.info, Override(e.info, f.info)) = Override(Override(d.info, e.info), f.info)
  BY DEF Override, Diffs
<1>4. \A a \in Accounts : d.balance[a] + (e.balance[a] + f.balance[a])
                             = (d.balance[a] + e.balance[a]) + f.balance[a]
  BY DEF Diffs
<1>5. d.tokens + (e.tokens + f.tokens) = (d.tokens + e.tokens) + f.tokens
      /\ d.total + (e.total + f.total) = (d.total + e.total) + f.total
  BY DEF Diffs
<1>6. QED
  BY <1>2, <1>3, <1>4, <1>5 DEF Combine, OpcDiff

LEMMA CombineNoDiff ==
  ASSUME NEW s \in Diffs
  PROVE  Combine(s, NoDiff) = s
<1>1. Override(s.db, NoDiff.db) = s.db
  BY DEF Override, Diffs, NoDiff, NoVars, NoInfo, NoUnits, OpcDiff
<1>2. Override(s.info, NoDiff.info) = s.info
  BY DEF Override, Diffs, NoDiff, NoVars, NoInfo, NoUnits, OpcDiff
<1>3. [a \in Accounts |-> s.balance[a] + NoDiff.balance[a]] = s.balance
  BY DEF Diffs, NoDiff, NoVars, NoInfo, NoUnits, OpcDiff
<1>4. s.tokens + NoDiff.tokens = s.tokens /\ s.total + NoDiff.total = s.total
  BY DEF Diffs, NoDiff, NoVars, NoInfo, NoUnits, OpcDiff
<1>5. QED
  BY <1>1, <1>2, <1>3, <1>4 DEF Combine, Diffs, OpcDiff

\* The stored state under a longer diff is the state under the shorter one,
\* plus what was added.
LEMMA UnderGrows ==
  ASSUME Types, NEW c \in Contracts, NEW d \in Diffs, NEW e \in Diffs
  PROVE  /\ Under(c, d) \in Diffs
         /\ Under(c, Combine(d, e)) = Combine(Under(c, d), e)
<1> DEFINE stored == OpcDiff(contractDB[c], contractTokens[c], tokenDB[c], total[c], balance[c])
<1>1. stored \in Diffs
  BY ConstantsAssumption DEF Types, Diffs, Longs, OpcDiff
<1>2. QED
  BY <1>1, CombineType, CombineAssoc DEF Under, OpcDiff

LEMMA UnderNothing ==
  ASSUME Types, NEW c \in Contracts
  PROVE  Under(c, NoDiff) = OpcDiff(contractDB[c], contractTokens[c], tokenDB[c], total[c], balance[c])
<1> DEFINE stored == OpcDiff(contractDB[c], contractTokens[c], tokenDB[c], total[c], balance[c])
<1>1. stored \in Diffs
  BY ConstantsAssumption DEF Types, Diffs, Longs, OpcDiff
<1>2. QED
  BY <1>1, CombineNoDiff DEF Under, OpcDiff

-----------------------------------------------------------------------------
(* The opcodes that write keep the state sound. *)

\* Replacing one holding changes the sum by the difference.
LEMMA SumReplace ==
  ASSUME NEW f \in [Accounts -> Longs], NEW a \in Accounts, NEW n \in Longs
  PROVE  /\ SumOf([f EXCEPT ![a] = n]) = SumOf(f) - f[a] + n
         /\ f[a] <= SumOf(f)
  BY SumAssumption

LEMMA SetKeepsSound ==
  ASSUME NEW s, Sound(s), NEW v, NEW a \in Accounts
  PROVE  Sound(Combine(s, OpcDiff([NoVars EXCEPT ![v] = a], 0, NoInfo, 0, NoUnits)))
<1> DEFINE e == OpcDiff([NoVars EXCEPT ![v] = a], 0, NoInfo, 0, NoUnits)
           t == Combine(s, e)
<1>0. [NoVars EXCEPT ![v] = a] \in [StateVars -> Accounts \cup {Undefined}]
  BY DEF NoVars
<1>1. e \in Diffs
  BY <1>0, ConstantsAssumption DEF Diffs, Longs, NoInfo, NoUnits, OpcDiff
<1>2. t \in Diffs
  BY <1>1, CombineType DEF Sound
<1>3. t.tokens = s.tokens /\ t.total = s.total
  BY DEF Combine, Sound, Diffs, NoDiff, NoVars, NoInfo, NoUnits, OpcDiff
<1>4. t.balance = s.balance
  BY DEF Combine, Sound, Diffs, NoDiff, NoVars, NoInfo, NoUnits, OpcDiff
<1>5. t.info["max"] = s.info["max"]
  BY DEF Combine, Override, Sound, Diffs, NoDiff, TokenKeys, NoVars, NoInfo, NoUnits, OpcDiff
<1>6. QED
  BY <1>2, <1>3, <1>4, <1>5 DEF Sound

LEMMA SplitKeepsSound ==
  ASSUME NEW s, Sound(s), NEW n \in Longs
  PROVE  Sound(Combine(s, OpcDiff(NoVars, 0, [NoInfo EXCEPT !["unity"] = n], 0, NoUnits)))
<1> DEFINE e == OpcDiff(NoVars, 0, [NoInfo EXCEPT !["unity"] = n], 0, NoUnits)
           t == Combine(s, e)
<1>0. [NoInfo EXCEPT !["unity"] = n] \in [TokenKeys -> Longs \cup {Undefined}]
  BY DEF NoInfo
<1>1. e \in Diffs
  BY <1>0, ConstantsAssumption DEF Diffs, Longs, NoVars, NoUnits, OpcDiff
<1>2. t \in Diffs
  BY <1>1, CombineType DEF Sound
<1>3. t.tokens = s.tokens /\ t.total = s.total
  BY DEF Combine, Sound, Diffs, NoDiff, NoVars, NoInfo, NoUnits, OpcDiff
<1>4. t.balance = s.balance
  BY DEF Combine, Sound, Diffs, NoDiff, NoVars, NoInfo, NoUnits, OpcDiff
<1>5. t.info["max"] = s.info["max"]
  BY DEF Combine, Override, Sound, Diffs, NoDiff, TokenKeys, NoVars, NoInfo, NoUnits, OpcDiff
<1>6. QED
  BY <1>2, <1>3, <1>4, <1>5 DEF Sound

LEMMA NewTokenKeepsSound ==
  ASSUME NEW s, Sound(s), s.tokens = 0, NEW m \in Longs, NEW u \in Longs
  PROVE  Sound(Combine(s, OpcDiff(NoVars, 1, [max |-> m, unity |-> u], 0, NoUnits)))
<1> DEFINE e == OpcDiff(NoVars, 1, [max |-> m, unity |-> u], 0, NoUnits)
           t == Combine(s, e)
<1>1. e \in Diffs
  BY ConstantsAssumption DEF NoDiff, Diffs, Longs, TokenKeys, NoVars, NoInfo, NoUnits, OpcDiff
<1>2. t \in Diffs
  BY <1>1, CombineType DEF Sound
<1>3. t.tokens = 1 /\ t.total = s.total
  BY DEF Combine, Sound, Diffs, NoDiff, NoVars, NoInfo, NoUnits, OpcDiff
<1>4. t.balance = s.balance
  BY DEF Combine, Sound, Diffs, NoDiff, NoVars, NoInfo, NoUnits, OpcDiff
<1>5. t.info["max"] = m
  BY ConstantsAssumption DEF Combine, Override, Sound, Diffs, NoDiff, TokenKeys, Longs, NoVars, NoInfo, NoUnits, OpcDiff
<1>6. QED
  BY <1>2, <1>3, <1>4, <1>5, ConstantsAssumption DEF Sound, Longs

LEMMA DepositKeepsSound ==
  ASSUME NEW s, Sound(s), NEW a \in Accounts, NEW n \in Longs,
         DepositStatus(s, Entry("Address", a), Entry("Amount", n)) = "Success"
  PROVE  Sound(Combine(s, OpcDiff(NoVars, 0, NoInfo, n, [NoUnits EXCEPT ![a] = n])))
<1> DEFINE e == OpcDiff(NoVars, 0, NoInfo, n, [NoUnits EXCEPT ![a] = n])
           t == Combine(s, e)
<1>1. e \in Diffs
  BY ConstantsAssumption DEF NoDiff, Diffs, Longs, NoVars, NoInfo, NoUnits, OpcDiff
<1>2. t \in Diffs
  BY <1>1, CombineType DEF Sound
<1>3. t.tokens = s.tokens /\ t.total = s.total + n
  BY DEF Combine, Sound, Diffs, NoDiff, NoVars, NoInfo, NoUnits, OpcDiff
<1>4. t.balance = [s.balance EXCEPT ![a] = s.balance[a] + n]
  BY DEF Combine, Sound, Diffs, NoDiff, Longs, NoVars, NoInfo, NoUnits, OpcDiff
<1>5. t.info["max"] = s.info["max"]
  BY DEF Combine, Override, Sound, Diffs, NoDiff, TokenKeys, NoVars, NoInfo, NoUnits, OpcDiff
<1>6. s.tokens = 1 /\ s.info["max"] \in Longs /\ s.total + n <= s.info["max"]
  BY ConstantsAssumption DEF DepositStatus, Entry, Sound, Longs
<1>7. s.balance[a] + n \in Longs /\ s.total + n \in Longs
  <2>1. s.balance[a] <= s.total
    BY SumReplace DEF Sound
  <2>2. QED
    BY <1>6, <2>1, ConstantsAssumption DEF Sound, Longs
<1>8. SumOf(t.balance) = s.total + n /\ t.balance \in [Accounts -> Longs]
  <2>1. SumOf(t.balance) = SumOf(s.balance) - s.balance[a] + (s.balance[a] + n)
    BY <1>4, <1>7, SumReplace DEF Sound
  <2>2. t.balance \in [Accounts -> Longs]
    BY <1>4, <1>7 DEF Sound
  <2>3. SumOf(s.balance) = s.total /\ s.total \in Int /\ s.balance[a] \in Int /\ n \in Int
    BY ConstantsAssumption DEF Sound, Longs
  <2> HIDE DEF t
  <2>4. QED
    BY <2>1, <2>2, <2>3
<1>9. QED
  BY <1>2, <1>3, <1>5, <1>6, <1>7, <1>8 DEF Sound

LEMMA WithdrawKeepsSound ==
  ASSUME NEW s, Sound(s), NEW a \in Accounts, NEW n \in Longs,
         WithdrawStatus(s, Entry("Address", a), Entry("Amount", n)) = "Success"
  PROVE  Sound(Combine(s, OpcDiff(NoVars, 0, NoInfo, -n, [NoUnits EXCEPT ![a] = -n])))
<1> DEFINE e == OpcDiff(NoVars, 0, NoInfo, -n, [NoUnits EXCEPT ![a] = -n])
           t == Combine(s, e)
<1>1. e \in Diffs
  BY ConstantsAssumption DEF NoDiff, Diffs, Longs, NoVars, NoInfo, NoUnits, OpcDiff
<1>2. t \in Diffs
  BY <1>1, CombineType DEF Sound
<1>3. t.tokens = s.tokens /\ t.total = s.total - n
  BY DEF Combine, Sound, Diffs, NoDiff, Longs, NoVars, NoInfo, NoUnits, OpcDiff
<1>4. t.balance = [s.balance EXCEPT ![a] = s.balance[a] - n]
  BY DEF Combine, Sound, Diffs, NoDiff, Longs, NoVars, NoInfo, NoUnits, OpcDiff
<1>5. t.info["max"] = s.info["max"]
  BY DEF Combine, Override, Sound, Diffs, NoDiff, TokenKeys, NoVars, NoInfo, NoUnits, OpcDiff
<1>6. s.tokens = 1 /\ s.info["max"] \in Longs /\ n <= s.balance[a]
  BY ConstantsAssumption DEF WithdrawStatus, Entry, Sound, Longs
<1>7. s.balance[a] - n \in Longs /\ s.total - n \in Longs
  <2>1. s.balance[a] <= s.total
    BY SumReplace DEF Sound
  <2>2. QED
    BY <1>6, <2>1, ConstantsAssumption DEF Sound, Longs
<1>8. SumOf(t.balance) = s.total - n /\ t.balance \in [Accounts -> Longs]
  <2>1. SumOf(t.balance) = SumOf(s.balance) - s.balance[a] + (s.balance[a] - n)
    BY <1>4, <1>7, SumReplace DEF Sound
  <2>2. t.balance \in [Accounts -> Longs]
    BY <1>4, <1>7 DEF Sound
  <2>3. SumOf(s.balance) = s.total /\ s.total \in Int /\ s.balance[a] \in Int /\ n \in Int
    BY ConstantsAssumption DEF Sound, Longs
  <2> HIDE DEF t
  <2>4. QED
    BY <2>1, <2>2, <2>3
<1>9. s.total - n <= s.info["max"]
  BY <1>6, ConstantsAssumption DEF Sound, Longs
<1>10. QED
  BY <1>2, <1>3, <1>5, <1>6, <1>7, <1>8, <1>9 DEF Sound

\* Two holdings never exceed the supply together, so what the sender has
\* always fits in what another account may still receive.
LEMMA TransferFits ==
  ASSUME NEW s, Sound(s), NEW a \in Accounts, NEW b \in Accounts, a # b,
         NEW n \in Longs, n <= s.balance[a]
  PROVE  /\ s.balance[b] + n \in Longs
         /\ SumOf([s.balance EXCEPT ![a] = s.balance[a] - n, ![b] = s.balance[b] + n]) = s.total
<1> DEFINE less == [s.balance EXCEPT ![a] = s.balance[a] - n]
<1>1. s.balance[a] - n \in Longs
  BY ConstantsAssumption DEF Sound, Longs
<1>2. less \in [Accounts -> Longs] /\ less[b] = s.balance[b]
  BY <1>1 DEF Sound
<1>3. SumOf(less) = s.total - n
  <2>1. SumOf(less) = SumOf(s.balance) - s.balance[a] + (s.balance[a] - n)
    BY <1>1, SumReplace DEF Sound
  <2>2. QED
    BY <2>1, ConstantsAssumption DEF Sound, Longs
<1>4. s.balance[b] <= s.total - n
  BY <1>2, <1>3, SumReplace
<1>5. s.balance[b] + n \in Longs
  BY <1>4, ConstantsAssumption DEF Sound, Longs
<1>6. SumOf([less EXCEPT ![b] = s.balance[b] + n]) = s.total
  <2> HIDE DEF less
  <2>1. SumOf([less EXCEPT ![b] = s.balance[b] + n]) = SumOf(less) - less[b] + (s.balance[b] + n)
    BY <1>2, <1>5, SumReplace
  <2>2. QED
    BY <2>1, <1>2, <1>3, ConstantsAssumption DEF Sound, Longs
<1>7. [less EXCEPT ![b] = s.balance[b] + n]
         = [s.balance EXCEPT ![a] = s.balance[a] - n, ![b] = s.balance[b] + n]
  OBVIOUS
<1>8. QED
  BY <1>5, <1>6, <1>7

LEMMA TransferKeepsSound ==
  ASSUME NEW s, Sound(s), NEW a \in Accounts, NEW b \in Accounts, NEW n \in Longs,
         TransferStatus(s, Entry("Address", a), Entry("Address", b), Entry("Amount", n)) = "Success"
  PROVE  TransferDiff(a, b, n) \in Diffs /\ Sound(Combine(s, TransferDiff(a, b, n)))
<1>1. CASE a = b
  BY <1>1, CombineNoDiff, NoDiffType DEF TransferDiff, Sound
<1>2. CASE a # b
  <2> DEFINE e == OpcDiff(NoVars, 0, NoInfo, 0, [NoUnits EXCEPT ![a] = -n, ![b] = n])
             t == Combine(s, e)
  <2>1. e \in Diffs
    BY ConstantsAssumption DEF NoDiff, Diffs, Longs, NoVars, NoInfo, NoUnits, OpcDiff
  <2>2. t \in Diffs
    BY <2>1, CombineType DEF Sound
  <2>3. t.tokens = s.tokens /\ t.total = s.total
    BY DEF Combine, Sound, Diffs, NoDiff, Longs, NoVars, NoInfo, NoUnits, OpcDiff
  <2>4. t.balance = [s.balance EXCEPT ![a] = s.balance[a] - n, ![b] = s.balance[b] + n]
    BY <1>2 DEF Combine, Sound, Diffs, NoDiff, Longs, NoVars, NoInfo, NoUnits, OpcDiff
  <2>5. t.info["max"] = s.info["max"]
    BY DEF Combine, Override, Sound, Diffs, NoDiff, TokenKeys, NoVars, NoInfo, NoUnits, OpcDiff
  <2>6. n <= s.balance[a]
    BY ConstantsAssumption DEF TransferStatus, Entry, Sound, Longs
  <2>7. s.balance[b] + n \in Longs /\ s.balance[a] - n \in Longs /\ SumOf(t.balance) = s.total
    BY <1>2, <2>4, <2>6, TransferFits, ConstantsAssumption DEF Sound, Longs
  <2>8. t.balance \in [Accounts -> Longs]
    BY <2>4, <2>7 DEF Sound
  <2>9. QED
    BY <1>2, <2>1, <2>2, <2>3, <2>5, <2>7, <2>8 DEF Sound, TransferDiff
<1>3. QED
  BY <1>1, <1>2

-----------------------------------------------------------------------------
(* What the proofs need of the byte code. *)

LEMMA InitIsAlone ==
  /\ InitFunc \in Funcs
  /\ InitFunc \notin Funcs \ {InitFunc}
  /\ Len(InitFunc.code) = 4
  /\ InitFunc.code[1].opc = "Load"
  /\ InitFunc.code[2] = Op("CDBVSet", <<"issuer", 3>>)
  /\ InitFunc.code[3] = Op("CDBVSet", <<"maker", 3>>)
  /\ InitFunc.code[4].opc = "TDBNewToken"
  BY DEF InitFunc, Func, Op, Funcs

\* Every variable that is read has been declared, and only init makes tokens.
LEMMA Programs ==
  ASSUME NEW f \in Funcs, NEW i \in 1 .. Len(f.code)
  PROVE  /\ f.code[i].opc = "CDBVRGet" => f.code[i].args[1] \in StateVars
         /\ f.code[i].opc = "TDBNewToken" => f = InitFunc
<1>1. CASE f = InitFunc
  BY <1>1 DEF InitFunc, Func, Op
<1>2. CASE f = SupersedeFunc
  BY <1>2 DEF SupersedeFunc, GetIssuer, CallerIsIssuer, Func, Op, StateVars
<1>3. CASE f = IssueFunc
  BY <1>3 DEF IssueFunc, GetIssuer, CallerIsIssuer, Func, Op, StateVars
<1>4. CASE f = DestroyFunc
  BY <1>4 DEF DestroyFunc, GetIssuer, CallerIsIssuer, Func, Op, StateVars
<1>5. CASE f = SplitFunc
  BY <1>5 DEF SplitFunc, GetIssuer, CallerIsIssuer, Func, Op, StateVars
<1>6. CASE f = SendFunc
  BY <1>6 DEF SendFunc, Func, Op
<1>7. CASE f = TransferFunc
  BY <1>7 DEF TransferFunc, Func, Op
<1>8. CASE f = DepositFunc
  BY <1>8 DEF DepositFunc, Func, Op
<1>9. CASE f = WithdrawFunc
  BY <1>9 DEF WithdrawFunc, Func, Op
<1>10. CASE f = TotalSupplyFunc
  BY <1>10 DEF TotalSupplyFunc, Func, Op
<1>11. CASE f = MaxSupplyFunc
  BY <1>11 DEF MaxSupplyFunc, Func, Op
<1>12. CASE f = BalanceOfFunc
  BY <1>12 DEF BalanceOfFunc, Func, Op
<1>13. CASE f = GetIssuerFunc
  BY <1>13 DEF GetIssuerFunc, Func, Op, StateVars
<1>14. CASE f = NoFunc
  BY <1>14 DEF NoFunc, Func
<1> QED BY <1>1, <1>2, <1>3, <1>4, <1>5, <1>6, <1>7, <1>8,
          <1>9, <1>10, <1>11, <1>12, <1>13, <1>14 DEF Funcs

LEMMA DescriptorFuncs ==
  ASSUME NEW k \in Kinds, NEW i \in 1 .. Len(Descriptor(k))
  PROVE  Descriptor(k)[i] \in Funcs /\ Descriptor(k)[i] # InitFunc
<1> DEFINE called == {SupersedeFunc, IssueFunc, DestroyFunc, SplitFunc, SendFunc, TransferFunc,
                      DepositFunc, WithdrawFunc, TotalSupplyFunc, MaxSupplyFunc, BalanceOfFunc,
                      GetIssuerFunc}
<1>1. Descriptor(k)[i] \in called
  BY DEF Descriptor, Kinds
<1>2. called \subseteq Funcs
  BY DEF Funcs
<1>3. InitFunc \notin called
  BY DEF InitFunc, SupersedeFunc, IssueFunc, DestroyFunc, SplitFunc, SendFunc, TransferFunc,
         DepositFunc, WithdrawFunc, TotalSupplyFunc, MaxSupplyFunc, BalanceOfFunc, GetIssuerFunc,
         Func
<1>4. QED
  BY <1>1, <1>2, <1>3

LEMMA CallDataType ==
  ASSUME NEW f \in Funcs, NEW d \in CallData(f)
  PROVE  d \in Seq(Entries)
<1>1. Inputs \subseteq Entries
  BY ConstantsAssumption DEF Inputs, Entries, Entry
<1>2. Len(f.params) \in Nat
  <2>1. CASE f \in {InitFunc, SupersedeFunc, IssueFunc, DestroyFunc, SplitFunc}
    BY <2>1 DEF InitFunc, SupersedeFunc, IssueFunc, DestroyFunc, SplitFunc, Func
  <2>2. CASE f \in {SendFunc, TransferFunc, DepositFunc, WithdrawFunc}
    BY <2>2 DEF SendFunc, TransferFunc, DepositFunc, WithdrawFunc, Func
  <2>3. CASE f \in {TotalSupplyFunc, MaxSupplyFunc, BalanceOfFunc, GetIssuerFunc, NoFunc}
    BY <2>3 DEF TotalSupplyFunc, MaxSupplyFunc, BalanceOfFunc, GetIssuerFunc, NoFunc, Func
  <2>4. QED
    BY <2>1, <2>2, <2>3 DEF Funcs
<1>3. CASE d \in [1 .. Len(f.params) -> Inputs]
  BY <1>1, <1>2, <1>3
<1>4. CASE d = <<>>
  BY <1>4
<1>5. CASE \E n \in Amounts : d = <<Entry("Amount", n)>>
  BY <1>1, <1>5 DEF Inputs
<1>6. QED
  BY <1>3, <1>4, <1>5 DEF CallData

-----------------------------------------------------------------------------
(* The invariant holds initially and at every step. *)

LEMMA BooksInit == Init => BooksInv
<1> SUFFICES ASSUME Init PROVE BooksInv
  OBVIOUS
<1>1. Types
  BY ConstantsAssumption DEF Init, Types, NoVars, NoInfo, NoUnits, Longs
<1>2. ASSUME NEW c \in Contracts PROVE Sound(Under(c, NoDiff))
  <2>1. Under(c, NoDiff) = NoDiff
    BY <1>1, UnderNothing DEF Init, NoDiff
  <2>2. SumOf(NoUnits) = 0 /\ NoUnits \in [Accounts -> Longs] /\ 0 \in Longs
    BY SumAssumption, ConstantsAssumption DEF NoUnits, Longs
  <2>3. QED
    BY <2>1, <2>2, NoDiffType DEF Sound, NoDiff, OpcDiff
<1>3. NothingFromFailure
  BY DEF Init, NothingFromFailure, Kinds
<1>4. QED
  BY <1>1, <1>2, <1>3 DEF BooksInv, ExecSound, Init

\* While a transaction is executed nothing is stored.
LEMMA StoredStays ==
  ASSUME BooksInv, UNCHANGED state, exec' = Idle \/ exec' \in Jobs
  PROVE  /\ Types' /\ NothingFromFailure'
         /\ \A c \in Contracts : Sound(Under(c, NoDiff))'
<1>1. Types'
  BY DEF BooksInv, Types, state
<1>2. NothingFromFailure'
  BY DEF BooksInv, NothingFromFailure, state
<1>3. ASSUME NEW c \in Contracts PROVE Sound(Under(c, NoDiff))'
  BY DEF BooksInv, Under, state, Sound
<1>4. QED
  BY <1>1, <1>2, <1>3

\* A transaction enters the differ with nothing done.
LEMMA EnterKeeps ==
  ASSUME BooksInv, UNCHANGED state, NEW c \in Contracts, NEW signer \in Accounts,
         NEW phase, NEW status \in Statuses, NEW kind \in Kinds \cup {"none"}, NEW f \in Funcs,
         NEW data \in Seq(Entries), Enter(phase, status, c, signer, kind, f, data),
         \/ phase = "run" /\ status = "Success"
         \/ phase = "done" /\ status # "Success",
         f = InitFunc => contracts[c] = "unused" /\ kind \in Kinds,
         f # InitFunc /\ status = "Success" => contracts[c] \in Kinds
  PROVE  BooksInv'
<1>1. exec' \in Jobs
  BY NoDiffType DEF Enter, Jobs
<1>2. exec' # Idle /\ exec'.contract = c /\ exec'.diff = NoDiff /\ exec'.func = f
      /\ exec'.status = status /\ exec'.phase = phase /\ exec'.pc = 1 /\ exec'.kind = kind
  BY <1>1 DEF Enter, Idle
<1>3. Sound(Under(exec.contract, exec.diff))'
  BY <1>1, <1>2, StoredStays
<1>4. NoDiff.tokens = 0
  BY DEF NoDiff, OpcDiff
<1>5. ExecSound'
  BY <1>2, <1>3, <1>4 DEF ExecSound, InitProgress, state
<1>6. QED
  BY <1>1, <1>5, StoredStays DEF BooksInv

\* What an opcode may add: a token at the end of init and nowhere else, and
\* in init the issuer second and the maker third.
Allowed(d) ==
    /\ d \in Diffs
    /\ d.tokens = IF exec.func = InitFunc /\ exec.pc = 4 THEN 1 ELSE 0
    /\ exec.func = InitFunc /\ exec.pc = 2 => d.db["issuer"] \in Accounts
    /\ exec.func = InitFunc /\ exec.pc = 3 => d.db["maker"] \in Accounts

LEMMA FailsKeeps ==
  ASSUME BooksInv, exec # Idle, UNCHANGED state, NEW status \in Statuses, status # "Success",
         Fails(status)
  PROVE  BooksInv'
<1>1. exec \in Jobs
  BY DEF BooksInv, Types
<1>2. /\ exec' \in Jobs /\ exec'.contract = exec.contract /\ exec'.diff = NoDiff
      /\ exec'.func = exec.func /\ exec'.status = status /\ exec'.phase = "done"
      /\ exec'.kind = exec.kind
  BY <1>1, NoDiffType DEF Fails, Jobs
<1>3. exec.contract \in Contracts
  BY <1>1 DEF Jobs
<1>4. Sound(Under(exec.contract, exec.diff))'
  BY <1>2, <1>3, StoredStays
<1>5. NoDiff.tokens = 0
  BY DEF NoDiff, OpcDiff
<1>6. ExecSound'
  BY <1>2, <1>4, <1>5 DEF ExecSound, state, BooksInv
<1>7. QED
  BY <1>2, <1>6, StoredStays DEF BooksInv

LEMMA GoesKeeps ==
  ASSUME BooksInv, exec # Idle, exec.phase = "run", ~Ended, UNCHANGED state,
         NEW d, NEW data \in Seq(Entries), Allowed(d), Sound(Combine(Now, d)), Goes(d, data)
  PROVE  BooksInv'
<1>1. exec \in Jobs /\ d \in Diffs /\ exec.status = "Success"
  BY DEF BooksInv, Types, Allowed, ExecSound
<1>2. exec.contract \in Contracts /\ exec.diff \in Diffs /\ exec.pc \in Nat /\ exec.pc > 0
  BY <1>1 DEF Jobs
<1>3. Combine(exec.diff, d) \in Diffs
  BY <1>1, <1>2, CombineType
<1>4. /\ exec' \in Jobs /\ exec'.contract = exec.contract /\ exec'.func = exec.func
      /\ exec'.diff = Combine(exec.diff, d) /\ exec'.status = "Success" /\ exec'.phase = "run"
      /\ exec'.pc = exec.pc + 1 /\ exec'.kind = exec.kind /\ exec' # Idle
  <2>1. exec.pc + 1 \in Nat \ {0}
    BY <1>2
  <2>2. exec' = [exec EXCEPT !.pc = exec.pc + 1, !.diff = Combine(exec.diff, d), !.data = data]
    BY DEF Goes
  <2>3. exec' \in Jobs
    BY <1>1, <1>3, <2>1, <2>2 DEF Jobs
  <2>4. QED
    BY <1>1, <2>2, <2>3 DEF Jobs, Idle
<1>5. Sound(Under(exec.contract, exec.diff))'
  <2>1. Under(exec.contract, Combine(exec.diff, d)) = Combine(Now, d)
    BY <1>1, <1>2, UnderGrows DEF BooksInv, Now
  <2>2. Under(exec.contract, exec.diff)' = Under(exec.contract, Combine(exec.diff, d))
    BY <1>4 DEF Under, state
  <2>3. QED
    BY <2>1, <2>2 DEF Sound
<1>6. Combine(exec.diff, d).tokens = exec.diff.tokens + d.tokens
  BY DEF Combine, OpcDiff
<1>7. \A v \in StateVars : Combine(exec.diff, d).db[v]
                              = IF d.db[v] = Undefined THEN exec.diff.db[v] ELSE d.db[v]
  BY <1>2 DEF Combine, OpcDiff, Override, Diffs
<1>8. \A v \in StateVars : d.db[v] \in Accounts \cup {Undefined}
                              /\ exec.diff.db[v] \in Accounts \cup {Undefined}
  BY <1>1, <1>2 DEF Diffs
<1>9. ASSUME exec.func = InitFunc PROVE InitProgress'
  <2>1. InitProgress
    BY <1>1, <1>9 DEF BooksInv, ExecSound
  <2>2. exec.pc <= 4
    BY <1>2, <1>9, InitIsAlone DEF Ended
  <2>3. exec.pc > 1 => (exec.diff.db["issuer"] \in Accounts \/ exec.pc = 2)
    BY <1>2, <2>1 DEF InitProgress
  <2>4. exec'.pc > 2 => exec'.diff.db["issuer"] \in Accounts
    BY <1>2, <1>4, <1>7, <1>8, <1>9, <2>3, ConstantsAssumption DEF Allowed, StateVars
  <2>5. exec'.pc > 3 => exec'.diff.db["maker"] \in Accounts
    BY <1>2, <1>4, <1>7, <1>8, <1>9, <2>1, ConstantsAssumption DEF Allowed, StateVars, InitProgress
  <2>6. (exec'.pc <= 4 => exec'.diff.tokens = 0) /\ (exec'.pc > 4 => exec'.diff.tokens = 1)
    BY <1>2, <1>4, <1>6, <1>9, <2>1, <2>2 DEF Allowed, InitProgress
  <2>7. QED
    BY <1>4, <2>1, <2>4, <2>5, <2>6 DEF InitProgress, state
<1>10. exec.func # InitFunc => exec'.diff.tokens = 0
  BY <1>4, <1>6 DEF Allowed, BooksInv, ExecSound
<1>11. ExecSound'
  BY <1>1, <1>4, <1>5, <1>9, <1>10 DEF ExecSound, BooksInv, state
<1>12. QED
  BY <1>4, <1>11, StoredStays DEF BooksInv

LEMMA StepKeeps ==
  ASSUME BooksInv, exec # Idle, exec.phase = "run", ~Ended, NEW status \in Statuses,
         NEW d, NEW data, Step(status, d, data),
         status = "Success" => data \in Seq(Entries) /\ Allowed(d) /\ Sound(Combine(Now, d))
  PROVE  BooksInv'
<1>1. CASE status = "Success"
  BY <1>1, GoesKeeps DEF Step
<1>2. CASE status # "Success"
  BY <1>2, FailsKeeps DEF Step
<1>3. QED
  BY <1>1, <1>2

\* What an opcode finds.
LEMMA OpcodeFacts ==
  ASSUME BooksInv, NEW name, Running(name)
  PROVE  /\ exec # Idle /\ exec.phase = "run" /\ ~Ended
         /\ exec \in Jobs /\ exec.data \in Seq(Entries) /\ exec.signer \in Accounts
         /\ Sound(Now)
         /\ Opc.opc = name
         /\ name = "CDBVRGet" => Arg(1) \in StateVars
         /\ name = "TDBNewToken" => exec.func = InitFunc /\ exec.pc = 4 /\ Now.tokens = 0
         /\ exec.func = InitFunc => \/ exec.pc = 1 /\ name = "Load"
                                    \/ exec.pc = 2 /\ Opc = Op("CDBVSet", <<"issuer", 3>>)
                                    \/ exec.pc = 3 /\ Opc = Op("CDBVSet", <<"maker", 3>>)
                                    \/ exec.pc = 4 /\ name = "TDBNewToken"
<1>1. exec # Idle /\ exec.phase = "run" /\ ~Ended /\ Opc.opc = name
  BY DEF Running
<1>2. exec \in Jobs
  BY <1>1 DEF BooksInv, Types
<1>3. exec.data \in Seq(Entries) /\ exec.signer \in Accounts /\ exec.func \in Funcs
      /\ exec.pc \in Nat \ {0} /\ exec.contract \in Contracts /\ exec.diff \in Diffs
  BY <1>2 DEF Jobs
<1>4. Sound(Now)
  BY <1>1 DEF BooksInv, ExecSound, Now
<1>5. Len(exec.func.code) \in Nat
  <2>1. CASE exec.func \in {InitFunc, SupersedeFunc, IssueFunc, DestroyFunc, SplitFunc}
    BY <2>1 DEF InitFunc, SupersedeFunc, IssueFunc, DestroyFunc, SplitFunc, Func
  <2>2. CASE exec.func \in {SendFunc, TransferFunc, DepositFunc, WithdrawFunc}
    BY <2>2 DEF SendFunc, TransferFunc, DepositFunc, WithdrawFunc, Func
  <2>3. CASE exec.func \in {TotalSupplyFunc, MaxSupplyFunc, BalanceOfFunc, GetIssuerFunc, NoFunc}
    BY <2>3 DEF TotalSupplyFunc, MaxSupplyFunc, BalanceOfFunc, GetIssuerFunc, NoFunc, Func
  <2>4. QED
    BY <1>3, <2>1, <2>2, <2>3 DEF Funcs
<1>6. exec.pc \in 1 .. Len(exec.func.code)
  BY <1>1, <1>3, <1>5 DEF Ended
<1>7. name = "CDBVRGet" => Arg(1) \in StateVars
  BY <1>1, <1>3, <1>6, Programs DEF Arg, Opc
<1>8. exec.func = InitFunc => exec.pc \in {1, 2, 3, 4}
  <2> SUFFICES ASSUME exec.func = InitFunc PROVE exec.pc \in {1, 2, 3, 4}
    OBVIOUS
  <2>1. Len(exec.func.code) = 4
    BY InitIsAlone
  <2>2. exec.pc \in 1 .. 4
    BY <1>6, <2>1
  <2>3. QED
    BY <2>2
<1>9. exec.func = InitFunc => \/ exec.pc = 1 /\ name = "Load"
                              \/ exec.pc = 2 /\ Opc = Op("CDBVSet", <<"issuer", 3>>)
                              \/ exec.pc = 3 /\ Opc = Op("CDBVSet", <<"maker", 3>>)
                              \/ exec.pc = 4 /\ name = "TDBNewToken"
  BY <1>1, <1>8, InitIsAlone DEF Opc
<1>10. ASSUME name = "TDBNewToken"
       PROVE  exec.func = InitFunc /\ exec.pc = 4 /\ Now.tokens = 0
  <2>1. exec.func = InitFunc
    BY <1>1, <1>3, <1>6, <1>10, Programs DEF Opc
  <2>2. exec.pc = 4
    BY <1>1, <1>9, <1>10, <2>1 DEF Op
  <2>3. exec.diff.tokens = 0 /\ contracts[exec.contract] \notin Kinds
    BY <1>1, <2>1, <2>2 DEF BooksInv, ExecSound, InitProgress, Kinds
  <2>4. contractTokens[exec.contract] = 0
    BY <1>3, <2>3 DEF BooksInv, NothingFromFailure
  <2>5. QED
    BY <2>1, <2>2, <2>3, <2>4 DEF Now, Under, Combine, OpcDiff
<1>11. QED
  BY <1>1, <1>2, <1>3, <1>4, <1>7, <1>9, <1>10

\* An entry found on the stack is an entry.
LEMMA DataType ==
  ASSUME exec.data \in Seq(Entries), NEW i, InStack({i})
  PROVE  Data(i) \in Entries
  BY DEF InStack, Data

\* An opcode other than CDBVSet and TDBNewToken may leave the diff alone.
LEMMA NothingAllowed ==
  ASSUME BooksInv, NEW name, Running(name), name \notin {"CDBVSet", "TDBNewToken"},
         NEW d \in Diffs, d.tokens = 0
  PROVE  Allowed(d)
  BY OpcodeFacts DEF Allowed, Op

LEMMA SameSound ==
  ASSUME BooksInv, NEW name, Running(name)
  PROVE  Sound(Combine(Now, NoDiff)) /\ NoDiff \in Diffs /\ NoDiff.tokens = 0
<1>1. Sound(Now) /\ Now \in Diffs
  BY OpcodeFacts DEF Sound
<1>2. Combine(Now, NoDiff) = Now
  BY <1>1, CombineNoDiff
<1>3. QED
  BY <1>1, <1>2, NoDiffType DEF NoDiff, OpcDiff

LEMMA ReadsKeep ==
  ASSUME BooksInv, NEW name, Running(name), name \notin {"CDBVSet", "TDBNewToken"},
         NEW status \in Statuses, NEW p, NEW e, status = "Success" => e \in Entries,
         Reads(p, status, e)
  PROVE  BooksInv'
<1> DEFINE st == IF p \notin 0 .. Len(exec.data) THEN "ContractLocalVariableIndexOutOfRange"
                 ELSE status
<1>1. exec.data \in Seq(Entries)
  BY OpcodeFacts
<1>2. st = "Success" => Patch(p, e) \in Seq(Entries)
  BY <1>1 DEF Patch
<1>3. Allowed(NoDiff) /\ Sound(Combine(Now, NoDiff))
  BY NothingAllowed, SameSound
<1>4. Step(st, NoDiff, Patch(p, e))
  BY Zenon DEF Reads
<1>5. st \in Statuses
  <2>1. st = status \/ st = "ContractLocalVariableIndexOutOfRange"
    BY Zenon
  <2> HIDE DEF st
  <2>2. QED
    BY <2>1 DEF Statuses
<1> HIDE DEF st
<1>6. QED
  BY <1>2, <1>3, <1>4, <1>5, OpcodeFacts, StepKeeps

LEMMA LoadKeeps == BooksInv /\ Load => BooksInv'
<1> SUFFICES ASSUME BooksInv, Load PROVE BooksInv'
  OBVIOUS
<1>1. Running("Load") /\ Reads(Arg(1), "Success", Entry("Address", exec.signer))
  BY DEF Load
<1>2. Entry("Address", exec.signer) \in Entries
  BY <1>1, OpcodeFacts DEF Entry, Entries
<1>3. "Success" \in Statuses
  BY DEF Statuses
<1>4. QED
  BY <1>1, <1>2, <1>3, ReadsKeep

LEMMA CDBVRGetKeeps == BooksInv /\ CDBVRGet => BooksInv'
<1> SUFFICES ASSUME BooksInv, CDBVRGet PROVE BooksInv'
  OBVIOUS
<1> DEFINE v == Now.db[Arg(1)]
           st == IF v = Undefined THEN "ContractStateVariableNotDefined" ELSE "Success"
<1>1. Running("CDBVRGet") /\ Reads(Arg(2), st, Entry("Address", v))
  BY DEF CDBVRGet
<1>2. v \in Accounts \cup {Undefined}
  BY <1>1, OpcodeFacts DEF Sound, Diffs
<1>3. st \in Statuses /\ (st = "Success" => Entry("Address", v) \in Entries)
  BY <1>2 DEF Statuses, Entry, Entries
<1> HIDE DEF st, v
<1>4. QED
  BY <1>1, <1>3, ReadsKeep

LEMMA AssertKeeps ==
  ASSUME BooksInv, NEW name, name \notin {"CDBVSet", "TDBNewToken"}, NEW status \in Statuses,
         Asserts(name, status)
  PROVE  BooksInv'
<1> DEFINE st == IF ~InStack({1}) THEN "ContractInvalidOPCData"
                 ELSE IF Data(1).type # "Address" THEN "ContractDataTypeMismatch"
                 ELSE IF Data(1).value # exec.signer THEN status
                 ELSE "Success"
<1>1. Running(name) /\ Step(st, NoDiff, exec.data)
  BY Zenon DEF Asserts
<1>2. st \in {"ContractInvalidOPCData", "ContractDataTypeMismatch", status, "Success"}
  BY Zenon
<1> HIDE DEF st
<1>3. st \in Statuses
  BY <1>2 DEF Statuses
<1>4. Allowed(NoDiff) /\ Sound(Combine(Now, NoDiff)) /\ exec.data \in Seq(Entries)
  BY <1>1, NothingAllowed, SameSound, OpcodeFacts
<1>5. QED
  BY <1>1, <1>3, <1>4, OpcodeFacts, StepKeeps

LEMMA CDBVSetKeeps == BooksInv /\ CDBVSet => BooksInv'
<1> SUFFICES ASSUME BooksInv, CDBVSet PROVE BooksInv'
  OBVIOUS
<1> DEFINE st == IF ~InStack({2}) THEN "ContractInvalidOPCData"
                 ELSE IF Data(2).type # "Address" THEN "ContractInvalidStateVariable"
                 ELSE "Success"
           d == OpcDiff([NoVars EXCEPT ![Arg(1)] = Data(2).value], 0, NoInfo, 0, NoUnits)
<1>1. Running("CDBVSet") /\ Step(st, d, exec.data)
  BY Zenon DEF CDBVSet
<1>2. st \in Statuses
  BY DEF Statuses
<1>3. ASSUME st = "Success" PROVE Allowed(d) /\ Sound(Combine(Now, d))
  <2>1. Data(2) \in Entries /\ Data(2).type = "Address"
    BY <1>1, <1>3, OpcodeFacts, DataType
  <2>2. Data(2).value \in Accounts
    BY <2>1 DEF Entries
  <2>3. [NoVars EXCEPT ![Arg(1)] = Data(2).value] \in [StateVars -> Accounts \cup {Undefined}]
    BY <2>2 DEF NoVars
  <2>4. d \in Diffs /\ d.tokens = 0
    BY <2>3, ConstantsAssumption DEF Diffs, Longs, NoInfo, NoUnits, OpcDiff
  <2>5. exec.func = InitFunc => exec.pc \in {2, 3}
    BY <1>1, OpcodeFacts
  <2>6. exec.func = InitFunc /\ exec.pc = 2 => Arg(1) = "issuer"
    BY <1>1, OpcodeFacts DEF Arg, Op
  <2>7. exec.func = InitFunc /\ exec.pc = 3 => Arg(1) = "maker"
    BY <1>1, OpcodeFacts DEF Arg, Op
  <2>8. Allowed(d)
    BY <2>2, <2>4, <2>5, <2>6, <2>7 DEF Allowed, OpcDiff, NoVars, StateVars
  <2>9. Sound(Combine(Now, d))
    BY <1>1, <2>2, OpcodeFacts, SetKeepsSound
  <2>10. QED
    BY <2>8, <2>9
<1> HIDE DEF st, d
<1>4. QED
  BY <1>1, <1>2, <1>3, OpcodeFacts, StepKeeps

LEMMA NewTokenKeeps == BooksInv /\ TDBNewToken => BooksInv'
<1> SUFFICES ASSUME BooksInv, TDBNewToken PROVE BooksInv'
  OBVIOUS
<1> DEFINE st == IF ~InStack({1, 2, 3}) THEN "ContractInvalidOPCData"
                 ELSE NewTokenStatus(Data(1), Data(2), Data(3))
           d == OpcDiff(NoVars, 1, [max |-> Data(1).value, unity |-> Data(2).value], 0, NoUnits)
<1>1. Running("TDBNewToken") /\ Step(st, d, exec.data)
  BY Zenon DEF TDBNewToken
<1>2. st \in Statuses
  BY DEF Statuses, NewTokenStatus
<1>3. ASSUME st = "Success" PROVE Allowed(d) /\ Sound(Combine(Now, d))
  <2>1. InStack({1}) /\ InStack({2})
    BY <1>3 DEF InStack
  <2>2. Data(1) \in Entries /\ Data(2) \in Entries
    BY <1>1, <2>1, OpcodeFacts, DataType
  <2>3. Data(1).type = "Amount" /\ Data(2).type = "Amount"
    BY <1>3 DEF NewTokenStatus
  <2>4. Data(1).value \in Longs /\ Data(2).value \in Longs
    BY <2>2, <2>3 DEF Entries
  <2>5. d \in Diffs /\ d.tokens = 1
    BY <2>4, ConstantsAssumption DEF Diffs, Longs, NoVars, NoUnits, OpcDiff, TokenKeys
  <2>6. exec.func = InitFunc /\ exec.pc = 4 /\ Now.tokens = 0 /\ Sound(Now)
    BY <1>1, OpcodeFacts
  <2>7. Allowed(d)
    BY <2>5, <2>6 DEF Allowed
  <2>8. Sound(Combine(Now, d))
    BY <2>4, <2>6, NewTokenKeepsSound
  <2>9. QED
    BY <2>7, <2>8
<1> HIDE DEF st, d
<1>4. QED
  BY <1>1, <1>2, <1>3, OpcodeFacts, StepKeeps

LEMMA SplitKeeps == BooksInv /\ TDBSplit => BooksInv'
<1> SUFFICES ASSUME BooksInv, TDBSplit PROVE BooksInv'
  OBVIOUS
<1> DEFINE st == IF ~InStack({1}) THEN "ContractInvalidOPCData"
                 ELSE IF Data(1).type # "Amount" THEN "ContractDataTypeMismatch"
                 ELSE IF Now.tokens = 0 THEN "ContractInvalidTokenIndex"
                 ELSE IF Data(1).value <= 0 THEN "ContractInvalidTokenInfo"
                 ELSE "Success"
           d == OpcDiff(NoVars, 0, [NoInfo EXCEPT !["unity"] = Data(1).value], 0, NoUnits)
<1>1. Running("TDBSplit") /\ Step(st, d, exec.data)
  BY Zenon DEF TDBSplit
<1>2. st \in Statuses
  BY DEF Statuses
<1>3. ASSUME st = "Success" PROVE Allowed(d) /\ Sound(Combine(Now, d))
  <2>1. Data(1) \in Entries /\ Data(1).type = "Amount"
    BY <1>1, <1>3, OpcodeFacts, DataType
  <2>2. Data(1).value \in Longs
    BY <2>1 DEF Entries
  <2>3. [NoInfo EXCEPT !["unity"] = Data(1).value] \in [TokenKeys -> Longs \cup {Undefined}]
    BY <2>2 DEF NoInfo
  <2>4. d \in Diffs /\ d.tokens = 0
    BY <2>3, ConstantsAssumption DEF Diffs, Longs, NoVars, NoUnits, OpcDiff
  <2>5. Allowed(d)
    BY <1>1, <2>4, NothingAllowed
  <2>6. Sound(Combine(Now, d))
    BY <1>1, <2>2, OpcodeFacts, SplitKeepsSound
  <2>7. QED
    BY <2>5, <2>6
<1> HIDE DEF st, d
<1>4. QED
  BY <1>1, <1>2, <1>3, OpcodeFacts, StepKeeps

LEMMA DepositKeeps == BooksInv /\ TDBADeposit => BooksInv'
<1> SUFFICES ASSUME BooksInv, TDBADeposit PROVE BooksInv'
  OBVIOUS
<1> DEFINE st == IF ~InStack({1, 2}) THEN "ContractInvalidOPCData"
                 ELSE DepositStatus(Now, Data(1), Data(2))
           d == OpcDiff(NoVars, 0, NoInfo, Data(2).value,
                        [NoUnits EXCEPT ![Data(1).value] = Data(2).value])
<1>1. Running("TDBADeposit") /\ Step(st, d, exec.data)
  BY Zenon DEF TDBADeposit
<1>2. st \in Statuses
  BY DEF Statuses, DepositStatus
<1>3. ASSUME st = "Success" PROVE Allowed(d) /\ Sound(Combine(Now, d))
  <2>1. InStack({1}) /\ InStack({2}) /\ DepositStatus(Now, Data(1), Data(2)) = "Success"
    BY <1>3 DEF InStack
  <2>2. Data(1) \in Entries /\ Data(2) \in Entries
    BY <1>1, <2>1, OpcodeFacts, DataType
  <2>3. Data(1).type = "Address" /\ Data(2).type = "Amount"
    BY <2>1 DEF DepositStatus
  <2>4. Data(1).value \in Accounts /\ Data(2).value \in Longs
    BY <2>2, <2>3 DEF Entries
  <2>5. Data(1) = Entry("Address", Data(1).value) /\ Data(2) = Entry("Amount", Data(2).value)
    BY <2>2, <2>3 DEF Entries, Entry
  <2>6. [NoUnits EXCEPT ![Data(1).value] = Data(2).value] \in [Accounts -> Int]
    BY <2>4, ConstantsAssumption DEF NoUnits, Longs
  <2>7. d \in Diffs /\ d.tokens = 0
    BY <2>4, <2>6, ConstantsAssumption DEF Diffs, Longs, NoVars, NoInfo, OpcDiff
  <2>8. Allowed(d)
    BY <1>1, <2>7, NothingAllowed
  <2>9. Sound(Now)
    BY <1>1, OpcodeFacts
  <2>10. DepositStatus(Now, Entry("Address", Data(1).value), Entry("Amount", Data(2).value)) = "Success"
    BY <2>1, <2>5
  <2>11. Sound(Combine(Now, d))
    BY <2>4, <2>9, <2>10, DepositKeepsSound
  <2>12. QED
    BY <2>8, <2>11
<1> HIDE DEF st, d
<1>4. QED
  BY <1>1, <1>2, <1>3, OpcodeFacts, StepKeeps

LEMMA WithdrawKeeps == BooksInv /\ TDBAWithdraw => BooksInv'
<1> SUFFICES ASSUME BooksInv, TDBAWithdraw PROVE BooksInv'
  OBVIOUS
<1> DEFINE st == IF ~InStack({1, 2}) THEN "ContractInvalidOPCData"
                 ELSE WithdrawStatus(Now, Data(1), Data(2))
           d == OpcDiff(NoVars, 0, NoInfo, -Data(2).value,
                        [NoUnits EXCEPT ![Data(1).value] = -Data(2).value])
<1>1. Running("TDBAWithdraw") /\ Step(st, d, exec.data)
  BY Zenon DEF TDBAWithdraw
<1>2. st \in Statuses
  BY DEF Statuses, WithdrawStatus
<1>3. ASSUME st = "Success" PROVE Allowed(d) /\ Sound(Combine(Now, d))
  <2>1. InStack({1}) /\ InStack({2}) /\ WithdrawStatus(Now, Data(1), Data(2)) = "Success"
    BY <1>3 DEF InStack
  <2>2. Data(1) \in Entries /\ Data(2) \in Entries
    BY <1>1, <2>1, OpcodeFacts, DataType
  <2>3. Data(1).type = "Address" /\ Data(2).type = "Amount"
    BY <2>1 DEF WithdrawStatus
  <2>4. Data(1).value \in Accounts /\ Data(2).value \in Longs
    BY <2>2, <2>3 DEF Entries
  <2>5. Data(1) = Entry("Address", Data(1).value) /\ Data(2) = Entry("Amount", Data(2).value)
    BY <2>2, <2>3 DEF Entries, Entry
  <2>6. [NoUnits EXCEPT ![Data(1).value] = -Data(2).value] \in [Accounts -> Int]
    BY <2>4, ConstantsAssumption DEF NoUnits, Longs
  <2>7. d \in Diffs /\ d.tokens = 0
    BY <2>4, <2>6, ConstantsAssumption DEF Diffs, Longs, NoVars, NoInfo, OpcDiff
  <2>8. Allowed(d)
    BY <1>1, <2>7, NothingAllowed
  <2>9. Sound(Now)
    BY <1>1, OpcodeFacts
  <2>10. WithdrawStatus(Now, Entry("Address", Data(1).value), Entry("Amount", Data(2).value)) = "Success"
    BY <2>1, <2>5
  <2>11. Sound(Combine(Now, d))
    BY <2>4, <2>9, <2>10, WithdrawKeepsSound
  <2>12. QED
    BY <2>8, <2>11
<1> HIDE DEF st, d
<1>4. QED
  BY <1>1, <1>2, <1>3, OpcodeFacts, StepKeeps

LEMMA TransferKeeps == BooksInv /\ TDBATransfer => BooksInv'
<1> SUFFICES ASSUME BooksInv, TDBATransfer PROVE BooksInv'
  OBVIOUS
<1> DEFINE st == IF ~InStack({1, 2, 3}) THEN "ContractInvalidOPCData"
                 ELSE TransferStatus(Now, Data(1), Data(2), Data(3))
           d == TransferDiff(Data(1).value, Data(2).value, Data(3).value)
<1>1. Running("TDBATransfer") /\ Step(st, d, exec.data)
  BY Zenon DEF TDBATransfer
<1>2. st \in Statuses
  BY DEF Statuses, TransferStatus
<1>3. ASSUME st = "Success" PROVE Allowed(d) /\ Sound(Combine(Now, d))
  <2>1. InStack({1}) /\ InStack({2}) /\ InStack({3})
        /\ TransferStatus(Now, Data(1), Data(2), Data(3)) = "Success"
    BY <1>3 DEF InStack
  <2>2. Data(1) \in Entries /\ Data(2) \in Entries /\ Data(3) \in Entries
    BY <1>1, <2>1, OpcodeFacts, DataType
  <2>3. Data(1).type = "Address" /\ Data(2).type = "Address" /\ Data(3).type = "Amount"
    BY <2>1 DEF TransferStatus
  <2>4. Data(1).value \in Accounts /\ Data(2).value \in Accounts /\ Data(3).value \in Longs
    BY <2>2, <2>3 DEF Entries
  <2>5. Data(1) = Entry("Address", Data(1).value) /\ Data(2) = Entry("Address", Data(2).value)
        /\ Data(3) = Entry("Amount", Data(3).value)
    BY <2>2, <2>3 DEF Entries, Entry
  <2>6. Sound(Now)
    BY <1>1, OpcodeFacts
  <2>7. TransferStatus(Now, Entry("Address", Data(1).value), Entry("Address", Data(2).value),
                       Entry("Amount", Data(3).value)) = "Success"
    BY <2>1, <2>5
  <2>8. d \in Diffs /\ Sound(Combine(Now, d))
    BY <2>4, <2>6, <2>7, TransferKeepsSound
  <2>9. d.tokens = 0
    BY DEF TransferDiff, NoDiff, OpcDiff
  <2>10. Allowed(d)
    BY <1>1, <2>8, <2>9, NothingAllowed
  <2>11. QED
    BY <2>8, <2>10
<1> HIDE DEF st, d
<1>4. QED
  BY <1>1, <1>2, <1>3, OpcodeFacts, StepKeeps

LEMMA TotalKeeps == BooksInv /\ TDBRTotal => BooksInv'
<1> SUFFICES ASSUME BooksInv, TDBRTotal PROVE BooksInv'
  OBVIOUS
<1> DEFINE st == IF Now.tokens = 0 THEN "ContractInvalidTokenIndex" ELSE "Success"
<1>1. Running("TDBRTotal") /\ Reads(Arg(1), st, Entry("Amount", Now.total))
  BY DEF TDBRTotal
<1>2. Entry("Amount", Now.total) \in Entries
  BY <1>1, OpcodeFacts DEF Sound, Entry, Entries
<1>3. st \in Statuses
  BY DEF Statuses
<1> HIDE DEF st
<1>4. QED
  BY <1>1, <1>2, <1>3, ReadsKeep

LEMMA MaxKeeps == BooksInv /\ TDBRMax => BooksInv'
<1> SUFFICES ASSUME BooksInv, TDBRMax PROVE BooksInv'
  OBVIOUS
<1> DEFINE st == IF Now.tokens = 0 THEN "ContractInvalidTokenIndex"
                 ELSE IF Now.info["max"] = Undefined THEN "ContractInvalidTokenInfo"
                 ELSE "Success"
<1>1. Running("TDBRMax") /\ Reads(Arg(1), st, Entry("Amount", Now.info["max"]))
  BY Zenon DEF TDBRMax
<1>2. st = "Success" => Entry("Amount", Now.info["max"]) \in Entries
  BY <1>1, OpcodeFacts DEF Sound, Diffs, TokenKeys, Entry, Entries
<1>3. st \in Statuses
  BY DEF Statuses
<1> HIDE DEF st
<1>4. QED
  BY <1>1, <1>2, <1>3, ReadsKeep

LEMMA BalanceKeeps == BooksInv /\ TDBARBalance => BooksInv'
<1> SUFFICES ASSUME BooksInv, TDBARBalance PROVE BooksInv'
  OBVIOUS
<1> DEFINE st == IF Now.tokens = 0 THEN "ContractInvalidTokenIndex" ELSE "Success"
<1>1. Running("TDBARBalance")
  BY DEF TDBARBalance
<1>2. \/ \E status \in {"ContractInvalidOPCData", "ContractDataTypeMismatch"} :
            Fails(status) /\ UNCHANGED state
      \/ /\ InStack({1}) /\ Data(1).type = "Address"
         /\ Reads(Arg(2), st, Entry("Amount", Now.balance[Data(1).value]))
  BY DEF TDBARBalance
<1>3. st \in Statuses
  BY DEF Statuses
<1> HIDE DEF st
<1>4. ASSUME NEW status \in {"ContractInvalidOPCData", "ContractDataTypeMismatch"},
             Fails(status), UNCHANGED state
      PROVE  BooksInv'
  <2>1. status \in Statuses /\ status # "Success"
    BY DEF Statuses
  <2>2. QED
    BY <1>1, <1>4, <2>1, OpcodeFacts, FailsKeeps
<1>5. ASSUME InStack({1}), Data(1).type = "Address",
             Reads(Arg(2), st, Entry("Amount", Now.balance[Data(1).value]))
      PROVE  BooksInv'
  <2>1. Data(1).value \in Accounts
    BY <1>1, <1>5, OpcodeFacts, DataType DEF Entries
  <2>2. Entry("Amount", Now.balance[Data(1).value]) \in Entries
    BY <1>1, <2>1, OpcodeFacts DEF Sound, Entry, Entries
  <2>3. QED
    BY <1>1, <1>3, <1>5, <2>2, ReadsKeep
<1>6. QED
  BY <1>2, <1>4, <1>5

LEMMA ReturnKeeps == BooksInv /\ Return => BooksInv'
<1> SUFFICES ASSUME BooksInv, Return PROVE BooksInv'
  OBVIOUS
<1>1. Running("Return") /\ Step("ContractUnsupportedOPC", NoDiff, exec.data)
  BY DEF Return
<1>2. "ContractUnsupportedOPC" \in Statuses
  BY DEF Statuses
<1>3. QED
  BY <1>1, <1>2, OpcodeFacts, StepKeeps

LEMMA OpcodeKeeps == BooksInv /\ Opcode => BooksInv'
<1> SUFFICES ASSUME BooksInv, Opcode PROVE BooksInv'
  OBVIOUS
<1>1. CASE AssertIsCallerOrigin
  BY <1>1, AssertKeeps DEF AssertIsCallerOrigin, Statuses
<1>2. CASE AssertIsSignerOrigin
  BY <1>2, AssertKeeps DEF AssertIsSignerOrigin, Statuses
<1>3. QED
  BY <1>1, <1>2, LoadKeeps, CDBVRGetKeeps, CDBVSetKeeps, NewTokenKeeps, SplitKeeps, DepositKeeps,
     WithdrawKeeps, TransferKeeps, TotalKeeps, MaxKeeps, BalanceKeeps, ReturnKeeps DEF Opcode
-----------------------------------------------------------------------------
(* The transaction as a whole. *)

LEMMA RegisterKeeps == BooksInv /\ Register => BooksInv'
<1> SUFFICES ASSUME BooksInv, Register PROVE BooksInv'
  OBVIOUS
<1>1. PICK c \in Contracts, signer \in Accounts, kind \in Kinds, data \in CallData(InitFunc) :
         contracts[c] = "unused" /\ Open(c, signer, kind, InitFunc, data)
  BY DEF Register
<1>2. data \in Seq(Entries) /\ InitFunc \in Funcs
  BY InitIsAlone, CallDataType
<1>3. UNCHANGED state
  BY DEF Register
<1>4. \/ Enter("run", "Success", c, signer, kind, InitFunc, data)
      \/ Enter("done", "ContractDataTypeMismatch", c, signer, kind, InitFunc, data)
  BY <1>1 DEF Open
<1>5. "Success" \in Statuses /\ "ContractDataTypeMismatch" \in Statuses
      /\ kind \in Kinds \cup {"none"}
  BY DEF Statuses
<1>6. CASE Enter("run", "Success", c, signer, kind, InitFunc, data)
  BY <1>1, <1>2, <1>3, <1>5, <1>6, EnterKeeps
<1>7. CASE Enter("done", "ContractDataTypeMismatch", c, signer, kind, InitFunc, data)
  BY <1>1, <1>2, <1>3, <1>5, <1>7, EnterKeeps
<1>8. QED
  BY <1>4, <1>6, <1>7

LEMMA CallKeeps == BooksInv /\ Call => BooksInv'
<1> SUFFICES ASSUME BooksInv, Call PROVE BooksInv'
  OBVIOUS
<1>1. PICK c \in Contracts, signer \in Accounts :
         \/ /\ contracts[c] \in Kinds
            /\ \E i \in 1 .. Len(Descriptor(contracts[c])) :
                  \E data \in CallData(Descriptor(contracts[c])[i]) :
                     Open(c, signer, contracts[c], Descriptor(contracts[c])[i], data)
         \/ /\ contracts[c] \in Kinds
            /\ Enter("done", "InvalidFunctionIndex", c, signer, contracts[c], NoFunc, <<>>)
         \/ /\ contracts[c] \notin Kinds
            /\ Enter("done", "InvalidContractAddress", c, signer, "none", NoFunc, <<>>)
  BY Zenon DEF Call
<1>2. UNCHANGED state
  BY DEF Call
<1>3. {"Success", "ContractDataTypeMismatch", "InvalidFunctionIndex", "InvalidContractAddress"}
         \subseteq Statuses
  BY DEF Statuses
<1>4. NoFunc \in Funcs /\ NoFunc # InitFunc /\ <<>> \in Seq(Entries)
  BY DEF Funcs, NoFunc, InitFunc, Func
<1>5. ASSUME contracts[c] \in Kinds,
             NEW i \in 1 .. Len(Descriptor(contracts[c])),
             NEW data \in CallData(Descriptor(contracts[c])[i]),
             Open(c, signer, contracts[c], Descriptor(contracts[c])[i], data)
      PROVE  BooksInv'
  <2> DEFINE k == contracts[c]
             f == Descriptor(k)[i]
  <2>1. f \in Funcs /\ f # InitFunc
    BY <1>5, DescriptorFuncs
  <2>2. data \in Seq(Entries)
    BY <1>5, <2>1, CallDataType
  <2>3. \/ Enter("run", "Success", c, signer, k, f, data)
        \/ Enter("done", "ContractDataTypeMismatch", c, signer, k, f, data)
    BY <1>5 DEF Open
  <2>4. k \in Kinds /\ k \in Kinds \cup {"none"}
    BY <1>5
  <2> HIDE DEF f
  <2>5. CASE Enter("run", "Success", c, signer, k, f, data)
    BY <1>2, <1>3, <2>1, <2>2, <2>4, <2>5, EnterKeeps
  <2>6. CASE Enter("done", "ContractDataTypeMismatch", c, signer, k, f, data)
    BY <1>2, <1>3, <2>1, <2>2, <2>4, <2>6, EnterKeeps
  <2>7. QED
    BY <2>3, <2>5, <2>6
<1>6. CASE contracts[c] \in Kinds
           /\ Enter("done", "InvalidFunctionIndex", c, signer, contracts[c], NoFunc, <<>>)
  <2>1. contracts[c] \in Kinds \cup {"none"}
    BY <1>6
  <2>2. QED
    BY <1>2, <1>3, <1>4, <1>6, <2>1, EnterKeeps
<1>7. CASE Enter("done", "InvalidContractAddress", c, signer, "none", NoFunc, <<>>)
  BY <1>2, <1>3, <1>4, <1>7, EnterKeeps
<1>8. QED
  BY <1>1, <1>5, <1>6, <1>7

LEMMA FinishKeeps == BooksInv /\ Finish => BooksInv'
<1> SUFFICES ASSUME BooksInv, Finish PROVE BooksInv'
  OBVIOUS
<1>1. exec # Idle /\ exec.phase = "run" /\ Ended /\ UNCHANGED state
      /\ exec' = [exec EXCEPT !.phase = "done"]
  BY DEF Finish
<1>2. exec \in Jobs
  BY <1>1 DEF BooksInv, Types
<1>3. /\ exec' \in Jobs /\ exec'.contract = exec.contract /\ exec'.diff = exec.diff
      /\ exec'.func = exec.func /\ exec'.status = exec.status /\ exec'.phase = "done"
      /\ exec'.kind = exec.kind /\ exec'.pc = exec.pc /\ exec' # Idle
  BY <1>1, <1>2 DEF Jobs, Idle
<1>4. Sound(Under(exec.contract, exec.diff))'
  BY <1>1, <1>3 DEF BooksInv, ExecSound, Under, state, Sound
<1>5. InitProgress => InitProgress'
  BY <1>1, <1>3 DEF InitProgress, state
<1>6. ExecSound'
  BY <1>1, <1>3, <1>4, <1>5 DEF BooksInv, ExecSound, Ended, state
<1>7. QED
  BY <1>1, <1>3, <1>6, StoredStays DEF BooksInv

\* A diff that enters the state brings it where the execution already was.
LEMMA SettleKeeps == BooksInv /\ Settle => BooksInv'
<1> SUFFICES ASSUME BooksInv, Settle PROVE BooksInv'
  OBVIOUS
<1>1. exec # Idle /\ exec.phase = "done" /\ exec \in Jobs
  BY DEF Settle, BooksInv, Types
<1>0. PICK c \in Contracts : c = exec.contract
  BY <1>1 DEF Jobs
<1> DEFINE s == Under(c, exec.diff)
<1>2. c \in Contracts /\ exec.diff \in Diffs /\ exec.kind \in Kinds \cup {"none"}
      /\ exec.func \in Funcs /\ exec.pc \in Nat
  BY <1>1 DEF Jobs
<1>3. Sound(s) /\ s \in Diffs /\ s.tokens \in {0, 1}
  BY <1>0, <1>1 DEF BooksInv, ExecSound, Sound
<1>4. /\ contracts' = IF exec.func # InitFunc THEN contracts
                      ELSE [contracts EXCEPT ![c] = IF exec.status = "Success" THEN exec.kind
                                                    ELSE "failed"]
      /\ contractDB' = [contractDB EXCEPT ![c] = s.db]
      /\ contractTokens' = [contractTokens EXCEPT ![c] = s.tokens]
      /\ tokenDB' = [tokenDB EXCEPT ![c] = s.info]
      /\ total' = [total EXCEPT ![c] = s.total]
      /\ balance' = [balance EXCEPT ![c] = s.balance]
      /\ exec' = Idle
  BY <1>0 DEF Settle
<1>5. s.db \in [StateVars -> Accounts \cup {Undefined}] /\ s.total \in Longs
      /\ s.info \in [TokenKeys -> Longs \cup {Undefined}] /\ s.balance \in [Accounts -> Longs]
  BY <1>3 DEF Sound, Diffs
<1>6. exec.func = InitFunc /\ exec.status = "Success" => exec.kind \in Kinds
  BY <1>1 DEF BooksInv, ExecSound
<1> HIDE DEF s
<1>7. Types'
  <2>1. contracts' \in [Contracts -> {"unused", "failed"} \cup Kinds]
    BY <1>2, <1>4, <1>6 DEF BooksInv, Types
  <2>2. QED
    BY <1>2, <1>3, <1>4, <1>5, <2>1 DEF BooksInv, Types
<1>8. ASSUME NEW b \in Contracts PROVE Sound(Under(b, NoDiff))'
  <2>1. CASE b # c
    <3>1. Under(b, NoDiff)' = Under(b, NoDiff)
      BY <1>2, <1>4, <2>1 DEF Under, BooksInv, Types
    <3>2. QED
      BY <3>1 DEF BooksInv, Sound
  <2>2. CASE b = c
    <3>1. contractDB'[c] = s.db /\ contractTokens'[c] = s.tokens /\ tokenDB'[c] = s.info
          /\ total'[c] = s.total /\ balance'[c] = s.balance
      BY <1>2, <1>4 DEF BooksInv, Types
    <3>2. s = OpcDiff(s.db, s.tokens, s.info, s.total, s.balance)
      BY DEF s, Under, Combine, OpcDiff
    <3>3. Under(c, NoDiff)' = Combine(s, NoDiff)
      BY <3>1, <3>2 DEF Under
    <3>4. Combine(s, NoDiff) = s
      BY <1>3, CombineNoDiff
    <3>5. QED
      BY <1>3, <2>2, <3>3, <3>4 DEF Sound
  <2>3. QED
    BY <2>1, <2>2
<1>9. /\ s.tokens = contractTokens[c] + exec.diff.tokens
      /\ \A v \in StateVars : s.db[v] = IF exec.diff.db[v] = Undefined THEN contractDB[c][v]
                                         ELSE exec.diff.db[v]
  <2>1. DOMAIN contractDB[c] = StateVars
    BY <1>2 DEF BooksInv, Types
  <2>2. QED
    BY <2>1 DEF s, Under, Combine, Override, OpcDiff
<1>10. exec.diff = NoDiff => s.tokens = contractTokens[c] /\ s.db = contractDB[c] /\ s.info = tokenDB[c]
  BY <1>2, UnderNothing DEF s, BooksInv, OpcDiff
<1>11. Own(c)'
  <2>1. CASE exec.status # "Success"
    <3>1. exec.diff = NoDiff
      BY <1>1, <2>1 DEF BooksInv, ExecSound
    <3>2. contractTokens'[c] = contractTokens[c] /\ contractDB'[c] = contractDB[c]
          /\ tokenDB'[c] = tokenDB[c]
      BY <1>2, <1>4, <1>10, <3>1 DEF BooksInv, Types
    <3>3. \/ contracts'[c] = contracts[c]
          \/ contracts[c] = "unused" /\ contracts'[c] = "failed"
      BY <1>0, <1>1, <1>2, <1>4, <2>1 DEF BooksInv, ExecSound, Types
    <3>4. QED
      BY <1>2, <3>2, <3>3 DEF BooksInv, NothingFromFailure, Own, Kinds
  <2>2. CASE exec.status = "Success" /\ exec.func = InitFunc
    <3>1. InitProgress /\ exec.pc > 4
      BY <1>1, <2>2, InitIsAlone DEF BooksInv, ExecSound
    <3>2. contractTokens[c] = 0
      BY <1>0, <1>2, <3>1 DEF BooksInv, NothingFromFailure, InitProgress, Kinds
    <3>3. exec.diff.tokens = 1 /\ exec.diff.db["issuer"] \in Accounts
          /\ exec.diff.db["maker"] \in Accounts
      BY <1>2, <3>1 DEF InitProgress
    <3>4. s.tokens = 1 /\ \A v \in StateVars : s.db[v] \in Accounts
      BY <1>9, <3>2, <3>3, ConstantsAssumption DEF StateVars
    <3>5. contracts'[c] \in Kinds /\ contractTokens'[c] = s.tokens /\ contractDB'[c] = s.db
      BY <1>2, <1>4, <1>6, <2>2 DEF BooksInv, Types
    <3>6. QED
      BY <3>4, <3>5 DEF Own
  <2>3. CASE exec.status = "Success" /\ exec.func # InitFunc
    <3>1. exec.diff.tokens = 0 /\ contracts[c] \in Kinds
      BY <1>0, <1>1, <2>3 DEF BooksInv, ExecSound
    <3>2. contractTokens[c] = 1 /\ \A v \in StateVars : contractDB[c][v] \in Accounts
      BY <1>2, <3>1 DEF BooksInv, NothingFromFailure
    <3>3. \A v \in StateVars : exec.diff.db[v] \in Accounts \cup {Undefined}
      BY <1>2 DEF Diffs
    <3>4. s.tokens = 1 /\ \A v \in StateVars : s.db[v] \in Accounts
      BY <1>9, <3>1, <3>2, <3>3
    <3>5. contracts'[c] \in Kinds /\ contractTokens'[c] = s.tokens /\ contractDB'[c] = s.db
      BY <1>2, <1>4, <2>3, <3>1 DEF BooksInv, Types
    <3>6. QED
      BY <3>4, <3>5 DEF Own
  <2>4. QED
    BY <2>1, <2>2, <2>3
<1>12. ASSUME NEW b \in Contracts PROVE Own(b)'
  <2>1. CASE b = c
    BY <1>11, <2>1
  <2>2. CASE b # c
    <3>1. contracts'[b] = contracts[b] /\ contractTokens'[b] = contractTokens[b]
          /\ contractDB'[b] = contractDB[b] /\ tokenDB'[b] = tokenDB[b]
      BY <1>2, <1>4, <2>2 DEF BooksInv, Types
    <3>2. QED
      BY <3>1 DEF BooksInv, NothingFromFailure, Own
  <2>3. QED
    BY <2>1, <2>2
<1>13. NothingFromFailure'
  BY <1>12 DEF NothingFromFailure, Own
<1>14. ExecSound'
  BY <1>4 DEF ExecSound
<1>15. QED
  BY <1>7, <1>8, <1>13, <1>14 DEF BooksInv

LEMMA RejectKeeps == BooksInv /\ Reject => BooksInv'
<1> SUFFICES ASSUME BooksInv, Reject PROVE BooksInv'
  OBVIOUS
<1>1. exec' = Idle /\ UNCHANGED state
  BY DEF Reject
<1>2. ExecSound'
  BY <1>1 DEF ExecSound
<1>3. QED
  BY <1>1, <1>2, StoredStays DEF BooksInv

LEMMA BooksNext == BooksInv /\ [Next]_vars => BooksInv'
<1> SUFFICES ASSUME BooksInv, [Next]_vars PROVE BooksInv'
  OBVIOUS
<1>1. CASE UNCHANGED vars
  BY <1>1 DEF vars, BooksInv, Types, NothingFromFailure, ExecSound, InitProgress, Sound, Under
<1>2. CASE Next
  BY <1>2, RegisterKeeps, CallKeeps, OpcodeKeeps, FinishKeeps, SettleKeeps, RejectKeeps DEF Next
<1>3. QED
  BY <1>1, <1>2

\* The books are sound in every reachable state, at every opcode.
THEOREM BooksAlways == Spec => []BooksInv
  BY BooksInit, BooksNext, PTL DEF Spec

-----------------------------------------------------------------------------
\* The stored books of a contract are those of the state under no diff.
LEMMA BooksFacts ==
  ASSUME BooksInv, NEW c \in Contracts
  PROVE  Sound(OpcDiff(contractDB[c], contractTokens[c], tokenDB[c], total[c], balance[c]))
  BY UnderNothing DEF BooksInv

\* For any number of accounts, contracts and amounts, and any limit, what is
\* counted in the supply of a token is exactly what its accounts hold.
THEOREM SupplyBackedAlways == Spec => []SupplyBacked
<1>1. BooksInv => SupplyBacked
  BY BooksFacts DEF Sound, OpcDiff, SupplyBacked
<1>2. QED
  BY <1>1, BooksAlways, PTL

\* No supply passes its limit, no holding is negative and no sum leaves the
\* 64-bit range, whatever that range is.
THEOREM WithinMaxAlways == Spec => []WithinMax
<1>1. ASSUME BooksInv, NEW c \in Contracts
      PROVE  /\ total[c] \in Longs /\ \A a \in Accounts : balance[c][a] \in Longs
             /\ contracts[c] \in Kinds => tokenDB[c]["max"] \in Longs /\ total[c] <= tokenDB[c]["max"]
  <2>1. total[c] \in Longs /\ \A a \in Accounts : balance[c][a] \in Longs
    BY <1>1, BooksFacts DEF Sound, OpcDiff
  <2>2. \/ contractTokens[c] = 0
        \/ contractTokens[c] = 1 /\ tokenDB[c]["max"] \in Longs /\ total[c] <= tokenDB[c]["max"]
    BY <1>1, BooksFacts DEF Sound, OpcDiff
  <2>3. contracts[c] \in Kinds => contractTokens[c] = 1
    BY <1>1 DEF BooksInv, NothingFromFailure
  <2>4. QED
    BY <2>1, <2>2, <2>3
<1>2. BooksInv => WithinMax
  BY <1>1 DEF WithinMax
<1>3. QED
  BY <1>2, BooksAlways, PTL

\* A registration leaves the contract complete or leaves nothing of it.
THEOREM NothingFromFailureAlways == Spec => []NothingFromFailure
<1>1. BooksInv => NothingFromFailure
  BY DEF BooksInv
<1>2. QED
  BY <1>1, BooksAlways, PTL

-----------------------------------------------------------------------------
(* The byte code, place by place: what is on the stack, what has been       *)
(* asserted, and what the diff has become.                                  *)

\* How an opcode of well-formed code may fail.
Refusals ==
    {"ContractDataTypeMismatch", "ContractInvalidAmount", "ContractInvalidCaller",
     "ContractInvalidSigner", "ContractInvalidStateVariable", "ContractInvalidTokenInfo",
     "ContractTokenBalanceInsufficient", "ContractTokenMaxExceeded",
     "ContractUnsupportedDeposit", "ContractUnsupportedWithdraw", "Failed",
     "InvalidContractAddress", "InvalidFunctionIndex"}

Queries == {"totalSupply", "maxSupply", "balanceOf", "getIssuer"}

\* The parameters stay at the bottom of the stack, and n entries are on it.
Stacked(n) ==
    /\ Len(exec.data) = n /\ Len(exec.func.params) <= n
    /\ \A i \in 1 .. Len(exec.func.params) :
          \/ exec.data[i].type = exec.func.params[i]
          \/ /\ exec.func.params[i] = "Account"
             /\ exec.data[i].type \in {"Address", "ContractAccount"}

Variable(v) == contractDB[exec.contract][v]

\* init: the signer is loaded, made the issuer, made the maker; then the token.
Begun(place) ==
    OpcDiff([v \in StateVars |-> IF (v = "issuer" /\ place > 2) \/ (v = "maker" /\ place > 3)
                                THEN exec.signer ELSE Undefined],
            IF place > 4 THEN 1 ELSE 0,
            IF place > 4 THEN [max |-> exec.data[1].value, unity |-> exec.data[2].value] ELSE NoInfo,
            0, NoUnits)

InitPlace ==
    /\ exec.pc \in 1 .. 5
    /\ Stacked(IF exec.pc = 1 THEN 3 ELSE 4)
    /\ exec.pc > 1 => exec.data[4] = Entry("Address", exec.signer)
    /\ exec.pc > 4 => exec.data[2].value > 0
    /\ exec.diff = Begun(exec.pc)

\* What only one account may do: its address is read, then compared.
Guarded(v) ==
    /\ exec.pc \in 1 .. 4
    /\ Stacked(IF exec.pc = 1 THEN 1 ELSE 2)
    /\ exec.pc > 1 => exec.data[2] = Entry("Address", Variable(v))
    /\ exec.pc > 2 => exec.signer = Variable(v)
    /\ exec.pc < 4 => exec.diff = NoDiff

Argument == exec.data[1].value

SupersedePlace ==
    /\ Guarded("maker")
    /\ exec.pc = 4 =>
          /\ Argument \in Accounts
          /\ exec.diff = OpcDiff([NoVars EXCEPT !["issuer"] = Argument], 0, NoInfo, 0, NoUnits)

IssuePlace ==
    /\ Guarded("issuer")
    /\ exec.pc = 4 =>
          /\ Argument \in Longs /\ total[exec.contract] + Argument <= tokenDB[exec.contract]["max"]
          /\ exec.diff = OpcDiff(NoVars, 0, NoInfo, Argument,
                                 [NoUnits EXCEPT ![Variable("issuer")] = Argument])

DestroyPlace ==
    /\ Guarded("issuer")
    /\ exec.pc = 4 =>
          /\ Argument \in Longs /\ Argument <= balance[exec.contract][Variable("issuer")]
          /\ exec.diff = OpcDiff(NoVars, 0, NoInfo, -Argument,
                                 [NoUnits EXCEPT ![Variable("issuer")] = -Argument])

SplitPlace ==
    /\ contracts[exec.contract] = "split"
    /\ Guarded("issuer")
    /\ exec.pc = 4 =>
          /\ Argument \in Longs \ {0}
          /\ exec.diff = OpcDiff(NoVars, 0, [NoInfo EXCEPT !["unity"] = Argument], 0, NoUnits)

\* Units leave the signer of the transaction.
Sent ==
    \E b \in Accounts, n \in Longs :
        /\ n <= balance[exec.contract][exec.signer]
        /\ exec.diff = TransferDiff(exec.signer, b, n)

SendPlace ==
    /\ exec.pc \in 1 .. 3
    /\ Stacked(IF exec.pc = 1 THEN 2 ELSE 3)
    /\ exec.pc > 1 => exec.data[3] = Entry("Address", exec.signer)
    /\ exec.pc < 3 => exec.diff = NoDiff
    /\ exec.pc = 3 => Sent

TransferPlace ==
    /\ exec.pc \in 1 .. 3
    /\ Stacked(3)
    /\ exec.pc > 1 => exec.data[1] = Entry("Address", exec.signer)
    /\ exec.pc < 3 => exec.diff = NoDiff
    /\ exec.pc = 3 => Sent

\* deposit and withdraw never get past the transfer.
BarredPlace == exec.pc \in 1 .. 2 /\ Stacked(3) /\ exec.diff = NoDiff

QueryPlace ==
    /\ exec.pc \in 1 .. 2
    /\ Stacked(Len(exec.func.params) + exec.pc - 1)
    /\ exec.diff = NoDiff

Placed ==
    CASE exec.func.name = "init"      -> InitPlace
      [] exec.func.name = "supersede" -> SupersedePlace
      [] exec.func.name = "issue"     -> IssuePlace
      [] exec.func.name = "destroy"   -> DestroyPlace
      [] exec.func.name = "split"     -> SplitPlace
      [] exec.func.name = "send"      -> SendPlace
      [] exec.func.name = "transfer"  -> TransferPlace
      [] exec.func.name \in {"deposit", "withdraw"} -> BarredPlace
      [] exec.func.name \in Queries   -> QueryPlace
      [] OTHER -> FALSE

PlaceInv ==
    exec # Idle =>
       \/ exec.status \in Refusals
       \/ exec.status = "ContractUnsupportedOPC" /\ exec.func.name \in Queries
       \/ exec.status = "Success" /\ Placed

-----------------------------------------------------------------------------
(* What an opcode does, seen from its place. *)

\* The fold goes on with d added and data on the stack.
Advanced(d, data) ==
    /\ exec' # Idle /\ exec' \in Jobs /\ exec'.phase = "run" /\ exec'.status = "Success"
    /\ exec'.contract = exec.contract /\ exec'.signer = exec.signer /\ exec'.func = exec.func
    /\ exec'.pc = exec.pc + 1 /\ exec'.diff = Combine(exec.diff, d) /\ exec'.data = data
    /\ UNCHANGED state

Failed(statuses) ==
    exec' # Idle /\ exec'.func = exec.func /\ exec'.status \in statuses

\* An execution in the middle of its code.
At(name, args) ==
    /\ BooksInv /\ exec # Idle /\ exec.phase = "run" /\ ~Ended
    /\ Opc = Op(name, args) /\ Opcode

LEMMA AtFacts ==
  ASSUME NEW name, NEW args, At(name, args)
  PROVE  /\ Running(name) /\ Opc.opc = name /\ Opc.args = args
         /\ exec \in Jobs /\ exec.data \in Seq(Entries) /\ exec.signer \in Accounts
         /\ exec.contract \in Contracts /\ exec.diff \in Diffs /\ exec.pc \in Nat \ {0}
         /\ exec.func \in Funcs
<1>1. Running(name) /\ Opc.opc = name /\ Opc.args = args
  BY DEF At, Running, Op
<1>2. exec \in Jobs
  BY DEF At, BooksInv, Types
<1> QED BY <1>1, <1>2 DEF Jobs

\* Only the action of the opcode at hand can run.
LEMMA OneOpcode ==
  ASSUME NEW name, NEW args, At(name, args)
  PROVE  /\ name = "Load" => Load
         /\ name = "CDBVRGet" => CDBVRGet
         /\ name = "CDBVSet" => CDBVSet
         /\ name = "AssertIsCallerOrigin" => AssertIsCallerOrigin
         /\ name = "AssertIsSignerOrigin" => AssertIsSignerOrigin
         /\ name = "TDBNewToken" => TDBNewToken
         /\ name = "TDBSplit" => TDBSplit
         /\ name = "TDBADeposit" => TDBADeposit
         /\ name = "TDBAWithdraw" => TDBAWithdraw
         /\ name = "TDBATransfer" => TDBATransfer
         /\ name = "TDBRTotal" => TDBRTotal
         /\ name = "TDBRMax" => TDBRMax
         /\ name = "TDBARBalance" => TDBARBalance
         /\ name = "Return" => Return
<1>1. Opc.opc = name
  BY AtFacts
<1>2. \/ Load /\ name = "Load"
      \/ CDBVRGet /\ name = "CDBVRGet"
      \/ CDBVSet /\ name = "CDBVSet"
      \/ AssertIsCallerOrigin /\ name = "AssertIsCallerOrigin"
      \/ AssertIsSignerOrigin /\ name = "AssertIsSignerOrigin"
      \/ TDBNewToken /\ name = "TDBNewToken"
      \/ TDBSplit /\ name = "TDBSplit"
      \/ TDBADeposit /\ name = "TDBADeposit"
      \/ TDBAWithdraw /\ name = "TDBAWithdraw"
      \/ TDBATransfer /\ name = "TDBATransfer"
      \/ TDBRTotal /\ name = "TDBRTotal"
      \/ TDBRMax /\ name = "TDBRMax"
      \/ TDBARBalance /\ name = "TDBARBalance"
      \/ Return /\ name = "Return"
  <2>1. Opcode
    BY DEF At
  <2>2. Load => name = "Load"
    BY <1>1 DEF Load, Running
  <2>3. CDBVRGet => name = "CDBVRGet"
    BY <1>1 DEF CDBVRGet, Running
  <2>4. CDBVSet => name = "CDBVSet"
    BY <1>1, Zenon DEF CDBVSet, Running
  <2>5. AssertIsCallerOrigin => name = "AssertIsCallerOrigin"
    BY <1>1, Zenon DEF AssertIsCallerOrigin, Asserts, Running
  <2>6. AssertIsSignerOrigin => name = "AssertIsSignerOrigin"
    BY <1>1, Zenon DEF AssertIsSignerOrigin, Asserts, Running
  <2>7. TDBNewToken => name = "TDBNewToken"
    BY <1>1, Zenon DEF TDBNewToken, Running
  <2>8. TDBSplit => name = "TDBSplit"
    BY <1>1, Zenon DEF TDBSplit, Running
  <2>9. TDBADeposit => name = "TDBADeposit"
    BY <1>1, Zenon DEF TDBADeposit, Running
  <2>10. TDBAWithdraw => name = "TDBAWithdraw"
    BY <1>1, Zenon DEF TDBAWithdraw, Running
  <2>11. TDBATransfer => name = "TDBATransfer"
    BY <1>1, Zenon DEF TDBATransfer, Running
  <2>12. TDBRTotal => name = "TDBRTotal"
    BY <1>1, Zenon DEF TDBRTotal, Running
  <2>13. TDBRMax => name = "TDBRMax"
    BY <1>1, Zenon DEF TDBRMax, Running
  <2>14. TDBARBalance => name = "TDBARBalance"
    BY <1>1, Zenon DEF TDBARBalance, Running
  <2>15. Return => name = "Return"
    BY <1>1, Zenon DEF Return, Running
  <2> QED BY <2>1, <2>2, <2>3, <2>4, <2>5, <2>6, <2>7, <2>8, <2>9, <2>10, <2>11, <2>12,
             <2>13, <2>14, <2>15 DEF Opcode
<1> QED BY <1>2

LEMMA StepDone ==
  ASSUME NEW name, NEW args, At(name, args), NEW status, NEW d, NEW data, Step(status, d, data)
  PROVE  /\ status = "Success" => Advanced(d, data)
         /\ status # "Success" => Failed({status})
<1>1. exec \in Jobs /\ exec.diff \in Diffs
  BY AtFacts
<1>2. BooksInv'
  BY OpcodeKeeps DEF At
<1>3. UNCHANGED state
  BY DEF Step
<1>4. ASSUME status = "Success" PROVE Advanced(d, data)
  <2>1. exec' = [exec EXCEPT !.pc = exec.pc + 1, !.diff = Combine(exec.diff, d), !.data = data]
    BY <1>4 DEF Step, Goes
  <2>2. exec.status = "Success" /\ exec.phase = "run"
    BY DEF At, BooksInv, ExecSound
  <2>3. /\ exec'.phase = "run" /\ exec'.status = "Success" /\ exec'.contract = exec.contract
        /\ exec'.signer = exec.signer /\ exec'.func = exec.func /\ exec'.pc = exec.pc + 1
        /\ exec'.diff = Combine(exec.diff, d) /\ exec'.data = data
    BY <1>1, <2>1, <2>2 DEF Jobs
  <2>4. exec' # Idle
    BY <2>3 DEF Idle
  <2>5. exec' \in Jobs
    BY <1>2, <2>4 DEF BooksInv, Types
  <2> QED BY <1>3, <2>3, <2>4, <2>5 DEF Advanced
<1>5. ASSUME status # "Success" PROVE Failed({status})
  <2>1. exec' = [exec EXCEPT !.phase = "done", !.status = status, !.diff = NoDiff]
    BY <1>5 DEF Step, Fails
  <2>2. exec'.phase = "done" /\ exec'.status = status /\ exec'.func = exec.func
    BY <1>1, <2>1 DEF Jobs
  <2>3. exec' # Idle
    BY <2>2 DEF Idle
  <2> QED BY <2>2, <2>3 DEF Failed
<1> QED BY <1>4, <1>5

\* The state under an empty diff is the stored one.
LEMMA NowStored ==
  ASSUME NEW name, NEW args, At(name, args), exec.diff = NoDiff
  PROVE  LET c == exec.contract
         IN  Now = OpcDiff(contractDB[c], contractTokens[c], tokenDB[c], total[c], balance[c])
  BY AtFacts, UnderNothing DEF At, Now, BooksInv

\* A contract that is registered has its variables and its token.
LEMMA Registered ==
  ASSUME NEW name, NEW args, At(name, args), exec.func # InitFunc
  PROVE  LET c == exec.contract
         IN  /\ contracts[c] \in Kinds /\ contractTokens[c] = 1
             /\ \A v \in StateVars : contractDB[c][v] \in Accounts
<1>1. contracts[exec.contract] \in Kinds
  BY DEF At, BooksInv, ExecSound
<1> QED BY <1>1, AtFacts DEF At, BooksInv, NothingFromFailure

LEMMA LoadRuns ==
  ASSUME NEW p, At("Load", <<p>>), p \in 0 .. Len(exec.data)
  PROVE  Advanced(NoDiff, Patch(p, Entry("Address", exec.signer)))
<1>1. Load /\ Arg(1) = p
  BY OneOpcode, AtFacts DEF Arg
<1>2. Step("Success", NoDiff, Patch(p, Entry("Address", exec.signer)))
  BY <1>1 DEF Load, Reads
<1> QED BY <1>2, StepDone

LEMMA GetRuns ==
  ASSUME NEW v \in StateVars, NEW p, At("CDBVRGet", <<v, p>>), p \in 0 .. Len(exec.data),
         exec.func # InitFunc, exec.diff = NoDiff
  PROVE  /\ Variable(v) \in Accounts
         /\ Advanced(NoDiff, Patch(p, Entry("Address", Variable(v))))
<1>1. CDBVRGet /\ Arg(1) = v /\ Arg(2) = p
  BY OneOpcode, AtFacts DEF Arg
<1>2. Now.db[v] = Variable(v)
  BY NowStored DEF Variable, OpcDiff
<1>3. Variable(v) \in Accounts
  BY Registered DEF Variable
<1>4. Variable(v) # Undefined
  BY <1>3, ConstantsAssumption
<1>5. Step("Success", NoDiff, Patch(p, Entry("Address", Variable(v))))
  BY <1>1, <1>2, <1>4, Zenon DEF CDBVRGet, Reads
<1> QED BY <1>3, <1>5, StepDone

LEMMA AssertRuns ==
  ASSUME NEW name \in {"AssertIsCallerOrigin", "AssertIsSignerOrigin"}, NEW i \in Nat,
         At(name, <<i>>), i < Len(exec.data)
  PROVE  \/ Failed(Refusals)
         \/ Advanced(NoDiff, exec.data) /\ exec.data[i + 1] = Entry("Address", exec.signer)
<1> DEFINE wrong == IF name = "AssertIsCallerOrigin" THEN "ContractInvalidCaller"
                    ELSE "ContractInvalidSigner"
<1>1. Asserts(name, wrong) /\ Arg(1) = i /\ exec.data \in Seq(Entries)
  BY OneOpcode, AtFacts DEF AssertIsCallerOrigin, AssertIsSignerOrigin, Arg
<1>2. InStack({1}) /\ Data(1) = exec.data[i + 1] /\ Data(1) \in Entries
  BY <1>1, LenProperties DEF InStack, Data
<1>3. Step(IF Data(1).type # "Address" THEN "ContractDataTypeMismatch"
           ELSE IF Data(1).value # exec.signer THEN wrong ELSE "Success", NoDiff, exec.data)
  BY <1>1, <1>2, Zenon DEF Asserts
<1>4. wrong \in Refusals /\ "ContractDataTypeMismatch" \in Refusals /\ wrong # "Success"
  BY DEF Refusals
<1> HIDE DEF wrong
<1>5. CASE Data(1).type # "Address"
  BY <1>3, <1>4, <1>5, StepDone DEF Failed
<1>6. CASE Data(1).type = "Address" /\ Data(1).value # exec.signer
  BY <1>3, <1>4, <1>6, StepDone DEF Failed
<1>7. CASE Data(1).type = "Address" /\ Data(1).value = exec.signer
  <2>1. Step("Success", NoDiff, exec.data)
    BY <1>3, <1>7, Zenon
  <2>2. Data(1) = Entry("Address", exec.signer)
    BY <1>2, <1>7 DEF Entries, Entry
  <2> QED BY <1>2, <2>1, <2>2, StepDone
<1> QED BY <1>5, <1>6, <1>7

LEMMA SetRuns ==
  ASSUME NEW v, NEW i \in Nat, At("CDBVSet", <<v, i>>), i < Len(exec.data)
  PROVE  \/ Failed(Refusals)
         \/ /\ exec.data[i + 1].type = "Address"
            /\ Advanced(OpcDiff([NoVars EXCEPT ![v] = exec.data[i + 1].value], 0, NoInfo, 0, NoUnits),
                        exec.data)
<1>1. CDBVSet /\ Arg(1) = v /\ Arg(2) = i /\ exec.data \in Seq(Entries)
  BY OneOpcode, AtFacts DEF Arg
<1>2. InStack({2}) /\ Data(2) = exec.data[i + 1]
  BY <1>1, LenProperties DEF InStack, Data
<1>3. Step(IF exec.data[i + 1].type # "Address" THEN "ContractInvalidStateVariable" ELSE "Success",
           OpcDiff([NoVars EXCEPT ![v] = exec.data[i + 1].value], 0, NoInfo, 0, NoUnits), exec.data)
  BY <1>1, <1>2, Zenon DEF CDBVSet
<1>4. "ContractInvalidStateVariable" \in Refusals
  BY DEF Refusals
<1>5. CASE exec.data[i + 1].type # "Address"
  BY <1>3, <1>4, <1>5, StepDone DEF Failed
<1>6. CASE exec.data[i + 1].type = "Address"
  BY <1>3, <1>6, StepDone
<1> QED BY <1>5, <1>6

LEMMA NewTokenRuns ==
  ASSUME At("TDBNewToken", <<0, 1, 2>>), Len(exec.data) > 2
  PROVE  \/ Failed(Refusals)
         \/ /\ exec.data[2].value > 0
            /\ Advanced(OpcDiff(NoVars, 1, [max |-> exec.data[1].value, unity |-> exec.data[2].value],
                                0, NoUnits), exec.data)
<1> DEFINE st == NewTokenStatus(exec.data[1], exec.data[2], exec.data[3])
<1>1. TDBNewToken /\ Arg(1) = 0 /\ Arg(2) = 1 /\ Arg(3) = 2 /\ exec.data \in Seq(Entries)
  BY OneOpcode, AtFacts DEF Arg
<1>2. InStack({1, 2, 3}) /\ Data(1) = exec.data[1] /\ Data(2) = exec.data[2] /\ Data(3) = exec.data[3]
  BY <1>1, LenProperties DEF InStack, Data
<1>3. Step(st, OpcDiff(NoVars, 1, [max |-> exec.data[1].value, unity |-> exec.data[2].value],
                       0, NoUnits), exec.data)
  BY <1>1, <1>2, Zenon DEF TDBNewToken
<1>4. st \in Refusals \/ (st = "Success" /\ exec.data[2].value > 0)
  <2>1. \A n : ~(n <= 0) /\ n \in Longs => n > 0
    BY ConstantsAssumption DEF Longs
  <2>2. st = "Success" => exec.data[2].type = "Amount" /\ ~(exec.data[2].value <= 0)
    BY DEF NewTokenStatus
  <2>3. exec.data[2] \in Entries
    BY <1>1, LenProperties
  <2>4. exec.data[2].type = "Amount" => exec.data[2].value \in Longs
    BY <2>3 DEF Entries
  <2>5. st \in {"ContractDataTypeMismatch", "ContractInvalidTokenInfo", "Success"}
    BY DEF NewTokenStatus
  <2> HIDE DEF st
  <2> QED BY <2>1, <2>2, <2>4, <2>5 DEF Refusals
<1> HIDE DEF st
<1>5. "Success" \notin Refusals
  BY DEF Refusals
<1> QED BY <1>3, <1>4, <1>5, StepDone DEF Failed

LEMMA SplitRuns ==
  ASSUME At("TDBSplit", << 0 >>), Len(exec.data) > 0, exec.func # InitFunc, exec.diff = NoDiff
  PROVE  \/ Failed(Refusals)
         \/ /\ exec.data[1].value \in Longs \ {0}
            /\ Advanced(OpcDiff(NoVars, 0, [NoInfo EXCEPT !["unity"] = exec.data[1].value], 0, NoUnits),
                        exec.data)
<1> DEFINE st == IF exec.data[1].type # "Amount" THEN "ContractDataTypeMismatch"
                 ELSE IF Now.tokens = 0 THEN "ContractInvalidTokenIndex"
                 ELSE IF exec.data[1].value <= 0 THEN "ContractInvalidTokenInfo"
                 ELSE "Success"
<1>1. TDBSplit /\ Arg(1) = 0 /\ exec.data \in Seq(Entries)
  BY OneOpcode, AtFacts DEF Arg
<1>2. InStack({1}) /\ Data(1) = exec.data[1] /\ Data(1) \in Entries
  BY <1>1, LenProperties DEF InStack, Data
<1>3. Step(st, OpcDiff(NoVars, 0, [NoInfo EXCEPT !["unity"] = exec.data[1].value], 0, NoUnits),
           exec.data)
  BY <1>1, <1>2, Zenon DEF TDBSplit
<1>4. Now.tokens = 1
  BY NowStored, Registered DEF OpcDiff
<1>5. exec.data[1].type = "Amount" => exec.data[1].value \in Longs
  BY <1>2 DEF Entries
<1>6. \A n \in Longs : ~(n <= 0) => n # 0
  BY ConstantsAssumption DEF Longs
<1>7. st \in Refusals \/ (st = "Success" /\ exec.data[1].value \in Longs \ {0})
  BY <1>4, <1>5, <1>6 DEF Refusals
<1> HIDE DEF st
<1>8. "Success" \notin Refusals
  BY DEF Refusals
<1> QED BY <1>3, <1>7, <1>8, StepDone DEF Failed

LEMMA DepositRuns ==
  ASSUME NEW x \in Accounts, At("TDBADeposit", <<1, 0>>), Len(exec.data) > 1,
         exec.data[2] = Entry("Address", x), exec.func # InitFunc, exec.diff = NoDiff
  PROVE  LET n == exec.data[1].value
         IN  \/ Failed(Refusals)
             \/ /\ n \in Longs /\ total[exec.contract] + n <= tokenDB[exec.contract]["max"]
                /\ Advanced(OpcDiff(NoVars, 0, NoInfo, n, [NoUnits EXCEPT ![x] = n]), exec.data)
<1> DEFINE n == exec.data[1].value
           c == exec.contract
           st == DepositStatus(Now, exec.data[2], exec.data[1])
           d == OpcDiff(NoVars, 0, NoInfo, n, [NoUnits EXCEPT ![x] = n])
<1>1. TDBADeposit /\ Arg(1) = 1 /\ Arg(2) = 0 /\ exec.data \in Seq(Entries)
  BY OneOpcode, AtFacts DEF Arg
<1>2. InStack({1, 2}) /\ Data(1) = exec.data[2] /\ Data(2) = exec.data[1] /\ Data(2) \in Entries
      /\ Data(1).value = x
  BY <1>1, LenProperties DEF InStack, Data, Entry
<1>3. Step(st, d, exec.data)
  BY <1>1, <1>2, Zenon DEF TDBADeposit
<1>4. Now.tokens = 1 /\ Now.total = total[c] /\ Now.info = tokenDB[c]
  BY NowStored, Registered DEF OpcDiff
<1>5. exec.data[1].type = "Amount" => n \in Longs
  BY <1>2 DEF Entries
<1>6. total[c] \in Longs /\ tokenDB[c]["max"] \in Longs
  <2>1. Sound(Now)
    BY AtFacts, OpcodeFacts DEF At
  <2> QED BY <1>4, <2>1 DEF Sound
<1>7. tokenDB[c]["max"] # Undefined
  BY <1>6, ConstantsAssumption DEF Longs
<1>8. st \in {"ContractDataTypeMismatch", "Failed", "ContractInvalidAmount",
              "ContractTokenMaxExceeded", "Success"}
  BY <1>4 DEF DepositStatus
<1>9. st = "Success" => exec.data[1].type = "Amount" /\ ~(n + total[c] > tokenDB[c]["max"])
  BY <1>4, <1>7 DEF DepositStatus
<1> HIDE DEF st, n, d, c
<1>10. st = "Success" => n \in Longs /\ total[c] + n <= tokenDB[c]["max"]
  BY <1>5, <1>6, <1>9, ConstantsAssumption DEF Longs
<1>11. "Success" \notin Refusals /\ (st # "Success" => st \in Refusals)
  BY <1>8 DEF Refusals
<1>12. Failed(Refusals)
       \/ (n \in Longs /\ total[c] + n <= tokenDB[c]["max"] /\ Advanced(d, exec.data))
  BY <1>3, <1>10, <1>11, StepDone DEF Failed
<1> QED BY <1>12 DEF n, c, d

LEMMA WithdrawRuns ==
  ASSUME NEW x \in Accounts, At("TDBAWithdraw", <<1, 0>>), Len(exec.data) > 1,
         exec.data[2] = Entry("Address", x), exec.func # InitFunc, exec.diff = NoDiff
  PROVE  LET n == exec.data[1].value
         IN  \/ Failed(Refusals)
             \/ /\ n \in Longs /\ n <= balance[exec.contract][x]
                /\ Advanced(OpcDiff(NoVars, 0, NoInfo, -n, [NoUnits EXCEPT ![x] = -n]), exec.data)
<1> DEFINE n == exec.data[1].value
           c == exec.contract
           st == WithdrawStatus(Now, exec.data[2], exec.data[1])
           d == OpcDiff(NoVars, 0, NoInfo, -n, [NoUnits EXCEPT ![x] = -n])
<1>1. TDBAWithdraw /\ Arg(1) = 1 /\ Arg(2) = 0 /\ exec.data \in Seq(Entries)
  BY OneOpcode, AtFacts DEF Arg
<1>2. InStack({1, 2}) /\ Data(1) = exec.data[2] /\ Data(2) = exec.data[1] /\ Data(2) \in Entries
      /\ Data(1).value = x
  BY <1>1, LenProperties DEF InStack, Data, Entry
<1>3. Step(st, d, exec.data)
  BY <1>1, <1>2, Zenon DEF TDBAWithdraw
<1>4. Now.tokens = 1 /\ Now.balance = balance[c]
  BY NowStored, Registered DEF OpcDiff
<1>5. exec.data[1].type = "Amount" => n \in Longs
  BY <1>2 DEF Entries
<1>6. balance[c][x] \in Longs
  BY AtFacts DEF At, BooksInv, Types
<1>8. st \in {"ContractDataTypeMismatch", "ContractTokenBalanceInsufficient",
              "ContractInvalidAmount", "Success"}
  BY <1>4 DEF WithdrawStatus
<1>9. st = "Success" => exec.data[1].type = "Amount" /\ ~(n > balance[c][x])
  BY <1>2, <1>4 DEF WithdrawStatus
<1> HIDE DEF st, n, d, c
<1>10. st = "Success" => n \in Longs /\ n <= balance[c][x]
  BY <1>5, <1>6, <1>9, ConstantsAssumption DEF Longs
<1>11. "Success" \notin Refusals /\ (st # "Success" => st \in Refusals)
  BY <1>8 DEF Refusals
<1>12. Failed(Refusals) \/ (n \in Longs /\ n <= balance[c][x] /\ Advanced(d, exec.data))
  BY <1>3, <1>10, <1>11, StepDone DEF Failed
<1> QED BY <1>12 DEF n, c, d

\* A transfer from or to a contract is refused.
LEMMA TransferRuns ==
  ASSUME NEW i \in Nat, NEW j \in Nat, NEW k \in Nat, At("TDBATransfer", <<i, j, k>>),
         i < Len(exec.data), j < Len(exec.data), k < Len(exec.data),
         exec.func # InitFunc, exec.diff = NoDiff
  PROVE  \/ Failed(Refusals)
         \/ \E a, b \in Accounts, n \in Longs :
               /\ exec.data[i + 1] = Entry("Address", a) /\ exec.data[j + 1] = Entry("Address", b)
               /\ n <= balance[exec.contract][a]
               /\ Advanced(TransferDiff(a, b, n), exec.data)
<1> DEFINE a == exec.data[i + 1].value
           b == exec.data[j + 1].value
           n == exec.data[k + 1].value
           c == exec.contract
           st == TransferStatus(Now, exec.data[i + 1], exec.data[j + 1], exec.data[k + 1])
<1>1. TDBATransfer /\ Arg(1) = i /\ Arg(2) = j /\ Arg(3) = k /\ exec.data \in Seq(Entries)
  BY OneOpcode, AtFacts DEF Arg
<1>2. /\ InStack({1, 2, 3}) /\ Data(1) = exec.data[i + 1] /\ Data(2) = exec.data[j + 1]
      /\ Data(3) = exec.data[k + 1] /\ Data(1) \in Entries /\ Data(2) \in Entries /\ Data(3) \in Entries
  BY <1>1, LenProperties DEF InStack, Data
<1>3. Step(st, TransferDiff(a, b, n), exec.data)
  BY <1>1, <1>2, Zenon DEF TDBATransfer
<1>4. Now.tokens = 1 /\ Now.balance = balance[c]
  BY NowStored, Registered DEF OpcDiff
<1>5. st \in {"ContractUnsupportedWithdraw", "ContractUnsupportedDeposit",
              "ContractDataTypeMismatch", "ContractTokenBalanceInsufficient", "Failed",
              "ContractInvalidAmount", "Success"}
  BY <1>4 DEF TransferStatus
<1>6. st = "Success" =>
         /\ <<exec.data[i + 1].type, exec.data[j + 1].type, exec.data[k + 1].type>>
               = <<"Address", "Address", "Amount">>
         /\ ~(n > balance[c][a])
  BY <1>4 DEF TransferStatus
<1> HIDE DEF st
<1>7. ASSUME st = "Success"
      PROVE  /\ a \in Accounts /\ b \in Accounts /\ n \in Longs
             /\ exec.data[i + 1] = Entry("Address", a) /\ exec.data[j + 1] = Entry("Address", b)
             /\ n <= balance[c][a]
  <2>1. exec.data[i + 1].type = "Address" /\ exec.data[j + 1].type = "Address"
        /\ exec.data[k + 1].type = "Amount"
    BY <1>6, <1>7
  <2>2. a \in Accounts /\ b \in Accounts /\ n \in Longs
        /\ exec.data[i + 1] = Entry("Address", a) /\ exec.data[j + 1] = Entry("Address", b)
    BY <1>2, <2>1 DEF Entries, Entry
  <2>3. balance[c][a] \in Longs
    BY <2>2, AtFacts DEF At, BooksInv, Types
  <2>4. ~(n > balance[c][a])
    BY <1>6, <1>7
  <2> HIDE DEF a, n, c
  <2>5. n <= balance[c][a]
    BY <2>2, <2>3, <2>4, ConstantsAssumption DEF Longs
  <2> QED BY <2>2, <2>5
<1>8. "Success" \notin Refusals /\ (st # "Success" => st \in Refusals)
  BY <1>5 DEF Refusals
<1>9. st # "Success" => Failed(Refusals)
  BY <1>3, <1>8, StepDone DEF Failed
<1>10. st = "Success" => Advanced(TransferDiff(a, b, n), exec.data)
  BY <1>3, StepDone
<1> HIDE DEF a, b, n
<1> QED BY <1>7, <1>9, <1>10

LEMMA QueryRuns ==
  ASSUME NEW name, NEW args,
         \/ name = "TDBRTotal" /\ args = << 0 >> /\ Len(exec.data) = 0
         \/ name = "TDBRMax" /\ args = << 0 >> /\ Len(exec.data) = 0
         \/ name = "TDBARBalance" /\ args = <<0, 1>> /\ Len(exec.data) = 1,
         At(name, args), exec.func # InitFunc, exec.diff = NoDiff
  PROVE  \/ Failed(Refusals)
         \/ \E e : Advanced(NoDiff, Append(exec.data, e))
<1>1. exec.data \in Seq(Entries) /\ Now.tokens = 1 /\ ~(Now.tokens = 0)
  BY AtFacts, NowStored, Registered DEF OpcDiff
<1>2. Refusals \cap {"Success"} = {} /\ "ContractInvalidTokenInfo" \in Refusals
      /\ "ContractDataTypeMismatch" \in Refusals
  BY DEF Refusals
<1>3. CASE name = "TDBRTotal"
  <2>1. TDBRTotal /\ Arg(1) = 0 /\ Len(exec.data) = 0
    BY <1>3, OneOpcode, AtFacts DEF Arg
  <2>2. 0 \in 0 .. Len(exec.data) /\ Patch(0, Entry("Amount", Now.total))
                                      = Append(exec.data, Entry("Amount", Now.total))
    BY <2>1 DEF Patch
  <2>3. Step("Success", NoDiff, Append(exec.data, Entry("Amount", Now.total)))
    BY <1>1, <2>1, <2>2, Zenon DEF TDBRTotal, Reads
  <2> QED BY <2>3, StepDone
<1>4. CASE name = "TDBRMax"
  <2> DEFINE st == IF Now.info["max"] = Undefined THEN "ContractInvalidTokenInfo" ELSE "Success"
             e == Entry("Amount", Now.info["max"])
  <2>1. TDBRMax /\ Arg(1) = 0 /\ Len(exec.data) = 0
    BY <1>4, OneOpcode, AtFacts DEF Arg
  <2>2. 0 \in 0 .. Len(exec.data) /\ Patch(0, e) = Append(exec.data, e)
    BY <2>1 DEF Patch
  <2>3. Step(st, NoDiff, Append(exec.data, e))
    BY <1>1, <2>1, <2>2, Zenon DEF TDBRMax, Reads
  <2>4. st \in {"ContractInvalidTokenInfo", "Success"}
    OBVIOUS
  <2> HIDE DEF st, e
  <2> QED BY <1>2, <2>3, <2>4, StepDone DEF Failed
<1>5. CASE name = "TDBARBalance"
  <2>1. TDBARBalance /\ Arg(1) = 0 /\ Arg(2) = 1 /\ Len(exec.data) = 1
    BY <1>5, OneOpcode, AtFacts DEF Arg
  <2>2. InStack({1})
    BY <2>1 DEF InStack
  <2> DEFINE e == Entry("Amount", Now.balance[Data(1).value])
  <2>3. 1 \in 0 .. Len(exec.data) /\ Patch(1, e) = Append(exec.data, e)
    BY <2>1 DEF Patch
  <2>4. CASE Data(1).type # "Address"
    <3>1. Step("ContractDataTypeMismatch", NoDiff, exec.data)
      BY <2>1, <2>2, <2>4, Zenon DEF TDBARBalance, Step
    <3> QED BY <1>2, <3>1, StepDone DEF Failed
  <2>5. CASE Data(1).type = "Address"
    <3>1. Step("Success", NoDiff, Append(exec.data, e))
      BY <1>1, <2>1, <2>2, <2>3, <2>5, Zenon DEF TDBARBalance, Reads
    <3> QED BY <3>1, StepDone
  <2> QED BY <2>4, <2>5
<1> QED BY <1>3, <1>4, <1>5

LEMMA ReturnRuns ==
  ASSUME NEW args, At("Return", args)
  PROVE  Failed({"ContractUnsupportedOPC"})
<1>1. Step("ContractUnsupportedOPC", NoDiff, exec.data)
  BY OneOpcode DEF Return
<1> QED BY <1>1, StepDone

LEMMA NothingCombine ==
  ASSUME NEW d \in Diffs
  PROVE  Combine(NoDiff, d) = d
<1>1. Override(NoDiff.db, d.db) = d.db
  BY DEF Override, Diffs, NoDiff, NoVars, OpcDiff
<1>2. Override(NoDiff.info, d.info) = d.info
  BY DEF Override, Diffs, NoDiff, NoInfo, OpcDiff
<1>3. [a \in Accounts |-> NoDiff.balance[a] + d.balance[a]] = d.balance
  BY DEF Diffs, NoDiff, NoUnits, OpcDiff
<1>4. NoDiff.tokens + d.tokens = d.tokens /\ NoDiff.total + d.total = d.total
  BY DEF Diffs, NoDiff, OpcDiff
<1> QED BY <1>1, <1>2, <1>3, <1>4 DEF Combine, Diffs, OpcDiff

\* In the middle of the code of function f, at its place.
In(f) ==
    /\ BooksInv /\ exec # Idle /\ exec.phase = "run" /\ ~Ended /\ Opcode
    /\ exec.func = f /\ Placed

LEMMA InAt ==
  ASSUME NEW f, In(f), NEW name, NEW args, f.code[exec.pc] = Op(name, args)
  PROVE  At(name, args)
  BY DEF In, At, Opc

LEMMA FailedPlaced ==
  ASSUME Failed(Refusals)
  PROVE  PlaceInv'
  BY DEF Failed, PlaceInv

\* The parameters stay where they are when the stack grows.
LEMMA StackStays ==
  ASSUME NEW d, Advanced(d, exec.data), NEW n, Stacked(n)
  PROVE  Stacked(n)'
  BY DEF Advanced, Stacked

LEMMA StackGrows ==
  ASSUME NEW d, NEW e, exec.data \in Seq(Entries), Len(exec.func.params) \in Nat,
         Advanced(d, Append(exec.data, e)), NEW n \in Nat, Stacked(n)
  PROVE  /\ Stacked(n + 1)' /\ exec'.data[n + 1] = e
         /\ \A i \in 1 .. n : exec'.data[i] = exec.data[i]
<1>1. Len(exec.data) = n /\ Len(exec.func.params) <= n
  BY DEF Stacked
<1>2. exec'.data = Append(exec.data, e) /\ exec'.func = exec.func
  BY DEF Advanced
<1>3. /\ Len(exec'.data) = n + 1 /\ exec'.data[n + 1] = e
      /\ \A i \in 1 .. n : exec'.data[i] = exec.data[i]
  BY <1>1, <1>2
<1>4. \A i \in 1 .. Len(exec.func.params) : i \in 1 .. n
  BY <1>1
<1> QED BY <1>1, <1>2, <1>3, <1>4 DEF Stacked

\* The first two opcodes of what only one account may do.
LEMMA GuardSteps ==
  ASSUME NEW f, In(f), NEW v \in StateVars, Guarded(v), f # InitFunc, Len(f.params) = 1,
         f.code[1] = Op("CDBVRGet", <<v, 1>>),
         f.code[2] \in {Op("AssertIsCallerOrigin", << 1 >>), Op("AssertIsSignerOrigin", << 1 >>)},
         exec.pc \in {1, 2}
  PROVE  \/ Failed(Refusals)
         \/ Advanced(NoDiff, exec'.data) /\ Guarded(v)' /\ exec'.pc < 4
<1>0. exec.func = f /\ exec.diff = NoDiff /\ Combine(NoDiff, NoDiff) = NoDiff
  BY NothingCombine, NoDiffType DEF In, Guarded
<1>1. CASE exec.pc = 1
  <2>1. At("CDBVRGet", <<v, 1>>)
    BY <1>1, InAt
  <2>2. exec.data \in Seq(Entries) /\ Stacked(1) /\ Len(exec.data) = 1
    BY <1>1, <2>1, AtFacts DEF Guarded, Stacked
  <2>3. Advanced(NoDiff, Patch(1, Entry("Address", Variable(v))))
    BY <1>0, <2>1, <2>2, GetRuns
  <2>4. Advanced(NoDiff, Append(exec.data, Entry("Address", Variable(v))))
    BY <2>2, <2>3 DEF Patch
  <2>5. Stacked(2)' /\ exec'.data[2] = Entry("Address", Variable(v))
    BY <1>0, <2>2, <2>4, StackGrows
  <2>6. exec'.pc = 2 /\ exec'.diff = NoDiff /\ Variable(v)' = Variable(v)
        /\ exec'.data = Append(exec.data, Entry("Address", Variable(v)))
    BY <1>0, <1>1, <2>4 DEF Advanced, Variable, state
  <2> QED BY <2>4, <2>5, <2>6 DEF Guarded
<1>2. CASE exec.pc = 2
  <2>1. PICK name \in {"AssertIsCallerOrigin", "AssertIsSignerOrigin"} : At(name, <<1>>)
    BY <1>2, InAt
  <2>2. Stacked(2) /\ Len(exec.data) = 2 /\ exec.data[2] = Entry("Address", Variable(v))
    BY <1>2 DEF Guarded, Stacked
  <2>3. \/ Failed(Refusals)
        \/ Advanced(NoDiff, exec.data) /\ exec.data[2] = Entry("Address", exec.signer)
    BY <2>1, <2>2, AssertRuns
  <2>4. ASSUME Advanced(NoDiff, exec.data), exec.data[2] = Entry("Address", exec.signer)
        PROVE  Advanced(NoDiff, exec'.data) /\ Guarded(v)' /\ exec'.pc < 4
    <3>1. exec'.pc = 3 /\ exec'.diff = NoDiff /\ Variable(v)' = Variable(v)
          /\ exec'.data = exec.data /\ exec'.signer = exec.signer
      BY <1>0, <1>2, <2>4 DEF Advanced, Variable, state
    <3>2. Stacked(2)'
      BY <2>2, <2>4, StackStays
    <3>3. exec.signer = Variable(v)
      BY <2>2, <2>4 DEF Entry
    <3> QED BY <2>2, <2>4, <3>1, <3>2, <3>3 DEF Guarded
  <2> QED BY <2>3, <2>4
<1> QED BY <1>1, <1>2

\* The third: what is done is done in the name of that account.
LEMMA GuardEnds ==
  ASSUME NEW f, In(f), NEW v \in StateVars, Guarded(v), exec.pc = 3,
         NEW d \in Diffs, Advanced(d, exec.data)
  PROVE  /\ Guarded(v)' /\ exec'.pc = 4 /\ exec'.diff = d /\ exec'.data = exec.data
         /\ exec' # Idle /\ exec'.status = "Success" /\ exec'.func = f
         /\ exec'.contract = exec.contract /\ UNCHANGED state
<1>1. Stacked(2) /\ exec.diff = NoDiff /\ exec.func = f
  BY DEF Guarded, In
<1>2. Stacked(2)' /\ exec'.diff = d
  BY <1>1, StackStays, NothingCombine DEF Advanced
<1>3. Variable(v)' = Variable(v) /\ exec'.pc = 4 /\ exec'.data = exec.data
      /\ exec'.signer = exec.signer
  BY DEF Advanced, Variable, state
<1> QED BY <1>1, <1>2, <1>3 DEF Guarded, Advanced

LEMMA SupersedeSteps ==
  ASSUME In(SupersedeFunc)
  PROVE  PlaceInv'
<1> DEFINE f == SupersedeFunc
<1>1. /\ f.params = <<"Account">> /\ Len(f.code) = 3 /\ f.name = "supersede" /\ f # InitFunc
      /\ f.code[1] = Op("CDBVRGet", <<"maker", 1>>) /\ f.code[2] = Op("AssertIsSignerOrigin", <<1>>)
      /\ f.code[3] = Op("CDBVSet", <<"issuer", 0>>)
  BY DEF SupersedeFunc, InitFunc, Func
<1> HIDE DEF f
<1>2. In(f) /\ exec.func = f /\ SupersedePlace /\ exec.pc \in {1, 2, 3} /\ "maker" \in StateVars
  BY <1>1 DEF f, In, Placed, Queries, Ended, SupersedePlace, Guarded, StateVars
<1>3. CASE exec.pc \in {1, 2}
  <2>1. \/ Failed(Refusals)
        \/ Advanced(NoDiff, exec'.data) /\ Guarded("maker")' /\ exec'.pc < 4
    BY <1>1, <1>2, <1>3, GuardSteps DEF SupersedePlace
  <2>2. ASSUME Advanced(NoDiff, exec'.data), Guarded("maker")', exec'.pc < 4 PROVE PlaceInv'
    <3>1. exec' # Idle /\ exec'.status = "Success" /\ exec'.func.name = "supersede" /\ exec'.pc # 4
      BY <1>1, <1>2, <2>2 DEF Advanced, Guarded
    <3>2. SupersedePlace'
      BY <2>2, <3>1 DEF SupersedePlace
    <3> QED BY <3>1, <3>2 DEF PlaceInv, Placed, Queries
  <2> QED BY <2>1, <2>2, FailedPlaced
<1>4. CASE exec.pc = 3
  <2>1. At("CDBVSet", <<"issuer", 0>>) /\ Len(exec.data) = 2
    BY <1>1, <1>2, <1>4, InAt DEF SupersedePlace, Guarded, Stacked
  <2> DEFINE d == OpcDiff([NoVars EXCEPT !["issuer"] = Argument], 0, NoInfo, 0, NoUnits)
  <2>2. Failed(Refusals) \/ (exec.data[1].type = "Address" /\ Advanced(d, exec.data))
    BY <2>1, SetRuns DEF Argument
  <2>3. ASSUME exec.data[1].type = "Address", Advanced(d, exec.data) PROVE PlaceInv'
    <3>1. Argument \in Accounts
      BY <2>1, <2>3, AtFacts, LenProperties DEF Entries, Argument
    <3>2. d \in Diffs
      BY <3>1, ConstantsAssumption DEF Diffs, NoVars, NoInfo, NoUnits, OpcDiff, Longs, StateVars, TokenKeys
    <3> HIDE DEF d
    <3>3. /\ Guarded("maker")' /\ exec'.pc = 4 /\ exec'.diff = d /\ exec'.data = exec.data
          /\ exec' # Idle /\ exec'.status = "Success" /\ exec'.func = f
      BY <1>2, <1>4, <2>3, <3>2, GuardEnds DEF SupersedePlace
    <3>4. Argument' = Argument
      BY <3>3 DEF Argument
    <3>5. exec'.diff = OpcDiff([NoVars EXCEPT !["issuer"] = Argument'], 0, NoInfo, 0, NoUnits)
      BY <3>3, <3>4 DEF d
    <3>6. SupersedePlace'
      BY <3>1, <3>3, <3>4, <3>5 DEF SupersedePlace
    <3> QED BY <1>1, <3>3, <3>6 DEF PlaceInv, Placed, Queries
  <2> QED BY <2>2, <2>3, FailedPlaced
<1> QED BY <1>2, <1>3, <1>4

LEMMA IssueSteps ==
  ASSUME In(IssueFunc)
  PROVE  PlaceInv'
<1> DEFINE f == IssueFunc
           x == Variable("issuer")
<1>1. /\ f.params = <<"Amount">> /\ Len(f.code) = 3 /\ f.name = "issue" /\ f # InitFunc
      /\ f.code[1] = Op("CDBVRGet", <<"issuer", 1>>) /\ f.code[2] = Op("AssertIsCallerOrigin", <<1>>)
      /\ f.code[3] = Op("TDBADeposit", <<1, 0>>)
  BY DEF IssueFunc, InitFunc, Func, GetIssuer, CallerIsIssuer
<1> HIDE DEF f
<1>2. In(f) /\ exec.func = f /\ IssuePlace /\ exec.pc \in {1, 2, 3} /\ "issuer" \in StateVars
  BY <1>1 DEF f, In, Placed, Queries, Ended, IssuePlace, Guarded, StateVars
<1>3. CASE exec.pc \in {1, 2}
  <2>1. \/ Failed(Refusals)
        \/ Advanced(NoDiff, exec'.data) /\ Guarded("issuer")' /\ exec'.pc < 4
    BY <1>1, <1>2, <1>3, GuardSteps DEF IssuePlace
  <2>2. ASSUME Advanced(NoDiff, exec'.data), Guarded("issuer")', exec'.pc < 4 PROVE PlaceInv'
    <3>1. exec' # Idle /\ exec'.status = "Success" /\ exec'.func.name = "issue" /\ exec'.pc # 4
      BY <1>1, <1>2, <2>2 DEF Advanced, Guarded
    <3>2. IssuePlace'
      BY <2>2, <3>1 DEF IssuePlace
    <3> QED BY <3>1, <3>2 DEF PlaceInv, Placed, Queries
  <2> QED BY <2>1, <2>2, FailedPlaced
<1>4. CASE exec.pc = 3
  <2>1. At("TDBADeposit", <<1, 0>>) /\ Len(exec.data) = 2 /\ exec.data[2] = Entry("Address", x)
    BY <1>1, <1>2, <1>4, InAt DEF IssuePlace, Guarded, Stacked
  <2>2. exec.diff = NoDiff /\ x \in Accounts
    BY <1>1, <1>2, <1>4, <2>1, Registered DEF IssuePlace, Guarded, Variable
  <2> DEFINE d == OpcDiff(NoVars, 0, NoInfo, Argument, [NoUnits EXCEPT ![x] = Argument])
             within == total[exec.contract] + Argument <= tokenDB[exec.contract]["max"]
  <2>3. Failed(Refusals) \/ (Argument \in Longs /\ within /\ Advanced(d, exec.data))
    BY <1>1, <1>2, <2>1, <2>2, DepositRuns DEF Argument
  <2>4. ASSUME Argument \in Longs, within, Advanced(d, exec.data) PROVE PlaceInv'
    <3>2. d \in Diffs
      BY <2>2, <2>4, ConstantsAssumption DEF Diffs, NoVars, NoInfo, NoUnits, OpcDiff, Longs, StateVars, TokenKeys
    <3> HIDE DEF d
    <3>3. /\ Guarded("issuer")' /\ exec'.pc = 4 /\ exec'.diff = d /\ exec'.data = exec.data
          /\ exec' # Idle /\ exec'.status = "Success" /\ exec'.func = f
          /\ exec'.contract = exec.contract /\ UNCHANGED state
      BY <1>2, <1>4, <2>4, <3>2, GuardEnds DEF IssuePlace
    <3>4. Argument' = Argument /\ x' = x
      BY <3>3 DEF Argument, Variable, state
    <3>5. exec'.diff = OpcDiff(NoVars, 0, NoInfo, Argument', [NoUnits EXCEPT ![x'] = Argument'])
      BY <3>3, <3>4 DEF d
    <3>6. total'[exec'.contract] + Argument' <= tokenDB'[exec'.contract]["max"]
      BY <2>4, <3>3, <3>4 DEF state
    <3>7. IssuePlace'
      BY <2>4, <3>3, <3>4, <3>5, <3>6 DEF IssuePlace
    <3> QED BY <1>1, <3>3, <3>7 DEF PlaceInv, Placed, Queries
  <2> QED BY <2>3, <2>4, FailedPlaced
<1> QED BY <1>2, <1>3, <1>4

LEMMA DestroySteps ==
  ASSUME In(DestroyFunc)
  PROVE  PlaceInv'
<1> DEFINE f == DestroyFunc
           x == Variable("issuer")
<1>1. /\ f.params = <<"Amount">> /\ Len(f.code) = 3 /\ f.name = "destroy" /\ f # InitFunc
      /\ f.code[1] = Op("CDBVRGet", <<"issuer", 1>>) /\ f.code[2] = Op("AssertIsCallerOrigin", <<1>>)
      /\ f.code[3] = Op("TDBAWithdraw", <<1, 0>>)
  BY DEF DestroyFunc, InitFunc, Func, GetIssuer, CallerIsIssuer
<1> HIDE DEF f
<1>2. In(f) /\ exec.func = f /\ DestroyPlace /\ exec.pc \in {1, 2, 3} /\ "issuer" \in StateVars
  BY <1>1 DEF f, In, Placed, Queries, Ended, DestroyPlace, Guarded, StateVars
<1>3. CASE exec.pc \in {1, 2}
  <2>1. \/ Failed(Refusals)
        \/ Advanced(NoDiff, exec'.data) /\ Guarded("issuer")' /\ exec'.pc < 4
    BY <1>1, <1>2, <1>3, GuardSteps DEF DestroyPlace
  <2>2. ASSUME Advanced(NoDiff, exec'.data), Guarded("issuer")', exec'.pc < 4 PROVE PlaceInv'
    <3>1. exec' # Idle /\ exec'.status = "Success" /\ exec'.func.name = "destroy" /\ exec'.pc # 4
      BY <1>1, <1>2, <2>2 DEF Advanced, Guarded
    <3>2. DestroyPlace'
      BY <2>2, <3>1 DEF DestroyPlace
    <3> QED BY <3>1, <3>2 DEF PlaceInv, Placed, Queries
  <2> QED BY <2>1, <2>2, FailedPlaced
<1>4. CASE exec.pc = 3
  <2>1. At("TDBAWithdraw", <<1, 0>>) /\ Len(exec.data) = 2 /\ exec.data[2] = Entry("Address", x)
    BY <1>1, <1>2, <1>4, InAt DEF DestroyPlace, Guarded, Stacked
  <2>2. exec.diff = NoDiff /\ x \in Accounts
    BY <1>1, <1>2, <1>4, <2>1, Registered DEF DestroyPlace, Guarded, Variable
  <2> DEFINE d == OpcDiff(NoVars, 0, NoInfo, -Argument, [NoUnits EXCEPT ![x] = -Argument])
             held == Argument <= balance[exec.contract][x]
  <2>3. Failed(Refusals) \/ (Argument \in Longs /\ held /\ Advanced(d, exec.data))
    BY <1>1, <1>2, <2>1, <2>2, WithdrawRuns DEF Argument
  <2>4. ASSUME Argument \in Longs, held, Advanced(d, exec.data) PROVE PlaceInv'
    <3>2. d \in Diffs
      BY <2>2, <2>4, ConstantsAssumption DEF Diffs, NoVars, NoInfo, NoUnits, OpcDiff, Longs, StateVars, TokenKeys
    <3> HIDE DEF d
    <3>3. /\ Guarded("issuer")' /\ exec'.pc = 4 /\ exec'.diff = d /\ exec'.data = exec.data
          /\ exec' # Idle /\ exec'.status = "Success" /\ exec'.func = f
          /\ exec'.contract = exec.contract /\ UNCHANGED state
      BY <1>2, <1>4, <2>4, <3>2, GuardEnds DEF DestroyPlace
    <3>4. Argument' = Argument /\ x' = x
      BY <3>3 DEF Argument, Variable, state
    <3>5. exec'.diff = OpcDiff(NoVars, 0, NoInfo, -Argument', [NoUnits EXCEPT ![x'] = -Argument'])
      BY <3>3, <3>4 DEF d
    <3>6. Argument' <= balance'[exec'.contract][x']
      BY <2>4, <3>3, <3>4 DEF state
    <3>7. DestroyPlace'
      BY <2>4, <3>3, <3>4, <3>5, <3>6 DEF DestroyPlace
    <3> QED BY <1>1, <3>3, <3>7 DEF PlaceInv, Placed, Queries
  <2> QED BY <2>3, <2>4, FailedPlaced
<1> QED BY <1>2, <1>3, <1>4

LEMMA SplitSteps ==
  ASSUME In(SplitFunc)
  PROVE  PlaceInv'
<1> DEFINE f == SplitFunc
<1>1. /\ f.params = <<"Amount">> /\ Len(f.code) = 3 /\ f.name = "split" /\ f # InitFunc
      /\ f.code[1] = Op("CDBVRGet", <<"issuer", 1>>) /\ f.code[2] = Op("AssertIsCallerOrigin", <<1>>)
      /\ f.code[3] = Op("TDBSplit", <<0>>)
  BY DEF SplitFunc, InitFunc, Func, GetIssuer, CallerIsIssuer
<1> HIDE DEF f
<1>2. In(f) /\ exec.func = f /\ SplitPlace /\ exec.pc \in {1, 2, 3} /\ "issuer" \in StateVars
  BY <1>1 DEF f, In, Placed, Queries, Ended, SplitPlace, Guarded, StateVars
<1>3. CASE exec.pc \in {1, 2}
  <2>1. \/ Failed(Refusals)
        \/ Advanced(NoDiff, exec'.data) /\ Guarded("issuer")' /\ exec'.pc < 4
    BY <1>1, <1>2, <1>3, GuardSteps DEF SplitPlace
  <2>2. ASSUME Advanced(NoDiff, exec'.data), Guarded("issuer")', exec'.pc < 4 PROVE PlaceInv'
    <3>1. exec' # Idle /\ exec'.status = "Success" /\ exec'.func.name = "split" /\ exec'.pc # 4
          /\ contracts'[exec'.contract] = contracts[exec.contract]
      BY <1>1, <1>2, <2>2 DEF Advanced, Guarded, state
    <3>2. SplitPlace'
      BY <1>2, <2>2, <3>1 DEF SplitPlace
    <3> QED BY <3>1, <3>2 DEF PlaceInv, Placed, Queries
  <2> QED BY <2>1, <2>2, FailedPlaced
<1>4. CASE exec.pc = 3
  <2>1. At("TDBSplit", <<0>>) /\ Len(exec.data) = 2 /\ exec.diff = NoDiff
    BY <1>1, <1>2, <1>4, InAt DEF SplitPlace, Guarded, Stacked
  <2> DEFINE d == OpcDiff(NoVars, 0, [NoInfo EXCEPT !["unity"] = Argument], 0, NoUnits)
  <2>2. Failed(Refusals) \/ (Argument \in Longs \ {0} /\ Advanced(d, exec.data))
    BY <1>1, <1>2, <2>1, SplitRuns DEF Argument
  <2>3. ASSUME Argument \in Longs \ {0}, Advanced(d, exec.data) PROVE PlaceInv'
    <3>2. d \in Diffs
      BY <2>3, ConstantsAssumption DEF Diffs, NoVars, NoInfo, NoUnits, OpcDiff, Longs, StateVars, TokenKeys
    <3> HIDE DEF d
    <3>3. /\ Guarded("issuer")' /\ exec'.pc = 4 /\ exec'.diff = d /\ exec'.data = exec.data
          /\ exec' # Idle /\ exec'.status = "Success" /\ exec'.func = f
          /\ exec'.contract = exec.contract /\ UNCHANGED state
      BY <1>2, <1>4, <2>3, <3>2, GuardEnds DEF SplitPlace
    <3>4. Argument' = Argument /\ contracts'[exec'.contract] = contracts[exec.contract]
      BY <3>3 DEF Argument, state
    <3>5. exec'.diff = OpcDiff(NoVars, 0, [NoInfo EXCEPT !["unity"] = Argument'], 0, NoUnits)
      BY <3>3, <3>4 DEF d
    <3>6. SplitPlace'
      BY <1>2, <2>3, <3>3, <3>4, <3>5 DEF SplitPlace
    <3> QED BY <1>1, <3>3, <3>6 DEF PlaceInv, Placed, Queries
  <2> QED BY <2>2, <2>3, FailedPlaced
<1> QED BY <1>2, <1>3, <1>4

LEMMA BegunGrows ==
  ASSUME exec \in Jobs,
         \A i \in {1, 2} : exec.data[i].value \in Longs
  PROVE  /\ Begun(1) = NoDiff /\ Begun(2) = NoDiff
         /\ \A v \in {"issuer", "maker"} :
               OpcDiff([NoVars EXCEPT ![v] = exec.signer], 0, NoInfo, 0, NoUnits) \in Diffs
         /\ Combine(Begun(2), OpcDiff([NoVars EXCEPT !["issuer"] = exec.signer], 0, NoInfo, 0, NoUnits))
               = Begun(3)
         /\ Combine(Begun(3), OpcDiff([NoVars EXCEPT !["maker"] = exec.signer], 0, NoInfo, 0, NoUnits))
               = Begun(4)
         /\ Combine(Begun(4), OpcDiff(NoVars, 1, [max |-> exec.data[1].value, unity |-> exec.data[2].value],
                                      0, NoUnits))
               = Begun(5)
<1> DEFINE s == exec.signer
           new == [max |-> exec.data[1].value, unity |-> exec.data[2].value]
           vars3 == [v \in StateVars |-> IF v = "issuer" THEN s ELSE Undefined]
           vars4 == [v \in StateVars |-> s]
<1>1. s \in Accounts /\ s # Undefined
  BY ConstantsAssumption DEF Jobs
<1>2. /\ Begun(1) = OpcDiff(NoVars, 0, NoInfo, 0, NoUnits)
      /\ Begun(2) = OpcDiff(NoVars, 0, NoInfo, 0, NoUnits)
      /\ Begun(3) = OpcDiff(vars3, 0, NoInfo, 0, NoUnits)
      /\ Begun(4) = OpcDiff(vars4, 0, NoInfo, 0, NoUnits)
      /\ Begun(5) = OpcDiff(vars4, 1, new, 0, NoUnits)
  <2>1. [v \in StateVars |-> IF (v = "issuer" /\ 1 > 2) \/ (v = "maker" /\ 1 > 3) THEN s ELSE Undefined]
        = NoVars
    BY DEF NoVars
  <2>2. [v \in StateVars |-> IF (v = "issuer" /\ 2 > 2) \/ (v = "maker" /\ 2 > 3) THEN s ELSE Undefined]
        = NoVars
    BY DEF NoVars
  <2>3. [v \in StateVars |-> IF (v = "issuer" /\ 3 > 2) \/ (v = "maker" /\ 3 > 3) THEN s ELSE Undefined]
        = vars3
    OBVIOUS
  <2>4. [v \in StateVars |-> IF (v = "issuer" /\ 4 > 2) \/ (v = "maker" /\ 4 > 3) THEN s ELSE Undefined]
        = vars4
    BY DEF StateVars
  <2>5. [v \in StateVars |-> IF (v = "issuer" /\ 5 > 2) \/ (v = "maker" /\ 5 > 3) THEN s ELSE Undefined]
        = vars4
    BY DEF StateVars
  <2> HIDE DEF vars3, vars4
  <2> QED BY <2>1, <2>2, <2>3, <2>4, <2>5 DEF Begun
<1>3. /\ Override(NoVars, [NoVars EXCEPT !["issuer"] = s]) = vars3
      /\ Override(vars3, [NoVars EXCEPT !["maker"] = s]) = vars4
      /\ Override(vars4, NoVars) = vars4
  BY <1>1 DEF Override, NoVars, StateVars
<1>4. Override(NoInfo, NoInfo) = NoInfo /\ Override(NoInfo, new) = new
  <2>1. new.max # Undefined /\ new.unity # Undefined
    BY ConstantsAssumption DEF Longs
  <2> QED BY <2>1 DEF Override, NoInfo, TokenKeys
<1>5. [a \in Accounts |-> NoUnits[a] + NoUnits[a]] = NoUnits
  BY DEF NoUnits
<1>6. \A v \in {"issuer", "maker"} :
         OpcDiff([NoVars EXCEPT ![v] = s], 0, NoInfo, 0, NoUnits) \in Diffs
  BY <1>1, ConstantsAssumption DEF Diffs, NoVars, NoInfo, NoUnits, OpcDiff, Longs, StateVars, TokenKeys
<1> HIDE DEF vars3, vars4, new
<1>7. Begun(1) = NoDiff /\ Begun(2) = NoDiff
  BY <1>2 DEF NoDiff
<1>8. Combine(Begun(2), OpcDiff([NoVars EXCEPT !["issuer"] = s], 0, NoInfo, 0, NoUnits)) = Begun(3)
  BY <1>2, <1>3, <1>4, <1>5 DEF Combine, OpcDiff
<1>9. Combine(Begun(3), OpcDiff([NoVars EXCEPT !["maker"] = s], 0, NoInfo, 0, NoUnits)) = Begun(4)
  BY <1>2, <1>3, <1>4, <1>5 DEF Combine, OpcDiff
<1>10. Combine(Begun(4), OpcDiff(NoVars, 1, new, 0, NoUnits)) = Begun(5)
  BY <1>2, <1>3, <1>4, <1>5 DEF Combine, OpcDiff
<1> QED BY <1>6, <1>7, <1>8, <1>9, <1>10 DEF new

LEMMA InitSteps ==
  ASSUME In(InitFunc)
  PROVE  PlaceInv'
<1> DEFINE f == InitFunc
<1>1. /\ f.params = <<"Amount", "Amount", "ShortText">> /\ Len(f.code) = 4 /\ f.name = "init"
      /\ f.code[1] = Op("Load", <<3>>) /\ f.code[2] = Op("CDBVSet", <<"issuer", 3>>)
      /\ f.code[3] = Op("CDBVSet", <<"maker", 3>>) /\ f.code[4] = Op("TDBNewToken", <<0, 1, 2>>)
      /\ Len(f.params) = 3
  BY DEF InitFunc, Func
<1> HIDE DEF f
<1>2. In(f) /\ exec.func = f /\ InitPlace /\ exec.pc \in {1, 2, 3, 4} /\ exec \in Jobs
  BY <1>1 DEF f, In, Placed, Queries, Ended, InitPlace, BooksInv, Types
<1>3. exec.data \in Seq(Entries) /\ Len(exec.data) \in Nat
  BY <1>2, LenProperties DEF Jobs
<1>4. Stacked(3) \/ Stacked(4)
  BY <1>2 DEF InitPlace
<1>5. \A i \in {1, 2} : exec.data[i].value \in Longs
  <2>0. exec.func.params[1] = "Amount" /\ exec.func.params[2] = "Amount" /\ Len(exec.func.params) = 3
    BY <1>1, <1>2
  <2>1. exec.data[1].type = "Amount" /\ exec.data[2].type = "Amount" /\ Len(exec.data) >= 3
    <3>1. \A i \in {1, 2} : i \in 1 .. Len(exec.func.params) /\ exec.func.params[i] # "Account"
      BY <2>0
    <3> QED BY <1>4, <2>0, <3>1 DEF Stacked
  <2>2. exec.data[1] \in Entries /\ exec.data[2] \in Entries
    BY <1>3, <2>1
  <2> QED BY <2>1, <2>2 DEF Entries
<1>6. ASSUME NEW d, Advanced(d, exec.data), Combine(exec.diff, d) = Begun(exec.pc + 1), Stacked(4),
             exec.data[4] = Entry("Address", exec.signer),
             exec.pc \in {2, 3, 4}, exec.pc = 4 => exec.data[2].value > 0
      PROVE  PlaceInv'
  <2>1. Stacked(4)'
    BY <1>6, StackStays
  <2>2. exec'.pc = exec.pc + 1 /\ exec'.diff = Combine(exec.diff, d) /\ exec'.data = exec.data
        /\ exec'.signer = exec.signer /\ exec' # Idle /\ exec'.status = "Success"
        /\ exec'.func = f
    BY <1>2, <1>6 DEF Advanced
  <2>3. exec'.diff = Begun(exec.pc)'
    BY <1>6, <2>2 DEF Begun
  <2>4. InitPlace'
    BY <1>6, <2>1, <2>2, <2>3 DEF InitPlace
  <2> QED BY <1>1, <2>2, <2>4 DEF PlaceInv, Placed, Queries
<1>7. CASE exec.pc = 1
  <2> DEFINE e == Entry("Address", exec.signer)
  <2>1. At("Load", <<3>>) /\ Stacked(3) /\ Len(exec.data) = 3 /\ exec.diff = NoDiff
    BY <1>1, <1>2, <1>5, <1>7, InAt, BegunGrows DEF InitPlace, Stacked
  <2>2. Advanced(NoDiff, Append(exec.data, e))
    <3>1. Advanced(NoDiff, Patch(3, e))
      BY <2>1, LoadRuns
    <3>2. Patch(3, e) = Append(exec.data, e)
      BY <2>1 DEF Patch
    <3> QED BY <3>1, <3>2
  <2> HIDE DEF e
  <2>3. Stacked(4)' /\ exec'.data[4] = e /\ exec'.data[1] = exec.data[1] /\ exec'.data[2] = exec.data[2]
    BY <1>1, <1>2, <1>3, <2>1, <2>2, StackGrows
  <2>4. exec'.pc = 2 /\ exec'.diff = NoDiff
        /\ exec'.signer = exec.signer /\ exec' # Idle /\ exec'.status = "Success"
        /\ exec'.func = f
    BY <1>2, <1>7, <2>1, <2>2, NothingCombine, NoDiffType DEF Advanced
  <2>5. Begun(2) = NoDiff
    BY <1>2, <1>5, BegunGrows
  <2>6. exec'.diff = Begun(exec.pc)'
    BY <2>3, <2>4, <2>5 DEF Begun
  <2>7. InitPlace'
    BY <2>3, <2>4, <2>6 DEF InitPlace, e
  <2> QED BY <1>1, <2>4, <2>7 DEF PlaceInv, Placed, Queries
<1>8. CASE exec.pc \in {2, 3}
  <2>1. Stacked(4) /\ Len(exec.data) = 4 /\ exec.data[4] = Entry("Address", exec.signer)
    BY <1>8, <1>2 DEF InitPlace, Stacked
  <2>2. exec.data[4].value = exec.signer
    BY <2>1 DEF Entry
  <2>3. PICK v \in {"issuer", "maker"} :
           At("CDBVSet", <<v, 3>>) /\ (exec.pc = 2 => v = "issuer") /\ (exec.pc = 3 => v = "maker")
    BY <1>1, <1>2, <1>8, InAt
  <2> DEFINE d == OpcDiff([NoVars EXCEPT ![v] = exec.signer], 0, NoInfo, 0, NoUnits)
  <2>4. Failed(Refusals) \/ Advanced(d, exec.data)
    <3>1. At("CDBVSet", <<v, 3>>) /\ 3 < Len(exec.data) /\ 3 \in Nat /\ exec.data[3 + 1] = exec.data[4]
      BY <2>1, <2>3
    <3> QED BY <2>2, <3>1, SetRuns
  <2>5. Combine(Begun(exec.pc), d) = Begun(exec.pc + 1)
    <3>1. CASE exec.pc = 2
      <4>1. v = "issuer" /\ Combine(Begun(2), OpcDiff([NoVars EXCEPT !["issuer"] = exec.signer],
                                                     0, NoInfo, 0, NoUnits)) = Begun(3)
        BY <1>2, <1>5, <2>3, <3>1, BegunGrows
      <4> QED BY <3>1, <4>1
    <3>2. CASE exec.pc = 3
      <4>1. v = "maker" /\ Combine(Begun(3), OpcDiff([NoVars EXCEPT !["maker"] = exec.signer],
                                                    0, NoInfo, 0, NoUnits)) = Begun(4)
        BY <1>2, <1>5, <2>3, <3>2, BegunGrows
      <4> QED BY <3>2, <4>1
    <3> QED BY <1>8, <3>1, <3>2
  <2>6. Combine(exec.diff, d) = Begun(exec.pc + 1) /\ exec.pc # 4
    BY <1>2, <1>8, <2>5 DEF InitPlace
  <2> HIDE DEF d
  <2> QED BY <1>6, <1>8, <2>1, <2>4, <2>6, FailedPlaced
<1>9. CASE exec.pc = 4
  <2>1. Stacked(4) /\ Len(exec.data) = 4 /\ exec.data[4] = Entry("Address", exec.signer)
        /\ At("TDBNewToken", <<0, 1, 2>>) /\ exec.diff = Begun(4)
    BY <1>1, <1>2, <1>9, InAt DEF InitPlace, Stacked
  <2> DEFINE d == OpcDiff(NoVars, 1, [max |-> exec.data[1].value, unity |-> exec.data[2].value],
                          0, NoUnits)
  <2>2. Failed(Refusals) \/ (exec.data[2].value > 0 /\ Advanced(d, exec.data))
    BY <2>1, NewTokenRuns
  <2>3. Combine(exec.diff, d) = Begun(exec.pc + 1)
    BY <1>2, <1>5, <1>9, <2>1, BegunGrows
  <2> HIDE DEF d
  <2> QED BY <1>6, <1>9, <2>1, <2>2, <2>3, FailedPlaced
<1> QED BY <1>2, <1>7, <1>8, <1>9

LEMMA TransferDiffType ==
  ASSUME NEW a \in Accounts, NEW b \in Accounts, NEW n \in Longs
  PROVE  TransferDiff(a, b, n) \in Diffs
<1>1. CASE a = b
  BY <1>1, NoDiffType DEF TransferDiff
<1>2. CASE a # b
  <2>1. [NoUnits EXCEPT ![a] = -n, ![b] = n] \in [Accounts -> Int]
    BY ConstantsAssumption DEF NoUnits, Longs
  <2>2. NoVars \in [StateVars -> Accounts \cup {Undefined}]
        /\ NoInfo \in [TokenKeys -> Longs \cup {Undefined}]
    BY DEF NoVars, NoInfo
  <2> QED BY <1>2, <2>1, <2>2 DEF TransferDiff, OpcDiff, Diffs
<1> QED BY <1>1, <1>2

\* The transfer that ends send and transfer leaves the account of the signer.
LEMMA SendEnds ==
  ASSUME NEW f, In(f), f # InitFunc, exec.diff = NoDiff,
         NEW i \in 0 .. 2, NEW j \in 0 .. 2, NEW k \in 0 .. 2, At("TDBATransfer", <<i, j, k>>),
         Stacked(3), exec.data[i + 1] = Entry("Address", exec.signer)
  PROVE  \/ Failed(Refusals)
         \/ /\ Sent' /\ Stacked(3)' /\ exec'.pc = exec.pc + 1 /\ exec'.data = exec.data
            /\ exec'.signer = exec.signer /\ exec' # Idle /\ exec'.status = "Success"
            /\ exec'.func = f
<1>1. i \in Nat /\ j \in Nat /\ k \in Nat /\ i < Len(exec.data) /\ j < Len(exec.data)
      /\ k < Len(exec.data) /\ exec.func = f /\ exec.func # InitFunc
  BY DEF Stacked, In
<1>2. \/ Failed(Refusals)
      \/ \E a, b \in Accounts, n \in Longs :
            /\ exec.data[i + 1] = Entry("Address", a) /\ exec.data[j + 1] = Entry("Address", b)
            /\ n <= balance[exec.contract][a]
            /\ Advanced(TransferDiff(a, b, n), exec.data)
  BY <1>1, TransferRuns
<1>3. ASSUME NEW a \in Accounts, NEW b \in Accounts, NEW n \in Longs,
             exec.data[i + 1] = Entry("Address", a), n <= balance[exec.contract][a],
             Advanced(TransferDiff(a, b, n), exec.data)
      PROVE  /\ Sent' /\ Stacked(3)' /\ exec'.pc = exec.pc + 1 /\ exec'.data = exec.data
             /\ exec'.signer = exec.signer /\ exec' # Idle /\ exec'.status = "Success"
             /\ exec'.func = f
  <2>1. a = exec.signer
    BY <1>3 DEF Entry
  <2> DEFINE d == TransferDiff(a, b, n)
  <2>2. Combine(NoDiff, d) = d
    BY TransferDiffType, NothingCombine
  <2>3. exec'.diff = d
    BY <1>3, <2>2 DEF Advanced
  <2>4. Stacked(3)'
    BY <1>3, StackStays
  <2>5. exec'.pc = exec.pc + 1 /\ exec'.data = exec.data /\ exec'.signer = exec.signer
        /\ exec' # Idle /\ exec'.status = "Success" /\ exec'.func = f
        /\ exec'.contract = exec.contract /\ balance' = balance
    BY <1>1, <1>3 DEF Advanced, state
  <2>6. exec'.diff = TransferDiff(exec'.signer, b, n)
        /\ n <= balance'[exec'.contract][exec'.signer]
    BY <1>3, <2>1, <2>3, <2>5
  <2>7. Sent'
    BY <2>6 DEF Sent, TransferDiff
  <2> QED BY <2>4, <2>5, <2>7
<1> QED BY <1>2, <1>3

LEMMA SendSteps ==
  ASSUME In(SendFunc)
  PROVE  PlaceInv'
<1> DEFINE f == SendFunc
<1>1. /\ f.params = <<"Account", "Amount">> /\ Len(f.code) = 2 /\ f.name = "send" /\ f # InitFunc
      /\ f.code[1] = Op("Load", <<2>>) /\ f.code[2] = Op("TDBATransfer", <<2, 0, 1>>)
      /\ Len(f.params) = 2
  BY DEF SendFunc, InitFunc, Func
<1> HIDE DEF f
<1>2. In(f) /\ exec.func = f /\ SendPlace /\ exec.pc \in {1, 2} /\ exec.diff = NoDiff
  BY <1>1 DEF f, In, Placed, Queries, Ended, SendPlace
<1>3. CASE exec.pc = 1
  <2> DEFINE e == Entry("Address", exec.signer)
  <2>1. At("Load", <<2>>) /\ Stacked(2) /\ Len(exec.data) = 2
    BY <1>1, <1>2, <1>3, InAt DEF SendPlace, Stacked
  <2>2. Advanced(NoDiff, Append(exec.data, e))
    <3>1. Advanced(NoDiff, Patch(2, e))
      BY <2>1, LoadRuns
    <3>2. Patch(2, e) = Append(exec.data, e)
      BY <2>1 DEF Patch
    <3> QED BY <3>1, <3>2
  <2> HIDE DEF e
  <2>3. Stacked(3)' /\ exec'.data[3] = e
    BY <1>1, <1>2, <2>1, <2>2, AtFacts, StackGrows
  <2>4. exec'.pc = 2 /\ exec'.diff = NoDiff
        /\ exec'.signer = exec.signer /\ exec' # Idle /\ exec'.status = "Success"
        /\ exec'.func = f
    BY <1>2, <1>3, <2>2, NothingCombine, NoDiffType DEF Advanced
  <2>5. SendPlace'
    BY <2>3, <2>4 DEF SendPlace, e
  <2> QED BY <1>1, <2>4, <2>5 DEF PlaceInv, Placed, Queries
<1>4. CASE exec.pc = 2
  <2>1. At("TDBATransfer", <<2, 0, 1>>) /\ Stacked(3) /\ exec.data[3] = Entry("Address", exec.signer)
    BY <1>1, <1>2, <1>4, InAt DEF SendPlace
  <2>2. \/ Failed(Refusals)
        \/ /\ Sent' /\ Stacked(3)' /\ exec'.pc = exec.pc + 1 /\ exec'.data = exec.data
           /\ exec'.signer = exec.signer /\ exec' # Idle /\ exec'.status = "Success"
           /\ exec'.func = f
    <3>1. 2 \in 0 .. 2 /\ 0 \in 0 .. 2 /\ 1 \in 0 .. 2 /\ exec.data[2 + 1] = Entry("Address", exec.signer)
      BY <2>1
    <3> QED BY <1>1, <1>2, <2>1, <3>1, SendEnds
  <2>3. ASSUME Sent', Stacked(3)', exec'.pc = exec.pc + 1, exec'.data = exec.data,
               exec'.signer = exec.signer, exec' # Idle, exec'.status = "Success",
               exec'.func = f
        PROVE  PlaceInv'
    <3>1. SendPlace'
      BY <1>4, <2>1, <2>3 DEF SendPlace
    <3> QED BY <1>1, <2>3, <3>1 DEF PlaceInv, Placed, Queries
  <2> QED BY <2>2, <2>3, FailedPlaced
<1> QED BY <1>2, <1>3, <1>4

LEMMA TransferSteps ==
  ASSUME In(TransferFunc)
  PROVE  PlaceInv'
<1> DEFINE f == TransferFunc
<1>1. /\ Len(f.code) = 2 /\ f.name = "transfer" /\ f # InitFunc
      /\ f.code[1] = Op("AssertIsCallerOrigin", <<0>>) /\ f.code[2] = Op("TDBATransfer", <<0, 1, 2>>)
  BY DEF TransferFunc, InitFunc, Func
<1> HIDE DEF f
<1>2. In(f) /\ exec.func = f /\ TransferPlace /\ exec.pc \in {1, 2} /\ exec.diff = NoDiff
      /\ Stacked(3) /\ Len(exec.data) = 3
  BY <1>1 DEF f, In, Placed, Queries, Ended, TransferPlace, Stacked
<1>3. CASE exec.pc = 1
  <2>1. At("AssertIsCallerOrigin", <<0>>)
    BY <1>1, <1>2, <1>3, InAt
  <2>2. \/ Failed(Refusals)
        \/ Advanced(NoDiff, exec.data) /\ exec.data[1] = Entry("Address", exec.signer)
    <3>1. At("AssertIsCallerOrigin", <<0>>) /\ 0 \in Nat /\ 0 < Len(exec.data) /\ 0 + 1 = 1
      BY <1>2, <2>1
    <3>2. \/ Failed(Refusals)
          \/ Advanced(NoDiff, exec.data) /\ exec.data[0 + 1] = Entry("Address", exec.signer)
      BY <3>1, AssertRuns
    <3> QED BY <3>1, <3>2
  <2>3. ASSUME Advanced(NoDiff, exec.data), exec.data[1] = Entry("Address", exec.signer)
        PROVE  PlaceInv'
    <3>1. Stacked(3)'
      BY <1>2, <2>3, StackStays
    <3>2. exec'.pc = 2 /\ exec'.diff = NoDiff /\ exec'.data = exec.data
          /\ exec'.signer = exec.signer /\ exec' # Idle /\ exec'.status = "Success"
          /\ exec'.func = f
      BY <1>2, <1>3, <2>3, NothingCombine, NoDiffType DEF Advanced
    <3>3. TransferPlace'
      BY <2>3, <3>1, <3>2 DEF TransferPlace
    <3> QED BY <1>1, <3>2, <3>3 DEF PlaceInv, Placed, Queries
  <2> QED BY <2>2, <2>3, FailedPlaced
<1>4. CASE exec.pc = 2
  <2>1. At("TDBATransfer", <<0, 1, 2>>) /\ exec.data[1] = Entry("Address", exec.signer)
    BY <1>1, <1>2, <1>4, InAt DEF TransferPlace
  <2>2. \/ Failed(Refusals)
        \/ /\ Sent' /\ Stacked(3)' /\ exec'.pc = exec.pc + 1 /\ exec'.data = exec.data
           /\ exec'.signer = exec.signer /\ exec' # Idle /\ exec'.status = "Success"
           /\ exec'.func = f
    <3>1. 2 \in 0 .. 2 /\ 0 \in 0 .. 2 /\ 1 \in 0 .. 2 /\ exec.data[0 + 1] = Entry("Address", exec.signer)
      BY <2>1
    <3> QED BY <1>1, <1>2, <2>1, <3>1, SendEnds
  <2>3. ASSUME Sent', Stacked(3)', exec'.pc = exec.pc + 1, exec'.data = exec.data,
               exec'.signer = exec.signer, exec' # Idle, exec'.status = "Success",
               exec'.func = f
        PROVE  PlaceInv'
    <3>1. TransferPlace'
      BY <1>4, <2>1, <2>3 DEF TransferPlace
    <3> QED BY <1>1, <2>3, <3>1 DEF PlaceInv, Placed, Queries
  <2> QED BY <2>2, <2>3, FailedPlaced
<1> QED BY <1>2, <1>3, <1>4

\* A deposit or a withdrawal meets an account that is a contract's.
LEMMA BarredSteps ==
  ASSUME NEW f \in {DepositFunc, WithdrawFunc}, In(f)
  PROVE  PlaceInv'
<1>1. /\ Len(f.code) = 2 /\ f.name \in {"deposit", "withdraw"} /\ f # InitFunc
      /\ Len(f.params) = 3
      /\ f.code[1] \in {Op("AssertIsCallerOrigin", <<0>>), Op("AssertIsCallerOrigin", <<1>>)}
      /\ f.code[2] = Op("TDBATransfer", <<0, 1, 2>>)
      /\ f.params[1] = "ContractAccount" \/ f.params[2] = "ContractAccount"
  <2>1. CASE f = DepositFunc
    BY <2>1 DEF DepositFunc, InitFunc, Func
  <2>2. CASE f = WithdrawFunc
    BY <2>2 DEF WithdrawFunc, InitFunc, Func
  <2> QED BY <2>1, <2>2
<1>2. exec.func = f /\ BarredPlace /\ exec.pc \in {1, 2} /\ exec.diff = NoDiff
      /\ Stacked(3) /\ Len(exec.data) = 3
  BY <1>1 DEF In, Placed, Queries, BarredPlace, Stacked
<1>3. CASE exec.pc = 1
  <2>1. PICK i \in {0, 1} : At("AssertIsCallerOrigin", <<i>>)
    BY <1>1, <1>3, InAt
  <2>2. Failed(Refusals) \/ Advanced(NoDiff, exec.data)
    <3>1. At("AssertIsCallerOrigin", <<i>>) /\ i \in Nat /\ i < Len(exec.data)
      BY <1>2, <2>1
    <3> QED BY <3>1, AssertRuns
  <2>3. ASSUME Advanced(NoDiff, exec.data) PROVE PlaceInv'
    <3>1. Stacked(3)'
      BY <1>2, <2>3, StackStays
    <3>2. exec'.pc = 2 /\ exec'.diff = NoDiff /\ exec' # Idle /\ exec'.status = "Success"
          /\ exec'.func = f
      BY <1>2, <1>3, <2>3, NothingCombine, NoDiffType DEF Advanced
    <3>3. BarredPlace'
      BY <3>1, <3>2 DEF BarredPlace
    <3> QED BY <1>1, <3>2, <3>3 DEF PlaceInv, Placed, Queries
  <2> QED BY <2>2, <2>3, FailedPlaced
<1>4. CASE exec.pc = 2
  <2>1. At("TDBATransfer", <<0, 1, 2>>)
    BY <1>1, <1>4, InAt
  <2>2. exec.data[1].type = "ContractAccount" \/ exec.data[2].type = "ContractAccount"
    <3>1. Len(exec.func.params) = 3
      BY <1>1, <1>2
    <3>2. \A i \in {1, 2} : i \in 1 .. Len(exec.func.params)
      BY <3>1
    <3>3. \E i \in {1, 2} : exec.func.params[i] = "ContractAccount"
      BY <1>1, <1>2
    <3> QED BY <1>2, <3>2, <3>3 DEF Stacked
  <2>3. Failed(Refusals)
    <3>1. \/ Failed(Refusals)
          \/ \E a, b \in Accounts, n \in Longs :
                /\ exec.data[0 + 1] = Entry("Address", a) /\ exec.data[1 + 1] = Entry("Address", b)
                /\ n <= balance[exec.contract][a]
                /\ Advanced(TransferDiff(a, b, n), exec.data)
      <4>1. 0 \in Nat /\ 1 \in Nat /\ 2 \in Nat /\ 0 < Len(exec.data) /\ 1 < Len(exec.data)
            /\ 2 < Len(exec.data)
        BY <1>2
      <4>2. exec.func # InitFunc
        BY <1>1, <1>2
      <4> QED BY <1>2, <2>1, <4>1, <4>2, TransferRuns
    <3>2. ASSUME NEW a \in Accounts, NEW b \in Accounts,
                 exec.data[0 + 1] = Entry("Address", a), exec.data[1 + 1] = Entry("Address", b)
          PROVE  FALSE
      BY <2>2, <3>2 DEF Entry
    <3> QED BY <3>1, <3>2
  <2> QED BY <2>3, FailedPlaced
<1> QED BY <1>2, <1>3, <1>4

\* A query ends at the opcode that would return its value.
LEMMA QuerySteps ==
  ASSUME NEW f \in {TotalSupplyFunc, MaxSupplyFunc, BalanceOfFunc, GetIssuerFunc}, In(f)
  PROVE  PlaceInv'
<1>1. /\ Len(f.code) = 2 /\ f.name \in Queries /\ f # InitFunc /\ Len(f.params) \in {0, 1}
      /\ f.code[2] \in {Op("Return", <<0>>), Op("Return", <<1>>)}
      /\ \/ f.code[1] = Op("TDBRTotal", <<0>>) /\ Len(f.params) = 0
         \/ f.code[1] = Op("TDBRMax", <<0>>) /\ Len(f.params) = 0
         \/ f.code[1] = Op("TDBARBalance", <<0, 1>>) /\ Len(f.params) = 1
         \/ f.code[1] = Op("CDBVRGet", <<"issuer", 0>>) /\ Len(f.params) = 0
  <2>1. CASE f = TotalSupplyFunc
    BY <2>1 DEF TotalSupplyFunc, InitFunc, Func, Queries
  <2>2. CASE f = MaxSupplyFunc
    BY <2>2 DEF MaxSupplyFunc, InitFunc, Func, Queries
  <2>3. CASE f = BalanceOfFunc
    BY <2>3 DEF BalanceOfFunc, InitFunc, Func, Queries
  <2>4. CASE f = GetIssuerFunc
    BY <2>4 DEF GetIssuerFunc, InitFunc, Func, Queries
  <2> QED BY <2>1, <2>2, <2>3, <2>4
<1>2. exec.func = f /\ QueryPlace /\ exec.pc \in {1, 2} /\ exec.diff = NoDiff
  BY <1>1 DEF In, Placed, Queries, QueryPlace
<1>3. CASE exec.pc = 1
  <2>1. Stacked(Len(f.params)) /\ Len(exec.data) = Len(f.params)
    BY <1>1, <1>2, <1>3 DEF QueryPlace, Stacked
  <2>2. Failed(Refusals) \/ \E e : Advanced(NoDiff, Append(exec.data, e))
    <3>1. CASE f.code[1] = Op("CDBVRGet", <<"issuer", 0>>) /\ Len(f.params) = 0
      <4>1. At("CDBVRGet", <<"issuer", 0>>) /\ 0 \in 0 .. Len(exec.data) /\ "issuer" \in StateVars
        BY <1>3, <2>1, <3>1, InAt DEF StateVars
      <4>2. Advanced(NoDiff, Patch(0, Entry("Address", Variable("issuer"))))
        BY <1>1, <1>2, <4>1, GetRuns
      <4>3. Patch(0, Entry("Address", Variable("issuer")))
            = Append(exec.data, Entry("Address", Variable("issuer")))
        BY <2>1, <3>1 DEF Patch
      <4> QED BY <4>2, <4>3
    <3>2. CASE f.code[1] = Op("TDBRTotal", <<0>>) /\ Len(f.params) = 0
      BY <1>1, <1>2, <1>3, <2>1, <3>2, InAt, QueryRuns
    <3>3. CASE f.code[1] = Op("TDBRMax", <<0>>) /\ Len(f.params) = 0
      BY <1>1, <1>2, <1>3, <2>1, <3>3, InAt, QueryRuns
    <3>4. CASE f.code[1] = Op("TDBARBalance", <<0, 1>>) /\ Len(f.params) = 1
      BY <1>1, <1>2, <1>3, <2>1, <3>4, InAt, QueryRuns
    <3> QED BY <1>1, <3>1, <3>2, <3>3, <3>4
  <2>3. ASSUME NEW e, Advanced(NoDiff, Append(exec.data, e)) PROVE PlaceInv'
    <3>1. exec.data \in Seq(Entries)
      BY DEF In, BooksInv, Types, Jobs
    <3>2. Stacked(Len(f.params) + 1)'
      BY <1>1, <1>2, <2>1, <2>3, <3>1, StackGrows
    <3>3. exec'.pc = 2 /\ exec'.diff = NoDiff /\ exec' # Idle /\ exec'.status = "Success"
          /\ exec'.func = f
      BY <1>2, <1>3, <2>3, NothingCombine, NoDiffType DEF Advanced
    <3>4. QueryPlace'
      BY <1>1, <3>2, <3>3 DEF QueryPlace
    <3> QED BY <1>1, <3>3, <3>4 DEF PlaceInv, Placed, Queries
  <2> QED BY <2>2, <2>3, FailedPlaced
<1>4. CASE exec.pc = 2
  <2>1. Failed({"ContractUnsupportedOPC"})
    BY <1>1, <1>4, InAt, ReturnRuns
  <2> QED BY <1>1, <1>2, <2>1 DEF Failed, PlaceInv
<1> QED BY <1>2, <1>3, <1>4

-----------------------------------------------------------------------------
(* Every step of the program stays at its place. *)

LEMMA OpcodePlaced == BooksInv /\ PlaceInv /\ Opcode => PlaceInv'
<1> SUFFICES ASSUME BooksInv, PlaceInv, Opcode PROVE PlaceInv'
  OBVIOUS
<1> DEFINE f == exec.func
<1>1. exec # Idle /\ exec.phase = "run" /\ ~Ended
  BY DEF Opcode, Load, CDBVRGet, CDBVSet, Asserts, AssertIsCallerOrigin, AssertIsSignerOrigin,
         TDBNewToken, TDBSplit, TDBADeposit, TDBAWithdraw, TDBATransfer, TDBRTotal, TDBRMax,
         TDBARBalance, Return, Running
<1>2. exec.status = "Success" /\ f \in Funcs
  BY <1>1 DEF BooksInv, ExecSound, Types, Jobs
<1>3. Placed
  BY <1>1, <1>2 DEF PlaceInv, Refusals
<1>4. In(f)
  BY <1>1, <1>3 DEF In
<1> HIDE DEF f
<1>5. CASE f = NoFunc
  <2>1. exec.func.name = "none"
    BY <1>5 DEF f, NoFunc, Func
  <2> QED BY <1>3, <2>1 DEF Placed, Queries
<1>6. CASE f \in {DepositFunc, WithdrawFunc}
  BY <1>4, <1>6, BarredSteps
<1>7. CASE f \in {TotalSupplyFunc, MaxSupplyFunc, BalanceOfFunc, GetIssuerFunc}
  BY <1>4, <1>7, QuerySteps
<1> QED
  BY <1>2, <1>4, <1>5, <1>6, <1>7, InitSteps, SupersedeSteps, IssueSteps, DestroySteps, SplitSteps,
     SendSteps, TransferSteps DEF Funcs

\* A function is entered at its first place.
LEMMA EnterPlaced ==
  ASSUME NEW c, NEW signer, NEW kind, NEW f \in Funcs \ {NoFunc}, NEW data \in Seq(Entries),
         UNCHANGED state, f = SplitFunc => contracts[c] = "split",
         Enter("run", "Success", c, signer, kind, f, data), CheckTypes(f.params, data)
  PROVE  PlaceInv'
<1>1. /\ exec' # Idle /\ exec'.status = "Success" /\ exec'.pc = 1 /\ exec'.data = data
      /\ exec'.func = f /\ exec'.diff = NoDiff /\ exec'.contract = c
  <2>1. exec' = [phase |-> "run", status |-> "Success", contract |-> c, signer |-> signer,
                 kind |-> kind, func |-> f, pc |-> 1, data |-> data, diff |-> NoDiff]
    BY DEF Enter
  <2>2. "status" \in DOMAIN exec' /\ "status" \notin DOMAIN Idle
    BY <2>1 DEF Idle
  <2> QED BY <2>1, <2>2
<1>2. ASSUME NEW n, Len(f.params) = n PROVE Stacked(n)'
  <2>1. Len(data) \in Nat /\ n \in Nat /\ n <= n
    BY <1>2, LenProperties DEF CheckTypes
  <2> QED BY <1>1, <1>2, <2>1 DEF CheckTypes, Stacked
<1>3. Begun(1)' = NoDiff
  <2>1. [v \in StateVars |-> IF (v = "issuer" /\ 1 > 2) \/ (v = "maker" /\ 1 > 3) THEN exec'.signer
                             ELSE Undefined] = NoVars
    BY DEF NoVars
  <2> QED BY <2>1 DEF Begun, NoDiff
<1>4. CASE f = InitFunc
  <2>1. Len(f.params) = 3 /\ f.name = "init"
    BY <1>4 DEF InitFunc, Func
  <2>2. InitPlace'
    BY <1>1, <1>2, <1>3, <2>1 DEF InitPlace
  <2> QED BY <1>1, <2>1, <2>2 DEF PlaceInv, Placed, Queries
<1>5. CASE f \in {SupersedeFunc, IssueFunc, DestroyFunc, SplitFunc}
  <2>1. Len(f.params) = 1 /\ f.name \in {"supersede", "issue", "destroy", "split"}
        /\ (f.name = "split" => f = SplitFunc)
    BY <1>5 DEF SupersedeFunc, IssueFunc, DestroyFunc, SplitFunc, Func
  <2>2. Guarded("maker")' /\ Guarded("issuer")' /\ exec'.pc # 4
    BY <1>1, <1>2, <2>1 DEF Guarded
  <2>3. f.name = "split" => contracts'[exec'.contract] = "split"
    BY <1>1, <2>1 DEF state
  <2>4. SupersedePlace' /\ IssuePlace' /\ DestroyPlace' /\ (f.name = "split" => SplitPlace')
    BY <2>2, <2>3 DEF SupersedePlace, IssuePlace, DestroyPlace, SplitPlace
  <2> QED BY <1>1, <2>1, <2>4 DEF PlaceInv, Placed, Queries
<1>6. CASE f \in {SendFunc, TransferFunc, DepositFunc, WithdrawFunc}
  <2>1. \/ Len(f.params) = 2 /\ f.name = "send"
        \/ Len(f.params) = 3 /\ f.name = "transfer"
        \/ Len(f.params) = 3 /\ f.name \in {"deposit", "withdraw"}
    BY <1>6 DEF SendFunc, TransferFunc, DepositFunc, WithdrawFunc, Func
  <2>2. /\ f.name = "send" => SendPlace'
        /\ f.name = "transfer" => TransferPlace'
        /\ f.name \in {"deposit", "withdraw"} => BarredPlace'
    <3>1. CASE Len(f.params) = 2 /\ f.name = "send"
      <4>1. Stacked(2)'
        BY <1>2, <3>1
      <4> QED BY <1>1, <3>1, <4>1 DEF SendPlace
    <3>2. CASE Len(f.params) = 3 /\ f.name \in {"transfer", "deposit", "withdraw"}
      <4>1. Stacked(3)'
        BY <1>2, <3>2
      <4> QED BY <1>1, <3>2, <4>1 DEF TransferPlace, BarredPlace
    <3> QED BY <2>1, <3>1, <3>2
  <2> QED BY <1>1, <2>1, <2>2 DEF PlaceInv, Placed, Queries
<1>7. CASE f \in {TotalSupplyFunc, MaxSupplyFunc, BalanceOfFunc, GetIssuerFunc}
  <2>1. Len(f.params) \in Nat /\ f.name \in Queries
    BY <1>7 DEF TotalSupplyFunc, MaxSupplyFunc, BalanceOfFunc, GetIssuerFunc, Func, Queries
  <2>2. Len(exec'.func.params) + exec'.pc - 1 = Len(f.params)
    BY <1>1, <2>1
  <2>3. QueryPlace'
    BY <1>1, <1>2, <2>2 DEF QueryPlace
  <2> QED BY <1>1, <2>1, <2>3 DEF PlaceInv, Placed, Queries
<1> QED BY <1>4, <1>5, <1>6, <1>7 DEF Funcs

\* What is refused before the first opcode is at no place.
LEMMA EnterRefused ==
  ASSUME NEW c, NEW signer, NEW kind, NEW f, NEW data, NEW status \in Refusals,
         Enter("done", status, c, signer, kind, f, data)
  PROVE  PlaceInv'
<1>1. exec'.status = status
  BY DEF Enter
<1> QED BY <1>1 DEF PlaceInv

LEMMA OpenPlaced ==
  ASSUME NEW c, NEW signer, NEW kind, NEW f \in Funcs \ {NoFunc}, NEW data \in Seq(Entries),
         UNCHANGED state, f = SplitFunc => contracts[c] = "split", Open(c, signer, kind, f, data)
  PROVE  PlaceInv'
<1>1. CASE CheckTypes(f.params, data)
  BY <1>1, EnterPlaced DEF Open
<1>2. CASE ~CheckTypes(f.params, data)
  <2>1. "ContractDataTypeMismatch" \in Refusals
    BY DEF Refusals
  <2> QED BY <1>2, <2>1, EnterRefused DEF Open
<1> QED BY <1>1, <1>2

\* Only a contract with the split function offers it.
LEMMA DescriptorNames ==
  ASSUME NEW k \in Kinds, NEW i \in 1 .. Len(Descriptor(k))
  PROVE  Descriptor(k)[i] # NoFunc /\ (Descriptor(k)[i] = SplitFunc => k = "split")
<1> DEFINE plain == {SupersedeFunc, IssueFunc, DestroyFunc, SendFunc, TransferFunc, DepositFunc,
                     WithdrawFunc, TotalSupplyFunc, MaxSupplyFunc, BalanceOfFunc, GetIssuerFunc}
<1>1. Descriptor(k)[i] \in plain \/ (Descriptor(k)[i] = SplitFunc /\ k = "split")
  BY DEF Descriptor, Kinds
<1>2. \A f \in plain : f.name \notin {"none", "split"}
  BY DEF SupersedeFunc, IssueFunc, DestroyFunc, SendFunc, TransferFunc, DepositFunc,
         WithdrawFunc, TotalSupplyFunc, MaxSupplyFunc, BalanceOfFunc, GetIssuerFunc, Func
<1>3. NoFunc.name = "none" /\ SplitFunc.name = "split"
  BY DEF NoFunc, SplitFunc, Func
<1> HIDE DEF plain
<1> QED BY <1>1, <1>2, <1>3

LEMMA RegisterPlaced == BooksInv /\ Register => PlaceInv'
<1> SUFFICES ASSUME BooksInv, Register PROVE PlaceInv'
  OBVIOUS
<1>1. PICK c \in Contracts, signer \in Accounts, kind \in Kinds, data \in CallData(InitFunc) :
         Open(c, signer, kind, InitFunc, data)
  BY DEF Register
<1>2. UNCHANGED state /\ InitFunc \in Funcs
  BY DEF Register, Funcs
<1>3. InitFunc # NoFunc /\ InitFunc # SplitFunc
  BY DEF InitFunc, NoFunc, SplitFunc, Func
<1>4. data \in Seq(Entries)
  BY <1>2, CallDataType
<1> QED BY <1>1, <1>2, <1>3, <1>4, OpenPlaced

LEMMA CallPlaced == BooksInv /\ Call => PlaceInv'
<1> SUFFICES ASSUME BooksInv, Call PROVE PlaceInv'
  OBVIOUS
<1>1. PICK c \in Contracts, signer \in Accounts :
         \/ /\ contracts[c] \in Kinds
            /\ \E i \in 1 .. Len(Descriptor(contracts[c])) :
                  \E data \in CallData(Descriptor(contracts[c])[i]) :
                     Open(c, signer, contracts[c], Descriptor(contracts[c])[i], data)
         \/ Enter("done", "InvalidFunctionIndex", c, signer, contracts[c], NoFunc, <<>>)
         \/ Enter("done", "InvalidContractAddress", c, signer, "none", NoFunc, <<>>)
  BY Zenon DEF Call
<1>2. UNCHANGED state
  BY DEF Call
<1>3. "InvalidFunctionIndex" \in Refusals /\ "InvalidContractAddress" \in Refusals
  BY DEF Refusals
<1>4. ASSUME contracts[c] \in Kinds,
             NEW i \in 1 .. Len(Descriptor(contracts[c])),
             NEW data \in CallData(Descriptor(contracts[c])[i]),
             Open(c, signer, contracts[c], Descriptor(contracts[c])[i], data)
      PROVE  PlaceInv'
  <2> DEFINE f == Descriptor(contracts[c])[i]
  <2>1. f \in Funcs \ {NoFunc} /\ (f = SplitFunc => contracts[c] = "split")
    BY <1>4, DescriptorFuncs, DescriptorNames
  <2>2. data \in Seq(Entries)
    BY <1>4, <2>1, CallDataType
  <2>3. Open(c, signer, contracts[c], f, data)
    BY <1>4
  <2> HIDE DEF f
  <2> QED BY <1>2, <2>1, <2>2, <2>3, OpenPlaced
<1> QED BY <1>1, <1>3, <1>4, EnterRefused

\* A place depends on nothing but the execution and the stored state.
LEMMA SamePlace ==
  ASSUME PlaceInv, exec # Idle, UNCHANGED state, exec'.status = exec.status,
         exec'.contract = exec.contract, exec'.signer = exec.signer, exec'.func = exec.func,
         exec'.pc = exec.pc, exec'.data = exec.data, exec'.diff = exec.diff
  PROVE  PlaceInv'
<1>1. \A n : Stacked(n)' <=> Stacked(n)
  BY DEF Stacked
<1>2. Begun(exec.pc)' = Begun(exec.pc)
  BY DEF Begun
<1>3. \A v : Variable(v)' = Variable(v)
  BY DEF Variable, state
<1>4. Argument' = Argument
  BY DEF Argument
<1>5. /\ contracts' = contracts /\ total' = total /\ tokenDB' = tokenDB /\ balance' = balance
  BY DEF state
<1>6. \A v : Guarded(v)' <=> Guarded(v)
  BY <1>1, <1>3 DEF Guarded
<1>7. Sent' <=> Sent
  BY <1>5 DEF Sent
<1>8. InitPlace => InitPlace'
  BY <1>1, <1>2 DEF InitPlace
<1>9. SupersedePlace => SupersedePlace'
  BY <1>4, <1>6 DEF SupersedePlace
<1>10. IssuePlace => IssuePlace'
  BY <1>3, <1>4, <1>5, <1>6 DEF IssuePlace
<1>11. DestroyPlace => DestroyPlace'
  BY <1>3, <1>4, <1>5, <1>6 DEF DestroyPlace
<1>12. SplitPlace => SplitPlace'
  BY <1>4, <1>5, <1>6 DEF SplitPlace
<1>13. (SendPlace => SendPlace') /\ (TransferPlace => TransferPlace')
  BY <1>1, <1>7 DEF SendPlace, TransferPlace
<1>14. (BarredPlace => BarredPlace') /\ (QueryPlace => QueryPlace')
  BY <1>1 DEF BarredPlace, QueryPlace
<1>15. Placed => Placed'
  BY <1>8, <1>9, <1>10, <1>11, <1>12, <1>13, <1>14 DEF Placed
<1> QED BY <1>15 DEF PlaceInv

LEMMA FinishPlaced == BooksInv /\ PlaceInv /\ Finish => PlaceInv'
<1> SUFFICES ASSUME BooksInv, PlaceInv, Finish PROVE PlaceInv'
  OBVIOUS
<1>1. exec # Idle /\ exec \in Jobs /\ UNCHANGED state /\ exec' = [exec EXCEPT !.phase = "done"]
  BY DEF Finish, BooksInv, Types
<1>2. exec'.status = exec.status /\ exec'.contract = exec.contract /\ exec'.signer = exec.signer
      /\ exec'.func = exec.func /\ exec'.pc = exec.pc /\ exec'.data = exec.data
      /\ exec'.diff = exec.diff
  BY <1>1 DEF Jobs
<1> QED BY <1>1, <1>2, SamePlace

LEMMA PlaceNext == BooksInv /\ PlaceInv /\ [Next]_vars => PlaceInv'
<1> SUFFICES ASSUME BooksInv, PlaceInv, [Next]_vars PROVE PlaceInv'
  OBVIOUS
<1>1. CASE UNCHANGED vars
  <2>1. exec' = exec /\ UNCHANGED state
    BY <1>1 DEF vars, state
  <2>2. CASE exec = Idle
    BY <2>1, <2>2 DEF PlaceInv
  <2>3. CASE exec # Idle
    BY <2>1, <2>3, SamePlace
  <2> QED BY <2>2, <2>3
<1>2. CASE Settle \/ Reject
  BY <1>2 DEF Settle, Reject, PlaceInv
<1>3. CASE Next
  BY <1>2, <1>3, OpcodePlaced, RegisterPlaced, CallPlaced, FinishPlaced DEF Next
<1> QED BY <1>1, <1>3

\* At every opcode of every execution, what is on the stack, what has been
\* asserted and what the diff has become are those of that place in the code.
THEOREM PlaceAlways == Spec => []PlaceInv
<1>1. Init => PlaceInv
  BY DEF Init, PlaceInv
<1> QED BY <1>1, PlaceNext, BooksAlways, PTL DEF Spec

\* The byte code of the two permitted contracts never fails for a wrong index,
\* an unset variable or a missing token, and only the four functions that
\* return a value end at the unsupported opcode.
THEOREM WellFormedAlways == Spec => []WellFormed
<1>1. PlaceInv => WellFormed
  BY DEF PlaceInv, WellFormed, Refusals, Queries
<1> QED BY <1>1, PlaceAlways, PTL

-----------------------------------------------------------------------------
(* The execution implements the promise: what enters the state is the whole *)
(* of one of its steps, and nothing else changes the books.                 *)

IssuerOf == [c \in Contracts |-> contractDB[c]["issuer"]]

MakerOf == [c \in Contracts |-> contractDB[c]["maker"]]

MaxOf == [c \in Contracts |-> tokenDB[c]["max"]]

UnityOf == [c \in Contracts |-> tokenDB[c]["unity"]]

\* What a transaction of contract c under diff d puts into the books.
Enters(c, d) ==
    /\ IssuerOf' = [IssuerOf EXCEPT ![c] = Under(c, d).db["issuer"]]
    /\ MakerOf' = [MakerOf EXCEPT ![c] = Under(c, d).db["maker"]]
    /\ MaxOf' = [MaxOf EXCEPT ![c] = Under(c, d).info["max"]]
    /\ UnityOf' = [UnityOf EXCEPT ![c] = Under(c, d).info["unity"]]
    /\ total' = [total EXCEPT ![c] = Under(c, d).total]
    /\ balance' = [balance EXCEPT ![c] = Under(c, d).balance]

LEMMA SettleEnters ==
  ASSUME BooksInv, Settle
  PROVE  /\ Enters(exec.contract, exec.diff) /\ Promise!Pay(exec.signer)
         /\ exec.contract \in Contracts /\ exec.signer \in Accounts /\ exec.diff \in Diffs
         /\ contracts' = IF exec.func # InitFunc THEN contracts
                         ELSE [contracts EXCEPT ![exec.contract] =
                                  IF exec.status = "Success" THEN exec.kind ELSE "failed"]
<1>1. exec \in Jobs
  BY DEF BooksInv, Types, Settle
<1>2. exec.contract \in Contracts /\ exec.signer \in Accounts /\ exec.diff \in Diffs
  BY <1>1 DEF Jobs
<1> DEFINE c == exec.contract
           s == Under(c, exec.diff)
<1>3. /\ contractDB' = [contractDB EXCEPT ![c] = s.db] /\ tokenDB' = [tokenDB EXCEPT ![c] = s.info]
      /\ total' = [total EXCEPT ![c] = s.total] /\ balance' = [balance EXCEPT ![c] = s.balance]
      /\ contracts' = IF exec.func # InitFunc THEN contracts
                      ELSE [contracts EXCEPT ![c] =
                               IF exec.status = "Success" THEN exec.kind ELSE "failed"]
      /\ coins[exec.signer] >= Fee
      /\ coins' = [coins EXCEPT ![exec.signer] = coins[exec.signer] - Fee]
  BY DEF Settle
<1>4. DOMAIN contractDB = Contracts /\ DOMAIN tokenDB = Contracts
  BY DEF BooksInv, Types
<1> HIDE DEF s, c
<1>5. IssuerOf' = [IssuerOf EXCEPT ![c] = s.db["issuer"]]
  BY <1>3, <1>4 DEF IssuerOf
<1>6. MakerOf' = [MakerOf EXCEPT ![c] = s.db["maker"]]
  BY <1>3, <1>4 DEF MakerOf
<1>7. MaxOf' = [MaxOf EXCEPT ![c] = s.info["max"]]
  BY <1>3, <1>4 DEF MaxOf
<1>8. UnityOf' = [UnityOf EXCEPT ![c] = s.info["unity"]]
  BY <1>3, <1>4 DEF UnityOf
<1>9. Promise!Pay(exec.signer)
  BY <1>3 DEF Promise!Pay
<1>10. Enters(c, exec.diff)
  BY <1>3, <1>5, <1>6, <1>7, <1>8 DEF Enters, s
<1> QED BY <1>2, <1>3, <1>9, <1>10 DEF c

\* What a diff leaves alone stays.
LEMMA Unchanging ==
  ASSUME BooksInv, NEW c \in Contracts, NEW d \in Diffs, Enters(c, d)
  PROVE  /\ d.db = NoVars => IssuerOf' = IssuerOf /\ MakerOf' = MakerOf
         /\ d.info = NoInfo => MaxOf' = MaxOf /\ UnityOf' = UnityOf
         /\ d.total = 0 => total' = total
         /\ d.balance = NoUnits => balance' = balance
         /\ d.db["maker"] = Undefined => MakerOf' = MakerOf
         /\ d.info["max"] = Undefined => MaxOf' = MaxOf
         /\ d.db["issuer"] # Undefined => IssuerOf' = [IssuerOf EXCEPT ![c] = d.db["issuer"]]
         /\ d.db["maker"] # Undefined => MakerOf' = [MakerOf EXCEPT ![c] = d.db["maker"]]
         /\ d.info["max"] # Undefined => MaxOf' = [MaxOf EXCEPT ![c] = d.info["max"]]
         /\ d.info["unity"] # Undefined => UnityOf' = [UnityOf EXCEPT ![c] = d.info["unity"]]
         /\ total' = [total EXCEPT ![c] = total[c] + d.total]
         /\ balance' = [balance EXCEPT ![c] = [a \in Accounts |-> balance[c][a] + d.balance[a]]]
<1> DEFINE s == Under(c, d)
<1>1. /\ contractDB \in [Contracts -> [StateVars -> Accounts \cup {Undefined}]]
      /\ tokenDB \in [Contracts -> [TokenKeys -> Longs \cup {Undefined}]]
      /\ total \in [Contracts -> Longs] /\ balance \in [Contracts -> [Accounts -> Longs]]
  BY DEF BooksInv, Types
<1>2. DOMAIN contractDB[c] = StateVars /\ DOMAIN tokenDB[c] = TokenKeys
  BY <1>1
<1>3. /\ \A v \in StateVars : s.db[v] = IF d.db[v] = Undefined THEN contractDB[c][v] ELSE d.db[v]
      /\ \A k \in TokenKeys : s.info[k] = IF d.info[k] = Undefined THEN tokenDB[c][k] ELSE d.info[k]
      /\ s.total = total[c] + d.total
      /\ s.balance = [a \in Accounts |-> balance[c][a] + d.balance[a]]
  BY <1>2 DEF Under, Combine, OpcDiff, Override
<1>4. "issuer" \in StateVars /\ "maker" \in StateVars /\ "max" \in TokenKeys /\ "unity" \in TokenKeys
  BY DEF StateVars, TokenKeys
<1>5. NoVars["issuer"] = Undefined /\ NoVars["maker"] = Undefined
      /\ NoInfo["max"] = Undefined /\ NoInfo["unity"] = Undefined
  BY <1>4 DEF NoVars, NoInfo
<1>6. IssuerOf[c] = contractDB[c]["issuer"] /\ MakerOf[c] = contractDB[c]["maker"]
      /\ MaxOf[c] = tokenDB[c]["max"] /\ UnityOf[c] = tokenDB[c]["unity"]
  BY DEF IssuerOf, MakerOf, MaxOf, UnityOf
<1>7. /\ IssuerOf = [IssuerOf EXCEPT ![c] = IssuerOf[c]]
      /\ MakerOf = [MakerOf EXCEPT ![c] = MakerOf[c]]
      /\ MaxOf = [MaxOf EXCEPT ![c] = MaxOf[c]]
      /\ UnityOf = [UnityOf EXCEPT ![c] = UnityOf[c]]
  BY DEF IssuerOf, MakerOf, MaxOf, UnityOf
<1>8. total = [total EXCEPT ![c] = total[c]] /\ balance = [balance EXCEPT ![c] = balance[c]]
  BY <1>1
<1>9. d.balance = NoUnits => s.balance = balance[c]
  <2>1. ASSUME d.balance = NoUnits PROVE s.balance = balance[c]
    <3>1. balance[c] \in [Accounts -> Longs]
      BY <1>1
    <3>2. ASSUME NEW a \in Accounts PROVE balance[c][a] + d.balance[a] = balance[c][a]
      <4>1. d.balance[a] = 0
        BY <2>1 DEF NoUnits
      <4>2. balance[c][a] \in Int
        BY <3>1, ConstantsAssumption DEF Longs
      <4> QED BY <4>1, <4>2
    <3> QED BY <1>3, <3>1, <3>2
  <2> QED BY <2>1
<1>10. d.total = 0 => s.total = total[c]
  BY <1>1, <1>3, ConstantsAssumption DEF Longs
<1>11. /\ IssuerOf' = [IssuerOf EXCEPT ![c] = s.db["issuer"]]
       /\ MakerOf' = [MakerOf EXCEPT ![c] = s.db["maker"]]
       /\ MaxOf' = [MaxOf EXCEPT ![c] = s.info["max"]]
       /\ UnityOf' = [UnityOf EXCEPT ![c] = s.info["unity"]]
       /\ total' = [total EXCEPT ![c] = s.total]
       /\ balance' = [balance EXCEPT ![c] = s.balance]
  BY DEF Enters
<1> HIDE DEF s
<1>12. /\ d.db["issuer"] = Undefined => s.db["issuer"] = IssuerOf[c]
       /\ d.db["maker"] = Undefined => s.db["maker"] = MakerOf[c]
       /\ d.info["max"] = Undefined => s.info["max"] = MaxOf[c]
       /\ d.info["unity"] = Undefined => s.info["unity"] = UnityOf[c]
       /\ d.db["issuer"] # Undefined => s.db["issuer"] = d.db["issuer"]
       /\ d.db["maker"] # Undefined => s.db["maker"] = d.db["maker"]
       /\ d.info["max"] # Undefined => s.info["max"] = d.info["max"]
       /\ d.info["unity"] # Undefined => s.info["unity"] = d.info["unity"]
  BY <1>3, <1>4, <1>6
<1>13. /\ d.db["issuer"] = Undefined => IssuerOf' = IssuerOf
       /\ d.db["maker"] = Undefined => MakerOf' = MakerOf
       /\ d.info["max"] = Undefined => MaxOf' = MaxOf
       /\ d.info["unity"] = Undefined => UnityOf' = UnityOf
  BY <1>7, <1>11, <1>12
<1>14. /\ d.db["issuer"] # Undefined => IssuerOf' = [IssuerOf EXCEPT ![c] = d.db["issuer"]]
       /\ d.db["maker"] # Undefined => MakerOf' = [MakerOf EXCEPT ![c] = d.db["maker"]]
       /\ d.info["max"] # Undefined => MaxOf' = [MaxOf EXCEPT ![c] = d.info["max"]]
       /\ d.info["unity"] # Undefined => UnityOf' = [UnityOf EXCEPT ![c] = d.info["unity"]]
  BY <1>11, <1>12
<1>15. (d.total = 0 => total' = total) /\ (d.balance = NoUnits => balance' = balance)
  BY <1>8, <1>9, <1>10, <1>11
<1> QED BY <1>3, <1>5, <1>11, <1>13, <1>14, <1>15

\* A transaction that ended well has run through its code.
LEMMA Ends ==
  ASSUME BooksInv, PlaceInv, Settle, exec.status = "Success"
  PROVE  /\ exec # Idle /\ exec \in Jobs /\ Placed /\ exec.func \in Funcs
         /\ exec.pc > Len(exec.func.code) /\ exec.data \in Seq(Entries)
         /\ exec.func # InitFunc => contracts[exec.contract] \in Kinds
<1>1. exec # Idle /\ exec.phase = "done"
  BY DEF Settle
<1>2. exec \in Jobs
  BY <1>1 DEF BooksInv, Types
<1>3. Placed
  BY <1>1 DEF PlaceInv, Refusals
<1>4. exec.pc > Len(exec.func.code) /\ (exec.func # InitFunc => contracts[exec.contract] \in Kinds)
  BY <1>1 DEF BooksInv, ExecSound
<1> QED BY <1>1, <1>2, <1>3, <1>4 DEF Jobs

\* Who pays is who is read from the books, in the words of the promise.
LEMMA BooksRead ==
  ASSUME NEW c \in Contracts
  PROVE  /\ IssuerOf[c] = contractDB[c]["issuer"] /\ MakerOf[c] = contractDB[c]["maker"]
         /\ MaxOf[c] = tokenDB[c]["max"] /\ UnityOf[c] = tokenDB[c]["unity"]
  BY DEF IssuerOf, MakerOf, MaxOf, UnityOf

LEMMA PromiseParties ==
  ASSUME NEW c \in Contracts, NEW a \in Accounts,
         Promise!Create(c, a) \/ Promise!CreateFails(c, a) \/ Promise!Supersede(c, a)
  PROVE  Promise!Next
<1> DEFINE P(x, y) == Promise!Create(x, y) \/ Promise!CreateFails(x, y) \/ Promise!Supersede(x, y)
<1>1. (\E x \in Contracts, y \in Accounts : P(x, y)) => Promise!Next
  BY DEF Promise!Next
<1>2. P(c, a)
  OBVIOUS
<1> HIDE DEF P
<1> QED BY <1>1, <1>2

LEMMA PromiseAmounts ==
  ASSUME NEW c \in Contracts, NEW n \in Longs,
         Promise!Issue(c, n) \/ Promise!Destroy(c, n) \/ Promise!Split(c, n)
  PROVE  Promise!Next
<1> DEFINE P(x, y) == Promise!Issue(x, y) \/ Promise!Destroy(x, y) \/ Promise!Split(x, y)
<1>1. (\E x \in Contracts, y \in Longs : P(x, y)) => Promise!Next
  BY DEF Promise!Next
<1>2. P(c, n)
  OBVIOUS
<1> HIDE DEF P
<1> QED BY <1>1, <1>2

LEMMA RefuseKeeps ==
  ASSUME BooksInv, Settle, exec.diff = NoDiff
  PROVE  Promise!Next
<1> DEFINE c == exec.contract
           a == exec.signer
<1>1. /\ Enters(c, NoDiff) /\ Promise!Pay(a) /\ c \in Contracts /\ a \in Accounts
      /\ contracts' = IF exec.func # InitFunc THEN contracts
                      ELSE [contracts EXCEPT ![c] = IF exec.status = "Success" THEN exec.kind
                                                    ELSE "failed"]
  BY SettleEnters
<1>2. IssuerOf' = IssuerOf /\ MakerOf' = MakerOf /\ MaxOf' = MaxOf /\ UnityOf' = UnityOf
      /\ total' = total /\ balance' = balance
  <2>1. NoDiff.db = NoVars /\ NoDiff.info = NoInfo /\ NoDiff.total = 0 /\ NoDiff.balance = NoUnits
    BY DEF NoDiff, OpcDiff
  <2> QED BY <1>1, <2>1, NoDiffType, Unchanging
<1> HIDE DEF c, a
<1>3. CASE exec.func # InitFunc
  <2>1. Promise!Refuse(a)
    BY <1>1, <1>2, <1>3 DEF Promise!Refuse, Promise!token, IssuerOf, MakerOf, MaxOf, UnityOf
  <2> QED BY <1>1, <2>1 DEF Promise!Next
<1>4. CASE exec.func = InitFunc
  <2>1. contracts[c] = "unused" /\ exec.status # "Success"
    <3>1. exec # Idle /\ exec.phase = "done"
      BY DEF Settle
    <3>2. contracts[c] = "unused"
      BY <1>4, <3>1 DEF c, BooksInv, ExecSound
    <3>3. ASSUME exec.status = "Success" PROVE FALSE
      <4>1. InitProgress /\ exec.pc > 4
        BY <1>4, <3>1, <3>3, InitIsAlone DEF BooksInv, ExecSound
      <4>2. exec.diff.tokens = 1
        BY <4>1 DEF InitProgress
      <4> QED BY <4>2 DEF NoDiff, OpcDiff
    <3> QED BY <3>2, <3>3
  <2>2. contracts' = [contracts EXCEPT ![c] = "failed"]
    BY <1>1, <1>4, <2>1
  <2>3. Promise!CreateFails(c, a)
    BY <1>1, <1>2, <2>1, <2>2 DEF Promise!CreateFails, IssuerOf, MakerOf, MaxOf, UnityOf
  <2> QED BY <1>1, <2>3, PromiseParties
<1> QED BY <1>3, <1>4

LEMMA CreateKeeps ==
  ASSUME BooksInv, PlaceInv, Settle, exec.status = "Success", exec.func = InitFunc
  PROVE  Promise!Next
<1> DEFINE c == exec.contract
           a == exec.signer
           d == exec.diff
           m == exec.data[1].value
           u == exec.data[2].value
<1>1. /\ Enters(c, d) /\ Promise!Pay(a) /\ c \in Contracts /\ a \in Accounts /\ d \in Diffs
      /\ contracts' = [contracts EXCEPT ![c] = exec.kind]
  BY SettleEnters
<1>2. exec # Idle /\ Placed /\ exec.pc > 4 /\ exec.data \in Seq(Entries)
      /\ exec.func.name = "init" /\ Len(exec.func.params) = 3
      /\ exec.func.params[1] = "Amount" /\ exec.func.params[2] = "Amount"
  BY Ends, InitIsAlone DEF InitFunc, Func
<1>3. exec.pc = 5 /\ Stacked(4) /\ u > 0 /\ d = Begun(5)
  BY <1>2 DEF Placed, Queries, InitPlace
<1>4. m \in Longs /\ u \in Longs \ {0}
  <2>1. \A i \in {1, 2} : i \in 1 .. Len(exec.func.params) /\ exec.func.params[i] # "Account"
    BY <1>2
  <2>2. exec.data[1].type = "Amount" /\ exec.data[2].type = "Amount" /\ Len(exec.data) = 4
    BY <1>2, <1>3, <2>1 DEF Stacked
  <2>3. exec.data[1] \in Entries /\ exec.data[2] \in Entries
    BY <1>2, <2>2
  <2>4. m \in Longs /\ u \in Longs
    BY <2>2, <2>3 DEF Entries
  <2> QED BY <1>3, <2>4
<1>5. /\ d.db["issuer"] = a /\ d.db["maker"] = a /\ d.info["max"] = m /\ d.info["unity"] = u
      /\ d.total = 0 /\ d.balance = NoUnits
  BY <1>3 DEF Begun, OpcDiff, StateVars
<1>6. a # Undefined /\ m # Undefined /\ u # Undefined
  BY <1>1, <1>4, ConstantsAssumption DEF Longs
<1> HIDE DEF c, a, d, m, u
<1>7. /\ IssuerOf' = [IssuerOf EXCEPT ![c] = a] /\ MakerOf' = [MakerOf EXCEPT ![c] = a]
      /\ MaxOf' = [MaxOf EXCEPT ![c] = m] /\ UnityOf' = [UnityOf EXCEPT ![c] = u]
      /\ total' = total /\ balance' = balance
  BY <1>1, <1>5, <1>6, Unchanging
<1>8. contracts[c] = "unused" /\ exec.kind \in Kinds
  BY <1>2 DEF c, BooksInv, ExecSound
<1>9. exec.kind \in Promise!Kinds
  BY <1>8 DEF Kinds, Promise!Kinds
<1>10. PICK x \in Contracts, y \in Accounts : x = c /\ y = a
  BY <1>1
<1>11. Promise!Create(x, y)
  BY <1>1, <1>4, <1>7, <1>8, <1>9, <1>10 DEF Promise!Create, IssuerOf, MakerOf, MaxOf, UnityOf
<1> QED BY <1>11, PromiseParties

LEMMA SupersedeKept ==
  ASSUME BooksInv, PlaceInv, Settle, exec.status = "Success", exec.func = SupersedeFunc
  PROVE  Promise!Next
<1> DEFINE c == exec.contract
           a == exec.signer
           d == exec.diff
           b == exec.data[1].value
<1>1. exec.func.name = "supersede" /\ Len(exec.func.code) = 3 /\ exec.func # InitFunc
  BY DEF SupersedeFunc, InitFunc, Func
<1>2. /\ Enters(c, d) /\ Promise!Pay(a) /\ c \in Contracts /\ a \in Accounts /\ d \in Diffs
      /\ contracts' = contracts
  BY <1>1, SettleEnters
<1>3. Placed /\ exec.pc > 3 /\ contracts[c] \in Kinds
  BY <1>1, Ends
<1>4. exec.pc = 4 /\ a = contractDB[c]["maker"] /\ b \in Accounts
      /\ d = OpcDiff([NoVars EXCEPT !["issuer"] = b], 0, NoInfo, 0, NoUnits)
  <2>1. SupersedePlace
    BY <1>1, <1>3 DEF Placed, Queries
  <2> QED BY <1>3, <2>1 DEF SupersedePlace, Guarded, Variable, Argument
<1>5. /\ d.db["issuer"] = b /\ d.db["maker"] = Undefined /\ d.info = NoInfo
      /\ d.total = 0 /\ d.balance = NoUnits
  BY <1>4 DEF OpcDiff, NoVars, StateVars
<1>6. b # Undefined
  BY <1>4, ConstantsAssumption
<1> HIDE DEF c, a, d, b
<1>7. /\ IssuerOf' = [IssuerOf EXCEPT ![c] = b] /\ MakerOf' = MakerOf
      /\ MaxOf' = MaxOf /\ UnityOf' = UnityOf /\ total' = total /\ balance' = balance
  BY <1>2, <1>5, <1>6, Unchanging
<1>8. contracts[c] \in Promise!Kinds
  BY <1>3 DEF Kinds, Promise!Kinds
<1>9. Promise!Pay(MakerOf[c])
  BY <1>2, <1>4, BooksRead
<1>10. PICK x \in Contracts, y \in Accounts : x = c /\ y = b
  BY <1>2, <1>4
<1>11. Promise!Supersede(x, y)
  BY <1>2, <1>7, <1>8, <1>9, <1>10
     DEF Promise!Supersede, Promise!Registered, IssuerOf, MakerOf, MaxOf, UnityOf
<1> QED BY <1>11, PromiseParties

LEMMA IssueKept ==
  ASSUME BooksInv, PlaceInv, Settle, exec.status = "Success", exec.func = IssueFunc
  PROVE  Promise!Next
<1> DEFINE c == exec.contract
           a == exec.signer
           d == exec.diff
           n == exec.data[1].value
<1>1. exec.func.name = "issue" /\ Len(exec.func.code) = 3 /\ exec.func # InitFunc
  BY DEF IssueFunc, InitFunc, Func
<1>2. /\ Enters(c, d) /\ Promise!Pay(a) /\ c \in Contracts /\ a \in Accounts /\ d \in Diffs
      /\ contracts' = contracts
  BY <1>1, SettleEnters
<1>3. Placed /\ exec.pc > 3 /\ contracts[c] \in Kinds
  BY <1>1, Ends
<1>4. exec.pc = 4 /\ a = contractDB[c]["issuer"] /\ n \in Longs
      /\ total[c] + n <= tokenDB[c]["max"]
      /\ d = OpcDiff(NoVars, 0, NoInfo, n, [NoUnits EXCEPT ![a] = n])
  <2>1. IssuePlace
    BY <1>1, <1>3 DEF Placed, Queries
  <2>2. exec.pc = 4 /\ exec.signer = Variable("issuer")
    BY <1>3, <2>1 DEF IssuePlace, Guarded
  <2>3. /\ Argument \in Longs /\ total[c] + Argument <= tokenDB[c]["max"]
        /\ d = OpcDiff(NoVars, 0, NoInfo, Argument, [NoUnits EXCEPT ![Variable("issuer")] = Argument])
    BY <2>1, <2>2 DEF IssuePlace
  <2>4. Argument = n /\ Variable("issuer") = a /\ a = contractDB[c]["issuer"]
    BY <2>2 DEF Argument, Variable
  <2> HIDE DEF a, c, d, n
  <2> QED BY <2>2, <2>3, <2>4
<1>5. d.db = NoVars /\ d.info = NoInfo /\ d.total = n /\ d.balance = [NoUnits EXCEPT ![a] = n]
  BY <1>4 DEF OpcDiff
<1> HIDE DEF c, a, d, n
<1>6. /\ IssuerOf' = IssuerOf /\ MakerOf' = MakerOf /\ MaxOf' = MaxOf /\ UnityOf' = UnityOf
      /\ total' = [total EXCEPT ![c] = total[c] + n]
      /\ balance' = [balance EXCEPT ![c] = [x \in Accounts |-> balance[c][x] + d.balance[x]]]
  BY <1>2, <1>5, Unchanging
<1>7. balance[c] \in [Accounts -> Longs] /\ n \in Int /\ DOMAIN balance = Contracts
  BY <1>2, <1>4, ConstantsAssumption DEF BooksInv, Types, Longs
<1>8. [x \in Accounts |-> balance[c][x] + d.balance[x]] = [balance[c] EXCEPT ![a] = balance[c][a] + n]
  <2>1. \A x \in Accounts : balance[c][x] \in Int
    BY <1>7, ConstantsAssumption DEF Longs
  <2>2. \A x \in Accounts : d.balance[x] = IF x = a THEN n ELSE 0
    BY <1>2, <1>5 DEF NoUnits
  <2>3. ASSUME NEW x \in Accounts
        PROVE  balance[c][x] + d.balance[x] = IF x = a THEN balance[c][a] + n ELSE balance[c][x]
    <3>1. CASE x = a
      BY <1>7, <2>1, <2>2, <3>1
    <3>2. CASE x # a
      BY <2>1, <2>2, <3>2
    <3> QED BY <3>1, <3>2
  <2> QED BY <1>2, <1>7, <2>3
<1>9. balance' = [balance EXCEPT ![c][a] = balance[c][a] + n]
  BY <1>6, <1>8
<1>10. contracts[c] \in Promise!Kinds
  BY <1>3 DEF Kinds, Promise!Kinds
<1>11. IssuerOf[c] = a /\ total[c] + n <= MaxOf[c]
  BY <1>2, <1>4, BooksRead
<1>12. PICK x \in Contracts, y \in Longs : x = c /\ y = n
  BY <1>2, <1>4
<1>13. Promise!Issue(x, y)
  BY <1>2, <1>6, <1>9, <1>10, <1>11, <1>12
     DEF Promise!Issue, Promise!Registered, IssuerOf, MakerOf, MaxOf, UnityOf
<1> QED BY <1>13, PromiseAmounts

LEMMA DestroyKept ==
  ASSUME BooksInv, PlaceInv, Settle, exec.status = "Success", exec.func = DestroyFunc
  PROVE  Promise!Next
<1> DEFINE c == exec.contract
           a == exec.signer
           d == exec.diff
           n == exec.data[1].value
<1>1. exec.func.name = "destroy" /\ Len(exec.func.code) = 3 /\ exec.func # InitFunc
  BY DEF DestroyFunc, InitFunc, Func
<1>2. /\ Enters(c, d) /\ Promise!Pay(a) /\ c \in Contracts /\ a \in Accounts /\ d \in Diffs
      /\ contracts' = contracts
  BY <1>1, SettleEnters
<1>3. Placed /\ exec.pc > 3 /\ contracts[c] \in Kinds
  BY <1>1, Ends
<1>4. exec.pc = 4 /\ a = contractDB[c]["issuer"] /\ n \in Longs /\ n <= balance[c][a]
      /\ d = OpcDiff(NoVars, 0, NoInfo, -n, [NoUnits EXCEPT ![a] = -n])
  <2>1. DestroyPlace
    BY <1>1, <1>3 DEF Placed, Queries
  <2>2. exec.pc = 4 /\ exec.signer = Variable("issuer")
    BY <1>3, <2>1 DEF DestroyPlace, Guarded
  <2>3. /\ Argument \in Longs /\ Argument <= balance[c][Variable("issuer")]
        /\ d = OpcDiff(NoVars, 0, NoInfo, -Argument, [NoUnits EXCEPT ![Variable("issuer")] = -Argument])
    BY <2>1, <2>2 DEF DestroyPlace
  <2>4. Argument = n /\ Variable("issuer") = a /\ a = contractDB[c]["issuer"]
    BY <2>2 DEF Argument, Variable
  <2> HIDE DEF a, c, d, n
  <2> QED BY <2>2, <2>3, <2>4
<1>5. d.db = NoVars /\ d.info = NoInfo /\ d.total = -n /\ d.balance = [NoUnits EXCEPT ![a] = -n]
  BY <1>4 DEF OpcDiff
<1> HIDE DEF c, a, d, n
<1>6. /\ IssuerOf' = IssuerOf /\ MakerOf' = MakerOf /\ MaxOf' = MaxOf /\ UnityOf' = UnityOf
      /\ total' = [total EXCEPT ![c] = total[c] + d.total]
      /\ balance' = [balance EXCEPT ![c] = [x \in Accounts |-> balance[c][x] + d.balance[x]]]
  BY <1>2, <1>5, Unchanging
<1>7. balance[c] \in [Accounts -> Longs] /\ n \in Int /\ DOMAIN balance = Contracts /\ total[c] \in Int
  BY <1>2, <1>4, ConstantsAssumption DEF BooksInv, Types, Longs
<1>8. [x \in Accounts |-> balance[c][x] + d.balance[x]] = [balance[c] EXCEPT ![a] = balance[c][a] - n]
  <2>1. \A x \in Accounts : balance[c][x] \in Int
    BY <1>7, ConstantsAssumption DEF Longs
  <2>2. \A x \in Accounts : d.balance[x] = IF x = a THEN -n ELSE 0
    BY <1>2, <1>5 DEF NoUnits
  <2>3. ASSUME NEW x \in Accounts
        PROVE  balance[c][x] + d.balance[x] = IF x = a THEN balance[c][a] - n ELSE balance[c][x]
    <3>1. CASE x = a
      BY <1>7, <2>1, <2>2, <3>1
    <3>2. CASE x # a
      BY <2>1, <2>2, <3>2
    <3> QED BY <3>1, <3>2
  <2> QED BY <1>2, <1>7, <2>3
<1>9. /\ balance' = [balance EXCEPT ![c][a] = balance[c][a] - n]
      /\ total' = [total EXCEPT ![c] = total[c] - n]
  <2>1. total[c] + d.total = total[c] - n
    BY <1>5, <1>7
  <2> QED BY <1>6, <1>8, <2>1
<1>10. contracts[c] \in Promise!Kinds
  BY <1>3 DEF Kinds, Promise!Kinds
<1>11. IssuerOf[c] = a
  BY <1>2, <1>4, BooksRead
<1>12. PICK x \in Contracts, y \in Longs : x = c /\ y = n
  BY <1>2, <1>4
<1>13. Promise!Destroy(x, y)
  BY <1>2, <1>4, <1>6, <1>9, <1>10, <1>11, <1>12
     DEF Promise!Destroy, Promise!Registered, IssuerOf, MakerOf, MaxOf, UnityOf
<1> QED BY <1>13, PromiseAmounts

LEMMA SplitKept ==
  ASSUME BooksInv, PlaceInv, Settle, exec.status = "Success", exec.func = SplitFunc
  PROVE  Promise!Next
<1> DEFINE c == exec.contract
           a == exec.signer
           d == exec.diff
           n == exec.data[1].value
<1>1. exec.func.name = "split" /\ Len(exec.func.code) = 3 /\ exec.func # InitFunc
  BY DEF SplitFunc, InitFunc, Func
<1>2. /\ Enters(c, d) /\ Promise!Pay(a) /\ c \in Contracts /\ a \in Accounts /\ d \in Diffs
      /\ contracts' = contracts
  BY <1>1, SettleEnters
<1>3. Placed /\ exec.pc > 3
  BY <1>1, Ends
<1>4. exec.pc = 4 /\ a = contractDB[c]["issuer"] /\ n \in Longs \ {0} /\ contracts[c] = "split"
      /\ d = OpcDiff(NoVars, 0, [NoInfo EXCEPT !["unity"] = n], 0, NoUnits)
  <2>1. SplitPlace
    BY <1>1, <1>3 DEF Placed, Queries
  <2> QED BY <1>3, <2>1 DEF SplitPlace, Guarded, Variable, Argument
<1>5. d.db = NoVars /\ d.info["max"] = Undefined /\ d.info["unity"] = n /\ d.total = 0
      /\ d.balance = NoUnits
  BY <1>4 DEF OpcDiff, NoInfo, TokenKeys
<1>6. n # Undefined /\ n > 0
  BY <1>4, ConstantsAssumption DEF Longs
<1> HIDE DEF c, a, d, n
<1>7. /\ IssuerOf' = IssuerOf /\ MakerOf' = MakerOf /\ MaxOf' = MaxOf
      /\ UnityOf' = [UnityOf EXCEPT ![c] = n] /\ total' = total /\ balance' = balance
  BY <1>2, <1>5, <1>6, Unchanging
<1>8. IssuerOf[c] = a
  BY <1>2, <1>4, BooksRead
<1>9. PICK x \in Contracts, y \in Longs : x = c /\ y = n
  BY <1>2, <1>4
<1>10. Promise!Split(x, y)
  BY <1>2, <1>4, <1>6, <1>7, <1>8, <1>9 DEF Promise!Split, IssuerOf, MakerOf, MaxOf, UnityOf
<1> QED BY <1>10, PromiseAmounts

\* Send and transfer: a move between two accounts, or nothing.
LEMMA MoveKept ==
  ASSUME BooksInv, PlaceInv, Settle, exec.status = "Success",
         exec.func \in {SendFunc, TransferFunc}
  PROVE  Promise!Next
<1> DEFINE c == exec.contract
           a == exec.signer
           d == exec.diff
<1>1. exec.func.name \in {"send", "transfer"} /\ Len(exec.func.code) = 2 /\ exec.func # InitFunc
  BY DEF SendFunc, TransferFunc, InitFunc, Func
<1>2. /\ Enters(c, d) /\ Promise!Pay(a) /\ c \in Contracts /\ a \in Accounts /\ d \in Diffs
      /\ contracts' = contracts
  BY <1>1, SettleEnters
<1>3. Placed /\ exec.pc > 2 /\ contracts[c] \in Kinds
  BY <1>1, Ends
<1>4. Sent
  BY <1>1, <1>3 DEF Placed, Queries, SendPlace, TransferPlace
<1>5. PICK b \in Accounts, n \in Longs : n <= balance[c][a] /\ d = TransferDiff(a, b, n)
  BY <1>4 DEF Sent
<1>6. CASE a = b
  <2>1. exec.diff = NoDiff
    BY <1>5, <1>6 DEF TransferDiff
  <2> QED BY <2>1, RefuseKeeps
<1>7. CASE a # b
  <2>1. d.db = NoVars /\ d.info = NoInfo /\ d.total = 0
        /\ d.balance = [NoUnits EXCEPT ![a] = -n, ![b] = n]
    BY <1>5, <1>7 DEF TransferDiff, OpcDiff
  <2> HIDE DEF c, a, d
  <2>2. /\ IssuerOf' = IssuerOf /\ MakerOf' = MakerOf /\ MaxOf' = MaxOf /\ UnityOf' = UnityOf
        /\ total' = total
        /\ balance' = [balance EXCEPT ![c] = [x \in Accounts |-> balance[c][x] + d.balance[x]]]
    BY <1>2, <2>1, Unchanging
  <2>3. balance[c] \in [Accounts -> Longs] /\ n \in Int
    BY <1>2, <1>5, ConstantsAssumption DEF BooksInv, Types, Longs
  <2>4. [x \in Accounts |-> balance[c][x] + d.balance[x]]
        = [balance[c] EXCEPT ![a] = balance[c][a] - n, ![b] = balance[c][b] + n]
    <3>1. \A x \in Accounts : balance[c][x] \in Int
      BY <2>3, ConstantsAssumption DEF Longs
    <3>2. \A x \in Accounts : d.balance[x] = IF x = b THEN n ELSE IF x = a THEN -n ELSE 0
      BY <1>2, <1>7, <2>1 DEF NoUnits
    <3>3. ASSUME NEW x \in Accounts
          PROVE  balance[c][x] + d.balance[x] =
                    IF x = b THEN balance[c][b] + n
                    ELSE IF x = a THEN balance[c][a] - n ELSE balance[c][x]
      <4>1. CASE x = b
        BY <3>2, <4>1
      <4>2. CASE x = a /\ x # b
        BY <2>3, <3>1, <3>2, <4>2
      <4>3. CASE x # a /\ x # b
        BY <3>1, <3>2, <4>3
      <4> QED BY <4>1, <4>2, <4>3
    <3> QED BY <1>2, <1>7, <2>3, <3>3
  <2>5. contracts[c] \in Promise!Kinds
    BY <1>3 DEF c, Kinds, Promise!Kinds
  <2>6. balance' = [balance EXCEPT ![c][a] = balance[c][a] - n, ![c][b] = balance[c][b] + n]
    BY <1>2, <1>7, <2>2, <2>4, <2>3
  <2>7. PICK x \in Contracts, y \in Accounts : x = c /\ y = a
    BY <1>2
  <2>8. Promise!Move(x, y, b, n)
    BY <1>2, <1>5, <1>7, <2>2, <2>5, <2>6, <2>7
       DEF Promise!Move, Promise!Registered, IssuerOf, MakerOf, MaxOf, UnityOf
  <2> QED BY <2>8 DEF Promise!Next
<1> QED BY <1>6, <1>7

LEMMA SettleRefines == BooksInv /\ PlaceInv /\ Settle => Promise!Next
<1> SUFFICES ASSUME BooksInv, PlaceInv, Settle PROVE Promise!Next
  OBVIOUS
<1>1. CASE exec.status # "Success"
  <2>1. exec.diff = NoDiff
    BY <1>1 DEF Settle, BooksInv, ExecSound
  <2> QED BY <2>1, RefuseKeeps
<1>2. CASE exec.status = "Success"
  <2> DEFINE f == exec.func
  <2>1. f \in Funcs /\ Placed /\ exec.pc > Len(f.code)
    BY <1>2, Ends
  <2> HIDE DEF f
  <2>2. CASE f \in {DepositFunc, WithdrawFunc, TotalSupplyFunc, MaxSupplyFunc, BalanceOfFunc,
                    GetIssuerFunc, NoFunc}
    <3>1. /\ f.name \in {"deposit", "withdraw", "none"} \cup Queries
          /\ f.name # "none" => Len(f.code) = 2
      BY <2>2 DEF DepositFunc, WithdrawFunc, TotalSupplyFunc, MaxSupplyFunc, BalanceOfFunc,
                  GetIssuerFunc, NoFunc, Func, Queries
    <3>2. f.name # "none"
      BY <2>1 DEF f, Placed, Queries
    <3>3. BarredPlace \/ QueryPlace
      BY <2>1, <3>1, <3>2 DEF f, Placed, Queries
    <3>4. exec.pc \in 1 .. 2 /\ Len(f.code) = 2
      BY <3>1, <3>2, <3>3 DEF BarredPlace, QueryPlace
    <3> QED BY <2>1, <3>4
  <2>3. CASE f \in {SendFunc, TransferFunc}
    BY <1>2, <2>3, MoveKept DEF f
  <2>4. CASE f \in {InitFunc, SupersedeFunc, IssueFunc, DestroyFunc, SplitFunc}
    BY <1>2, <2>4, CreateKeeps, SupersedeKept, IssueKept, DestroyKept, SplitKept DEF f
  <2> QED BY <2>1, <2>2, <2>3, <2>4 DEF Funcs
<1> QED BY <1>1, <1>2

\* No opcode, and no execution that has not settled, is seen from outside.
LEMMA StepsRefine == BooksInv /\ PlaceInv /\ [Next]_vars => [Promise!Next]_(Promise!vars)
<1> SUFFICES ASSUME BooksInv, PlaceInv, [Next]_vars PROVE [Promise!Next]_(Promise!vars)
  OBVIOUS
<1>1. CASE UNCHANGED state
  BY <1>1 DEF state, Promise!vars
<1>2. CASE Settle
  BY <1>2, SettleRefines
<1>3. CASE Opcode
  <2>1. UNCHANGED state
    BY <1>3 DEF Opcode, Load, CDBVRGet, CDBVSet, Asserts, AssertIsCallerOrigin, AssertIsSignerOrigin,
                TDBNewToken, TDBSplit, TDBADeposit, TDBAWithdraw, TDBATransfer, TDBRTotal, TDBRMax,
                TDBARBalance, Return, Reads, Step
  <2> QED BY <1>1, <2>1
<1>4. CASE Register \/ Call \/ Finish \/ Reject
  <2>1. UNCHANGED state
    BY <1>4 DEF Register, Call, Finish, Reject
  <2> QED BY <1>1, <2>1
<1>5. CASE UNCHANGED vars
  BY <1>1, <1>5 DEF vars, state
<1> QED BY <1>2, <1>3, <1>4, <1>5 DEF Next

LEMMA StartsRefine == Init => Promise!Init
<1> SUFFICES ASSUME Init PROVE Promise!Init
  OBVIOUS
<1>1. /\ \A c \in Contracts : contractDB[c] = NoVars /\ tokenDB[c] = NoInfo
      /\ contracts = [c \in Contracts |-> "unused"] /\ total = [c \in Contracts |-> 0]
      /\ balance = [c \in Contracts |-> NoUnits] /\ coins \in [Accounts -> Nat]
  BY ConstantsAssumption DEF Init
<1>2. NoVars["issuer"] = Undefined /\ NoVars["maker"] = Undefined
      /\ NoInfo["max"] = Undefined /\ NoInfo["unity"] = Undefined
  BY DEF NoVars, NoInfo, StateVars, TokenKeys
<1>3. /\ IssuerOf = [c \in Contracts |-> Undefined] /\ MakerOf = [c \in Contracts |-> Undefined]
      /\ MaxOf = [c \in Contracts |-> Undefined] /\ UnityOf = [c \in Contracts |-> Undefined]
  BY <1>1, <1>2 DEF IssuerOf, MakerOf, MaxOf, UnityOf
<1> QED BY <1>1, <1>3 DEF Promise!Init, NoUnits, IssuerOf, MakerOf, MaxOf, UnityOf

\* The byte code of a token contract, opcode by opcode, implements what the
\* contract promises: the issuer is appointed by the maker alone, the supply
\* and the unity are the issuer's alone, and units are moved by their holder
\* alone, whole transactions at a time and never past the limit.
THEOREM PromiseKeptAlways == Spec => PromiseKept
<1>1. Spec => Promise!Init
  BY StartsRefine, PTL DEF Spec
<1>2. Spec => [][Promise!Next]_(Promise!vars)
  BY StepsRefine, BooksAlways, PlaceAlways, PTL DEF Spec
<1> QED BY <1>1, <1>2, PTL DEF PromiseKept, Promise!Spec
=============================================================================
