-------------------------------- MODULE Vault --------------------------------
(***************************************************************************)
(* The vault process: balances, the collected fee, and the transactions    *)
(* that move coins and make accounts.  For a transaction T, T_Validate is  *)
(* its Validate and T_Execute its Execute.                                 *)
(*                                                                         *)
(* A transaction is a record.  signers are the key hashes recovered from   *)
(* its signatures.  The other fields are those of the Go struct.           *)
(***************************************************************************)
EXTENDS Loader

CONSTANTS COIN,         \* amount.COIN, in the smallest unit; also the factor of ratios
          AllowedName   \* the names IsAllowedAccountName accepts

ASSUME COINAssumption == COIN \in Nat /\ COIN >= 10

Tenth == COIN \div 10     \* the fee of a transaction and the dust limit

-----------------------------------------------------------------------------
(* Accounts and who may sign for them.                                     *)

SingleAccount(name, key) == [kind |-> "single", name |-> name, key |-> key]
MultiAccount(name, keys, required) ==
    [kind |-> "multi", name |-> name, keys |-> keys, required |-> required]

SingleValidate(acc, signers) == signers = <<acc.key>>
MultiValidate(acc, signers) ==
    /\ Len(acc.keys) = Len(signers)
    /\ Cardinality({i \in DOMAIN acc.keys : Contains(signers, acc.keys[i])}) = acc.required

\* A formulator account validates as a single account does.
Signed(l, addr, signers) ==
    /\ HasAccount(l, addr)
    /\ IF l.acc[addr].kind = "multi" THEN MultiValidate(l.acc[addr], signers)
       ELSE SingleValidate(l.acc[addr], signers)

SeqAhead(l, tx) == tx.seq > Seq_(l, tx.from)
NameFree(l, tx) == tx.name \notin l.names

\* admin.AdminAddress: every process has the same admin account.
AdminKey        == <<Process, "admin">>
AdminAddress(l) == Get(l, AdminKey, ZeroAddress)
ByAdmin(l, tx)  == tx.from = AdminAddress(l)

-----------------------------------------------------------------------------
(* Balances.                                                               *)

BalanceKey(addr)      == <<addr, "balance">>
Balance(l, addr)      == Get(l, BalanceKey(addr), 0)
AddBalance(l, addr, am) == Set(l, BalanceKey(addr), Bytes(Balance(l, addr) + am))

\* Mutant of RemoveBalance: the balance stays.
KeepBalance(l, addr) == l

RemoveBalance(l, addr) == Set(l, BalanceKey(addr), Nil)

SubBalance(l, addr, am) ==
    IF Balance(l, addr) < am THEN Fail(l) ELSE Set(l, BalanceKey(addr), Bytes(Balance(l, addr) - am))

FeeKey                  == <<Process, "fee">>
CollectedFee(l)         == Get(l, FeeKey, 0)
AddCollectedFee(l, am)  == Set(l, FeeKey, Bytes(CollectedFee(l) + am))

\* Mutant of SubCollectedFee: the fee is paid out and kept.
KeepCollectedFee(l, am) == l

SubCollectedFee(l, am) ==
    IF CollectedFee(l) < am THEN Fail(l) ELSE Set(l, FeeKey, Bytes(CollectedFee(l) - am))

CheckFeePayableWith(l, tx, am) == Balance(l, tx.from) >= Tenth + am
CheckFeePayable(l, tx)         == CheckFeePayableWith(l, tx, 0)

\* Mutant of Settle: what was done before the error stays.
SettleKeeps(paid, done) == Commit(paid, done)

\* The fee stays paid when the rest fails; what the rest wrote does not stay.
Settle(paid, done) == IF done.ok THEN Commit(paid, done) ELSE Fail(paid)

PayFee(l, tx) == AddCollectedFee(SubBalance(l, tx.from, Tenth), Tenth)

\* WithFee: the fee, then the transaction's own work on a snapshot.
WithFee(l, tx, fn(_)) ==
    LET paid == PayFee(l, tx)
    IN  IF paid.ok THEN Settle(paid, fn(Snapshot(paid))) ELSE paid

Policy(l) == Get(l, <<Process, "vaultPolicy">>, Nil)

-----------------------------------------------------------------------------
(* Transactions.                                                           *)

Transfer_Validate(l, tx) ==
    /\ tx.amount >= Tenth
    /\ HasAccount(l, tx.to)
    /\ Signed(l, tx.from, tx.signers)
    /\ CheckFeePayableWith(l, tx, tx.amount)

Transfer_Execute(l, tx) ==
    WithFee(l, tx, LAMBDA c : AddBalance(SubBalance(c, tx.from, tx.amount), tx.to, tx.amount))

Burn_Validate(l, tx) ==
    /\ SeqAhead(l, tx)
    /\ Signed(l, tx.from, tx.signers)
    /\ CheckFeePayableWith(l, tx, tx.amount)

Burn_Execute(l, tx) == WithFee(l, tx, LAMBDA c : SubBalance(c, tx.from, tx.amount))

CreateAccount_Validate(l, tx) ==
    /\ tx.name \in AllowedName
    /\ SeqAhead(l, tx)
    /\ NameFree(l, tx)
    /\ Signed(l, tx.from, tx.signers)
    /\ CheckFeePayableWith(l, tx, Policy(l))

\* The price of an account goes to the collected fee.
Charge(l, tx, am) == AddCollectedFee(SubBalance(l, tx.from, am), am)

CreateAccount_Execute(l, tx, index) ==
    WithFee(l, tx, LAMBDA c :
        CreateAccount(Charge(c, tx, Policy(c)), NewAddress(c, index), SingleAccount(tx.name, tx.key)))

CreationCost == COIN * 10

\* The name is not looked up here: CreateAccount fails later when it is taken.
CreateMultiAccount_Validate(l, tx) ==
    /\ tx.name \in AllowedName
    /\ tx.required >= 1
    /\ Len(tx.keys) \in 2 .. 10
    /\ IsInjective(tx.keys)
    /\ SeqAhead(l, tx)
    /\ Signed(l, tx.from, tx.signers)
    /\ CheckFeePayableWith(l, tx, CreationCost)

CreateMultiAccount_Execute(l, tx, index) ==
    WithFee(l, tx, LAMBDA c :
        CreateAccount(Charge(c, tx, CreationCost), NewAddress(c, index),
                      MultiAccount(tx.name, tx.keys, tx.required)))

IssueAccount_Validate(l, tx) ==
    /\ ByAdmin(l, tx)
    /\ SeqAhead(l, tx)
    /\ NameFree(l, tx)
    /\ Signed(l, tx.from, tx.signers)

IssueAccount_Execute(l, tx, index) ==
    CreateAccount(l, NewAddress(l, index), SingleAccount(tx.name, tx.key))

VaultPolicy_Validate(l, tx) ==
    /\ ByAdmin(l, tx)
    /\ tx.policy # Nil
    /\ SeqAhead(l, tx)
    /\ Signed(l, tx.from, tx.signers)

VaultPolicy_Execute(l, tx) == Set(l, <<Process, "vaultPolicy">>, tx.policy)

=============================================================================
