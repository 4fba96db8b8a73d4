----------------------------- MODULE Formulator -----------------------------
(***************************************************************************)
(* The formulator process: the accounts that may make blocks, staking at   *)
(* hyper formulators, the reward, and the revoked and unstaked amounts     *)
(* that are paid back when their height comes.                             *)
(***************************************************************************)
EXTENDS Vault

CONSTANTS
    AlphaPolicy,    \* [amount, unlock, limit]
    SigmaPolicy,    \* [blocks, count, unlock]
    OmegaPolicy,    \* [blocks, count, unlock]
    HyperPolicy     \* [amount, unlock, stakingUnlock]

\* FormulatorAccount.  policy is [commission, interval, minimum], Nil when not a hyper.
FormulatorAccount(l, type, tx, am, policy) ==
    [kind |-> "formulator", name |-> tx.name, key |-> tx.key, type |-> type, amount |-> am, revoked |-> FALSE,
     pre |-> 0, updated |-> l.height, staking |-> 0, policy |-> policy]

IsFormulator(l, addr)  == HasAccount(l, addr) /\ l.acc[addr].kind = "formulator"
IsType(l, addr, type)  == IsFormulator(l, addr) /\ l.acc[addr].type = type
IsHyper(l, addr)       == IsType(l, addr, "hyper")

-----------------------------------------------------------------------------
(* Staking amounts: a table of the stakers of each hyper formulator.       *)

StakingTable(hyper)         == <<hyper, "staking">>
StakingKey(hyper, addr)     == <<hyper, "staking", "amount", addr>>
GetStakingAmount(l, hyper, addr) == Get(l, StakingKey(hyper, addr), 0)

AddStakingAmount(l, hyper, addr, am) ==
    Set(InsertItem(l, StakingTable(hyper), addr), StakingKey(hyper, addr),
        Bytes(GetStakingAmount(l, hyper, addr) + am))

subStakingAmount(l, hyper, addr, am) ==
    LET total == GetStakingAmount(l, hyper, addr) - am
    IN  CASE GetStakingAmount(l, hyper, addr) < am -> Fail(l)
          [] total = 0 -> Set(RemoveItem(l, StakingTable(hyper), addr), StakingKey(hyper, addr), Nil)
          [] OTHER     -> Set(l, StakingKey(hyper, addr), total)

GetStakingAmountMap(l, hyper) ==
    [addr \in Items(l, StakingTable(hyper)) |-> GetStakingAmount(l, hyper, addr)]

\* Mutant of AddStakingSum: the sum is not updated.
KeepStakingSum(l, hyper, am) == l

\* The sum that the hyper formulator's account keeps of them.
AddStakingSum(l, hyper, am) ==
    IF l.ok THEN [l EXCEPT !.acc[hyper].staking = @ + am] ELSE l
SubStakingSum(l, hyper, am) ==
    IF l.ok THEN [l EXCEPT !.acc[hyper].staking = @ - am] ELSE l

AutoStakingKey(hyper, addr)         == <<hyper, "auto", addr>>
GetUserAutoStaking(l, hyper, addr)  == Get(l, AutoStakingKey(hyper, addr), Nil) # Nil
setUserAutoStaking(l, hyper, addr, is) == Set(l, AutoStakingKey(hyper, addr), IF is THEN 1 ELSE Nil)

-----------------------------------------------------------------------------
(* Revoked formulators, by the height at which they are paid back.         *)

RevokedTable(height)         == <<Process, "revoked", height>>
HeritorKey(height, addr)     == <<Process, "heritor", height, addr>>
RevokedHeightKey(addr)       == <<addr, "revokedHeight">>

\* Mutant of addRevokedFormulator: the heritor is not stored.
AddWithoutHeritor(l, addr, height, heritor) ==
    IF Get(l, RevokedHeightKey(addr), Nil) # Nil THEN Fail(l)
    ELSE InsertItem(Set(l, RevokedHeightKey(addr), height), RevokedTable(height), addr)

addRevokedFormulator(l, addr, height, heritor) ==
    IF Get(l, RevokedHeightKey(addr), Nil) # Nil THEN Fail(l)
    ELSE LET l1 == InsertItem(Set(l, RevokedHeightKey(addr), height), RevokedTable(height), addr)
         IN  Set(l1, HeritorKey(height, addr), heritor)

\* Mutant of removeRevokedFormulator: the account still names the height.
RemoveKeepsHeight(l, addr) ==
    LET height == Get(l, RevokedHeightKey(addr), Nil)
    IN  IF height = Nil \/ ~Indexed(l, RevokedTable(height), addr) THEN Fail(l)
        ELSE RemoveItem(l, RevokedTable(height), addr)

\* The heritor's key is left.
removeRevokedFormulator(l, addr) ==
    LET height == Get(l, RevokedHeightKey(addr), Nil)
        l1     == Set(l, RevokedHeightKey(addr), Nil)
    IN  CASE height = Nil -> Fail(l)
          [] ~Indexed(l1, RevokedTable(height), addr) -> Fail(l1)
          [] OTHER -> RemoveItem(l1, RevokedTable(height), addr)

flushRevokedFormulatorMap(l) ==
    LET table == RevokedTable(l.height)
        Clear(c, addr) ==
            IF Get(l, HeritorKey(l.height, addr), Nil) = Nil THEN Fail(c)
            ELSE Set(Set(c, RevokedHeightKey(addr), Nil), HeritorKey(l.height, addr), Nil)
    IN  FlushItems(FoldLeft(Clear, l, Sorted(Items(l, table))), table)

-----------------------------------------------------------------------------
(* Unstaked amounts, by the height at which they are paid back.            *)

UnstakingTable(height)     == <<Process, "unstaking", height>>
UnstakingKey(height, addr) == <<Process, "unstaking", height, "amount", addr>>
GetUnstakingAmountMap(l, addr, height) == Get(l, UnstakingKey(height, addr), Nil)

addUnstakingAmount(l, hyper, addr, height, am) ==
    LET l1 == InsertItem(l, UnstakingTable(height), addr)
        mp == Get(l, UnstakingKey(height, addr), Empty)
    IN  Set(l1, UnstakingKey(height, addr), Put(mp, hyper, At(mp, hyper) + am))

\* An entry is removed only when it was zero before, so an emptied one stays as zero.
subUnstakingAmount(l, hyper, addr, height, am) ==
    LET mp   == Get(l, UnstakingKey(height, addr), Empty)
        left == IF mp[hyper] = 0 THEN Without(mp, {hyper}) ELSE Put(mp, hyper, mp[hyper] - am)
    IN  CASE hyper \notin DOMAIN mp \/ At(mp, hyper) < am -> Fail(l)
          [] left # Empty -> Set(l, UnstakingKey(height, addr), left)
          [] OTHER -> RemoveItem(l, UnstakingTable(height), addr)

flushUnstakingAmountMap(l) ==
    LET table == UnstakingTable(l.height)
        Clear(c, addr) ==
            IF GetUnstakingAmountMap(l, addr, l.height) = Nil THEN Fail(c)
            ELSE Set(c, UnstakingKey(l.height, addr), Nil)
    IN  FlushItems(FoldLeft(Clear, l, Sorted(Items(l, table))), table)

-----------------------------------------------------------------------------
(* Transactions that make, merge and revoke formulators.                   *)

CreateAlpha_Validate(l, tx) ==
    /\ tx.name \in AllowedName
    /\ SeqAhead(l, tx)
    /\ NameFree(l, tx)
    /\ Signed(l, tx.from, tx.signers)
    /\ l.height >= AlphaPolicy.limit
    /\ CheckFeePayableWith(l, tx, AlphaPolicy.amount)

CreateAlpha_Execute(l, tx, index) ==
    WithFee(l, tx, LAMBDA c :
        CreateAccount(SubBalance(c, tx.from, AlphaPolicy.amount), NewAddress(c, index),
                      FormulatorAccount(c, "alpha", tx, AlphaPolicy.amount, Nil)))

\* Whether a formulator is revoked is not asked.
Merge_Validate(l, tx, type, policy) ==
    /\ tx.from = tx.merged[1]
    /\ SeqAhead(l, tx)
    /\ Len(tx.merged) = Len(tx.signers)
    /\ Len(tx.merged) = policy.count
    /\ \A i \in DOMAIN tx.merged :
          /\ IsType(l, tx.merged[i], type)
          /\ l.height + l.acc[tx.merged[i]].pre >= l.acc[tx.merged[i]].updated + policy.blocks
          /\ Signed(l, tx.merged[i], <<tx.signers[i]>>)
    /\ CheckFeePayable(l, tx)

\* The first formulator takes the balances and the amounts of the others.
Merge(l, into, addr) ==
    IF ~l.ok \/ ~HasAccount(l, addr) THEN Fail(l)
    ELSE LET l1 == RemoveBalance(AddBalance(l, into, Balance(l, addr)), addr)
             l2 == [l1 EXCEPT !.acc[into].amount = @ + l.acc[addr].amount]
         IN  DeleteAccount(l2, addr)

Merge_Execute(l, tx, type) ==
    WithFee(l, tx, LAMBDA c :
        LET Take(d, addr) == Merge(d, tx.from, addr)
            done == FoldLeft(Take, c, Tail(tx.merged))
        IN  IF ~done.ok THEN done
            ELSE [done EXCEPT !.acc[tx.from].type = type, !.acc[tx.from].pre = 0,
                              !.acc[tx.from].updated = c.height])

CreateSigma_Validate(l, tx) == Merge_Validate(l, tx, "alpha", SigmaPolicy)
CreateSigma_Execute(l, tx)  == Merge_Execute(l, tx, "sigma")
CreateOmega_Validate(l, tx) == Merge_Validate(l, tx, "sigma", OmegaPolicy)
CreateOmega_Execute(l, tx)  == Merge_Execute(l, tx, "omega")

CreateHyper_Validate(l, tx) ==
    /\ ByAdmin(l, tx)
    /\ tx.policy # Nil
    /\ tx.policy.commission <= 1000
    /\ SeqAhead(l, tx)
    /\ NameFree(l, tx)
    /\ Signed(l, tx.from, tx.signers)

CreateHyper_Execute(l, tx, index) ==
    CreateAccount(SubBalance(l, tx.from, HyperPolicy.amount), NewAddress(l, index),
                  FormulatorAccount(l, "hyper", tx, HyperPolicy.amount, tx.policy))

Unlock(type) ==
    CASE type = "alpha" -> AlphaPolicy.unlock
      [] type = "sigma" -> SigmaPolicy.unlock
      [] type = "omega" -> OmegaPolicy.unlock
      [] type = "hyper" -> HyperPolicy.unlock

Revoke_Validate(l, tx) ==
    /\ tx.from # tx.heritor
    /\ SeqAhead(l, tx)
    /\ HasAccount(l, tx.heritor)
    /\ IsFormulator(l, tx.from)
    /\ ~l.acc[tx.from].revoked
    /\ Signed(l, tx.from, tx.signers)
    /\ CheckFeePayable(l, tx)

Revoke_Execute(l, tx) ==
    WithFee(l, tx, LAMBDA c :
        addRevokedFormulator([c EXCEPT !.acc[tx.from].revoked = TRUE], tx.from,
                             c.height + Unlock(c.acc[tx.from].type), tx.heritor))

RevertRevoke_Validate(l, tx) ==
    /\ SeqAhead(l, tx)
    /\ IsFormulator(l, tx.from)
    /\ l.acc[tx.from].revoked
    /\ Signed(l, tx.from, tx.signers)
    /\ CheckFeePayable(l, tx)

RevertRevoke_Execute(l, tx) ==
    WithFee(l, tx, LAMBDA c : removeRevokedFormulator([c EXCEPT !.acc[tx.from].revoked = FALSE], tx.from))

ChangeOwner_Validate(l, tx) ==
    /\ SeqAhead(l, tx)
    /\ IsFormulator(l, tx.from)
    /\ Signed(l, tx.from, tx.signers)
    /\ CheckFeePayable(l, tx)

ChangeOwner_Execute(l, tx) == WithFee(l, tx, LAMBDA c : [c EXCEPT !.acc[tx.from].key = tx.key])

-----------------------------------------------------------------------------
(* Transactions of the stakers.                                            *)

Staking_Validate(l, tx) ==
    /\ tx.amount >= Tenth
    /\ SeqAhead(l, tx)
    /\ tx.from # tx.hyper
    /\ IsHyper(l, tx.hyper)
    /\ ~l.acc[tx.hyper].revoked
    /\ tx.amount >= l.acc[tx.hyper].policy.minimum
    /\ Signed(l, tx.from, tx.signers)
    /\ CheckFeePayableWith(l, tx, tx.amount)

Staking_Execute(l, tx) ==
    WithFee(l, tx, LAMBDA c :
        AddStakingSum(AddStakingAmount(SubBalance(c, tx.from, tx.amount), tx.hyper, tx.from, tx.amount),
                      tx.hyper, tx.amount))

Unstaking_Validate(l, tx) ==
    /\ tx.amount >= COIN
    /\ SeqAhead(l, tx)
    /\ IsHyper(l, tx.hyper)
    /\ Signed(l, tx.from, tx.signers)
    /\ GetStakingAmount(l, tx.hyper, tx.from) >= tx.amount
    /\ l.acc[tx.hyper].staking >= tx.amount
    /\ CheckFeePayable(l, tx)

Unstaking_Execute(l, tx) ==
    WithFee(l, tx, LAMBDA c :
        addUnstakingAmount(SubStakingSum(subStakingAmount(c, tx.hyper, tx.from, tx.amount), tx.hyper, tx.amount),
                           tx.hyper, tx.from, c.height + HyperPolicy.stakingUnlock, tx.amount))

RevertUnstaking_Validate(l, tx) ==
    /\ tx.amount >= COIN
    /\ SeqAhead(l, tx)
    /\ IsHyper(l, tx.hyper)
    /\ Signed(l, tx.from, tx.signers)
    /\ GetUnstakingAmountMap(l, tx.from, tx.height) # Nil
    /\ tx.hyper \in DOMAIN GetUnstakingAmountMap(l, tx.from, tx.height)
    /\ GetUnstakingAmountMap(l, tx.from, tx.height)[tx.hyper] >= tx.amount
    /\ CheckFeePayable(l, tx)

RevertUnstaking_Execute(l, tx) ==
    WithFee(l, tx, LAMBDA c :
        AddStakingSum(AddStakingAmount(subUnstakingAmount(c, tx.hyper, tx.from, tx.height, tx.amount),
                                       tx.hyper, tx.from, tx.amount),
                      tx.hyper, tx.amount))

AutoStaking_Validate(l, tx) ==
    /\ SeqAhead(l, tx)
    /\ IsHyper(l, tx.hyper)
    /\ Signed(l, tx.from, tx.signers)
    /\ CheckFeePayable(l, tx)

AutoStaking_Execute(l, tx) ==
    WithFee(l, tx, LAMBDA c : setUserAutoStaking(c, tx.hyper, tx.from, tx.auto))

TransmutePolicy(l) == Get(l, <<Process, "transmutePolicy">>, Nil)
TransmuteOpen(l)   == /\ TransmutePolicy(l) # Nil
                      /\ l.height \in TransmutePolicy(l).first .. TransmutePolicy(l).last

\* Staked amounts become an alpha formulator.
Transmute_Validate(l, tx) ==
    /\ tx.name \in AllowedName
    /\ TransmuteOpen(l)
    /\ Len(tx.amounts) <= 10 /\ Len(tx.amounts) = Len(tx.hypers)
    /\ SeqAhead(l, tx)
    /\ NameFree(l, tx)
    /\ l.height >= AlphaPolicy.limit
    /\ \A i \in DOMAIN tx.amounts : tx.amounts[i] >= COIN
    /\ SumFunction(tx.amounts) = AlphaPolicy.amount
    /\ \A i \in DOMAIN tx.hypers :
          /\ IsHyper(l, tx.hypers[i])
          /\ GetStakingAmount(l, tx.hypers[i], tx.from) >= tx.amounts[i]
          /\ l.acc[tx.hypers[i]].staking >= tx.amounts[i]
    /\ Signed(l, tx.from, tx.signers)

Transmute_Execute(l, tx, index) ==
    LET Take(c, i) == SubStakingSum(subStakingAmount(c, tx.hypers[i], tx.from, tx.amounts[i]),
                                    tx.hypers[i], tx.amounts[i])
    IN  IF ~TransmuteOpen(l) THEN Fail(l)
        ELSE CreateAccount(FoldLeftDomain(Take, l, tx.hypers), NewAddress(l, index),
                           FormulatorAccount(l, "alpha", tx, AlphaPolicy.amount, Nil))

-----------------------------------------------------------------------------
(* Transactions that change a policy.                                      *)

ValidatorPolicy_Validate(l, tx) ==
    /\ tx.policy # Nil
    /\ tx.policy.commission < 1000
    /\ tx.policy.interval \in 1 .. 30
    /\ SeqAhead(l, tx)
    /\ IsHyper(l, tx.from)
    /\ Signed(l, tx.from, tx.signers)

ValidatorPolicy_Execute(l, tx) == [l EXCEPT !.acc[tx.from].policy = tx.policy]

\* [perBlock, every, alpha, sigma, omega, hyper, staking]
RewardPolicy(l) == Get(l, <<Process, "rewardPolicy">>, Nil)

RewardPolicy_Validate(l, tx) ==
    /\ ByAdmin(l, tx)
    /\ tx.policy # Nil
    /\ SeqAhead(l, tx)
    /\ Signed(l, tx.from, tx.signers)

RewardPolicy_Execute(l, tx) == Set(l, <<Process, "rewardPolicy">>, tx.policy)

\* A transaction without a policy removes the policy.
TransmutePolicy_Validate(l, tx) == ByAdmin(l, tx) /\ SeqAhead(l, tx) /\ Signed(l, tx.from, tx.signers)
TransmutePolicy_Execute(l, tx)  == Set(l, <<Process, "transmutePolicy">>, tx.policy)

=============================================================================
