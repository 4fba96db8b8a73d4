------------------------------- MODULE Reward -------------------------------
(***************************************************************************)
(* AfterExecuteTransactions of the formulator process: the generator is    *)
(* counted, the reward is paid when its height has come, and the revoked   *)
(* formulators and the unstaked amounts of this height are paid back.      *)
(*                                                                         *)
(* order[hyper] is the order in which Go ranges over the map of the        *)
(* stakers whose accounts are gone.  The other loops over Go maps do       *)
(* commuting updates.  Events are left out.                                *)
(***************************************************************************)
EXTENDS Formulator

GenTable       == <<Process, "gen">>
GenKey(addr)   == <<Process, "gen", "value", addr>>
addGenCount(l, addr) ==
    Set(InsertItem(l, GenTable, addr), GenKey(addr), Get(l, GenKey(addr), 0) + 1)

GenCountMap(l) == [addr \in Items(l, GenTable) |-> Get(l, GenKey(addr), 0)]
flushGenCountMap(l) ==
    LET Clear(c, addr) == Set(c, GenKey(addr), Nil)
    IN  FlushItems(FoldLeft(Clear, l, Sorted(Items(l, GenTable))), GenTable)

PaidKey                 == <<Process, "lastPaidHeight">>
StakingPaidKey(hyper)   == <<hyper, "lastStakingPaidHeight">>
StackKey                == <<Process, "stackRewardMap">>
PrevKey(hyper)          == <<hyper, "stakingAmountMap">>
PowerKey(hyper)         == <<hyper, "stakingPowerMap">>

LastPaidHeight(l) == Get(l, PaidKey, 0)
RewardDue(l)      == l.height >= LastPaidHeight(l) + RewardPolicy(l).every

Efficiency(policy, type) ==
    CASE type = "alpha" -> policy.alpha
      [] type = "sigma" -> policy.sigma
      [] type = "omega" -> policy.omega
      [] type = "hyper" -> policy.hyper

Power(am, count, efficiency) == (am * count * efficiency) \div 1000
Share(power, total, sum)     == (power * ((total * COIN) \div sum)) \div COIN

\* The sum of two maps from addresses to amounts.
Plus(f, g)    == [x \in DOMAIN f \cup DOMAIN g |-> At(f, x) + At(g, x)]
Present(l, f) == RestrictDomain(f, LAMBDA addr : HasAccount(l, addr))

-----------------------------------------------------------------------------
(* The staking power of a hyper formulator that made count blocks.         *)

Missing(l, hyper) == {addr \in Items(l, StakingTable(hyper)) : ~HasAccount(l, addr)}

\* Stakers whose account is gone lose what they staked; the account's sum keeps it.
DropMissing(l, hyper, order) ==
    LET Drop(c, addr) == subStakingAmount(c, hyper, addr, GetStakingAmount(c, hyper, addr))
    IN  FoldLeft(Drop, l, order)

Current(l, hyper) == Present(l, GetStakingAmountMap(l, hyper))

\* What was staked at the last reward and still is.
Cross(l, hyper) ==
    LET prev == RestrictValues(Get(l, PrevKey(hyper), Empty), LAMBDA am : am # 0)
        cur  == RestrictValues(Current(l, hyper), LAMBDA am : am # 0)
    IN  [addr \in DOMAIN prev \cap DOMAIN cur |-> Min({prev[addr], cur[addr]})]

PowerOf(f, count, policy) == SumFunction([addr \in DOMAIN f |-> Power(f[addr], count, policy.staking)])

\* The map of powers, and what it adds to the power of the hyper formulator.
\* A reward that is not paid out yet counts as staked.
WithStack(powers, own, count, policy, reward) ==
    LET added == [addr \in DOMAIN powers |-> Share(powers[addr], reward, SumFunction(powers))]
    IN  IF SumFunction(powers) = 0 THEN [map |-> powers, power |-> own]
        ELSE [map |-> Plus(powers, added), power |-> own + PowerOf(added, count, policy)]

StakingPower(l, powers, own, hyper, count, stack) ==
    IF hyper \notin DOMAIN stack THEN [map |-> powers, power |-> own]
    ELSE WithStack(Present(l, powers), own, count, RewardPolicy(l), stack[hyper])

StakingPowers(l, hypers, counts, stack) ==
    [h \in hypers |-> StakingPower(l, Plus(Get(l, PowerKey(h), Empty), Cross(l, h)),
                                   PowerOf(Cross(l, h), counts[h], RewardPolicy(l)), h, counts[h], stack)]

UpdatePowers(l, staking, order) ==
    LET Update(c, h) == Set(Set(DropMissing(c, h, order[h]), PrevKey(h), Current(c, h)),
                            PowerKey(h), staking[h].map)
    IN  FoldLeft(Update, l, Sorted(DOMAIN staking))

-----------------------------------------------------------------------------
(* What the stakers of a hyper formulator are paid.                        *)

StakingDue(l, hyper) ==
    l.height >= Get(l, StakingPaidKey(hyper), 0) + RewardPolicy(l).every * l.acc[hyper].policy.interval

PayStaker(l, hyper, addr, am) ==
    CASE am = 0 -> l
      [] GetUserAutoStaking(l, hyper, addr) -> AddStakingAmount(l, hyper, addr, am)
      [] OTHER -> AddBalance(l, addr, am)

PayShares(l, hyper, gross) ==
    LET Commission(addr) == (gross[addr] * l.acc[hyper].policy.commission) \div 1000
        Pay(c, addr)     == PayStaker(c, hyper, addr, gross[addr] - Commission(addr))
    IN  AddBalance(FoldLeft(Pay, l, Sorted(DOMAIN gross)), hyper, MapThenSumSet(Commission, DOMAIN gross))

PayStakers(l, hyper, powers, reward) ==
    LET gross == [addr \in DOMAIN powers |-> Share(powers[addr], reward, SumFunction(powers))]
    IN  Set(Set(IF SumFunction(powers) = 0 THEN l ELSE PayShares(l, hyper, gross), PowerKey(hyper), Nil),
            StakingPaidKey(hyper), l.height)

PayOut(l, due, stacked) ==
    LET Pay(c, h) == PayStakers(c, h, Present(c, Get(c, PowerKey(h), Empty)), stacked[h])
    IN  Set(FoldLeft(Pay, l, Sorted(due)), StackKey, Without(stacked, due))

-----------------------------------------------------------------------------
(* The reward, in the order of the code: the powers, the shares of the     *)
(* formulators, what is stacked for the stakers, and what is paid of it.   *)

Makers(l, counts) == {a \in DOMAIN counts : HasAccount(l, a) /\ ~l.acc[a].revoked}

StackRewardMap(l, counts) ==
    Without(Get(l, StackKey, Empty), {a \in DOMAIN counts : ~HasAccount(l, a)})

OwnPowers(l, counts) ==
    [a \in Makers(l, counts) |-> Power(l.acc[a].amount, counts[a], Efficiency(RewardPolicy(l), l.acc[a].type))]

PowerSum(own, staking) == SumFunction(own) + SumFunction([h \in DOMAIN staking |-> staking[h].power])

TotalReward(l) == RewardPolicy(l).perBlock * (l.height - LastPaidHeight(l)) + CollectedFee(l)

PayMakers(l, own, total, sum) ==
    LET Pay(c, a) == AddBalance(c, a, Share(own[a], total, sum))
    IN  FoldLeft(Pay, SubCollectedFee(l, CollectedFee(l)), Sorted(DOMAIN own))

Stacked(stack, staking, total, sum) ==
    Plus(stack, [h \in DOMAIN staking |-> Share(staking[h].power, total, sum)])

PayStacked(l, hypers, stacked) ==
    PayOut(l, {h \in hypers \cap DOMAIN stacked : StakingDue(l, h)}, stacked)

PayPowers(l, own, staking, stack, total, sum) ==
    IF sum = 0 THEN PayStacked(l, DOMAIN staking, stack)
    ELSE PayStacked(PayMakers(l, own, total, sum), DOMAIN staking, Stacked(stack, staking, total, sum))

PayCounts(l, counts, own, staking, stack, order) ==
    PayPowers(UpdatePowers(flushGenCountMap(l), staking, order), own, staking, stack,
              TotalReward(l), PowerSum(own, staking))

\* A generator that is not a formulator is an error.
PayReward(l, counts, stack, order) ==
    LET hypers == {a \in Makers(l, counts) : IsHyper(l, a)}
    IN  IF \E a \in DOMAIN counts : HasAccount(l, a) /\ ~IsFormulator(l, a) THEN Fail(l)
        ELSE Set(PayCounts(l, counts, OwnPowers(l, counts), StakingPowers(l, hypers, counts, stack), stack, order),
                 PaidKey, l.height)

-----------------------------------------------------------------------------
(* What is paid back at this height.                                       *)

\* The stakers of a revoked hyper formulator; the sum must come out at zero.
PayBackStakers(l, hyper) ==
    LET amounts == GetStakingAmountMap(l, hyper)
        Pay(c, addr) == AddBalance(c, addr, amounts[addr])
    IN  IF 0 \in Range(amounts) \/ SumFunction(amounts) # l.acc[hyper].staking THEN Fail(l)
        ELSE FoldLeft(Pay, l, Sorted(DOMAIN amounts))

Inherit(l, addr, heritor) ==
    IF ~HasAccount(l, heritor) THEN l
    ELSE RemoveBalance(AddBalance(AddBalance(l, heritor, l.acc[addr].amount), heritor, Balance(l, addr)), addr)

PayBackFormulator(l, addr, heritor) ==
    IF ~l.ok \/ ~IsFormulator(l, addr) THEN Fail(l)
    ELSE LET inherited == Inherit(l, addr, heritor)
         IN  DeleteAccount(IF IsHyper(l, addr) THEN PayBackStakers(inherited, addr) ELSE inherited, addr)

PayBackRevoked(l) ==
    LET Back(c, addr) == PayBackFormulator(c, addr, Get(l, HeritorKey(l.height, addr), Nil))
    IN  FoldLeft(Back, flushRevokedFormulatorMap(l), Sorted(Items(l, RevokedTable(l.height))))

PayBackUnstaked(l) ==
    LET Back(c, addr) ==
            IF ~c.ok THEN c ELSE AddBalance(c, addr, SumFunction(GetUnstakingAmountMap(l, addr, l.height)))
    IN  FoldLeft(Back, flushUnstakingAmountMap(l), Sorted(Items(l, UnstakingTable(l.height))))

RewardWhenDue(l, order) ==
    IF RewardDue(l) THEN PayReward(l, GenCountMap(l), StackRewardMap(l, GenCountMap(l)), order) ELSE l

AfterExecuteTransactions(l, generator, order) ==
    PayBackUnstaked(PayBackRevoked(RewardWhenDue(addGenCount(l, generator), order)))

\* The orders Go may take.
Orders(l) == LET hypers == {a \in DOMAIN l.acc : IsHyper(l, a)}
             IN  {f \in [hypers -> UNION {SetToSeqs(Missing(l, h)) : h \in hypers} \cup {<<>>}] :
                      \A h \in hypers : ToSet(f[h]) = Missing(l, h)}

=============================================================================
