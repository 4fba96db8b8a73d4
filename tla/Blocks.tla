------------------------------- MODULE Blocks -------------------------------
(***************************************************************************)
(* Blocks over the processes.  A formulator makes a block: NewBlockCreator *)
(* takes a context over the stored state, UnsafeAddTx executes             *)
(* transactions on it and Finalize runs AfterExecuteTransactions.  A node  *)
(* connects the block: executeBlockOnContext does it all again, over the   *)
(* same stored state, and the two contexts must have the same hash.        *)
(***************************************************************************)
EXTENDS Reward, Gateway, Payment

CONSTANTS
    Scope,           \* names of initial states
    Genesis(_),      \* the ledger of a scope
    Generators(_),   \* bound: the formulators that make blocks in the scope
    Offer(_, _),     \* the transactions a pool holds for a ledger of a scope
    MaxHeight(_),    \* bound: the height a behaviour of the scope reaches
    MaxTx(_)         \* bound: the transactions of a block

VARIABLES
    scope,     \* the initial state this behaviour started in
    led,       \* the stored ledger
    ctx,       \* the context of the block creator, Nil when there is none
    block,     \* [generator, txs, results, done]
    used,      \* bound: the transactions that are in a block already are not offered again
    issued,    \* history: the coins that rewards have made
    uneven,    \* history: hyper formulators paid in a way that left the sum of stakings alone
    outcome    \* history: what became of the last block

vars == <<scope, led, ctx, block, used, issued, uneven, outcome>>

NoBlock == [generator |-> Nil, txs |-> <<>>, results |-> <<>>, done |-> FALSE]

Init ==
    /\ scope \in Scope
    /\ led = Genesis(scope)
    /\ ctx = Nil
    /\ block = NoBlock
    /\ used = {}
    /\ issued = 0
    /\ uneven = {}
    /\ outcome = "none"

-----------------------------------------------------------------------------
(* One transaction.                                                        *)

Validate(l, tx) ==
    CASE tx.type = "Transfer"           -> Transfer_Validate(l, tx)
      [] tx.type = "Burn"               -> Burn_Validate(l, tx)
      [] tx.type = "CreateAccount"      -> CreateAccount_Validate(l, tx)
      [] tx.type = "CreateMultiAccount" -> CreateMultiAccount_Validate(l, tx)
      [] tx.type = "IssueAccount"       -> IssueAccount_Validate(l, tx)
      [] tx.type = "VaultPolicy"        -> VaultPolicy_Validate(l, tx)
      [] tx.type = "CreateAlpha"        -> CreateAlpha_Validate(l, tx)
      [] tx.type = "CreateSigma"        -> CreateSigma_Validate(l, tx)
      [] tx.type = "CreateOmega"        -> CreateOmega_Validate(l, tx)
      [] tx.type = "CreateHyper"        -> CreateHyper_Validate(l, tx)
      [] tx.type = "Revoke"             -> Revoke_Validate(l, tx)
      [] tx.type = "RevertRevoke"       -> RevertRevoke_Validate(l, tx)
      [] tx.type = "ChangeOwner"        -> ChangeOwner_Validate(l, tx)
      [] tx.type = "Staking"            -> Staking_Validate(l, tx)
      [] tx.type = "Unstaking"          -> Unstaking_Validate(l, tx)
      [] tx.type = "RevertUnstaking"    -> RevertUnstaking_Validate(l, tx)
      [] tx.type = "AutoStaking"        -> AutoStaking_Validate(l, tx)
      [] tx.type = "Transmute"          -> Transmute_Validate(l, tx)
      [] tx.type = "ValidatorPolicy"    -> ValidatorPolicy_Validate(l, tx)
      [] tx.type = "RewardPolicy"       -> RewardPolicy_Validate(l, tx)
      [] tx.type = "TransmutePolicy"    -> TransmutePolicy_Validate(l, tx)
      [] tx.type = "TokenIn"            -> TokenIn_Validate(l, tx)
      [] tx.type = "TokenOut"           -> TokenOut_Validate(l, tx)
      [] tx.type = "TokenLeave"         -> TokenLeave_Validate(l, tx)
      [] tx.type = "GatewayPolicy"      -> GatewayPolicy_Validate(l, tx)
      [] tx.type = "AddTopic"           -> AddTopic_Validate(l, tx)
      [] tx.type = "RemoveTopic"        -> RemoveTopic_Validate(l, tx)
      [] tx.type = "RequestPayment"     -> RequestPayment_Validate(l, tx)
      [] tx.type = "ResponsePayment"    -> ResponsePayment_Validate(l, tx)
      [] tx.type = "Subscribe"          -> Subscribe_Validate(l, tx)
      [] tx.type = "Unsubscribe"        -> Unsubscribe_Validate(l, tx)
      [] tx.type = "Billing"            -> Billing_Validate(l, tx)

Execute(l, tx, index) ==
    CASE tx.type = "Transfer"           -> Transfer_Execute(l, tx)
      [] tx.type = "Burn"               -> Burn_Execute(l, tx)
      [] tx.type = "CreateAccount"      -> CreateAccount_Execute(l, tx, index)
      [] tx.type = "CreateMultiAccount" -> CreateMultiAccount_Execute(l, tx, index)
      [] tx.type = "IssueAccount"       -> IssueAccount_Execute(l, tx, index)
      [] tx.type = "VaultPolicy"        -> VaultPolicy_Execute(l, tx)
      [] tx.type = "CreateAlpha"        -> CreateAlpha_Execute(l, tx, index)
      [] tx.type = "CreateSigma"        -> CreateSigma_Execute(l, tx)
      [] tx.type = "CreateOmega"        -> CreateOmega_Execute(l, tx)
      [] tx.type = "CreateHyper"        -> CreateHyper_Execute(l, tx, index)
      [] tx.type = "Revoke"             -> Revoke_Execute(l, tx)
      [] tx.type = "RevertRevoke"       -> RevertRevoke_Execute(l, tx)
      [] tx.type = "ChangeOwner"        -> ChangeOwner_Execute(l, tx)
      [] tx.type = "Staking"            -> Staking_Execute(l, tx)
      [] tx.type = "Unstaking"          -> Unstaking_Execute(l, tx)
      [] tx.type = "RevertUnstaking"    -> RevertUnstaking_Execute(l, tx)
      [] tx.type = "AutoStaking"        -> AutoStaking_Execute(l, tx)
      [] tx.type = "Transmute"          -> Transmute_Execute(l, tx, index)
      [] tx.type = "ValidatorPolicy"    -> ValidatorPolicy_Execute(l, tx)
      [] tx.type = "RewardPolicy"       -> RewardPolicy_Execute(l, tx)
      [] tx.type = "TransmutePolicy"    -> TransmutePolicy_Execute(l, tx)
      [] tx.type = "TokenIn"            -> TokenIn_Execute(l, tx)
      [] tx.type = "TokenOut"           -> TokenOut_Execute(l, tx)
      [] tx.type = "TokenLeave"         -> TokenLeave_Execute(l, tx)
      [] tx.type = "GatewayPolicy"      -> GatewayPolicy_Execute(l, tx)
      [] tx.type = "AddTopic"           -> AddTopic_Execute(l, tx)
      [] tx.type = "RemoveTopic"        -> RemoveTopic_Execute(l, tx)
      [] tx.type = "RequestPayment"     -> RequestPayment_Execute(l, tx, index)
      [] tx.type = "ResponsePayment"    -> ResponsePayment_Execute(l, tx)
      [] tx.type = "Subscribe"          -> Subscribe_Execute(l, tx)
      [] tx.type = "Unsubscribe"        -> Unsubscribe_Execute(l, tx)
      [] tx.type = "Billing"            -> Billing_Execute(l, tx)

\* Transfer has no Seq and so is not an AccountTransaction.
IsAccountTx(tx) == tx.type # "Transfer"

Executed(l, tx, index) ==
    Execute(IF IsAccountTx(tx) THEN AddSeq(Snapshot(l), tx.from) ELSE Snapshot(l), tx, index)

\* What lets a transaction into a block.
Accepts(l, tx, index) ==
    /\ Validate(Snapshot(l), tx)
    /\ IF IsAccountTx(tx) THEN tx.seq = Seq_(l, tx.from) + 1 ELSE Executed(l, tx, index).ok

\* An error of an account transaction is its result; what it wrote is committed.
Result(l, tx, index)   == IsAccountTx(tx) /\ Executed(l, tx, index).ok
CommitTx(l, tx, index) == Commit(l, [Executed(l, tx, index) EXCEPT !.ok = TRUE])

-----------------------------------------------------------------------------
(* The block creator.                                                      *)

NewBlock ==
    /\ ctx = Nil /\ led.height < MaxHeight(scope)
    /\ \E generator \in {a \in Generators(scope) : IsFormulator(led, a) /\ ~led.acc[a].revoked} :
          block' = [NoBlock EXCEPT !.generator = generator]
    /\ ctx' = [led EXCEPT !.height = @ + 1]
    /\ UNCHANGED <<scope, led, used, issued, uneven, outcome>>

AddTx(tx) ==
    LET index == Len(block.txs)
    IN  /\ ctx # Nil /\ ~block.done /\ Len(block.txs) < MaxTx(scope)
        /\ Accepts(ctx, tx, index)
        /\ HasAccount(CommitTx(ctx, tx, index), block.generator)
        /\ ctx' = CommitTx(ctx, tx, index)
        /\ block' = [block EXCEPT !.txs = Append(@, tx),
                                  !.results = Append(@, Result(ctx, tx, index))]
        /\ used' = used \cup {tx.id}
        /\ UNCHANGED <<scope, led, issued, uneven, outcome>>

\* Auto staking adds to a staking amount, and a staker whose account is gone
\* takes its amount along; neither changes the hyper formulator's sum.
Unevenly(l) ==
    IF ~RewardDue(l) THEN {}
    ELSE {h \in DOMAIN l.acc : IsHyper(l, h) /\
             (Missing(l, h) # {} \/ \E a \in Items(l, StakingTable(h)) : GetUserAutoStaking(l, h, a))}

\* The reward of the block that turned led into l.
Issued(l) == IF LastPaidHeight(l) = l.height
             THEN RewardPolicy(l).perBlock * (l.height - LastPaidHeight(led)) ELSE 0

Finalize ==
    /\ ctx # Nil /\ ~block.done
    /\ \E order \in Orders(ctx) :
       \E after \in {AfterExecuteTransactions(ctx, block.generator, order)} :
          IF after.ok
          THEN /\ ctx' = after
               /\ block' = [block EXCEPT !.done = TRUE]
               /\ uneven' = uneven \cup Unevenly(ctx)
               /\ UNCHANGED outcome
          ELSE /\ ctx' = Nil
               /\ block' = NoBlock
               /\ outcome' = "failed"
               /\ UNCHANGED uneven
    /\ UNCHANGED <<scope, led, used, issued>>

-----------------------------------------------------------------------------
(* Connecting the block.                                                   *)

\* Mutant of ExecuteTx: transactions are numbered from one.
ExecuteTxFromOne(l, i) ==
    IF l = Nil THEN Nil
    ELSE IF /\ Accepts(l, block.txs[i], i)
            /\ IsAccountTx(block.txs[i]) => Result(l, block.txs[i], i) = block.results[i]
            /\ HasAccount(CommitTx(l, block.txs[i], i), block.generator)
         THEN CommitTx(l, block.txs[i], i) ELSE Nil

\* Nil when the block is refused.
ExecuteTx(l, i) ==
    IF l = Nil THEN Nil
    ELSE IF /\ Accepts(l, block.txs[i], i - 1)
            /\ IsAccountTx(block.txs[i]) => Result(l, block.txs[i], i - 1) = block.results[i]
            /\ HasAccount(CommitTx(l, block.txs[i], i - 1), block.generator)
         THEN CommitTx(l, block.txs[i], i - 1) ELSE Nil

ExecuteTransactions == FoldLeftDomain(ExecuteTx, [led EXCEPT !.height = @ + 1], block.txs)

\* The data of an account goes with it.
ApplyContextData(l) ==
    [l EXCEPT !.data = Without(@, {key \in DOMAIN l.data : key[1] \in l.gone}), !.del = {}, !.gone = {}]

\* Some order of the loop over the stakers, which need not be the creator's.
ConnectBlock ==
    /\ block.done
    /\ \E executed \in {ExecuteTransactions} :
       \E order \in IF executed = Nil THEN {Empty} ELSE Orders(executed) :
          IF executed # Nil /\ AfterExecuteTransactions(executed, block.generator, order) = ctx
          THEN /\ led' = ApplyContextData(ctx)
               /\ issued' = issued + Issued(ctx)
               /\ outcome' = "connected"
          ELSE /\ outcome' = "refused"
               /\ UNCHANGED <<led, issued>>
    /\ ctx' = Nil
    /\ block' = NoBlock
    /\ UNCHANGED <<scope, used, uneven>>

Next ==
    \/ NewBlock
    \/ \E tx \in IF ctx = Nil THEN {} ELSE Offer(scope, ctx) : tx.id \notin used /\ AddTx(tx)
    \/ Finalize
    \/ ConnectBlock

Spec == Init /\ [][Next]_vars

-----------------------------------------------------------------------------
(* Properties.                                                             *)

KeysOf(l, tag) == {key \in DOMAIN l.data : key[2] = tag}

StakingKeys(l)   == {key \in KeysOf(l, "staking") : Len(key) = 4 /\ key[3] = "amount"}
UnstakingKeys(l) == {key \in KeysOf(l, "unstaking") : Len(key) = 5 /\ key[4] = "amount"}

\* Every coin of a ledger.
Supply(l) ==
    LET Amount(key)   == l.data[key]
        Amounts(key)  == SumFunction(l.data[key])
        Formulated(a) == IF IsFormulator(l, a) THEN l.acc[a].amount ELSE 0
    IN  MapThenSumSet(Amount, KeysOf(l, "balance") \cup KeysOf(l, "fee") \cup StakingKeys(l))
        + MapThenSumSet(Amounts, UnstakingKeys(l) \cup KeysOf(l, "stackRewardMap"))
        + MapThenSumSet(Formulated, DOMAIN l.acc)

\* Coins are made by the reward policy only: all that the stored accounts,
\* tables and schedules hold is at most the genesis supply and the rewards of
\* the heights paid for, over every way amounts move between them
\* (AddBalance and SubBalance of the vault and all their callers, the floors
\* of AfterExecuteTransactions, DeleteAccount).
NoInflation == Supply(led) <= Supply(Genesis(scope)) + issued

\* A transaction moves coins and, Burn apart, keeps their sum (each Execute,
\* also one that fails half way), unless a key that was deleted in the block
\* was written again.
TxKeepsSupply ==
    [][ Len(block'.txs) > Len(block.txs) /\ ~ctx'.lost =>
        LET tx == Last(block'.txs)
        IN  Supply(ctx') = Supply(ctx) - (IF tx.type = "Burn" THEN tx.amount ELSE 0) ]_vars

\* An account transaction whose result is zero costs its sender the fee and does
\* nothing else (WithFee reverts what its function did).  TokenIn has no WithFee.
FailedTxOnlyFee ==
    [][ Len(block'.txs) > Len(block.txs) /\ ~Last(block'.results) /\ Last(block'.txs).type \notin {"Transfer", "TokenIn"} =>
        LET from == Last(block'.txs).from
            own  == {FeeKey, BalanceKey(from)}
            fee  == CollectedFee(ctx') - CollectedFee(ctx)
        IN  /\ ctx'.acc = ctx.acc
            /\ Without(ctx'.data, own) = Without(ctx.data, own)
            /\ fee \in {0, Tenth} /\ Balance(ctx', from) + fee = Balance(ctx, from) ]_vars

\* The sum a hyper formulator keeps is the sum of its stakers' amounts
\* (Staking, Unstaking, RevertUnstaking, Transmute and the reward update the two
\* apart), except after auto staking or the loss of a staker's account.
StakesAgree ==
    \A h \in DOMAIN led.acc :
        IsHyper(led, h) /\ h \notin uneven /\ ~led.lost =>
            led.acc[h].staking = SumFunction(GetStakingAmountMap(led, h))

\* A formulator is marked revoked exactly while one coming height has it in its
\* table, with a heritor, and its own data names that height (addRevokedFormulator,
\* removeRevokedFormulator, flushRevokedFormulatorMap).
RevokedIsScheduled ==
    \A a \in DOMAIN led.acc :
        LET heights == {key[3] : key \in {k \in KeysOf(led, "revoked") : Len(k) = 5 /\ k[4] = "number" /\ k[5] = a}}
            height  == Get(led, RevokedHeightKey(a), Nil)
        IN  IsFormulator(led, a) /\ ~led.lost =>
            IF led.acc[a].revoked
            THEN /\ heights = {height} /\ height > led.height
                 /\ HeritorKey(height, a) \in DOMAIN led.data
            ELSE heights = {} /\ height = Nil

\* A block that its creator made is refused only when two stakers of a hyper
\* formulator lost their accounts: they are removed from the table in the order of
\* a Go map, and the table keeps a different order.
RefusedOnlyForOrder ==
    [][ block.done /\ led' = led =>
        \E h \in DOMAIN led.acc : IsHyper(led, h) /\ Cardinality(Missing(ExecuteTransactions, h)) > 1 ]_vars

\* AfterExecuteTransactions fails, and with it every block of that height, only when
\* a revoked formulator was merged into another, or a revoked hyper formulator's
\* sum of stakings was left uneven.
FailsOnlyKnown ==
    [][ outcome' = "failed" /\ ctx # Nil /\ ctx' = Nil /\ ~ctx.lost =>
        \E a \in Items(ctx, RevokedTable(ctx.height)) :
            ~HasAccount(ctx, a) \/ a \in uneven \cup Unevenly(ctx) ]_vars

\* A revoked hyper formulator whose height has come holds the sum of what its
\* stakers have, which is what AfterExecuteTransactions checks before it pays
\* them back (ErrCriticalStakingAmount).
StakingSumHolds ==
    ctx # Nil /\ ~block.done =>
        \A h \in Items(ctx, RevokedTable(ctx.height)) :
            IsHyper(ctx, h) => ctx.acc[h].staking = SumFunction(GetStakingAmountMap(ctx, h))

=============================================================================
