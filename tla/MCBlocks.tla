------------------------------ MODULE MCBlocks ------------------------------
(***************************************************************************)
(* Blocks on small ledgers.  Each scope is a genesis state (or a state a   *)
(* chain reaches from one by the transactions named at it) with the        *)
(* transactions that some part of the processes is about.                  *)
(***************************************************************************)
EXTENDS Blocks

CONSTANTS keyA, keyU, keyV, keyW, keyF      \* key hashes

\* Addresses of genesis: the admin, three users, formulators.
Admin == <<0, 1>>
U == <<0, 2>>
V == <<0, 3>>
W == <<0, 4>>
F == <<0, 5>>       \* the alpha formulator that is always there to make blocks
F1 == <<0, 6>>
F2 == <<0, 7>>
F3 == <<0, 8>>
F4 == <<0, 9>>
H == <<0, 10>>
H2 == <<0, 11>>

MCAlphaPolicy == [amount |-> 20, unlock |-> 1, limit |-> 0]
MCSigmaPolicy == [blocks |-> 1, count |-> 2, unlock |-> 1]
MCOmegaPolicy == [blocks |-> 1, count |-> 2, unlock |-> 1]
MCHyperPolicy == [amount |-> 30, unlock |-> 1, stakingUnlock |-> 1]
MCReward(every) == [perBlock |-> 100, every |-> every, alpha |-> 1000, sigma |-> 1150, omega |-> 1300,
                    hyper |-> 1300, staking |-> 700]
MCValidator == [commission |-> 100, interval |-> 1, minimum |-> 0]

MCAllowedName == 1 .. 20

Formulating(type, name, key, am, staking) ==
    [kind |-> "formulator", name |-> name, key |-> key, type |-> type, amount |-> am, revoked |-> FALSE,
     pre |-> 0, updated |-> 0, staking |-> staking, policy |-> IF type = "hyper" THEN MCValidator ELSE Nil]

Ledger(accounts, balances, every, more) ==
    [height |-> 0, ok |-> TRUE, lost |-> FALSE, del |-> {}, gone |-> {}, seq |-> Empty,
     acc   |-> accounts,
     names |-> {accounts[a].name : a \in DOMAIN accounts},
     data  |-> more @@ (AdminKey :> Admin) @@ (<<Process, "vaultPolicy">> :> 5) @@ (<<Process, "gatewayPolicy">> :> 2)
               @@ (<<Process, "rewardPolicy">> :> MCReward(every))
               @@ [key \in {BalanceKey(a) : a \in DOMAIN balances} |-> balances[key[1]]]]

Users == Admin :> SingleAccount(1, keyA) @@ U :> SingleAccount(2, keyU) @@ V :> SingleAccount(3, keyV)
         @@ F :> Formulating("alpha", 4, keyF, 20, 0)

\* A staking table made by Staking transactions in this order.
Staked(hyper, seq, amounts) ==
    [key \in {NumberKey(StakingTable(hyper), seq[i]) : i \in DOMAIN seq} |->
        CHOOSE n \in 0 .. Len(seq) - 1 : seq[n + 1] = key[4]]
    @@ [key \in {ReverseKey(StakingTable(hyper), i - 1) : i \in DOMAIN seq} |-> seq[key[4] + 1]]
    @@ [key \in {StakingKey(hyper, seq[i]) : i \in DOMAIN seq} |-> amounts[key[4]]]
    @@ (CountKey(StakingTable(hyper)) :> Len(seq))

MCGenesis(s) ==
    CASE s = "vault" -> Ledger(Users, U :> 130 @@ V :> 3, 9, Empty)
      [] s = "gateway" -> Ledger(Users, Admin :> 5 @@ U :> 9, 9, Empty)
      [] s = "payment" -> Ledger(Users, Admin :> 2 @@ U :> 9, 9, Empty)
      [] s = "formulator" ->
           Ledger(F1 :> Formulating("alpha", 5, keyU, 20, 0) @@ F2 :> Formulating("alpha", 6, keyV, 20, 0)
                  @@ F3 :> Formulating("sigma", 7, keyU, 40, 0) @@ Users,
                  F1 :> 3 @@ F2 :> 4 @@ F3 :> 5 @@ Admin :> 30 @@ U :> 25, 2, Empty)
      [] s = "staking" ->
           Ledger(H :> Formulating("hyper", 5, keyW, 30, 35) @@ Users, H :> 2 @@ U :> 25 @@ V :> 2, 1,
                  Staked(H, <<U, V>>, U :> 20 @@ V :> 15))
      [] s = "auto" ->
           Ledger(H :> Formulating("hyper", 5, keyW, 30, 35) @@ Users, H :> 2 @@ U :> 25 @@ V :> 2, 1,
                  Staked(H, <<U, V>>, U :> 20 @@ V :> 15))
      [] s = "merge" ->
           Ledger(H :> Formulating("hyper", 5, keyW, 30, 40) @@ F1 :> Formulating("alpha", 6, keyU, 20, 0)
                  @@ F2 :> Formulating("alpha", 7, keyU, 20, 0) @@ F3 :> Formulating("alpha", 8, keyV, 20, 0)
                  @@ F4 :> Formulating("alpha", 9, keyV, 20, 0) @@ Users,
                  H :> 2 @@ F1 :> 2 @@ F3 :> 2, 2,
                  Staked(H, <<F2, F4, U, V>>, F2 :> 10 @@ F4 :> 10 @@ U :> 10 @@ V :> 10))

\* A transaction with the next sequence number of its sender.
Tx(l, id, type, from, key, more) ==
    [id |-> id, type |-> type, from |-> from, seq |-> Seq_(l, from) + 1, signers |-> <<key>>] @@ more

To(addr, am)       == [to |-> addr, amount |-> am]
Named(name, key)   == [name |-> name, key |-> key]
At1(l)             == <<1, 0>>      \* the first account the first block makes

VaultOffer(l) ==
    { Tx(l, 1, "Transfer", U, keyU, To(V, 5)), Tx(l, 2, "Transfer", V, keyV, To(U, 2)),
      Tx(l, 3, "Transfer", V, keyV, To(V, 2)),
      Tx(l, 4, "Burn", U, keyU, To(U, 4)), Tx(l, 5, "CreateAccount", U, keyU, Named(10, keyW)),
      Tx(l, 6, "CreateMultiAccount", U, keyU, [name |-> 10, keys |-> <<keyV, keyW>>, required |-> 2]),
      Tx(l, 7, "IssueAccount", Admin, keyA, Named(10, keyW)),
      Tx(l, 8, "VaultPolicy", Admin, keyA, [policy |-> 7]),
      Tx(l, 9, "Transfer", U, keyU, To(At1(l), 6)),
      [Tx(l, 10, "Transfer", At1(l), keyV, To(V, 5)) EXCEPT !.signers = <<keyW, keyV>>],
      Tx(l, 11, "Transfer", At1(l), keyW, To(V, 5)) }

GatewayOffer(l) ==
    { Tx(l, 1, "TokenIn", Admin, keyA, [amounts |-> <<3, 4>>, tos |-> <<U, V>>, erc20 |-> 1]),
      Tx(l, 2, "TokenIn", Admin, keyA, [amounts |-> <<3>>, tos |-> <<U>>, erc20 |-> 1]),
      Tx(l, 3, "TokenOut", U, keyU, To(U, 3)), Tx(l, 4, "TokenOut", U, keyU, To(U, 6)),
      Tx(l, 5, "TokenLeave", Admin, keyA, [amount |-> 3, coin |-> 2]),
      Tx(l, 6, "TokenLeave", Admin, keyA, [amount |-> 3, coin |-> 2]),
      Tx(l, 7, "GatewayPolicy", Admin, keyA, [policy |-> 3]) }

PaymentOffer(l) ==
    { Tx(l, 1, "AddTopic", Admin, keyA, [topic |-> 1]), Tx(l, 2, "RemoveTopic", Admin, keyA, [topic |-> 1]),
      Tx(l, 3, "RequestPayment", Admin, keyA, [topic |-> 1, to |-> U, amount |-> 6]),
      Tx(l, 4, "ResponsePayment", U, keyU, [txid |-> <<1, 1>>, amount |-> 6, accept |-> TRUE]),
      Tx(l, 5, "ResponsePayment", U, keyU, [txid |-> <<2, 0>>, amount |-> 6, accept |-> FALSE]),
      [Tx(l, 6, "Subscribe", U, keyU, [topic |-> 1, amount |-> 5]) EXCEPT !.signers = <<keyA, keyU>>],
      [Tx(l, 7, "Subscribe", U, keyU, [topic |-> 1, amount |-> 0]) EXCEPT !.signers = <<keyA, keyU>>],
      [Tx(l, 8, "Unsubscribe", U, keyU, [topic |-> 1]) EXCEPT !.signers = <<keyA, keyU>>],
      Tx(l, 9, "Billing", Admin, keyA, [topic |-> 1, to |-> U, amount |-> 5]),
      Tx(l, 10, "Billing", Admin, keyA, [topic |-> 1, to |-> U, amount |-> 5]) }

FormulatorOffer(l) ==
    { Tx(l, 1, "Revoke", F1, keyU, [heritor |-> U]), Tx(l, 2, "Revoke", F2, keyV, [heritor |-> F1]),
      Tx(l, 3, "RevertRevoke", F2, keyV, Empty),
      [Tx(l, 4, "CreateSigma", F1, keyU, [merged |-> <<F1, F2>>]) EXCEPT !.signers = <<keyU, keyV>>],
      [Tx(l, 5, "CreateOmega", F3, keyU, [merged |-> <<F3, F1>>]) EXCEPT !.signers = <<keyU, keyU>>],
      Tx(l, 6, "ChangeOwner", F2, keyV, [key |-> keyW]),
      Tx(l, 7, "CreateAlpha", U, keyU, Named(10, keyU)),
      Tx(l, 8, "CreateHyper", Admin, keyA, [name |-> 10, key |-> keyW, policy |-> MCValidator]) }

StakingOffer(l) ==
    { Tx(l, 1, "Unstaking", U, keyU, [hyper |-> H, amount |-> 20]),
      Tx(l, 2, "RevertUnstaking", U, keyU, [hyper |-> H, amount |-> 20, height |-> 2]),
      Tx(l, 3, "Staking", U, keyU, [hyper |-> H, amount |-> 10]),
      Tx(l, 4, "Unstaking", V, keyV, [hyper |-> H, amount |-> 15]),
      Tx(l, 5, "Transmute", U, keyU, [name |-> 10, key |-> keyU, hypers |-> <<H>>, amounts |-> <<20>>]),
      Tx(l, 6, "TransmutePolicy", Admin, keyA, [policy |-> [first |-> 1, last |-> 2]]),
      Tx(l, 7, "TransmutePolicy", Admin, keyA, [policy |-> Nil]),
      Tx(l, 8, "Revoke", H, keyW, [heritor |-> V]) }

AutoOffer(l) ==
    { Tx(l, 1, "AutoStaking", U, keyU, [hyper |-> H, auto |-> TRUE]),
      Tx(l, 2, "AutoStaking", U, keyU, [hyper |-> H, auto |-> FALSE]),
      Tx(l, 3, "Revoke", H, keyW, [heritor |-> V]),
      Tx(l, 4, "RevertRevoke", H, keyW, Empty),
      Tx(l, 5, "ValidatorPolicy", H, keyW, [policy |-> [MCValidator EXCEPT !.interval = 2]]),
      Tx(l, 6, "RewardPolicy", Admin, keyA, [policy |-> MCReward(2)]) }

MergeOffer(l) ==
    { [Tx(l, 1, "CreateSigma", F1, keyU, [merged |-> <<F1, F2>>]) EXCEPT !.signers = <<keyU, keyU>>],
      [Tx(l, 2, "CreateSigma", F3, keyV, [merged |-> <<F3, F4>>]) EXCEPT !.signers = <<keyV, keyV>>],
      Tx(l, 3, "Revoke", H, keyW, [heritor |-> U]) }

MCOffer(s, l) ==
    CASE s = "vault"      -> VaultOffer(l)
      [] s = "gateway"    -> GatewayOffer(l)
      [] s = "payment"    -> PaymentOffer(l)
      [] s = "formulator" -> FormulatorOffer(l)
      [] s = "staking"    -> StakingOffer(l)
      [] s = "auto"       -> AutoOffer(l)
      [] s = "merge"      -> MergeOffer(l)

MCGenerators(s) ==
    CASE s \in {"vault", "gateway", "payment"} -> {F}
      [] s = "formulator" -> {F, F1}
      [] s = "staking" -> {H}
      [] s \in {"auto", "merge"} -> {F, H}

MCMaxHeight(s) == CASE s \in {"vault", "gateway", "payment"} -> 2
                    [] s \in {"formulator", "staking"} -> 3
                    [] s \in {"auto", "merge"} -> 4
MCMaxTx(s)     == CASE s \in {"payment", "gateway"} -> 3
                    [] s = "auto" -> 1
                    [] OTHER -> 2

=============================================================================
