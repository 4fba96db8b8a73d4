------------------------------- MODULE Gateway -------------------------------
(***************************************************************************)
(* The gateway process: coins that come from and go to another chain.  The *)
(* admin account holds the coins that are away.                            *)
(***************************************************************************)
EXTENDS Vault

ERC20Key(id) == <<Process, "erc20", id>>
OutKey(id)   == <<Process, "out", id>>

HasERC20TXID(l, id) == Get(l, ERC20Key(id), Nil) # Nil
setERC20TXID(l, id) == Set(l, ERC20Key(id), 1)
HasOutTXID(l, id)   == Get(l, OutKey(id), Nil) # Nil
setOutTXID(l, id)   == Set(l, OutKey(id), 1)

WithdrawFee(l) == Get(l, <<Process, "gatewayPolicy">>, Nil)

TokenIn_Validate(l, tx) ==
    /\ ByAdmin(l, tx)
    /\ Len(tx.amounts) = Len(tx.tos)
    /\ \A i \in DOMAIN tx.amounts : tx.amounts[i] >= Tenth
    /\ SeqAhead(l, tx)
    /\ ~HasERC20TXID(l, tx.erc20)
    /\ \A i \in DOMAIN tx.tos : HasAccount(l, tx.tos[i])
    /\ Signed(l, tx.from, tx.signers)

\* Nothing reverts the payments made before the one that fails.
TokenIn_Execute(l, tx) ==
    LET Pay(c, i) == AddBalance(SubBalance(c, tx.from, tx.amounts[i]), tx.tos[i], tx.amounts[i])
    IN  setERC20TXID(FoldLeftDomain(Pay, l, tx.amounts), tx.erc20)

TokenOut_Validate(l, tx) ==
    /\ tx.amount >= Tenth
    /\ SeqAhead(l, tx)
    /\ HasAccount(l, AdminAddress(l))
    /\ Signed(l, tx.from, tx.signers)
    /\ CheckFeePayableWith(l, tx, tx.amount + WithdrawFee(l))

TokenOut_Execute(l, tx) ==
    WithFee(l, tx, LAMBDA c :
        LET c1 == SubBalance(SubBalance(c, tx.from, WithdrawFee(c)), tx.from, tx.amount)
            c2 == AddBalance(c1, AdminAddress(c), WithdrawFee(c))
        IN  AddBalance(c2, AdminAddress(c), tx.amount))

TokenLeave_Validate(l, tx) ==
    /\ ByAdmin(l, tx)
    /\ tx.amount >= Tenth
    /\ SeqAhead(l, tx)
    /\ ~HasOutTXID(l, tx.coin)
    /\ Signed(l, tx.from, tx.signers)

TokenLeave_Execute(l, tx) == setOutTXID(l, tx.coin)

GatewayPolicy_Validate(l, tx) ==
    /\ ByAdmin(l, tx)
    /\ tx.policy # Nil
    /\ SeqAhead(l, tx)
    /\ Signed(l, tx.from, tx.signers)

GatewayPolicy_Execute(l, tx) == Set(l, <<Process, "gatewayPolicy">>, tx.policy)

=============================================================================
