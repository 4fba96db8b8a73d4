------------------------------- MODULE Payment -------------------------------
(***************************************************************************)
(* The payment process: the admin asks an account for a payment, which the *)
(* account answers, or bills the subscriber of a topic.                    *)
(***************************************************************************)
EXTENDS Vault

RequestKey(txid)          == <<Process, "request", txid>>
TopicKey(topic)           == <<Process, "topic", topic>>
SubscribeKey(topic, addr) == <<addr, "subscribe", topic>>

HasTopic(l, topic)             == Get(l, TopicKey(topic), Nil) # Nil
getRequestPayment(l, txid)     == Get(l, RequestKey(txid), Nil)
getSubscribe(l, topic, addr)   == Get(l, SubscribeKey(topic, addr), Nil)

\* addTopic reports a topic that exists; Execute ignores the error.
addTopic(l, topic) == IF HasTopic(l, topic) THEN l ELSE Set(l, TopicKey(topic), 1)

\* A subscription of zero has no bytes, so it is not stored.
addSubscribe(l, topic, addr, am) ==
    IF getSubscribe(l, topic, addr) # Nil THEN Fail(l) ELSE Set(l, SubscribeKey(topic, addr), Bytes(am))

AddTopic_Validate(l, tx) == ByAdmin(l, tx) /\ SeqAhead(l, tx) /\ Signed(l, tx.from, tx.signers)
AddTopic_Execute(l, tx)  == addTopic(l, tx.topic)

RemoveTopic_Validate(l, tx) == ByAdmin(l, tx) /\ SeqAhead(l, tx) /\ Signed(l, tx.from, tx.signers)
RemoveTopic_Execute(l, tx)  == Set(l, TopicKey(tx.topic), Nil)

RequestPayment_Validate(l, tx) ==
    /\ ByAdmin(l, tx)
    /\ tx.amount >= Tenth
    /\ SeqAhead(l, tx)
    /\ HasTopic(l, tx.topic)
    /\ HasAccount(l, tx.to)
    /\ Signed(l, tx.from, tx.signers)

RequestPayment_Execute(l, tx, index) == Set(l, RequestKey(<<l.height, index>>), tx)

ResponsePayment_Validate(l, tx) ==
    LET req == getRequestPayment(l, tx.txid)
    IN  /\ tx.amount >= Tenth
        /\ SeqAhead(l, tx)
        /\ req # Nil
        /\ req.from = AdminAddress(l)
        /\ req.to = tx.from
        /\ req.amount = tx.amount
        /\ HasTopic(l, req.topic)
        /\ HasAccount(l, AdminAddress(l))
        /\ Signed(l, tx.from, tx.signers)
        /\ tx.accept => Balance(l, tx.from) >= tx.amount

ResponsePayment_Execute(l, tx) ==
    LET paid == IF tx.accept THEN AddBalance(SubBalance(l, tx.from, tx.amount), AdminAddress(l), tx.amount)
                ELSE l
    IN  Set(paid, RequestKey(tx.txid), Nil)

\* The first signature is the admin's, the others the subscriber's.
BothSigned(l, tx) ==
    /\ Len(tx.signers) > 1
    /\ Signed(l, AdminAddress(l), SubSeq(tx.signers, 1, 1))
    /\ Signed(l, tx.from, Tail(tx.signers))

Subscribe_Validate(l, tx) ==
    /\ tx.amount = 0 \/ tx.amount >= Tenth
    /\ SeqAhead(l, tx)
    /\ HasTopic(l, tx.topic)
    /\ BothSigned(l, tx)

Subscribe_Execute(l, tx) == addSubscribe(l, tx.topic, tx.from, tx.amount)

Unsubscribe_Validate(l, tx) == SeqAhead(l, tx) /\ BothSigned(l, tx)
Unsubscribe_Execute(l, tx)  == Set(l, SubscribeKey(tx.topic, tx.from), Nil)

Billing_Validate(l, tx) ==
    LET am == getSubscribe(l, tx.topic, tx.to)
    IN  /\ ByAdmin(l, tx)
        /\ SeqAhead(l, tx)
        /\ HasTopic(l, tx.topic)
        /\ HasAccount(l, tx.to)
        /\ am # Nil
        /\ am = 0 \/ am >= tx.amount
        /\ Signed(l, tx.from, tx.signers)

Billing_Execute(l, tx) == AddBalance(SubBalance(l, tx.to, tx.amount), AdminAddress(l), tx.amount)

=============================================================================
