------------------------------- MODULE TxPool -------------------------------
(***************************************************************************)
(* The transaction pool (core/txpool/transaction_pool.go) and the ways a   *)
(* node uses it: addTx, cleanPool after a block, the expiration queue of   *)
(* common/queue/expire.go, and Pop for the generation of a block.  Every   *)
(* method of the pool and of the expiration queue holds the lock of its    *)
(* own, so a call is one step; what a caller looked at before the call may *)
(* have changed, and another caller may come between the call for the pool *)
(* and the one for the expiration queue.                                   *)
(*                                                                         *)
(* turnQ remembers whether the next transaction is of the UTXO model       *)
(* (TRUE) or of the account model (FALSE), numberQ whose account           *)
(* transaction is next, and turnOut and numberOut how many entries of      *)
(* these queues stand for transactions that were taken out of their turn.  *)
(* A transaction that has no sequence is one of the UTXO model to the      *)
(* pool; it can connect more than once.                                    *)
(***************************************************************************)
EXTENDS Integers, Sequences, FiniteSets, SequencesExt, FiniteSetsExt

CONSTANTS
    Account,        \* senders
    MaxSeq,         \* bound on the sequences of transactions
    Rival,          \* senders that have a second transaction with sequence 1
    Utxo,           \* transactions of the UTXO model
    None,           \* no transaction
    Nil,            \* a nil queue or item was used
    MaxTurns,       \* bound on the length of turnQ
    MaxChecked,     \* bound on the transactions being added at a time
    MaxTwice        \* bound: no transaction expires or connects after so many
                    \* were removed twice

AccountTx == [from : Account, seq : 1 .. MaxSeq, n : {1}] \cup [from : Rival, seq : {1}, n : {2}]
Tx == AccountTx \cup Utxo

VARIABLES
    pool,       \* the TransactionPool
    last,       \* the last sequence of every account in the chain
    checked,    \* transactions addTx has checked and not pushed yet
    pushed,     \* transactions addTx has pushed, but not to the expiration queue
    groups,     \* the groups of the expiration queue, one after the other
    expired,    \* what the goroutine of each group has taken out and not handled yet
    clean,      \* connected transactions cleanPool has not come to yet
    unqueue,    \* the one it has removed from the pool, but not from the expiration queue
    use,        \* "pop": the node generates blocks from the pool; "remove":
                \* blocks of others connect and transactions expire; "both";
                \* "node": as "remove" in a p2p.Node, which has no cleanPool
    sent        \* the transactions that are sent

txQ  == <<groups, expired>>
vars == <<pool, last, checked, pushed, txQ, clean, unqueue, use, sent>>

Pops == use \in {"pop", "both"}
Removes == use \in {"remove", "both", "node"}
Cleans == use \in {"remove", "both"}

ASSUME TxPoolAssumption == {MaxSeq, MaxTurns, MaxChecked, MaxTwice} \subseteq Nat

-----------------------------------------------------------------------------
(* The pool's methods, as functions of the pool. *)

NewTransactionPool ==
    [turnQ |-> <<>>, numberQ |-> <<>>,
     utxoQ |-> <<>>, keyMap |-> {},
     txhashMap |-> {}, twice |-> 0,
     turnOut |-> [b \in BOOLEAN |-> 0],
     numberOut |-> [a \in Account |-> 0],
     bucket |-> [a \in Account |-> {}]]

Pooled(p) == ToSet(p.utxoQ) \cup UNION {p.bucket[a] : a \in Account}

Size(p) == Len(p.turnQ) - p.turnOut[TRUE] - p.turnOut[FALSE]

\* Mutant: the turn is pushed before the sequence is found to be taken.
PushTurnFirst(p, tx) ==
    CASE tx \in p.txhashMap -> p
      [] tx \notin p.txhashMap /\ tx \in Utxo ->
            [p EXCEPT !.utxoQ = Append(@, tx), !.keyMap = @ \cup {tx},
                      !.turnQ = Append(@, TRUE), !.txhashMap = @ \cup {tx}]
      [] OTHER ->
            IF \E t \in p.bucket[tx.from] : t.seq = tx.seq THEN [p EXCEPT !.turnQ = Append(@, FALSE)]
            ELSE [p EXCEPT !.bucket[tx.from] = @ \cup {tx},
                           !.numberQ = Append(@, tx.from),
                           !.turnQ = Append(@, FALSE), !.txhashMap = @ \cup {tx}]

Push(p, tx) ==
    CASE tx \in p.txhashMap -> p
      [] tx \notin p.txhashMap /\ tx \in Utxo ->
            [p EXCEPT !.utxoQ = Append(@, tx), !.keyMap = @ \cup {tx},
                      !.turnQ = Append(@, TRUE), !.txhashMap = @ \cup {tx}]
      [] OTHER ->
            IF \E t \in p.bucket[tx.from] : t.seq = tx.seq THEN p
            ELSE [p EXCEPT !.bucket[tx.from] = @ \cup {tx},
                           !.numberQ = Append(@, tx.from),
                           !.turnQ = Append(@, FALSE), !.txhashMap = @ \cup {tx}]

\* One turn of kind b, or one number of account a, less: the head if it is
\* one, else a later entry will be skipped.
DropTurn(p, b) ==
    IF p.turnQ # <<>> /\ Head(p.turnQ) = b
    THEN [p EXCEPT !.turnQ = Tail(@)]
    ELSE [p EXCEPT !.turnOut[b] = @ + 1]

\* Mutant: the head of numberQ goes whoever it is for.
DropHeadNumber(p, a) ==
    IF p.numberQ # <<>>
    THEN [p EXCEPT !.numberQ = Tail(@)]
    ELSE [p EXCEPT !.numberOut[a] = @ + 1]

DropNumber(p, a) ==
    IF p.numberQ # <<>> /\ Head(p.numberQ) = a
    THEN [p EXCEPT !.numberQ = Tail(@)]
    ELSE [p EXCEPT !.numberOut[a] = @ + 1]

\* The linked queue forgets the node and keeps its key: while the queue is not
\* empty the key is found a second time, and one more turn is dropped.  twice
\* counts these times.
RemoveUtxo(p, tx) ==
    IF p.utxoQ # <<>> /\ tx \in p.keyMap
    THEN DropTurn([p EXCEPT !.utxoQ = Remove(@, tx),
                            !.txhashMap = @ \ {tx},
                            !.twice = IF tx \in ToSet(p.utxoQ) THEN @ ELSE @ + 1], TRUE)
    ELSE p

\* The transactions of the sender before tx go, tx itself does not.
RemoveBefore(p, tx) ==
    LET old == {t \in p.bucket[tx.from] : t.seq < tx.seq}
    IN FoldSet(LAMBDA t, q : DropNumber(DropTurn([q EXCEPT !.bucket[tx.from] = @ \ {t},
                                                            !.txhashMap = @ \ {t}], FALSE), tx.from),
               p, old)

RemoveTx(p, tx) == IF tx \in Utxo THEN RemoveUtxo(p, tx) ELSE RemoveBefore(p, tx)

-----------------------------------------------------------------------------
(* UnsafePop. *)

\* The next entry of turnQ, or of numberQ, that stands for a transaction;
\* remain counts the numbers that are left of those at the beginning.
RECURSIVE NextTurn(_)
NextTurn(p) ==
    IF p.turnQ = <<>> THEN [pool |-> p, turn |-> None]
    ELSE LET b == Head(p.turnQ)
             q == [p EXCEPT !.turnQ = Tail(@)]
         IN IF p.turnOut[b] > 0 THEN NextTurn([q EXCEPT !.turnOut[b] = @ - 1])
            ELSE [pool |-> q, turn |-> b]

RECURSIVE NextNumber(_, _)
NextNumber(p, remain) ==
    IF p.numberQ = <<>> THEN [pool |-> p, addr |-> None, remain |-> remain]
    ELSE LET a == Head(p.numberQ)
             q == [p EXCEPT !.numberQ = Tail(@)]
         IN IF p.numberOut[a] > 0
            THEN NextNumber([q EXCEPT !.numberOut[a] = @ - 1], remain - 1)
            ELSE [pool |-> q, addr |-> a, remain |-> remain - 1]

Result(p, item) == [pool |-> p, item |-> item]

\* Mutant: the bucket is sorted the other way.
LastOf(txs) == CHOOSE t \in txs : \A u \in txs : t.seq >= u.seq

First(txs) == CHOOSE t \in txs : \A u \in txs : t.seq <= u.seq

Without(p, tx) ==
    [p EXCEPT !.bucket[tx.from] = @ \ {tx}, !.txhashMap = @ \ {tx}]

\* The loop over the numbers; ignored are the senders whose next transaction
\* is too far ahead.  A transaction the chain is past is dropped on the way.
RECURSIVE PopAccount(_, _, _)
PopAccount(p, remaining, ignored) ==
    LET n == NextNumber(p, remaining)
        a == n.addr
        PutBack(ign) ==
            LET q == [n.pool EXCEPT !.numberQ = Append(@, a)]
            IN IF n.remain > 0 THEN PopAccount(q, n.remain, ign)
               ELSE Result([q EXCEPT !.turnQ = Append(@, FALSE)], None)
    IN IF a = None THEN Result(n.pool, None)
       ELSE IF a \in ignored THEN PutBack(ignored)
       ELSE IF p.bucket[a] = {} THEN Result(n.pool, Nil)
       ELSE LET t == First(p.bucket[a])
            IN CASE t.seq > last[a] + 1 -> PutBack(ignored \cup {a})
                 [] t.seq = last[a] + 1 -> Result(Without(n.pool, t), t)
                 [] t.seq < last[a] + 1 ->
                        IF n.remain > 0
                        THEN PopAccount(DropTurn(Without(n.pool, t), FALSE), n.remain, ignored)
                        ELSE Result(Without(n.pool, t), None)

PopUtxo(p) ==
    IF p.utxoQ = <<>> THEN Result(p, Nil)
    ELSE LET t == Head(p.utxoQ)
         IN Result([p EXCEPT !.utxoQ = Tail(@), !.keyMap = @ \ {t},
                             !.txhashMap = @ \ {t}], t)

UnsafePop(p) ==
    LET n == NextTurn(p)
    IN CASE n.turn = None -> Result(n.pool, None)
         [] n.turn = TRUE -> PopUtxo(n.pool)
         [] n.turn = FALSE -> PopAccount(n.pool, Len(n.pool.numberQ), {})

-----------------------------------------------------------------------------
(* A node's use of the pool. *)

\* addTx: first the checks, against the chain as it is now.
CheckTx(tx) ==
    /\ tx \in sent
    /\ Cardinality(checked \cup pushed) < MaxChecked
    /\ tx \notin pool.txhashMap
    /\ tx \in AccountTx => tx.seq > last[tx.from]
    /\ checked' = checked \cup {tx}
    /\ UNCHANGED <<pool, last, pushed, txQ, clean, unqueue, use, sent>>

\* Then the push into the pool,
PushTx(tx) ==
    /\ tx \in checked
    /\ Len(pool.turnQ) < MaxTurns
    /\ pool' = Push(pool, tx)
    /\ pushed' = IF pool' = pool THEN pushed ELSE pushed \cup {tx}
    /\ checked' = checked \ {tx}
    /\ UNCHANGED <<last, txQ, clean, unqueue, use, sent>>

\* and, if it succeeded, into the first group of the expiration queue.
PushExpire(tx) ==
    /\ tx \in pushed
    /\ groups' = [groups EXCEPT ![1] = @ \cup {tx}]
    /\ pushed' = pushed \ {tx}
    /\ UNCHANGED <<pool, last, checked, expired, clean, unqueue, use, sent>>

\* A block of another node with tx connects, after the pool was cleaned of
\* the one before it.
Connect(tx) ==
    /\ Removes /\ tx \in sent /\ pool.twice < MaxTwice
    /\ clean = {} /\ unqueue = {}
    /\ tx \in AccountTx => tx.seq = last[tx.from] + 1
    /\ last' = IF tx \in AccountTx THEN [last EXCEPT ![tx.from] = @ + 1] ELSE last
    /\ clean' = IF Cleans THEN {tx} ELSE {}
    /\ UNCHANGED <<pool, checked, pushed, txQ, unqueue, use, sent>>

CleanPool(tx) ==
    /\ tx \in clean /\ unqueue = {}
    /\ pool' = RemoveTx(pool, tx)
    /\ clean' = clean \ {tx}
    /\ unqueue' = {tx}
    /\ UNCHANGED <<last, checked, pushed, txQ, use, sent>>

RemoveExpire(tx) ==
    /\ tx \in unqueue
    /\ groups' = [g \in DOMAIN groups |-> groups[g] \ {tx}]
    /\ unqueue' = {}
    /\ UNCHANGED <<pool, last, checked, pushed, expired, clean, use, sent>>

\* The goroutine of group g takes out what has expired, under the lock,
Expire(g) ==
    /\ Removes /\ pool.twice < MaxTwice
    /\ expired[g] = {}
    /\ \E txs \in SUBSET groups[g] \ {{}} :
          /\ groups' = [groups EXCEPT ![g] = @ \ txs]
          /\ expired' = [expired EXCEPT ![g] = txs]
    /\ UNCHANGED <<pool, last, checked, pushed, clean, unqueue, use, sent>>

\* Mutant: the items of the next group are replaced.
RequeueOnly(g) ==
    /\ g < Len(groups)
    /\ expired[g] # {}
    /\ groups' = [groups EXCEPT ![g + 1] = expired[g]]
    /\ expired' = [expired EXCEPT ![g] = {}]
    /\ UNCHANGED <<pool, last, checked, pushed, clean, unqueue, use, sent>>

\* and puts it into the next group, if there is one.  OnItemExpired, called
\* before that, only sends the transaction again.
Requeue(g) ==
    /\ g < Len(groups)
    /\ expired[g] # {}
    /\ groups' = [groups EXCEPT ![g + 1] = @ \cup expired[g]]
    /\ expired' = [expired EXCEPT ![g] = {}]
    /\ UNCHANGED <<pool, last, checked, pushed, clean, unqueue, use, sent>>

\* In the last group OnItemExpired, for one of them after the other, removes
\* it from the pool.
OnItemExpired(tx) ==
    LET g == Len(groups)
    IN /\ tx \in expired[g]
       /\ pool' = RemoveTx(pool, tx)
       /\ expired' = [expired EXCEPT ![g] = @ \ {tx}]
       /\ UNCHANGED <<last, checked, pushed, groups, clean, unqueue, use, sent>>

\* The transaction popped is executed, and its block connects.  The lock of
\* the node keeps cleanPool out.
Pop ==
    LET r == UnsafePop(pool)
    IN /\ Pops /\ unqueue = {}
       /\ pool' = r.pool
       /\ last' = IF r.item \in AccountTx THEN [last EXCEPT ![r.item.from] = @ + 1] ELSE last
       /\ clean' = IF Cleans /\ r.item \in Tx THEN clean \cup {r.item} ELSE clean
       /\ UNCHANGED <<checked, pushed, txQ, unqueue, use, sent>>

PoolInit(u, txs, n) ==
    /\ pool = NewTransactionPool
    /\ last = [a \in Account |-> 0]
    /\ checked = {} /\ pushed = {} /\ clean = {} /\ unqueue = {}
    /\ groups = [g \in 1 .. n |-> {}] /\ expired = groups
    /\ use = u /\ sent = txs

PoolNext ==
    \/ \E tx \in sent : \/ CheckTx(tx) \/ PushTx(tx) \/ PushExpire(tx) \/ Connect(tx)
                        \/ CleanPool(tx) \/ RemoveExpire(tx) \/ OnItemExpired(tx)
    \/ \E g \in DOMAIN groups : Expire(g) \/ Requeue(g)
    \/ Pop

-----------------------------------------------------------------------------
(* Properties. *)

\* The indexes of the pool agree, whatever was pushed, popped or removed:
\* IsExist answers for exactly the transactions in the queue and in the
\* buckets, and numberQ has, beside the entries to be skipped, one entry for
\* every transaction of a sender, so that Pop never looks into a bucket that
\* was deleted or takes an item from an empty queue.
IndexesAgree ==
    /\ pool.txhashMap = Pooled(pool)
    /\ \A a \in Account :
          Len(SelectSeq(pool.numberQ, LAMBDA b : b = a)) - pool.numberOut[a] = Cardinality(pool.bucket[a])
    /\ UnsafePop(pool).item # Nil

\* The size of the pool is the number of its transactions, when a node only
\* generates blocks from it or only follows the blocks of others, less one for
\* every transaction that was removed a second time.
SizeIsContent == use # "both" => Size(pool) + pool.twice = Cardinality(Pooled(pool))

\* In a node that has no cleanPool, a transaction of the UTXO model in the pool
\* will be sent again and expire: it is in some group, or on the way to one.
PooledWillExpire ==
    use = "node" => ToSet(pool.utxoQ) \subseteq
        pushed \cup UNION {groups[g] \cup expired[g] : g \in DOMAIN groups}

\* Pop returns a transaction when the next one of some account is in the pool,
\* however many are too far ahead or behind, when the node does nothing else
\* with it.
PopFinds ==
    use = "pop" /\ (\E t \in Pooled(pool) \ Utxo : t.seq = last[t.from] + 1)
        => UnsafePop(pool).item # None
=============================================================================
