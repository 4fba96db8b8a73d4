------------------------------ MODULE MCTxPool ------------------------------
(* Small instances for TLC of one part of a node at a time: a transaction   *)
(* pool, a queue, or the pool of peers.                                     *)
EXTENDS TxPool, Queues, PeerPool

CONSTANTS A, B, U, V

SeqsOf(a)  == [from : {a}, seq : 1 .. MaxSeq, n : {1}]
FirstOf(a) == [from : {a}, seq : {1}, n : {1}]
RivalOf(a) == [from : {a}, seq : {1}, n : {2}]

Pools ==
    \/ PoolInit("pop", SeqsOf(A) \cup SeqsOf(B) \cup RivalOf(A) \cup {U}, 1)
    \/ PoolInit("remove", SeqsOf(A) \cup RivalOf(A) \cup {U}, 1)
    \/ PoolInit("remove", SeqsOf(A) \cup FirstOf(B), 1)
    \/ PoolInit("remove", FirstOf(A) \cup {U, V}, 1)
    \/ PoolInit("both", SeqsOf(A) \cup FirstOf(B), 1)
    \/ PoolInit("both", SeqsOf(A) \cup {U}, 1)
    \/ PoolInit("both", FirstOf(A) \cup {U, V}, 1)
    \/ PoolInit("node", SeqsOf(A) \cup {U, V}, 3)

MCAddrOf == [h \in Hash |-> 10 + h]
MCPings  == <<{1, 2}, {1, 3}, {1}>>

Init ==
    /\ PeerPoolInit
    /\ \/ Pools /\ QueuesInit("none")
       \/ PoolInit("peers", {}, 1) /\ QueuesInit("none")
       \/ PoolInit("pop", {}, 1) /\ \E k \in {"paged", "linked", "waiting", "sorted"} : QueuesInit(k)

Next ==
    \/ kind = "none" /\ PoolNext /\ UNCHANGED <<qVars, poolVars>>
    \/ QueuesNext /\ UNCHANGED <<vars, poolVars>>
    \/ use = "peers" /\ PeerPoolNext /\ UNCHANGED <<vars, qVars>>

Spec == Init /\ [][Next]_<<vars, qVars, poolVars>>
=============================================================================
