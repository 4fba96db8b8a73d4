----------------------------- MODULE NodeProofs -----------------------------
(***************************************************************************)
(* What holds of a node that fetches blocks, however many peers,           *)
(* connections and heights there are: which connections its maps name,     *)
(* what it asks whom for, which timers it keeps and what it connects.      *)
(***************************************************************************)
EXTENDS Node, WellFoundedInduction, TLAPS

PCs  == {"free", "handshake", "evict", "registered", "up", "down", "done"}
Conn == [peer : Peers \cup {Nobody}, side : {"client", "server"}, pc : PCs, open : BOOLEAN]

\* The maps name connections of the peer they are asked for, and clientPeerMap only served ones.
MeshInv ==
    /\ conns \in [ConnIds -> Conn]
    /\ clientPeerMap \in [Peers -> ConnIds \cup {Nobody}]
    /\ serverPeerMap \in [Peers -> ConnIds \cup {Nobody}]
    /\ branch \in [Peers -> Branches \cup {Nobody}]
    /\ \A c \in ConnIds : conns[c].pc # "free" => conns[c].peer \in Peers /\ branch[conns[c].peer] # Nobody
    /\ \A p \in Peers : clientPeerMap[p] # Nobody =>
          conns[clientPeerMap[p]].peer = p /\ conns[clientPeerMap[p]].pc \notin {"free", "handshake", "done"}
    /\ \A p \in Peers : serverPeerMap[p] # Nobody =>
          conns[serverPeerMap[p]].peer = p /\ conns[serverPeerMap[p]].pc # "free"

\* A peer has a status while a connection of it is up.
StatusInv ==
    /\ statusMap \in [Peers -> Nat \cup {Nobody}]
    /\ \A p \in Peers : statusMap[p] # Nobody => \E c \in ConnIds : conns[c].peer = p /\ conns[c].pc = "up"

\* Of every timer, valueMap lists the height under its peer.
TimerInv ==
    /\ requestTimer \in [timerMap : [Heights -> Peers \cup {Nobody}], valueMap : [Peers -> SUBSET Heights]]
    /\ TimersAreListed

\* A loop that asks p for the heights from next to limit.
LoopOK(loop) == loop.peer \in Peers /\ loop.next > 0 /\ loop.limit <= top[loop.peer]

Msg == [type : {"status", "block"}, from : Peers, height : Nat, hash : Branches]

\* What a peer has told, what it is asked for and what the loops will ask it for, it has.
RequestInv ==
    /\ top \in [Peers -> 0 .. MaxHeight]
    /\ recvQ \in Seq(Msg)
    /\ wire \in [ConnIds -> Seq(Heights)]
    /\ \A p \in Peers : statusMap[p] # Nobody => statusMap[p] <= top[p]
    /\ \A i \in 1 .. Len(recvQ) : recvQ[i].height <= top[recvQ[i].from]
    /\ \A c \in ConnIds : conns[c].pc = "free" => wire[c] = <<>>
    /\ \A c \in ConnIds : \A i \in 1 .. Len(wire[c]) : wire[c][i] <= top[conns[c].peer]
    /\ handling \in [on : BOOLEAN, peer : Peers \cup {Nobody}, next : Nat, limit : Nat]
    /\ handling.on => LoopOK(handling) /\ handling.next <= handling.limit
    /\ trying \in [on : BOOLEAN, peer : Peers \cup {Nobody}, next : Nat, limit : Nat, base : Nat, q : Nat]
    /\ trying.on => LoopOK(trying)

\* The branches that the peers and the observers are on.
Hashes == {Trunk} \cup {branch[p] : p \in {q \in Peers : branch[q] # Nobody}}

\* Every block comes from one of these branches, and the loop holds the block after the last one.
ChainInv ==
    /\ chain \in Seq(Hashes)
    /\ blockQ \in [Heights -> Hashes \cup {Nobody}]
    /\ \A i \in 1 .. Len(recvQ) : recvQ[i].hash \in Hashes
    /\ connecting \in [item : [height : Nat, hash : Branches] \cup {Nobody}, count : Nat]
    /\ connecting.item # Nobody => connecting.item.height = Len(chain) + 1 /\ connecting.item.hash \in Hashes
    /\ PanicsOnlyOnFork

NodeInv == MeshInv /\ StatusInv /\ TimerInv /\ RequestInv /\ ChainInv

-----------------------------------------------------------------------------
(* The operators of the mesh, the timers and the loops.                    *)

\* Closing a connection leaves its peer, its side and the place of its goroutine.
LEMMA CloseKeeps ==
    ASSUME NEW cs \in [ConnIds -> Conn], NEW c \in ConnIds \cup {Nobody}
    PROVE  /\ Close(cs, c) \in [ConnIds -> Conn]
           /\ \A d \in ConnIds : /\ Close(cs, c)[d].peer = cs[d].peer
                                 /\ Close(cs, c)[d].pc = cs[d].pc
                                 /\ Close(cs, c)[d].side = cs[d].side
  BY Zenon, NodeAssumption DEF Close, Conn, ConnIds

\* A goroutine moves; the others stay where they are.
LEMMA AtMoves ==
    ASSUME NEW cs \in [ConnIds -> Conn], NEW c \in ConnIds, NEW pc \in PCs
    PROVE  /\ At(cs, c, pc) \in [ConnIds -> Conn]
           /\ At(cs, c, pc)[c].pc = pc
           /\ \A d \in ConnIds : At(cs, c, pc)[d].peer = cs[d].peer /\ At(cs, c, pc)[d].side = cs[d].side
           /\ \A d \in ConnIds \ {c} : At(cs, c, pc)[d].pc = cs[d].pc
  BY DEF At, Conn

\* A sequence over a smaller set.
LEMMA SeqOfMore ==
    ASSUME NEW S, NEW T, S \subseteq T, NEW s \in Seq(S)
    PROVE  s \in Seq(T)
  OBVIOUS

\* A sequence followed by one element.
LEMMA ConcatOne ==
    ASSUME NEW S, NEW s \in Seq(S), NEW e \in S
    PROVE  s \o <<e>> = Append(s, e)
  OBVIOUS

\* A nonempty set of naturals has a least element.
LEMMA LeastNatural ==
    ASSUME NEW T \in SUBSET Nat, T # {}
    PROVE  Min(T) \in T /\ \A m \in T : Min(T) <= m
  <1>1. PICK Rel : Rel = OpToRel(<, Nat)
    BY Zenon
  <1>2. IsWellFoundedOn(Rel, Nat)
    BY Zenon, <1>1, NatLessThanWellFounded
  <1>3. \A m, n \in Nat : m < n => <<m, n>> \in Rel
    BY <1>1 DEF OpToRel
  <1>4. PICK n \in T : \A m \in T : ~(<<m, n>> \in Rel)
    BY Zenon, <1>2, WFMin
  <1>5. \A m \in T : ~(m < n)
    BY Zenon, <1>3, <1>4
  <1>6. \E x \in T : \A y \in T : x <= y
    BY <1>5
  <1> QED
    BY Zenon, <1>6 DEF Min

\* The lesser of two heights.
LEMMA MinOfTwo ==
    ASSUME NEW a \in Nat, NEW b \in Nat
    PROVE  Min({a, b}) \in Nat /\ Min({a, b}) <= a /\ Min({a, b}) <= b
  BY LeastNatural

\* What RequestInv needs to know of a step of the mesh: no connection changes its peer.
KeepsPeers ==
    \A d \in ConnIds : conns'[d].peer = conns[d].peer /\ (conns'[d].pc = "free" <=> conns[d].pc = "free")

\* Heights of a peer's chain are heights.
LEMMA TopIsHeight ==
    ASSUME RequestInv
    PROVE  \A p \in Peers : top[p] \in Nat /\ top[p] <= MaxHeight
  <1>1. top \in [Peers -> 0 .. MaxHeight]
    BY Zenon DEF RequestInv
  <1> QED
    BY <1>1, NodeAssumption

\* A height a peer has is one of the heights of the model.
LEMMA HasHeight ==
    ASSUME RequestInv, NEW p \in Peers, NEW h \in Nat, h > 0, h <= top[p]
    PROVE  h \in Heights
  <1>1. top[p] \in Nat /\ top[p] <= MaxHeight
    BY Zenon, TopIsHeight
  <1> QED
    BY <1>1, NodeAssumption DEF Heights

\* Only the statuses of served peers are kept.
LEMMA StatusKept ==
    ASSUME StatusInv, statusMap' \in [Peers -> Nat \cup {Nobody}],
           \A p \in Peers : statusMap'[p] # Nobody => statusMap[p] # Nobody,
           \A c \in ConnIds : conns[c].pc = "up" => conns'[c].pc = "up" /\ conns'[c].peer = conns[c].peer
    PROVE  StatusInv'
  BY DEF StatusInv

\* The maps of the mesh lead to connections with the peer they are kept under.
LEMMA MeshKept ==
    ASSUME MeshInv, KeepsPeers, UNCHANGED branch,
           conns' \in [ConnIds -> Conn],
           clientPeerMap' \in [Peers -> ConnIds \cup {Nobody}],
           serverPeerMap' \in [Peers -> ConnIds \cup {Nobody}],
           \A p \in Peers : clientPeerMap'[p] # Nobody =>
              conns[clientPeerMap'[p]].peer = p /\ conns'[clientPeerMap'[p]].pc \notin {"free", "handshake", "done"},
           \A p \in Peers : serverPeerMap'[p] # Nobody =>
              conns[serverPeerMap'[p]].peer = p /\ conns[serverPeerMap'[p]].pc # "free"
    PROVE  MeshInv'
  <1>1. \A c \in ConnIds : conns'[c].pc # "free" => conns'[c].peer \in Peers /\ branch'[conns'[c].peer] # Nobody
    BY DEF MeshInv, KeepsPeers
  <1>2. \A p \in Peers : clientPeerMap'[p] # Nobody => conns'[clientPeerMap'[p]].peer = p
    BY DEF KeepsPeers
  <1>3. \A p \in Peers : serverPeerMap'[p] # Nobody =>
           conns'[serverPeerMap'[p]].peer = p /\ conns'[serverPeerMap'[p]].pc # "free"
    BY DEF KeepsPeers
  <1> QED
    BY <1>1, <1>2, <1>3 DEF MeshInv

\* Steps that leave the request timer alone.
LEMMA TimerKept == TimerInv /\ UNCHANGED requestTimer => TimerInv'
  BY DEF TimerInv, TimersAreListed, R!Exist

\* Steps that leave requests, messages and statuses alone.
LEMMA RequestKept ==
    ASSUME RequestInv, KeepsPeers, UNCHANGED <<top, recvQ, wire, statusMap, handling, trying>>
    PROVE  RequestInv'
  BY Zenon DEF RequestInv, KeepsPeers, LoopOK

\* Steps that leave the chain and the block queue alone.
LEMMA ChainKept ==
    ASSUME ChainInv, UNCHANGED <<chain, blockQ, recvQ, connecting, panicked, branch>>
    PROVE  ChainInv'
  BY DEF ChainInv, Hashes, PanicsOnlyOnFork, Forked

-----------------------------------------------------------------------------
(* Connections.                                                            *)

\* A handshake is done and the connection in the map of its side.
LEMMA RegisterStep ==
    ASSUME NodeInv, NEW c \in ConnIds, Register(c)
    PROVE  NodeInv'
  <1> DEFINE p == conns[c].peer
  <1>1. p \in Peers /\ conns[c].pc = "handshake" /\ UNCHANGED <<statusMap, branch>>
    BY DEF NodeInv, MeshInv, Register, RegisterClient, RegisterServer
  <1>2. \E pc \in {"evict", "registered"} : conns' = At(conns, c, pc)
    BY DEF Register, RegisterClient, RegisterServer
  <1>3. PICK pc \in {"evict", "registered"} : conns' = At(conns, c, pc)
    BY <1>2
  <1>4. /\ conns' \in [ConnIds -> Conn]
        /\ conns'[c].pc = pc
        /\ \A d \in ConnIds : conns'[d].peer = conns[d].peer
        /\ \A d \in ConnIds \ {c} : conns'[d].pc = conns[d].pc
    BY <1>3, AtMoves DEF PCs, NodeInv, MeshInv
  <1>5. KeepsPeers
    BY <1>1, <1>4 DEF KeepsPeers
  <1>6. MeshInv'
    <2>1. CASE clientPeerMap' = [clientPeerMap EXCEPT ![p] = c] /\ UNCHANGED serverPeerMap
      BY <2>1, <1>1, <1>4, <1>5, MeshKept DEF NodeInv, MeshInv
    <2>2. CASE serverPeerMap' = [serverPeerMap EXCEPT ![p] = c] /\ UNCHANGED clientPeerMap
      <3>1. \A q \in Peers : serverPeerMap'[q] # Nobody =>
               conns[serverPeerMap'[q]].peer = q /\ conns[serverPeerMap'[q]].pc # "free"
        BY <2>2, <1>1 DEF NodeInv, MeshInv
      <3> QED
        BY <2>2, <3>1, <1>1, <1>4, <1>5, MeshKept DEF NodeInv, MeshInv
    <2> QED
      BY <2>1, <2>2 DEF Register, RegisterClient, RegisterServer
  <1>7. StatusInv'
    BY <1>1, <1>4, StatusKept DEF NodeInv, StatusInv
  <1> QED
    BY <1>5, <1>6, <1>7, TimerKept, RequestKept, ChainKept DEF NodeInv, Register

\* The node hears of a connection and makes a status for the peer.
LEMMA OnConnectedStep ==
    ASSUME NodeInv, NEW c \in ConnIds, OnConnected(c)
    PROVE  NodeInv'
  <1> DEFINE p == conns[c].peer
  <1>1. /\ p \in Peers /\ conns[c].pc = "registered" /\ conns' = At(conns, c, "up")
        /\ statusMap' = [statusMap EXCEPT ![p] = 0]
        /\ UNCHANGED <<clientPeerMap, serverPeerMap, branch>>
    BY DEF NodeInv, MeshInv, OnConnected, Connected
  <1>2. /\ conns' \in [ConnIds -> Conn]
        /\ conns'[c].pc = "up"
        /\ \A d \in ConnIds : conns'[d].peer = conns[d].peer
        /\ \A d \in ConnIds \ {c} : conns'[d].pc = conns[d].pc
    BY <1>1, AtMoves DEF PCs, NodeInv, MeshInv
  <1>3. KeepsPeers
    BY <1>1, <1>2 DEF KeepsPeers
  <1>4. MeshInv'
    BY <1>1, <1>2, <1>3, MeshKept DEF NodeInv, MeshInv
  <1>5. StatusInv'
    BY <1>1, <1>2 DEF NodeInv, StatusInv
  <1>6. RequestInv'
    <2>1. \A q \in Peers : statusMap'[q] # Nobody => statusMap'[q] <= top[q]
      BY <1>1 DEF NodeInv, StatusInv, RequestInv
    <2> QED
      BY Zenon, <2>1, <1>3 DEF OnConnected, NodeInv, RequestInv, KeepsPeers, LoopOK
  <1> QED
    BY <1>4, <1>5, <1>6, TimerKept, ChainKept DEF NodeInv, OnConnected

\* What RemovesByValue leaves, valueMap still lists.
LEMMA RemovesByValueKeeps ==
    ASSUME TimerInv, NEW p \in Peers, requestTimer' = R!RemovesByValue(requestTimer, p)
    PROVE  TimerInv'
  BY NodeAssumption DEF TimerInv, TimersAreListed, R!RemovesByValue, R!Exist

\* The node hears that a connection is gone and drops the status.
LEMMA OnDisconnectedStep ==
    ASSUME NodeInv, NEW c \in ConnIds, OnDisconnected(c)
    PROVE  NodeInv'
  <1> DEFINE p == conns[c].peer
  <1>1. /\ p \in Peers /\ conns[c].pc = "up" /\ conns' = At(conns, c, "down")
        /\ statusMap' = [statusMap EXCEPT ![p] = Nobody]
        /\ UNCHANGED <<clientPeerMap, serverPeerMap, branch>>
    BY DEF NodeInv, MeshInv, OnDisconnected, Disconnected
  <1>2. /\ conns' \in [ConnIds -> Conn]
        /\ conns'[c].pc = "down"
        /\ \A d \in ConnIds : conns'[d].peer = conns[d].peer
        /\ \A d \in ConnIds \ {c} : conns'[d].pc = conns[d].pc
    BY <1>1, AtMoves DEF PCs, NodeInv, MeshInv
  <1>3. KeepsPeers
    BY <1>1, <1>2 DEF KeepsPeers
  <1>4. MeshInv'
    BY <1>1, <1>2, <1>3, MeshKept DEF NodeInv, MeshInv
  <1>5. StatusInv'
    <2>1. \A q \in Peers : statusMap'[q] # Nobody => q # p /\ statusMap'[q] = statusMap[q]
      BY <1>1 DEF NodeInv, StatusInv
    <2>2. \A q \in Peers : statusMap'[q] # Nobody => \E d \in ConnIds : conns'[d].peer = q /\ conns'[d].pc = "up"
      BY <2>1, <1>2 DEF NodeInv, StatusInv
    <2> QED
      BY <1>1, <2>2 DEF NodeInv, StatusInv
  <1>6. RequestInv'
    <2>1. \A q \in Peers : statusMap'[q] # Nobody => statusMap'[q] <= top[q]
      BY <1>1 DEF NodeInv, StatusInv, RequestInv
    <2>2. wire' = [wire EXCEPT ![c] = <<>>] /\ UNCHANGED <<top, recvQ, handling, trying>>
      BY DEF OnDisconnected
    <2>3. /\ wire' \in [ConnIds -> Seq(Heights)]
          /\ \A d \in ConnIds : wire'[d] = <<>> \/ wire'[d] = wire[d]
      BY <2>2 DEF NodeInv, RequestInv
    <2>4. \A d \in ConnIds : \A i \in 1 .. Len(wire'[d]) : wire'[d][i] <= top'[conns'[d].peer]
      <3> SUFFICES ASSUME NEW d \in ConnIds, NEW i \in 1 .. Len(wire'[d])
                   PROVE  wire'[d][i] <= top'[conns'[d].peer]
        OBVIOUS
      <3>1. wire'[d] = wire[d]
        BY <2>3
      <3> QED
        BY Zenon, <2>2, <3>1, <1>3 DEF NodeInv, RequestInv, KeepsPeers
    <2>5. \A d \in ConnIds : conns'[d].pc = "free" => wire'[d] = <<>>
      BY <2>3, <1>3 DEF NodeInv, RequestInv, KeepsPeers
    <2> QED
      BY <2>1, <2>2, <2>3, <2>4, <2>5 DEF NodeInv, RequestInv, LoopOK
  <1>7. TimerInv'
    BY <1>1, RemovesByValueKeeps DEF OnDisconnected, NodeInv
  <1> QED
    BY <1>4, <1>5, <1>6, <1>7, ChainKept DEF NodeInv, OnDisconnected

\* Whatever is closed, and whatever leaves the maps.
LEMMA RemovePeerKeeps ==
    ASSUME MeshInv, NEW p \in Peers, RemovePeer(p), UNCHANGED branch
    PROVE  /\ MeshInv'
           /\ KeepsPeers
           /\ \A d \in ConnIds : conns'[d].pc = conns[d].pc
  <1>1. /\ clientPeerMap[p] \in ConnIds \cup {Nobody}
        /\ serverPeerMap[p] \in ConnIds \cup {Nobody}
        /\ Close(conns, clientPeerMap[p]) \in [ConnIds -> Conn]
    BY CloseKeeps DEF MeshInv
  <1>2. /\ conns' \in [ConnIds -> Conn]
        /\ \A d \in ConnIds : conns'[d].pc = conns[d].pc /\ conns'[d].peer = conns[d].peer
    BY <1>1, CloseKeeps DEF MeshInv, RemovePeer
  <1>3. KeepsPeers
    BY <1>2 DEF KeepsPeers
  <1>4. /\ clientPeerMap' \in [Peers -> ConnIds \cup {Nobody}]
        /\ serverPeerMap' \in [Peers -> ConnIds \cup {Nobody}]
        /\ \A q \in Peers : clientPeerMap'[q] \in {clientPeerMap[q], Nobody}
        /\ \A q \in Peers : serverPeerMap'[q] \in {serverPeerMap[q], Nobody}
    BY DEF MeshInv, RemovePeer
  <1>5. \A q \in Peers : clientPeerMap'[q] # Nobody =>
           conns[clientPeerMap'[q]].peer = q /\ conns'[clientPeerMap'[q]].pc \notin {"free", "handshake", "done"}
    BY <1>2, <1>4 DEF MeshInv
  <1>6. \A q \in Peers : serverPeerMap'[q] # Nobody =>
           conns[serverPeerMap'[q]].peer = q /\ conns[serverPeerMap'[q]].pc # "free"
    BY <1>4 DEF MeshInv
  <1> QED
    BY <1>2, <1>3, <1>4, <1>5, <1>6, MeshKept

\* A peer that a message cannot be sent to is removed.
LEMMA SendFailsStep ==
    ASSUME NodeInv, NEW p \in Peers, SendFails(p)
    PROVE  NodeInv'
  <1>1. MeshInv' /\ KeepsPeers /\ (\A d \in ConnIds : conns'[d].pc = conns[d].pc) /\ UNCHANGED nodeVars
    BY RemovePeerKeeps DEF NodeInv, SendFails, nodeVars
  <1>2. StatusInv'
    BY <1>1, StatusKept DEF NodeInv, StatusInv, KeepsPeers, nodeVars
  <1> QED
    BY <1>1, <1>2, TimerKept, RequestKept, ChainKept DEF NodeInv, nodeVars

\* A step of the mesh that the node does not see.
LEMMA MeshStepStep ==
    ASSUME NodeInv, NEW c \in ConnIds, MeshStep(c)
    PROVE  NodeInv'
  <1> DEFINE p == conns[c].peer
  <1>1. UNCHANGED nodeVars /\ UNCHANGED serverPeerMap
    BY DEF MeshStep, HandshakeFails, Evict, Unregister, removePeerInMap
  <1>2. conns[c].pc \in {"handshake", "evict", "down"} /\ p \in Peers
    BY DEF NodeInv, MeshInv, MeshStep, HandshakeFails, Evict, Unregister
  <1>3. /\ conns' \in [ConnIds -> Conn]
        /\ conns'[c].pc \in {"registered", "done"}
        /\ conns'[c].pc = "done" => conns[c].pc \in {"handshake", "down"}
        /\ \A d \in ConnIds : conns'[d].peer = conns[d].peer
        /\ \A d \in ConnIds \ {c} : conns'[d].pc = conns[d].pc
    <2> conns \in [ConnIds -> Conn] /\ clientPeerMap[p] \in ConnIds \cup {Nobody}
      BY <1>2 DEF NodeInv, MeshInv
    <2>1. CASE HandshakeFails(c)
      <3>1. /\ Close(conns, c) \in [ConnIds -> Conn]
            /\ \A d \in ConnIds : Close(conns, c)[d].peer = conns[d].peer /\ Close(conns, c)[d].pc = conns[d].pc
        BY CloseKeeps
      <3> QED
        BY <2>1, <3>1, AtMoves DEF HandshakeFails, PCs
    <2>2. ASSUME NEW pc \in {"registered", "done"}, removePeerInMap(p, At(conns, c, pc))
          PROVE  /\ conns' \in [ConnIds -> Conn]
                 /\ conns'[c].pc = pc
                 /\ \A d \in ConnIds : conns'[d].peer = conns[d].peer
                 /\ \A d \in ConnIds \ {c} : conns'[d].pc = conns[d].pc
      <3>1. /\ At(conns, c, pc) \in [ConnIds -> Conn]
            /\ At(conns, c, pc)[c].pc = pc
            /\ \A d \in ConnIds : At(conns, c, pc)[d].peer = conns[d].peer
            /\ \A d \in ConnIds \ {c} : At(conns, c, pc)[d].pc = conns[d].pc
        BY AtMoves DEF PCs
      <3> QED
        BY <2>2, <3>1, CloseKeeps DEF removePeerInMap
    <2> QED
      BY <2>1, <2>2 DEF MeshStep, Evict, Unregister
  <1>4. KeepsPeers
    BY <1>2, <1>3 DEF KeepsPeers
  <1>5. /\ clientPeerMap' \in [Peers -> ConnIds \cup {Nobody}]
        /\ \A q \in Peers : clientPeerMap'[q] \in {clientPeerMap[q], Nobody}
        /\ conns[c].pc = "down" => clientPeerMap'[p] = Nobody
    BY <1>2 DEF NodeInv, MeshInv, MeshStep, HandshakeFails, Evict, Unregister, removePeerInMap
  <1>6. \A q \in Peers : clientPeerMap'[q] # Nobody =>
           conns[clientPeerMap'[q]].peer = q /\ conns'[clientPeerMap'[q]].pc \notin {"free", "handshake", "done"}
    <2> SUFFICES ASSUME NEW q \in Peers, clientPeerMap'[q] # Nobody
                 PROVE  /\ conns[clientPeerMap'[q]].peer = q
                        /\ conns'[clientPeerMap'[q]].pc \notin {"free", "handshake", "done"}
      OBVIOUS
    <2>1. /\ clientPeerMap'[q] = clientPeerMap[q] /\ clientPeerMap[q] \in ConnIds
          /\ conns[clientPeerMap[q]].peer = q
          /\ conns[clientPeerMap[q]].pc \notin {"free", "handshake", "done"}
      BY <1>5 DEF NodeInv, MeshInv
    <2>2. CASE clientPeerMap[q] = c
      BY <2>1, <2>2, <1>3, <1>5
    <2>3. CASE clientPeerMap[q] # c
      BY <2>1, <2>3, <1>3
    <2> QED
      BY <2>2, <2>3
  <1>7. MeshInv'
    BY <1>1, <1>3, <1>4, <1>5, <1>6, MeshKept DEF NodeInv, MeshInv, nodeVars
  <1>8. StatusInv'
    BY <1>1, <1>2, <1>3, StatusKept DEF NodeInv, StatusInv, nodeVars
  <1> QED
    BY <1>1, <1>4, <1>7, <1>8, TimerKept, RequestKept, ChainKept DEF NodeInv, nodeVars

\* A connection breaks.
LEMMA LoseStep ==
    ASSUME NodeInv, NEW c \in ConnIds, Lose(c)
    PROVE  NodeInv'
  <1>1. /\ conns' \in [ConnIds -> Conn]
        /\ \A d \in ConnIds : conns'[d].pc = conns[d].pc /\ conns'[d].peer = conns[d].peer
        /\ UNCHANGED <<clientPeerMap, serverPeerMap, branch, statusMap>>
    BY CloseKeeps DEF NodeInv, MeshInv, Lose, Lost
  <1>2. KeepsPeers
    BY <1>1 DEF KeepsPeers
  <1>3. MeshInv'
    BY <1>1, <1>2, MeshKept DEF NodeInv, MeshInv
  <1>4. StatusInv'
    BY <1>1, StatusKept DEF NodeInv, StatusInv
  <1> QED
    BY <1>2, <1>3, <1>4, TimerKept, RequestKept, ChainKept DEF NodeInv, Lose

\* A peer is dialled or accepted.
LEMMA MeetStep ==
    ASSUME NodeInv, NEW p \in Peers, Meet(p)
    PROVE  NodeInv'
  <1>1. PICK c \in Fresh, side \in {"client", "server"} :
           conns' = [conns EXCEPT ![c] = [peer |-> p, side |-> side, pc |-> "handshake", open |-> TRUE]]
    BY DEF Meet, Dial, Accept
  <1>2. /\ UNCHANGED <<clientPeerMap, serverPeerMap, branch, statusMap, wire, top, recvQ, handling, trying>>
        /\ branch[p] # Nobody
        /\ c \in ConnIds /\ conns[c].pc = "free"
    BY DEF Meet, Dial, Accept, Fresh
  <1>3. /\ conns' \in [ConnIds -> Conn]
        /\ conns'[c].pc = "handshake" /\ conns'[c].peer = p
        /\ \A d \in ConnIds \ {c} : conns'[d] = conns[d]
    BY <1>1, <1>2 DEF NodeInv, MeshInv, Conn, PCs
  <1>4. MeshInv'
    <2>1. \A d \in ConnIds : conns'[d].pc # "free" => conns'[d].peer \in Peers /\ branch'[conns'[d].peer] # Nobody
      BY <1>2, <1>3 DEF NodeInv, MeshInv
    <2>2. \A q \in Peers : clientPeerMap[q] # Nobody => conns'[clientPeerMap[q]] = conns[clientPeerMap[q]]
      BY <1>2, <1>3 DEF NodeInv, MeshInv
    <2>3. \A q \in Peers : serverPeerMap[q] # Nobody => conns'[serverPeerMap[q]] = conns[serverPeerMap[q]]
      BY <1>2, <1>3 DEF NodeInv, MeshInv
    <2> QED
      BY <1>2, <1>3, <2>1, <2>2, <2>3 DEF NodeInv, MeshInv
  <1>5. StatusInv'
    BY <1>2, <1>3, StatusKept DEF NodeInv, StatusInv
  <1>6. RequestInv'
    <2>1. wire[c] = <<>>
      BY <1>2 DEF NodeInv, RequestInv
    <2>2. \A d \in ConnIds : \A i \in 1 .. Len(wire[d]) : wire[d][i] <= top[conns'[d].peer]
      <3> SUFFICES ASSUME NEW d \in ConnIds, NEW i \in 1 .. Len(wire[d])
                   PROVE  wire[d][i] <= top[conns'[d].peer]
        OBVIOUS
      <3>1. d # c
        BY <2>1
      <3> QED
        BY Zenon, <3>1, <1>3 DEF NodeInv, RequestInv
    <2>3. \A d \in ConnIds : conns'[d].pc = "free" => wire[d] = <<>>
      BY Zenon, <1>3 DEF NodeInv, RequestInv
    <2> QED
      BY <1>2, <2>2, <2>3 DEF NodeInv, RequestInv, LoopOK
  <1> QED
    BY <1>4, <1>5, <1>6, TimerKept, ChainKept DEF NodeInv, Meet

-----------------------------------------------------------------------------
(* The peers.                                                              *)

\* Nothing that the mesh invariant speaks of has changed.
LEMMA MeshSame ==
    ASSUME NodeInv, UNCHANGED meshVars, UNCHANGED branch
    PROVE  MeshInv' /\ KeepsPeers
  BY DEF NodeInv, MeshInv, meshVars, KeepsPeers

\* Steps of other parts leave the statuses with their peers.
LEMMA StatusSame ==
    ASSUME NodeInv, UNCHANGED meshVars, UNCHANGED statusMap
    PROVE  StatusInv'
  BY DEF NodeInv, StatusInv, meshVars

\* A message that is queued, and a height that is asked for.
LEMMA MsgAt ==
    ASSUME RequestInv, NEW i \in 1 .. Len(recvQ)
    PROVE  /\ recvQ[i] \in Msg /\ recvQ[i].type \in {"status", "block"}
           /\ recvQ[i].from \in Peers /\ recvQ[i].height \in Nat /\ recvQ[i].hash \in Branches
           /\ recvQ[i].height <= top[recvQ[i].from]
  <1>1. recvQ[i] \in Msg
    BY DEF RequestInv
  <1>2. recvQ[i].height <= top[recvQ[i].from]
    BY DEF RequestInv
  <1> QED
    BY <1>1, <1>2 DEF Msg

\* What is on the wire was asked of a peer that has it.
LEMMA WireAt ==
    ASSUME MeshInv, RequestInv, NEW c \in ConnIds, NEW i \in 1 .. Len(wire[c])
    PROVE  conns[c].peer \in Peers /\ wire[c][i] \in Nat /\ wire[c][i] <= top[conns[c].peer]
  <1>1. wire[c] \in Seq(Heights) /\ wire[c] # <<>>
    BY DEF RequestInv
  <1>2. wire[c][i] \in Nat
    BY <1>1, NodeAssumption DEF Heights
  <1>3. conns[c].pc # "free"
    BY <1>1 DEF RequestInv
  <1> QED
    BY <1>2, <1>3 DEF MeshInv, RequestInv

\* A peer gets a block.
LEMMA GrowStep ==
    ASSUME NodeInv, NEW p \in Peers, Grow(p)
    PROVE  NodeInv'
  <1>1. /\ UNCHANGED meshVars
        /\ UNCHANGED <<chain, blockQ, statusMap, requestTimer, recvQ, wire, branch, handling, trying, connecting, panicked>>
        /\ top' = [top EXCEPT ![p] = @ + 1] /\ top[p] < MaxHeight
    BY DEF Grow
  <1>2. top' \in [Peers -> 0 .. MaxHeight] /\ \A q \in Peers : top[q] <= top'[q]
    <2>1. top \in [Peers -> 0 .. MaxHeight]
      BY Zenon DEF NodeInv, RequestInv
    <2> QED
      BY <1>1, <2>1, NodeAssumption
  <1>5. \A q \in Peers : top[q] \in Nat /\ top'[q] \in Nat
    BY <1>2, NodeAssumption DEF NodeInv, RequestInv
  <1>3. RequestInv'
    <2>1. \A q \in Peers : statusMap[q] # Nobody => statusMap[q] <= top'[q]
      BY <1>2, NodeAssumption DEF NodeInv, RequestInv, StatusInv
    <2>2. \A i \in 1 .. Len(recvQ) : recvQ[i].height <= top'[recvQ[i].from]
      <3> SUFFICES ASSUME NEW i \in 1 .. Len(recvQ) PROVE recvQ[i].height <= top'[recvQ[i].from]
        OBVIOUS
      <3>1. recvQ[i].height \in Nat /\ recvQ[i].from \in Peers /\ recvQ[i].height <= top[recvQ[i].from]
        BY MsgAt DEF NodeInv
      <3> QED
        BY <3>1, <1>2, <1>5
    <2>3. \A c \in ConnIds : \A i \in 1 .. Len(wire[c]) : wire[c][i] <= top'[conns[c].peer]
      <3> SUFFICES ASSUME NEW c \in ConnIds, NEW i \in 1 .. Len(wire[c]) PROVE wire[c][i] <= top'[conns[c].peer]
        OBVIOUS
      <3>1. conns[c].peer \in Peers /\ wire[c][i] \in Nat /\ wire[c][i] <= top[conns[c].peer]
        BY WireAt DEF NodeInv
      <3> QED
        BY <3>1, <1>2, <1>5
    <2>4. (handling.on => LoopOK(handling)') /\ (trying.on => LoopOK(trying)')
      <3>1. /\ handling.on => handling.peer \in Peers /\ handling.next > 0 /\ handling.limit <= top[handling.peer]
            /\ trying.on => trying.peer \in Peers /\ trying.next > 0 /\ trying.limit <= top[trying.peer]
            /\ handling.limit \in Nat /\ trying.limit \in Nat
        BY DEF NodeInv, RequestInv, LoopOK
      <3> QED
        BY <1>1, <1>2, <1>5, <3>1 DEF LoopOK
    <2> QED
      BY Zenon, <1>1, <1>2, <2>1, <2>2, <2>3, <2>4 DEF NodeInv, RequestInv, meshVars
  <1> QED
    BY <1>1, <1>3, MeshSame, StatusSame, TimerKept, ChainKept DEF NodeInv

\* A block of a peer that runs is on one of the branches.
LEMMA HashesOfPeers ==
    ASSUME MeshInv, NEW p \in Peers, branch[p] # Nobody, NEW h \in Nat
    PROVE  Hash(branch[p], h) \in Hashes /\ Hashes \subseteq Branches
  BY NodeAssumption DEF MeshInv, Hash, Hashes

\* A peer that runs tells of a height that it has, or sends a block of it.
LEMMA ToldIsMsg ==
    ASSUME MeshInv, RequestInv, NEW p \in Peers, branch[p] # Nobody, NEW h \in Nat, h <= top[p],
           NEW m \in {Status(p, h), Block(p, h)}
    PROVE  m \in Msg /\ m.height <= top[m.from] /\ m.hash \in Hashes
  BY HashesOfPeers DEF Status, Block, Msg

\* A message from a peer joins the receive queue.
LEMMA AppendMsg ==
    ASSUME RequestInv, ChainInv, NEW m \in Msg, m.height <= top[m.from], m.hash \in Hashes,
           recvQ' = Append(recvQ, m), UNCHANGED <<top, branch>>
    PROVE  /\ recvQ' \in Seq(Msg)
           /\ \A i \in 1 .. Len(recvQ') : recvQ'[i].height <= top'[recvQ'[i].from]
           /\ \A i \in 1 .. Len(recvQ') : recvQ'[i].hash \in Hashes'
  <1>1. recvQ \in Seq(Msg) /\ Hashes' = Hashes
    BY DEF RequestInv, Hashes
  <1>2. /\ recvQ' \in Seq(Msg) /\ Len(recvQ') = Len(recvQ) + 1
        /\ \A i \in 1 .. Len(recvQ) : recvQ'[i] = recvQ[i]
        /\ recvQ'[Len(recvQ) + 1] = m
    BY <1>1
  <1>3. \A i \in 1 .. Len(recvQ') : i \in 1 .. Len(recvQ) \/ i = Len(recvQ) + 1
    BY <1>1, <1>2
  <1> QED
    BY <1>1, <1>2, <1>3 DEF RequestInv, ChainInv

\* A peer tells its height.
LEMMA TellStep ==
    ASSUME NodeInv, NEW c \in ConnIds, Tell(c)
    PROVE  NodeInv'
  <1> DEFINE p == conns[c].peer
             m == Status(p, top[p])
  <1>1. /\ UNCHANGED meshVars
        /\ UNCHANGED <<chain, blockQ, statusMap, requestTimer, wire, top, branch, handling, trying, connecting, panicked>>
        /\ recvQ' = Append(recvQ, m) /\ conns[c].pc = "up"
    BY DEF Tell, Reading
  <1>2. p \in Peers /\ branch[p] # Nobody /\ top[p] \in Nat /\ top[p] <= top[p]
    <2>1. p \in Peers /\ branch[p] # Nobody
      BY <1>1 DEF NodeInv, MeshInv
    <2>2. top[p] \in Nat
      BY Zenon, <2>1, TopIsHeight DEF NodeInv
    <2> QED
      BY <2>1, <2>2
  <1>3. m \in Msg /\ m.height <= top[m.from] /\ m.hash \in Hashes
    BY <1>2, ToldIsMsg DEF NodeInv
  <1>4. /\ recvQ' \in Seq(Msg)
        /\ \A i \in 1 .. Len(recvQ') : recvQ'[i].height <= top'[recvQ'[i].from]
        /\ \A i \in 1 .. Len(recvQ') : recvQ'[i].hash \in Hashes'
    BY Zenon, <1>1, <1>3, AppendMsg DEF NodeInv
  <1>5. RequestInv'
    BY Zenon, <1>1, <1>4 DEF NodeInv, RequestInv, meshVars, LoopOK
  <1>6. ChainInv'
    <2>1. Hashes' = Hashes /\ Forked' = Forked
      BY <1>1 DEF Hashes, Forked
    <2> QED
      BY Zenon, <1>1, <1>4, <2>1 DEF NodeInv, ChainInv, PanicsOnlyOnFork
  <1> QED
    BY <1>1, <1>5, <1>6, MeshSame, StatusSame, TimerKept DEF NodeInv

\* A peer answers a request.
LEMMA AnswerStep ==
    ASSUME NodeInv, NEW c \in ConnIds, Answer(c)
    PROVE  NodeInv'
  <1> DEFINE p == conns[c].peer
             h == Head(wire[c])
             m == Block(p, h)
  <1>1. /\ UNCHANGED meshVars
        /\ UNCHANGED <<chain, blockQ, statusMap, requestTimer, top, branch, handling, trying, connecting, panicked>>
        /\ wire[c] # <<>> /\ wire' = [wire EXCEPT ![c] = Tail(@)]
        /\ recvQ' = recvQ \o Answered(p, h) /\ conns[c].pc = "up"
    BY DEF Answer, Reading
  <1>2. wire[c] \in Seq(Heights) /\ Len(wire[c]) \in Nat /\ Len(wire[c]) > 0
    BY <1>1 DEF NodeInv, RequestInv
  <1>3. p \in Peers /\ branch[p] # Nobody /\ h \in Nat /\ h <= top[p]
    <2>1. h = wire[c][1] /\ 1 \in 1 .. Len(wire[c])
      BY <1>2
    <2> QED
      BY <1>1, <2>1, WireAt DEF NodeInv, MeshInv
  <1>4. m \in Msg /\ m.height <= top[m.from] /\ m.hash \in Hashes
    BY <1>3, ToldIsMsg DEF NodeInv
  <1>5. recvQ' = Append(recvQ, m)
    <2>1. top[p] \in Nat /\ recvQ \in Seq(Msg)
      BY Zenon, <1>3, TopIsHeight DEF NodeInv, RequestInv
    <2>2. Answered(p, h) = <<m>>
      BY <1>3, <2>1 DEF Answered
    <2> QED
      BY Zenon, <1>1, <1>4, <2>1, <2>2, ConcatOne
  <1>6. /\ recvQ' \in Seq(Msg)
        /\ \A i \in 1 .. Len(recvQ') : recvQ'[i].height <= top'[recvQ'[i].from]
        /\ \A i \in 1 .. Len(recvQ') : recvQ'[i].hash \in Hashes'
    BY Zenon, <1>1, <1>4, <1>5, AppendMsg DEF NodeInv
  <1>7. RequestInv'
    <2>1. /\ wire' \in [ConnIds -> Seq(Heights)]
          /\ \A d \in ConnIds \ {c} : wire'[d] = wire[d]
          /\ wire'[c] = Tail(wire[c])
      BY <1>1, <1>2 DEF NodeInv, RequestInv
    <2>2. \A i \in 1 .. Len(wire'[c]) : wire'[c][i] = wire[c][i + 1] /\ i + 1 \in 1 .. Len(wire[c])
      BY <1>2, <2>1
    <2>3. \A d \in ConnIds : \A i \in 1 .. Len(wire'[d]) : wire'[d][i] <= top[conns[d].peer]
      <3>1. \A i \in 1 .. Len(wire'[c]) : wire'[c][i] <= top[conns[c].peer]
        BY <2>2, WireAt DEF NodeInv
      <3> QED
        BY Zenon, <2>1, <3>1, WireAt DEF NodeInv
    <2>4. \A d \in ConnIds : conns[d].pc = "free" => wire'[d] = <<>>
      BY <1>1, <2>1 DEF NodeInv, RequestInv
    <2> QED
      BY Zenon, <1>1, <1>6, <2>1, <2>3, <2>4 DEF NodeInv, RequestInv, meshVars, LoopOK
  <1>8. ChainInv'
    <2>1. Hashes' = Hashes /\ Forked' = Forked
      BY <1>1 DEF Hashes, Forked
    <2> QED
      BY Zenon, <1>1, <1>6, <2>1 DEF NodeInv, ChainInv, PanicsOnlyOnFork
  <1> QED
    BY <1>1, <1>7, <1>8, MeshSame, StatusSame, TimerKept DEF NodeInv

-----------------------------------------------------------------------------
(* Requests.                                                               *)

\* The loop of tryRequestBlocks starts with what some served peer has told.
LEMMA SelectOK ==
    ASSUME StatusInv, RequestInv, NEW base \in Nat, NEW q \in Nat, NEW t \in Select(base, q)
    PROVE  /\ t \in [on : BOOLEAN, peer : Peers \cup {Nobody}, next : Nat, limit : Nat, base : Nat, q : Nat]
           /\ t.on => LoopOK(t)
  <1>1. CASE t = NotTrying
    BY <1>1 DEF NotTrying
  <1>2. CASE t # NotTrying
    <2>1. PICK p \in Selected(base) :
             t = [on |-> TRUE, peer |-> p, next |-> base + 1, limit |-> Min({base + Window, statusMap[p]}),
                  base |-> base, q |-> q]
      BY Zenon, <1>2 DEF Select
    <2>2. p \in Peers /\ statusMap[p] \in Nat
      BY <2>1 DEF Selected, HaveWindow, HaveBase, StatusInv
    <2>3. statusMap[p] <= top[p] /\ top[p] \in Nat
      BY Zenon, <2>2, TopIsHeight, NodeAssumption DEF RequestInv
    <2>4. Min({base + Window, statusMap[p]}) \in Nat /\ Min({base + Window, statusMap[p]}) <= statusMap[p]
      BY <2>2, MinOfTwo, NodeAssumption
    <2> QED
      BY <2>1, <2>2, <2>3, <2>4 DEF LoopOK
  <1> QED
    BY <1>1, <1>2

\* The next height a loop asks for is within its bounds.
LEMMA LeastNeeded ==
    ASSUME NEW loop, NEW timer, loop.next \in Nat, loop.limit \in Nat, Needed(loop, timer) # {}
    PROVE  /\ Min(Needed(loop, timer)) \in Nat
           /\ loop.next <= Min(Needed(loop, timer)) /\ Min(Needed(loop, timer)) <= loop.limit
  <1>1. Needed(loop, timer) \subseteq loop.next .. loop.limit
    BY DEF Needed
  <1>2. Needed(loop, timer) \in SUBSET Nat
    BY <1>1
  <1>3. Min(Needed(loop, timer)) \in Needed(loop, timer)
    BY <1>2, LeastNatural
  <1> QED
    BY <1>1, <1>3

\* A timer is listed under the peer that it waits for, whoever was asked for the height before.
LEMMA AddKeeps ==
    ASSUME TimerInv, NEW h \in Heights, NEW p \in Peers, requestTimer' = R!Add(requestTimer, h, p)
    PROVE  TimerInv'
  BY NodeAssumption DEF TimerInv, TimersAreListed, R!Add, R!Exist

\* A timer that expires leaves both lists of the request timer in agreement.
LEMMA ExpiredKeeps ==
    ASSUME TimerInv, NEW h \in Heights, R!Exist(requestTimer, h), requestTimer' = R!Expired(requestTimer, h)
    PROVE  TimerInv'
  BY NodeAssumption DEF TimerInv, TimersAreListed, R!Expired, R!Exist

\* A request goes to a connection of the peer that it is meant for.
LEMMA SendToStep ==
    ASSUME MeshInv, RequestInv, NEW p \in Peers, NEW h \in Nat, h > 0, h <= top[p], SendTo(p, h), UNCHANGED <<top, branch>>
    PROVE  /\ MeshInv' /\ KeepsPeers /\ \A c \in ConnIds : conns'[c].pc = conns[c].pc
           /\ wire' \in [ConnIds -> Seq(Heights)]
           /\ \A c \in ConnIds : \A i \in 1 .. Len(wire'[c]) : wire'[c][i] <= top'[conns'[c].peer]
           /\ \A c \in ConnIds : conns'[c].pc = "free" => wire'[c] = <<>>
  <1>1. CASE UNCHANGED meshVars /\ UNCHANGED wire
    <2>1. MeshInv' /\ KeepsPeers
      BY <1>1 DEF MeshInv, meshVars, KeepsPeers
    <2> QED
      BY <1>1, <2>1 DEF RequestInv, meshVars
  <1>2. CASE RemovePeer(p) /\ UNCHANGED wire
    <2>1. MeshInv' /\ KeepsPeers /\ \A c \in ConnIds : conns'[c].pc = conns[c].pc
      BY <1>2, RemovePeerKeeps
    <2> QED
      BY Zenon, <1>2, <2>1 DEF RequestInv, KeepsPeers
  <1>3. CASE /\ GetPeer(p) # Nobody /\ UNCHANGED meshVars
             /\ wire' = [wire EXCEPT ![GetPeer(p)] = Append(@, h)]
    <2>1. MeshInv' /\ KeepsPeers /\ UNCHANGED conns
      BY <1>3 DEF MeshInv, meshVars, KeepsPeers
    <2>2. PICK c \in ConnIds : c = GetPeer(p) /\ conns[c].peer = p /\ conns[c].pc # "free"
      BY <1>3 DEF GetPeer, MeshInv
    <2>3. h \in Heights
      BY Zenon, HasHeight
    <2>4. /\ wire[c] \in Seq(Heights)
          /\ \A d \in ConnIds \ {c} : wire'[d] = wire[d]
          /\ wire'[c] = Append(wire[c], h)
          /\ wire' \in [ConnIds -> Seq(Heights)]
      BY <1>3, <2>2, <2>3 DEF RequestInv
    <2>5. \A i \in 1 .. Len(wire'[c]) : (i \in 1 .. Len(wire[c]) /\ wire'[c][i] = wire[c][i]) \/ wire'[c][i] = h
      BY <2>3, <2>4
    <2>6. \A i \in 1 .. Len(wire'[c]) : wire'[c][i] <= top[conns[c].peer]
      BY <2>2, <2>5, WireAt
    <2>7. \A d \in ConnIds : \A i \in 1 .. Len(wire'[d]) : wire'[d][i] <= top[conns[d].peer]
      BY Zenon, <2>4, <2>6, WireAt
    <2>8. \A d \in ConnIds : conns[d].pc = "free" => wire'[d] = <<>>
      BY <2>2, <2>4 DEF RequestInv
    <2> QED
      BY <2>1, <2>4, <2>7, <2>8
  <1> QED
    BY <1>1, <1>2, <1>3 DEF SendTo

\* One request of tryRequestBlocks or of the handler.
LEMMA RequestStep ==
    ASSUME NodeInv, NEW p \in Peers, NEW h \in Nat, h > 0, h <= top[p], sendRequestBlockTo(p, h),
           UNCHANGED Requesting,
           handling' \in [on : BOOLEAN, peer : Peers \cup {Nobody}, next : Nat, limit : Nat],
           handling'.on => LoopOK(handling') /\ handling'.next <= handling'.limit,
           trying' \in [on : BOOLEAN, peer : Peers \cup {Nobody}, next : Nat, limit : Nat, base : Nat, q : Nat],
           trying'.on => LoopOK(trying')
    PROVE  NodeInv'
  <1>1. UNCHANGED <<chain, blockQ, statusMap, recvQ, top, branch, connecting, panicked>> /\ SendTo(p, h)
    BY DEF Requesting, sendRequestBlockTo
  <1>2. /\ MeshInv' /\ KeepsPeers /\ \A c \in ConnIds : conns'[c].pc = conns[c].pc
        /\ wire' \in [ConnIds -> Seq(Heights)]
        /\ \A c \in ConnIds : \A i \in 1 .. Len(wire'[c]) : wire'[c][i] <= top'[conns'[c].peer]
        /\ \A c \in ConnIds : conns'[c].pc = "free" => wire'[c] = <<>>
    BY Zenon, <1>1, SendToStep DEF NodeInv
  <1>3. StatusInv'
    <2>1. \A c \in ConnIds : conns[c].pc = "up" => conns'[c].pc = "up" /\ conns'[c].peer = conns[c].peer
      BY Zenon, <1>2 DEF KeepsPeers
    <2>2. statusMap' \in [Peers -> Nat \cup {Nobody}] /\ StatusInv
      BY Zenon, <1>1 DEF NodeInv, StatusInv
    <2> QED
      BY Zenon, <1>1, <2>1, <2>2, StatusKept
  <1>4. TimerInv'
    <2>1. h \in Heights
      BY Zenon, HasHeight DEF NodeInv
    <2> QED
      BY <2>1, AddKeeps DEF NodeInv, sendRequestBlockTo
  <1>5. RequestInv'
    BY Zenon, <1>1, <1>2 DEF NodeInv, RequestInv, LoopOK
  <1> QED
    BY Zenon, <1>1, <1>2, <1>3, <1>4, <1>5, ChainKept DEF NodeInv

\* tryRequestBlocks goes on to another window, or ends.
LEMMA SelectStep ==
    ASSUME NodeInv, NEW base \in Nat, NEW q \in Nat, trying' \in Select(base, q),
           UNCHANGED meshVars, UNCHANGED Requesting, UNCHANGED <<wire, requestTimer, handling>>
    PROVE  NodeInv'
  <1>1. UNCHANGED <<chain, blockQ, statusMap, recvQ, top, branch, connecting, panicked>>
    BY DEF Requesting
  <1>2. /\ trying' \in [on : BOOLEAN, peer : Peers \cup {Nobody}, next : Nat, limit : Nat, base : Nat, q : Nat]
        /\ trying'.on => LoopOK(trying')
    BY SelectOK DEF NodeInv
  <1>3. RequestInv'
    BY Zenon, <1>1, <1>2 DEF NodeInv, RequestInv, LoopOK, meshVars
  <1> QED
    BY <1>1, <1>3, MeshSame, StatusSame, TimerKept, ChainKept DEF NodeInv

\* tryRequestBlocks selects a peer.
LEMMA TryBeginStep ==
    ASSUME NodeInv, TryBegin
    PROVE  NodeInv'
  <1>1. Height \in Nat
    BY DEF Height, NodeInv, ChainInv
  <1> QED
    BY <1>1, SelectStep DEF TryBegin

\* tryRequestBlocks goes to the next base height.
LEMMA TryNextStep ==
    ASSUME NodeInv, TryNext
    PROVE  NodeInv'
  <1>1. trying.base + Window \in Nat /\ trying.q + 1 \in Nat
    BY NodeAssumption DEF NodeInv, RequestInv
  <1> QED
    BY <1>1, SelectStep DEF TryNext

\* tryRequestBlocks sends a request.
LEMMA TrySendStep ==
    ASSUME NodeInv, TrySend
    PROVE  NodeInv'
  <1> DEFINE h == Min(Needed(trying, requestTimer))
             p == trying.peer
  <1>1. /\ trying.on /\ Needed(trying, requestTimer) # {} /\ UNCHANGED Requesting /\ UNCHANGED handling
        /\ sendRequestBlockTo(p, h) /\ trying' = [trying EXCEPT !.next = h + 1]
    BY DEF TrySend
  <1>2. /\ trying \in [on : BOOLEAN, peer : Peers \cup {Nobody}, next : Nat, limit : Nat, base : Nat, q : Nat]
        /\ p \in Peers /\ trying.next > 0 /\ trying.limit <= top[p] /\ top[p] \in Nat
    BY Zenon, <1>1, TopIsHeight DEF NodeInv, RequestInv, LoopOK
  <1>3. h \in Nat /\ h > 0 /\ h <= top[p]
    BY <1>1, <1>2, LeastNeeded
  <1>4. /\ trying' \in [on : BOOLEAN, peer : Peers \cup {Nobody}, next : Nat, limit : Nat, base : Nat, q : Nat]
        /\ LoopOK(trying')
    BY <1>1, <1>2, <1>3 DEF LoopOK
  <1>5. /\ handling' \in [on : BOOLEAN, peer : Peers \cup {Nobody}, next : Nat, limit : Nat]
        /\ handling'.on => LoopOK(handling') /\ handling'.next <= handling'.limit
    BY <1>1 DEF NodeInv, RequestInv
  <1> QED
    BY <1>1, <1>2, <1>3, <1>4, <1>5, RequestStep

\* The handler's loop stops at a height that is neither asked for nor queued.
LEMMA LoopFrom ==
    ASSUME NEW p \in Peers, NEW a \in Nat, NEW l \in Nat, top[p] \in Nat, l <= top[p]
    PROVE  LET loop == [on |-> FALSE, peer |-> p, next |-> a + 1, limit |-> l]
           IN  loop \in [on : BOOLEAN, peer : Peers \cup {Nobody}, next : Nat, limit : Nat] /\ LoopOK(loop)
  BY DEF LoopOK

\* The handler loop stays within what the peer has.
LEMMA FindOK ==
    ASSUME NEW loop \in [on : BOOLEAN, peer : Peers \cup {Nobody}, next : Nat, limit : Nat], LoopOK(loop), NEW timer
    PROVE  /\ Find(loop, timer) \in [on : BOOLEAN, peer : Peers \cup {Nobody}, next : Nat, limit : Nat]
           /\ Find(loop, timer).on => LoopOK(Find(loop, timer)) /\ Find(loop, timer).next <= Find(loop, timer).limit
  <1>1. CASE Needed(loop, timer) = {}
    BY <1>1 DEF Find, NotHandling
  <1>2. CASE Needed(loop, timer) # {}
    <2> DEFINE h == Min(Needed(loop, timer))
    <2>1. h \in Nat /\ loop.next <= h /\ h <= loop.limit
      BY <1>2, LeastNeeded
    <2>2. Find(loop, timer) = [loop EXCEPT !.on = TRUE, !.next = h]
      BY <1>2 DEF Find
    <2> HIDE DEF h
    <2>3. /\ Find(loop, timer) \in [on : BOOLEAN, peer : Peers \cup {Nobody}, next : Nat, limit : Nat]
          /\ Find(loop, timer).peer = loop.peer /\ Find(loop, timer).next = h /\ Find(loop, timer).limit = loop.limit
      BY Zenon, <2>1, <2>2
    <2>4. h > 0
      BY <2>1 DEF LoopOK
    <2> QED
      BY <2>1, <2>3, <2>4 DEF LoopOK
  <1> QED
    BY <1>1, <1>2

\* The status handler sends a request.
LEMMA HandlerSendStep ==
    ASSUME NodeInv, HandlerSend
    PROVE  NodeInv'
  <1> DEFINE h == handling.next
             p == handling.peer
             loop == [handling EXCEPT !.next = @ + 1]
  <1>1. /\ handling.on /\ UNCHANGED Requesting /\ UNCHANGED trying
        /\ sendRequestBlockTo(p, h) /\ handling' = Find(loop, requestTimer')
    BY DEF HandlerSend
  <1>2. /\ handling \in [on : BOOLEAN, peer : Peers \cup {Nobody}, next : Nat, limit : Nat]
        /\ p \in Peers /\ h > 0 /\ h <= handling.limit /\ handling.limit <= top[p] /\ top[p] \in Nat
    BY Zenon, <1>1, TopIsHeight DEF NodeInv, RequestInv, LoopOK
  <1>3. h \in Nat /\ h > 0 /\ h <= top[p]
    BY <1>2
  <1>4. loop \in [on : BOOLEAN, peer : Peers \cup {Nobody}, next : Nat, limit : Nat] /\ LoopOK(loop)
    BY <1>2 DEF LoopOK
  <1>5. /\ handling' \in [on : BOOLEAN, peer : Peers \cup {Nobody}, next : Nat, limit : Nat]
        /\ handling'.on => LoopOK(handling') /\ handling'.next <= handling'.limit
    <2> HIDE DEF loop
    <2> QED
      BY <1>1, <1>4, FindOK
  <1>6. /\ trying' \in [on : BOOLEAN, peer : Peers \cup {Nobody}, next : Nat, limit : Nat, base : Nat, q : Nat]
        /\ trying'.on => LoopOK(trying')
    BY <1>1 DEF NodeInv, RequestInv
  <1> QED
    BY <1>1, <1>2, <1>3, <1>5, <1>6, RequestStep

\* A request expires.
LEMMA TimerExpiresStep ==
    ASSUME NodeInv, NEW h \in Heights, TimerExpires(h)
    PROVE  NodeInv'
  <1>1. /\ UNCHANGED meshVars
        /\ UNCHANGED <<chain, blockQ, statusMap, recvQ, wire, top, branch, handling, trying, connecting, panicked>>
    BY DEF TimerExpires
  <1>2. TimerInv'
    BY ExpiredKeeps DEF NodeInv, TimerExpires
  <1> QED
    BY <1>1, <1>2, MeshSame, StatusSame, RequestKept, ChainKept DEF NodeInv

-----------------------------------------------------------------------------
(* handlePeerMessage.                                                      *)

\* Only the status of a peer that has one is raised, and not above what the peer has told.
LEMMA RaiseOK ==
    ASSUME StatusInv, RequestInv, NEW p \in Peers, NEW h \in Nat, h <= top[p], statusMap' = Raise(p, h), UNCHANGED top
    PROVE  /\ statusMap' \in [Peers -> Nat \cup {Nobody}]
           /\ \A q \in Peers : statusMap'[q] # Nobody => statusMap[q] # Nobody /\ statusMap'[q] <= top'[q]
  BY DEF StatusInv, RequestInv, Raise

\* The message that is handled leaves the queue.
LEMMA TailMsgs ==
    ASSUME RequestInv, ChainInv, recvQ # <<>>, recvQ' = Tail(recvQ), UNCHANGED <<top, branch>>
    PROVE  /\ recvQ' \in Seq(Msg)
           /\ \A i \in 1 .. Len(recvQ') : recvQ'[i].height <= top'[recvQ'[i].from]
           /\ \A i \in 1 .. Len(recvQ') : recvQ'[i].hash \in Hashes'
           /\ 1 \in 1 .. Len(recvQ) /\ Head(recvQ) = recvQ[1]
  <1>1. recvQ \in Seq(Msg) /\ Hashes' = Hashes
    BY DEF RequestInv, Hashes
  <1>2. /\ recvQ' \in Seq(Msg) /\ 1 \in 1 .. Len(recvQ) /\ Head(recvQ) = recvQ[1]
        /\ \A i \in 1 .. Len(recvQ') : i + 1 \in 1 .. Len(recvQ) /\ recvQ'[i] = recvQ[i + 1]
    BY <1>1
  <1>3. \A i \in 1 .. Len(recvQ') : recvQ'[i].height <= top'[recvQ'[i].from]
    BY <1>2 DEF RequestInv
  <1>4. \A i \in 1 .. Len(recvQ') : recvQ'[i].hash \in Hashes'
    BY <1>1, <1>2 DEF ChainInv
  <1> QED
    BY <1>2, <1>3, <1>4

\* What the handlers of received messages have in common.
LEMMA HandledStep ==
    ASSUME NodeInv, recvQ # <<>>, recvQ' = Tail(recvQ), UNCHANGED Handled,
           MeshInv', KeepsPeers, \A c \in ConnIds : conns'[c].pc = conns[c].pc,
           statusMap' \in [Peers -> Nat \cup {Nobody}],
           \A q \in Peers : statusMap'[q] # Nobody => statusMap[q] # Nobody /\ statusMap'[q] <= top'[q],
           handling' \in [on : BOOLEAN, peer : Peers \cup {Nobody}, next : Nat, limit : Nat],
           handling'.on => LoopOK(handling') /\ handling'.next <= handling'.limit,
           blockQ' \in [Heights -> Hashes \cup {Nobody}],
           panicked' => Forked
    PROVE  NodeInv'
  <1>1. UNCHANGED <<chain, wire, top, branch, trying, connecting, requestTimer>>
    BY DEF Handled
  <1>2. /\ recvQ' \in Seq(Msg)
        /\ \A i \in 1 .. Len(recvQ') : recvQ'[i].height <= top'[recvQ'[i].from]
        /\ \A i \in 1 .. Len(recvQ') : recvQ'[i].hash \in Hashes'
    BY <1>1, TailMsgs DEF NodeInv
  <1>3. StatusInv'
    BY StatusKept DEF NodeInv, KeepsPeers
  <1>4. RequestInv'
    <2>1. /\ \A c \in ConnIds : conns'[c].pc = "free" => wire'[c] = <<>>
          /\ \A c \in ConnIds : \A i \in 1 .. Len(wire'[c]) : wire'[c][i] <= top'[conns'[c].peer]
      BY Zenon, <1>1 DEF NodeInv, RequestInv, KeepsPeers
    <2>2. handling'.on => LoopOK(handling)' /\ handling'.next <= handling'.limit
      BY Zenon, <1>1 DEF LoopOK
    <2>3. trying'.on => LoopOK(trying)'
      BY Zenon, <1>1 DEF NodeInv, RequestInv, LoopOK
    <2> QED
      BY Zenon, <1>1, <1>2, <2>1, <2>2, <2>3 DEF NodeInv, RequestInv
  <1>5. ChainInv'
    <2>1. Hashes' = Hashes /\ Forked' = Forked
      BY <1>1 DEF Hashes, Forked
    <2> QED
      BY <1>1, <1>2, <2>1 DEF NodeInv, ChainInv, PanicsOnlyOnFork
  <1> QED
    BY <1>1, <1>3, <1>4, <1>5, TimerKept DEF NodeInv

\* A status is handled.
LEMMA HandleStatusStep ==
    ASSUME NodeInv, ~handling.on, recvQ # <<>>, recvQ' = Tail(recvQ), HandleStatus(Head(recvQ)), UNCHANGED Handled
    PROVE  NodeInv'
  <1>1. PICK m \in Msg : m = Head(recvQ) /\ m.from \in Peers /\ m.height \in Nat /\ m.height <= top[m.from]
    BY TailMsgs, MsgAt DEF NodeInv, Handled
  <1>2. HandleStatus(m) /\ UNCHANGED <<top, branch, chain>>
    BY <1>1 DEF Handled
  <1>3. /\ statusMap' \in [Peers -> Nat \cup {Nobody}]
        /\ \A q \in Peers : statusMap'[q] # Nobody => statusMap[q] # Nobody /\ statusMap'[q] <= top'[q]
    BY Zenon, <1>1, <1>2, RaiseOK DEF NodeInv, HandleStatus
  <1>4. MeshInv' /\ KeepsPeers /\ \A c \in ConnIds : conns'[c].pc = conns[c].pc
    <2>1. CASE UNCHANGED meshVars
      BY <2>1, <1>2, MeshSame DEF meshVars
    <2>2. CASE RemovePeer(m.from)
      BY <2>2, <1>1, <1>2, RemovePeerKeeps DEF NodeInv
    <2> QED
      BY Zenon, <2>1, <2>2, <1>2 DEF HandleStatus
  <1>5. /\ handling' \in [on : BOOLEAN, peer : Peers \cup {Nobody}, next : Nat, limit : Nat]
        /\ handling'.on => LoopOK(handling') /\ handling'.next <= handling'.limit
    <2>1. CASE UNCHANGED handling
      BY <2>1 DEF NodeInv, RequestInv
    <2>2. CASE ~UNCHANGED handling
      <3> DEFINE limit == Min({Height + Windows * Window, m.height})
                 loop == [on |-> FALSE, peer |-> m.from, next |-> Height + 1, limit |-> limit]
      <3>1. Height \in Nat /\ Windows * Window \in Nat /\ top[m.from] \in Nat
        <4>1. chain \in Seq(Hashes) /\ top[m.from] \in Nat
          BY Zenon, <1>1, TopIsHeight DEF NodeInv, ChainInv
        <4> QED
          BY <4>1, NodeAssumption DEF Height
      <3>2. limit \in Nat /\ limit <= m.height
        BY <1>1, <3>1, MinOfTwo
      <3>3. handling' = Find(loop, requestTimer)
        BY Zenon, <2>2, <1>2 DEF HandleStatus
      <3> HIDE DEF limit
      <3>4. limit <= top[m.from]
        BY <1>1, <3>1, <3>2
      <3>5. loop \in [on : BOOLEAN, peer : Peers \cup {Nobody}, next : Nat, limit : Nat] /\ LoopOK(loop)
        BY Zenon, <1>1, <3>1, <3>2, <3>4, LoopFrom
      <3> HIDE DEF loop
      <3> QED
        BY <3>3, <3>5, FindOK
    <2> QED
      BY <2>1, <2>2
  <1>6. blockQ' \in [Heights -> Hashes \cup {Nobody}] /\ (panicked' => Forked)
    <2>1. UNCHANGED <<blockQ, panicked>>
      BY <1>2, Zenon DEF HandleStatus
    <2> QED
      BY <2>1 DEF NodeInv, ChainInv, PanicsOnlyOnFork
  <1> QED
    BY <1>3, <1>4, <1>5, <1>6, HandledStep

\* A block is handled.
LEMMA HandleBlockStep ==
    ASSUME NodeInv, ~handling.on, recvQ # <<>>, recvQ' = Tail(recvQ), HandleBlock(Head(recvQ)), UNCHANGED Handled
    PROVE  NodeInv'
  <1>1. PICK m \in Msg : m = Head(recvQ) /\ m.from \in Peers /\ m.height \in Nat /\ m.height <= top[m.from] /\ m.hash \in Hashes
    <2>1. 1 \in 1 .. Len(recvQ) /\ Head(recvQ) = recvQ[1]
      BY TailMsgs DEF NodeInv, Handled
    <2>2. recvQ[1].hash \in Hashes
      BY <2>1 DEF NodeInv, ChainInv
    <2> QED
      BY <2>1, <2>2, MsgAt DEF NodeInv
  <1>2. HandleBlock(m) /\ UNCHANGED <<top, branch, chain>>
    BY <1>1 DEF Handled
  <1>3. /\ statusMap' \in [Peers -> Nat \cup {Nobody}]
        /\ \A q \in Peers : statusMap'[q] # Nobody => statusMap[q] # Nobody /\ statusMap'[q] <= top'[q]
    BY Zenon, <1>1, <1>2, RaiseOK DEF NodeInv, HandleBlock
  <1>4. MeshInv' /\ KeepsPeers /\ \A c \in ConnIds : conns'[c].pc = conns[c].pc
    BY <1>2, MeshSame DEF HandleBlock, meshVars
  <1>5. /\ handling' \in [on : BOOLEAN, peer : Peers \cup {Nobody}, next : Nat, limit : Nat]
        /\ handling'.on => LoopOK(handling') /\ handling'.next <= handling'.limit
    BY Zenon, <1>2 DEF HandleBlock, NodeInv, RequestInv
  <1>6. blockQ' \in [Heights -> Hashes \cup {Nobody}] /\ (panicked' => Forked)
    <2>1. blockQ' = blockQ \/ blockQ' = [blockQ EXCEPT ![m.height] = m.hash]
      BY Zenon, <1>2 DEF HandleBlock
    <2>2. blockQ \in [Heights -> Hashes \cup {Nobody}]
      BY DEF NodeInv, ChainInv
    <2>3. blockQ' \in [Heights -> Hashes \cup {Nobody}]
      BY <1>1, <2>1, <2>2
    <2>4. UNCHANGED panicked
      BY Zenon, <1>2 DEF HandleBlock
    <2> QED
      BY <2>3, <2>4 DEF NodeInv, ChainInv, PanicsOnlyOnFork
  <1> QED
    BY <1>3, <1>4, <1>5, <1>6, HandledStep

\* The next received message is handled.
LEMMA RecvNextStep ==
    ASSUME NodeInv, RecvNext
    PROVE  NodeInv'
  <1>1. CASE HandleForkedBlock(Head(recvQ))
    <2>1. PICK m \in Msg : m = Head(recvQ) /\ m.from \in Peers
      BY TailMsgs, MsgAt DEF NodeInv, Handled, RecvNext
    <2>2. RemovePeer(m.from) /\ UNCHANGED <<blockQ, statusMap, handling, panicked>> /\ UNCHANGED <<branch, top>>
      BY Zenon, <1>1, <2>1 DEF HandleForkedBlock, RecvNext, Handled
    <2>3. MeshInv' /\ KeepsPeers /\ \A c \in ConnIds : conns'[c].pc = conns[c].pc
      BY <2>1, <2>2, RemovePeerKeeps DEF NodeInv
    <2>4. /\ statusMap' \in [Peers -> Nat \cup {Nobody}]
          /\ \A q \in Peers : statusMap'[q] # Nobody => statusMap[q] # Nobody /\ statusMap'[q] <= top'[q]
      BY <2>2 DEF NodeInv, StatusInv, RequestInv
    <2>5. /\ handling' \in [on : BOOLEAN, peer : Peers \cup {Nobody}, next : Nat, limit : Nat]
          /\ handling'.on => LoopOK(handling') /\ handling'.next <= handling'.limit
      BY <2>2 DEF NodeInv, RequestInv
    <2>6. blockQ' \in [Heights -> Hashes \cup {Nobody}] /\ (panicked' => Forked)
      BY <2>2 DEF NodeInv, ChainInv, PanicsOnlyOnFork
    <2> QED
      BY <2>3, <2>4, <2>5, <2>6, HandledStep DEF RecvNext
  <1> QED
    BY <1>1, HandleStatusStep, HandleBlockStep DEF RecvNext

-----------------------------------------------------------------------------
(* The loop that connects blocks.                                          *)

\* The hashes of the peers are hashes of branches.
LEMMA HashesInBranches ==
    ASSUME MeshInv
    PROVE  Hashes \subseteq Branches /\ Nobody \notin Hashes /\ Trunk \in Hashes
  BY NodeAssumption DEF MeshInv, Hashes

\* PopUntil drops blocks and takes one of the height that is asked for, or none.
LEMMA PopUntilOK ==
    ASSUME MeshInv, ChainInv, NEW target \in Nat \ {0}, PopUntil(target)
    PROVE  /\ blockQ' \in [Heights -> Hashes \cup {Nobody}]
           /\ ItemAt(blockQ, target) \in [height : Nat, hash : Branches] \cup {Nobody}
           /\ ItemAt(blockQ, target) # Nobody =>
                 ItemAt(blockQ, target).height = target /\ ItemAt(blockQ, target).hash \in Hashes
  <1>1. blockQ \in [Heights -> Hashes \cup {Nobody}]
    BY DEF ChainInv
  <1>2. blockQ' \in [Heights -> Hashes \cup {Nobody}]
    BY <1>1 DEF PopUntil, After
  <1>3. CASE target > MaxHeight \/ blockQ[target] = Nobody
    BY <1>2, <1>3 DEF ItemAt
  <1>4. CASE ~(target > MaxHeight \/ blockQ[target] = Nobody)
    <2>1. target \in Heights
      BY <1>4, NodeAssumption DEF Heights
    <2>2. blockQ[target] \in Hashes /\ blockQ[target] \in Branches
      BY <1>1, <1>4, <2>1, HashesInBranches
    <2> QED
      BY <1>2, <1>4, <2>2 DEF ItemAt, Item
  <1> QED
    BY <1>3, <1>4

\* What the steps of the block queue have in common.
LEMMA ConnectingStep ==
    ASSUME NodeInv, UNCHANGED meshVars, UNCHANGED Looping,
           chain' \in Seq(Hashes),
           blockQ' \in [Heights -> Hashes \cup {Nobody}],
           connecting' \in [item : [height : Nat, hash : Branches] \cup {Nobody}, count : Nat],
           connecting'.item # Nobody => connecting'.item.height = Len(chain') + 1 /\ connecting'.item.hash \in Hashes,
           panicked' => Forked
    PROVE  NodeInv'
  <1>1. UNCHANGED <<statusMap, requestTimer, recvQ, wire, top, branch, handling, trying>>
    BY DEF Looping
  <1>2. Hashes' = Hashes /\ Forked' = Forked
    BY <1>1 DEF Hashes, Forked
  <1>3. ChainInv'
    BY <1>1, <1>2 DEF NodeInv, ChainInv, PanicsOnlyOnFork
  <1> QED
    BY <1>1, <1>3, MeshSame, StatusSame, TimerKept, RequestKept DEF NodeInv

\* The block timer takes the next block from the queue.
LEMMA BlockTimerStep ==
    ASSUME NodeInv, BlockTimer
    PROVE  NodeInv'
  <1>1. chain \in Seq(Hashes) /\ Height = Len(chain) /\ Height + 1 \in Nat \ {0} /\ PopUntil(Height + 1)
    BY DEF NodeInv, ChainInv, Height, BlockTimer
  <1>2. /\ connecting' = [item |-> ItemAt(blockQ, Height + 1), count |-> 0]
        /\ UNCHANGED meshVars /\ UNCHANGED Looping /\ chain' = chain /\ panicked' = panicked
    BY DEF BlockTimer
  <1>3. /\ blockQ' \in [Heights -> Hashes \cup {Nobody}]
        /\ connecting' \in [item : [height : Nat, hash : Branches] \cup {Nobody}, count : Nat]
        /\ connecting'.item # Nobody => connecting'.item.height = Len(chain') + 1 /\ connecting'.item.hash \in Hashes
    BY <1>1, <1>2, PopUntilOK DEF NodeInv
  <1>4. panicked' => Forked
    BY Zenon, <1>2 DEF NodeInv, ChainInv, PanicsOnlyOnFork
  <1> QED
    BY <1>1, <1>2, <1>3, <1>4, ConnectingStep

\* A block is connected.
LEMMA ConnectNextStep ==
    ASSUME NodeInv, ConnectNext
    PROVE  NodeInv'
  <1> DEFINE last == connecting.item.hash
  <1>1. /\ chain \in Seq(Hashes) /\ Height = Len(chain) /\ Height \in Nat
        /\ last \in Hashes /\ connecting.count \in Nat
    BY DEF NodeInv, ChainInv, Height, ConnectNext
  <1>2. /\ chain' = Append(chain, last) /\ UNCHANGED meshVars /\ UNCHANGED Looping /\ panicked' = panicked
    BY DEF ConnectNext
  <1>3. chain' \in Seq(Hashes) /\ Len(chain') = Height + 1
    BY <1>1, <1>2
  <1>4. /\ blockQ' \in [Heights -> Hashes \cup {Nobody}]
        /\ connecting' \in [item : [height : Nat, hash : Branches] \cup {Nobody}, count : Nat]
        /\ connecting'.item # Nobody => connecting'.item.height = Len(chain') + 1 /\ connecting'.item.hash \in Hashes
    <2>1. CASE connecting' = NotConnecting /\ UNCHANGED blockQ
      BY <2>1 DEF NotConnecting, NodeInv, ChainInv
    <2>2. CASE /\ PopUntil(Height + 2)
               /\ connecting' = [item |-> ItemAt(blockQ, Height + 2), count |-> connecting.count + 1]
      <3>1. Height + 2 \in Nat \ {0} /\ connecting.count + 1 \in Nat /\ Height + 2 = Len(chain') + 1
        BY <1>1, <1>3
      <3> QED
        BY <2>2, <3>1, PopUntilOK DEF NodeInv
    <2> QED
      BY <2>1, <2>2 DEF ConnectNext
  <1>5. panicked' => Forked
    BY <1>2 DEF NodeInv, ChainInv, PanicsOnlyOnFork
  <1> QED
    BY <1>2, <1>3, <1>4, <1>5, ConnectingStep

\* On one branch every block follows every other of the height below.
LEMMA FollowsUnlessForked ==
    ASSUME NodeInv, connecting.item # Nobody, ~Follows(connecting.item)
    PROVE  Forked
  <1> SUFFICES ASSUME ~Forked PROVE FALSE
    OBVIOUS
  <1>1. Hashes = {Trunk}
    BY NodeAssumption DEF Hashes, Forked
  <1>2. connecting.item.height = Height + 1 /\ connecting.item.hash = Trunk
    BY <1>1 DEF NodeInv, ChainInv, Height
  <1>3. Height > 0 => chain[Height] = Trunk
    <2>1. chain \in Seq({Trunk}) /\ Height = Len(chain)
      BY <1>1 DEF NodeInv, ChainInv, Height
    <2> QED
      BY <2>1
  <1> QED
    BY <1>2, <1>3 DEF Follows, Hash

\* A block that does not follow ends the process.
LEMMA ConnectFailsStep ==
    ASSUME NodeInv, ConnectFails
    PROVE  NodeInv'
  <1>1. Forked
    BY FollowsUnlessForked DEF ConnectFails
  <1>2. /\ connecting' = NotConnecting /\ UNCHANGED meshVars /\ UNCHANGED Looping
        /\ chain' = chain /\ blockQ' = blockQ
    BY DEF ConnectFails
  <1>3. /\ chain' \in Seq(Hashes) /\ blockQ' \in [Heights -> Hashes \cup {Nobody}]
        /\ connecting' \in [item : [height : Nat, hash : Branches] \cup {Nobody}, count : Nat]
        /\ connecting'.item = Nobody
    BY <1>2 DEF NotConnecting, NodeInv, ChainInv
  <1> QED
    BY <1>1, <1>2, <1>3, ConnectingStep

-----------------------------------------------------------------------------
(* The start, and the start after a panic.                                 *)

\* Nothing is known of any peer, nothing is asked for and nothing waits.
LEMMA RestartStep ==
    ASSUME NodeInv, Restart
    PROVE  NodeInv'
  <1>1. /\ conns' = [c \in ConnIds |-> IF conns[c].pc = "free" THEN NoConn ELSE At(Close(conns, c), c, "done")[c]]
        /\ clientPeerMap' = [p \in Peers |-> Nobody] /\ serverPeerMap' = [p \in Peers |-> Nobody]
        /\ UNCHANGED <<chain, top, branch>>
    BY DEF Restart
  <1>2. \A c \in ConnIds : conns[c].pc # "free" =>
           /\ At(Close(conns, c), c, "done")[c] \in Conn
           /\ At(Close(conns, c), c, "done")[c].pc = "done"
           /\ At(Close(conns, c), c, "done")[c].peer = conns[c].peer
    <2> SUFFICES ASSUME NEW c \in ConnIds, conns[c].pc # "free"
                 PROVE  /\ At(Close(conns, c), c, "done")[c] \in Conn
                        /\ At(Close(conns, c), c, "done")[c].pc = "done"
                        /\ At(Close(conns, c), c, "done")[c].peer = conns[c].peer
      OBVIOUS
    <2>1. Close(conns, c) \in [ConnIds -> Conn] /\ Close(conns, c)[c].peer = conns[c].peer
      BY CloseKeeps DEF NodeInv, MeshInv
    <2> QED
      BY <2>1, AtMoves DEF PCs
  <1>3. NoConn \in Conn /\ NoConn.pc = "free"
    BY DEF NoConn, Conn, PCs
  <1>4. conns' \in [ConnIds -> Conn] /\ \A c \in ConnIds : conns'[c].pc \in {"free", "done"}
    BY <1>1, <1>2, <1>3
  <1>5. MeshInv'
    <2>1. \A c \in ConnIds : conns'[c].pc # "free" => conns[c].pc # "free" /\ conns'[c].peer = conns[c].peer
      BY <1>1, <1>2, <1>3
    <2>2. /\ clientPeerMap' \in [Peers -> ConnIds \cup {Nobody}] /\ \A p \in Peers : clientPeerMap'[p] = Nobody
          /\ serverPeerMap' \in [Peers -> ConnIds \cup {Nobody}] /\ \A p \in Peers : serverPeerMap'[p] = Nobody
      BY <1>1
    <2>3. \A c \in ConnIds : conns'[c].pc # "free" => conns'[c].peer \in Peers /\ branch'[conns'[c].peer] # Nobody
      BY Zenon, <1>1, <2>1 DEF NodeInv, MeshInv
    <2>4. branch' \in [Peers -> Branches \cup {Nobody}]
      BY Zenon, <1>1 DEF NodeInv, MeshInv
    <2> QED
      BY Zenon, <1>4, <2>2, <2>3, <2>4 DEF MeshInv
  <1>6. StatusInv' /\ TimerInv' /\ RequestInv'
    <2>2. /\ statusMap' = [p \in Peers |-> Nobody] /\ requestTimer' = R!NewRequestTimer /\ recvQ' = <<>>
          /\ wire' = [c \in ConnIds |-> <<>>] /\ top' \in [Peers -> 0 .. MaxHeight]
          /\ handling' = NotHandling /\ trying' = NotTrying
      BY Zenon DEF Restart, NodeInv, RequestInv
    <2>3. StatusInv'
      BY <2>2 DEF StatusInv
    <2>4. TimerInv'
      BY <2>2 DEF TimerInv, TimersAreListed, R!NewRequestTimer, R!Exist
    <2>5. /\ wire' \in [ConnIds -> Seq(Heights)]
          /\ \A c \in ConnIds : wire'[c] = <<>> /\ \A i \in 1 .. Len(wire'[c]) : FALSE
      BY <2>2
    <2>6. recvQ' \in Seq(Msg) /\ \A i \in 1 .. Len(recvQ') : FALSE
      BY <2>2
    <2>7. /\ handling' \in [on : BOOLEAN, peer : Peers \cup {Nobody}, next : Nat, limit : Nat]
          /\ trying' \in [on : BOOLEAN, peer : Peers \cup {Nobody}, next : Nat, limit : Nat, base : Nat, q : Nat]
          /\ ~handling'.on /\ ~trying'.on
      BY <2>2 DEF NotHandling, NotTrying
    <2>8. RequestInv'
      BY <2>2, <2>5, <2>6, <2>7 DEF RequestInv
    <2> QED
      BY <2>3, <2>4, <2>8
  <1>7. ChainInv'
    <2>1. Hashes' = Hashes
      BY <1>1 DEF Hashes
    <2>2. /\ blockQ' = [h \in Heights |-> Nobody] /\ recvQ' = <<>> /\ connecting' = NotConnecting /\ panicked' = FALSE
      BY Zenon DEF Restart
    <2>3. chain' \in Seq(Hashes)' /\ blockQ' \in [Heights -> Hashes' \cup {Nobody}]
      BY <1>1, <2>1, <2>2 DEF NodeInv, ChainInv
    <2>4. \A i \in 1 .. Len(recvQ') : recvQ'[i].hash \in Hashes'
      BY <2>2
    <2>5. /\ connecting' \in [item : [height : Nat, hash : Branches] \cup {Nobody}, count : Nat]
          /\ connecting'.item = Nobody
      BY <2>2 DEF NotConnecting
    <2>6. PanicsOnlyOnFork'
      BY <2>2, Zenon DEF PanicsOnlyOnFork
    <2> QED
      BY <2>3, <2>4, <2>5, <2>6, Zenon DEF ChainInv
  <1> QED
    BY <1>5, <1>6, <1>7 DEF NodeInv

\* The invariant holds when the node starts.
LEMMA StartInv == NodeStart => NodeInv
  <1>0. SUFFICES ASSUME NEW connected \in Seq({Trunk}), NEW tops \in [Peers -> 0 .. MaxHeight],
                        NEW branches \in [Peers -> Branches \cup {Nobody}],
                        NEW met \in Seq(Peers), NEW bounds,
                        Len(met) <= MaxConns, \A i \in DOMAIN met : branches[met[i]] # Nobody,
                        NodeInit(connected, tops, branches, met, bounds)
                 PROVE  NodeInv
    BY DEF NodeStart
  <1>1. /\ conns = [c \in ConnIds |->
               IF c > Len(met) THEN NoConn ELSE [peer |-> met[c], side |-> "server", pc |-> "up", open |-> TRUE]]
        /\ clientPeerMap = [p \in Peers |-> Nobody]
        /\ serverPeerMap = [p \in Peers |-> IF p \in Range(met) THEN CHOOSE c \in DOMAIN met : met[c] = p ELSE Nobody]
        /\ statusMap = [p \in Peers |-> IF p \in Range(met) THEN 0 ELSE Nobody]
        /\ top = tops /\ branch = branches /\ chain = connected
    BY <1>0, Zenon DEF NodeInit
  <1>2. /\ wire = [c \in ConnIds |-> <<>>] /\ recvQ = <<>> /\ handling = NotHandling /\ trying = NotTrying
        /\ blockQ = [h \in Heights |-> Nobody] /\ connecting = NotConnecting /\ panicked = FALSE
        /\ requestTimer = R!NewRequestTimer
    BY <1>0, Zenon DEF NodeInit
  <1>3. /\ Len(met) \in Nat /\ Len(met) <= MaxConns /\ DOMAIN met = 1 .. Len(met)
        /\ \A i \in DOMAIN met : met[i] \in Peers
    BY <1>0
  <1>4. /\ \A c \in ConnIds : ~(c > Len(met)) => c \in DOMAIN met
        /\ DOMAIN met \subseteq ConnIds
        /\ \A c \in DOMAIN met : ~(c > Len(met))
    BY <1>3, NodeAssumption DEF ConnIds
  <1>5. NoConn \in Conn /\ NoConn.pc = "free"
    BY DEF NoConn, Conn, PCs
  <1>6. \A p \in Range(met) : \E c \in DOMAIN met : met[c] = p
    BY DEF Range
  <1>7. MeshInv
    <2>1. conns \in [ConnIds -> Conn]
      BY Zenon, <1>1, <1>3, <1>4, <1>5 DEF Conn, PCs
    <2>2. /\ serverPeerMap \in [Peers -> ConnIds \cup {Nobody}]
          /\ \A p \in Peers : serverPeerMap[p] # Nobody => serverPeerMap[p] \in DOMAIN met /\ met[serverPeerMap[p]] = p
      BY <1>1, <1>4, <1>6
    <2>3. \A c \in ConnIds : conns[c].pc # "free" => conns[c].peer \in Peers /\ branch[conns[c].peer] # Nobody
      BY Zenon, <1>0, <1>1, <1>3, <1>4, <1>5
    <2>4. \A c \in DOMAIN met : conns[c].peer = met[c] /\ conns[c].pc = "up"
      BY <1>1, <1>4
    <2>5. branch \in [Peers -> Branches \cup {Nobody}]
      BY Zenon, <1>0, <1>1
    <2>6. \A p \in Peers : serverPeerMap[p] # Nobody =>
             conns[serverPeerMap[p]].peer = p /\ conns[serverPeerMap[p]].pc # "free"
      BY <2>2, <2>4
    <2>7. clientPeerMap \in [Peers -> ConnIds \cup {Nobody}] /\ \A p \in Peers : clientPeerMap[p] = Nobody
      BY <1>1
    <2> QED
      BY <2>1, <2>2, <2>3, <2>5, <2>6, <2>7 DEF MeshInv
  <1>8. StatusInv
    <2>1. \A p \in Range(met) : \E c \in ConnIds : conns[c].peer = p /\ conns[c].pc = "up"
      BY Zenon, <1>1, <1>4, <1>6
    <2> QED
      BY Zenon, <1>1, <2>1 DEF StatusInv
  <1>9. TimerInv
    BY <1>2 DEF TimerInv, TimersAreListed, R!NewRequestTimer, R!Exist
  <1>10. RequestInv
    <2>1. /\ wire \in [ConnIds -> Seq(Heights)]
          /\ \A c \in ConnIds : wire[c] = <<>> /\ \A i \in 1 .. Len(wire[c]) : FALSE
      BY <1>2
    <2>2. recvQ \in Seq(Msg) /\ \A i \in 1 .. Len(recvQ) : FALSE
      BY <1>2
    <2>3. /\ handling \in [on : BOOLEAN, peer : Peers \cup {Nobody}, next : Nat, limit : Nat]
          /\ trying \in [on : BOOLEAN, peer : Peers \cup {Nobody}, next : Nat, limit : Nat, base : Nat, q : Nat]
          /\ ~handling.on /\ ~trying.on
      BY <1>2 DEF NotHandling, NotTrying
    <2>4. top \in [Peers -> 0 .. MaxHeight]
      BY Zenon, <1>0, <1>1
    <2>5. \A p \in Peers : top[p] >= 0 /\ top[p] \in Nat
      BY <2>4, NodeAssumption
    <2>6. \A p \in Peers : statusMap[p] # Nobody => statusMap[p] <= top[p]
      BY <1>1, <2>5
    <2> QED
      BY <2>1, <2>2, <2>3, <2>4, <2>6 DEF RequestInv
  <1>11. ChainInv
    <2>1. Trunk \in Hashes
      BY DEF Hashes
    <2>2. chain \in Seq(Hashes)
      BY Zenon, <1>0, <1>1, <2>1, SeqOfMore
    <2>3. /\ blockQ \in [Heights -> Hashes \cup {Nobody}]
          /\ connecting \in [item : [height : Nat, hash : Branches] \cup {Nobody}, count : Nat]
          /\ connecting.item = Nobody
      BY <1>2 DEF NotConnecting
    <2>4. \A i \in 1 .. Len(recvQ) : recvQ[i].hash \in Hashes
      BY <1>2
    <2> QED
      BY <1>2, <2>2, <2>3, <2>4 DEF ChainInv, PanicsOnlyOnFork
  <1> QED
    BY <1>7, <1>8, <1>9, <1>10, <1>11 DEF NodeInv

\* Every step keeps the invariant.
LEMMA StepInv == NodeInv /\ [NodeNext]_nodeAll => NodeInv'
  <1> SUFFICES ASSUME NodeInv, [NodeNext]_nodeAll PROVE NodeInv'
    OBVIOUS
  <1>1. CASE UNCHANGED nodeAll
    BY <1>1, MeshSame, StatusSame, TimerKept, RequestKept, ChainKept DEF nodeAll, nodeVars, NodeInv
  <1>2. CASE Running
    BY <1>2, RegisterStep, OnConnectedStep, OnDisconnectedStep, MeshStepStep, LoseStep, TellStep, AnswerStep,
       MeetStep, GrowStep, SendFailsStep, TryBeginStep, TrySendStep, TryNextStep, HandlerSendStep, RecvNextStep,
       TimerExpiresStep, BlockTimerStep, ConnectNextStep, ConnectFailsStep DEF Running, Requests
  <1> QED
    BY <1>1, <1>2, RestartStep DEF NodeNext

\* The four parts hold together of every node that starts and runs as NodeSpec says.
THEOREM NodeInvariant == NodeSpec => []NodeInv
  BY StartInv, StepInv, PTL DEF NodeSpec

\* OnDisconnected finds every timer of the peer: valueMap of RequestTimer lists it, whoever was asked before.
THEOREM TimersAlwaysListed == NodeSpec => []TimersAreListed
  <1>1. NodeInv => TimersAreListed
    BY DEF NodeInv, TimerInv
  <1> QED
    BY <1>1, NodeInvariant, PTL

\* statusMap names only peers with a connection that is up, and clientPeerMap only served connections.
THEOREM StatusAlwaysServed == NodeSpec => []StatusOfServed
  <1>1. NodeInv => StatusOfServed
    BY Zenon DEF NodeInv, MeshInv, StatusInv, StatusOfServed, Served
  <1> QED
    BY <1>1, NodeInvariant, PTL

\* No request for a block is ever on the way to a peer whose chain does not have the block.
THEOREM AsksOnlyWhatPeerHas == NodeSpec => []AsksWhatPeerHas
  <1>1. NodeInv => AsksWhatPeerHas
    <2>1. NodeInv => wire \in [ConnIds -> Seq(Heights)]
      BY Zenon DEF NodeInv, RequestInv
    <2>2. NodeInv => \A c \in ConnIds : DOMAIN wire[c] = 1 .. Len(wire[c])
      <3> SUFFICES ASSUME NodeInv, NEW c \in ConnIds PROVE DOMAIN wire[c] = 1 .. Len(wire[c])
        BY Zenon
      <3>1. wire[c] \in Seq(Heights)
        BY Zenon, <2>1
      <3> QED
        BY <3>1
    <2> QED
      BY Zenon, <2>2 DEF NodeInv, RequestInv, AsksWhatPeerHas
  <1> QED
    BY <1>1, NodeInvariant, PTL

\* The loop over blockQ hands ConnectBlock a block that it refuses only when some peer is on another branch.
THEOREM NeverPanicsUnforked == NodeSpec => []PanicsOnlyOnFork
  <1>1. NodeInv => PanicsOnlyOnFork
    BY DEF NodeInv, ChainInv
  <1> QED
    BY <1>1, NodeInvariant, PTL

=============================================================================
