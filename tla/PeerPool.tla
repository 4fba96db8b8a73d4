------------------------------ MODULE PeerPool ------------------------------
(***************************************************************************)
(* The pool of nodes that a NodeMesh keeps beside its connections:         *)
(* nodePoolManage with its nodeStore (the nodes it has heard of, in an     *)
(* array, a map and a database) and peerStorage (the connected ones worth  *)
(* keeping, in three groups by their ping).  rotatePeer goes through the   *)
(* array, dials the next node that is not connected and offers the         *)
(* connected ones on the way to the storage.                               *)
(*                                                                         *)
(* A ping is its class, the group it belongs to.  The score of a peer      *)
(* changes with the time since it was registered, so the comparisons of    *)
(* insert may come out either way.  The values of the nodeStore's map are  *)
(* left out: only GetPeerList reads them.                                  *)
(***************************************************************************)
EXTENDS Naturals, Sequences, FiniteSets, SequencesExt

CONSTANTS
    Hash,          \* the public hashes of nodes
    AddrOf,        \* [Hash -> addresses]
    Pings,         \* [Hash -> SUBSET Groups], the pings a node can have
    NoNode,        \* nil
    GroupLength,   \* groupLength (5 in the code)
    MaxStored,     \* bound: calls of Store by the mesh
    MaxLoads       \* bound: restarts

VARIABLES
    nodeA, nodeKeys, nodeDB,   \* nodeStore: a, the keys of m, db
    nodeRotateIndex,           \* counted from 0
    appending,                 \* rotatePeer is in the loop of appendPeerStorage
    peerGroup, peerMap,        \* peerStorage: the groups, the keys of the map
    inserting,                 \* the peer that insertSort has to place, and the groups left to try
    connected,                 \* the nodes GetPeer finds in the mesh
    missed,                    \* history: per entry, the calls of appendPeerStorage since it was looked at or last
    poolLeft                   \* what the bounds leave

nodeStore   == <<nodeA, nodeKeys, nodeDB>>
peerStorage == <<peerGroup, peerMap, inserting>>
poolVars    == <<nodeStore, nodeRotateIndex, appending, peerStorage, connected, missed, poolLeft>>

ASSUME PeerPoolAssumption ==
    /\ DOMAIN AddrOf = Hash
    /\ Pings \in [Hash -> SUBSET (1 .. 3)]
    /\ {GroupLength, MaxStored, MaxLoads} \subseteq Nat

ConnectInfo(h, ping) == [hash |-> h, ping |-> ping]
Groups       == 1 .. 3
NotInserting == [peer |-> NoNode, try |-> <<>>]
NoPeers      == [g \in Groups |-> [i \in 1 .. GroupLength |-> NoNode]]

-----------------------------------------------------------------------------
(* nodeStore. *)

\* unsafeStore.  The map points into the array as long as the array has one
\* element; append then copies it, and an update no longer reaches the array.
Stored(ns, key, ci) ==
    [a    |-> IF key \notin ns.keys THEN Append(ns.a, ci)
              ELSE IF Len(ns.a) = 1 THEN <<ci>> ELSE ns.a,
     keys |-> ns.keys \cup {key},
     db   |-> [k \in DOMAIN ns.db \cup {key} |-> IF k = key THEN ci ELSE ns.db[k]]]

LoadOrStore(ns, key, ci) == IF key \in ns.keys THEN ns ELSE Stored(ns, key, ci)

SetNodes(ns) == nodeA' = ns.a /\ nodeKeys' = ns.keys /\ nodeDB' = ns.db

Known == [a |-> nodeA, keys |-> nodeKeys, db |-> nodeDB]

\* newNodeStore: the values of the database, in any order, under their addresses.
Loaded(db, order) ==
    FoldLeft(LAMBDA ns, k : LoadOrStore(ns, AddrOf[db[k].hash], db[k]),
             [a |-> <<>>, keys |-> {}, db |-> db], order)

\* Store, called by NewNode after a handshake (with the ping measured) and by
\* AddPeerList for a node a peer has told of (with five seconds).
Store(h, ping) ==
    /\ poolLeft.stores > 0
    /\ SetNodes(Stored(Known, h, ConnectInfo(h, ping)))
    /\ missed' = [i \in 1 .. Len(nodeA') |-> IF i <= Len(nodeA) THEN missed[i] ELSE 0]
    /\ poolLeft' = [poolLeft EXCEPT !.stores = @ - 1]
    /\ UNCHANGED <<nodeRotateIndex, appending, peerStorage, connected>>

\* The mesh registers a connection with the node, or loses it.
MeshConnects(h) ==
    /\ h \in nodeKeys \ connected
    /\ connected' = connected \cup {h}
    /\ UNCHANGED <<nodeStore, nodeRotateIndex, appending, peerStorage, missed, poolLeft>>

MeshLoses(h) ==
    /\ h \in connected
    /\ connected' = connected \ {h}
    /\ UNCHANGED <<nodeStore, nodeRotateIndex, appending, peerStorage, missed, poolLeft>>

NewNodePoolManage ==
    /\ poolLeft.loads > 0
    /\ \E order \in SetToSeqs(DOMAIN nodeDB) : SetNodes(Loaded(nodeDB, order))
    /\ nodeRotateIndex' = 0 /\ appending' = FALSE
    /\ peerGroup' = NoPeers /\ peerMap' = {} /\ inserting' = NotInserting
    /\ connected' = {}
    /\ missed' = [i \in 1 .. Len(nodeA') |-> 0]
    /\ poolLeft' = [poolLeft EXCEPT !.loads = @ - 1]

-----------------------------------------------------------------------------
(* peerStorage. *)

\* insertSort begins with the group of the peer.
TryOrder(group) == CASE group = 1 -> <<1, 2, 3>> [] group = 2 -> <<2, 3, 1>> [] group = 3 -> <<3, 2, 1>>

Offered(ci) == [peer |-> ci, try |-> TryOrder(ci.ping)]

\* sort.Search: the condition holds of nil, and of the place before the result it does not hold.
Search(nl) == {i \in 0 .. GroupLength : i = 0 \/ nl[i] # NoNode}

\* Mutant: the peer that falls out stays in the map.
PlaceKeeps(g, i) ==
    LET nl == peerGroup[g]
        deleteEl == nl[GroupLength]
    IN  /\ peerGroup' = [peerGroup EXCEPT ![g] = [j \in 1 .. GroupLength |->
              IF j <= i THEN nl[j] ELSE IF j = i + 1 THEN inserting.peer ELSE nl[j - 1]]]
        /\ peerMap' = peerMap \cup {inserting.peer.hash}
        /\ inserting' = IF deleteEl = NoNode THEN NotInserting ELSE Offered(deleteEl)

\* The peer takes place i of the group; the one that falls out is placed anew.
Place(g, i) ==
    LET nl == peerGroup[g]
        deleteEl == nl[GroupLength]
    IN  /\ peerGroup' = [peerGroup EXCEPT ![g] = [j \in 1 .. GroupLength |->
              IF j <= i THEN nl[j] ELSE IF j = i + 1 THEN inserting.peer ELSE nl[j - 1]]]
        /\ peerMap' = (peerMap \cup {inserting.peer.hash}) \ (IF deleteEl = NoNode THEN {} ELSE {deleteEl.hash})
        /\ inserting' = IF deleteEl = NoNode THEN NotInserting ELSE Offered(deleteEl)

\* insert: the next group that insertSort tries takes the peer or not.
Insert ==
    /\ inserting.peer # NoNode
    /\ LET g == Head(inserting.try)
       IN \E i \in Search(peerGroup[g]) :
             IF i < GroupLength THEN Place(g, i)
             ELSE /\ inserting' = IF Len(inserting.try) = 1 THEN NotInserting
                                  ELSE [inserting EXCEPT !.try = Tail(@)]
                  /\ UNCHANGED <<peerGroup, peerMap>>
    /\ UNCHANGED <<nodeStore, nodeRotateIndex, appending, connected, missed, poolLeft>>

\* updatePingtime sorts the peer's own group by ping, nil first.
PingOf(p) == IF p = NoNode THEN 0 ELSE p.ping
SortsTo(nl, sorted) ==
    /\ \A p \in Range(nl) : Cardinality({i \in DOMAIN nl : nl[i] = p}) = Cardinality({i \in DOMAIN nl : sorted[i] = p})
    /\ \A i \in 1 .. GroupLength - 1 : PingOf(sorted[i]) <= PingOf(sorted[i + 1])

updatePingtime(h) ==
    LET g == (CHOOSE p \in UNION {Range(peerGroup[k]) : k \in Groups} : p # NoNode /\ p.hash = h).ping
    IN \E sorted \in [1 .. GroupLength -> Range(peerGroup[g])] :
          /\ SortsTo(peerGroup[g], sorted)
          /\ peerGroup' = [peerGroup EXCEPT ![g] = sorted]

-----------------------------------------------------------------------------
(* rotatePeer. *)

RotateBegin ==
    /\ ~appending
    /\ appending' = TRUE
    /\ UNCHANGED <<nodeStore, nodeRotateIndex, peerStorage, connected, missed, poolLeft>>

\* Mutant: the index is set back only when it is past the length.
SetBackLate(index) == IF index > Len(nodeA) THEN 0 ELSE index

SetBack(index) == IF index + 1 >= Len(nodeA) THEN 0 ELSE index

\* appendPeerStorage returns with the index; the entry it has looked at last is looked.
RotateEnds(index, looked) ==
    /\ nodeRotateIndex' = SetBack(index)
    /\ appending' = FALSE
    /\ missed' = [i \in DOMAIN missed |-> IF i \in looked \cup {Len(nodeA)} THEN 0 ELSE missed[i] + 1]

\* The entry the index is at.
Entry == nodeA[nodeRotateIndex + 1]
Looks == appending /\ inserting.peer = NoNode /\ nodeRotateIndex < Len(nodeA)

LooksOn ==
    /\ nodeRotateIndex' = nodeRotateIndex + 1
    /\ missed' = [missed EXCEPT ![nodeRotateIndex + 1] = 0]
    /\ UNCHANGED <<nodeStore, appending, connected, poolLeft>>

\* A connected node is added to the storage; Have, asked for its address, does not know it.
AddConnected ==
    /\ Looks /\ Entry.hash \in connected \ peerMap
    /\ inserting' = Offered(Entry)
    /\ LooksOn
    /\ UNCHANGED <<peerGroup, peerMap>>

AddAgain ==
    /\ Looks /\ Entry.hash \in connected \cap peerMap
    /\ updatePingtime(Entry.hash)
    /\ LooksOn
    /\ UNCHANGED <<peerMap, inserting>>

\* RequestConnect, and the loop breaks.
DialEntry ==
    /\ Looks /\ Entry.hash \notin connected
    /\ RotateEnds(nodeRotateIndex + 1, {nodeRotateIndex + 1})
    /\ UNCHANGED <<nodeStore, peerStorage, connected, poolLeft>>

LoopEnds ==
    /\ appending /\ inserting.peer = NoNode /\ nodeRotateIndex >= Len(nodeA)
    /\ RotateEnds(nodeRotateIndex, {})
    /\ UNCHANGED <<nodeStore, peerStorage, connected, poolLeft>>

PeerPoolInit ==
    /\ nodeA = <<>> /\ nodeKeys = {} /\ nodeDB = <<>>
    /\ nodeRotateIndex = 0 /\ appending = FALSE
    /\ peerGroup = NoPeers /\ peerMap = {} /\ inserting = NotInserting
    /\ connected = {} /\ missed = <<>>
    /\ poolLeft = [stores |-> MaxStored, loads |-> MaxLoads]

PeerPoolNext ==
    \/ \E h \in Hash : \/ \E ping \in Pings[h] : Store(h, ping)
                       \/ MeshConnects(h) \/ MeshLoses(h)
    \/ NewNodePoolManage
    \/ Insert \/ RotateBegin \/ AddConnected \/ AddAgain \/ DialEntry \/ LoopEnds

-----------------------------------------------------------------------------
(* Properties. *)

\* The map of the storage has exactly the peers of the three groups, and a peer
\* is in one place: also while peers that fell out of a group are placed in
\* another one, and after updatePingtime has moved the empty places to the front.
PeerMapIsGroups ==
    LET places == {<<g, i>> \in Groups \X (1 .. GroupLength) : peerGroup[g][i] # NoNode}
        at(x) == peerGroup[x[1]][x[2]].hash
    IN  /\ peerMap = {at(x) : x \in places}
        /\ \A x, y \in places : at(x) = at(y) => x = y

\* However nodes are stored meanwhile, rotatePeer looks at every entry of the
\* array within as many calls as the array has entries, except at the last one:
\* the index is set back before it when the entry before it was dialled.
RotationReaches == \A i \in DOMAIN missed : missed[i] <= Len(nodeA)
=============================================================================
