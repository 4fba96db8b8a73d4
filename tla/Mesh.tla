-------------------------------- MODULE Mesh --------------------------------
(***************************************************************************)
(* NodeMesh: the connections of one node with its peers.  A connection is  *)
(* dialled (client) or accepted (server); the goroutine that serves it     *)
(* registers it in the map of its side, announces it (OnConnected), reads  *)
(* until the connection is closed, announces that (OnDisconnected) and     *)
(* unregisters the peer.  What is registered under the identity of a peer  *)
(* need not be the connection of the goroutine that unregisters it.        *)
(***************************************************************************)
EXTENDS Naturals

CONSTANTS Peers,      \* the other nodes
          MaxConns,   \* bound: connections, of all peers together
          Nobody      \* no connection, no peer

VARIABLES
    conns,            \* the connections and the place of their goroutines
    clientPeerMap,    \* the dialled connection of a peer
    serverPeerMap     \* the accepted connection of a peer

meshVars == <<conns, clientPeerMap, serverPeerMap>>

ConnIds == 1 .. MaxConns
NoConn  == [peer |-> Nobody, side |-> "client", pc |-> "free", open |-> FALSE]

Fresh == {c \in ConnIds : conns[c].pc = "free" /\ \A d \in 1 .. c - 1 : conns[d].pc # "free"}

Close(cs, c) == IF c = Nobody THEN cs ELSE [cs EXCEPT ![c].open = FALSE]
At(cs, c, pc) == [cs EXCEPT ![c].pc = pc]

\* GetPeer, and the choice of SendTo and SendRawTo.
GetPeer(p) == IF clientPeerMap[p] # Nobody THEN clientPeerMap[p] ELSE serverPeerMap[p]

\* The loop of Run for a seed, and RequestConnect.
Dial(p) ==
    /\ GetPeer(p) = Nobody
    /\ \E c \in Fresh : conns' = [conns EXCEPT ![c] = [peer |-> p, side |-> "client", pc |-> "handshake", open |-> TRUE]]
    /\ UNCHANGED <<clientPeerMap, serverPeerMap>>

Accept(p) ==
    /\ \E c \in Fresh : conns' = [conns EXCEPT ![c] = [peer |-> p, side |-> "server", pc |-> "handshake", open |-> TRUE]]
    /\ UNCHANGED <<clientPeerMap, serverPeerMap>>

\* Another chain, a clock that is off, another key than the expected one.
HandshakeFails(c) ==
    /\ conns[c].pc = "handshake"
    /\ conns' = At(Close(conns, c), c, "done")
    /\ UNCHANGED <<clientPeerMap, serverPeerMap>>

RegisterClient(c) ==
    LET p == conns[c].peer
    IN  /\ conns[c].pc = "handshake" /\ conns[c].side = "client"
        /\ clientPeerMap' = [clientPeerMap EXCEPT ![p] = c]
        /\ conns' = At(conns, c, IF clientPeerMap[p] # Nobody THEN "evict" ELSE "registered")
        /\ UNCHANGED serverPeerMap

RegisterServer(c) ==
    LET p == conns[c].peer
    IN  /\ conns[c].pc = "handshake" /\ conns[c].side = "server"
        /\ serverPeerMap' = [serverPeerMap EXCEPT ![p] = c]
        /\ conns' = At(conns, c, IF serverPeerMap[p] # Nobody THEN "evict" ELSE "registered")
        /\ UNCHANGED clientPeerMap

\* removePeerInMap, whichever map it is given, takes the peer out of clientPeerMap.
removePeerInMap(p, cs) ==
    /\ clientPeerMap' = [clientPeerMap EXCEPT ![p] = Nobody]
    /\ conns' = Close(cs, clientPeerMap[p])
    /\ UNCHANGED serverPeerMap

\* There was a connection under the identity of the peer.
Evict(c) ==
    /\ conns[c].pc = "evict"
    /\ removePeerInMap(conns[c].peer, At(conns, c, "registered"))

\* handleConnection: up to OnConnected, and from OnDisconnected on.
Connected(c) ==
    /\ conns[c].pc = "registered"
    /\ conns' = At(conns, c, "up")
    /\ UNCHANGED <<clientPeerMap, serverPeerMap>>

Disconnected(c) ==
    /\ conns[c].pc = "up" /\ ~conns[c].open
    /\ conns' = At(conns, c, "down")
    /\ UNCHANGED <<clientPeerMap, serverPeerMap>>

Unregister(c) ==
    /\ conns[c].pc = "down"
    /\ removePeerInMap(conns[c].peer, At(conns, c, "done"))

\* The peer or the network closes the connection, or three pings are not answered.
Lost(c) ==
    /\ conns[c].open /\ conns[c].pc \notin {"free", "done"}
    /\ conns' = Close(conns, c)
    /\ UNCHANGED <<clientPeerMap, serverPeerMap>>

RemovePeer(p) ==
    /\ clientPeerMap' = [clientPeerMap EXCEPT ![p] = Nobody]
    /\ serverPeerMap' = [serverPeerMap EXCEPT ![p] = Nobody]
    /\ conns' = Close(Close(conns, clientPeerMap[p]), serverPeerMap[p])

Reading(c) == conns[c].pc = "up" /\ conns[c].open

=============================================================================
