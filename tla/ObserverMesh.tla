---------------------------- MODULE ObserverMesh ----------------------------
(***************************************************************************)
(* ObserverNodeMesh: the connections of an observer with the others.  As   *)
(* in NodeMesh (Mesh) the goroutine of a connection takes the peer out of  *)
(* clientPeerMap whatever map it is in; otherwise than there it does so    *)
(* before it registers the connection, with the lock released in between.  *)
(* Nothing takes a peer out of serverPeerMap but an error of SendTo.       *)
(***************************************************************************)
EXTENDS Mesh

\* client and server: the connection that the peer has, and then the map.
ObEvict(c) ==
    /\ conns[c].pc = "handshake"
    /\ removePeerInMap(conns[c].peer, At(conns, c, "evict"))

ObRegisterClient(c) ==
    /\ conns[c].pc = "evict" /\ conns[c].side = "client"
    /\ clientPeerMap' = [clientPeerMap EXCEPT ![conns[c].peer] = c]
    /\ conns' = At(conns, c, "up")
    /\ UNCHANGED serverPeerMap

ObRegisterServer(c) ==
    /\ conns[c].pc = "evict" /\ conns[c].side = "server"
    /\ serverPeerMap' = [serverPeerMap EXCEPT ![conns[c].peer] = c]
    /\ conns' = At(conns, c, "up")
    /\ UNCHANGED clientPeerMap

\* handleConnection returns, and the deferred removePeerInMap.
ObEnds(c) ==
    /\ conns[c].pc = "up" /\ ~conns[c].open
    /\ removePeerInMap(conns[c].peer, At(conns, c, "done"))

\* SendTo and SendRawTo: an error removes both connections of the peer.  BroadcastMessage ignores errors.
ObSendFails(p) ==
    /\ GetPeer(p) # Nobody /\ ~conns[GetPeer(p)].open
    /\ RemovePeer(p)

ObMeshStep ==
    \/ \E c \in ConnIds : HandshakeFails(c) \/ ObEvict(c) \/ ObRegisterClient(c) \/ ObRegisterServer(c) \/ ObEnds(c)
    \/ \E p \in Peers : ObSendFails(p)

=============================================================================
