-------------------------------- MODULE Node --------------------------------
(***************************************************************************)
(* How a node that is behind gets the blocks of its peers: the handler of  *)
(* their messages, tryRequestBlocks, the request timers, the queue of      *)
(* blocks and the loop that connects them, each a goroutine of its own,    *)
(* over connections that come and go (Mesh).                               *)
(*                                                                         *)
(* The peers are other nodes; of each one the model has the height of its  *)
(* chain and its branch.  A block is its height and its branch: branches   *)
(* agree below ForkHeight, and both carry the signatures of observers.     *)
(***************************************************************************)
EXTENDS Mesh, Sequences, FiniteSets, FiniteSetsExt

CONSTANTS MaxHeight,     \* bound: the height of the chains
          Window,        \* blocks of one step of tryRequestBlocks (10)
          Windows,       \* steps of tryRequestBlocks (3)
          MaxConnects,   \* blocks that one turn of the loop connects (11)
          ForkHeight,    \* the first height at which the branches differ
          Branches,      \* the branches
          Trunk          \* the branch below ForkHeight, and of the observers

ASSUME NodeAssumption ==
    /\ MaxConns \in Nat /\ MaxHeight \in Nat /\ ForkHeight \in Nat
    /\ Window \in Nat /\ Windows \in Nat /\ MaxConnects \in Nat
    /\ Trunk \in Branches
    /\ Nobody \notin Nat /\ Nobody \notin Peers /\ Nobody \notin Branches

Heights == 1 .. MaxHeight

R == INSTANCE RequestTimer WITH Heights <- Heights, Values <- Peers, NoValue <- Nobody

VARIABLES
    chain,         \* the branch of each connected block
    blockQ,        \* blocks that wait for the ones before them
    statusMap,     \* the height that a peer has told, of connected peers
    requestTimer,
    recvQ,         \* recvQueues[0]
    wire,          \* requests on the way to the peer of a connection, or in its queues
    told,          \* the last status of a connection
    top, branch,   \* the chains of the peers; no branch: the peer does not run
    handling,      \* the loop of the handler over the heights of a status
    trying,        \* tryRequestBlocks
    connecting,    \* the loop over blockQ
    panicked,      \* the process has ended
    budget,        \* bounds: new connections, connections that the network closes, timers that expire
                   \* before the answer, and blocks that the chains of the peers grow by
    overlap        \* history: a peer has had two connections at a time

nodeVars == <<chain, blockQ, statusMap, requestTimer, recvQ, wire, told, top, branch,
              handling, trying, connecting, panicked, budget, overlap>>

Height == Len(chain)
Hash(b, h) == IF h < ForkHeight THEN Trunk ELSE b

Status(p, h)   == [type |-> "status", from |-> p, height |-> h, hash |-> Hash(branch[p], h)]
Block(p, h)    == [type |-> "block", from |-> p, height |-> h, hash |-> Hash(branch[p], h)]

NotHandling   == [on |-> FALSE, peer |-> Nobody, next |-> 1, limit |-> 0]
NotTrying     == [on |-> FALSE, peer |-> Nobody, next |-> 1, limit |-> 0, base |-> 0, q |-> 0]
NotConnecting == [item |-> Nobody, count |-> 0]

\* A node that starts with some blocks, or that has already met some peers: their statuses are on the way.
NodeInit(connected, tops, branches, met, bounds) ==
    /\ conns = [c \in ConnIds |->
          IF c > Len(met) THEN NoConn ELSE [peer |-> met[c], side |-> "server", pc |-> "up", open |-> TRUE]]
    /\ clientPeerMap = [p \in Peers |-> Nobody]
    /\ serverPeerMap = [p \in Peers |-> IF p \in Range(met) THEN CHOOSE c \in DOMAIN met : met[c] = p ELSE Nobody]
    /\ statusMap = [p \in Peers |-> IF p \in Range(met) THEN 0 ELSE Nobody]
    /\ chain = connected
    /\ blockQ = [h \in Heights |-> Nobody]
    /\ requestTimer = R!NewRequestTimer
    /\ recvQ = <<>>
    /\ wire = [c \in ConnIds |-> <<>>] /\ told = [c \in ConnIds |-> Nobody]
    /\ handling = NotHandling /\ trying = NotTrying /\ connecting = NotConnecting
    /\ top = tops /\ branch = branches
    /\ panicked = FALSE /\ budget = bounds /\ overlap = FALSE

\* The chain of the node is on the branch of the observers; it has met peers that run, each once.
NodeStart ==
    \E connected \in Seq({Trunk}), tops \in [Peers -> 0 .. MaxHeight], branches \in [Peers -> Branches \cup {Nobody}],
       met \in Seq(Peers), bounds \in [dials : Nat, losses : Nat, early : Nat, growth : Nat] :
        /\ Len(connected) <= MaxHeight
        /\ Len(met) <= MaxConns /\ IsInjective(met)
        /\ \A i \in DOMAIN met : branches[met[i]] # Nobody
        /\ NodeInit(connected, tops, branches, met, bounds)

-----------------------------------------------------------------------------
(* Connections.                                                            *)

\* The goroutine of another connection of the peer has registered it and has not ended.
Served(c) == conns[c].pc \notin {"free", "handshake", "done"}
Overlaps(c) == \E d \in ConnIds \ {c} : conns[d].peer = conns[c].peer /\ Served(d)

Register(c) ==
    /\ RegisterClient(c) \/ RegisterServer(c)
    /\ overlap' = (overlap \/ Overlaps(c))
    /\ UNCHANGED <<chain, blockQ, statusMap, requestTimer, recvQ, wire, told, top, branch,
                   handling, trying, connecting, panicked, budget>>

OnConnected(c) ==
    LET p == conns[c].peer
    IN  /\ Connected(c)
        /\ statusMap' = [statusMap EXCEPT ![p] = 0]
        /\ UNCHANGED <<chain, blockQ, requestTimer, recvQ, wire, told, top, branch,
                       handling, trying, connecting, panicked, budget, overlap>>

OnDisconnectedKeeps(c) ==
    LET p == conns[c].peer
    IN  /\ Disconnected(c)
        /\ requestTimer' = R!RemovesByValue(requestTimer, p)
        /\ wire' = [wire EXCEPT ![c] = <<>>]
        /\ UNCHANGED <<chain, blockQ, statusMap, recvQ, told, top, branch,
                       handling, trying, connecting, panicked, budget, overlap>>

\* Ends with a call of tryRequestBlocks in a goroutine of its own: TryBegin.
OnDisconnected(c) ==
    LET p == conns[c].peer
    IN  /\ Disconnected(c)
        /\ statusMap' = [statusMap EXCEPT ![p] = Nobody]
        /\ requestTimer' = R!RemovesByValue(requestTimer, p)
        /\ wire' = [wire EXCEPT ![c] = <<>>]
        /\ UNCHANGED <<chain, blockQ, recvQ, told, top, branch,
                       handling, trying, connecting, panicked, budget, overlap>>

Lose(c) ==
    /\ budget.losses > 0
    /\ Lost(c)
    /\ budget' = [budget EXCEPT !.losses = @ - 1]
    /\ UNCHANGED <<chain, blockQ, statusMap, requestTimer, recvQ, wire, told, top, branch,
                   handling, trying, connecting, panicked, overlap>>

\* A seed is dialled again while it is not connected; any peer may dial this node.
Meet(p) ==
    /\ budget.dials > 0 /\ branch[p] # Nobody
    /\ Dial(p) \/ Accept(p)
    /\ budget' = [budget EXCEPT !.dials = @ - 1]
    /\ UNCHANGED <<chain, blockQ, statusMap, requestTimer, recvQ, wire, told, top, branch,
                   handling, trying, connecting, panicked, overlap>>

\* The steps of the mesh that the node does not see.
MeshStep(c) ==
    /\ HandshakeFails(c) \/ Evict(c) \/ Unregister(c)
    /\ UNCHANGED nodeVars

-----------------------------------------------------------------------------
(* The peers (other nodes).                                                *)

Grow(p) ==
    /\ budget.growth > 0 /\ branch[p] # Nobody /\ top[p] < MaxHeight
    /\ budget' = [budget EXCEPT !.growth = @ - 1]
    /\ top' = [top EXCEPT ![p] = @ + 1]
    /\ UNCHANGED meshVars
    /\ UNCHANGED <<chain, blockQ, statusMap, requestTimer, recvQ, wire, told, branch,
                   handling, trying, connecting, panicked, overlap>>

\* The status that a peer sends when it is connected and when its chain grows; OnRecv.
Tell(c) ==
    LET p == conns[c].peer
    IN  /\ Reading(c) /\ told[c] # top[p]
        /\ told' = [told EXCEPT ![c] = top[p]]
        /\ recvQ' = Append(recvQ, Status(p, top[p]))
        /\ UNCHANGED meshVars
        /\ UNCHANGED <<chain, blockQ, statusMap, requestTimer, wire, top, branch,
                       handling, trying, connecting, panicked, budget, overlap>>

\* The handler of a RequestMessage: a block that the peer does not have is not answered.
Answered(p, h) == IF h > top[p] THEN <<>> ELSE <<Block(p, h)>>

Answer(c) ==
    LET p == conns[c].peer
    IN  /\ Reading(c) /\ wire[c] # <<>>
        /\ wire' = [wire EXCEPT ![c] = Tail(@)]
        /\ recvQ' = recvQ \o Answered(p, Head(wire[c]))
        /\ UNCHANGED meshVars
        /\ UNCHANGED <<chain, blockQ, statusMap, requestTimer, told, top, branch,
                       handling, trying, connecting, panicked, budget, overlap>>

-----------------------------------------------------------------------------
(* The goroutine that sends.  A message that waits for it is on the wire.  *)

Broken(p) == GetPeer(p) # Nobody /\ ~conns[GetPeer(p)].open

\* SendTo: an error of Send removes the peer; a write can also vanish with its connection.
SendTo(p, h) ==
    LET c == GetPeer(p)
    IN  \/ /\ c # Nobody /\ conns[c].open
           /\ wire' = [wire EXCEPT ![c] = Append(@, h)]
           /\ UNCHANGED meshVars
        \/ /\ Broken(p)
           /\ RemovePeer(p)
           /\ UNCHANGED wire
        \/ /\ c # Nobody => ~conns[c].open
           /\ UNCHANGED wire /\ UNCHANGED meshVars

\* The other messages: statuses, transactions and lists of peers.
SendFails(p) ==
    /\ Broken(p)
    /\ RemovePeer(p)
    /\ UNCHANGED nodeVars

-----------------------------------------------------------------------------
(* Requests.                                                               *)

\* The heights of a loop that are neither asked for nor queued.
Needed(loop, timer) == {h \in loop.next .. loop.limit : ~R!Exist(timer, h) /\ blockQ[h] = Nobody}

sendRequestBlockTo(p, h) ==
    /\ SendTo(p, h)
    /\ requestTimer' = R!Add(requestTimer, h, p)

\* The peer that a step of tryRequestBlocks asks: any, in the order of the map.
HaveWindow(base) == {p \in Peers : statusMap[p] # Nobody /\ base + Window <= statusMap[p]}
HaveBase(base)   == {p \in Peers : statusMap[p] # Nobody /\ base <= statusMap[p]}
Selected(base) == IF HaveWindow(base) # {} THEN HaveWindow(base) ELSE HaveBase(base)

SelectWindow(base, q) ==
    IF q = Windows \/ Selected(base) = {} THEN {NotTrying}
    ELSE {[on |-> TRUE, peer |-> p, next |-> base + 1, limit |-> Min({base + Window, MaxHeight}),
           base |-> base, q |-> q] : p \in Selected(base)}

Select(base, q) ==
    IF q = Windows \/ Selected(base) = {} THEN {NotTrying}
    ELSE {[on |-> TRUE, peer |-> p, next |-> base + 1, limit |-> Min({base + Window, statusMap[p]}),
           base |-> base, q |-> q] : p \in Selected(base)}

Requesting == <<chain, blockQ, statusMap, recvQ, told, top, branch, connecting, panicked, budget, overlap>>

\* A call of tryRequestBlocks: of the loop, of a timer or of OnDisconnected.  requestLock admits one at a time.
TryBegin ==
    /\ ~trying.on
    /\ trying' \in Select(Height, 0)
    /\ UNCHANGED meshVars /\ UNCHANGED Requesting /\ UNCHANGED <<wire, requestTimer, handling>>

TrySend ==
    /\ trying.on /\ Needed(trying, requestTimer) # {}
    /\ LET h == Min(Needed(trying, requestTimer))
       IN  /\ sendRequestBlockTo(trying.peer, h)
           /\ trying' = [trying EXCEPT !.next = h + 1]
    /\ UNCHANGED Requesting /\ UNCHANGED handling

TryNext ==
    /\ trying.on /\ Needed(trying, requestTimer) = {}
    /\ trying' \in Select(trying.base + Window, trying.q + 1)
    /\ UNCHANGED meshVars /\ UNCHANGED Requesting /\ UNCHANGED <<wire, requestTimer, handling>>

\* The handler has found a height that it will ask for; by then another goroutine may have asked.
Find(loop, timer) ==
    IF Needed(loop, timer) = {} THEN NotHandling ELSE [loop EXCEPT !.on = TRUE, !.next = Min(Needed(loop, timer))]

HandlerSend ==
    /\ handling.on
    /\ sendRequestBlockTo(handling.peer, handling.next)
    /\ handling' = Find([handling EXCEPT !.next = @ + 1], requestTimer')
    /\ UNCHANGED Requesting /\ UNCHANGED trying

\* A request that no connection carries any more, or one whose answer is late.
InFlight(h) ==
    \/ \E c \in ConnIds : conns[c].open /\ h \in Range(wire[c])
    \/ \E i \in DOMAIN recvQ : recvQ[i].type = "block" /\ recvQ[i].height = h

\* OnTimerExpired calls tryRequestBlocks: TryBegin.
TimerExpires(h) ==
    /\ R!Exist(requestTimer, h)
    /\ InFlight(h) => budget.early > 0
    /\ budget' = IF InFlight(h) THEN [budget EXCEPT !.early = @ - 1] ELSE budget
    /\ requestTimer' = R!Expired(requestTimer, h)
    /\ UNCHANGED meshVars
    /\ UNCHANGED <<chain, blockQ, statusMap, recvQ, wire, told, top, branch,
                   handling, trying, connecting, panicked, overlap>>

-----------------------------------------------------------------------------
(* handlePeerMessage.                                                      *)

RaiseToLower(p, h) == IF statusMap[p] # Nobody /\ statusMap[p] > h THEN [statusMap EXCEPT ![p] = h] ELSE statusMap

Raise(p, h) == IF statusMap[p] # Nobody /\ statusMap[p] < h THEN [statusMap EXCEPT ![p] = h] ELSE statusMap

Handled == <<chain, wire, told, top, branch, trying, connecting, budget, overlap, requestTimer>>

HandleStatus(m) ==
    /\ m.type = "status"
    /\ statusMap' = Raise(m.from, m.height)
    /\ IF Height < m.height
       THEN /\ handling' = Find([on |-> FALSE, peer |-> m.from, next |-> Height + 1,
                                 limit |-> Min({Height + Windows * Window, m.height})], requestTimer)
            /\ UNCHANGED meshVars
       ELSE /\ IF m.height > 0 /\ chain[m.height] # m.hash THEN RemovePeer(m.from) ELSE UNCHANGED meshVars
            /\ UNCHANGED handling
    /\ UNCHANGED <<blockQ, panicked>>

\* addBlock: the block differs from the one that is connected or queued.
Differs(m) == IF m.height <= Height THEN chain[m.height] # m.hash ELSE blockQ[m.height] \notin {Nobody, m.hash}

HandleBlock(m) ==
    /\ m.type = "block" /\ ~Differs(m)
    /\ blockQ' = IF m.height <= Height THEN blockQ ELSE [blockQ EXCEPT ![m.height] = m.hash]
    /\ statusMap' = Raise(m.from, m.height)
    /\ UNCHANGED meshVars /\ UNCHANGED <<handling, panicked>>

HandleForkedBlock(m) ==
    /\ m.type = "block" /\ Differs(m)
    /\ RemovePeer(m.from)
    /\ UNCHANGED <<blockQ, statusMap, handling, panicked>>

RecvNext ==
    /\ recvQ # <<>> /\ ~handling.on
    /\ recvQ' = Tail(recvQ)
    /\ HandleStatus(Head(recvQ)) \/ HandleBlock(Head(recvQ)) \/ HandleForkedBlock(Head(recvQ))
    /\ UNCHANGED Handled

-----------------------------------------------------------------------------
(* The loop that connects blocks.                                          *)

Looping == <<statusMap, requestTimer, recvQ, wire, told, top, branch, handling, trying, budget, overlap>>

\* PopUntil drops what is below the height, and takes the item of the height if there is one.
After(q, h) == [i \in Heights |-> IF i <= h THEN Nobody ELSE q[i]]

Item(q, h) == [height |-> h, hash |-> q[h]]

ItemFirst(q, h) == LET queued == {i \in Heights : q[i] # Nobody} IN IF queued = {} THEN Nobody ELSE Item(q, Min(queued))

ItemAt(q, h) == IF h > MaxHeight \/ q[h] = Nobody THEN Nobody ELSE Item(q, h)

PopUntil(target) == blockQ' = IF ItemAt(blockQ, target) = Nobody THEN After(blockQ, target - 1) ELSE After(blockQ, target)

BlockTimer ==
    /\ connecting.item = Nobody
    /\ \E h \in Heights : blockQ[h] # Nobody /\ h <= Height + 1
    /\ PopUntil(Height + 1)
    /\ connecting' = [item |-> ItemAt(blockQ, Height + 1), count |-> 0]
    /\ UNCHANGED meshVars /\ UNCHANGED Looping /\ UNCHANGED <<chain, panicked>>

\* ConnectBlock accepts the block: its height is the next, and its PrevHash the hash of the last one.
Follows(item) == item.height = Height + 1 /\ (Height > 0 => Hash(item.hash, Height) = chain[Height])

\* At the end of the loop the status is broadcast and tryRequestBlocks called: TryBegin.
ConnectNext ==
    /\ connecting.item # Nobody /\ Follows(connecting.item)
    /\ chain' = Append(chain, connecting.item.hash)
    /\ IF connecting.count + 1 >= MaxConnects
       THEN connecting' = NotConnecting /\ UNCHANGED blockQ
       ELSE /\ PopUntil(Height + 2)
            /\ connecting' = [item |-> ItemAt(blockQ, Height + 2), count |-> connecting.count + 1]
    /\ UNCHANGED meshVars /\ UNCHANGED Looping /\ UNCHANGED panicked

ConnectFails ==
    /\ connecting.item # Nobody /\ ~Follows(connecting.item)
    /\ panicked' = TRUE
    /\ connecting' = NotConnecting
    /\ UNCHANGED meshVars /\ UNCHANGED Looping /\ UNCHANGED <<chain, blockQ>>

\* A new process: the chain is what remains.
Restart ==
    /\ panicked
    /\ panicked' = FALSE
    /\ conns' = [c \in ConnIds |-> IF conns[c].pc = "free" THEN NoConn ELSE At(Close(conns, c), c, "done")[c]]
    /\ clientPeerMap' = [p \in Peers |-> Nobody] /\ serverPeerMap' = [p \in Peers |-> Nobody]
    /\ blockQ' = [h \in Heights |-> Nobody]
    /\ statusMap' = [p \in Peers |-> Nobody]
    /\ requestTimer' = R!NewRequestTimer
    /\ recvQ' = <<>>
    /\ wire' = [c \in ConnIds |-> <<>>] /\ told' = [c \in ConnIds |-> Nobody]
    /\ handling' = NotHandling /\ trying' = NotTrying /\ connecting' = NotConnecting
    /\ UNCHANGED <<chain, top, branch, budget, overlap>>

-----------------------------------------------------------------------------

Requests == TrySend \/ TryNext \/ HandlerSend

Running ==
    \/ \E c \in ConnIds : Register(c) \/ OnConnected(c) \/ OnDisconnected(c) \/ MeshStep(c) \/ Lose(c) \/ Tell(c) \/ Answer(c)
    \/ \E p \in Peers : Meet(p) \/ Grow(p) \/ SendFails(p)
    \/ TryBegin \/ Requests \/ RecvNext
    \/ \E h \in Heights : TimerExpires(h)
    \/ BlockTimer \/ ConnectNext \/ ConnectFails

NodeNext == (~panicked /\ Running) \/ Restart

nodeAll == <<meshVars, nodeVars>>

NodeSpec == NodeStart /\ [][NodeNext]_nodeAll

\* Every goroutine goes on, timers expire and peers answer.  Nothing makes a peer connect or stay.
NodeFairness ==
    /\ \A c \in ConnIds : /\ WF_nodeAll(Register(c) \/ OnConnected(c) \/ OnDisconnected(c) \/ MeshStep(c))
                          /\ WF_nodeAll(Tell(c)) /\ WF_nodeAll(Answer(c))
    /\ WF_nodeAll(RecvNext \/ HandlerSend)
    /\ WF_nodeAll(TryBegin \/ TrySend \/ TryNext)
    /\ WF_nodeAll(BlockTimer \/ ConnectNext)
    /\ \A h \in Heights : WF_nodeAll(TimerExpires(h))

-----------------------------------------------------------------------------
(* Properties.                                                             *)

\* Some peer is on another branch than the observers.
Forked == \E p \in Peers : branch[p] \notin {Nobody, Trunk}

\* OnDisconnected takes every timer of the peer: a timer that valueMap did not name would outlive the
\* peer it waits for.
TimersAreListed == \A h \in Heights : R!Exist(requestTimer, h) => h \in requestTimer.valueMap[requestTimer.timerMap[h]]

\* tryRequestBlocks asks only peers whose connection some goroutine still serves, whatever connections of
\* the peer have come and gone; and the map that SendTo looks in first holds no connection whose goroutine
\* has ended.
StatusOfServed ==
    \A p \in Peers :
        /\ statusMap[p] # Nobody => \E c \in ConnIds : conns[c].peer = p /\ conns[c].pc = "up"
        /\ clientPeerMap[p] # Nobody => Served(clientPeerMap[p])

\* A peer is never asked for a block that it does not have: such a request is not answered.
AsksWhatPeerHas == \A c \in ConnIds : \A i \in DOMAIN wire[c] : wire[c][i] <= top[conns[c].peer]

\* However blocks are repeated, delayed and reordered, the loop hands ConnectBlock only a block that follows
\* the last one, unless the peers are on different branches.
PanicsOnlyOnFork == panicked => Forked

\* What NodeCatchesUp says of a peer.
Linked(p) == GetPeer(p) # Nobody /\ Reading(GetPeer(p))
CatchesUpWith(p) == (<>[]Linked(p) /\ []~(overlap \/ Forked)) => <>[](Height >= top[p])

=============================================================================
