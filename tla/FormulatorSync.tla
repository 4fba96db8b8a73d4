--------------------------- MODULE FormulatorSync ---------------------------
(***************************************************************************)
(* A formulator gets blocks from other nodes, as every node does (Node),   *)
(* and from the observers, over connections of its own: FormulatorNodeMesh *)
(* dials each observer, FormulatorService of the observer serves it.  An   *)
(* observer keeps for each connection a guess of the height of the         *)
(* formulator and does not answer a request at or below it.                *)
(*                                                                         *)
(* What the observers agree on is Observer's matter: here their chains     *)
(* grow, and the part of this formulator in each block and the observer    *)
(* that led its round are given.                                           *)
(***************************************************************************)
EXTENDS Node, SequencesExt

CONSTANTS Observers,
          MaxLinks,      \* bound: connections with one observer
          MaxBlocks,     \* maxBlocksPerFormulator
          MaxRetries     \* how often a block request that comes too early is tried again (10)

O == INSTANCE RequestTimer WITH Heights <- Heights, Values <- Observers, NoValue <- Nobody

VARIABLES
    links,          \* the connections with each observer, both ends
    service,        \* peerMap of the FormulatorService of each observer
    obQ,            \* recvQueues of each observer
    obTop,          \* the heights of the observers
    turn,           \* of each block of the observers (bound: their number): the part of this formulator, the
                    \* observer that led its round, and the observers that have asked for it (bound: each once)
    awake,          \* the observers that run
    obStatusMap, obTimer,
    lastReq,        \* the height of lastReqMessage
    lastGen,        \* lastGenHeight
    retries         \* block requests that came too early

syncVars == <<links, service, obQ, obTop, turn, awake, obStatusMap, obTimer, lastReq, lastGen, retries>>

\* shut: the observer has closed it.  mail: messages for the formulator.  sent: history, the blocks sent.
Link == [open |-> TRUE, shut |-> FALSE, fr |-> "dialing", ob |-> "handshake", guess |-> 0, mail |-> <<>>, sent |-> <<>>]

Up == [Link EXCEPT !.fr = "up", !.ob = "serving"]

ObStatus(h)   == [type |-> "status", height |-> h]
ObBlock(h)    == [type |-> "block", height |-> h]
ObRequest(h)  == [type |-> "request", height |-> h]
BlockReq(h)   == [type |-> "blockreq", height |-> h]

CloseLink(ls, o, i) == IF i = Nobody THEN ls ELSE [ls EXCEPT ![o][i].open = FALSE, ![o][i].shut = TRUE]
Mail(ls, o, i, m) == IF i # Nobody /\ ls[o][i].open THEN [ls EXCEPT ![o][i].mail = Append(@, m)] ELSE ls
Guess(ls, o, i, h) == IF i = Nobody THEN ls ELSE [ls EXCEPT ![o][i].guess = h]

\* Some of the observers run, and some of these the formulator has met: their statuses are on the way.
SyncInit(turns, heights, runs, met) ==
    /\ links = [o \in Observers |-> IF o \in met THEN Mail([x \in {o} |-> <<Up>>], o, 1, ObStatus(heights[o]))[o] ELSE <<>>]
    /\ service = [o \in Observers |-> IF o \in met THEN 1 ELSE Nobody]
    /\ obStatusMap = [o \in Observers |-> IF o \in met THEN 0 ELSE Nobody]
    /\ awake = runs
    /\ obQ = [o \in Observers |-> <<>>]
    /\ obTop = heights /\ turn = turns
    /\ obTimer = O!NewRequestTimer
    /\ lastReq = Nobody /\ lastGen = 0 /\ retries = {}

\* The link that the formulator has with an observer: its goroutine dials again only when it has ended.
Current(o) == Len(links[o])
InUse(o) == Current(o) > 0 /\ links[o][Current(o)].fr = "up"

-----------------------------------------------------------------------------
(* Connections with observers.                                             *)

\* FormulatorNodeMesh waits a second before it dials again: the goroutine of a connection that the observer
\* has closed itself has ended by then.  One that the network has cut may not have noticed.
DialObserver(o) ==
    /\ o \in awake /\ Current(o) < MaxLinks
    /\ \A i \in DOMAIN links[o] : links[o][i].fr = "gone" /\ (links[o][i].shut => links[o][i].ob = "gone")
    /\ links' = [links EXCEPT ![o] = Append(@, Link)]
    /\ UNCHANGED <<service, obQ, obTop, turn, awake, obStatusMap, obTimer, lastReq, lastGen, retries>>

ServeUnlessServed(o, i) ==
    /\ links[o][i].ob = "handshake"
    /\ links' = Mail([links EXCEPT ![o][i].ob = "serving"], o, i, ObStatus(obTop[o]))
    /\ service' = IF service[o] = Nobody THEN [service EXCEPT ![o] = i] ELSE service
    /\ UNCHANGED <<obQ, obTop, turn, awake, obStatusMap, obTimer, lastReq, lastGen, retries>>

\* The server of the observer: an older connection of the formulator is closed, and the status is sent.
Serve(o, i) ==
    /\ links[o][i].ob = "handshake"
    /\ links' = Mail([CloseLink(links, o, service[o]) EXCEPT ![o][i].ob = "serving"], o, i, ObStatus(obTop[o]))
    /\ service' = [service EXCEPT ![o] = i]
    /\ UNCHANGED <<obQ, obTop, turn, awake, obStatusMap, obTimer, lastReq, lastGen, retries>>

\* The goroutine ends, and removes whatever connection the formulator has by then.
ServiceEnds(o, i) ==
    /\ links[o][i].ob = "serving" /\ ~links[o][i].open
    /\ links' = [CloseLink(links, o, service[o]) EXCEPT ![o][i].ob = "gone"]
    /\ service' = [service EXCEPT ![o] = Nobody]
    /\ UNCHANGED <<obQ, obTop, turn, awake, obStatusMap, obTimer, lastReq, lastGen, retries>>

\* client and OnObserverConnected, which sends the status of the formulator.
OnObserverConnected(o, i) ==
    /\ links[o][i].fr = "dialing"
    /\ links' = [links EXCEPT ![o][i].fr = "up"]
    /\ obStatusMap' = [obStatusMap EXCEPT ![o] = 0]
    /\ obQ' = IF links[o][i].open THEN [obQ EXCEPT ![o] = Append(@, ObStatus(Height))] ELSE obQ
    /\ UNCHANGED <<service, obTop, turn, awake, obTimer, lastReq, lastGen, retries>>

\* Ends with a call of tryRequestNext: RequestNext.
OnObserverDisconnected(o, i) ==
    /\ links[o][i].fr = "up" /\ ~links[o][i].open
    /\ links' = [links EXCEPT ![o][i].fr = "gone", ![o][i].mail = <<>>]
    /\ obStatusMap' = [obStatusMap EXCEPT ![o] = Nobody]
    /\ obTimer' = O!RemovesByValue(obTimer, o)
    /\ UNCHANGED <<service, obQ, obTop, turn, awake, lastReq, lastGen, retries>>

\* A handshake on a connection that is cut fails, at either end.
HandshakeEnds(o, i) ==
    /\ ~links[o][i].open
    /\ \/ links[o][i].fr = "dialing" /\ links' = [links EXCEPT ![o][i].fr = "gone"]
       \/ links[o][i].ob = "handshake" /\ links' = [links EXCEPT ![o][i].ob = "gone"]
    /\ UNCHANGED <<service, obQ, obTop, turn, awake, obStatusMap, obTimer, lastReq, lastGen, retries>>

LoseLink(o, i) ==
    /\ links[o][i].open
    /\ links' = [links EXCEPT ![o][i].open = FALSE]
    /\ UNCHANGED <<service, obQ, obTop, turn, awake, obStatusMap, obTimer, lastReq, lastGen, retries>>

-----------------------------------------------------------------------------
(* The observer.                                                           *)

\* It connects a block.  The one that led the round tells the generator (BlockObSignMessage, which the
\* formulator does not use) and the next formulator; the others tell some more formulators.
Tells(o, h) == IF turn[h].leader = o THEN turn[h].part = "next" ELSE turn[h].part = "ranked"
Guesses(o, h) == turn[h].leader = o /\ turn[h].part \in {"generator", "next"}

ObserverConnects(o) ==
    LET h == obTop[o] + 1
        told_ == IF Tells(o, h) THEN Mail(links, o, service[o], ObStatus(h)) ELSE links
    IN  /\ o \in awake /\ h \in DOMAIN turn
        /\ turn[h].part = "generator" => h <= lastGen
        /\ obTop' = [obTop EXCEPT ![o] = h]
        /\ links' = IF Guesses(o, h) THEN Guess(told_, o, service[o], h) ELSE told_
        /\ UNCHANGED <<service, obQ, turn, awake, obStatusMap, obTimer, lastReq, lastGen, retries>>

\* The observer that leads a round asks its formulator for the block; votes may be repeated and another
\* observer lead then.
AsksForBlock(o) ==
    LET h == obTop[o] + 1
    IN  /\ h \in DOMAIN turn /\ turn[h].part = "generator" /\ o \notin turn[h].asked
        /\ service[o] # Nobody /\ links[o][service[o]].open
        /\ turn' = [turn EXCEPT ![h].asked = @ \cup {o}]
        /\ links' = Mail(links, o, service[o], BlockReq(h))
        /\ UNCHANGED <<service, obQ, obTop, awake, obStatusMap, obTimer, lastReq, lastGen, retries>>

\* handleFormulatorMessage.  enable: with three formulators at its height an observer serves only the
\* first five of the table.
ServesAgain(o, i, h) == links[o][i].guess <= h /\ h <= obTop[o]

Serves(o, i, h) == links[o][i].guess < h /\ h <= obTop[o]

Send(ls, o, i, h) == [Mail(ls, o, i, ObBlock(h)) EXCEPT ![o][i].guess = h, ![o][i].sent = Append(@, h)]

HandleRequest(o, h, enable) ==
    LET i == service[o]
    IN  IF i # Nobody /\ enable /\ Serves(o, i, h)
        THEN IF links[o][i].open THEN links' = Send(links, o, i, h) /\ UNCHANGED service
             ELSE service' = [service EXCEPT ![o] = Nobody] /\ UNCHANGED links
        ELSE UNCHANGED <<links, service>>

HandleFrStatus(o, h) ==
    LET i == service[o]
    IN  /\ links' = IF i # Nobody /\ links[o][i].guess < h THEN Guess(links, o, i, h) ELSE links
        /\ UNCHANGED service

HandleFormulator(o, enable) ==
    /\ obQ[o] # <<>>
    /\ obQ' = [obQ EXCEPT ![o] = Tail(@)]
    /\ IF Head(obQ[o]).type = "request" THEN HandleRequest(o, Head(obQ[o]).height, enable)
       ELSE enable /\ HandleFrStatus(o, Head(obQ[o]).height)
    /\ UNCHANGED <<obTop, turn, awake, obStatusMap, obTimer, lastReq, lastGen, retries>>

-----------------------------------------------------------------------------
(* The formulator: handleObserverMessage and tryRequestNext.               *)

\* SendTo of FormulatorNodeMesh, for several heights.
Requested(o, hs) == IF InUse(o) /\ links[o][Current(o)].open
                    THEN [obQ EXCEPT ![o] = @ \o [j \in DOMAIN hs |-> ObRequest(hs[j])]] ELSE obQ
Timed(o, hs) == FoldLeft(LAMBDA timer, h : O!Add(timer, h, o), obTimer, hs)

Missing(h) == SetToSortSeq({x \in Height + 1 .. h : ~O!Exist(obTimer, x) /\ blockQ[x] = Nobody}, <)

RaiseOb(o, h) == IF obStatusMap[o] # Nobody /\ obStatusMap[o] < h THEN [obStatusMap EXCEPT ![o] = h] ELSE obStatusMap

IsGenerating(h) == lastReq # Nobody /\ h <= lastReq + MaxBlocks

HandleObStatus(o, h) ==
    /\ obStatusMap' = RaiseOb(o, h)
    /\ IF IsGenerating(h) THEN UNCHANGED <<obQ, obTimer>>
       ELSE obQ' = Requested(o, Missing(h)) /\ obTimer' = Timed(o, Missing(h))
    /\ UNCHANGED <<lastReq, lastGen, retries>> /\ UNCHANGED nodeVars

\* Ends with a call of tryRequestNext: RequestNext.  A block that differs ends the process.
HandleObBlock(o, h) ==
    /\ lastReq' = IF IsGenerating(h) /\ turn[h].part # "generator" THEN Nobody ELSE lastReq
    /\ IF Differs([height |-> h, hash |-> Hash(Trunk, h)])
       THEN panicked' = TRUE /\ UNCHANGED <<blockQ, obStatusMap>>
       ELSE /\ blockQ' = IF h <= Height THEN blockQ ELSE [blockQ EXCEPT ![h] = Hash(Trunk, h)]
            /\ obStatusMap' = RaiseOb(o, h)
            /\ UNCHANGED panicked
    /\ UNCHANGED <<obQ, obTimer, lastGen, retries>>
    /\ UNCHANGED <<chain, statusMap, requestTimer, recvQ, wire, told, top, branch,
                   handling, trying, connecting, budget, overlap>>

\* A request for a block: ignored, answered by the blocks of the turn (Observer models how), or put off
\* until the formulator has the blocks before it.
Ignored(h) == h <= lastGen \/ (lastReq # Nobody /\ h <= lastReq) \/ h <= Height
LastOfTurn(h) == Max({x \in h .. Min({h + MaxBlocks - 1, Len(turn)}) : \A y \in h .. x : turn[y].part = "generator"})

HandleBlockReq(o, h, count) ==
    /\ IF Ignored(h) THEN UNCHANGED <<obQ, lastReq, lastGen>> /\ retries' = retries \ {<<o, h, count>>}
       ELSE IF h = Height + 1
       THEN lastReq' = h /\ lastGen' = LastOfTurn(h) /\ retries' = retries \ {<<o, h, count>>} /\ UNCHANGED obQ
       ELSE /\ obQ' = IF count = 0 THEN Requested(o, SetToSortSeq(Height + 1 .. h - 1, <)) ELSE obQ
            /\ retries' = (retries \ {<<o, h, count>>}) \cup (IF count < MaxRetries THEN {<<o, h, count + 1>>} ELSE {})
            /\ UNCHANGED <<lastReq, lastGen>>
    /\ UNCHANGED <<obTimer, obStatusMap>> /\ UNCHANGED nodeVars

HandleObserver(o) ==
    /\ InUse(o) /\ links[o][Current(o)].open /\ links[o][Current(o)].mail # <<>>
    /\ links' = [links EXCEPT ![o][Current(o)].mail = Tail(@)]
    /\ \E m \in {Head(links[o][Current(o)].mail)} :
          \/ m.type = "status" /\ HandleObStatus(o, m.height)
          \/ m.type = "block" /\ HandleObBlock(o, m.height)
          \/ m.type = "blockreq" /\ HandleBlockReq(o, m.height, 0)
    /\ UNCHANGED <<service, obTop, turn, awake>> /\ UNCHANGED meshVars

Retry ==
    /\ \E r \in retries : HandleBlockReq(r[1], r[2], r[3])
    /\ UNCHANGED <<links, service, obTop, turn, awake>> /\ UNCHANGED meshVars

\* tryRequestNext, of the loop, of a block or of OnObserverDisconnected: any observer that has the next block.
RequestNext(o) ==
    /\ ~trying.on /\ Height < MaxHeight
    /\ ~O!Exist(obTimer, Height + 1) /\ blockQ[Height + 1] = Nobody
    /\ obStatusMap[o] # Nobody /\ Height + 1 <= obStatusMap[o]
    /\ obQ' = Requested(o, <<Height + 1>>)
    /\ obTimer' = O!Add(obTimer, Height + 1, o)
    /\ UNCHANGED <<links, service, obTop, turn, awake, obStatusMap, lastReq, lastGen, retries>>

\* Two seconds: longer than an answer of the observer takes, if there is one.
Awaited(o, h) ==
    \/ \E j \in DOMAIN obQ[o] : obQ[o][j] = ObRequest(h)
    \/ \E i \in DOMAIN links[o] : links[o][i].open /\ ObBlock(h) \in Range(links[o][i].mail)

ObTimerExpires(h) ==
    /\ O!Exist(obTimer, h) /\ \A o \in Observers : ~Awaited(o, h)
    /\ obTimer' = O!Expired(obTimer, h)
    /\ UNCHANGED <<links, service, obQ, obTop, turn, awake, obStatusMap, lastReq, lastGen, retries>>

-----------------------------------------------------------------------------
(* What the formulator does otherwise than a node.                         *)

\* broadcastStatus at the end of the loop also tells the observers.
FrConnectNext ==
    /\ ConnectNext
    /\ obQ' = IF connecting'.item # Nobody THEN obQ
              ELSE [o \in Observers |-> IF InUse(o) /\ links[o][Current(o)].open
                                        THEN Append(obQ[o], ObStatus(Height + 1)) ELSE obQ[o]]
    /\ UNCHANGED <<links, service, obTop, turn, awake, obStatusMap, obTimer, lastReq, lastGen, retries>>

\* The block is dropped and the loop ends.
FrConnectFails ==
    /\ connecting.item # Nobody /\ ~Follows(connecting.item)
    /\ connecting' = NotConnecting
    /\ UNCHANGED meshVars /\ UNCHANGED Looping /\ UNCHANGED <<chain, blockQ, panicked>> /\ UNCHANGED syncVars

FrHandleForkedBlock(m) ==
    /\ m.type = "block" /\ Differs(m)
    /\ panicked' = TRUE
    /\ UNCHANGED meshVars /\ UNCHANGED <<blockQ, statusMap, handling>>

FrRecvNext ==
    /\ recvQ # <<>> /\ ~handling.on
    /\ recvQ' = Tail(recvQ)
    /\ HandleStatus(Head(recvQ)) \/ HandleBlock(Head(recvQ)) \/ FrHandleForkedBlock(Head(recvQ))
    /\ UNCHANGED Handled /\ UNCHANGED syncVars

FrRestart ==
    /\ Restart
    /\ links' = [o \in Observers |-> [i \in DOMAIN links[o] |-> [links[o][i] EXCEPT !.open = FALSE, !.fr = "gone", !.mail = <<>>]]]
    /\ obStatusMap' = [o \in Observers |-> Nobody]
    /\ obTimer' = O!NewRequestTimer
    /\ lastReq' = Nobody /\ lastGen' = 0 /\ retries' = {}
    /\ UNCHANGED <<service, obQ, obTop, turn, awake>>

-----------------------------------------------------------------------------

LinkStep(o, i) ==
    \/ Serve(o, i) \/ ServiceEnds(o, i) \/ HandshakeEnds(o, i)
    \/ OnObserverConnected(o, i) \/ OnObserverDisconnected(o, i)

\* The steps of a node that are the same in a formulator.
NodePart ==
    \/ \E c \in ConnIds : Register(c) \/ OnConnected(c) \/ OnDisconnected(c) \/ MeshStep(c) \/ Lose(c) \/ Tell(c) \/ Answer(c)
    \/ \E p \in Peers : Meet(p) \/ Grow(p) \/ SendFails(p)
    \/ TryBegin \/ Requests
    \/ \E h \in Heights : TimerExpires(h)
    \/ BlockTimer

Elsewhere ==
    \/ \E o \in Observers : DialObserver(o) \/ ObserverConnects(o) \/ AsksForBlock(o) \/ RequestNext(o)
    \/ \E o \in Observers, enable \in BOOLEAN : HandleFormulator(o, enable)
    \/ \E o \in Observers : \E i \in DOMAIN links[o] : LinkStep(o, i)
    \/ \E h \in Heights : ObTimerExpires(h)

LosesLink ==
    /\ budget.losses > 0 /\ budget' = [budget EXCEPT !.losses = @ - 1]
    /\ \E o \in Observers : \E i \in DOMAIN links[o] : LoseLink(o, i)
    /\ UNCHANGED meshVars
    /\ UNCHANGED <<chain, blockQ, statusMap, requestTimer, recvQ, wire, told, top, branch,
                   handling, trying, connecting, panicked, overlap>>

FrRunning ==
    \/ NodePart /\ UNCHANGED syncVars
    \/ Elsewhere /\ UNCHANGED meshVars /\ UNCHANGED nodeVars
    \/ LosesLink
    \/ \E o \in Observers : HandleObserver(o)
    \/ Retry \/ FrConnectNext \/ FrConnectFails \/ FrRecvNext

FormulatorNext == (~panicked /\ FrRunning) \/ FrRestart

\* The mesh dials observers that are not connected, and every goroutine goes on.
syncAll == <<meshVars, nodeVars, syncVars>>

FormulatorFairness ==
    /\ \A o \in Observers :
          /\ WF_syncAll(DialObserver(o) /\ UNCHANGED meshVars /\ UNCHANGED nodeVars)
          /\ \A i \in 1 .. MaxLinks : WF_syncAll(i \in DOMAIN links[o] /\ LinkStep(o, i) /\ UNCHANGED meshVars /\ UNCHANGED nodeVars)

-----------------------------------------------------------------------------
(* Properties.                                                             *)

\* Over one connection an observer sends the formulator each block once and in ascending order, whatever
\* the formulator asks again and however its own blocks, statuses and guesses interleave.
ServesAscending ==
    \A o \in Observers : \A i \in DOMAIN links[o] :
        \A j, k \in DOMAIN links[o][i].sent : j < k => links[o][i].sent[j] < links[o][i].sent[k]

\* What StaysAttached says of an observer.
Attached(o) == InUse(o) /\ service[o] = Current(o) /\ links[o][Current(o)].open
AttachedTo(o) == [](o \in awake /\ ~panicked) => <>[]Attached(o)

=============================================================================
