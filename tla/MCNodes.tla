------------------------------ MODULE MCNodes -------------------------------
(***************************************************************************)
(* One node or formulator and its peers, in scopes that each exercise one  *)
(* thing: connections, two peers, late answers, losses, growth, branches,  *)
(* the connections of a formulator with observers, and those of an         *)
(* observer with another.                                                  *)
(***************************************************************************)
EXTENDS FormulatorSync, ObserverMesh, TLC

CONSTANTS P1, P2, Other, O1, O2

VARIABLE kind

Both(v, w) == (P1 :> v) @@ (P2 :> w)
Bounds(d, l, e, g) == [dials |-> d, losses |-> l, early |-> e, growth |-> g]

Part(p, o) == [part |-> p, leader |-> o, asked |-> {}]
Nodes ==
    /\ kind = "node"
    /\ SyncInit(<<>>, [o \in Observers |-> 0], {}, {})

\* One peer: connections.
Churn == Nodes /\ NodeInit(<<>>, Both(0, 0), Both(Trunk, Nobody), <<>>, Bounds(2, 1, 0, 0))
\* Two peers.
Pair  == Nodes /\ NodeInit(<<>>, Both(2, 1), Both(Trunk, Trunk), <<P1, P2>>, Bounds(0, 0, 0, 0))
Grows == Nodes /\ NodeInit(<<>>, Both(1, 0), Both(Trunk, Trunk), <<P1, P2>>, Bounds(0, 0, 0, 1))
Late  == Nodes /\ NodeInit(<<>>, Both(1, 1), Both(Trunk, Trunk), <<P1, P2>>, Bounds(0, 0, 1, 0))
Late2 == Nodes /\ NodeInit(<<>>, Both(2, 1), Both(Trunk, Nobody), <<P1>>, Bounds(0, 0, 1, 0))
Loss  == Nodes /\ NodeInit(<<>>, Both(1, 0), Both(Trunk, Trunk), <<P1, P2>>, Bounds(0, 1, 0, 0))
Redial == Nodes /\ NodeInit(<<>>, Both(1, 1), Both(Trunk, Nobody), <<P1>>, Bounds(1, 1, 0, 0))
\* A peer on another branch: at the next block, and beside one that is not.
Fork  == Nodes /\ \/ NodeInit(<<Trunk>>, Both(2, 0), Both(Other, Nobody), <<P1>>, Bounds(0, 0, 0, 0))
                  \/ NodeInit(<<>>, Both(1, 1), Both(Trunk, Other), <<P1, P2>>, Bounds(0, 0, 0, 0))

\* A formulator and observers.
Alone(l) == kind = "formulator" /\ NodeInit(<<>>, Both(0, 0), Both(Nobody, Nobody), <<>>, Bounds(0, l, 0, 0))
At1(h) == (O1 :> h) @@ (O2 :> 0)

Tops(v, w) == (O1 :> v) @@ (O2 :> w)

FrLinks == Alone(1) /\ \E a \in {Part("next", O1), Part("ranked", O2)} : SyncInit(<<a>>, Tops(0, 0), {O1}, {})
Parts == {Part(p, o) : p \in {"generator", "next", "ranked"}, o \in {O1, O2}}
FrTurns == Alone(0) /\ \E a, b \in Parts : a.leader = O1 /\ b.leader = O2 /\ SyncInit(<<a, b>>, Tops(0, 0), {O1, O2}, {O1, O2})
FrOne == Alone(0) /\ \E a, b \in Parts : SyncInit(<<a, b>>, Tops(0, 0), {O1}, {O1})
FrPeer == /\ kind = "formulator"
          /\ NodeInit(<<>>, Both(1, 0), Both(Trunk, Nobody), <<P1>>, Bounds(0, 0, 0, 0))
          /\ SyncInit(<<Part("next", O1), Part("none", O1)>>, Tops(1, 0), {O1}, {O1})
FrFork == /\ kind = "formulator"
          /\ \/ NodeInit(<<Trunk>>, Both(2, 0), Both(Other, Nobody), <<P1>>, Bounds(0, 0, 0, 0))
             \/ NodeInit(<<>>, Both(1, 0), Both(Other, Nobody), <<P1>>, Bounds(0, 0, 0, 0))
          /\ SyncInit(<<>>, Tops(1, 0), {O1}, {O1})
\* An observer and another one.
ObLinks == /\ kind = "observer"
           /\ NodeInit(<<>>, Both(0, 0), Both(Trunk, Nobody), <<>>, Bounds(3, 2, 0, 0))
           /\ SyncInit(<<>>, Tops(0, 0), {}, {})

ObNext ==
    \/ \E p \in Peers : Meet(p)
    \/ \E c \in ConnIds : Lose(c)
    \/ ObMeshStep /\ UNCHANGED nodeVars

Init == \/ Churn \/ Pair \/ Grows \/ Late \/ Late2 \/ Loss \/ Redial \/ Fork
        \/ FrLinks \/ FrTurns \/ FrOne \/ FrPeer \/ FrFork \/ ObLinks

Next ==
    /\ \/ kind = "node" /\ NodeNext /\ UNCHANGED syncVars
       \/ kind = "formulator" /\ FormulatorNext
       \/ kind = "observer" /\ ObNext /\ UNCHANGED syncVars
    /\ UNCHANGED kind

vars == <<meshVars, nodeVars, syncVars, kind>>
Spec == Init /\ [][Next]_vars /\ (kind # "observer" => NodeFairness) /\ (kind = "formulator" => FormulatorFairness)

-----------------------------------------------------------------------------

\* A node, and a formulator, catches up with a peer that it stays connected with, unless the peer has had two
\* connections at a time: whatever requests are lost with connections, time out or are asked twice.
NodeCatchesUp == CatchesUpWith(P1)

\* When connections are cut finitely often, a formulator ends up with one connection to an observer that both
\* ends use, although the end of an old connection closes the one that has replaced it.
StaysAttached == AttachedTo(O1)

=============================================================================
