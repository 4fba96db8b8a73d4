-------------------------- MODULE ChainStoreProofs --------------------------
(***************************************************************************)
(* What core/pile guarantees by itself it guarantees inside chain.Store:   *)
(* whatever a command does with the store, and wherever it crashes, the    *)
(* piles take a step of their own or none.                                 *)
(***************************************************************************)
EXTENDS ChainStore, PileProofs

\* Every step of the store is a step of the piles or leaves them alone.
LEMMA StoreStepIsPileStep == [Next]_vars => [PileNext]_pileVars
  <1> SUFFICES ASSUME [Next]_vars, ~UNCHANGED pileVars PROVE PileNext
    OBVIOUS
  <1>1. Start \/ Work \/ UpdateFails \/ Background \/ BeginShrink \/ ContinueShrink \/ Close \/ Crash
    BY DEF Next, vars
  <1>2. CASE Start
    <2>1. StartFailsPile \/ StartPile => Open
      BY DEF StartFailsPile, StartPile, Open
    <2>2. GenesisPile => DBInit
      BY DEF GenesisPile
    <2> QED
      BY <1>2, <2>1, <2>2 DEF Start, StartFailsKv, StartKv, Check, GenesisKv, PileNext
  <1>3. CASE Work
    <2>1. ASSUME NEW h \in Heights, StoreBlock(h) PROVE AppendData(h)
      BY <2>1 DEF StoreBlock
    <2>2. Replay \/ Connect => \E h \in Heights : AppendData(h)
      BY <2>1 DEF Replay, Connect
    <2>3. StorePile => AppendStep
      BY DEF StorePile
    <2> QED
      BY <1>3, <2>2, <2>3 DEF Work, ReplayEnds, Update, SetCache, PileNext
  <1>4. CASE Close \/ Crash
    BY <1>4 DEF Close, Crash, PileNext
  <1> QED
    BY <1>1, <1>2, <1>3, <1>4 DEF UpdateFails, Background, BeginShrink, ContinueShrink

\* chain.Store uses core/pile as its specification allows.
THEOREM StoreUsesPiles == Spec => PileSpec
  <1>1. Init => PileInit
    BY DEF Init
  <1> QED
    BY <1>1, StoreStepIsPileStep, PTL DEF Spec, PileSpec

\* However often a command crashes, restarts, shrinks its state or fails to
\* write it, LoadPile can reconcile the heights of every pile.
THEOREM StoreHeadsReconcile == Spec => []HeadsReconcile
  BY StoreUsesPiles, HeadsAlwaysReconcile, PTL

\* And every block StoreBlock has appended can be read whenever the piles are open.
THEOREM StoreBlocksStay == Spec => []AppendedBlocksStay
  BY StoreUsesPiles, AppendedBlocksAlwaysStay, PTL

=============================================================================
