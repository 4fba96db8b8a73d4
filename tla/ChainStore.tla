----------------------------- MODULE ChainStore -----------------------------
(***************************************************************************)
(* chain.Store with its two databases, as a command (cmd/observer,         *)
(* cmd/formulator, cmd/node) uses it: open both, check that the block of   *)
(* the stored height is there, store the genesis state or check it, replay *)
(* the blocks the piles have after that height, then connect new blocks.   *)
(* StoreBlock appends the block to the piles first and then applies the    *)
(* changes of the state in one transaction of buntdb.                      *)
(*                                                                         *)
(* The node can crash between any two steps, and a write of buntdb can     *)
(* fail, as often as the bounds allow.                                     *)
(***************************************************************************)
EXTENDS Pile, BuntDB

CONSTANTS HeightKey,   \* tagHeight
          NotCached,   \* st.cache.cached is false
          Changes(_),  \* the commands of the state changes of a block, height included
          Budgets      \* bound: how often each fault may happen; a behaviour has one of these

VARIABLES
    mode,     \* "down", "failed" (the command has panicked at start), "genesis", "replay", "up"
    doing,    \* what StoreBlock or StoreGenesis does next
    block,    \* the height of the block being stored
    cache,    \* st.cache.height, or NotCached
    stored,   \* history: the last height StoreBlock has returned for
    left      \* how often each fault may still happen

storeVars == <<mode, doing, block, cache, stored, left>>
vars      == <<pileVars, kvVars, storeVars>>

DbHeight == IF keys[HeightKey] = Absent THEN 0 ELSE keys[HeightKey]
Height   == IF cache = NotCached THEN DbHeight ELSE cache

\* Header and Block: the cache has the last block, the piles have the others.
Block(h) == h >= 1 /\ (cache = h \/ (Has(h) /\ Reads(h)))

\* LastStatus panics when it cannot read the header of the last block.
LastStatus == Height > 0 => Block(Height)

Init ==
    /\ PileInit /\ KvInit
    /\ mode = "down"
    /\ doing = "nothing"
    /\ block = 0
    /\ cache = NotCached
    /\ stored = 0
    /\ left \in Budgets

-----------------------------------------------------------------------------
(* The start of a command.  It opens buntdb, then the piles.               *)

StartFailsKv ==
    /\ mode = "down" /\ ~kvOpen /\ KvOpenFails
    /\ mode' = "failed"
    /\ UNCHANGED <<pileVars, kvVars, doing, block, cache, stored, left>>

StartKv ==
    /\ mode = "down"
    /\ KvOpen
    /\ cache' = NotCached
    /\ UNCHANGED <<pileVars, mode, doing, block, stored, left>>

StartFailsPile ==
    /\ mode = "down" /\ kvOpen
    /\ \/ \E e \in OpenErrors : OpenFails(e)
       \/ \E h \in 0 .. MaxBlocks : OpenMisses(h)
    /\ mode' = "failed"
    /\ UNCHANGED <<kvVars, doing, block, cache, stored, left>>

StartPile ==
    /\ mode = "down" /\ kvOpen
    /\ \E h \in 0 .. MaxBlocks : OpenLoads(h)
    /\ mode' = "check"
    /\ UNCHANGED <<kvVars, doing, block, cache, stored, left>>

\* The block of the stored height must be readable; Chain.Init.
Check ==
    /\ mode = "check"
    /\ mode' = IF Height > 0 THEN (IF Has(Height) THEN "replay" ELSE "panic") ELSE "genesis"
    /\ UNCHANGED <<pileVars, kvVars, doing, block, cache, stored, left>>

\* StoreGenesis.
GenesisPile ==
    /\ mode = "genesis" /\ doing = "nothing"
    /\ doing' = "genesis"
    /\ IF AlreadyInitialized THEN UNCHANGED pileVars ELSE DBInit
    /\ UNCHANGED <<kvVars, mode, block, cache, stored, left>>

GenesisKv ==
    /\ doing = "genesis" /\ at = "idle"
    /\ Commit(Changes(0))
    /\ cache' = 0
    /\ doing' = "nothing"
    /\ mode' = "replay"
    /\ UNCHANGED <<pileVars, block, stored, left>>

-----------------------------------------------------------------------------
(* StoreBlock, called for a block of height Height + 1.                    *)

\* Mutant: a block the piles have already is an error.
StoreBlockStrict(h) ==
    /\ doing = "nothing"
    /\ h = Height + 1
    /\ block' = h
    /\ doing' = "update"
    /\ AppendData(h)
    /\ UNCHANGED <<kvVars, mode, cache, stored, left>>

StoreBlock(h) ==
    /\ doing = "nothing"
    /\ h = Height + 1
    /\ block' = h
    /\ doing' = "update"
    /\ IF InvalidAppendHeight(h) THEN UNCHANGED pileVars ELSE AppendData(h)
    /\ UNCHANGED <<kvVars, mode, cache, stored, left>>

StorePile ==
    /\ AppendStep
    /\ UNCHANGED <<kvVars, storeVars>>

\* Mutant: the state does not wait for the block.
UpdateEarly ==
    /\ doing = "update"
    /\ Commit(Changes(block))
    /\ doing' = "cache"
    /\ UNCHANGED <<pileVars, mode, block, cache, stored, left>>

Update ==
    /\ doing = "update" /\ at = "idle"
    /\ Commit(Changes(block))
    /\ doing' = "cache"
    /\ UNCHANGED <<pileVars, mode, block, cache, stored, left>>

\* The caller of a running node goes on; the replay panics.
UpdateFails ==
    /\ doing = "update" /\ at = "idle" /\ mode = "up"
    /\ left.fail > 0
    /\ CommitFails(Changes(block))
    /\ doing' = "nothing"
    /\ left' = [left EXCEPT !.fail = @ - 1]
    /\ UNCHANGED <<pileVars, mode, block, cache, stored>>

SetCache ==
    /\ doing = "cache"
    /\ cache' = block
    /\ stored' = block
    /\ doing' = "nothing"
    /\ UNCHANGED <<pileVars, kvVars, mode, block, left>>

\* IterBlockAfterContext.
Replay ==
    /\ mode = "replay"
    /\ \E h \in Heights : Block(h) /\ StoreBlock(h)

\* Mutant: a started node does not replay.
ReplayEndsAtOnce ==
    /\ mode = "replay" /\ doing = "nothing"
    /\ mode' = "up"
    /\ UNCHANGED <<pileVars, kvVars, doing, block, cache, stored, left>>

ReplayEnds ==
    /\ mode = "replay" /\ doing = "nothing"
    /\ ~Has(Height + 1)
    /\ mode' = "up"
    /\ UNCHANGED <<pileVars, kvVars, doing, block, cache, stored, left>>

\* A block from the network: validateHeader takes the next height only.
Connect ==
    /\ mode = "up" /\ LastStatus
    /\ \E h \in Heights : StoreBlock(h)

-----------------------------------------------------------------------------
(* What happens beside it.                                                 *)

Background == Sync /\ UNCHANGED <<pileVars, storeVars>>

BeginShrink ==
    /\ left.shrink > 0 /\ mode = "up"
    /\ ShrinkBegin
    /\ left' = [left EXCEPT !.shrink = @ - 1]
    /\ UNCHANGED <<pileVars, mode, doing, block, cache, stored>>

ContinueShrink ==
    /\ ShrinkChunk \/ ShrinkSwap
    /\ UNCHANGED <<pileVars, storeVars>>

\* Store.Close waits for StoreBlock and for Shrink.
Close ==
    /\ mode = "up" /\ doing = "nothing" /\ ~shrink.on
    /\ left.close > 0
    /\ KvClose /\ Halt
    /\ mode' = "down" /\ cache' = NotCached
    /\ left' = [left EXCEPT !.close = @ - 1]
    /\ UNCHANGED <<doing, block, stored>>

Crash ==
    /\ kvOpen /\ left.crash > 0
    /\ KvCrash /\ Halt
    /\ mode' = "down" /\ cache' = NotCached /\ doing' = "nothing"
    /\ left' = [left EXCEPT !.crash = @ - 1]
    /\ UNCHANGED <<block, stored>>

Start == StartFailsKv \/ StartKv \/ StartFailsPile \/ StartPile \/ Check \/ GenesisPile \/ GenesisKv
Work  == Replay \/ ReplayEnds \/ Connect \/ StorePile \/ Update \/ SetCache

Next == Start \/ Work \/ UpdateFails \/ Background \/ BeginShrink \/ ContinueShrink \/ Close \/ Crash

Spec     == Init /\ [][Next]_vars
FairSpec == Spec /\ WF_vars(Start) /\ WF_vars(Work)

-----------------------------------------------------------------------------
(* Properties.                                                             *)

StateAfter[h \in 0 .. MaxBlocks] ==
    IF h = 0 THEN Overlay(Empty, Changes(0)) ELSE Overlay(StateAfter[h - 1], Changes(h))

\* Once a block is stored, an open buntdb has the state after a whole number
\* of blocks, whatever crashes and failed writes cut off or leave behind: the
\* commands a cut transaction leaves in the file are committed by the txend of
\* the next one, which is the same block again (Commit, readLoad, StoreBlock).
StateIsWholeBlocks == kvOpen /\ DbHeight > 0 => keys = StateAfter[DbHeight]

\* The piles have every block up to the height that the store reports
\* (StoreBlock appends before it updates the state).
BlocksAreThere == mode \in {"replay", "up"} => \A h \in 1 .. Height : Has(h) /\ Reads(h)

\* A block StoreBlock has returned for is part of the chain of every later
\* running node: what buntdb has lost the replay brings back.
NothingLost == mode = "up" /\ doing # "cache" => Height >= stored

\* The state is never ahead of the piles, and a pile that Open misses is the
\* one of the block after a chunk boundary (cmd/observer, Open).
OnlyKnownFailures ==
    /\ mode # "panic"
    /\ openErr = "ErrMissingPile" => \E h \in Heights : IsMaxHeight(h) /\ h % ChunkUnit = 0

\* A node that starts connects all blocks.
CatchesUp == <>[](mode = "failed" \/ (mode = "up" /\ Height = MaxBlocks))

=============================================================================
