-------------------------------- MODULE Pile --------------------------------
(***************************************************************************)
(* core/pile: the append-only files that hold the blocks.  A pile is a     *)
(* file with ChunkUnit blocks.  Its header has the height of its last      *)
(* block three times (HeadHeight, HeadHeightCheckA, HeadHeightCheckB), and *)
(* a table with the offset at which the data of each block end.            *)
(*                                                                         *)
(* Every command opens the piles with SetSyncMode(true): AppendData writes *)
(* the data, their offset and HeadHeight, syncs, writes check A, syncs,    *)
(* writes check B, syncs.  Each write is a step, so a crash between two    *)
(* steps leaves what a crash that loses a suffix of the writes can leave.  *)
(* Writes that one Sync makes durable are assumed to reach the disk in the *)
(* order in which they were made.                                          *)
(*                                                                         *)
(* A block is identified with its height: observers sign one block of a    *)
(* height.  GenHash and the compression of the data are left out.          *)
(***************************************************************************)
EXTENDS Naturals

CONSTANTS ChunkUnit,   \* blocks of one file
          MaxBlocks    \* bound: height of the last block

ASSUME PileAssumption == ChunkUnit \in Nat \ {0} /\ MaxBlocks \in Nat

Heights == 1 .. MaxBlocks

\* The number of a pile, counted from 0: BeginHeight = i * ChunkUnit.
PileNumbers == 0 .. MaxBlocks
Begin(i)    == i * ChunkUnit
PileOf(h)   == (h - 1) \div ChunkUnit

VARIABLES
    made,      \* per pile: "none", "empty" (no header yet) or "header"
    headHeight, checkA, checkB,  \* per pile: the three heights of its header
    data,      \* per height: "none", "torn" or "whole"
    offset,    \* per height: its entry of the offset table has been written
    open,      \* the piles are open
    count,     \* len(db.piles)
    loaded,    \* per open pile: p.HeadHeight
    at,        \* the step AppendData stands before
    target,    \* the height it appends
    openErr,   \* the error of the last Open
    appended   \* history: the last height AppendData has returned for

header == <<made, headHeight, checkA, checkB>>
body   == <<data, offset>>
memory == <<open, count, loaded, at, target>>
pileVars == <<header, body, memory, openErr, appended>>

OpenErrors == {"none", "ErrMissingPile", "ErrNoHeader", "ErrHeightCrashed", "ErrInvalidFileSize"}
Steps      == {"idle", "create", "header", "data", "dataEnd", "offset", "head", "checkA", "checkB"}

PileTypeOK ==
    /\ made \in [PileNumbers -> {"none", "empty", "header"}]
    /\ headHeight \in [PileNumbers -> Nat]
    /\ checkA \in [PileNumbers -> Nat]
    /\ checkB \in [PileNumbers -> Nat]
    /\ data \in [Heights -> {"none", "torn", "whole"}]
    /\ offset \in [Heights -> BOOLEAN]
    /\ open \in BOOLEAN
    /\ count \in Nat
    /\ loaded \in [PileNumbers -> Nat]
    /\ at \in Steps
    /\ target \in Nat
    /\ openErr \in OpenErrors
    /\ appended \in Nat

PileInit ==
    /\ made = [i \in PileNumbers |-> "none"]
    /\ headHeight = [i \in PileNumbers |-> 0]
    /\ checkA = [i \in PileNumbers |-> 0]
    /\ checkB = [i \in PileNumbers |-> 0]
    /\ data = [h \in Heights |-> "none"]
    /\ offset = [h \in Heights |-> FALSE]
    /\ open = FALSE
    /\ count = 0
    /\ loaded = [i \in PileNumbers |-> 0]
    /\ at = "idle"
    /\ target = 0
    /\ openErr = "none"
    /\ appended = 0

-----------------------------------------------------------------------------
(* LoadPile and Open.                                                      *)

\* LoadPile: the height that is kept when the three differ, and whether any is.
Consistent(i) ==
    \/ checkA[i] = checkB[i]
    \/ headHeight[i] = checkB[i] + 1
    \/ headHeight[i] = checkA[i]

Recovered(i) == IF checkA[i] = checkB[i] THEN checkA[i] ELSE headHeight[i]

\* The file ends before the offset its table gives for the last block.
TooShort(i) ==
    /\ Recovered(i) > Begin(i)
    /\ Recovered(i) \in Heights
    /\ offset[Recovered(i)]
    /\ data[Recovered(i)] = "none"

Files == {i \in PileNumbers : made[i] # "none"}

LoadError(i) ==
    IF made[i] = "empty" THEN "ErrNoHeader"
    ELSE IF ~Consistent(i) THEN "ErrHeightCrashed"
    ELSE IF TooShort(i) THEN "ErrInvalidFileSize"
    ELSE "none"

\* MaxHeight of Open: the largest height of any pile.
IsMaxHeight(h) ==
    /\ \A i \in Files : Recovered(i) <= h
    /\ h = 0 \/ \E i \in Files : Recovered(i) = h

\* Open gives up at the first pile that does not load.
OpenFails(e) ==
    /\ ~open
    /\ e # "none"
    /\ \E i \in Files : LoadError(i) = e
    /\ openErr' = e
    /\ UNCHANGED <<header, body, memory, appended>>

\* The piles up to the one of the next block must be there.
Missing(h) == h > 0 /\ \E i \in 0 .. (h \div ChunkUnit) : i \notin Files

OpenMisses(h) ==
    /\ ~open
    /\ \A i \in Files : LoadError(i) = "none"
    /\ IsMaxHeight(h)
    /\ Missing(h)
    /\ openErr' = "ErrMissingPile"
    /\ UNCHANGED <<header, body, memory, appended>>

OpenLoads(h) ==
    /\ ~open
    /\ \A i \in Files : LoadError(i) = "none"
    /\ IsMaxHeight(h)
    /\ ~Missing(h)
    /\ openErr' = "none"
    /\ headHeight' = [i \in PileNumbers |-> IF i \in Files THEN Recovered(i) ELSE headHeight[i]]
    /\ checkA' = [i \in PileNumbers |-> IF i \in Files THEN Recovered(i) ELSE checkA[i]]
    /\ checkB' = [i \in PileNumbers |-> IF i \in Files THEN Recovered(i) ELSE checkB[i]]
    /\ loaded' = [i \in PileNumbers |-> IF i \in Files THEN Recovered(i) ELSE loaded[i]]
    /\ open' = TRUE
    /\ count' = IF h > 0 THEN (h \div ChunkUnit) + 1 ELSE 0
    /\ at' = "idle"
    /\ UNCHANGED <<made, body, target, appended>>

-----------------------------------------------------------------------------
(* NewPile and AppendData.                                                 *)

\* DB.Init: the first pile.  AlreadyInitialized is ErrAlreadyInitialized,
\* which StoreGenesis ignores.
AlreadyInitialized == count > 0

DBInit ==
    /\ open /\ at = "idle"
    /\ ~AlreadyInitialized
    /\ target' = 0
    /\ at' = "create"
    /\ UNCHANGED <<header, body, open, count, loaded, openErr, appended>>

TopPile == count - 1

\* ErrInvalidAppendHeight, which StoreBlock ignores.
InvalidAppendHeight(h) == h # loaded[TopPile] + 1

\* Mutant: one block more than a chunk has.
AppendDataOneMore(h) ==
    /\ open /\ at = "idle" /\ count > 0
    /\ ~InvalidAppendHeight(h)
    /\ target' = h
    /\ at' = IF loaded[TopPile] - Begin(TopPile) > ChunkUnit THEN "create" ELSE "data"
    /\ UNCHANGED <<header, body, open, count, loaded, openErr, appended>>

AppendData(h) ==
    /\ open /\ at = "idle" /\ count > 0
    /\ ~InvalidAppendHeight(h)
    /\ target' = h
    /\ at' = IF loaded[TopPile] - Begin(TopPile) >= ChunkUnit THEN "create" ELSE "data"
    /\ UNCHANGED <<header, body, open, count, loaded, openErr, appended>>

\* NewPile: the file is created, or emptied, then its header is written.
CreatePile ==
    /\ at = "create"
    /\ made' = [made EXCEPT ![count] = "empty"]
    /\ data' = [h \in Heights |-> IF PileOf(h) = count THEN "none" ELSE data[h]]
    /\ offset' = [h \in Heights |-> IF PileOf(h) = count THEN FALSE ELSE offset[h]]
    /\ at' = "header"
    /\ UNCHANGED <<headHeight, checkA, checkB, open, count, loaded, target, openErr, appended>>

WriteHeader ==
    /\ at = "header"
    /\ made' = [made EXCEPT ![count] = "header"]
    /\ headHeight' = [headHeight EXCEPT ![count] = Begin(count)]
    /\ checkA' = [checkA EXCEPT ![count] = Begin(count)]
    /\ checkB' = [checkB EXCEPT ![count] = Begin(count)]
    /\ loaded' = [loaded EXCEPT ![count] = Begin(count)]
    /\ count' = count + 1
    /\ at' = IF target = 0 THEN "idle" ELSE "data"
    /\ UNCHANGED <<body, open, target, openErr, appended>>

\* The data are several writes; a crash among them leaves torn data.
WriteData ==
    /\ at = "data"
    /\ data' = [data EXCEPT ![target] = "torn"]
    /\ at' = "dataEnd"
    /\ UNCHANGED <<header, offset, open, count, loaded, target, openErr, appended>>

WriteDataEnd ==
    /\ at = "dataEnd"
    /\ data' = [data EXCEPT ![target] = "whole"]
    /\ at' = "offset"
    /\ UNCHANGED <<header, offset, open, count, loaded, target, openErr, appended>>

WriteOffset ==
    /\ at = "offset"
    /\ offset' = [offset EXCEPT ![target] = TRUE]
    /\ at' = "head"
    /\ UNCHANGED <<header, data, open, count, loaded, target, openErr, appended>>

WriteHead ==
    /\ at = "head"
    /\ headHeight' = [headHeight EXCEPT ![TopPile] = loaded[TopPile] + 1]
    /\ at' = "checkA"
    /\ UNCHANGED <<made, checkA, checkB, body, open, count, loaded, target, openErr, appended>>

WriteCheckA ==
    /\ at = "checkA"
    /\ checkA' = [checkA EXCEPT ![TopPile] = loaded[TopPile] + 1]
    /\ at' = "checkB"
    /\ UNCHANGED <<made, headHeight, checkB, body, open, count, loaded, target, openErr, appended>>

WriteCheckB ==
    /\ at = "checkB"
    /\ checkB' = [checkB EXCEPT ![TopPile] = loaded[TopPile] + 1]
    /\ loaded' = [loaded EXCEPT ![TopPile] = @ + 1]
    /\ at' = "idle"
    /\ appended' = loaded[TopPile] + 1
    /\ UNCHANGED <<made, headHeight, checkA, body, open, count, target, openErr>>

AppendStep ==
    \/ CreatePile \/ WriteHeader \/ WriteData \/ WriteDataEnd
    \/ WriteOffset \/ WriteHead \/ WriteCheckA \/ WriteCheckB

\* DB.Close, and a crash, which leaves the files as they are.
Halt ==
    /\ open' = FALSE
    /\ count' = 0
    /\ at' = "idle"
    /\ UNCHANGED <<header, body, loaded, target, openErr, appended>>

-----------------------------------------------------------------------------
(* GetHash, GetData and GetDatas.                                          *)

\* The height is in an open pile and not above its head.
Has(h) == h \in Heights /\ PileOf(h) < count /\ h <= loaded[PileOf(h)]

\* The data start at the offset of the block before, unless it is the first.
Reads(h) ==
    /\ (h - Begin(PileOf(h)) > 1) => offset[h - 1]
    /\ data[h] = "whole"

-----------------------------------------------------------------------------
(* The piles by themselves.                                                *)

Open ==
    \/ \E e \in OpenErrors : OpenFails(e)
    \/ \E h \in 0 .. MaxBlocks : OpenMisses(h) \/ OpenLoads(h)

PileNext ==
    \/ Open
    \/ DBInit
    \/ \E h \in Heights : AppendData(h)
    \/ AppendStep
    \/ Halt

PileSpec == PileInit /\ [][PileNext]_pileVars

-----------------------------------------------------------------------------
(* Properties.                                                             *)

\* Whatever AppendData was doing when the node stopped, LoadPile can reconcile
\* the three heights of a pile and finds its file long enough.
HeadsReconcile == openErr \notin {"ErrHeightCrashed", "ErrInvalidFileSize"}

\* Every block AppendData has returned for can be read from the open piles,
\* however often the node has crashed and opened them again.
AppendedBlocksStay == open => \A h \in 1 .. appended : Has(h) /\ Reads(h)

(* The inductive invariant.                                                *)

\* The three heights of a pile while AppendData works on it, after a crash too.
HeadsClose(i) ==
    \/ headHeight[i] = checkA[i] /\ checkA[i] = checkB[i]
    \/ headHeight[i] = checkA[i] + 1 /\ checkA[i] = checkB[i]
    \/ headHeight[i] = checkA[i] /\ checkA[i] = checkB[i] + 1

Full(i) ==
    /\ made[i] = "header"
    /\ headHeight[i] = Begin(i) + ChunkUnit
    /\ checkA[i] = Begin(i) + ChunkUnit
    /\ checkB[i] = Begin(i) + ChunkUnit

\* A pile with a header: its heights are in its range and its blocks are whole.
PileSound(i) ==
    /\ HeadsClose(i)
    /\ Begin(i) <= checkB[i] /\ headHeight[i] <= Begin(i) + ChunkUnit
    /\ headHeight[i] <= MaxBlocks
    /\ \A h \in Heights : Begin(i) < h /\ h <= headHeight[i] => data[h] = "whole" /\ offset[h]

\* Only the last pile can be unfinished.
PilesInOrder ==
    /\ \A i \in PileNumbers : made[i] = "header" => PileSound(i)
    /\ \A i, j \in PileNumbers : j < i /\ made[i] # "none" => Full(j)

\* What is in memory agrees with the files.
OpenPiles ==
    /\ count <= MaxBlocks + 1
    /\ \A i \in PileNumbers : i < count => made[i] = "header" /\ loaded[i] = checkB[i]
    /\ \A i \in PileNumbers : count < i => made[i] = "none"
    /\ at = "header" => made[count] = "empty"
    /\ count > 0 /\ count \in PileNumbers /\ at # "header" => made[count] = "none"

NoPiles ==
    /\ appended = 0
    /\ at \in {"idle", "create", "header"}
    /\ made[0] = "header" => checkB[0] = 0 /\ headHeight[0] = 0
    /\ made[0] = "empty" => at = "header"

Creating ==
    /\ count \in PileNumbers
    /\ count = 0 => target = 0
    /\ count > 0 => Full(TopPile) /\ target = Begin(count) + 1 /\ target \in Heights

Writing ==
    /\ count > 0
    /\ target \in Heights
    /\ target = loaded[TopPile] + 1
    /\ loaded[TopPile] < Begin(TopPile) + ChunkUnit
    /\ at \in {"offset", "head", "checkA", "checkB"} => data[target] = "whole"
    /\ at \in {"head", "checkA", "checkB"} => offset[target]

TopHeads ==
    /\ headHeight[TopPile] = loaded[TopPile] + (IF at \in {"checkA", "checkB"} THEN 1 ELSE 0)
    /\ checkA[TopPile] = loaded[TopPile] + (IF at = "checkB" THEN 1 ELSE 0)

MemoryAgrees ==
    /\ OpenPiles
    /\ count = 0 => NoPiles
    /\ count > 0 => TopHeads
    /\ at \in {"create", "header"} => Creating
    /\ at \in {"data", "dataEnd", "offset", "head", "checkA", "checkB"} => Writing

\* The appended blocks are in piles whose heights cover them.
AppendedCovered ==
    /\ appended <= MaxBlocks
    /\ \A h \in Heights : h <= appended =>
          made[PileOf(h)] = "header" /\ h <= checkB[PileOf(h)]

PileInv ==
    /\ PileTypeOK
    /\ PilesInOrder
    /\ AppendedCovered
    /\ HeadsReconcile
    /\ open => MemoryAgrees
    /\ ~open => count = 0 /\ at = "idle"

=============================================================================
