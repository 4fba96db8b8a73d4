----------------------------- MODULE PileProofs -----------------------------
(***************************************************************************)
(* For every size of a chunk and every number of blocks: the piles can     *)
(* always be opened up to a missing or unfinished file, and keep every     *)
(* block that was appended.                                                *)
(***************************************************************************)
EXTENDS Pile, TLAPS

-----------------------------------------------------------------------------
(* Arithmetic of chunks.                                                   *)

\* A pile begins where the pile before it ends, or later.
LEMMA BeginGrows ==
    \A i, j \in Nat : i < j => Begin(i) + ChunkUnit <= Begin(j)
  <1>1. \A i, j, n \in Nat : i < j => i * n + n <= j * n
    BY SMTT(30)
  <1> QED
    BY <1>1, PileAssumption DEF Begin

\* The beginning of a pile is a height, zero for the first pile only.
LEMMA BeginIsNat ==
    /\ Begin(0) = 0
    /\ \A i \in Nat : Begin(i) \in Nat /\ i <= Begin(i)
    /\ \A i \in Nat : Begin(i + 1) = Begin(i) + ChunkUnit
  <1>1. \A i, n \in Nat : n > 0 => i <= i * n /\ i * n \in Nat
    BY SMTT(30)
  <1>2. \A i, n \in Nat : (i + 1) * n = i * n + n
    BY SMTT(30)
  <1>3. \A n \in Nat : 0 * n = 0
    BY SMTT(30)
  <1> QED
    BY <1>1, <1>2, <1>3, PileAssumption DEF Begin

\* A height belongs to the pile that PileOf gives, and to no other.
LEMMA PileOfHeight ==
    /\ \A h \in Heights : /\ PileOf(h) \in PileNumbers
                          /\ Begin(PileOf(h)) < h
                          /\ h <= Begin(PileOf(h)) + ChunkUnit
    /\ \A h \in Heights : \A i \in Nat :
          Begin(i) < h /\ h <= Begin(i) + ChunkUnit => i = PileOf(h)
  <1>1. \A m, n \in Nat : n > 0 => m \div n \in Nat /\ (m \div n) * n <= m /\ m < (m \div n) * n + n
    BY SMTT(30)
  <1>2. \A h \in Heights : /\ PileOf(h) \in Nat
                           /\ Begin(PileOf(h)) < h
                           /\ h <= Begin(PileOf(h)) + ChunkUnit
    <2> SUFFICES ASSUME NEW h \in Heights
                 PROVE  PileOf(h) \in Nat /\ Begin(PileOf(h)) < h /\ h <= Begin(PileOf(h)) + ChunkUnit
      OBVIOUS
    <2>1. h - 1 \in Nat /\ ChunkUnit \in Nat /\ ChunkUnit > 0 /\ h \in Nat
      BY PileAssumption DEF Heights
    <2>2. LET q == (h - 1) \div ChunkUnit IN q \in Nat /\ q * ChunkUnit <= h - 1 /\ h - 1 < q * ChunkUnit + ChunkUnit
      BY <1>1, <2>1
    <2>3. PileOf(h) \in Nat /\ Begin(PileOf(h)) <= h - 1 /\ h - 1 < Begin(PileOf(h)) + ChunkUnit
      BY <2>2 DEF PileOf, Begin
    <2> QED
      BY <2>1, <2>3, BeginIsNat
  <1>3. \A h \in Heights : PileOf(h) \in PileNumbers
    BY <1>2, BeginIsNat, PileAssumption DEF Heights, PileNumbers
  <1>4. \A h \in Heights : \A i \in Nat : Begin(i) < h /\ h <= Begin(i) + ChunkUnit => i = PileOf(h)
    <2> SUFFICES ASSUME NEW h \in Heights, NEW i \in Nat, Begin(i) < h, h <= Begin(i) + ChunkUnit
                 PROVE  i = PileOf(h)
      OBVIOUS
    <2> DEFINE p == PileOf(h)
    <2>1. p \in Nat /\ Begin(p) < h /\ h <= Begin(p) + ChunkUnit
      BY <1>2
    <2>2. Begin(p) \in Nat /\ Begin(i) \in Nat /\ h \in Nat /\ ChunkUnit \in Nat
      BY <2>1, BeginIsNat, PileAssumption DEF Heights
    <2> HIDE DEF p
    <2>3. i < p => Begin(i) + ChunkUnit <= Begin(p)
      BY <2>1, BeginGrows
    <2>4. p < i => Begin(p) + ChunkUnit <= Begin(i)
      BY <2>1, BeginGrows
    <2>5. i = p
      BY <2>1, <2>2, <2>3, <2>4
    <2> QED
      BY <2>5 DEF p
  <1> QED
    BY <1>2, <1>3, <1>4

-----------------------------------------------------------------------------
(* What the invariant says of one pile.                                    *)

\* LoadPile reconciles the heights of a sound pile to one that the pile covers.
LEMMA SoundPileLoads ==
    ASSUME PileTypeOK, NEW i \in PileNumbers, made[i] = "header", PileSound(i)
    PROVE  /\ LoadError(i) = "none"
           /\ Recovered(i) \in Nat
           /\ Begin(i) <= Recovered(i) /\ Recovered(i) <= Begin(i) + ChunkUnit
           /\ checkB[i] <= Recovered(i) /\ Recovered(i) <= headHeight[i]
  <1>1. headHeight[i] \in Nat /\ checkA[i] \in Nat /\ checkB[i] \in Nat /\ Begin(i) \in Nat
    BY BeginIsNat, PileAssumption DEF PileTypeOK, PileNumbers
  <1>2. Consistent(i)
    BY <1>1 DEF Consistent, PileSound, HeadsClose
  <1>3. /\ Recovered(i) \in Nat
        /\ Begin(i) <= Recovered(i) /\ Recovered(i) <= Begin(i) + ChunkUnit
        /\ checkB[i] <= Recovered(i) /\ Recovered(i) <= headHeight[i]
    BY <1>1, PileAssumption DEF Recovered, PileSound, HeadsClose
  <1>4. ~TooShort(i)
    BY <1>1, <1>3 DEF TooShort, PileSound
  <1> QED
    BY <1>2, <1>3, <1>4 DEF LoadError

\* The initial state satisfies the invariant.
LEMMA PileInitInv == PileInit => PileInv
  <1> SUFFICES ASSUME PileInit PROVE PileInv
    OBVIOUS
  <1>1. PileTypeOK
    BY DEF PileInit, PileTypeOK, OpenErrors, Steps
  <1>2. PilesInOrder
    BY DEF PileInit, PilesInOrder
  <1>3. AppendedCovered
    BY PileAssumption DEF PileInit, AppendedCovered, Heights
  <1> QED
    BY <1>1, <1>2, <1>3 DEF PileInit, PileInv, HeadsReconcile

\* A failed Open changes its error only, and the error is one of the known ones.
LEMMA OpenFailsInv ==
    ASSUME PileInv, NEW e \in OpenErrors, OpenFails(e)
    PROVE  PileInv'
  <1>1. PICK i \in Files : LoadError(i) = e
    BY DEF OpenFails
  <1>2. i \in PileNumbers /\ made[i] \in {"empty", "header"}
    BY DEF Files, PileInv, PileTypeOK
  <1>3. made[i] = "header" => PileSound(i)
    BY <1>2 DEF PileInv, PilesInOrder
  <1>4. made[i] # "header"
    BY <1>1, <1>2, <1>3, SoundPileLoads DEF OpenFails, PileInv
  <1>5. e = "ErrNoHeader"
    BY <1>1, <1>2, <1>4 DEF LoadError
  <1>6. UNCHANGED <<header, body, memory, appended>> /\ openErr' = e
    BY DEF OpenFails
  <1> QED
    BY <1>5, <1>6 DEF PileInv, PileTypeOK, PilesInOrder, AppendedCovered, HeadsReconcile, OpenErrors,
       header, body, memory, PileSound, HeadsClose, Full, MemoryAgrees, OpenPiles, NoPiles, Creating,
       Writing, TopHeads, TopPile

\* An Open that misses a pile changes its error only.
LEMMA OpenMissesInv ==
    ASSUME PileInv, NEW h \in 0 .. MaxBlocks, OpenMisses(h)
    PROVE  PileInv'
  <1>6. UNCHANGED <<header, body, memory, appended>> /\ openErr' = "ErrMissingPile"
    BY DEF OpenMisses
  <1> QED
    BY <1>6 DEF PileInv, PileTypeOK, PilesInOrder, AppendedCovered, HeadsReconcile, OpenErrors,
       header, body, memory, PileSound, HeadsClose, Full, MemoryAgrees, OpenPiles, NoPiles, Creating,
       Writing, TopHeads, TopPile

\* Opening writes the reconciled heights into every pile.
LEMMA OpenLoadsInv ==
    ASSUME PileInv, NEW h \in 0 .. MaxBlocks, OpenLoads(h)
    PROVE  PileInv'
  <1>1. PileTypeOK /\ PilesInOrder /\ AppendedCovered /\ HeadsReconcile
    BY DEF PileInv
  <1>2. \A i \in Files : i \in PileNumbers /\ made[i] = "header" /\ PileSound(i)
    <2> SUFFICES ASSUME NEW i \in Files PROVE i \in PileNumbers /\ made[i] = "header" /\ PileSound(i)
      OBVIOUS
    <2>1. i \in PileNumbers /\ made[i] \in {"empty", "header"}
      BY <1>1 DEF Files, PileTypeOK
    <2>2. LoadError(i) = "none"
      BY DEF OpenLoads
    <2>3. made[i] = "header"
      BY <2>1, <2>2 DEF LoadError
    <2> QED
      BY <1>1, <2>1, <2>3 DEF PilesInOrder
  <1>3. \A i \in PileNumbers : made[i] # "none" <=> i \in Files
    BY DEF Files
  <1>4. \A i \in Files : /\ Recovered(i) \in Nat
                         /\ Begin(i) <= Recovered(i) /\ Recovered(i) <= Begin(i) + ChunkUnit
                         /\ checkB[i] <= Recovered(i) /\ Recovered(i) <= headHeight[i]
    BY <1>1, <1>2, SoundPileLoads
  <1>5. /\ made' = made /\ data' = data /\ offset' = offset /\ target' = target /\ appended' = appended
        /\ openErr' = "none" /\ open' = TRUE /\ at' = "idle"
        /\ count' = IF h > 0 THEN (h \div ChunkUnit) + 1 ELSE 0
    BY DEF OpenLoads, body
  <1>6. \A i \in Files : headHeight'[i] = Recovered(i) /\ checkA'[i] = Recovered(i) /\ checkB'[i] = Recovered(i) /\ loaded'[i] = Recovered(i)
    BY <1>2 DEF OpenLoads
  <1>7. \A i \in PileNumbers : Begin(i) \in Nat
    BY BeginIsNat DEF PileNumbers
  <1>8. h \in Nat /\ h <= MaxBlocks /\ \A i \in Files : Recovered(i) <= h
    BY PileAssumption DEF OpenLoads, IsMaxHeight
  <1>9. PileTypeOK'
    <2>1. count' \in Nat
      <3>1. \A m, n \in Nat : n > 0 => m \div n \in Nat
        BY SMTT(30)
      <3> QED
        BY <1>5, <1>8, <3>1, PileAssumption
    <2>2. headHeight' \in [PileNumbers -> Nat] /\ checkA' \in [PileNumbers -> Nat]
          /\ checkB' \in [PileNumbers -> Nat] /\ loaded' \in [PileNumbers -> Nat]
      BY <1>1, <1>4 DEF OpenLoads, PileTypeOK
    <2> QED
      BY <1>1, <1>5, <2>1, <2>2 DEF PileTypeOK, OpenErrors, Steps
  <1>10. PilesInOrder'
    <2>1. ASSUME NEW i \in PileNumbers, made[i] = "header" PROVE PileSound(i)'
      <3>1. i \in Files /\ PileSound(i)
        BY <1>2, <1>3, <2>1
      <3>2. headHeight[i] \in Nat /\ ChunkUnit \in Nat /\ MaxBlocks \in Nat
        BY <1>1, PileAssumption DEF PileTypeOK
      <3>3. HeadsClose(i)'
        BY <3>1, <1>6 DEF HeadsClose
      <3>4. \A k \in Heights : Begin(i) < k /\ k <= Recovered(i) => data[k] = "whole" /\ offset[k]
        BY <3>1, <3>2, <1>4, <1>7 DEF PileSound, Heights
      <3> QED
        BY <3>1, <3>2, <3>3, <3>4, <1>4, <1>5, <1>6, <1>7 DEF PileSound
    <2>2. ASSUME NEW i \in PileNumbers, NEW j \in PileNumbers, j < i, made[i] # "none" PROVE Full(j)'
      <3>1. Full(j)
        BY <2>2, <1>1 DEF PilesInOrder
      <3>2. j \in Files /\ Recovered(j) = Begin(j) + ChunkUnit
        BY <3>1, <1>3 DEF Full, Recovered
      <3> QED
        BY <3>1, <3>2, <1>5, <1>6 DEF Full
    <2> QED
      BY <2>1, <2>2, <1>5 DEF PilesInOrder
  <1>11. AppendedCovered'
    <2>1. ASSUME NEW k \in Heights, k <= appended PROVE made[PileOf(k)] = "header" /\ k <= checkB'[PileOf(k)]
      <3>1. made[PileOf(k)] = "header" /\ k <= checkB[PileOf(k)] /\ PileOf(k) \in Files
        BY <2>1, <1>1, <1>3, PileOfHeight DEF AppendedCovered
      <3>2. checkB[PileOf(k)] \in Nat /\ k \in Nat
        BY <1>1, PileOfHeight DEF PileTypeOK, Heights
      <3> QED
        BY <3>1, <3>2, <1>4, <1>6
    <2> QED
      BY <2>1, <1>1, <1>5 DEF AppendedCovered
  <1>12. MemoryAgrees'
    <2>1. CASE h = 0
      <3>1. \A i \in Files : Recovered(i) = 0
        BY <2>1, <1>4, <1>8
      <3>2. \A i \in Files : i = 0
        BY <3>1, <1>2, <1>4, BeginIsNat DEF PileNumbers
      <3>3. appended = 0
        <4>1. ASSUME appended > 0 PROVE FALSE
          <5>1. 1 \in Heights /\ 1 <= appended
            BY <4>1, <1>1, PileAssumption DEF AppendedCovered, Heights, PileTypeOK
          <5>2. made[PileOf(1)] = "header" /\ 1 <= checkB[PileOf(1)] /\ PileOf(1) \in Files
            BY <5>1, <1>1, <1>3, PileOfHeight DEF AppendedCovered
          <5>3. checkB[PileOf(1)] \in Nat
            BY <5>1, <1>1, PileOfHeight DEF PileTypeOK
          <5> QED
            BY <5>2, <5>3, <1>4, <3>1
        <4> QED
          BY <4>1, <1>1 DEF PileTypeOK
      <3>4. count' = 0 /\ at' = "idle" /\ 0 \in PileNumbers
        BY <2>1, <1>5, PileAssumption DEF PileNumbers
      <3>5. OpenPiles'
        BY <3>2, <3>4, <1>3, <1>5, PileAssumption DEF OpenPiles, PileNumbers
      <3>6. NoPiles'
        <4>1. made[0] = "header" => checkB'[0] = 0 /\ headHeight'[0] = 0
          BY <3>1, <3>4, <1>3, <1>6
        <4>2. made[0] # "empty"
          BY <3>4, <1>2, <1>3
        <4> QED
          BY <4>1, <4>2, <3>3, <3>4, <1>5 DEF NoPiles
      <3> QED
        BY <3>4, <3>5, <3>6 DEF MemoryAgrees
    <2>2. CASE h > 0
      <3> DEFINE q == h \div ChunkUnit
      <3>1. q \in Nat /\ q * ChunkUnit <= h /\ h < q * ChunkUnit + ChunkUnit
        <4>1. \A m, n \in Nat : n > 0 => m \div n \in Nat /\ (m \div n) * n <= m /\ m < (m \div n) * n + n
          BY SMTT(30)
        <4> QED
          BY <4>1, <1>8, PileAssumption
      <3>2. count' = q + 1 /\ \A i \in 0 .. q : i \in Files
        BY <2>2, <1>5 DEF OpenLoads, Missing
      <3> HIDE DEF q
      <3>3. Begin(q) <= h /\ h < Begin(q + 1)
        BY <3>1, BeginIsNat DEF Begin
      <3>4. \A i \in PileNumbers : q < i => i \notin Files
        <4> SUFFICES ASSUME NEW i \in PileNumbers, q < i, i \in Files PROVE FALSE
          OBVIOUS
        <4>1. Begin(q) + ChunkUnit <= Begin(i) /\ Begin(q + 1) = Begin(q) + ChunkUnit /\ i \in Nat
          BY <3>1, BeginGrows, BeginIsNat DEF PileNumbers
        <4>2. Begin(q) \in Nat /\ Begin(i) \in Nat
          BY <3>1, <4>1, BeginIsNat
        <4> QED
          BY <4>1, <4>2, <3>3, <1>4, <1>8, PileAssumption
      <3>5. q \in PileNumbers /\ q \in Files
        BY <3>1, <3>2, <1>2
      <3>6. OpenPiles'
        <4>1. \A i \in PileNumbers : i < count' => i \in Files
          BY <3>1, <3>2 DEF PileNumbers
        <4>2. \A i \in PileNumbers : ~(i < count') => i \notin Files
          BY <3>1, <3>2, <3>4 DEF PileNumbers
        <4>3. \A i \in PileNumbers : count' < i => made'[i] = "none"
          BY <4>2, <1>3, <1>5, <3>1, <3>2 DEF PileNumbers
        <4>4. count' <= MaxBlocks + 1
          BY <3>1, <3>2, <3>5, PileAssumption DEF PileNumbers
        <4>5. count' \in PileNumbers => made'[count'] = "none"
          BY <4>2, <1>3, <1>5, <3>1, <3>2
        <4>6. \A i \in PileNumbers : i < count' => made'[i] = "header" /\ loaded'[i] = checkB'[i]
          BY <4>1, <1>2, <1>5, <1>6
        <4> QED
          BY <4>3, <4>4, <4>5, <4>6, <1>5 DEF OpenPiles
      <3>7. TopHeads'
        BY <3>1, <3>2, <3>5, <1>4, <1>5, <1>6 DEF TopHeads, TopPile
      <3> QED
        BY <3>1, <3>2, <3>6, <3>7, <1>5 DEF MemoryAgrees
    <2> QED
      BY <2>1, <2>2, <1>8
  <1> QED
    BY <1>5, <1>9, <1>10, <1>11, <1>12 DEF PileInv, HeadsReconcile

-----------------------------------------------------------------------------
(* The steps of AppendData.                                                *)

\* What the invariant says of the last open pile.
LEMMA TopPileFacts ==
    ASSUME PileInv, open, count > 0
    PROVE  /\ TopPile \in PileNumbers /\ TopPile < count /\ TopPile + 1 = count
           /\ TopPile \in Nat
           /\ made[TopPile] = "header" /\ PileSound(TopPile)
           /\ loaded[TopPile] = checkB[TopPile] /\ loaded[TopPile] \in Nat
           /\ Begin(TopPile) \in Nat /\ Begin(TopPile) <= loaded[TopPile]
           /\ TopHeads
           /\ \A j \in PileNumbers : j < TopPile => Full(j)
           /\ \A j \in PileNumbers : TopPile < j => made[j] # "header"
           /\ at # "header" => \A j \in PileNumbers : TopPile < j => made[j] = "none"
  <1>1. PileTypeOK /\ PilesInOrder /\ OpenPiles /\ TopHeads
    BY DEF PileInv, MemoryAgrees
  <1>2. TopPile \in PileNumbers /\ TopPile < count /\ TopPile + 1 = count
    BY <1>1, PileAssumption DEF PileTypeOK, OpenPiles, TopPile, PileNumbers
  <1>3. made[TopPile] = "header" /\ loaded[TopPile] = checkB[TopPile]
    BY <1>1, <1>2 DEF OpenPiles
  <1>4. PileSound(TopPile) /\ \A j \in PileNumbers : j < TopPile => Full(j)
    BY <1>1, <1>2, <1>3 DEF PilesInOrder
  <1>5. loaded[TopPile] \in Nat /\ Begin(TopPile) \in Nat
    <2>1. loaded[TopPile] \in Nat
      BY <1>1, <1>2 DEF PileTypeOK
    <2>2. TopPile \in Nat
      BY <1>2 DEF PileNumbers
    <2> QED
      BY <2>1, <2>2, BeginIsNat
  <1>6. Begin(TopPile) <= loaded[TopPile]
    BY <1>3, <1>4 DEF PileSound
  <1>7. \A j \in PileNumbers : TopPile < j => made[j] # "header" /\ (at # "header" => made[j] = "none")
    <2> SUFFICES ASSUME NEW j \in PileNumbers, TopPile < j
                 PROVE  made[j] # "header" /\ (at # "header" => made[j] = "none")
      OBVIOUS
    <2>1. j = count \/ count < j
      BY <1>1, <1>2 DEF PileNumbers, PileTypeOK
    <2>2. CASE count < j
      BY <2>2, <1>1 DEF OpenPiles
    <2>3. CASE j = count
      BY <2>3, <1>1 DEF OpenPiles
    <2> QED
      BY <2>1, <2>2, <2>3
  <1>8. TopPile \in Nat
    BY <1>2 DEF PileNumbers
  <1> QED
    BY <1>1, <1>2, <1>3, <1>4, <1>5, <1>6, <1>7, <1>8

\* DB.Init and the start of AppendData only choose the first step.
LEMMA BeginInv ==
    ASSUME PileInv, DBInit \/ \E h \in Heights : AppendData(h)
    PROVE  PileInv'
  <1>1. /\ UNCHANGED <<header, body, open, count, loaded, openErr, appended>>
        /\ open /\ at = "idle"
    BY DEF DBInit, AppendData
  <1>2. PileTypeOK /\ PilesInOrder /\ AppendedCovered /\ HeadsReconcile /\ MemoryAgrees
    BY <1>1 DEF PileInv
  <1>3. PilesInOrder' /\ AppendedCovered' /\ HeadsReconcile'
    BY <1>1, <1>2 DEF PilesInOrder, AppendedCovered, HeadsReconcile, header, body, PileSound, HeadsClose, Full
  <1>4. CASE DBInit
    <2>1. count = 0 /\ at' = "create" /\ target' = 0
      BY <1>2, <1>4 DEF DBInit, AlreadyInitialized, PileTypeOK
    <2>2. PileTypeOK'
      BY <1>1, <1>2, <2>1 DEF PileTypeOK, Steps, header, body
    <2>3. OpenPiles' /\ NoPiles'
      BY <1>1, <1>2, <2>1 DEF MemoryAgrees, OpenPiles, NoPiles, header
    <2>4. Creating'
      BY <1>1, <2>1, PileAssumption DEF Creating, PileNumbers
    <2> QED
      BY <1>1, <1>3, <2>1, <2>2, <2>3, <2>4 DEF PileInv, MemoryAgrees
  <1>5. CASE \E h \in Heights : AppendData(h)
    <2>1. PICK h \in Heights : AppendData(h)
      BY <1>5
    <2>2. /\ count > 0 /\ h = loaded[TopPile] + 1 /\ target' = h
          /\ at' = IF loaded[TopPile] - Begin(TopPile) >= ChunkUnit THEN "create" ELSE "data"
      BY <2>1 DEF AppendData, InvalidAppendHeight
    <2>3. PileTypeOK'
      BY <1>1, <1>2, <2>2 DEF PileTypeOK, Steps, header, body, Heights
    <2>4. OpenPiles' /\ TopHeads'
      BY <1>1, <1>2, <2>2 DEF MemoryAgrees, OpenPiles, TopHeads, TopPile, header
    <2>5. /\ TopPile \in PileNumbers /\ TopPile + 1 = count /\ loaded[TopPile] \in Nat /\ Begin(TopPile) \in Nat
          /\ PileSound(TopPile) /\ TopHeads /\ loaded[TopPile] = checkB[TopPile] /\ made[TopPile] = "header"
      BY <1>1, <2>2, TopPileFacts
    <2>6. CASE loaded[TopPile] - Begin(TopPile) >= ChunkUnit
      <3>1. loaded[TopPile] = Begin(TopPile) + ChunkUnit
        BY <2>5, <2>6, <1>1, PileAssumption DEF PileSound, TopHeads
      <3>2. Full(TopPile)
        BY <2>5, <3>1, <1>1 DEF Full, TopHeads
      <3>3. Begin(count) = Begin(TopPile) + ChunkUnit /\ count <= Begin(count)
        BY <2>5, BeginIsNat DEF PileNumbers
      <3>4. count \in PileNumbers
        BY <2>2, <2>5, <3>1, <3>3, <1>2, PileAssumption DEF PileNumbers, Heights, PileTypeOK
      <3>5. Creating'
        BY <1>1, <2>2, <3>1, <3>2, <3>3, <3>4 DEF Creating, Full, TopPile, header
      <3> QED
        BY <1>1, <1>3, <2>2, <2>3, <2>4, <2>6, <3>5 DEF PileInv, MemoryAgrees
    <2>7. CASE ~(loaded[TopPile] - Begin(TopPile) >= ChunkUnit)
      <3>1. loaded[TopPile] < Begin(TopPile) + ChunkUnit
        BY <2>5, <2>7, PileAssumption
      <3>2. Writing'
        BY <1>1, <2>2, <2>7, <3>1 DEF Writing, TopPile
      <3> QED
        BY <1>1, <1>3, <2>2, <2>3, <2>4, <2>7, <3>2 DEF PileInv, MemoryAgrees
    <2> QED
      BY <2>6, <2>7
  <1> QED
    BY <1>4, <1>5

\* Halt forgets the memory and leaves the files.
LEMMA HaltInv ==
    ASSUME PileInv, Halt
    PROVE  PileInv'
  BY DEF Halt, PileInv, PileTypeOK, PilesInOrder, AppendedCovered, HeadsReconcile, Steps,
     header, body, PileSound, HeadsClose, Full

\* NewPile creates a file after the last pile, which no appended block is in.
LEMMA CreatePileInv ==
    ASSUME PileInv, CreatePile
    PROVE  PileInv'
  <1>1. /\ open /\ at = "create"
        /\ PileTypeOK /\ PilesInOrder /\ AppendedCovered /\ HeadsReconcile /\ MemoryAgrees
    BY DEF CreatePile, PileInv
  <1>2. OpenPiles /\ Creating /\ count \in PileNumbers /\ count \in Nat
    BY <1>1 DEF MemoryAgrees, Creating, PileTypeOK
  <1>3. /\ made' = [made EXCEPT ![count] = "empty"]
        /\ data' = [h \in Heights |-> IF PileOf(h) = count THEN "none" ELSE data[h]]
        /\ offset' = [h \in Heights |-> IF PileOf(h) = count THEN FALSE ELSE offset[h]]
        /\ at' = "header"
        /\ UNCHANGED <<headHeight, checkA, checkB, open, count, loaded, target, openErr, appended>>
    BY DEF CreatePile
  <1>4. made'[count] = "empty" /\ \A i \in PileNumbers : i # count => made'[i] = made[i]
    BY <1>1, <1>2, <1>3 DEF PileTypeOK
  <1>5. PileTypeOK'
    BY <1>1, <1>2, <1>3 DEF PileTypeOK, Steps
  <1>6. ASSUME NEW j \in PileNumbers, j < count PROVE Full(j)
    <2>1. count > 0
      BY <1>6, <1>2 DEF PileNumbers
    <2>2. TopPile \in PileNumbers /\ made[TopPile] # "none" /\ Full(TopPile) /\ TopPile + 1 = count
      BY <1>1, <1>2, <2>1, TopPileFacts DEF Creating
    <2>3. CASE j = TopPile
      BY <2>2, <2>3
    <2>4. CASE j < TopPile
      BY <2>2, <2>4, <1>1 DEF PilesInOrder
    <2> QED
      BY <2>2, <2>3, <2>4, <1>2, <1>6 DEF PileNumbers
  <1>7. PilesInOrder'
    <2>1. ASSUME NEW i \in PileNumbers, made'[i] = "header" PROVE PileSound(i)'
      <3>1. i # count /\ made[i] = "header" /\ PileSound(i)
        BY <2>1, <1>1, <1>4 DEF PilesInOrder
      <3>2. ASSUME NEW h \in Heights, Begin(i) < h, h <= headHeight[i]
            PROVE  data'[h] = "whole" /\ offset'[h]
        <4>1. h <= Begin(i) + ChunkUnit
          <5>1. h \in Nat /\ i \in Nat /\ ChunkUnit \in Nat
            BY PileAssumption DEF Heights, PileNumbers
          <5>2. headHeight[i] \in Nat
            BY <1>1 DEF PileTypeOK
          <5>3. Begin(i) \in Nat
            BY <5>1, BeginIsNat
          <5> QED
            BY <5>1, <5>2, <5>3, <3>1, <3>2 DEF PileSound
        <4>2. PileOf(h) = i
          BY <3>2, <4>1, PileOfHeight DEF PileNumbers
        <4> QED
          BY <3>1, <3>2, <4>2, <1>3 DEF PileSound
      <3> QED
        BY <3>1, <3>2, <1>3 DEF PileSound, HeadsClose
    <2>2. ASSUME NEW i \in PileNumbers, NEW j \in PileNumbers, j < i, made'[i] # "none" PROVE Full(j)'
      <3>1. i <= count
        BY <2>2, <1>2, <1>4 DEF OpenPiles, PileNumbers
      <3>2. j < count /\ j # count
        BY <2>2, <3>1, <1>2 DEF PileNumbers
      <3> QED
        BY <3>2, <1>3, <1>4, <1>6 DEF Full
    <2> QED
      BY <2>1, <2>2 DEF PilesInOrder
  <1>8. AppendedCovered'
    <2>1. ASSUME NEW h \in Heights, h <= appended PROVE PileOf(h) # count
      <3>1. count > 0
        BY <2>1, <1>1, <1>2 DEF MemoryAgrees, NoPiles, Heights
      <3>2. made[count] = "none"
        BY <3>1, <1>1, <1>2 DEF OpenPiles
      <3> QED
        BY <3>2, <2>1, <1>1 DEF AppendedCovered
    <2> QED
      BY <2>1, <1>1, <1>3, <1>4, PileOfHeight DEF AppendedCovered
  <1>9. MemoryAgrees'
    <2>1. OpenPiles'
      BY <1>1, <1>2, <1>3, <1>4 DEF OpenPiles, PileNumbers
    <2>2. count = 0 => NoPiles'
      BY <1>1, <1>3, <1>4 DEF MemoryAgrees, NoPiles
    <2>3. count > 0 => TopHeads'
      BY <1>1, <1>3 DEF MemoryAgrees, TopHeads, TopPile
    <2>4. Creating'
      <3>1. count > 0 => TopPile \in PileNumbers /\ TopPile # count
        BY <1>1, TopPileFacts
      <3> QED
        BY <3>1, <1>2, <1>3, <1>4 DEF Creating, Full, TopPile
    <2> QED
      BY <2>1, <2>2, <2>3, <2>4, <1>3 DEF MemoryAgrees
  <1> QED
    BY <1>1, <1>3, <1>5, <1>7, <1>8, <1>9 DEF PileInv, HeadsReconcile

\* The header makes the new file the last open pile.
LEMMA WriteHeaderInv ==
    ASSUME PileInv, WriteHeader
    PROVE  PileInv'
  <1>1. /\ open /\ at = "header"
        /\ PileTypeOK /\ PilesInOrder /\ AppendedCovered /\ HeadsReconcile /\ MemoryAgrees
    BY DEF WriteHeader, PileInv
  <1>2. OpenPiles /\ Creating /\ count \in PileNumbers /\ count \in Nat /\ made[count] = "empty"
    BY <1>1 DEF MemoryAgrees, Creating, PileTypeOK, OpenPiles
  <1>3. Begin(count) \in Nat /\ ChunkUnit \in Nat /\ ChunkUnit > 0 /\ MaxBlocks \in Nat
    BY <1>2, BeginIsNat, PileAssumption
  <1>4. /\ data' = data /\ offset' = offset /\ open' = open /\ target' = target
        /\ openErr' = openErr /\ appended' = appended /\ count' = count + 1
        /\ at' = IF target = 0 THEN "idle" ELSE "data"
    BY DEF WriteHeader, body
  <1>5. /\ made'[count] = "header" /\ headHeight'[count] = Begin(count) /\ checkA'[count] = Begin(count)
        /\ checkB'[count] = Begin(count) /\ loaded'[count] = Begin(count)
    BY <1>1, <1>2 DEF WriteHeader, PileTypeOK
  <1>6. \A i \in PileNumbers : i # count =>
           /\ made'[i] = made[i] /\ headHeight'[i] = headHeight[i] /\ checkA'[i] = checkA[i]
           /\ checkB'[i] = checkB[i] /\ loaded'[i] = loaded[i]
    BY <1>1, <1>2 DEF WriteHeader, PileTypeOK
  <1>7. PileTypeOK'
    <2>1. /\ made' \in [PileNumbers -> {"none", "empty", "header"}] /\ headHeight' \in [PileNumbers -> Nat]
          /\ checkA' \in [PileNumbers -> Nat] /\ checkB' \in [PileNumbers -> Nat] /\ loaded' \in [PileNumbers -> Nat]
      BY <1>1, <1>2, <1>3 DEF WriteHeader, PileTypeOK
    <2> QED
      BY <2>1, <1>1, <1>2, <1>4 DEF PileTypeOK, Steps
  <1>8. Begin(count) <= MaxBlocks
    <2>1. CASE count = 0
      BY <2>1, <1>3, BeginIsNat
    <2>2. CASE count > 0
      BY <2>2, <1>2, <1>3 DEF Creating, Heights
    <2> QED
      BY <2>1, <2>2, <1>2
  <1>9. PilesInOrder'
    <2>1. ASSUME NEW i \in PileNumbers, made'[i] = "header" PROVE PileSound(i)'
      <3>1. CASE i = count
        BY <3>1, <1>3, <1>5, <1>8 DEF PileSound, HeadsClose, Heights
      <3>2. CASE i # count
        BY <3>2, <2>1, <1>1, <1>4, <1>6 DEF PilesInOrder, PileSound, HeadsClose
      <3> QED
        BY <3>1, <3>2
    <2>2. ASSUME NEW i \in PileNumbers, NEW j \in PileNumbers, j < i, made'[i] # "none" PROVE Full(j)'
      <3>1. i <= count /\ j # count
        BY <2>2, <1>2, <1>6 DEF OpenPiles, PileNumbers
      <3>2. Full(j)
        <4>1. made[i] # "none"
          BY <2>2, <1>2, <1>6
        <4> QED
          BY <4>1, <2>2, <1>1 DEF PilesInOrder
      <3> QED
        BY <3>1, <3>2, <1>6 DEF Full
    <2> QED
      BY <2>1, <2>2 DEF PilesInOrder
  <1>10. AppendedCovered'
    BY <1>1, <1>2, <1>4, <1>6, PileOfHeight DEF AppendedCovered
  <1>11. MemoryAgrees'
    <2>1. OpenPiles'
      <3>1. ASSUME NEW i \in PileNumbers, i < count' PROVE made'[i] = "header" /\ loaded'[i] = checkB'[i]
        <4>1. i = count \/ i < count
          BY <3>1, <1>2, <1>4 DEF PileNumbers
        <4> QED
          BY <4>1, <1>2, <1>5, <1>6 DEF OpenPiles
      <3>2. ASSUME NEW i \in PileNumbers, count < i PROVE made'[i] = "none"
        BY <3>2, <1>2, <1>6 DEF OpenPiles, PileNumbers
      <3>3. count' <= MaxBlocks + 1 /\ at' # "header"
        BY <1>2, <1>3, <1>4 DEF PileNumbers
      <3> QED
        BY <3>1, <3>2, <3>3, <1>2, <1>4 DEF OpenPiles, PileNumbers
    <2>2. TopHeads'
      BY <1>2, <1>3, <1>4, <1>5 DEF TopHeads, TopPile
    <2>3. at' = "data" => Writing'
      BY <1>2, <1>3, <1>4, <1>5 DEF Writing, Creating, TopPile
    <2> QED
      BY <2>1, <2>2, <2>3, <1>2, <1>4 DEF MemoryAgrees
  <1> QED
    BY <1>1, <1>4, <1>7, <1>9, <1>10, <1>11 DEF PileInv, HeadsReconcile

\* While AppendData writes a block: which pile it is in, and that no pile's
\* height has come to it before HeadHeight is written.
LEMMA WritingFacts ==
    ASSUME PileInv, at \in {"data", "dataEnd", "offset", "head", "checkA", "checkB"}
    PROVE  /\ open /\ count > 0 /\ Writing /\ TopHeads /\ OpenPiles
           /\ target \in Heights /\ target \in Nat
           /\ Begin(TopPile) < target /\ target <= Begin(TopPile) + ChunkUnit /\ target <= MaxBlocks
           /\ TopPile = PileOf(target)
           /\ at \notin {"checkA", "checkB"} =>
                 \A i \in PileNumbers : made[i] = "header" => headHeight[i] < target
  <1>1. open /\ PileTypeOK /\ MemoryAgrees /\ PilesInOrder
    BY DEF PileInv
  <1>2. Writing /\ count > 0 /\ target \in Heights /\ OpenPiles
    BY <1>1 DEF MemoryAgrees, Writing
  <1>3. /\ TopPile \in PileNumbers /\ TopPile \in Nat /\ loaded[TopPile] \in Nat /\ Begin(TopPile) \in Nat
        /\ Begin(TopPile) <= loaded[TopPile] /\ TopHeads
        /\ \A j \in PileNumbers : j < TopPile => Full(j)
        /\ \A j \in PileNumbers : TopPile < j => made[j] # "header"
    BY <1>1, <1>2, TopPileFacts
  <1>4. target \in Nat /\ target <= MaxBlocks /\ ChunkUnit \in Nat
    BY <1>2, PileAssumption DEF Heights
  <1>5. Begin(TopPile) < target /\ target <= Begin(TopPile) + ChunkUnit
    BY <1>2, <1>3, <1>4 DEF Writing
  <1>6. TopPile = PileOf(target)
    BY <1>2, <1>3, <1>5, PileOfHeight
  <1>7. ASSUME at \notin {"checkA", "checkB"}, NEW i \in PileNumbers, made[i] = "header"
        PROVE  headHeight[i] < target
    <2>1. i \in Nat
      BY DEF PileNumbers
    <2>2. CASE i = TopPile
      BY <2>2, <1>2, <1>3, <1>7 DEF Writing, TopHeads
    <2>3. CASE i < TopPile
      <3>1. Begin(i) + ChunkUnit <= Begin(TopPile) /\ Begin(i) \in Nat
        BY <2>1, <2>3, <1>3, BeginGrows, BeginIsNat
      <3>2. headHeight[i] = Begin(i) + ChunkUnit
        BY <2>3, <1>3 DEF Full
      <3> QED
        BY <3>1, <3>2, <1>3, <1>4, <1>5
    <2> QED
      BY <2>1, <2>2, <2>3, <1>3, <1>7
  <1> QED
    BY <1>1, <1>2, <1>3, <1>4, <1>5, <1>6, <1>7

\* The data and their offset change nothing below the heights of the piles.
LEMMA WriteBodyInv ==
    ASSUME PileInv, WriteData \/ WriteDataEnd \/ WriteOffset
    PROVE  PileInv'
  <1>1. /\ at \in {"data", "dataEnd", "offset"}
        /\ UNCHANGED <<header, open, count, loaded, target, openErr, appended>>
    BY DEF WriteData, WriteDataEnd, WriteOffset
  <1>2. /\ made' = made /\ headHeight' = headHeight /\ checkA' = checkA /\ checkB' = checkB
        /\ open' = open /\ count' = count /\ loaded' = loaded /\ target' = target
        /\ openErr' = openErr /\ appended' = appended
    BY <1>1 DEF header
  <1>3. /\ open /\ count > 0 /\ Writing /\ TopHeads /\ OpenPiles /\ target \in Heights /\ target \in Nat
        /\ \A i \in PileNumbers : made[i] = "header" => headHeight[i] < target
    BY <1>1, WritingFacts
  <1>4. PileTypeOK /\ PilesInOrder /\ AppendedCovered /\ HeadsReconcile
    BY DEF PileInv
  <1>5. /\ \A h \in Heights : h # target => data'[h] = data[h] /\ offset'[h] = offset[h]
        /\ at = "data" => at' = "dataEnd"
        /\ at = "dataEnd" => at' = "offset" /\ data'[target] = "whole"
        /\ at = "offset" => at' = "head" /\ data'[target] = data[target] /\ offset'[target]
    BY <1>1, <1>3, <1>4 DEF WriteData, WriteDataEnd, WriteOffset, PileTypeOK
  <1>6. PileTypeOK'
    <2>1. data' \in [Heights -> {"none", "torn", "whole"}] /\ offset' \in [Heights -> BOOLEAN]
      BY <1>3, <1>4 DEF WriteData, WriteDataEnd, WriteOffset, PileTypeOK
    <2> QED
      BY <2>1, <1>1, <1>2, <1>4, <1>5 DEF PileTypeOK, Steps
  <1>7. PilesInOrder'
    <2>1. ASSUME NEW i \in PileNumbers, made[i] = "header" PROVE PileSound(i)'
      <3>1. PileSound(i) /\ headHeight[i] < target /\ headHeight[i] \in Nat
        BY <2>1, <1>3, <1>4 DEF PilesInOrder, PileTypeOK
      <3>2. ASSUME NEW h \in Heights, Begin(i) < h, h <= headHeight[i]
            PROVE  data'[h] = "whole" /\ offset'[h]
        <4>1. h # target
          BY <3>1, <3>2, <1>3 DEF Heights
        <4> QED
          BY <4>1, <3>1, <3>2, <1>5 DEF PileSound
      <3> QED
        BY <3>1, <3>2, <1>2 DEF PileSound, HeadsClose
    <2> QED
      BY <2>1, <1>2, <1>4 DEF PilesInOrder, Full
  <1>8. AppendedCovered' /\ HeadsReconcile'
    BY <1>2, <1>4 DEF AppendedCovered, HeadsReconcile
  <1>9. MemoryAgrees'
    <2>1. at' \in {"dataEnd", "offset", "head"}
      BY <1>1, <1>5
    <2>2. OpenPiles' /\ TopHeads'
      BY <2>1, <1>1, <1>2, <1>3 DEF OpenPiles, TopHeads, TopPile
    <2>3. Writing'
      BY <2>1, <1>1, <1>2, <1>3, <1>5 DEF Writing, TopPile
    <2> QED
      BY <2>1, <2>2, <2>3, <1>2, <1>3 DEF MemoryAgrees
  <1> QED
    BY <1>2, <1>3, <1>6, <1>7, <1>8, <1>9 DEF PileInv

\* The three heights of the last pile go up one after the other.
LEMMA WriteHeadsInv ==
    ASSUME PileInv, WriteHead \/ WriteCheckA \/ WriteCheckB
    PROVE  PileInv'
  <1>0. PICK t : t = TopPile
    OBVIOUS
  <1>1. at \in {"head", "checkA", "checkB"}
    BY DEF WriteHead, WriteCheckA, WriteCheckB
  <1>2. /\ open /\ count > 0 /\ Writing /\ TopHeads /\ OpenPiles /\ target \in Heights /\ target \in Nat
        /\ Begin(t) < target /\ target <= Begin(t) + ChunkUnit /\ target <= MaxBlocks /\ t = PileOf(target)
    BY <1>0, <1>1, WritingFacts
  <1>3. /\ t \in PileNumbers /\ t \in Nat /\ t + 1 = count /\ made[t] = "header" /\ PileSound(t)
        /\ loaded[t] = checkB[t] /\ loaded[t] \in Nat /\ Begin(t) \in Nat /\ Begin(t) <= loaded[t]
        /\ \A j \in PileNumbers : j < t => Full(j)
        /\ \A j \in PileNumbers : t < j => made[j] = "none"
    BY <1>0, <1>1, <1>2, TopPileFacts
  <1>4. PileTypeOK /\ PilesInOrder /\ AppendedCovered /\ HeadsReconcile
    BY DEF PileInv
  <1>5. /\ target = loaded[t] + 1 /\ loaded[t] < Begin(t) + ChunkUnit /\ data[target] = "whole" /\ offset[target]
        /\ headHeight[t] = loaded[t] + (IF at \in {"checkA", "checkB"} THEN 1 ELSE 0)
        /\ checkA[t] = loaded[t] + (IF at = "checkB" THEN 1 ELSE 0)
    BY <1>0, <1>1, <1>2 DEF Writing, TopHeads
  <1>6. /\ made' = made /\ data' = data /\ offset' = offset /\ open' = open /\ count' = count
        /\ target' = target /\ openErr' = openErr
    BY DEF WriteHead, WriteCheckA, WriteCheckB, body
  <1>7. \A i \in PileNumbers : i # t =>
           headHeight'[i] = headHeight[i] /\ checkA'[i] = checkA[i] /\ checkB'[i] = checkB[i] /\ loaded'[i] = loaded[i]
    BY <1>0, <1>3, <1>4 DEF WriteHead, WriteCheckA, WriteCheckB, PileTypeOK
  <1>8. /\ at = "head" => at' = "checkA" /\ headHeight'[t] = target /\ checkA'[t] = checkA[t]
                           /\ checkB'[t] = checkB[t] /\ loaded'[t] = loaded[t] /\ appended' = appended
        /\ at = "checkA" => at' = "checkB" /\ headHeight'[t] = headHeight[t] /\ checkA'[t] = target
                           /\ checkB'[t] = checkB[t] /\ loaded'[t] = loaded[t] /\ appended' = appended
        /\ at = "checkB" => at' = "idle" /\ headHeight'[t] = headHeight[t] /\ checkA'[t] = checkA[t]
                           /\ checkB'[t] = target /\ loaded'[t] = target /\ appended' = target
    BY <1>0, <1>3, <1>4, <1>5 DEF WriteHead, WriteCheckA, WriteCheckB, PileTypeOK
  <1>9. PileTypeOK'
    <2>1. /\ headHeight' \in [PileNumbers -> Nat] /\ checkA' \in [PileNumbers -> Nat]
          /\ checkB' \in [PileNumbers -> Nat] /\ loaded' \in [PileNumbers -> Nat]
      BY <1>0, <1>3, <1>4 DEF WriteHead, WriteCheckA, WriteCheckB, PileTypeOK
    <2>2. at' \in Steps /\ appended' \in Nat
      BY <1>1, <1>2, <1>4, <1>8 DEF PileTypeOK, Steps
    <2> QED
      BY <2>1, <2>2, <1>4, <1>6 DEF PileTypeOK
  <1>10. headHeight'[t] = target /\ HeadsClose(t)' /\ checkB'[t] \in Nat /\ checkB[t] <= checkB'[t]
    BY <1>1, <1>2, <1>3, <1>5, <1>8 DEF HeadsClose
  <1>11. PilesInOrder'
    <2>1. ASSUME NEW i \in PileNumbers, made[i] = "header", i # t PROVE PileSound(i)'
      BY <2>1, <1>4, <1>6, <1>7 DEF PilesInOrder, PileSound, HeadsClose
    <2>2. PileSound(t)'
      <3>1. ASSUME NEW h \in Heights, Begin(t) < h, h <= target PROVE data[h] = "whole" /\ offset[h]
        <4>1. CASE h = target
          BY <4>1, <1>5
        <4>2. CASE h # target
          <5>1. h <= loaded[t] /\ loaded[t] <= headHeight[t] /\ h \in Nat /\ headHeight[t] \in Nat
            BY <4>2, <3>1, <1>3, <1>5 DEF Heights
          <5> QED
            BY <5>1, <3>1, <1>3 DEF PileSound
        <4> QED
          BY <4>1, <4>2
      <3> QED
        BY <3>1, <1>2, <1>3, <1>6, <1>10, PileAssumption DEF PileSound
    <2>3. ASSUME NEW i \in PileNumbers, NEW j \in PileNumbers, j < i, made[i] # "none" PROVE Full(j)'
      <3>1. ~(t < i)
        BY <2>3, <1>3
      <3>2. j # t
        BY <3>1, <2>3, <1>3 DEF PileNumbers
      <3> QED
        BY <2>3, <3>2, <1>4, <1>6, <1>7 DEF PilesInOrder, Full
    <2> QED
      BY <2>1, <2>2, <2>3, <1>6 DEF PilesInOrder
  <1>12. AppendedCovered'
    <2>1. CASE at # "checkB"
      <3>1. appended' = appended /\ \A i \in PileNumbers : checkB'[i] = checkB[i]
        BY <2>1, <1>1, <1>7, <1>8
      <3> QED
        BY <3>1, <1>4, <1>6, PileOfHeight DEF AppendedCovered
    <2>2. CASE at = "checkB"
      <3>1. appended' = target /\ checkB'[t] = target
        BY <2>2, <1>8
      <3>2. ASSUME NEW h \in Heights, h <= target PROVE made[PileOf(h)] = "header" /\ h <= checkB'[PileOf(h)]
        <4> DEFINE p == PileOf(h)
        <4>1. p \in PileNumbers /\ p \in Nat /\ Begin(p) < h /\ h <= Begin(p) + ChunkUnit /\ h \in Nat
          BY PileOfHeight DEF PileNumbers, Heights
        <4> HIDE DEF p
        <4>2. Begin(p) \in Nat /\ ChunkUnit \in Nat
          BY <4>1, BeginIsNat, PileAssumption
        <4>3. ~(t < p)
          <5>1. t < p => Begin(t) + ChunkUnit <= Begin(p)
            BY <4>1, <1>3, BeginGrows
          <5> QED
            BY <5>1, <4>1, <4>2, <3>2, <1>2, <1>3
        <4>4. CASE p = t
          BY <4>4, <3>1, <3>2, <1>3 DEF p
        <4>5. CASE p < t
          BY <4>1, <4>5, <1>3, <1>7 DEF p, Full
        <4> QED
          BY <4>1, <4>3, <4>4, <4>5, <1>3
      <3> QED
        BY <3>1, <3>2, <1>2, <1>6 DEF AppendedCovered
    <2> QED
      BY <2>1, <2>2
  <1>13. MemoryAgrees'
    <2>1. at' \in {"checkA", "checkB", "idle"} /\ TopPile' = t /\ TopPile = t
      BY <1>0, <1>1, <1>6, <1>8 DEF TopPile
    <2>2. OpenPiles'
      <3>1. ASSUME NEW i \in PileNumbers, i < count PROVE loaded'[i] = checkB'[i]
        BY <3>1, <1>1, <1>2, <1>3, <1>7, <1>8 DEF OpenPiles
      <3> QED
        BY <3>1, <2>1, <1>1, <1>2, <1>6 DEF OpenPiles
    <2>3. TopHeads'
      BY <2>1, <1>1, <1>3, <1>5, <1>8 DEF TopHeads
    <2>4. at' # "idle" => Writing'
      BY <2>1, <1>1, <1>2, <1>5, <1>6, <1>8 DEF Writing
    <2> QED
      BY <2>1, <2>2, <2>3, <2>4, <1>2, <1>6 DEF MemoryAgrees
  <1> QED
    BY <1>2, <1>4, <1>6, <1>9, <1>11, <1>12, <1>13 DEF PileInv, HeadsReconcile

\* A step that changes nothing keeps the invariant.
LEMMA PileStutterInv ==
    ASSUME PileInv, UNCHANGED pileVars
    PROVE  PileInv'
  BY DEF pileVars, header, body, memory, PileInv, PileTypeOK, PilesInOrder, AppendedCovered, HeadsReconcile,
     PileSound, HeadsClose, Full, MemoryAgrees, OpenPiles, NoPiles, Creating, Writing, TopHeads, TopPile

-----------------------------------------------------------------------------
(* The theorems.                                                           *)

\* The strengthened invariant holds in every state of core/pile.
THEOREM PileInvariant == PileSpec => []PileInv
  <1>1. PileInv /\ [PileNext]_pileVars => PileInv'
    <2> SUFFICES ASSUME PileInv, [PileNext]_pileVars PROVE PileInv'
      OBVIOUS
    <2>1. CASE Open
      BY <2>1, OpenFailsInv, OpenMissesInv, OpenLoadsInv DEF Open
    <2>2. CASE DBInit \/ \E h \in Heights : AppendData(h)
      BY <2>2, BeginInv
    <2>3. CASE AppendStep
      BY <2>3, CreatePileInv, WriteHeaderInv, WriteBodyInv, WriteHeadsInv DEF AppendStep
    <2>4. CASE Halt
      BY <2>4, HaltInv
    <2>5. CASE UNCHANGED pileVars
      BY <2>5, PileStutterInv
    <2> QED
      BY <2>1, <2>2, <2>3, <2>4, <2>5 DEF PileNext
  <1> QED
    BY PileInitInv, <1>1, PTL DEF PileSpec

\* LoadPile never meets three heights it cannot reconcile, nor a file that is
\* too short, wherever AppendData was stopped (pile.go, LoadPile).
THEOREM HeadsAlwaysReconcile == PileSpec => []HeadsReconcile
  <1>1. PileInv => HeadsReconcile
    BY DEF PileInv
  <1> QED
    BY <1>1, PileInvariant, PTL

\* A block AppendData has returned for can be read whenever the piles are open.
THEOREM AppendedBlocksAlwaysStay == PileSpec => []AppendedBlocksStay
  <1>1. PileInv => AppendedBlocksStay
    <2> SUFFICES ASSUME PileInv, open, NEW h \in 1 .. appended PROVE Has(h) /\ Reads(h)
      BY DEF AppendedBlocksStay
    <2>1. PileTypeOK /\ PilesInOrder /\ AppendedCovered /\ MemoryAgrees
      BY DEF PileInv
    <2>2. h \in Heights /\ h <= appended /\ h \in Nat
      BY <2>1, PileAssumption DEF AppendedCovered, PileTypeOK, Heights
    <2> DEFINE p == PileOf(h)
    <2>3. p \in PileNumbers /\ p \in Nat /\ Begin(p) < h /\ h <= Begin(p) + ChunkUnit
      BY <2>2, PileOfHeight DEF PileNumbers
    <2>4. made[p] = "header" /\ h <= checkB[p] /\ PileSound(p)
      BY <2>1, <2>2, <2>3 DEF AppendedCovered, PilesInOrder
    <2>5. count > 0
      BY <2>1, <2>2 DEF MemoryAgrees, NoPiles, PileTypeOK
    <2>6. p < count
      <3>1. TopPile \in Nat /\ TopPile + 1 = count /\ \A j \in PileNumbers : TopPile < j => made[j] # "header"
        BY <2>5, TopPileFacts
      <3>2. ~(TopPile < p)
        BY <3>1, <2>3, <2>4
      <3> QED
        BY <3>1, <3>2, <2>3
    <2>7. h <= loaded[p]
      BY <2>1, <2>3, <2>4, <2>6 DEF MemoryAgrees, OpenPiles
    <2> HIDE DEF p
    <2>8. Begin(p) \in Nat /\ checkB[p] \in Nat /\ headHeight[p] \in Nat /\ checkA[p] \in Nat
      <3>1. checkB[p] \in Nat /\ headHeight[p] \in Nat /\ checkA[p] \in Nat
        BY <2>1, <2>3 DEF PileTypeOK
      <3> QED
        BY <3>1, <2>3, BeginIsNat
    <2>9. checkB[p] <= headHeight[p]
      BY <2>4, <2>8 DEF PileSound, HeadsClose
    <2>10. data[h] = "whole"
      BY <2>2, <2>3, <2>4, <2>8, <2>9 DEF PileSound
    <2>11. h - Begin(p) > 1 => offset[h - 1]
      <3> SUFFICES ASSUME h - Begin(p) > 1 PROVE offset[h - 1]
        OBVIOUS
      <3>1. h - 1 \in Heights /\ Begin(p) < h - 1 /\ h - 1 <= headHeight[p]
        BY <2>2, <2>4, <2>8, <2>9, PileAssumption DEF Heights
      <3> QED
        BY <3>1, <2>4 DEF PileSound
    <2> QED
      BY <2>2, <2>6, <2>7, <2>10, <2>11 DEF Has, Reads, p
  <1> QED
    BY <1>1, PileInvariant, PTL

=============================================================================
