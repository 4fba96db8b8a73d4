-------------------------- MODULE ConsensusProofs --------------------------
(* Proofs about Consensus, for every set of addresses, keys and hashes,    *)
(* every genesis block, turn length and phase cap.                         *)
EXTENDS Consensus, RankTableProofs, FiniteSetTheorems

Bound == IF MaxPhaseDiff > 2 THEN MaxPhaseDiff ELSE 2

Close(ranks) ==
    MaxPhaseDiff # 0 => \A q, r \in Ranks(ranks) : r.phase <= q.phase + Bound

\* What updateFormulatorList has established about its locals.
ReadyToClamp(ranks, p, m) ==
    /\ ranks # <<>> => ranks[1].phase <= m
    /\ \A r \in Ranks(ranks) :
         /\ r.phase <= p \/ (r.phase > m /\ m <= p)
         /\ MaxPhaseDiff # 0 => p <= r.phase + Bound /\ m <= r.phase + Bound

ReadyToAdd(ranks, p) ==
    \A r \in Ranks(ranks) : r.phase <= p /\ (MaxPhaseDiff # 0 => p <= r.phase + Bound)

\* The bound on the spread of the phases.
LEMMA DiffType == MaxPhaseDiff \in Int /\ MaxPhaseDiff >= -1 /\ Bound \in Nat /\ Bound >= 2 /\ Bound >= MaxPhaseDiff
    BY ConsensusAssumption DEF Unlimited, Bound

\* The phases updateFormulatorList computes fit the list they are computed from.
LEMMA ListPhases ==
    ASSUME NEW s, IsTable(s), Close(s)
    PROVE  /\ ListPhase(s) \in Nat /\ ListMaxPhase(s) \in Nat
           /\ ReadyToClamp(s, ListPhase(s), ListMaxPhase(s))
    <1>1. CASE s = <<>>
        BY <1>1, EmptyTable, DiffType
           DEF ListPhase, ListMaxPhase, SmallestPhase, LargestPhase, ReadyToClamp, Unlimited
    <1>2. CASE s # <<>>
        <2>1. /\ s[1] \in Ranks(s) /\ s[Len(s)] \in Ranks(s)
              /\ \A r \in Ranks(s) : s[1].phase <= r.phase /\ r.phase <= s[Len(s)].phase /\ r.phase \in Nat
            BY <1>2, HeadIsLeast, LastIsGreatest, RankFields
        <2>2. PICK lo \in Nat, hi \in Nat : lo = s[1].phase /\ hi = s[Len(s)].phase
            BY <2>1
        <2>3. lo <= hi /\ (MaxPhaseDiff # 0 => hi <= lo + Bound)
            BY <2>1, <2>2 DEF Close
        <2>4. SmallestPhase(s) = lo /\ LargestPhase(s) = hi
            BY <1>2, <2>2 DEF SmallestPhase, LargestPhase
        <2>5. /\ ListPhase(s) \in Nat /\ ListMaxPhase(s) \in Nat
              /\ lo <= ListMaxPhase(s)
              /\ hi <= ListPhase(s) \/ ListPhase(s) = ListMaxPhase(s)
              /\ MaxPhaseDiff # 0 => ListPhase(s) <= lo + Bound /\ ListMaxPhase(s) <= lo + Bound
            BY <2>3, <2>4, DiffType DEF ListPhase, ListMaxPhase, Unlimited, Bound
        <2>6. ASSUME NEW r \in Ranks(s)
              PROVE  /\ r.phase <= ListPhase(s) \/ (r.phase > ListMaxPhase(s) /\ ListMaxPhase(s) <= ListPhase(s))
                     /\ MaxPhaseDiff # 0 => ListPhase(s) <= r.phase + Bound /\ ListMaxPhase(s) <= r.phase + Bound
            <3>1. r.phase \in Nat /\ lo <= r.phase /\ r.phase <= hi
                BY <2>1, <2>2
            <3>. QED
                BY <2>5, <3>1, DiffType
        <2>. QED
            BY <2>2, <2>5, <2>6 DEF ReadyToClamp
    <1>. QED
        BY <1>1, <1>2

-----------------------------------------------------------------------------
(* The list operations keep all phases within the bound *)

\* The head moves up by one or two phases.
LEMMA MovedHead ==
    ASSUME NEW s, IsTable(s), Close(s), s # <<>>,
           NEW t, NEW h \in Rank, s[1].phase <= h.phase, h.phase <= s[1].phase + 2,
           \A r \in Ranks(t) : r \in Ranks(s) \/ r = h
    PROVE  Close(t)
    <1>. SUFFICES ASSUME MaxPhaseDiff # 0, NEW q \in Ranks(t), NEW r \in Ranks(t)
                  PROVE  r.phase <= q.phase + Bound
        BY DEF Close
    <1>1. s[1] \in Ranks(s) /\ \A x \in Ranks(s) : x \in Rank /\ s[1].phase <= x.phase
        BY HeadIsLeast
    <1>2. \A x \in Rank : x.phase \in Nat
        BY RankFields
    <1>3. \A x, y \in Ranks(s) : y.phase <= x.phase + Bound
        BY DEF Close
    <1>4. s[1].phase \in Nat /\ h.phase \in Nat /\ q.phase \in Nat /\ r.phase \in Nat
        BY <1>1, <1>2
    <1>5. s[1].phase <= q.phase
        BY <1>1
    <1>6. CASE r = h
        BY <1>4, <1>5, <1>6, DiffType
    <1>7. CASE r \in Ranks(s) /\ q \in Ranks(s)
        BY <1>3, <1>7
    <1>8. CASE r \in Ranks(s) /\ q = h
        <2>1. r.phase <= s[1].phase + Bound
            BY <1>1, <1>3, <1>8
        <2>. QED
            BY <2>1, <1>4, <1>8, DiffType
    <1>. QED
        BY <1>6, <1>7, <1>8

\* A candidate that missed its turn stays within the bound.
LEMMA SkipClose ==
    ASSUME NEW s, IsTable(s), Close(s), s # <<>>
    PROVE  Close(SkipHead(s))
    <1>1. PICK h \in Rank : /\ h.phase = s[1].phase + 2
                            /\ Ranks(SkipHead(s)) = {r \in Ranks(s) : r.addr # h.addr} \cup {h}
        BY SkipProperties
    <1>2. s[1].phase \in Nat
        BY HeadIsLeast, RankFields
    <1>3. s[1].phase <= h.phase /\ h.phase <= s[1].phase + 2
        BY <1>1, <1>2
    <1>4. \A r \in Ranks(SkipHead(s)) : r \in Ranks(s) \/ r = h
        BY <1>1
    <1>. QED
        BY <1>3, <1>4, MovedHead

\* A candidate that finished its turn stays within the bound.
LEMMA PassClose ==
    ASSUME NEW s, IsTable(s), Close(s), s # <<>>, NEW x \in HashSpace
    PROVE  Close(PassHead(s, x))
    <1>1. PICK h \in Rank : /\ h.phase = s[1].phase + 1
                            /\ Ranks(PassHead(s, x)) = {r \in Ranks(s) : r.addr # h.addr} \cup {h}
        BY PassProperties
    <1>2. s[1].phase \in Nat
        BY HeadIsLeast, RankFields
    <1>3. s[1].phase <= h.phase /\ h.phase <= s[1].phase + 2
        BY <1>1, <1>2
    <1>4. \A r \in Ranks(PassHead(s, x)) : r \in Ranks(s) \/ r = h
        BY <1>1
    <1>. QED
        BY <1>3, <1>4, MovedHead

\* A removed candidate.
LEMMA RemoveClose ==
    ASSUME NEW s, IsTable(s), Close(s), NEW a
    PROVE  Close(RemoveRank(s, a))
    BY RemoveProperties DEF Close

\* An added candidate within the bound of all others.
LEMMA InsertClose ==
    ASSUME NEW s, IsTable(s), Close(s), NEW e \in Rank, e.addr \notin Addresses(s),
           MaxPhaseDiff # 0 => \A r \in Ranks(s) : e.phase <= r.phase + Bound /\ r.phase <= e.phase + Bound
    PROVE  Close(InsertRankToList(s, e))
    <1>1. Ranks(InsertRankToList(s, e)) = Ranks(s) \cup {e}
        BY InsertProperties
    <1>2. e.phase \in Nat
        BY RankFields
    <1>. QED
        BY <1>1, <1>2, DiffType DEF Close

-----------------------------------------------------------------------------
(* The inductive invariant *)

TableInv == IsTable(candidates) /\ rankMap = Addresses(candidates) /\ Close(candidates)

StoredInv ==
    /\ IsTable(stored.candidates) /\ Close(stored.candidates)
    /\ stored.height >= -1 /\ (stored.height < 0 => stored.candidates = <<>>)

PcInv ==
    /\ pc = "forward" => candidates # <<>> /\ block.hash \in HashSpace
    /\ pc = "clamp" => ReadyToClamp(candidates, phase, maxPhase)
    /\ pc = "accounts" => ReadyToAdd(candidates, phase)

IInv == TypeOK /\ TableInv /\ StoredInv /\ PcInv

\* removeRank on a table.
LEMMA RemoveTable ==
    ASSUME NEW s, IsTable(s), Close(s), NEW a
    PROVE  \E t \in Seq(Rank) :
             /\ t = RemoveRank(s, a) /\ IsTable(t) /\ Close(t)
             /\ Ranks(t) = {r \in Ranks(s) : r.addr # a}
             /\ Addresses(t) = Addresses(s) \ {a}
    <1>1. IsTable(RemoveRank(s, a)) /\ Ranks(RemoveRank(s, a)) = {r \in Ranks(s) : r.addr # a}
        BY RemoveProperties
    <1>2. Addresses(RemoveRank(s, a)) = Addresses(s) \ {a}
        BY AddressesAfter
    <1>3. Close(RemoveRank(s, a))
        BY RemoveClose
    <1>4. RemoveRank(s, a) \in Seq(Rank)
        BY <1>1 DEF IsTable
    <1>. QED
        BY <1>1, <1>2, <1>3, <1>4, Zenon

\* addRank on a table.
LEMMA InsertTable ==
    ASSUME NEW s, IsTable(s), Close(s), NEW e \in Rank, e.addr \notin Addresses(s),
           MaxPhaseDiff # 0 => \A r \in Ranks(s) : e.phase <= r.phase + Bound /\ r.phase <= e.phase + Bound
    PROVE  \E t \in Seq(Rank) :
             /\ t = InsertRankToList(s, e) /\ IsTable(t) /\ Close(t)
             /\ Ranks(t) = Ranks(s) \cup {e}
             /\ Addresses(t) = Addresses(s) \cup {e.addr}
    <1>1. IsTable(InsertRankToList(s, e)) /\ Ranks(InsertRankToList(s, e)) = Ranks(s) \cup {e}
        BY InsertProperties
    <1>2. Addresses(InsertRankToList(s, e)) = Addresses(s) \cup {e.addr}
        BY AddressesAfter
    <1>3. Close(InsertRankToList(s, e))
        BY InsertClose
    <1>4. InsertRankToList(s, e) \in Seq(Rank)
        BY <1>1 DEF IsTable
    <1>. QED
        BY <1>1, <1>2, <1>3, <1>4, Zenon

\* Types of a table.
LEMMA TableTypes ==
    ASSUME NEW s, IsTable(s)
    PROVE  s \in Seq(Rank) /\ Addresses(s) \subseteq Address
    <1>1. s \in Seq(Rank)
        BY DEF IsTable
    <1>2. \A i \in DOMAIN s : s[i].addr \in Address
        BY <1>1, RankFields
    <1>. QED
        BY <1>1, <1>2 DEF Addresses

\* Types of the genesis block.
LEMMA GenesisTypes ==
    GenesisBlock \in Blocks /\ NoBlock \in Blocks /\ DOMAIN GenesisBlock.changes \subseteq Address
    <1>1. [a \in DOMAIN Genesis |-> [status |-> "active", key |-> Genesis[a]]] \in [DOMAIN Genesis -> Account]
        BY ConsensusAssumption DEF Account, Status
    <1>2. DOMAIN Genesis \in SUBSET Address
        BY ConsensusAssumption
    <1>3. <<>> \in [{} -> Account]
        OBVIOUS
    <1>4. [a \in DOMAIN Genesis |-> [status |-> "active", key |-> Genesis[a]]] \in UNION {[A -> Account] : A \in SUBSET Address}
        BY <1>1, <1>2, Zenon
    <1>5. <<>> \in UNION {[A -> Account] : A \in SUBSET Address}
        BY <1>3
    <1>6. GenesisBlock \in Blocks
        BY <1>4 DEF GenesisBlock, Blocks
    <1>7. NoBlock \in Blocks
        BY <1>5 DEF NoBlock, Blocks
    <1>. QED
        BY <1>2, <1>6, <1>7 DEF GenesisBlock

\* The invariant holds when InitGenesis begins its walk.
LEMMA InitInv == Init => IInv
    <1>. SUFFICES ASSUME Init PROVE IInv
        OBVIOUS
    <1>1. Close(<<>>)
        BY EmptyTable DEF Close
    <1>2. IsTable(<<>>) /\ Addresses(<<>>) = {}
        BY EmptyTable
    <1>3. TableInv /\ StoredInv
        BY <1>1, <1>2 DEF Init, TableInv, StoredInv, NotStored
    <1>4. ListPhase(<<>>) \in Nat /\ ListMaxPhase(<<>>) \in Nat /\ ReadyToClamp(<<>>, ListPhase(<<>>), ListMaxPhase(<<>>))
        BY <1>1, <1>2, ListPhases
    <1>5. PcInv
        BY <1>4 DEF Init, PcInv
    <1>6. TypeOK
        <2>1. (CHOOSE k \in PublicHash : TRUE) \in PublicHash \/ PublicHash = {}
            OBVIOUS
        <2>. QED
            BY <1>4, GenesisTypes, ConsensusAssumption DEF Init, TypeOK, NotStored, NoTurns, Account, Status, Errors
    <1>. QED
        BY <1>3, <1>5, <1>6 DEF IInv

-----------------------------------------------------------------------------
(* Each action preserves the invariant *)

\* A block's changes are accounts of addresses.
LEMMA ChangesTypes ==
    ASSUME NEW b \in Blocks
    PROVE  DOMAIN b.changes \subseteq Address /\ \A a \in DOMAIN b.changes : b.changes[a] \in Account
    BY DEF Blocks

\* The count of turns keeps its type.
LEMMA TurnsTypes ==
    ASSUME turns \in [Address -> [Address -> Nat]]
    PROVE  /\ \A a : Served(turns, a) \in [Address -> [Address -> Nat]]
           /\ \A a, W : Finished(turns, a, W) \in [Address -> [Address -> Nat]]
           /\ \A a : Restarted(turns, a) \in [Address -> [Address -> Nat]]
           /\ NoTurns \in [Address -> [Address -> Nat]]
    <1>1. \A x, y \in Address : turns[x][y] \in Nat /\ turns[x][y] + 1 \in Nat
        OBVIOUS
    <1>. QED
        BY <1>1 DEF Served, Finished, Restarted, NoTurns

\* A block is accepted.
LEMMA BeginStep ==
    ASSUME IInv, NEW t \in Nat, NEW h \in HashSpace, NEW c \in ChangesOf(accounts), Begin(t, h, c)
    PROVE  IInv'
    <1>. USE DEF IInv
    <1>1. c \in UNION {[A -> Account] : A \in SUBSET Address}
        BY DEF ChangesOf
    <1>2. candidates # <<>> /\ t + 1 \in DOMAIN candidates /\ 1 \in DOMAIN candidates
        BY DEF Begin, TypeOK
    <1>3. candidates[t + 1] \in Rank /\ candidates[1] \in Rank
        BY <1>2 DEF TypeOK
    <1>4. candidates[t + 1].addr \in Address /\ candidates[t + 1].phase \in Nat /\ candidates[1].phase \in Nat
        BY <1>3, RankFields
    <1>5. candidates[t + 1].phase - candidates[1].phase \in Int
        BY <1>4
    <1>6. block' \in Blocks /\ block'.hash = h
        BY <1>1, <1>4, <1>5 DEF Begin, Blocks
    <1>7. TypeOK'
        BY <1>6 DEF Begin, TypeOK, disk
    <1>8. TableInv' /\ StoredInv'
        BY DEF Begin, TableInv, StoredInv, disk
    <1>9. PcInv'
        BY <1>2, <1>6 DEF Begin, PcInv
    <1>. QED
        BY <1>7, <1>8, <1>9

\* A timed-out candidate moves.
LEMMA ForwardStep ==
    ASSUME IInv, ForwardCandidate
    PROVE  IInv'
    <1>. USE DEF IInv
    <1>1. candidates # <<>> /\ IsTable(candidates) /\ Close(candidates)
        BY DEF PcInv, TableInv, ForwardCandidate
    <1>2. /\ IsTable(SkipHead(candidates)) /\ Close(SkipHead(candidates))
          /\ Addresses(SkipHead(candidates)) = Addresses(candidates)
          /\ Len(SkipHead(candidates)) = Len(candidates)
        BY <1>1, SkipProperties, SkipClose
    <1>3. SkipHead(candidates) \in Seq(Rank)
        BY <1>2, TableTypes
    <1>4. SkipHead(candidates) # <<>>
        BY <1>1, <1>2, <1>3 DEF TypeOK
    <1>5. left - 1 \in Nat
        BY DEF ForwardCandidate, TypeOK
    <1>6. turns' \in [Address -> [Address -> Nat]]
        BY TurnsTypes, Zenon DEF ForwardCandidate, TypeOK
    <1>7. TypeOK'
        BY <1>3, <1>5, <1>6 DEF ForwardCandidate, TypeOK, disk
    <1>8. TableInv' /\ StoredInv'
        BY <1>2 DEF ForwardCandidate, TableInv, StoredInv, disk
    <1>9. PcInv'
        BY <1>4 DEF ForwardCandidate, PcInv
    <1>. QED
        BY <1>7, <1>8, <1>9

\* The block is counted and may end the turn.
LEMMA CountStep ==
    ASSUME IInv, CountBlock
    PROVE  IInv'
    <1>. USE DEF IInv
    <1>1. candidates # <<>> /\ IsTable(candidates) /\ Close(candidates) /\ block.hash \in HashSpace
        BY DEF PcInv, TableInv, CountBlock
    <1>2. /\ IsTable(PassHead(candidates, block.hash)) /\ Close(PassHead(candidates, block.hash))
          /\ Addresses(PassHead(candidates, block.hash)) = Addresses(candidates)
        BY <1>1, PassProperties, PassClose
    <1>3. candidates' = PassHead(candidates, block.hash) \/ candidates' = candidates
        BY DEF CountBlock
    <1>4. IsTable(candidates') /\ Close(candidates') /\ Addresses(candidates') = Addresses(candidates)
        BY <1>1, <1>2, <1>3
    <1>5. /\ phase' \in Nat /\ maxPhase' \in Nat
          /\ ReadyToClamp(candidates', phase', maxPhase')
        BY <1>4, ListPhases DEF CountBlock, BeginUpdate
    <1>6. blocksBySame' \in Nat
        BY ConsensusAssumption DEF CountBlock, TypeOK, Blocks
    <1>7. turns' \in [Address -> [Address -> Nat]]
        <2>1. turns' = Finished(turns, candidates[1].addr, rankMap) \/ turns' = turns
            BY DEF CountBlock
        <2>2. turns \in [Address -> [Address -> Nat]]
            BY DEF TypeOK
        <2>3. Finished(turns, candidates[1].addr, rankMap) \in [Address -> [Address -> Nat]]
            BY <2>2, TurnsTypes, Zenon
        <2>. QED
            BY <2>1, <2>2, <2>3
    <1>8. todo' \subseteq Address
        BY ChangesTypes DEF CountBlock, BeginUpdate, TypeOK
    <1>9. TypeOK'
        BY <1>4, <1>5, <1>6, <1>7, <1>8, TableTypes DEF CountBlock, BeginUpdate, TypeOK, disk
    <1>10. TableInv' /\ StoredInv'
        BY <1>4 DEF CountBlock, TableInv, StoredInv, disk
    <1>11. PcInv'
        BY <1>5 DEF CountBlock, BeginUpdate, PcInv
    <1>. QED
        BY <1>9, <1>10, <1>11

\* A clamped rank: the first above the cap, which the head is not.
LEMMA ClampStep ==
    ASSUME IInv, Clamp
    PROVE  IInv'
    <1>. USE DEF IInv
    <1>. DEFINE above == {i \in DOMAIN candidates : candidates[i].phase > maxPhase}
    <1>1. IsTable(candidates) /\ Close(candidates) /\ rankMap = Addresses(candidates)
        BY DEF TableInv
    <1>2. ReadyToClamp(candidates, phase, maxPhase)
        BY DEF Clamp, PcInv
    <1>3. candidates \in Seq(Rank) /\ phase \in Nat /\ maxPhase \in Nat
        BY DEF TypeOK
    <1>4. \A r \in Rank : r.phase \in Nat
        BY RankFields
    <1>5. Ranks(candidates) = {candidates[i] : i \in DOMAIN candidates} /\ \A r \in Ranks(candidates) : r \in Rank
        BY <1>3 DEF Ranks
    <1>6. CASE above = {}
        <2>1. pc' = "accounts" /\ UNCHANGED <<mem, turns, err, disk, locals>>
            BY <1>6 DEF Clamp
        <2>2. \A r \in Ranks(candidates) : ~(r.phase > maxPhase)
            BY <1>5, <1>6
        <2>3. ReadyToAdd(candidates, phase)
            BY <1>2, <2>2 DEF ReadyToClamp, ReadyToAdd
        <2>. QED
            BY <2>1, <2>3 DEF TypeOK, TableInv, StoredInv, PcInv, mem, disk, locals
    <1>7. CASE above # {}
        <2>1. PICK i \in above : i = CHOOSE x \in above : \A y \in above : x <= y
            <3>1. above \subseteq Nat
                BY <1>3
            <3>2. \E x \in above : \A y \in above : x <= y
                <4>. HIDE DEF above
                <4>. QED
                    BY <1>7, <3>1, LeastNatural
            <3>. QED
                BY <3>2, Zenon
        <2>2. i \in DOMAIN candidates /\ candidates[i].phase > maxPhase
            BY <2>1
        <2>3. PICK r \in Rank : r = candidates[i]
            BY <2>2, <1>3
        <2>4. r \in Ranks(candidates) /\ r.phase > maxPhase /\ r.addr \in Addresses(candidates)
            BY <2>2, <2>3, <1>5 DEF Addresses
        <2>5. r.addr \in Address /\ r.key \in PublicHash /\ r.phase \in Nat /\ r.hash \in HashSpace
            BY RankFields
        <2>6. PICK new \in Rank : /\ new = NewRank(r.addr, r.key, maxPhase, r.hash)
                                  /\ new.addr = r.addr /\ new.phase = maxPhase
            BY <2>5, <1>3, NewRankFields
        <2>7. PICK rest \in Seq(Rank) :
                  /\ rest = RemoveRank(candidates, r.addr) /\ IsTable(rest) /\ Close(rest)
                  /\ Ranks(rest) = {q \in Ranks(candidates) : q.addr # r.addr}
                  /\ Addresses(rest) = Addresses(candidates) \ {r.addr}
            BY <1>1, RemoveTable
        <2>8. /\ IsTable(rest) /\ Close(rest)
              /\ Ranks(rest) = {q \in Ranks(candidates) : q.addr # r.addr}
              /\ Addresses(rest) = rankMap \ {r.addr}
            BY <1>1, <2>7
        <2>9. candidates # <<>> /\ candidates[1] \in Ranks(candidates) /\ candidates[1].phase <= maxPhase
            <3>1. candidates # <<>>
                BY <2>2
            <3>. QED
                BY <3>1, <1>1, <1>2, HeadIsLeast DEF ReadyToClamp
        <2>10. candidates[1].addr # r.addr
            <3>1. candidates[1].phase # r.phase
                BY <2>4, <2>5, <2>9, <1>3, <1>4, <1>5
            <3>. QED
                BY <3>1, <2>4, <2>9, <1>1, OneRankPerAddress
        <2>11. candidates[1] \in Ranks(rest)
            BY <2>8, <2>9, <2>10
        <2>12. rest # <<>> /\ rest[1].phase <= maxPhase
            <3>1. rest # <<>>
                BY <2>11, EmptyTable
            <3>2. rest[1] \in Ranks(rest) /\ rest[1].phase <= candidates[1].phase
                BY <3>1, <2>8, <2>11, HeadIsLeast
            <3>3. rest[1].phase \in Nat /\ candidates[1].phase \in Nat
                BY <3>2, <2>8, <2>9, <1>4, <1>5
            <3>. QED
                BY <3>1, <3>2, <3>3, <2>9, <1>3
        <2>13. AddError(rest, rankMap \ {r.addr}, new) = "none"
            <3>1. rest[1].phase \in Nat
                BY <2>8, <2>12, HeadIsLeast, RankFields
            <3>2. ~(new.phase < rest[1].phase)
                BY <3>1, <2>6, <2>12, <1>3
            <3>3. new.addr \notin rankMap \ {r.addr}
                BY <2>6
            <3>. QED
                BY <3>2, <3>3 DEF AddError
        <2>14. /\ err' = "none" /\ pc' = "clamp"
               /\ candidates' = InsertRankToList(rest, new) /\ rankMap' = rankMap
               /\ turns' = Restarted(turns, r.addr)
               /\ UNCHANGED <<blocksBySame, applied, disk, locals>>
            BY <1>7, <2>1, <2>3, <2>6, <2>7, <2>13, Zenon DEF Clamp
        <2>15. MaxPhaseDiff # 0 => \A q \in Ranks(rest) : new.phase <= q.phase + Bound /\ q.phase <= new.phase + Bound
            <3>. SUFFICES ASSUME MaxPhaseDiff # 0, NEW q \in Ranks(candidates)
                          PROVE  maxPhase <= q.phase + Bound /\ q.phase <= maxPhase + Bound
                BY <2>6, <2>8
            <3>1. maxPhase <= q.phase + Bound
                BY <1>2 DEF ReadyToClamp
            <3>2. q.phase <= candidates[1].phase + Bound
                BY <1>1, <2>9 DEF Close
            <3>3. candidates[1].phase \in Nat /\ q.phase \in Nat
                BY <1>4, <1>5, <2>9
            <3>. QED
                BY <3>1, <3>2, <3>3, <2>9, <1>3, DiffType
        <2>16. new.addr \notin Addresses(rest)
            BY <2>6, <2>8
        <2>17. PICK next \in Seq(Rank) :
                  /\ next = InsertRankToList(rest, new) /\ IsTable(next) /\ Close(next)
                  /\ Ranks(next) = Ranks(rest) \cup {new}
                  /\ Addresses(next) = Addresses(rest) \cup {new.addr}
            BY <2>8, <2>15, <2>16, InsertTable
        <2>18. candidates' = next /\ Addresses(next) = rankMap'
            BY <2>4, <2>6, <2>8, <2>14, <2>17, <1>1
        <2>19. Restarted(turns, r.addr) \in [Address -> [Address -> Nat]]
            BY TurnsTypes, Zenon DEF TypeOK
        <2>20. TypeOK'
            BY <2>14, <2>18, <2>19 DEF TypeOK, disk, locals, Errors
        <2>21. TableInv' /\ StoredInv'
            BY <2>14, <2>17, <2>18 DEF TableInv, StoredInv, disk
        <2>22. next # <<>> /\ next[1].phase <= maxPhase
            <3>1. new \in Ranks(next)
                BY <2>17
            <3>2. next # <<>>
                BY <3>1, EmptyTable
            <3>. QED
                BY <3>1, <3>2, <2>6, <2>17, HeadIsLeast
        <2>23. ASSUME NEW q \in Ranks(next)
               PROVE  /\ q.phase <= phase \/ (q.phase > maxPhase /\ maxPhase <= phase)
                      /\ MaxPhaseDiff # 0 => phase <= q.phase + Bound /\ maxPhase <= q.phase + Bound
            <3>1. CASE q \in Ranks(candidates)
                BY <3>1, <1>2 DEF ReadyToClamp
            <3>2. CASE q = new
                <4>1. candidates[1].phase <= phase /\ candidates[1].phase \in Nat
                    BY <1>2, <1>3, <1>4, <1>5, <2>9 DEF ReadyToClamp
                <4>2. MaxPhaseDiff # 0 => phase <= candidates[1].phase + Bound
                    BY <1>2, <2>9 DEF ReadyToClamp
                <4>3. q.phase = maxPhase
                    BY <3>2, <2>6
                <4>4. maxPhase <= phase
                    <5>1. r.phase <= phase \/ (r.phase > maxPhase /\ maxPhase <= phase)
                        BY <1>2, <2>4 DEF ReadyToClamp
                    <5>. QED
                        BY <5>1, <2>4, <2>5, <1>3
                <4>5. candidates[1].phase <= maxPhase
                    BY <2>9
                <4>. QED
                    BY <4>1, <4>2, <4>3, <4>4, <4>5, <1>3, DiffType
            <3>. QED
                BY <3>1, <3>2, <2>8, <2>17
        <2>24. PcInv'
            BY <2>14, <2>18, <2>22, <2>23 DEF PcInv, ReadyToClamp, locals
        <2>. QED
            BY <2>20, <2>21, <2>24
    <1>. QED
        BY <1>6, <1>7

\* What one account does to a table in which phase fits: at most a removal and
\* an addition at that phase.
LEMMA UpdateTable ==
    ASSUME IInv, NEW a \in Address, UpdateAccount(a)
    PROVE  \E rest \in Seq(Rank), restMap \in SUBSET Address, rank \in Rank, e \in Errors :
             /\ IsTable(rest) /\ Close(rest) /\ restMap = Addresses(rest)
             /\ Ranks(rest) \subseteq Ranks(candidates)
             /\ rank.addr = a /\ rank.phase = phase
             /\ \/ candidates' = rest /\ rankMap' = restMap
                \/ /\ candidates' = InsertRankToList(rest, rank) /\ rankMap' = restMap \cup {a}
                   /\ a \notin restMap
             /\ err' = e /\ pc' \in {"accounts", "failed"}
    <1>. USE DEF IInv
    <1>1. IsTable(candidates) /\ Close(candidates) /\ rankMap = Addresses(candidates) /\ candidates \in Seq(Rank)
        BY DEF TableInv, TypeOK
    <1>2. block.changes[a] \in Account /\ phase \in Nat /\ AddressHash[a] \in HashSpace
        <2>1. block \in Blocks /\ phase \in Nat
            BY DEF TypeOK
        <2>2. a \in DOMAIN block.changes
            BY DEF UpdateAccount, Present
        <2>. QED
            BY <2>1, <2>2, ChangesTypes, ConsensusAssumption
    <1>3. PICK rank \in Rank : rank = NewRank(a, block.changes[a].key, phase, AddressHash[a]) /\ rank.addr = a /\ rank.phase = phase
        <2>1. block.changes[a].key \in PublicHash
            BY <1>2 DEF Account
        <2>. QED
            BY <1>2, <2>1, NewRankFields
    <1>4. PICK rest \in Seq(Rank) :
              /\ rest = IF Removes(a) THEN RemoveRank(candidates, a) ELSE candidates
              /\ IsTable(rest) /\ Close(rest)
              /\ Ranks(rest) \subseteq Ranks(candidates)
              /\ Addresses(rest) = IF Removes(a) THEN rankMap \ {a} ELSE rankMap
        <2>1. PICK t \in Seq(Rank) :
                 /\ t = RemoveRank(candidates, a) /\ IsTable(t) /\ Close(t)
                 /\ Ranks(t) = {r \in Ranks(candidates) : r.addr # a}
                 /\ Addresses(t) = Addresses(candidates) \ {a}
            BY <1>1, RemoveTable
        <2>2. CASE Removes(a)
            BY <1>1, <2>1, <2>2
        <2>3. CASE ~Removes(a)
            BY <1>1, <2>3
        <2>. QED
            BY <2>2, <2>3
    <1>5. Addresses(rest) \in SUBSET Address
        BY <1>4, TableTypes
    <1>6. PICK restMap \in SUBSET Address : restMap = Addresses(rest)
        BY <1>5, Zenon
    <1>7. PICK e \in Errors : e = IF Adds(a) THEN AddError(rest, restMap, rank) ELSE "none"
        BY DEF AddError, Errors
    <1>8. restMap = IF Removes(a) THEN rankMap \ {a} ELSE rankMap
        BY <1>4, <1>6
    <1>9. /\ candidates' = IF Adds(a) /\ e = "none" THEN InsertRankToList(rest, rank) ELSE rest
          /\ rankMap' = IF Adds(a) /\ e = "none" THEN restMap \cup {a} ELSE restMap
          /\ err' = e
          /\ pc' = IF e = "none" THEN "accounts" ELSE "failed"
        BY <1>3, <1>4, <1>7, <1>8, Zenon DEF UpdateAccount
    <1>10. Adds(a) /\ e = "none" => a \notin restMap
        BY <1>3, <1>7 DEF AddError
    <1>11. /\ \/ candidates' = rest /\ rankMap' = restMap
              \/ /\ candidates' = InsertRankToList(rest, rank) /\ rankMap' = restMap \cup {a}
                 /\ a \notin restMap
           /\ err' = e /\ pc' \in {"accounts", "failed"}
        BY <1>9, <1>10
    <1>. WITNESS rest \in Seq(Rank), restMap \in SUBSET Address, rank \in Rank, e \in Errors
    <1>. QED
        BY <1>3, <1>4, <1>6, <1>11

\* A removal and an addition keep the invariant of "accounts".
LEMMA UpdateStep ==
    ASSUME IInv, NEW a \in Address, UpdateAccount(a)
    PROVE  IInv'
    <1>. USE DEF IInv
    <1>1. PICK rest \in Seq(Rank), restMap \in SUBSET Address, rank \in Rank, e \in Errors :
             /\ IsTable(rest) /\ Close(rest) /\ restMap = Addresses(rest)
             /\ Ranks(rest) \subseteq Ranks(candidates)
             /\ rank.addr = a /\ rank.phase = phase
             /\ \/ candidates' = rest /\ rankMap' = restMap
                \/ /\ candidates' = InsertRankToList(rest, rank) /\ rankMap' = restMap \cup {a}
                   /\ a \notin restMap
             /\ err' = e /\ pc' \in {"accounts", "failed"}
        BY UpdateTable
    <1>2. ReadyToAdd(candidates, phase)
        <2>1. pc = "accounts"
            BY DEF UpdateAccount
        <2>. QED
            BY <2>1 DEF PcInv
    <1>3. phase \in Nat
        BY DEF TypeOK
    <1>4. \A r \in Ranks(rest) : r.phase \in Nat /\ r.phase <= phase /\ (MaxPhaseDiff # 0 => phase <= r.phase + Bound)
        <2>1. Ranks(rest) \subseteq Rank
            BY <1>1, OneRankPerAddress
        <2>. QED
            BY <2>1, <1>1, <1>2, RankFields DEF ReadyToAdd
    <1>5. \E t \in Seq(Rank) :
            /\ candidates' = t /\ IsTable(t) /\ Close(t) /\ rankMap' = Addresses(t)
            /\ Ranks(t) \subseteq Ranks(rest) \cup {rank}
        <2>1. CASE candidates' = rest /\ rankMap' = restMap
            BY <1>1, <2>1
        <2>2. CASE /\ candidates' = InsertRankToList(rest, rank) /\ rankMap' = restMap \cup {a}
                   /\ a \notin restMap
            <3>1. MaxPhaseDiff # 0 => \A r \in Ranks(rest) : rank.phase <= r.phase + Bound /\ r.phase <= rank.phase + Bound
                BY <1>1, <1>3, <1>4, DiffType
            <3>2. \E t \in Seq(Rank) :
                     /\ t = InsertRankToList(rest, rank) /\ IsTable(t) /\ Close(t)
                     /\ Ranks(t) = Ranks(rest) \cup {rank}
                     /\ Addresses(t) = Addresses(rest) \cup {rank.addr}
                BY <3>1, <1>1, <2>2, InsertTable
            <3>. QED
                BY <3>2, <1>1, <2>2
        <2>. QED
            BY <1>1, <2>1, <2>2
    <1>6. PICK t \in Seq(Rank) :
            /\ candidates' = t /\ IsTable(t) /\ Close(t) /\ rankMap' = Addresses(t)
            /\ Ranks(t) \subseteq Ranks(rest) \cup {rank}
        BY <1>5
    <1>7. ReadyToAdd(t, phase)
        BY <1>1, <1>3, <1>4, <1>6, DiffType DEF ReadyToAdd
    <1>8. /\ todo' = todo \ {a}
          /\ UNCHANGED <<blocksBySame, applied, disk, block, left, phase, maxPhase>>
        BY DEF UpdateAccount
    <1>9. err' \in Errors /\ pc' \in {"accounts", "failed"}
        BY <1>1
    <1>10. turns' \in [Address -> [Address -> Nat]]
        <2>1. turns \in [Address -> [Address -> Nat]]
            BY DEF TypeOK
        <2>2. turns' = turns \/ turns' = Restarted(turns, a)
            BY DEF UpdateAccount
        <2>3. Restarted(turns, a) \in [Address -> [Address -> Nat]]
            BY <2>1, TurnsTypes, Zenon
        <2>. QED
            BY <2>1, <2>2, <2>3
    <1>11. Addresses(t) \subseteq Address
        BY <1>6, TableTypes
    <1>12. TypeOK'
        BY <1>6, <1>8, <1>9, <1>10, <1>11 DEF TypeOK, disk
    <1>13. TableInv' /\ StoredInv'
        BY <1>6, <1>8 DEF TableInv, StoredInv, disk
    <1>14. PcInv'
        BY <1>6, <1>7, <1>8, <1>9 DEF PcInv
    <1>. QED
        BY <1>12, <1>13, <1>14

\* A deleted account leaves the table.
LEMMA DeleteStep ==
    ASSUME IInv, NEW a \in Address, DeleteAccount(a)
    PROVE  IInv'
    <1>. USE DEF IInv
    <1>1. PICK t \in Seq(Rank) :
             /\ t = RemoveRank(candidates, a) /\ IsTable(t) /\ Close(t)
             /\ Ranks(t) = {r \in Ranks(candidates) : r.addr # a}
             /\ Addresses(t) = Addresses(candidates) \ {a}
        BY RemoveTable DEF TableInv
    <1>2. candidates' = t /\ rankMap' = Addresses(t)
        BY <1>1 DEF DeleteAccount, TableInv
    <1>3. ReadyToAdd(t, phase)
        BY <1>1 DEF DeleteAccount, PcInv, ReadyToAdd
    <1>4. turns' \in [Address -> [Address -> Nat]]
        <2>1. turns \in [Address -> [Address -> Nat]] /\ turns' = Restarted(turns, a)
            BY DEF TypeOK, DeleteAccount
        <2>. QED
            BY <2>1, TurnsTypes, Zenon
    <1>5. Addresses(t) \subseteq Address
        BY <1>1, TableTypes
    <1>6. TypeOK'
        BY <1>2, <1>4, <1>5 DEF TypeOK, DeleteAccount, disk
    <1>7. TableInv' /\ StoredInv'
        BY <1>1, <1>2 DEF TableInv, StoredInv, DeleteAccount, disk
    <1>8. PcInv'
        BY <1>2, <1>3 DEF PcInv, DeleteAccount
    <1>. QED
        BY <1>6, <1>7, <1>8

\* The end of updateFormulatorList changes nothing of the table.
LEMMA EndUpdateStep ==
    ASSUME IInv, EndUpdate
    PROVE  IInv'
    <1>1. UNCHANGED <<mem, turns, disk, locals>> /\ pc' \in {"failed", "store"} /\ err' \in Errors
        BY DEF EndUpdate, IInv, TypeOK, Errors
    <1>. QED
        BY <1>1 DEF IInv, TypeOK, TableInv, StoredInv, PcInv, mem, disk, locals

\* The types of the locals when OnSaveData is done.
LEMMA EndLocalsTypes ==
    ASSUME EndLocals
    PROVE  block' \in Blocks /\ left' \in Nat /\ phase' \in Nat /\ maxPhase' \in Nat /\ todo' \subseteq Address
    BY GenesisTypes DEF EndLocals

\* The stored table is the one in memory.
LEMMA StoreStep ==
    ASSUME IInv, StoreBlock
    PROVE  IInv'
    <1>. USE DEF IInv
    <1>1. accounts' \in [Address -> Account]
        <2>1. accounts \in [Address -> Account] /\ block \in Blocks
            BY DEF TypeOK
        <2>2. \A a \in DOMAIN block.changes : block.changes[a] \in Account
            BY <2>1, ChangesTypes
        <2>. QED
            BY <2>1, <2>2 DEF StoreBlock
    <1>2. stored' \in [height : Int, candidates : Seq(Rank), blocksBySame : Nat, applied : Nat]
        BY DEF StoreBlock, TypeOK
    <1>3. /\ stored'.candidates = candidates /\ stored'.height = stored.height + 1
          /\ UNCHANGED <<mem, turns, err>> /\ pc' = "idle"
        BY DEF StoreBlock
    <1>4. TypeOK'
        BY <1>1, <1>2, <1>3, EndLocalsTypes DEF TypeOK, StoreBlock, mem
    <1>5. TableInv' /\ StoredInv' /\ PcInv'
        <2>1. stored.height \in Int /\ stored.height >= -1
            BY DEF TypeOK, StoredInv
        <2>2. candidates' = candidates /\ rankMap' = rankMap
            BY <1>3 DEF mem
        <2>3. TableInv'
            BY <2>2 DEF TableInv
        <2>4. StoredInv'
            BY <1>3, <2>1 DEF TableInv, StoredInv
        <2>5. PcInv'
            BY <1>3 DEF PcInv
        <2>. QED
            BY <2>3, <2>4, <2>5
    <1>. QED
        BY <1>4, <1>5

\* A failed store and the return of its error leave the table as it is.
LEMMA FailSteps ==
    ASSUME IInv, StoreFails \/ Return
    PROVE  IInv'
    <1>1. CASE StoreFails
        BY <1>1 DEF StoreFails, IInv, TypeOK, TableInv, StoredInv, PcInv, mem, disk, locals, Errors
    <1>2. CASE Return
        <2>1. UNCHANGED <<mem, turns, disk>> /\ pc' = "idle" /\ err' = "none"
            BY <1>2 DEF Return
        <2>2. block' \in Blocks /\ left' \in Nat /\ phase' \in Nat /\ maxPhase' \in Nat /\ todo' \subseteq Address
            BY <1>2, EndLocalsTypes DEF Return
        <2>. QED
            BY <2>1, <2>2 DEF IInv, TypeOK, TableInv, StoredInv, PcInv, mem, disk, Errors
    <1>. QED
        BY <1>1, <1>2

\* OnLoadChain restores a table that was stored, or the genesis block is
\* initialised again.
LEMMA RestartStep ==
    ASSUME IInv, Restart
    PROVE  IInv'
    <1>. USE DEF IInv
    <1>1. IsTable(stored.candidates) /\ Close(stored.candidates)
        BY DEF StoredInv
    <1>2. stored.candidates \in Seq(Rank) /\ Addresses(stored.candidates) \subseteq Address
        BY <1>1, TableTypes
    <1>3. turns' \in [Address -> [Address -> Nat]]
        BY TurnsTypes, Zenon DEF TypeOK, Restart
    <1>4. /\ candidates' = stored.candidates /\ rankMap' = Addresses(stored.candidates)
          /\ blocksBySame' = stored.blocksBySame /\ err' = "none" /\ UNCHANGED disk
        BY DEF Restart
    <1>5. TableInv' /\ StoredInv'
        BY <1>1, <1>4 DEF TableInv, StoredInv, disk
    <1>6. CASE stored.height >= 0
        <2>1. pc' = "idle" /\ applied' = stored.applied /\ EndLocals
            BY <1>6 DEF Restart
        <2>2. TypeOK'
            BY <1>2, <1>3, <1>4, <2>1, EndLocalsTypes DEF TypeOK, disk, Errors
        <2>3. PcInv'
            BY <2>1 DEF PcInv
        <2>. QED
            BY <1>5, <2>2, <2>3
    <1>7. CASE ~(stored.height >= 0)
        <2>1. /\ applied' = 1 /\ block' = GenesisBlock /\ left' = 0
              /\ phase' = ListPhase(<<>>) /\ maxPhase' = ListMaxPhase(<<>>)
              /\ todo' = DOMAIN GenesisBlock.changes /\ pc' = "clamp"
            BY <1>7 DEF Restart, BeginUpdate
        <2>2. stored.candidates = <<>>
            <3>1. stored.height \in Int
                BY DEF TypeOK
            <3>. QED
                BY <3>1, <1>7 DEF StoredInv
        <2>3. /\ ListPhase(<<>>) \in Nat /\ ListMaxPhase(<<>>) \in Nat
              /\ ReadyToClamp(<<>>, ListPhase(<<>>), ListMaxPhase(<<>>))
            BY <1>1, <2>2, ListPhases
        <2>4. TypeOK'
            BY <1>2, <1>3, <1>4, <2>1, <2>3, GenesisTypes DEF TypeOK, disk, Errors
        <2>5. PcInv'
            BY <1>4, <2>1, <2>2, <2>3 DEF PcInv
        <2>. QED
            BY <1>5, <2>4, <2>5
    <1>. QED
        BY <1>6, <1>7

\* The invariant is inductive.
LEMMA NextInv == IInv /\ [Next]_vars => IInv'
    <1>. SUFFICES ASSUME IInv, [Next]_vars PROVE IInv'
        OBVIOUS
    <1>1. ASSUME NEW t \in 0..(Cardinality(Address) - 1), NEW h \in HashSpace, NEW c \in ChangesOf(accounts),
                 Begin(t, h, c)
          PROVE  IInv'
        <2>1. t \in Nat
            BY ConsensusAssumption, FS_CardinalityType
        <2>. QED
            BY <1>1, <2>1, BeginStep
    <1>2. ASSUME NEW a \in Address, UpdateAccount(a) \/ DeleteAccount(a)
          PROVE  IInv'
        BY <1>2, UpdateStep, DeleteStep
    <1>3. CASE UNCHANGED vars
        BY <1>3 DEF IInv, TypeOK, TableInv, StoredInv, PcInv, vars, mem, disk, locals
    <1>. QED
        BY <1>1, <1>2, <1>3, ForwardStep, CountStep, ClampStep, EndUpdateStep, StoreStep, FailSteps, RestartStep
           DEF Next

-----------------------------------------------------------------------------
(* Theorems *)

\* The invariant holds for every instance of the model.
LEMMA Invariance == Spec => []IInv
    BY InitInv, NextInv, PTL DEF Spec

\* The state of the consensus keeps its types.
THEOREM TypeCorrect == Spec => []TypeOK
    <1>1. IInv => TypeOK
        BY DEF IInv
    <1>. QED
        BY <1>1, Invariance, PTL

\* At every point where a reader may look, the list is strictly ascending, no
\* address is in it twice and rankMap has its addresses: InsertRankToList,
\* forwardCandidates, forwardTop and updateFormulatorList never break the order
\* that the binary search of InsertRankToList relies on.
THEOREM TableAlwaysWellFormed == Spec => []TableWellFormed
    <1>1. IInv => TableWellFormed
        BY DEF IInv, TableInv, IsTable, TableWellFormed
    <1>. QED
        BY <1>1, Invariance, PTL

\* However many blocks and timeouts the chain has, no candidate is more than two
\* phases (MaxPhaseDiff, where that is larger) ahead of the head of the table.
THEOREM PhasesStayClose == Spec => []PhaseSpread
    <1>1. IInv => PhaseSpread
        <2>. SUFFICES ASSUME IInv, MaxPhaseDiff # 0, NEW i \in DOMAIN candidates
                      PROVE  candidates[i].phase <= candidates[1].phase + Bound
            BY DEF PhaseSpread, Bound
        <2>1. candidates \in Seq(Rank) /\ Close(candidates)
            BY DEF IInv, TypeOK, TableInv
        <2>2. candidates[i] \in Ranks(candidates) /\ candidates[1] \in Ranks(candidates)
            BY <2>1 DEF Ranks
        <2>. QED
            BY <2>1, <2>2 DEF Close
    <1>. QED
        BY <1>1, Invariance, PTL

-----------------------------------------------------------------------------
(* Memory and store, until a caller of OnSaveData outlives a failure       *)

CountInv == ~retried =>
    /\ pc = "idle" => /\ candidates = stored.candidates /\ blocksBySame = stored.blocksBySame
                      /\ applied = stored.applied /\ stored.height >= 0
    /\ stored.height >= 0 => stored.applied = stored.height + 1
    /\ pc \in {"forward", "clamp", "accounts", "store"} => applied = stored.height + 2

\* The genesis block is the first one counted.
LEMMA CountInit == Init => CountInv
    BY DEF Init, CountInv, NotStored

\* A block in the making is counted in memory and not yet in the store.
LEMMA CountNext ==
    ASSUME IInv, CountInv, [Next]_vars
    PROVE  CountInv'
    <1>0. /\ stored.height \in Int /\ stored.height >= -1 /\ stored.applied \in Nat /\ applied \in Nat
          /\ stored.height < 0 => stored.candidates = <<>>
        BY DEF IInv, TypeOK, StoredInv
    <1>. USE DEF CountInv
    <1>1. ASSUME NEW t, NEW h, NEW c, Begin(t, h, c)
          PROVE  CountInv'
        <2>1. pc = "idle" /\ pc' = "forward" /\ applied' = applied + 1 /\ UNCHANGED <<disk, retried>>
            BY <1>1, Zenon DEF Begin
        <2>. QED
            BY <1>0, <2>1 DEF disk
    <1>2. CASE ForwardCandidate
        BY <1>2 DEF ForwardCandidate, disk
    <1>3. CASE CountBlock
        BY <1>3 DEF CountBlock, BeginUpdate, disk
    <1>4. CASE Clamp
        <2>1. pc = "clamp" /\ pc' \in {"clamp", "accounts", "failed"} /\ UNCHANGED <<applied, disk, retried>>
            BY <1>4 DEF Clamp, mem
        <2>. QED
            BY <2>1 DEF disk
    <1>5. ASSUME NEW a \in Address, UpdateAccount(a)
          PROVE  CountInv'
        <2>1. pc = "accounts" /\ pc' \in {"accounts", "failed"} /\ UNCHANGED <<applied, disk, retried>>
            BY <1>5 DEF UpdateAccount
        <2>. QED
            BY <2>1 DEF disk
    <1>6. ASSUME NEW a, DeleteAccount(a)
          PROVE  CountInv'
        BY <1>6 DEF DeleteAccount, disk
    <1>7. CASE EndUpdate
        BY <1>7 DEF EndUpdate, mem, disk
    <1>8. CASE StoreBlock
        BY <1>0, <1>8 DEF StoreBlock, mem
    <1>9. CASE StoreFails
        BY <1>9 DEF StoreFails, mem, disk
    <1>10. CASE Return
        BY <1>10 DEF Return
    <1>11. CASE Restart
        BY <1>0, <1>11 DEF Restart, BeginUpdate, disk
    <1>12. CASE UNCHANGED vars
        BY <1>12 DEF vars, mem, disk
    <1>. QED
        BY <1>1, <1>2, <1>3, <1>4, <1>5, <1>6, <1>7, <1>8, <1>9, <1>10, <1>11, <1>12 DEF Next

\* As long as a failure of the store ends the process, every stored block is counted
\* exactly once in the stored table, whatever crashes come between OnSaveData and
\* the store.
THEOREM CountedOnce == Spec => []BlocksCountedOnce
    <1>1. IInv /\ CountInv /\ [Next]_vars => CountInv'
        BY CountNext
    <1>2. CountInv => BlocksCountedOnce
        BY DEF CountInv, BlocksCountedOnce
    <1>. QED
        BY <1>1, <1>2, CountInit, Invariance, PTL DEF Spec

\* Under the same condition a node that restarts has the table of one that kept
\* running: between blocks memory and store agree.
THEOREM MemoryIsStored == Spec => []IdleTableIsStored
    <1>1. IInv /\ CountInv /\ [Next]_vars => CountInv'
        BY CountNext
    <1>2. CountInv => IdleTableIsStored
        BY DEF CountInv, IdleTableIsStored
    <1>. QED
        BY <1>1, <1>2, CountInit, Invariance, PTL DEF Spec
=============================================================================
