--------------------------- MODULE ObserverRounds ---------------------------
(***************************************************************************)
(* The rounds of the observers: the invariant of their chains, rounds and  *)
(* signatures, and what each change of a round does to it.                 *)
(***************************************************************************)
EXTENDS Observer, RankTableProofs, FiniteSetTheorems

-----------------------------------------------------------------------------
(* Messages, rounds and tables. *)

VoteMsg  == [type : {"vote"}, from : Observer, height : Nat, last : Nat, timeout : Nat, formulator : Address, ts : Nat]
AckMsg   == [type : {"ack"}, from : Observer, height : Nat, last : Nat, timeout : Nat, formulator : Address,
             public : Observer, ts : Nat]
SetupMsg == [type : {"setup"}, from : Observer, height : Nat, last : Nat, timeout : Nat, formulator : Address]
ReqMsg   == [type : {"blockreq"}, from : Observer, to : Address, height : Nat, last : Nat, timeout : Nat]
GenMsg   == [type : {"blockgen"}, to : Observer \cup {All}, block : Block]
SignMsg  == [type : {"blockvote"}, from : Observer, block : Block]
Message  == VoteMsg \cup AckMsg \cup SetupMsg \cup ReqMsg \cup GenMsg \cup SignMsg

BlockRound == [votes : SUBSET Observer, gen : Block \cup {None}, genWait : Block \cup {None}]

State == {"RoundVote", "RoundVoteAck", "BlockWait", "BlockVote"}
Votes == [Observer -> VoteMsg \cup {None}]
Acks  == [Observer -> AckMsg \cup {None}]
Blocks(D) == [D -> BlockRound]

RoundOver(D) ==
    [state : State, target : Nat, votes : Votes, acks : Acks, winner : Winner \cup {None}, blocks : Blocks(D)]

\* What o has signed, and the signature of p for b.
SignedBy(o, n) == {m \in n : m.type = "blockvote" /\ m.from = o}
Signature(p, b) == [type |-> "blockvote", from |-> p, block |-> b]

\* A round has what its state needs, and counts the signatures of its own blocks.
RoundOK(r, n) ==
    /\ DOMAIN r.blocks \subseteq Nat
    /\ r \in RoundOver(DOMAIN r.blocks)
    /\ r.target \in DOMAIN r.blocks
    /\ r.state \in {"BlockWait", "BlockVote"} => r.winner # None
    /\ r.state = "BlockVote" => r.blocks[r.target].gen # None
    /\ \A h \in DOMAIN r.blocks :
          /\ r.blocks[h].gen # None => r.blocks[h].gen.height = h /\ h <= r.target
          /\ r.blocks[h].gen = None => r.blocks[h].votes = {}
          /\ \A p \in r.blocks[h].votes : Signature(p, r.blocks[h].gen) \in n

\* Of the height of its round an observer has signed at most the block it waits for votes on, and none above it.
SignsInRound(o, r, n) ==
    \A m \in SignedBy(o, n) :
        /\ m.block.height <= r.target
        /\ m.block.height = r.target => r.state = "BlockVote" /\ m.block = r.blocks[r.target].gen

SignsOnce(o, n) == \A m1, m2 \in SignedBy(o, n) : m1.block.height = m2.block.height => m1.block = m2.block

Table == {t \in [ranks : Seq(Rank), count : 0 .. MaxBlocksPerFormulator - 1] : IsTable(t.ranks) /\ t.ranks # <<>>}

Generating == [to : Observer, height : Nat, prev : Nat, timeout : Nat, left : Int]

TablesInv == table \in [Observer -> Table] /\ ftable \in [Address -> Table]

GenInv ==
    /\ ts \in [Observer -> Nat] /\ made \in 0 .. MaxMade /\ fails \in Nat /\ restarts \in Nat
    /\ gen \in [Address -> Generating \cup {None}]
    /\ fchain \in [Address -> Seq(Block)]

\* The signers of b among the messages of n.
SignedIn(n, b) == {m.from : m \in {x \in n : x.type = "blockvote" /\ x.block = b}}

\* Connected blocks are at their heights and certified.
ChainsOK(c, n) ==
    /\ c \in [Observer -> Seq(Block)]
    /\ \A o \in Observer : \A h \in 1 .. Len(c[o]) :
          c[o][h].height = h /\ Cardinality(SignedIn(n, c[o][h])) >= Majority

RoundsOK(rs, c, n) ==
    /\ rs = [o \in Observer |-> rs[o]]
    /\ \A o \in Observer : RoundOK(rs[o], n) /\ rs[o].target <= Len(c[o]) + 1

\* Each observer signs one block of a height.
VotesOK(rs, n) == \A o \in Observer : SignsInRound(o, rs[o], n) /\ SignsOnce(o, n)

\* The votes are unique as long as no observer has given up a round or restarted.
ObserverInv ==
    /\ TablesInv /\ GenInv
    /\ net \subseteq Message
    /\ ChainsOK(chain, net)
    /\ RoundsOK(round, chain, net)
    /\ fails = 0 /\ restarts = 0 => VotesOK(round, net)

\* A later state of a round: it has another target, or the same block is voted on.
Continues(r, r2) ==
    \/ r2.target > r.target
    \/ /\ r2.target = r.target
       /\ r.state = "BlockVote" => r2.state = "BlockVote" /\ r2.blocks[r2.target].gen = r.blocks[r.target].gen

\* The signatures in msgs are those of o for the block its round votes on.
SignsFor(o, r, msgs) ==
    \A m \in msgs : m.type = "blockvote" =>
        m.from = o /\ r.state = "BlockVote" /\ m.block = r.blocks[r.target].gen

-----------------------------------------------------------------------------
(* The table after a block. *)

\* The recursive function that skips the head n times is well defined.
LEMMA SkipsExist ==
    ASSUME NEW ranks
    PROVE  \A t \in Nat : \E f : f = [n \in 0 .. t |-> IF n = 0 THEN ranks ELSE SkipHead(f[n - 1])]
  <1> DEFINE P(t) == \E f : f = [n \in 0 .. t |-> IF n = 0 THEN ranks ELSE SkipHead(f[n - 1])]
             Bad == {t \in Nat : ~P(t)}
  <1>1. P(0)
    <2> DEFINE f == [n \in 0 .. 0 |-> ranks]
    <2>1. f = [n \in 0 .. 0 |-> IF n = 0 THEN ranks ELSE SkipHead(f[n - 1])]
      OBVIOUS
    <2> QED
      BY <2>1, Zenon
  <1>2. ASSUME NEW t \in Nat, t # 0, P(t - 1)
        PROVE  P(t)
    <2>1. PICK g : g = [n \in 0 .. t - 1 |-> IF n = 0 THEN ranks ELSE SkipHead(g[n - 1])]
      BY <1>2, Zenon
    <2> DEFINE f == [n \in 0 .. t |-> IF n <= t - 1 THEN g[n] ELSE SkipHead(g[t - 1])]
    <2>2. /\ t - 1 \in 0 .. t - 1
          /\ \A n \in 0 .. t : n \in 0 .. t - 1 \/ n = t
          /\ \A n \in 0 .. t - 1 : n \in 0 .. t /\ n <= t - 1 /\ (n # 0 => n - 1 \in 0 .. t - 1)
          /\ ~(t <= t - 1) /\ t \in 0 .. t
      BY <1>2
    <2>3. (\A n \in 0 .. t - 1 : f[n] = g[n]) /\ f[t] = SkipHead(g[t - 1])
      BY <2>2, Zenon
    <2>4. \A n \in 0 .. t - 1 : g[n] = IF n = 0 THEN ranks ELSE SkipHead(g[n - 1])
      BY <2>1, Zenon
    <2>5. \A n \in 0 .. t - 1 : f[n] = IF n = 0 THEN ranks ELSE SkipHead(f[n - 1])
      BY <2>2, <2>3, <2>4, Zenon
    <2>6. f[t] = IF t = 0 THEN ranks ELSE SkipHead(f[t - 1])
      BY <1>2, <2>2, <2>3, Zenon
    <2>7. \A n \in 0 .. t : f[n] = IF n = 0 THEN ranks ELSE SkipHead(f[n - 1])
      BY <2>2, <2>5, <2>6, Zenon
    <2>8. f = [n \in 0 .. t |-> f[n]]
      OBVIOUS
    <2> HIDE DEF f
    <2>9. f = [n \in 0 .. t |-> IF n = 0 THEN ranks ELSE SkipHead(f[n - 1])]
      BY <2>7, <2>8, Zenon
    <2> QED
      BY <2>9, Zenon
  <1> HIDE DEF P
  <1>3. Bad = {}
    <2> SUFFICES ASSUME Bad # {} PROVE FALSE
      BY Zenon
    <2>1. PICK t \in Bad : \A m \in Bad : t <= m
      BY Zenon, LeastNatural
    <2>2. t \in Nat /\ ~P(t) /\ t # 0
      BY <1>1
    <2>3. t - 1 \in Nat /\ ~(t <= t - 1)
      BY <2>2
    <2>4. P(t - 1)
      BY <2>1, <2>3
    <2> QED
      BY <1>2, <2>2, <2>4
  <1>4. \A t \in Nat : P(t)
    BY <1>3
  <1> QED
    BY Zenon, <1>4 DEF P

\* However often the head is skipped, a table results.
LEMMA SkipsAreTables ==
    ASSUME NEW ranks, IsTable(ranks), ranks # <<>>, NEW t \in Nat,
           NEW f, f = [n \in 0 .. t |-> IF n = 0 THEN ranks ELSE SkipHead(f[n - 1])]
    PROVE  \A n \in 0 .. t : IsTable(f[n]) /\ f[n] # <<>>
  <1> DEFINE Bad == {n \in 0 .. t : ~(IsTable(f[n]) /\ f[n] # <<>>)}
  <1> SUFFICES ASSUME Bad # {} PROVE FALSE
    BY Zenon
  <1>1. Bad \in SUBSET Nat
    OBVIOUS
  <1>2. PICK n \in Bad : \A m \in Bad : n <= m
    BY <1>1, LeastNatural, Zenon
  <1>3. n \in 0 .. t /\ ~(IsTable(f[n]) /\ f[n] # <<>>)
    BY Zenon
  <1>4. n # 0 /\ f[n] = SkipHead(f[n - 1])
    BY <1>3, Zenon
  <1>5. n - 1 \in 0 .. t /\ ~(n <= n - 1)
    BY <1>3, <1>4
  <1>6. IsTable(f[n - 1]) /\ f[n - 1] # <<>>
    BY <1>2, <1>5, Zenon
  <1>7. IsTable(SkipHead(f[n - 1])) /\ Len(SkipHead(f[n - 1])) = Len(f[n - 1])
    BY <1>6, SkipProperties, Zenon
  <1>8. f[n - 1] \in Seq(Rank)
    BY <1>6, Zenon DEF IsTable
  <1>9. SkipHead(f[n - 1]) # <<>>
    BY <1>6, <1>7, <1>8
  <1> QED
    BY <1>3, <1>4, <1>7, <1>9, Zenon

\* OnSaveData of a block without account changes leaves a table.
LEMMA CountTable ==
    ASSUME NEW t \in Table, NEW b \in Block
    PROVE  Count(t, b) \in Table
  <1> DEFINE skipped == CHOOSE f : f = [n \in 0 .. b.timeout |-> IF n = 0 THEN t.ranks ELSE SkipHead(f[n - 1])]
             count == (IF b.timeout > 0 THEN 0 ELSE t.count) + 1
  <1>1. b.timeout \in Nat /\ b.id \in HashSpace
    BY ObserverAssumption DEF Block
  <1>2. t.ranks \in Seq(Rank) /\ t.count \in 0 .. MaxBlocksPerFormulator - 1 /\ IsTable(t.ranks) /\ t.ranks # <<>>
    BY DEF Table
  <1>3. skipped = [n \in 0 .. b.timeout |-> IF n = 0 THEN t.ranks ELSE SkipHead(skipped[n - 1])]
    BY <1>1, SkipsExist, Zenon
  <1>4. Count(t, b) = IF count >= MaxBlocksPerFormulator
                      THEN [ranks |-> PassHead(skipped[b.timeout], b.id), count |-> 0]
                      ELSE [ranks |-> skipped[b.timeout], count |-> count]
    BY Zenon DEF Count
  <1>5. b.timeout \in 0 .. b.timeout /\ count \in Nat
    BY <1>1, <1>2
  <1> HIDE DEF skipped, count
  <1>6. IsTable(skipped[b.timeout]) /\ skipped[b.timeout] # <<>>
    <2>1. PICK ranks, m, f : ranks = t.ranks /\ m = b.timeout /\ f = skipped
      BY Zenon
    <2>2. f = [n \in 0 .. m |-> IF n = 0 THEN ranks ELSE SkipHead(f[n - 1])]
      BY <1>3, <2>1, Zenon
    <2>3. IsTable(ranks) /\ ranks # <<>> /\ m \in Nat
      BY <1>1, <1>2, <2>1, Zenon
    <2>4. \A n \in 0 .. m : IsTable(f[n]) /\ f[n] # <<>>
      BY <2>2, <2>3, SkipsAreTables, Zenon
    <2> QED
      BY <1>5, <2>1, <2>4, Zenon
  <1>7. IsTable(PassHead(skipped[b.timeout], b.id)) /\ PassHead(skipped[b.timeout], b.id) # <<>>
    <2>1. /\ IsTable(PassHead(skipped[b.timeout], b.id))
          /\ Len(PassHead(skipped[b.timeout], b.id)) = Len(skipped[b.timeout])
      BY <1>1, <1>6, PassProperties, Zenon
    <2>2. skipped[b.timeout] \in Seq(Rank)
      BY <1>6, Zenon DEF IsTable
    <2> QED
      BY <1>6, <2>1, <2>2
  <1>8. skipped[b.timeout] \in Seq(Rank) /\ PassHead(skipped[b.timeout], b.id) \in Seq(Rank)
    BY <1>6, <1>7, Zenon DEF IsTable
  <1>9. 0 \in 0 .. MaxBlocksPerFormulator - 1 /\ (~(count >= MaxBlocksPerFormulator) => count \in 0 .. MaxBlocksPerFormulator - 1)
    BY <1>5, ObserverAssumption
  <1> QED
    BY <1>4, <1>6, <1>7, <1>8, <1>9 DEF Table

-----------------------------------------------------------------------------
(* Messages and signatures. *)

\* Majorities are positive numbers.
LEMMA MajorityType == Majority \in Nat /\ Majority >= 1 /\ VoteMajority \in Nat /\ VoteMajority >= 1
  <1>1. Cardinality(Observer) \in Nat
    BY ObserverAssumption, FS_CardinalityType, Zenon
  <1> QED
    BY <1>1 DEF Majority, VoteMajority

\* A message with a type has its fields.
LEMMA MessageKinds ==
    ASSUME NEW m \in Message
    PROVE  /\ m.type = "vote" => m \in VoteMsg
           /\ m.type = "ack" => m \in AckMsg
           /\ m.type = "setup" => m \in SetupMsg
           /\ m.type = "blockreq" => m \in ReqMsg
           /\ m.type = "blockgen" => m \in GenMsg
           /\ m.type = "blockvote" => m \in SignMsg
  <1>1. /\ \A x \in VoteMsg : x.type = "vote"
        /\ \A x \in AckMsg : x.type = "ack"
        /\ \A x \in SetupMsg : x.type = "setup"
        /\ \A x \in ReqMsg : x.type = "blockreq"
        /\ \A x \in GenMsg : x.type = "blockgen"
        /\ \A x \in SignMsg : x.type = "blockvote"
    BY DEF VoteMsg, AckMsg, SetupMsg, ReqMsg, GenMsg, SignMsg
  <1> QED
    BY <1>1 DEF Message

\* A signature of a block is the message of its signer.
LEMMA SignedInSignatures ==
    ASSUME NEW n, n \subseteq Message, NEW b
    PROVE  /\ SignedIn(n, b) \subseteq Observer
           /\ \A p : Signature(p, b) \in n => p \in SignedIn(n, b)
           /\ \A m \in n : m.type = "blockvote" => m = Signature(m.from, m.block) /\ m.from \in Observer /\ m.block \in Block
  <1>1. \A m \in n : m.type = "blockvote" => m \in SignMsg
    BY MessageKinds
  <1>2. \A m \in SignMsg : m = Signature(m.from, m.block) /\ m.from \in Observer /\ m.block \in Block
    BY DEF SignMsg, Signature
  <1>3. \A p : Signature(p, b).type = "blockvote" /\ Signature(p, b).from = p /\ Signature(p, b).block = b
    BY DEF Signature
  <1> QED
    BY <1>1, <1>2, <1>3, Zenon DEF SignedIn

\* Signatures are never lost.
LEMMA CertifiedMore ==
    ASSUME NEW n, NEW n2, n \subseteq n2, n2 \subseteq Message, NEW b, Cardinality(SignedIn(n, b)) >= Majority
    PROVE  Cardinality(SignedIn(n2, b)) >= Majority
  <1>1. SignedIn(n, b) \subseteq SignedIn(n2, b)
    BY Zenon DEF SignedIn
  <1>2. SignedIn(n2, b) \subseteq Observer
    BY SignedInSignatures, Zenon
  <1>3. IsFiniteSet(SignedIn(n2, b))
    BY <1>2, ObserverAssumption, FS_Subset, Zenon
  <1>4. Cardinality(SignedIn(n, b)) <= Cardinality(SignedIn(n2, b)) /\ IsFiniteSet(SignedIn(n, b))
    BY <1>1, <1>3, FS_Subset, Zenon
  <1>5. Cardinality(SignedIn(n, b)) \in Nat /\ Cardinality(SignedIn(n2, b)) \in Nat
    BY <1>3, <1>4, FS_CardinalityType, Zenon
  <1> QED
    BY <1>4, <1>5, MajorityType

\* The signatures a round has counted certify its block.
LEMMA CertifiedByVotes ==
    ASSUME NEW n, n \subseteq Message, NEW b, NEW votes,
           \A p \in votes : Signature(p, b) \in n, EnoughVotes(votes)
    PROVE  Cardinality(SignedIn(n, b)) >= Majority
  <1>1. votes \subseteq SignedIn(n, b) /\ SignedIn(n, b) \subseteq Observer
    BY SignedInSignatures, Zenon
  <1>3. IsFiniteSet(SignedIn(n, b))
    BY <1>1, ObserverAssumption, FS_Subset, Zenon
  <1>4. Cardinality(votes) <= Cardinality(SignedIn(n, b)) /\ IsFiniteSet(votes)
    BY <1>1, <1>3, FS_Subset, Zenon
  <1>5. Cardinality(votes) \in Nat /\ Cardinality(SignedIn(n, b)) \in Nat
    BY <1>3, <1>4, FS_CardinalityType, Zenon
  <1> QED
    BY <1>4, <1>5, MajorityType DEF EnoughVotes

\* Chains stay certified when messages are added.
LEMMA ChainsKept ==
    ASSUME NEW c, NEW n, NEW n2, ChainsOK(c, n), n \subseteq n2, n2 \subseteq Message
    PROVE  ChainsOK(c, n2)
  BY CertifiedMore, Zenon DEF ChainsOK

\* The chains after o has connected b.
Extended(c, o, b) == [c EXCEPT ![o] = Append(@, b)]

\* A certified block of the next height may be connected.
LEMMA ChainsExtended ==
    ASSUME NEW c, NEW n, ChainsOK(c, n), NEW o \in Observer, NEW b \in Block,
           b.height = Len(c[o]) + 1, Cardinality(SignedIn(n, b)) >= Majority
    PROVE  /\ ChainsOK(Extended(c, o, b), n)
           /\ Len(Extended(c, o, b)[o]) = Len(c[o]) + 1
           /\ \A p \in Observer : \/ Len(Extended(c, o, b)[p]) = Len(c[p])
                                  \/ Len(Extended(c, o, b)[p]) = Len(c[p]) + 1
  <1>0. PICK c2 : c2 = Extended(c, o, b)
    BY Zenon
  <1>1. c \in [Observer -> Seq(Block)] /\ c[o] \in Seq(Block)
    BY Zenon DEF ChainsOK
  <1>2. /\ c2[o] = Append(c[o], b) /\ \A p \in Observer : p # o => c2[p] = c[p]
        /\ c2 = [p \in Observer |-> c2[p]]
    BY <1>0, <1>1, Zenon DEF Extended
  <1>3. PICK s, s2 : s \in Seq(Block) /\ s = c[o] /\ s2 = c2[o]
    BY <1>1, Zenon
  <1>4. s2 = Append(s, b)
    BY <1>2, <1>3, Zenon
  <1>5. /\ s2 \in Seq(Block) /\ Len(s2) = Len(s) + 1 /\ s2[Len(s) + 1] = b
        /\ \A h \in 1 .. Len(s2) : h # Len(s) + 1 => h \in 1 .. Len(s) /\ s2[h] = s[h]
    BY <1>3, <1>4
  <1>6. \A h \in 1 .. Len(s2) : s2[h].height = h /\ Cardinality(SignedIn(n, s2[h])) >= Majority
    <2> TAKE h \in 1 .. Len(s2)
    <2>1. CASE h = Len(s) + 1
      BY <1>3, <1>5, <2>1, Zenon
    <2>2. CASE h # Len(s) + 1
      BY <1>3, <1>5, <2>2, Zenon DEF ChainsOK
    <2> QED
      BY <2>1, <2>2, Zenon
  <1>7. c2 \in [Observer -> Seq(Block)]
    BY <1>1, <1>2, <1>3, <1>5, Zenon
  <1>8. Len(c2[o]) = Len(c[o]) + 1 /\ \A p \in Observer : Len(c2[p]) = Len(c[p]) \/ Len(c2[p]) = Len(c[p]) + 1
    <2>1. Len(c2[o]) = Len(c[o]) + 1
      BY <1>3, <1>5, Zenon
    <2>2. \A p \in Observer : p # o => Len(c2[p]) = Len(c[p])
      BY <1>2, Zenon
    <2> QED
      BY <2>1, <2>2, Zenon
  <1>9. \A p \in Observer : \A h \in 1 .. Len(c2[p]) :
           c2[p][h].height = h /\ Cardinality(SignedIn(n, c2[p][h])) >= Majority
    <2> TAKE p \in Observer
    <2>1. CASE p = o
      BY <1>3, <1>6, <2>1, Zenon
    <2>2. CASE p # o
      <3>1. c2[p] = c[p]
        BY <1>2, <2>2, Zenon
      <3>2. \A h \in 1 .. Len(c[p]) : c[p][h].height = h /\ Cardinality(SignedIn(n, c[p][h])) >= Majority
        BY Zenon DEF ChainsOK
      <3> QED
        BY <3>1, <3>2
    <2> QED
      BY <2>1, <2>2, Zenon
  <1>10. ChainsOK(c2, n)
    BY <1>7, <1>9, Zenon DEF ChainsOK
  <1> QED
    BY <1>0, <1>8, <1>10, Zenon

-----------------------------------------------------------------------------
(* Rounds. *)

\* The fields of a round.
LEMMA RoundFields ==
    ASSUME NEW r, NEW n, RoundOK(r, n)
    PROVE  /\ r \in RoundOver(DOMAIN r.blocks)
           /\ r.state \in State /\ r.target \in Nat /\ r.votes \in Votes /\ r.acks \in Acks
           /\ r.winner \in Winner \cup {None} /\ r.blocks \in Blocks(DOMAIN r.blocks)
           /\ DOMAIN r.blocks \subseteq Nat /\ r.target \in DOMAIN r.blocks
  BY DEF RoundOK, RoundOver

\* More messages.
LEMMA RoundKept ==
    ASSUME NEW r, NEW n, NEW n2, RoundOK(r, n), n \subseteq n2
    PROVE  RoundOK(r, n2)
  BY Zenon DEF RoundOK

\* A new round has what it needs.
LEMMA NewRoundOK ==
    ASSUME NEW n, NEW target \in Nat
    PROVE  RoundOK(NewVoteRound(target), n) /\ NewVoteRound(target).target = target
  <1> DEFINE r == NewVoteRound(target)
             D == target .. (target + MaxBlocksPerFormulator - 1)
  <1>1. D \subseteq Nat /\ target \in D
    BY ObserverAssumption
  <1>2. NoBlockRound \in BlockRound /\ NoBlockRound.gen = None /\ NoBlockRound.votes = {}
    BY DEF NoBlockRound, BlockRound
  <1>3. /\ r.target = target /\ r.state = "RoundVote" /\ r.winner = None /\ r.blocks = [h \in D |-> NoBlockRound]
        /\ r = [state |-> "RoundVote", target |-> target, votes |-> [p \in Observer |-> None],
                acks |-> [p \in Observer |-> None], winner |-> None, blocks |-> [h \in D |-> NoBlockRound]]
    BY DEF NewVoteRound
  <1> HIDE DEF r, D
  <1>4. [h \in D |-> NoBlockRound] \in Blocks(D) /\ DOMAIN r.blocks = D /\ \A h \in D : r.blocks[h] = NoBlockRound
    BY <1>2, <1>3, Zenon DEF Blocks
  <1>5. [p \in Observer |-> None] \in Votes /\ [p \in Observer |-> None] \in Acks /\ "RoundVote" \in State
    BY DEF Votes, Acks, State
  <1>6. r \in RoundOver(D)
    BY <1>3, <1>4, <1>5 DEF RoundOver
  <1>7. RoundOK(r, n)
    BY <1>1, <1>2, <1>3, <1>4, <1>6 DEF RoundOK
  <1> QED
    BY <1>3, <1>7 DEF r

\* One observer changes its round.
LEMMA RoundsSet ==
    ASSUME NEW rs, NEW c, NEW n, NEW n2, RoundsOK(rs, c, n), n \subseteq n2,
           NEW o \in Observer, NEW r2, RoundOK(r2, n2), r2.target <= Len(c[o]) + 1
    PROVE  RoundsOK([rs EXCEPT ![o] = r2], c, n2)
  <1> DEFINE rs2 == [rs EXCEPT ![o] = r2]
  <1>1. rs2[o] = r2 /\ (\A p \in Observer : p # o => rs2[p] = rs[p]) /\ rs2 = [p \in Observer |-> rs2[p]]
    BY Zenon DEF RoundsOK
  <1> HIDE DEF rs2
  <1>2. \A p \in Observer : RoundOK(rs[p], n2) /\ rs[p].target <= Len(c[p]) + 1
    BY RoundKept, Zenon DEF RoundsOK
  <1>3. RoundsOK(rs2, c, n2)
    BY <1>1, <1>2, Zenon DEF RoundsOK
  <1> QED
    BY <1>3 DEF rs2

\* A chain that has become longer.
LEMMA RoundsLonger ==
    ASSUME NEW rs, NEW c, NEW n, RoundsOK(rs, c, n), c \in [Observer -> Seq(Block)], NEW c2,
           \A p \in Observer : Len(c2[p]) = Len(c[p]) \/ Len(c2[p]) = Len(c[p]) + 1
    PROVE  RoundsOK(rs, c2, n)
  <1>1. \A p \in Observer : RoundOK(rs[p], n) /\ rs[p].target <= Len(c[p]) + 1
    BY Zenon DEF RoundsOK
  <1>2. \A p \in Observer : rs[p].target \in Nat /\ Len(c[p]) \in Nat
    BY <1>1, RoundFields
  <1>3. \A p \in Observer : rs[p].target <= Len(c2[p]) + 1
    BY <1>1, <1>2
  <1> QED
    BY <1>1, <1>3, Zenon DEF RoundsOK

-----------------------------------------------------------------------------
(* Signatures of one observer. *)

\* A round that continues another one has signed no more than that.
LEMMA SignsContinue ==
    ASSUME NEW o, NEW r, NEW r2, NEW n, n \subseteq Message, SignsInRound(o, r, n), Continues(r, r2),
           r.target \in Nat, r2.target \in Nat
    PROVE  SignsInRound(o, r2, n)
  <1>1. \A m \in SignedBy(o, n) : m.block.height \in Nat
    <2> TAKE m \in SignedBy(o, n)
    <2>1. m \in SignMsg
      BY MessageKinds DEF SignedBy
    <2> QED
      BY <2>1 DEF SignMsg, Block
  <1>2. CASE r2.target > r.target
    BY <1>1, <1>2 DEF SignsInRound
  <1>3. CASE ~(r2.target > r.target)
    BY <1>3, Zenon DEF SignsInRound, Continues
  <1> QED
    BY <1>2, <1>3, Zenon

\* Signing the block of the round, again or for the first time, is signing one block.
LEMMA SignsMore ==
    ASSUME NEW o, NEW r, NEW n, NEW msgs, n \cup msgs \subseteq Message,
           RoundOK(r, n), SignsInRound(o, r, n), SignsOnce(o, n), SignsFor(o, r, msgs)
    PROVE  SignsInRound(o, r, n \cup msgs) /\ SignsOnce(o, n \cup msgs)
  <1>1. \A m \in SignedBy(o, n \cup msgs) :
           m \in SignedBy(o, n) \/ (r.state = "BlockVote" /\ m.block = r.blocks[r.target].gen)
    BY Zenon DEF SignedBy, SignsFor
  <1>2. r.state = "BlockVote" => r.blocks[r.target].gen.height = r.target
    BY Zenon DEF RoundOK
  <1>3. r.target <= r.target
    BY RoundFields
  <1>4. SignsInRound(o, r, n \cup msgs)
    BY <1>1, <1>2, <1>3, Zenon DEF SignsInRound
  <1>5. SignsOnce(o, n \cup msgs)
    BY <1>1, <1>2, Zenon DEF SignsInRound, SignsOnce
  <1> QED
    BY <1>4, <1>5, Zenon

\* The signatures of the others stay what they were.
LEMMA VotesSet ==
    ASSUME NEW rs, NEW n, NEW msgs, NEW o \in Observer, NEW r, NEW r2,
           rs = [p \in Observer |-> rs[p]], VotesOK(rs, n), SignsFor(o, r, msgs),
           SignsInRound(o, r2, n \cup msgs), SignsOnce(o, n \cup msgs)
    PROVE  VotesOK([rs EXCEPT ![o] = r2], n \cup msgs)
  <1> DEFINE rs2 == [rs EXCEPT ![o] = r2]
  <1>1. rs2[o] = r2 /\ (\A p \in Observer : p # o => rs2[p] = rs[p])
    BY Zenon
  <1> HIDE DEF rs2
  <1>2. \A p \in Observer : p # o => SignedBy(p, n \cup msgs) = SignedBy(p, n)
    BY Zenon DEF SignedBy, SignsFor
  <1>3. \A p \in Observer : p # o => SignsInRound(p, rs2[p], n \cup msgs) /\ SignsOnce(p, n \cup msgs)
    <2> SUFFICES ASSUME NEW p \in Observer, p # o
                 PROVE  SignsInRound(p, rs2[p], n \cup msgs) /\ SignsOnce(p, n \cup msgs)
      BY Zenon
    <2>1. rs2[p] = rs[p] /\ SignedBy(p, n \cup msgs) = SignedBy(p, n)
      BY <1>1, <1>2, Zenon
    <2>2. SignsInRound(p, rs[p], n) /\ SignsOnce(p, n)
      BY Zenon DEF VotesOK
    <2>3. SignsInRound(p, rs2[p], n \cup msgs)
      BY <2>1, <2>2 DEF SignsInRound
    <2> QED
      BY Zenon, <2>1, <2>2, <2>3 DEF SignsOnce
  <1>4. VotesOK(rs2, n \cup msgs)
    BY <1>1, <1>3, Zenon DEF VotesOK
  <1> QED
    BY <1>4 DEF rs2

-----------------------------------------------------------------------------
(* The round after syncVoteRound. *)

\* The length of a chain is a number.
LEMMA ChainLength ==
    ASSUME ObserverInv, NEW o \in Observer
    PROVE  chain[o] \in Seq(Block) /\ Len(chain[o]) \in Nat /\ Len(chain[o]) + 1 \in Nat
  <1>1. chain[o] \in Seq(Block)
    BY Zenon DEF ObserverInv, ChainsOK
  <1>2. PICK s \in Seq(Block) : s = chain[o]
    BY <1>1, Zenon
  <1>3. Len(s) \in Nat
    BY LenProperties, Zenon
  <1>4. Len(s) + 1 \in Nat
    BY <1>3
  <1> QED
    BY <1>1, <1>2, <1>3, <1>4, Zenon

\* A round with other contents for the same or fewer heights.
LEMMA RoundMade ==
    ASSUME NEW r, NEW n, RoundOK(r, n), NEW r2, NEW D, D \subseteq DOMAIN r.blocks, r2 \in RoundOver(D),
           r2.target \in D, r.target <= r2.target,
           r2.state \in {"BlockWait", "BlockVote"} => r2.winner # None,
           r2.state = "BlockVote" => r2.blocks[r2.target].gen # None,
           \A x \in D : r2.blocks[x].gen = r.blocks[x].gen /\ r2.blocks[x].votes = r.blocks[x].votes
    PROVE  RoundOK(r2, n)
  <1>1. DOMAIN r2.blocks = D
    <2>1. r2.blocks \in Blocks(D)
      BY DEF RoundOver
    <2> QED
      BY <2>1 DEF Blocks
  <1>2. D \subseteq Nat /\ r.target \in Nat /\ r2.target \in Nat
    BY RoundFields
  <1>3. \A x \in D :
          /\ r2.blocks[x].gen # None => r2.blocks[x].gen.height = x /\ x <= r2.target
          /\ r2.blocks[x].gen = None => r2.blocks[x].votes = {}
          /\ \A p \in r2.blocks[x].votes : Signature(p, r2.blocks[x].gen) \in n
    <2> TAKE x \in D
    <2>1. /\ r2.blocks[x].gen # None => r2.blocks[x].gen.height = x /\ x <= r.target
          /\ r2.blocks[x].gen = None => r2.blocks[x].votes = {}
          /\ \A p \in r2.blocks[x].votes : Signature(p, r2.blocks[x].gen) \in n
      <3>1. x \in DOMAIN r.blocks /\ r2.blocks[x].gen = r.blocks[x].gen /\ r2.blocks[x].votes = r.blocks[x].votes
        BY Zenon
      <3>2. /\ r.blocks[x].gen # None => r.blocks[x].gen.height = x /\ x <= r.target
            /\ r.blocks[x].gen = None => r.blocks[x].votes = {}
            /\ \A p \in r.blocks[x].votes : Signature(p, r.blocks[x].gen) \in n
        BY <3>1, Zenon DEF RoundOK
      <3> QED
        BY <3>1, <3>2
    <2>2. x <= r.target => x <= r2.target
      BY <1>2
    <2> QED
      BY <2>1, <2>2, Zenon
  <1> QED
    BY <1>1, <1>2, <1>3, Zenon DEF RoundOK

\* One block that a round waits for is replaced.
Held(bs, h, b) == [bs EXCEPT ![h].genWait = b]

\* Replacing a block that is waited for changes neither blocks nor votes.
LEMMA HeldBlocks ==
    ASSUME NEW D, NEW bs \in Blocks(D), NEW h \in D, NEW b \in Block \cup {None}
    PROVE  /\ Held(bs, h, b) \in Blocks(D)
           /\ \A x \in D : Held(bs, h, b)[x].gen = bs[x].gen /\ Held(bs, h, b)[x].votes = bs[x].votes
  <1> DEFINE bs2 == [bs EXCEPT ![h].genWait = b]
  <1>1. \A x \in D : bs[x] \in BlockRound
    BY DEF Blocks
  <1>2. \A x \in D : bs2[x] \in BlockRound /\ bs2[x].gen = bs[x].gen /\ bs2[x].votes = bs[x].votes
    BY <1>1 DEF BlockRound, Blocks
  <1>3. bs2 = [x \in D |-> bs2[x]]
    BY Zenon DEF Blocks
  <1> HIDE DEF bs2
  <1> QED
    BY <1>2, <1>3 DEF Blocks, bs2, Held

\* The round of an observer before it handles a message or a timer.
LEMMA SyncedOK ==
    ASSUME ObserverInv, NEW o \in Observer
    PROVE  /\ RoundOK(Synced(o), net)
           /\ Synced(o).target = Len(chain[o]) + 1
           /\ Continues(round[o], Synced(o))
  <1> DEFINE r == round[o]
             target == Len(chain[o]) + 1
             keep == IF r.blocks[target].gen = None THEN None ELSE r.blocks[target].genWait
             r2 == [r EXCEPT !.target = target, !.state = "BlockWait", !.blocks[target].genWait = keep]
  <1>1. RoundOK(r, net) /\ r.target <= target
    BY Zenon DEF ObserverInv, RoundsOK
  <1>2. chain[o] \in Seq(Block) /\ target \in Nat
    BY ChainLength, Zenon
  <1>3. r.target \in Nat /\ r \in RoundOver(DOMAIN r.blocks) /\ r.blocks \in Blocks(DOMAIN r.blocks)
    BY <1>1, RoundFields, Zenon
  <1>4. CASE r.target >= target
    <2>1. r.target = target
      BY <1>1, <1>2, <1>3, <1>4
    <2>2. Synced(o) = r
      BY <1>4, Zenon DEF Synced
    <2> QED
      BY <1>1, <2>1, <2>2, Zenon DEF Continues
  <1>5. CASE ~(r.target >= target) /\ r.winner # None /\ IsTop(table[o], 0, r.winner.formulator) /\ target \in DOMAIN r.blocks
    <2>1. Synced(o) = r2
      BY <1>5, Zenon DEF Synced
    <2>2. keep \in Block \cup {None}
      BY <1>3, <1>5 DEF Blocks, BlockRound
    <2> HIDE DEF keep
    <2> DEFINE bs == Held(r.blocks, target, keep)
    <2>4. bs \in Blocks(DOMAIN r.blocks) /\ \A x \in DOMAIN r.blocks : bs[x].gen = r.blocks[x].gen /\ bs[x].votes = r.blocks[x].votes
      BY <1>3, <1>5, <2>2, HeldBlocks
    <2>5. "BlockWait" \in State
      BY DEF State
    <2> HIDE DEF target
    <2>6. r2 \in RoundOver(DOMAIN r.blocks) /\ r2.target = target /\ r2.state = "BlockWait"
          /\ r2.winner = r.winner /\ r2.blocks = bs
      BY Zenon, <1>2, <1>3, <2>4, <2>5 DEF RoundOver, Held
    <2>7. r2.target > r.target /\ r.target <= r2.target
      BY <1>2, <1>3, <1>5, <2>6 DEF target
    <2> HIDE DEF r2, r
    <2>8. RoundOK(r2, net)
      BY <1>1, <1>5, <2>4, <2>6, <2>7, RoundMade
    <2> QED
      BY <2>1, <2>6, <2>7, <2>8 DEF Continues, r, target
  <1>6. CASE ~(r.target >= target) /\ ~(r.winner # None /\ IsTop(table[o], 0, r.winner.formulator) /\ target \in DOMAIN r.blocks)
    <2>1. Synced(o) = NewVoteRound(target)
      BY <1>6, Zenon DEF Synced
    <2>2. RoundOK(NewVoteRound(target), net) /\ NewVoteRound(target).target = target
      BY <1>2, NewRoundOK, Zenon
    <2>3. target > r.target
      BY <1>2, <1>3, <1>6
    <2> QED
      BY <2>1, <2>2, <2>3, Zenon DEF Continues
  <1> QED
    BY <1>4, <1>5, <1>6, Zenon

-----------------------------------------------------------------------------
(* Steps of one round. *)

\* An observer goes on in its round and sends messages that sign nothing but the block of the round.
LEMMA RoundStep ==
    ASSUME ObserverInv, NEW o \in Observer, NEW r2, NEW msgs,
           RoundOK(r2, net), Continues(Synced(o), r2), r2.target = Len(chain[o]) + 1,
           msgs \subseteq Message, SignsFor(o, r2, msgs),
           SetRound(o, r2), Send(msgs),
           UNCHANGED <<chain, table, formulator, fails, restarts>>, ts' \in [Observer -> Nat]
    PROVE  ObserverInv'
  <1>1. net' = net \cup msgs /\ round' = [round EXCEPT ![o] = r2] /\ chain' = chain
    BY Zenon DEF Send, SetRound
  <1>2. net' \subseteq Message /\ net \subseteq net'
    BY <1>1, Zenon DEF ObserverInv
  <1>3. TablesInv' /\ GenInv'
    BY Zenon DEF ObserverInv, TablesInv, GenInv, formulator
  <1>4. ChainsOK(chain', net')
    BY <1>1, <1>2, ChainsKept, Zenon DEF ObserverInv
  <1>5. RoundOK(r2, net') /\ r2.target \in Nat /\ r2.target <= Len(chain[o]) + 1
    BY <1>2, RoundKept, RoundFields
  <1>6. RoundsOK(round', chain', net')
    BY Zenon, <1>1, <1>2, <1>5, RoundsSet DEF ObserverInv
  <1>7. ASSUME fails' = 0, restarts' = 0
        PROVE  VotesOK(round', net')
    <2>1. VotesOK(round, net)
      BY <1>7, Zenon DEF ObserverInv
    <2>2. SignsInRound(o, round[o], net) /\ SignsOnce(o, net)
      BY <2>1, Zenon DEF VotesOK
    <2>3. RoundOK(round[o], net) /\ RoundOK(Synced(o), net) /\ Continues(round[o], Synced(o))
      BY SyncedOK, Zenon DEF ObserverInv, RoundsOK
    <2>4. round[o].target \in Nat /\ Synced(o).target \in Nat
      BY <2>3, RoundFields, Zenon
    <2>5. SignsInRound(o, Synced(o), net)
      BY <2>2, <2>3, <2>4, SignsContinue, Zenon DEF ObserverInv
    <2>6. SignsInRound(o, r2, net)
      BY <1>5, <2>4, <2>5, SignsContinue, Zenon DEF ObserverInv
    <2>7. SignsInRound(o, r2, net \cup msgs) /\ SignsOnce(o, net \cup msgs)
      BY <1>1, <1>2, <2>2, <2>6, SignsMore, Zenon
    <2>8. round = [p \in Observer |-> round[p]]
      BY Zenon DEF ObserverInv, RoundsOK
    <2> QED
      BY <1>1, <2>1, <2>7, <2>8, VotesSet, Zenon
  <1> QED
    BY <1>2, <1>3, <1>4, <1>6, <1>7, Zenon DEF ObserverInv

\* Messages that sign nothing.
LEMMA SignsNothing ==
    ASSUME NEW o, NEW r, NEW msgs, msgs \subseteq VoteMsg \cup AckMsg \cup SetupMsg \cup ReqMsg \cup GenMsg
    PROVE  msgs \subseteq Message /\ SignsFor(o, r, msgs)
  <1>1. \A x \in VoteMsg \cup AckMsg \cup SetupMsg \cup ReqMsg \cup GenMsg : x.type # "blockvote"
    BY DEF VoteMsg, AckMsg, SetupMsg, ReqMsg, GenMsg
  <1> QED
    BY <1>1, Zenon DEF SignsFor, Message

\* Two sets of messages sent together.
LEMMA SignsUnion ==
    ASSUME NEW o, NEW r, NEW a, NEW b, a \subseteq Message, b \subseteq Message, SignsFor(o, r, a), SignsFor(o, r, b)
    PROVE  a \cup b \subseteq Message /\ SignsFor(o, r, a \cup b)
  BY Zenon DEF SignsFor

\* The fields of a block.
LEMMA BlockFields ==
    ASSUME NEW b \in Block
    PROVE  b.id \in Nat /\ b.height \in Nat /\ b.gen \in Address /\ b.timeout \in Nat
  <1>1. b.id \in 1 .. MaxMade /\ b.height \in Nat /\ b.gen \in Address /\ b.timeout \in Nat
    BY DEF Block
  <1> QED
    BY <1>1

\* The hash of the last block, or zero.
LEMMA LastHashType ==
    ASSUME NEW c \in Seq(Block)
    PROVE  LastHash(c) \in Nat
  <1>1. CASE c = <<>>
    BY <1>1 DEF LastHash
  <1>2. CASE c # <<>>
    <2>1. Len(c) \in 1 .. Len(c)
      BY <1>2
    <2>2. c[Len(c)] \in Block
      BY <2>1
    <2> QED
      BY <1>2, <2>2, BlockFields, Zenon DEF LastHash
  <1> QED
    BY <1>1, <1>2

\* The formulator of a vote is one of the table.
LEMMA TopInMapPlace ==
    ASSUME NEW t \in Table, NEW map, NEW k \in TopInMap(t, map)
    PROVE  k \in Nat /\ t.ranks[k + 1].addr \in Address
  <1> DEFINE in == {i \in DOMAIN t.ranks : t.ranks[i].addr \in map}
  <1>1. t.ranks \in Seq(Rank) /\ DOMAIN t.ranks \subseteq Nat
    BY DEF Table
  <1>2. in # {} /\ k = Min(in) - 1
    BY Zenon DEF TopInMap
  <1>3. in \in SUBSET Nat
    BY <1>1, Zenon
  <1>4. PICK i \in in : \A j \in in : i <= j
    BY <1>2, <1>3, LeastNatural, Zenon
  <1> HIDE DEF in
  <1>5. Min(in) \in in
    BY <1>4, Zenon DEF Min
  <1>6. Min(in) \in DOMAIN t.ranks
    BY <1>5, Zenon DEF in
  <1>7. PICK x \in 1 .. Len(t.ranks) : x = Min(in)
    BY <1>1, <1>6
  <1>8. k \in Nat /\ k + 1 = x
    BY <1>1, <1>2, <1>7
  <1>9. t.ranks[x] \in Rank
    BY <1>1, <1>7
  <1> QED
    BY <1>8, <1>9 DEF Rank

\* sendRoundVote sends votes.
LEMMA RoundVotesType ==
    ASSUME ObserverInv, NEW o \in Observer
    PROVE  RoundVotes(o) \subseteq VoteMsg
  <1>1. chain[o] \in Seq(Block) /\ table[o] \in Table /\ ts[o] \in Nat
    BY Zenon DEF ObserverInv, ChainsOK, TablesInv, GenInv
  <1>2. Len(chain[o]) + 1 \in Nat /\ LastHash(chain[o]) \in Nat
    BY <1>1, ChainLength, LastHashType, Zenon
  <1>3. \A k \in TopInMap(table[o], Adjusted(o)) : k \in Nat /\ table[o].ranks[k + 1].addr \in Address
    BY <1>1, TopInMapPlace, Zenon
  <1>4. \A k \in TopInMap(table[o], Adjusted(o)) :
           [type |-> "vote", from |-> o, height |-> Len(chain[o]) + 1, last |-> LastHash(chain[o]),
            timeout |-> k, formulator |-> table[o].ranks[k + 1].addr, ts |-> ts[o]] \in VoteMsg
    BY <1>1, <1>2, <1>3 DEF VoteMsg
  <1> QED
    BY <1>4 DEF RoundVotes

\* What an observer sends again in a round.
LEMMA RepliesSign ==
    ASSUME ObserverInv, NEW o \in Observer, NEW r, RoundOK(r, net)
    PROVE  /\ RoundVoteTo(o, r) \subseteq VoteMsg
           /\ RoundVoteAckTo(o, r) \subseteq AckMsg
           /\ BlockVoteTo(o, r) \subseteq Message /\ SignsFor(o, r, BlockVoteTo(o, r))
  <1>1. Len(chain[o]) + 1 \in Nat /\ LastHash(chain[o]) \in Nat /\ ts[o] \in Nat
    <2>1. chain[o] \in Seq(Block) /\ ts[o] \in Nat
      BY Zenon DEF ObserverInv, ChainsOK, GenInv
    <2> QED
      BY <2>1, ChainLength, LastHashType, Zenon
  <1>2. \A v \in VoteMsg : Renewed(o, v) \in VoteMsg
    BY Zenon, <1>1 DEF Renewed, VoteMsg
  <1>3. \A v \in AckMsg : Renewed(o, v) \in AckMsg
    BY Zenon, <1>1 DEF Renewed, AckMsg
  <1>4. /\ r.votes[o] \in VoteMsg \cup {None} /\ r.acks[o] \in AckMsg \cup {None}
    <2>1. r.votes \in Votes /\ r.acks \in Acks
      BY RoundFields, Zenon
    <2> QED
      BY <2>1, Zenon DEF Votes, Acks
  <1>5. RoundVoteTo(o, r) \subseteq VoteMsg
    BY <1>2, <1>4, RoundVotesType, Zenon DEF RoundVoteTo
  <1>6. RoundVoteAckTo(o, r) \subseteq AckMsg
    BY <1>3, <1>4, Zenon DEF RoundVoteAckTo
  <1>7. r.state = "BlockVote" => r.blocks[r.target].gen \in Block
    <2>1. r.blocks \in Blocks(DOMAIN r.blocks) /\ r.target \in DOMAIN r.blocks
      BY RoundFields, Zenon
    <2>2. r.blocks[r.target] \in BlockRound
      BY <2>1, Zenon DEF Blocks
    <2>3. r.blocks[r.target].gen \in Block \cup {None}
      BY <2>2 DEF BlockRound
    <2>4. r.state = "BlockVote" => r.blocks[r.target].gen # None
      BY Zenon DEF RoundOK
    <2> QED
      BY <2>3, <2>4, Zenon
  <1>8. \A b \in Block : BlockVotes(o, b) \subseteq SignMsg /\ \A m \in BlockVotes(o, b) : m.from = o /\ m.block = b
    BY DEF BlockVotes, SignMsg
  <1>9. BlockVoteTo(o, r) \subseteq Message /\ SignsFor(o, r, BlockVoteTo(o, r))
    <2>1. CASE r.state = "BlockVote"
      <3>1. BlockVoteTo(o, r) = BlockVotes(o, r.blocks[r.target].gen)
        BY <2>1, Zenon DEF BlockVoteTo
      <3> QED
        BY <1>7, <1>8, <2>1, <3>1, Zenon DEF SignsFor, Message
    <2>2. CASE r.state # "BlockVote"
      BY <2>2, Zenon DEF BlockVoteTo, SignsFor
    <2> QED
      BY <2>1, <2>2, Zenon
  <1> QED
    BY <1>5, <1>6, <1>9, Zenon

\* Replies of the message handlers, alone and together.
LEMMA Replies ==
    ASSUME ObserverInv, NEW o \in Observer, NEW r, RoundOK(r, net), NEW m,
           NEW msgs, msgs \in {RoundVoteTo(o, r), RoundVoteAckTo(o, r), BlockVoteTo(o, r),
                               BlockVoteTo(o, r) \cup RoundVoteTo(o, r), BlockVoteTo(o, r) \cup RoundVoteAckTo(o, r)}
    PROVE  Reply(o, m, msgs) \subseteq Message /\ SignsFor(o, r, Reply(o, m, msgs))
  <1>1. RoundVoteTo(o, r) \subseteq Message /\ SignsFor(o, r, RoundVoteTo(o, r))
    <2>1. RoundVoteTo(o, r) \subseteq VoteMsg \cup AckMsg \cup SetupMsg \cup ReqMsg \cup GenMsg
      BY RepliesSign, Zenon
    <2> QED
      BY <2>1, SignsNothing, Zenon
  <1>2. RoundVoteAckTo(o, r) \subseteq Message /\ SignsFor(o, r, RoundVoteAckTo(o, r))
    <2>1. RoundVoteAckTo(o, r) \subseteq VoteMsg \cup AckMsg \cup SetupMsg \cup ReqMsg \cup GenMsg
      BY RepliesSign, Zenon
    <2> QED
      BY <2>1, SignsNothing, Zenon
  <1>3. BlockVoteTo(o, r) \subseteq Message /\ SignsFor(o, r, BlockVoteTo(o, r))
    BY RepliesSign, Zenon
  <1>4. BlockVoteTo(o, r) \cup RoundVoteTo(o, r) \subseteq Message /\ SignsFor(o, r, BlockVoteTo(o, r) \cup RoundVoteTo(o, r))
    BY <1>1, <1>3, SignsUnion, Zenon
  <1>5. BlockVoteTo(o, r) \cup RoundVoteAckTo(o, r) \subseteq Message
        /\ SignsFor(o, r, BlockVoteTo(o, r) \cup RoundVoteAckTo(o, r))
    BY <1>2, <1>3, SignsUnion, Zenon
  <1>6. msgs \subseteq Message /\ SignsFor(o, r, msgs)
    BY <1>1, <1>2, <1>3, <1>4, <1>5
  <1> QED
    BY <1>6, Zenon DEF Reply, SignsFor

\* The vote that is acknowledged is one of the votes.
LEMMA MinVoterVotes ==
    ASSUME NEW votes \in Votes, {p \in Observer : votes[p] # None} # {}
    PROVE  MinVoter(votes) \in Observer /\ votes[MinVoter(votes)] \in VoteMsg
  <1> DEFINE voters == {p \in Observer : votes[p] # None}
             times == {votes[p].timeout : p \in voters}
  <1>1. \A p \in voters : p \in Observer /\ p \in Nat /\ votes[p] \in VoteMsg
    BY ObserverAssumption, Zenon DEF Votes
  <1>2. \A p \in voters : votes[p].timeout \in Nat
    BY <1>1 DEF VoteMsg
  <1>3. times \in SUBSET Nat /\ times # {}
    BY <1>2, Zenon
  <1>4. PICK t \in times : \A u \in times : t <= u
    BY <1>3, LeastNatural, Zenon
  <1> DEFINE first == {p \in voters : votes[p].timeout = t}
  <1>5. first \in SUBSET Nat /\ first # {}
    BY <1>1, <1>4, Zenon
  <1>6. PICK p \in first : \A q \in first : p <= q
    BY <1>5, LeastNatural, Zenon
  <1>7. \A q \in voters : votes[p].timeout < votes[q].timeout \/ (votes[p].timeout = votes[q].timeout /\ p <= q)
    <2> TAKE q \in voters
    <2>1. votes[q].timeout \in times /\ votes[p].timeout = t /\ p \in voters
      BY <1>6, Zenon
    <2>2. t <= votes[q].timeout /\ t \in Nat /\ votes[q].timeout \in Nat
      BY <1>2, <1>4, <2>1, Zenon
    <2>3. CASE votes[q].timeout = t
      BY <1>6, <2>1, <2>3, Zenon
    <2>4. CASE votes[q].timeout # t
      BY <2>1, <2>2, <2>4
    <2> QED
      BY <2>3, <2>4, Zenon
  <1>8. p \in voters
    BY <1>6, Zenon
  <1> HIDE DEF voters
  <1>9. MinVoter(votes) \in voters
    BY <1>7, <1>8, Zenon DEF MinVoter, voters
  <1> QED
    BY <1>1, <1>9, Zenon

\* A majority of votes is not empty.
LEMMA FullIsSome ==
    ASSUME NEW votes, Cardinality({p \in Observer : votes[p] # None}) >= VoteMajority
    PROVE  {p \in Observer : votes[p] # None} # {}
  <1>1. Cardinality({}) = 0
    BY FS_EmptySet, Zenon
  <1> QED
    BY <1>1, MajorityType

\* The round after a message that changes no block of it.
LEMMA VotedRound ==
    ASSUME NEW r, NEW n, RoundOK(r, n), r.state \in {"RoundVote", "RoundVoteAck"},
           NEW r2, r2 \in RoundOver(DOMAIN r.blocks), r2.target = r.target, r2.blocks = r.blocks,
           r2.state \in {"RoundVote", "RoundVoteAck"}
    PROVE  RoundOK(r2, n) /\ Continues(r, r2)
  <1>1. r.target \in DOMAIN r.blocks /\ r.target \in Nat
    BY RoundFields, Zenon
  <1>2. r2.state \notin {"BlockWait", "BlockVote"} /\ r.state # "BlockVote" /\ r2.state # "BlockVote"
    OBVIOUS
  <1>3. r.target <= r2.target
    BY <1>1
  <1>4. RoundOK(r2, n)
    BY <1>1, <1>2, <1>3, RoundMade, Zenon
  <1>5. Continues(r, r2)
    BY <1>2, Zenon DEF Continues
  <1> QED
    BY <1>4, <1>5, Zenon

\* What the handlers receive.
LEMMA ReceivedTypes ==
    ASSUME ObserverInv
    PROVE  /\ \A m \in Received("vote") : m \in VoteMsg /\ m.from \in Observer
           /\ \A m \in Received("ack") : m \in AckMsg /\ m.from \in Observer
           /\ \A m \in Received("setup") : m \in SetupMsg /\ m.from \in Observer
           /\ \A m \in Received("blockreq") : m \in ReqMsg
           /\ \A m \in Received("blockgen") : m \in GenMsg /\ m.block \in Block
           /\ \A m \in Received("blockvote") : m \in SignMsg /\ m.from \in Observer /\ m.block \in Block
                                               /\ m = Signature(m.from, m.block) /\ m \in net
  <1>1. \A type : \A m \in Received(type) : m \in net /\ m \in Message /\ m.type = type
    BY Zenon DEF ObserverInv, Received
  <1>2. /\ \A m \in VoteMsg \cup AckMsg \cup SetupMsg \cup SignMsg : m.from \in Observer
        /\ \A m \in GenMsg \cup SignMsg : m.block \in Block
        /\ \A m \in SignMsg : m = Signature(m.from, m.block)
    BY DEF VoteMsg, AckMsg, SetupMsg, SignMsg, GenMsg, Signature
  <1> QED
    BY <1>1, <1>2, MessageKinds, Zenon

\* A turn has at least one block left.
LEMMA RemainBlocksSome ==
    ASSUME NEW t \in Table, NEW timeout
    PROVE  RemainBlocks(t, timeout) \in Nat /\ RemainBlocks(t, timeout) >= 1
  <1>1. t.count \in 0 .. MaxBlocksPerFormulator - 1 /\ MaxBlocksPerFormulator \in Nat \ {0}
    BY ObserverAssumption DEF Table
  <1> QED
    BY <1>1 DEF RemainBlocks

\* The round of a winner keeps its target.
LEMMA WaitRound ==
    ASSUME NEW o \in Observer, table[o] \in Table, NEW r, NEW n, RoundOK(r, n),
           r.state \in {"RoundVote", "RoundVoteAck"}, NEW w \in AckMsg
    PROVE  /\ RoundOK(BlockWait(o, r, w), n) /\ Continues(r, BlockWait(o, r, w))
           /\ BlockWait(o, r, w).target = r.target
  <1> DEFINE last == r.target + RemainBlocks(table[o], w.timeout) - 1
             keep(h) == LET b == r.blocks[h].genWait
                        IN IF h = r.target \/ b = None THEN None ELSE IF b.gen # w.formulator THEN None ELSE b
             D == {x \in DOMAIN r.blocks : x <= last}
             bs == [h \in D |-> [r.blocks[h] EXCEPT !.genWait = keep(h)]]
             win == [formulator |-> w.formulator, public |-> w.public]
             r2 == [r EXCEPT !.state = "BlockWait", !.acks = Own(o, r.acks), !.winner = win, !.blocks = bs]
  <1>1. /\ r \in RoundOver(DOMAIN r.blocks) /\ r.target \in DOMAIN r.blocks /\ r.target \in Nat
        /\ r.acks \in Acks /\ r.blocks \in Blocks(DOMAIN r.blocks)
    BY RoundFields, Zenon
  <1>2. BlockWait(o, r, w) = r2
    BY Zenon DEF BlockWait
  <1>3. r.target \in D /\ D \subseteq DOMAIN r.blocks
    <2>1. r.target <= last
      BY <1>1, RemainBlocksSome
    <2> QED
      BY <1>1, <2>1, Zenon
  <1>4. win \in Winner
    BY DEF AckMsg, Winner
  <1>5. win # None
    BY <1>4, ObserverAssumption, Zenon
  <1>6. Own(o, r.acks) \in Acks
    BY <1>1 DEF Own, Acks
  <1> HIDE DEF D
  <1>7. bs \in Blocks(D) /\ \A x \in D : bs[x].gen = r.blocks[x].gen /\ bs[x].votes = r.blocks[x].votes
    <2> SUFFICES ASSUME NEW x \in D
                 PROVE  bs[x] \in BlockRound /\ bs[x].gen = r.blocks[x].gen /\ bs[x].votes = r.blocks[x].votes
      BY Zenon DEF Blocks
    <2>1. r.blocks[x] \in BlockRound
      BY <1>1, <1>3, Zenon DEF Blocks
    <2>2. r.blocks[x].genWait \in Block \cup {None}
      BY <2>1 DEF BlockRound
    <2>3. keep(x) \in Block \cup {None}
      BY <2>2, Zenon
    <2> HIDE DEF keep
    <2>4. bs[x] = [r.blocks[x] EXCEPT !.genWait = keep(x)]
      BY Zenon
    <2> QED
      BY <2>1, <2>3, <2>4 DEF BlockRound
  <1>8. "BlockWait" \in State
    BY DEF State
  <1> HIDE DEF bs, win, last, keep
  <1>9. r2 \in RoundOver(D) /\ r2.target = r.target /\ r2.state = "BlockWait" /\ r2.winner = win /\ r2.blocks = bs
    BY Zenon, <1>1, <1>4, <1>6, <1>7, <1>8 DEF RoundOver
  <1> HIDE DEF r2
  <1>10. r.target <= r2.target /\ r2.state # "BlockVote" /\ r.state # "BlockVote"
    BY <1>1, <1>9
  <1>11. RoundOK(r2, n)
    BY <1>3, <1>5, <1>7, <1>9, <1>10, RoundMade
  <1> QED
    BY <1>2, <1>9, <1>10, <1>11, Zenon DEF Continues

\* A block that is passed on signs nothing.
LEMMA BlockGenType ==
    ASSUME NEW b \in Block
    PROVE  BlockGen(b) \subseteq VoteMsg \cup AckMsg \cup SetupMsg \cup ReqMsg \cup GenMsg
  <1>1. [type |-> "blockgen", to |-> All, block |-> b] \in GenMsg
    BY DEF GenMsg
  <1> QED
    BY <1>1, Zenon DEF BlockGen

\* The block of a round in BlockVote.
LEMMA VotedBlock ==
    ASSUME NEW r, NEW n, RoundOK(r, n), r.state = "BlockVote"
    PROVE  r.blocks[r.target].gen \in Block /\ r.blocks[r.target].gen.height = r.target
  <1>1. r.blocks \in Blocks(DOMAIN r.blocks) /\ r.target \in DOMAIN r.blocks
    BY RoundFields, Zenon
  <1>2. r.blocks[r.target] \in BlockRound
    BY <1>1, Zenon DEF Blocks
  <1>3. r.blocks[r.target].gen \in Block \cup {None}
    BY <1>2 DEF BlockRound
  <1>4. r.blocks[r.target].gen # None
    BY Zenon DEF RoundOK
  <1> QED
    BY <1>1, <1>3, <1>4, Zenon DEF RoundOK

\* The round that waits for another block.
LEMMA HoldRound ==
    ASSUME NEW r, NEW n, RoundOK(r, n), NEW b \in Block, NEW h \in DOMAIN r.blocks
    PROVE  LET r2 == [r EXCEPT !.blocks[h].genWait = b]
           IN RoundOK(r2, n) /\ Continues(r, r2) /\ r2.target = r.target
  <1> DEFINE r2 == [r EXCEPT !.blocks[h].genWait = b]
             D == DOMAIN r.blocks
             bs == Held(r.blocks, h, b)
  <1>1. r \in RoundOver(D) /\ r.target \in D /\ r.target \in Nat /\ r.blocks \in Blocks(D)
    BY RoundFields, Zenon
  <1>2. bs \in Blocks(D) /\ \A x \in D : bs[x].gen = r.blocks[x].gen /\ bs[x].votes = r.blocks[x].votes
    BY <1>1, HeldBlocks
  <1>3. r2 \in RoundOver(D) /\ r2.target = r.target /\ r2.state = r.state /\ r2.winner = r.winner /\ r2.blocks = bs
    BY <1>1, <1>2 DEF RoundOver, Held
  <1> HIDE DEF bs, r2
  <1>4. r2.state \in {"BlockWait", "BlockVote"} => r2.winner # None
    BY <1>3, Zenon DEF RoundOK
  <1>5. r2.state = "BlockVote" => r2.blocks[r2.target].gen # None
    BY <1>1, <1>2, <1>3 DEF RoundOK
  <1>6. r.target <= r2.target
    BY <1>1, <1>3
  <1>7. \A x \in D : r2.blocks[x].gen = r.blocks[x].gen /\ r2.blocks[x].votes = r.blocks[x].votes
    BY <1>2, <1>3
  <1>8. RoundOK(r2, n)
    <2> HIDE DEF D
    <2>1. D \subseteq DOMAIN r.blocks /\ r2 \in RoundOver(D) /\ r2.target \in D
      BY <1>1, <1>3 DEF D
    <2> QED
      BY <1>4, <1>5, <1>6, <1>7, <2>1, RoundMade
  <1>9. RoundOK(r2, n) /\ Continues(r, r2) /\ r2.target = r.target
    BY <1>1, <1>3, <1>7, <1>8 DEF Continues
  <1> QED
    BY <1>9, Zenon DEF r2

\* The round that signs a block.
LEMMA SignRound ==
    ASSUME NEW r, NEW n, RoundOK(r, n), NEW b \in Block, r.state = "BlockWait", b.height = r.target,
           r.blocks[r.target].gen = None
    PROVE  LET r2 == [r EXCEPT !.state = "BlockVote", !.blocks[b.height].gen = b]
           IN /\ RoundOK(r2, n) /\ Continues(r, r2) /\ r2.target = r.target /\ r2.state = "BlockVote"
              /\ r2.blocks[r2.target].gen = b
  <1> DEFINE r2 == [r EXCEPT !.state = "BlockVote", !.blocks[b.height].gen = b]
             D == DOMAIN r.blocks
             t == r.target
             bs == [r.blocks EXCEPT ![t].gen = b]
  <1>1. r \in RoundOver(D) /\ t \in D /\ t \in Nat /\ r.blocks \in Blocks(D) /\ D \subseteq Nat
    BY RoundFields, Zenon
  <1>2. \A x \in D : r.blocks[x] \in BlockRound
    BY <1>1, Zenon DEF Blocks
  <1>3. /\ \A x \in D : x # t => bs[x] = r.blocks[x]
        /\ bs[t] = [r.blocks[t] EXCEPT !.gen = b] /\ bs = [x \in D |-> bs[x]]
    BY <1>1 DEF Blocks
  <1>4. bs[t] \in BlockRound /\ bs[t].gen = b /\ bs[t].votes = r.blocks[t].votes
    BY <1>1, <1>2, <1>3 DEF BlockRound
  <1>5. r.blocks[t].votes = {} /\ b # None
    BY <1>1, ObserverAssumption, Zenon DEF RoundOK
  <1>6. "BlockVote" \in State
    BY DEF State
  <1>7. PICK bl : bl = bs
    BY Zenon
  <1>8. bl \in Blocks(D) /\ DOMAIN bl = D
    BY <1>2, <1>3, <1>4, <1>7, Zenon DEF Blocks
  <1>9. r2 \in RoundOver(D) /\ r2.target = t /\ r2.state = "BlockVote" /\ r2.winner = r.winner /\ r2.blocks = bl
    BY Zenon, <1>1, <1>6, <1>7, <1>8 DEF RoundOver
  <1> HIDE DEF bs, t, r2
  <1>10. r.winner # None /\ r.target = t
    BY Zenon DEF RoundOK, t
  <1>11. \A x \in D :
           /\ bl[x].gen # None => bl[x].gen.height = x /\ x <= t
           /\ bl[x].gen = None => bl[x].votes = {}
           /\ \A p \in bl[x].votes : Signature(p, bl[x].gen) \in n
    <2> TAKE x \in D
    <2>1. CASE x = t
      <3>1. t <= t
        BY <1>1
      <3> QED
        BY <1>4, <1>5, <1>7, <1>10, <2>1, <3>1
    <2>2. CASE x # t
      <3>1. bl[x] = r.blocks[x]
        BY <1>3, <1>7, <2>2, Zenon
      <3> QED
        BY <1>10, <3>1 DEF RoundOK
    <2> QED
      BY <2>1, <2>2, Zenon
  <1>12. bl[t].gen = b
    BY <1>4, <1>7, Zenon
  <1>13. RoundOK(r2, n)
    BY <1>1, <1>5, <1>8, <1>9, <1>10, <1>11, <1>12 DEF RoundOK
  <1>14. /\ RoundOK(r2, n) /\ Continues(r, r2) /\ r2.target = r.target /\ r2.state = "BlockVote"
         /\ r2.blocks[r2.target].gen = b
    BY <1>9, <1>10, <1>12, <1>13 DEF Continues
  <1> QED
    BY <1>14, Zenon DEF r2

\* The signature of p is counted.
LEMMA CountedRound ==
    ASSUME NEW r, NEW n, RoundOK(r, n), r.state = "BlockVote", NEW p \in Observer,
           Signature(p, r.blocks[r.target].gen) \in n
    PROVE  LET r2 == [r EXCEPT !.blocks[r.target].votes = @ \cup {p}]
           IN /\ RoundOK(r2, n) /\ Continues(r, r2) /\ r2.target = r.target /\ r2.state = "BlockVote"
              /\ r2.blocks[r2.target].gen = r.blocks[r.target].gen
  <1> DEFINE r2 == [r EXCEPT !.blocks[r.target].votes = @ \cup {p}]
             D == DOMAIN r.blocks
             t == r.target
             bs == [r.blocks EXCEPT ![t].votes = @ \cup {p}]
  <1>1. r \in RoundOver(D) /\ t \in D /\ t \in Nat /\ r.blocks \in Blocks(D) /\ D \subseteq Nat
    BY RoundFields, Zenon
  <1>2. \A x \in D : r.blocks[x] \in BlockRound
    BY <1>1, Zenon DEF Blocks
  <1>3. /\ \A x \in D : x # t => bs[x] = r.blocks[x]
        /\ bs[t] = [r.blocks[t] EXCEPT !.votes = @ \cup {p}] /\ bs = [x \in D |-> bs[x]]
    BY <1>1 DEF Blocks
  <1>4. bs[t] \in BlockRound /\ bs[t].gen = r.blocks[t].gen /\ bs[t].votes = r.blocks[t].votes \cup {p}
    BY <1>1, <1>2, <1>3 DEF BlockRound
  <1>5. PICK bl : bl = bs
    BY Zenon
  <1>6. bl \in Blocks(D) /\ DOMAIN bl = D
    BY <1>2, <1>3, <1>4, <1>5, Zenon DEF Blocks
  <1>7. r2 \in RoundOver(D) /\ r2.target = t /\ r2.state = "BlockVote" /\ r2.winner = r.winner /\ r2.blocks = bl
    BY Zenon, <1>1, <1>5, <1>6 DEF RoundOver
  <1> HIDE DEF bs, t, r2
  <1>8. r.winner # None /\ r.target = t
    BY Zenon DEF RoundOK, t
  <1>9. r.blocks[t].gen # None
    BY <1>8 DEF RoundOK
  <1>10. \A x \in D :
           /\ bl[x].gen # None => bl[x].gen.height = x /\ x <= t
           /\ bl[x].gen = None => bl[x].votes = {}
           /\ \A q \in bl[x].votes : Signature(q, bl[x].gen) \in n
    <2> TAKE x \in D
    <2>1. CASE x = t
      <3>1. /\ r.blocks[t].gen # None => r.blocks[t].gen.height = t /\ t <= t
            /\ \A q \in r.blocks[t].votes : Signature(q, r.blocks[t].gen) \in n
        BY <1>1, <1>8, Zenon DEF RoundOK
      <3> QED
        BY <1>4, <1>5, <1>8, <1>9, <2>1, <3>1
    <2>2. CASE x # t
      <3>1. bl[x] = r.blocks[x]
        BY <1>3, <1>5, <2>2, Zenon
      <3> QED
        BY <1>8, <3>1 DEF RoundOK
    <2> QED
      BY <2>1, <2>2, Zenon
  <1>11. bl[t].gen = r.blocks[t].gen
    BY <1>4, <1>5, Zenon
  <1>12. RoundOK(r2, n)
    BY <1>1, <1>6, <1>7, <1>8, <1>9, <1>10, <1>11 DEF RoundOK
  <1>13. /\ RoundOK(r2, n) /\ Continues(r, r2) /\ r2.target = r.target /\ r2.state = "BlockVote"
         /\ r2.blocks[r2.target].gen = r.blocks[r.target].gen
    BY <1>7, <1>8, <1>11, <1>12 DEF Continues
  <1> QED
    BY <1>13, Zenon DEF r2

\* The round after a block has been connected.
LEMMA NextRound ==
    ASSUME NEW r, NEW n, RoundOK(r, n), r.state = "BlockVote", NEW turn,
           NEW r2, r2 = IF r.target + 1 \in DOMAIN r.blocks /\ turn
                        THEN [r EXCEPT !.state = "BlockWait", !.target = @ + 1]
                        ELSE NewVoteRound(r.target + 1)
    PROVE  RoundOK(r2, n) /\ Continues(r, r2) /\ r2.target = r.target + 1
  <1>1. r \in RoundOver(DOMAIN r.blocks) /\ r.target \in Nat
    BY RoundFields, Zenon
  <1>2. r.target + 1 \in Nat /\ r.target <= r.target + 1 /\ r.target + 1 > r.target
    BY <1>1
  <1>3. CASE r.target + 1 \in DOMAIN r.blocks /\ turn
    <2> DEFINE q == [r EXCEPT !.state = "BlockWait", !.target = @ + 1]
    <2>1. r2 = q /\ "BlockWait" \in State
      BY <1>3 DEF State
    <2>2. q \in RoundOver(DOMAIN r.blocks) /\ q.target = r.target + 1 /\ q.state = "BlockWait" /\ q.winner = r.winner
          /\ q.blocks = r.blocks
      BY Zenon, <1>1, <1>2, <2>1 DEF RoundOver
    <2>3. r.winner # None
      BY Zenon DEF RoundOK
    <2> HIDE DEF q
    <2>4. q.state # "BlockVote" /\ r.target <= q.target /\ q.target \in DOMAIN r.blocks
      BY <1>2, <1>3, <2>2
    <2>5. RoundOK(q, n)
      BY <2>2, <2>3, <2>4, RoundMade
    <2> QED
      BY <1>2, <2>1, <2>2, <2>5, Zenon DEF Continues
  <1>4. CASE ~(r.target + 1 \in DOMAIN r.blocks /\ turn)
    <2>1. r2 = NewVoteRound(r.target + 1)
      BY <1>4, Zenon
    <2> QED
      BY <1>2, <2>1, NewRoundOK, Zenon DEF Continues
  <1> QED
    BY <1>3, <1>4, Zenon
=============================================================================
