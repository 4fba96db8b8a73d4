--------------------------- MODULE ObserverProofs ---------------------------
(***************************************************************************)
(* What the observers agree on, for any number of observers, formulators,  *)
(* heights and messages: a connected block has the signatures of a         *)
(* majority, a round has the data its state promises, and without rounds   *)
(* given up and restarts the chains never fork.                            *)
(***************************************************************************)
EXTENDS ObserverRounds

-----------------------------------------------------------------------------
(* One lemma for each action. *)

\* A vote is handled.
LEMMA HandleRoundVoteStep ==
    ASSUME ObserverInv, NEW o \in Observer, NEW m \in Received("vote"), HandleRoundVote(o, Synced(o), m)
    PROVE  ObserverInv'
  <1> DEFINE r == Synced(o)
             votes == [r.votes EXCEPT ![m.from] = m]
             full == Cardinality({p \in Observer : votes[p] # None}) >= VoteMajority
             votes2 == IF full THEN Own(o, votes) ELSE votes
             state2 == IF full THEN "RoundVoteAck" ELSE r.state
             r2 == [r EXCEPT !.votes = votes2, !.state = state2]
             acks == IF full THEN {RoundVoteAck(o, votes)} ELSE {}
  <1>1. RoundOK(r, net) /\ r.target = Len(chain[o]) + 1
    BY SyncedOK, Zenon
  <1>2. UNCHANGED <<chain, table, formulator, fails, restarts>> /\ ts' \in [Observer -> Nat]
    BY Zenon DEF HandleRoundVote, ObserverInv, GenInv, bounds
  <1>3. r.votes \in Votes /\ r.target \in Nat /\ r.acks \in Acks
    BY <1>1, RoundFields, Zenon
  <1>4. m \in VoteMsg /\ m.from \in Observer
    BY ReceivedTypes, Zenon
  <1>5. votes \in Votes
    BY <1>3, <1>4, Zenon DEF Votes
  <1>6. CASE \E msgs : /\ msgs \in {BlockVoteTo(o, r) \cup RoundVoteTo(o, r), RoundVoteTo(o, r)}
                       /\ Answer(o, r, Reply(o, m, msgs))
    <2>1. PICK msgs : /\ msgs \in {BlockVoteTo(o, r) \cup RoundVoteTo(o, r), RoundVoteTo(o, r)}
                      /\ Answer(o, r, Reply(o, m, msgs))
      BY <1>6, Zenon
    <2>2. Reply(o, m, msgs) \subseteq Message /\ SignsFor(o, r, Reply(o, m, msgs))
      BY <1>1, <2>1, Replies
    <2>3. SetRound(o, r) /\ Send(Reply(o, m, msgs))
      BY <2>1, Zenon DEF Answer
    <2>4. Continues(r, r)
      BY Zenon DEF Continues
    <2> QED
      BY <1>1, <1>2, <2>2, <2>3, <2>4, RoundStep, Zenon
  <1>7. CASE r.state = "RoundVote" /\ SetRound(o, r2) /\ Send(Reply(o, m, RoundVoteTo(o, r)) \cup acks)
    <2>1. votes2 \in Votes /\ state2 \in {"RoundVote", "RoundVoteAck"}
      BY <1>5, <1>7 DEF Own, Votes
    <2>2. RoundOK(r2, net) /\ Continues(r, r2) /\ r2.target = Len(chain[o]) + 1
      <3>1. r \in RoundOver(DOMAIN r.blocks) /\ state2 \in State
        BY <1>1, <2>1, RoundFields DEF State
      <3> HIDE DEF votes2, state2, r
      <3>2. /\ r2 \in RoundOver(DOMAIN r.blocks) /\ r2.target = r.target /\ r2.blocks = r.blocks /\ r2.state = state2
        BY Zenon, <2>1, <3>1 DEF RoundOver
      <3> HIDE DEF r2
      <3> QED
        BY <1>1, <1>7, <2>1, <3>2, VotedRound
    <2>3. acks \subseteq AckMsg
      <3>1. ASSUME full PROVE RoundVoteAck(o, votes) \in AckMsg
        <4>1. MinVoter(votes) \in Observer /\ votes[MinVoter(votes)] \in VoteMsg
          BY <1>5, <3>1, FullIsSome, MinVoterVotes, Zenon
        <4>2. ts[o] \in Nat
          BY DEF ObserverInv, GenInv
        <4> HIDE DEF votes
        <4> QED
          BY <4>1, <4>2 DEF RoundVoteAck, VoteMsg, AckMsg
      <3> HIDE DEF full
      <3> QED
        BY <3>1
    <2>4. Reply(o, m, RoundVoteTo(o, r)) \subseteq VoteMsg
      BY <1>1, RepliesSign, Zenon DEF Reply
    <2> HIDE DEF acks
    <2>5. Reply(o, m, RoundVoteTo(o, r)) \cup acks \subseteq VoteMsg \cup AckMsg \cup SetupMsg \cup ReqMsg \cup GenMsg
      BY <2>3, <2>4, Zenon
    <2> HIDE DEF r2, r
    <2>6. /\ Reply(o, m, RoundVoteTo(o, r)) \cup acks \subseteq Message
          /\ SignsFor(o, r2, Reply(o, m, RoundVoteTo(o, r)) \cup acks)
      BY <2>5, SignsNothing, Zenon
    <2> QED
      BY <1>2, <1>7, <2>2, <2>6, RoundStep, Zenon DEF r
  <1> QED
    <2>1. \/ Answer(o, r, Reply(o, m, BlockVoteTo(o, r) \cup RoundVoteTo(o, r)))
          \/ Answer(o, r, Reply(o, m, RoundVoteTo(o, r)))
          \/ r.state = "RoundVote" /\ SetRound(o, r2) /\ Send(Reply(o, m, RoundVoteTo(o, r)) \cup acks)
      BY Zenon DEF HandleRoundVote
    <2> HIDE DEF r, r2, acks
    <2> QED
      BY <1>6, <1>7, <2>1

\* An ack is handled, and perhaps the winner found.
LEMMA HandleRoundVoteAckStep ==
    ASSUME ObserverInv, NEW o \in Observer, NEW m \in Received("ack"), HandleRoundVoteAck(o, Synced(o), m)
    PROVE  ObserverInv'
  <1> DEFINE r == Synced(o)
             acks == [r.acks EXCEPT ![m.from] = m]
             voted == [r EXCEPT !.acks = acks]
             answer == Reply(o, m, RoundVoteAckTo(o, voted))
             Silent == VoteMsg \cup AckMsg \cup SetupMsg \cup ReqMsg \cup GenMsg
  <1>1. RoundOK(r, net) /\ r.target = Len(chain[o]) + 1
    BY SyncedOK, Zenon
  <1>2. UNCHANGED <<chain, table, formulator, fails, restarts>> /\ ts' \in [Observer -> Nat] /\ table[o] \in Table
    BY Zenon DEF HandleRoundVoteAck, ObserverInv, GenInv, TablesInv, bounds
  <1>3. r.acks \in Acks /\ r.target \in Nat /\ r \in RoundOver(DOMAIN r.blocks)
    BY <1>1, RoundFields, Zenon
  <1>4. m \in AckMsg /\ m.from \in Observer
    BY ReceivedTypes, Zenon
  <1>5. acks \in Acks
    BY <1>3, <1>4, Zenon DEF Acks
  <1>6. CASE \E msgs : /\ msgs \in {BlockVoteTo(o, r) \cup RoundVoteAckTo(o, r), RoundVoteAckTo(o, r)}
                       /\ Answer(o, r, Reply(o, m, msgs))
    <2>1. PICK msgs : /\ msgs \in {BlockVoteTo(o, r) \cup RoundVoteAckTo(o, r), RoundVoteAckTo(o, r)}
                      /\ Answer(o, r, Reply(o, m, msgs))
      BY <1>6, Zenon
    <2>2. Reply(o, m, msgs) \subseteq Message /\ SignsFor(o, r, Reply(o, m, msgs))
      BY <1>1, <2>1, Replies
    <2>3. SetRound(o, r) /\ Send(Reply(o, m, msgs))
      BY <2>1, Zenon DEF Answer
    <2>4. Continues(r, r)
      BY Zenon DEF Continues
    <2> QED
      BY <1>1, <1>2, <2>2, <2>3, <2>4, RoundStep, Zenon
  <1>7. CASE /\ r.state = "RoundVoteAck"
             /\ \/ SetRound(o, voted) /\ Send(answer)
                \/ \E w \in Winners(acks) : SetRound(o, BlockWait(o, voted, w)) /\ Send(answer \cup Setup(o, w))
    <2> HIDE DEF acks, r
    <2>1. /\ voted \in RoundOver(DOMAIN r.blocks) /\ voted.target = r.target
          /\ voted.blocks = r.blocks /\ voted.state = r.state
      BY <1>3, <1>5 DEF RoundOver
    <2> HIDE DEF voted
    <2>2. RoundOK(voted, net) /\ Continues(r, voted)
      BY <1>1, <1>7, <2>1, VotedRound
    <2>3. answer \subseteq Silent
      BY <2>2, RepliesSign, Zenon DEF Reply
    <2> HIDE DEF answer
    <2>4. CASE SetRound(o, voted) /\ Send(answer)
      <3>1. answer \subseteq Message /\ SignsFor(o, voted, answer)
        BY <2>3, SignsNothing, Zenon
      <3> QED
        BY <1>1, <1>2, <2>1, <2>2, <2>4, <3>1, RoundStep, Zenon DEF r
    <2>5. ASSUME NEW w \in Winners(acks), SetRound(o, BlockWait(o, voted, w)), Send(answer \cup Setup(o, w))
          PROVE  ObserverInv'
      <3>1. w \in AckMsg
        <4>1. \A p \in Observer : acks[p] # None => acks[p] \in AckMsg
          BY <1>5, Zenon DEF Acks
        <4> QED
          BY <4>1, <2>5, Zenon DEF Winners
      <3>2. /\ RoundOK(BlockWait(o, voted, w), net) /\ Continues(voted, BlockWait(o, voted, w))
            /\ BlockWait(o, voted, w).target = voted.target
        BY <1>2, <1>7, <2>1, <2>2, <3>1, WaitRound
      <3>3. Continues(r, BlockWait(o, voted, w))
        BY <1>7, <2>1, <3>2 DEF Continues
      <3>4. Setup(o, w) \subseteq Silent
        <4>1. /\ [type |-> "setup", from |-> o, height |-> w.height, last |-> w.last,
                  timeout |-> w.timeout, formulator |-> w.formulator] \in SetupMsg
              /\ [type |-> "blockreq", from |-> o, to |-> w.formulator, height |-> w.height,
                  last |-> w.last, timeout |-> w.timeout] \in ReqMsg
          BY <3>1 DEF AckMsg, SetupMsg, ReqMsg
        <4> QED
          BY <4>1, Zenon DEF Setup
      <3>5. answer \cup Setup(o, w) \subseteq Silent
        BY <2>3, <3>4, Zenon
      <3>6. answer \cup Setup(o, w) \subseteq Message /\ SignsFor(o, BlockWait(o, voted, w), answer \cup Setup(o, w))
        BY <3>5, SignsNothing, Zenon
      <3> QED
        BY <1>1, <1>2, <2>1, <2>5, <3>2, <3>3, <3>6, RoundStep, Zenon DEF r
    <2> QED
      BY <1>7, <2>4, <2>5, Zenon
  <1> QED
    <2>1. \/ Answer(o, r, Reply(o, m, BlockVoteTo(o, r) \cup RoundVoteAckTo(o, r)))
          \/ Answer(o, r, Reply(o, m, RoundVoteAckTo(o, r)))
          \/ /\ r.state = "RoundVoteAck"
             /\ \/ SetRound(o, voted) /\ Send(answer)
                \/ \E w \in Winners(acks) : SetRound(o, BlockWait(o, voted, w)) /\ Send(answer \cup Setup(o, w))
      BY Zenon DEF HandleRoundVoteAck
    <2> HIDE DEF r, voted, acks, answer
    <2> QED
      BY <1>6, <1>7, <2>1

\* A setup is handled.
LEMMA HandleRoundSetupStep ==
    ASSUME ObserverInv, NEW o \in Observer, NEW m \in Received("setup"), HandleRoundSetup(o, Synced(o), m)
    PROVE  ObserverInv'
  <1> DEFINE r == Synced(o)
             block == r.blocks[r.target].gen
             more == IF m.from \in r.blocks[r.target].votes THEN {} ELSE BlockGen(block)
  <1>1. RoundOK(r, net) /\ r.target = Len(chain[o]) + 1
    BY SyncedOK, Zenon
  <1>2. UNCHANGED <<chain, table, formulator, fails, restarts>> /\ ts' \in [Observer -> Nat]
    BY Zenon DEF HandleRoundSetup, ObserverInv, GenInv, bounds
  <1>3. r.state = "BlockVote" /\ SetRound(o, r) /\ Send(BlockVoteTo(o, r) \cup more)
    BY Zenon DEF HandleRoundSetup
  <1>4. more \subseteq VoteMsg \cup AckMsg \cup SetupMsg \cup ReqMsg \cup GenMsg
    BY <1>1, <1>3, VotedBlock, BlockGenType, Zenon
  <1> HIDE DEF more
  <1>5. more \subseteq Message /\ SignsFor(o, r, more)
    BY <1>4, SignsNothing, Zenon
  <1>6. BlockVoteTo(o, r) \subseteq Message /\ SignsFor(o, r, BlockVoteTo(o, r))
    BY <1>1, RepliesSign, Zenon
  <1>7. BlockVoteTo(o, r) \cup more \subseteq Message /\ SignsFor(o, r, BlockVoteTo(o, r) \cup more)
    BY <1>5, <1>6, SignsUnion, Zenon
  <1>8. Continues(r, r)
    BY Zenon DEF Continues
  <1> QED
    BY <1>1, <1>2, <1>3, <1>7, <1>8, RoundStep, Zenon

\* A generated block is handled: kept, signed or refused.
LEMMA HandleBlockGenStep ==
    ASSUME ObserverInv, NEW o \in Observer, NEW m \in Received("blockgen"), HandleBlockGen(o, Synced(o), m)
    PROVE  ObserverInv'
  <1> DEFINE r == Synced(o)
             b == m.block
             asked == r.winner # None /\ r.winner.public = o
             forward == IF asked /\ m.to = o THEN BlockGen(b) ELSE {}
             hold == [r EXCEPT !.blocks[b.height].genWait = b]
             sign == [r EXCEPT !.state = "BlockVote", !.blocks[b.height].gen = b]
  <1>1. RoundOK(r, net) /\ r.target = Len(chain[o]) + 1
    BY SyncedOK, Zenon
  <1>2. UNCHANGED <<chain, table, formulator, fails, restarts>> /\ ts' \in [Observer -> Nat]
    BY Zenon DEF HandleBlockGen, ObserverInv, GenInv, bounds
  <1>3. b \in Block
    BY ReceivedTypes, Zenon
  <1>4. /\ b.height \in DOMAIN r.blocks /\ r.blocks[b.height].gen = None
        /\ \/ SetRound(o, hold) /\ Send(forward)
           \/ b.height = r.target /\ r.state = "BlockWait" /\ SetRound(o, sign) /\ Send(forward \cup BlockVotes(o, b))
           \/ SetRound(o, r) /\ Send(forward)
    BY Zenon DEF HandleBlockGen, Answer
  <1>5. forward \subseteq VoteMsg \cup AckMsg \cup SetupMsg \cup ReqMsg \cup GenMsg
    BY <1>3, BlockGenType, Zenon
  <1> HIDE DEF forward, r, b
  <1>6. \A x : forward \subseteq Message /\ SignsFor(o, x, forward)
    BY <1>5, SignsNothing, Zenon
  <1>7. CASE SetRound(o, hold) /\ Send(forward)
    <2>1. RoundOK(hold, net) /\ Continues(r, hold) /\ hold.target = r.target
      BY <1>1, <1>3, <1>4, HoldRound
    <2> HIDE DEF hold
    <2> QED
      BY <1>1, <1>2, <1>6, <1>7, <2>1, RoundStep, Zenon DEF r
  <1>8. CASE b.height = r.target /\ r.state = "BlockWait" /\ SetRound(o, sign) /\ Send(forward \cup BlockVotes(o, b))
    <2>1. /\ RoundOK(sign, net) /\ Continues(r, sign) /\ sign.target = r.target /\ sign.state = "BlockVote"
          /\ sign.blocks[sign.target].gen = b
      BY Zenon, <1>1, <1>3, <1>4, <1>8, SignRound
    <2> HIDE DEF sign
    <2>2. BlockVotes(o, b) \subseteq SignMsg /\ \A x \in BlockVotes(o, b) : x.from = o /\ x.block = b
      BY <1>3 DEF BlockVotes, SignMsg
    <2>3. BlockVotes(o, b) \subseteq Message /\ SignsFor(o, sign, BlockVotes(o, b))
      BY <2>1, <2>2, Zenon DEF SignsFor, Message
    <2>4. forward \cup BlockVotes(o, b) \subseteq Message /\ SignsFor(o, sign, forward \cup BlockVotes(o, b))
      BY <1>6, <2>3, SignsUnion, Zenon
    <2> QED
      BY <1>1, <1>2, <1>8, <2>1, <2>4, RoundStep, Zenon DEF r
  <1>9. CASE SetRound(o, r) /\ Send(forward)
    <2>1. Continues(r, r)
      BY Zenon DEF Continues
    <2> QED
      BY <1>1, <1>2, <1>6, <1>9, <2>1, RoundStep, Zenon DEF r
  <1> QED
    BY <1>4, <1>7, <1>8, <1>9, Zenon

\* A block with the signatures of a majority is connected, after the signature of o has been sent again.
LEMMA ConnectStep ==
    ASSUME ObserverInv, NEW o \in Observer, NEW r, NEW msgs,
           RoundOK(r, net), Continues(Synced(o), r), r.target = Len(chain[o]) + 1, r.state = "BlockVote",
           msgs \subseteq Message, SignsFor(o, r, msgs), Send(msgs),
           EnoughVotes(r.blocks[r.target].votes), Connect(o, r),
           UNCHANGED <<formulator, fails, restarts>>
    PROVE  ObserverInv'
  <1> DEFINE b == r.blocks[r.target].gen
             t == Count(table[o], b)
             turn == IsTop(t, 0, r.winner.formulator)
             r2 == IF r.target + 1 \in DOMAIN r.blocks /\ turn
                   THEN [r EXCEPT !.state = "BlockWait", !.target = @ + 1]
                   ELSE NewVoteRound(r.target + 1)
  <1>1. /\ chain' = [chain EXCEPT ![o] = Append(@, b)] /\ table' = [table EXCEPT ![o] = t]
        /\ round' = [round EXCEPT ![o] = r2] /\ ts' = ts /\ net' = net \cup msgs
    BY Zenon DEF Connect, SetRound, Send
  <1>2. net' \subseteq Message /\ net \subseteq net'
    BY <1>1, Zenon DEF ObserverInv
  <1>3. b \in Block /\ b.height = Len(chain[o]) + 1
    BY VotedBlock, Zenon
  <1>4. RoundOK(r2, net) /\ Continues(r, r2) /\ r2.target = r.target + 1
    <2> HIDE DEF turn
    <2> QED
      BY Zenon, NextRound
  <1> HIDE DEF r2
  <1>5. \A p \in r.blocks[r.target].votes : Signature(p, b) \in net'
    BY <1>1, Zenon DEF RoundOK
  <1> HIDE DEF b
  <1>6. Cardinality(SignedIn(net', b)) >= Majority
    BY <1>2, <1>5, CertifiedByVotes, Zenon
  <1>7. ChainsOK(chain, net')
    BY <1>2, ChainsKept, Zenon DEF ObserverInv
  <1>8. /\ ChainsOK(chain', net') /\ Len(chain'[o]) = Len(chain[o]) + 1
        /\ \A p \in Observer : Len(chain'[p]) = Len(chain[p]) \/ Len(chain'[p]) = Len(chain[p]) + 1
    <2>1. chain' = Extended(chain, o, b)
      BY <1>1, Zenon DEF Extended
    <2> QED
      BY <1>3, <1>6, <1>7, <2>1, ChainsExtended, Zenon
  <1>9. TablesInv'
    <2>1. table \in [Observer -> Table] /\ ftable \in [Address -> Table]
      BY Zenon DEF ObserverInv, TablesInv
    <2>2. t \in Table
      BY <1>3, <2>1, CountTable, Zenon
    <2> HIDE DEF t
    <2> QED
      BY <1>1, <2>1, <2>2, Zenon DEF TablesInv, formulator
  <1>10. GenInv'
    BY <1>1, Zenon DEF ObserverInv, GenInv, formulator
  <1>11. RoundsOK(round', chain', net')
    <2>2. RoundsOK(round, chain', net)
      BY <1>8, RoundsLonger, Zenon DEF ObserverInv, ChainsOK
    <2>3. RoundOK(r2, net')
      BY <1>2, <1>4, RoundKept, Zenon
    <2>4. r2.target <= Len(chain'[o]) + 1
      <3>1. Len(chain[o]) \in Nat
        BY ChainLength, Zenon
      <3> QED
        BY <1>4, <1>8, <3>1
    <2> QED
      BY <1>1, <1>2, <2>2, <2>3, <2>4, RoundsSet, Zenon
  <1>12. ASSUME fails' = 0, restarts' = 0
         PROVE  VotesOK(round', net')
    <2>1. VotesOK(round, net)
      BY <1>12, Zenon DEF ObserverInv
    <2>2. SignsInRound(o, round[o], net) /\ SignsOnce(o, net)
      BY <2>1, Zenon DEF VotesOK
    <2>3. RoundOK(round[o], net) /\ RoundOK(Synced(o), net) /\ Continues(round[o], Synced(o))
      BY SyncedOK, Zenon DEF ObserverInv, RoundsOK
    <2>4. round[o].target \in Nat /\ Synced(o).target \in Nat /\ r.target \in Nat /\ r2.target \in Nat
      BY <1>4, <2>3, RoundFields, Zenon
    <2>5. SignsInRound(o, Synced(o), net)
      BY <2>2, <2>3, <2>4, SignsContinue, Zenon DEF ObserverInv
    <2>6. SignsInRound(o, r, net)
      BY <2>4, <2>5, SignsContinue, Zenon DEF ObserverInv
    <2>7. SignsInRound(o, r, net \cup msgs) /\ SignsOnce(o, net \cup msgs)
      BY <1>1, <1>2, <2>2, <2>6, SignsMore, Zenon
    <2>8. SignsInRound(o, r2, net \cup msgs)
      BY <1>1, <1>2, <1>4, <2>4, <2>7, SignsContinue, Zenon
    <2>9. round = [p \in Observer |-> round[p]]
      BY Zenon DEF ObserverInv, RoundsOK
    <2> QED
      BY <1>1, <2>1, <2>7, <2>8, <2>9, VotesSet, Zenon
  <1> QED
    BY <1>2, <1>8, <1>9, <1>10, <1>11, <1>12, Zenon DEF ObserverInv

\* A signature is handled, and perhaps the block connected.
LEMMA HandleBlockVoteStep ==
    ASSUME ObserverInv, NEW o \in Observer, NEW m \in Received("blockvote"), HandleBlockVote(o, Synced(o), m)
    PROVE  ObserverInv'
  <1> DEFINE r == Synced(o)
             b == m.block
             voted == [r EXCEPT !.blocks[r.target].votes = @ \cup {m.from}]
             msgs == Reply(o, m, BlockVoteTo(o, r))
  <1>1. RoundOK(r, net) /\ r.target = Len(chain[o]) + 1
    BY SyncedOK, Zenon
  <1>2. UNCHANGED <<formulator, fails, restarts>>
    BY Zenon DEF HandleBlockVote, bounds
  <1>3. m.from \in Observer /\ b \in Block /\ m = Signature(m.from, b) /\ m \in net
    BY ReceivedTypes, Zenon
  <1>4. ts \in [Observer -> Nat]
    BY Zenon DEF ObserverInv, GenInv
  <1>5. Continues(r, r)
    BY Zenon DEF Continues
  <1>6. msgs \subseteq Message /\ SignsFor(o, r, msgs)
    BY <1>1, Replies
  <1> HIDE DEF r, msgs
  <1>7. CASE ClearIgnored(o, r, b)
    <2>1. SetRound(o, r) /\ UNCHANGED <<chain, table, net>>
      BY <1>7, Zenon DEF ClearIgnored
    <2>2. ts' = IF ignore[o][b.gen] = "yes" THEN [ts EXCEPT ![o] = @ + 1] ELSE ts
      BY <1>7, Zenon DEF ClearIgnored
    <2>3. ts' \in [Observer -> Nat]
      BY <1>4, <2>2
    <2>4. Send({}) /\ {} \subseteq Message /\ SignsFor(o, r, {})
      BY <2>1, Zenon DEF Send, SignsFor
    <2> QED
      BY <1>1, <1>2, <1>5, <2>1, <2>3, <2>4, RoundStep, Zenon DEF r
  <1>8. CASE SetRound(o, r) /\ Send(msgs) /\ UNCHANGED <<chain, table, ts>>
    BY <1>1, <1>2, <1>4, <1>5, <1>6, <1>8, RoundStep, Zenon DEF r
  <1>9. CASE /\ r.state = "BlockVote" /\ b = r.blocks[r.target].gen /\ Send(msgs)
             /\ \/ EnoughVotes(voted.blocks[r.target].votes) /\ Connect(o, voted)
                \/ SetRound(o, voted) /\ UNCHANGED <<chain, table, ts>>
    <2>1. /\ RoundOK(voted, net) /\ Continues(r, voted) /\ voted.target = r.target /\ voted.state = "BlockVote"
          /\ voted.blocks[voted.target].gen = r.blocks[r.target].gen
      BY <1>1, <1>3, <1>9, CountedRound
    <2> HIDE DEF voted
    <2>2. SignsFor(o, voted, msgs)
      BY <1>6, <2>1 DEF SignsFor
    <2>3. CASE EnoughVotes(voted.blocks[r.target].votes) /\ Connect(o, voted)
      BY <1>1, <1>2, <1>6, <1>9, <2>1, <2>2, <2>3, ConnectStep, Zenon DEF r
    <2>4. CASE SetRound(o, voted) /\ UNCHANGED <<chain, table, ts>>
      BY <1>1, <1>2, <1>4, <1>6, <1>9, <2>1, <2>2, <2>4, RoundStep, Zenon DEF r
    <2> QED
      BY <1>9, <2>3, <2>4, Zenon
  <1> QED
    <2>1. \/ ClearIgnored(o, r, b)
          \/ SetRound(o, r) /\ Send(msgs) /\ UNCHANGED <<chain, table, ts>>
          \/ /\ r.state = "BlockVote" /\ b = r.blocks[r.target].gen /\ Send(msgs)
             /\ \/ EnoughVotes(voted.blocks[r.target].votes) /\ Connect(o, voted)
                \/ SetRound(o, voted) /\ UNCHANGED <<chain, table, ts>>
      BY Zenon DEF HandleBlockVote, Answer, r, msgs
    <2> QED
      BY <1>7, <1>8, <1>9, <2>1, Zenon

\* The vote timer of a round that has not failed.
LEMMA VoteTimerStep ==
    ASSUME ObserverInv, NEW o \in Observer, VoteTimer(o)
    PROVE  ObserverInv'
  <1> DEFINE r == Synced(o)
             msgs == IF Adjusted(o) = {} THEN {} ELSE IF r.state = "RoundVote" THEN RoundVotes(o) ELSE BlockVoteTo(o, r)
  <1>1. RoundOK(r, net) /\ r.target = Len(chain[o]) + 1
    BY SyncedOK, Zenon
  <1>2. UNCHANGED <<chain, table, formulator, fails, restarts>> /\ ts' \in [Observer -> Nat]
    BY Zenon DEF VoteTimer, ObserverInv, GenInv, bounds
  <1>3. SetRound(o, r) /\ Send(msgs)
    BY Zenon DEF VoteTimer, Answer
  <1>4. {} \subseteq Message /\ SignsFor(o, r, {})
    BY Zenon DEF SignsFor
  <1>5. RoundVotes(o) \subseteq Message /\ SignsFor(o, r, RoundVotes(o))
    <2>1. RoundVotes(o) \subseteq VoteMsg \cup AckMsg \cup SetupMsg \cup ReqMsg \cup GenMsg
      BY RoundVotesType, Zenon
    <2> QED
      BY <2>1, SignsNothing, Zenon
  <1>6. BlockVoteTo(o, r) \subseteq Message /\ SignsFor(o, r, BlockVoteTo(o, r))
    BY <1>1, RepliesSign, Zenon
  <1> HIDE DEF r
  <1>7. msgs \subseteq Message /\ SignsFor(o, r, msgs)
    BY <1>4, <1>5, <1>6
  <1> HIDE DEF msgs
  <1>8. Continues(r, r)
    BY Zenon DEF Continues
  <1> QED
    BY <1>1, <1>2, <1>3, <1>7, <1>8, RoundStep, Zenon DEF r

\* A round is given up: nothing is known of the signatures any more.
LEMMA ResetStep ==
    ASSUME ObserverInv, NEW o \in Observer, SetRound(o, NewVoteRound(Len(chain[o]) + 1)),
           net \subseteq net', net' \subseteq Message, chain' = chain,
           TablesInv', GenInv', ~(fails' = 0 /\ restarts' = 0)
    PROVE  ObserverInv'
  <1> DEFINE r2 == NewVoteRound(Len(chain[o]) + 1)
  <1>1. Len(chain[o]) + 1 \in Nat
    BY ChainLength, Zenon
  <1>2. RoundOK(r2, net') /\ r2.target = Len(chain[o]) + 1
    BY <1>1, NewRoundOK, Zenon
  <1>3. round' = [round EXCEPT ![o] = r2]
    BY Zenon DEF SetRound
  <1> HIDE DEF r2
  <1>4. r2.target <= Len(chain[o]) + 1
    BY <1>1, <1>2
  <1>5. RoundsOK(round', chain', net')
    BY <1>2, <1>3, <1>4, RoundsSet, Zenon DEF ObserverInv
  <1>6. ChainsOK(chain', net')
    BY ChainsKept, Zenon DEF ObserverInv
  <1> QED
    BY <1>5, <1>6, Zenon DEF ObserverInv

\* A round has failed.
LEMMA VoteFailsStep ==
    ASSUME ObserverInv, NEW o \in Observer, VoteFails(o)
    PROVE  ObserverInv'
  <1>1. /\ SetRound(o, NewVoteRound(Len(chain[o]) + 1)) /\ chain' = chain /\ table' = table
        /\ UNCHANGED formulator /\ restarts' = restarts /\ fails' = fails + 1
        /\ ts' = [ts EXCEPT ![o] = @ + 1] /\ net' = net \cup (RoundVotes(o)')
    BY Zenon DEF VoteFails, Send
  <1>2. ts \in [Observer -> Nat] /\ fails \in Nat
    BY Zenon DEF ObserverInv, GenInv
  <1>3. ts' \in [Observer -> Nat] /\ fails' \in Nat /\ fails' # 0
    BY <1>1, <1>2
  <1>4. TablesInv' /\ GenInv'
    BY <1>1, <1>3, Zenon DEF ObserverInv, TablesInv, GenInv, formulator
  <1>5. RoundVotes(o)' \subseteq VoteMsg
    <2>1. chain'[o] \in Seq(Block) /\ table'[o] \in Table /\ ts'[o] \in Nat
      BY <1>1, <1>3, Zenon DEF ObserverInv, ChainsOK, TablesInv
    <2>2. Len(chain'[o]) + 1 \in Nat /\ LastHash(chain'[o]) \in Nat
      BY <1>1, <2>1, ChainLength, LastHashType, Zenon
    <2>3. \A k \in TopInMap(table'[o], Adjusted(o)') : k \in Nat /\ table'[o].ranks[k + 1].addr \in Address
      BY <2>1, TopInMapPlace, Zenon
    <2>4. \A k \in TopInMap(table'[o], Adjusted(o)') :
             [type |-> "vote", from |-> o, height |-> Len(chain'[o]) + 1, last |-> LastHash(chain'[o]),
              timeout |-> k, formulator |-> table'[o].ranks[k + 1].addr, ts |-> ts'[o]] \in VoteMsg
      BY <2>1, <2>2, <2>3 DEF VoteMsg
    <2> QED
      BY <2>4 DEF RoundVotes
  <1>6. net \subseteq net' /\ net' \subseteq Message
    BY <1>1, <1>5, Zenon DEF ObserverInv, Message
  <1> QED
    BY <1>1, <1>3, <1>4, <1>6, ResetStep, Zenon

\* An observer restarts.
LEMMA RestartStep ==
    ASSUME ObserverInv, NEW o \in Observer, Restart(o)
    PROVE  ObserverInv'
  <1>1. /\ SetRound(o, NewVoteRound(Len(chain[o]) + 1)) /\ chain' = chain /\ table' = table
        /\ UNCHANGED formulator /\ restarts' = restarts + 1 /\ fails' = fails
        /\ ts' = [ts EXCEPT ![o] = @ + 1] /\ net' = net
    BY Zenon DEF Restart
  <1>2. ts \in [Observer -> Nat] /\ restarts \in Nat
    BY Zenon DEF ObserverInv, GenInv
  <1>3. ts' \in [Observer -> Nat] /\ restarts' \in Nat /\ restarts' # 0
    BY <1>1, <1>2
  <1>4. TablesInv' /\ GenInv'
    BY <1>1, <1>3, Zenon DEF ObserverInv, TablesInv, GenInv, formulator
  <1>5. net \subseteq net' /\ net' \subseteq Message
    BY <1>1, Zenon DEF ObserverInv
  <1> QED
    BY <1>1, <1>3, <1>4, <1>5, ResetStep, Zenon

\* A step that leaves the chains, the rounds and the messages alone.
LEMMA AsideStep ==
    ASSUME ObserverInv, UNCHANGED <<chain, round, net, fails, restarts>>, TablesInv', GenInv'
    PROVE  ObserverInv'
  BY Zenon DEF ObserverInv

\* A formulator is ignored no longer, comes or leaves.
LEMMA PeerStep ==
    ASSUME ObserverInv, NEW o \in Observer, NEW f \in Address, IgnoreExpires(o, f) \/ PeerChanges(o, f)
    PROVE  ObserverInv'
  <1>1. /\ UNCHANGED <<chain, round, net, fails, restarts, table, formulator>>
        /\ ts' = [ts EXCEPT ![o] = @ + 1]
    BY Zenon DEF IgnoreExpires, PeerChanges
  <1>2. ts \in [Observer -> Nat]
    BY Zenon DEF ObserverInv, GenInv
  <1>3. ts' \in [Observer -> Nat]
    BY <1>1, <1>2
  <1>4. TablesInv' /\ GenInv'
    BY <1>1, <1>3, Zenon DEF ObserverInv, TablesInv, GenInv, formulator
  <1> QED
    BY <1>1, <1>4, AsideStep, Zenon

\* The block of a chain at a height.
LEMMA BlockAt ==
    ASSUME ObserverInv, NEW p \in Observer, NEW k \in Nat, Len(chain[p]) > k
    PROVE  /\ chain[p][k + 1] \in Block /\ chain[p][k + 1].height = k + 1
           /\ Cardinality(SignedIn(net, chain[p][k + 1])) >= Majority
  <1>1. chain[p] \in Seq(Block)
    BY ChainLength, Zenon
  <1>2. k + 1 \in 1 .. Len(chain[p])
    BY <1>1
  <1>3. chain[p][k + 1] \in Block
    BY <1>1, <1>2
  <1> QED
    BY <1>2, <1>3, Zenon DEF ObserverInv, ChainsOK

\* An observer takes a block over from another one.
LEMMA SyncStep ==
    ASSUME ObserverInv, NEW o \in Observer, NEW p \in Observer, Sync(o, p)
    PROVE  ObserverInv'
  <1> DEFINE b == chain[p][Len(chain[o]) + 1]
             t == Count(table[o], b)
  <1>1. /\ Len(chain[p]) > Len(chain[o]) /\ chain' = [chain EXCEPT ![o] = Append(@, b)]
        /\ table' = [table EXCEPT ![o] = t]
        /\ UNCHANGED <<round, ts, net, formulator, fails, restarts>>
    BY Zenon DEF Sync, bounds
  <1>2. Len(chain[o]) \in Nat
    BY ChainLength, Zenon
  <1>3. b \in Block /\ b.height = Len(chain[o]) + 1 /\ Cardinality(SignedIn(net, b)) >= Majority
    BY <1>1, <1>2, BlockAt, Zenon
  <1>4. table \in [Observer -> Table] /\ ftable \in [Address -> Table]
    BY Zenon DEF ObserverInv, TablesInv
  <1>5. t \in Table
    BY <1>3, <1>4, CountTable, Zenon
  <1> HIDE DEF b, t
  <1>6. TablesInv'
    BY <1>1, <1>4, <1>5, Zenon DEF TablesInv, formulator
  <1>7. GenInv'
    BY <1>1, Zenon DEF ObserverInv, GenInv, formulator
  <1>8. /\ ChainsOK(chain', net)
        /\ \A q \in Observer : Len(chain'[q]) = Len(chain[q]) \/ Len(chain'[q]) = Len(chain[q]) + 1
    <2>1. chain' = Extended(chain, o, b) /\ ChainsOK(chain, net)
      BY <1>1, Zenon DEF Extended, ObserverInv
    <2> QED
      BY <1>3, <2>1, ChainsExtended, Zenon
  <1>9. RoundsOK(round, chain', net)
    BY <1>8, RoundsLonger, Zenon DEF ObserverInv, ChainsOK
  <1> QED
    BY <1>1, <1>6, <1>7, <1>8, <1>9, Zenon DEF ObserverInv

\* A formulator is asked for its blocks.
LEMMA HandleBlockReqStep ==
    ASSUME ObserverInv, NEW f \in Address, NEW m \in Received("blockreq"), HandleBlockReq(f, m)
    PROVE  ObserverInv'
  <1> DEFINE left == RemainBlocks(ftable[f], m.timeout)
             g == [to |-> m.from, height |-> m.height, prev |-> m.last, timeout |-> m.timeout, left |-> left]
  <1>1. /\ UNCHANGED <<chain, table, round, ts, net, fchain, ftable, made, fails, restarts>>
        /\ gen' = [gen EXCEPT ![f] = g]
    BY Zenon DEF HandleBlockReq, observer, bounds
  <1>2. m \in ReqMsg
    BY ReceivedTypes, Zenon
  <1>3. ftable[f] \in Table
    BY Zenon DEF ObserverInv, TablesInv
  <1>4. left \in Int
    BY <1>3, RemainBlocksSome
  <1> HIDE DEF left
  <1>5. g \in Generating
    BY <1>2, <1>4 DEF ReqMsg, Generating
  <1> HIDE DEF g
  <1>6. gen' \in [Address -> Generating \cup {None}]
    BY <1>1, <1>5, Zenon DEF ObserverInv, GenInv
  <1>7. TablesInv' /\ GenInv'
    BY <1>1, <1>6, Zenon DEF ObserverInv, TablesInv, GenInv
  <1> QED
    BY <1>1, <1>7, AsideStep, Zenon

\* A formulator generates a block.
LEMMA GenBlockStep ==
    ASSUME ObserverInv, NEW f \in Address, GenBlock(f)
    PROVE  ObserverInv'
  <1> DEFINE g == gen[f]
             b == [id |-> made + 1, height |-> g.height, prev |-> g.prev, gen |-> f, timeout |-> g.timeout]
             msg == [type |-> "blockgen", to |-> g.to, block |-> b]
             g2 == [g EXCEPT !.height = @ + 1, !.prev = b.id, !.timeout = 0, !.left = @ - 1]
  <1>1. /\ g # None /\ made < MaxMade /\ made' = made + 1 /\ net' = net \cup {msg}
        /\ gen' = [gen EXCEPT ![f] = IF g.left = 1 \/ lastReq[f] = 0 THEN None ELSE g2]
        /\ UNCHANGED <<chain, table, round, ts, fchain, ftable, fails, restarts>>
    BY Zenon DEF GenBlock, Send, observer, bounds
  <1>2. made \in 0 .. MaxMade /\ gen \in [Address -> Generating \cup {None}] /\ MaxMade \in Nat
    BY ObserverAssumption, Zenon DEF ObserverInv, GenInv
  <1>3. g \in Generating
    BY <1>1, <1>2, Zenon
  <1>4. made + 1 \in 1 .. MaxMade /\ made' \in 0 .. MaxMade /\ made + 1 \in Nat
    BY <1>1, <1>2
  <1>5. b \in Block /\ g2 \in Generating /\ g.to \in Observer
    <2> HIDE DEF g
    <2>1. g.to \in Observer /\ g.height \in Nat /\ g.prev \in Nat /\ g.timeout \in Nat /\ g.left \in Int
      BY <1>3 DEF Generating
    <2>2. b \in Block /\ b.id \in Nat
      BY <1>4, <2>1 DEF Block
    <2> HIDE DEF b
    <2>3. PICK h \in Nat, l \in Int, id \in Nat : h = g.height + 1 /\ l = g.left - 1 /\ id = b.id
      BY <2>1, <2>2
    <2>4. [g EXCEPT !.height = h, !.prev = id, !.timeout = 0, !.left = l] \in Generating
      BY Zenon, <1>3 DEF Generating
    <2> QED
      BY <2>1, <2>2, <2>3, <2>4
  <1> HIDE DEF b, g2
  <1>6. msg \in GenMsg
    BY <1>5 DEF GenMsg
  <1> HIDE DEF msg, g
  <1>7. gen' \in [Address -> Generating \cup {None}]
    BY <1>1, <1>2, <1>5
  <1>8. TablesInv' /\ GenInv'
    BY <1>1, <1>4, <1>7, Zenon DEF ObserverInv, TablesInv, GenInv
  <1>9. {msg} \subseteq Message /\ \A o : \A r : SignsFor(o, r, {msg})
    <2>1. {msg} \subseteq VoteMsg \cup AckMsg \cup SetupMsg \cup ReqMsg \cup GenMsg
      BY <1>6, Zenon
    <2> QED
      BY <2>1, SignsNothing, Zenon
  <1>10. net \subseteq net' /\ net' \subseteq Message
    BY <1>1, <1>9, Zenon DEF ObserverInv
  <1>11. ChainsOK(chain', net')
    BY <1>1, <1>10, ChainsKept, Zenon DEF ObserverInv
  <1>12. RoundsOK(round', chain', net')
    BY <1>1, <1>10, RoundKept, Zenon DEF ObserverInv, RoundsOK
  <1>13. ASSUME VotesOK(round, net)
         PROVE  VotesOK(round', net')
    <2>1. msg.type # "blockvote"
      BY <1>6 DEF GenMsg
    <2>2. \A o : SignedBy(o, net') = SignedBy(o, net)
      BY <1>1, <2>1, Zenon DEF SignedBy
    <2> SUFFICES ASSUME NEW o \in Observer
                 PROVE  SignsInRound(o, round[o], net') /\ SignsOnce(o, net')
      BY <1>1, Zenon DEF VotesOK
    <2>3. SignsInRound(o, round[o], net) /\ SignsOnce(o, net) /\ SignedBy(o, net') = SignedBy(o, net)
      BY <1>13, <2>2, Zenon DEF VotesOK
    <2>4. SignsInRound(o, round[o], net')
      BY <2>3 DEF SignsInRound
    <2> QED
      BY <2>3, <2>4 DEF SignsOnce
  <1> QED
    BY <1>1, <1>8, <1>10, <1>11, <1>12, <1>13, Zenon DEF ObserverInv

\* A formulator gets a block of an observer.
LEMMA FormulatorSyncStep ==
    ASSUME ObserverInv, NEW f \in Address, NEW o \in Observer, FormulatorSync(f, o)
    PROVE  ObserverInv'
  <1> DEFINE b == chain[o][Len(fchain[f]) + 1]
             t == Count(ftable[f], b)
  <1>1. /\ Len(chain[o]) > Len(fchain[f]) /\ fchain' = [fchain EXCEPT ![f] = Append(@, b)]
        /\ ftable' = [ftable EXCEPT ![f] = t]
        /\ UNCHANGED <<chain, table, round, ts, net, gen, made, fails, restarts>>
    BY Zenon DEF FormulatorSync, observer, bounds
  <1>2. fchain \in [Address -> Seq(Block)] /\ ftable \in [Address -> Table] /\ fchain[f] \in Seq(Block)
    BY Zenon DEF ObserverInv, GenInv, TablesInv
  <1>3. Len(fchain[f]) \in Nat
    BY <1>2
  <1>4. b \in Block
    BY <1>1, <1>3, BlockAt, Zenon
  <1>5. t \in Table
    BY <1>2, <1>4, CountTable, Zenon
  <1> HIDE DEF b, t
  <1>6. Append(fchain[f], b) \in Seq(Block)
    BY <1>2, <1>4
  <1>7. fchain' \in [Address -> Seq(Block)] /\ ftable' \in [Address -> Table]
    BY <1>1, <1>2, <1>5, <1>6, Zenon
  <1>8. TablesInv' /\ GenInv'
    BY <1>1, <1>7, Zenon DEF ObserverInv, TablesInv, GenInv
  <1> QED
    BY <1>1, <1>8, AsideStep, Zenon

-----------------------------------------------------------------------------
(* The theorems. *)

\* The invariant holds at the start.
LEMMA InitInv ==
    ASSUME Init
    PROVE  ObserverInv
  <1>1. GenesisTable \in Table
    <2>1. /\ GenesisRanks \in Seq(Rank) /\ IsTable(GenesisRanks) /\ GenesisRanks # <<>>
          /\ MaxBlocksPerFormulator \in Nat \ {0}
      BY ObserverAssumption, Zenon DEF IsTable
    <2>2. 0 \in 0 .. MaxBlocksPerFormulator - 1
      BY <2>1
    <2> QED
      BY <2>1, <2>2 DEF GenesisTable, Table
  <1>2. TablesInv
    BY <1>1, Zenon DEF Init, TablesInv
  <1>3. GenInv
    <2>1. 0 \in 0 .. MaxMade /\ <<>> \in Seq(Block) /\ 0 \in Nat
      BY ObserverAssumption
    <2> QED
      BY <2>1, Zenon DEF Init, GenInv
  <1>4. net = {} /\ net \subseteq Message
    BY Zenon DEF Init
  <1>5. ChainsOK(chain, net)
    <2>1. chain = [o \in Observer |-> <<>>]
      BY Zenon DEF Init
    <2> QED
      BY <2>1 DEF ChainsOK
  <1>6. \A o \in Observer : round[o] = NewVoteRound(1) /\ Len(chain[o]) = 0
    BY DEF Init
  <1>7. RoundsOK(round, chain, net)
    <2>1. RoundOK(NewVoteRound(1), net) /\ NewVoteRound(1).target = 1
      BY NewRoundOK
    <2>2. 1 <= 0 + 1
      OBVIOUS
    <2>3. round = [o \in Observer |-> round[o]]
      BY Zenon DEF Init
    <2> QED
      BY <1>6, <2>1, <2>2, <2>3, Zenon DEF RoundsOK
  <1>8. VotesOK(round, net)
    BY <1>4, Zenon DEF VotesOK, SignsInRound, SignsOnce, SignedBy
  <1> QED
    BY <1>2, <1>3, <1>4, <1>5, <1>7, <1>8, Zenon DEF ObserverInv

\* Every step keeps the invariant.
LEMMA NextInv ==
    ASSUME ObserverInv, [Next]_vars
    PROVE  ObserverInv'
  <1>1. ASSUME NEW o \in Observer, Deliver(o)
        PROVE  ObserverInv'
    BY <1>1, HandleRoundVoteStep, HandleRoundVoteAckStep, HandleRoundSetupStep, HandleBlockGenStep,
       HandleBlockVoteStep, Zenon DEF Deliver
  <1>2. CASE UNCHANGED vars
    <2>1. UNCHANGED <<chain, round, net, fails, restarts, table, ts, formulator>>
      BY <1>2, Zenon DEF vars, observer, bounds
    <2>2. TablesInv' /\ GenInv'
      BY <2>1, Zenon DEF ObserverInv, TablesInv, GenInv, formulator
    <2> QED
      BY <2>1, <2>2, AsideStep, Zenon
  <1>3. CASE Next
    BY <1>1, <1>3, VoteTimerStep, VoteFailsStep, RestartStep, PeerStep, FormulatorSyncStep, SyncStep,
       GenBlockStep, HandleBlockReqStep, Zenon DEF Next
  <1> QED
    BY <1>2, <1>3, Zenon

\* The inductive invariant.
THEOREM ObserverInvariant == Spec => []ObserverInv
  <1>1. Init => ObserverInv
    BY InitInv
  <1>2. ObserverInv /\ [Next]_vars => ObserverInv'
    BY NextInv
  <1> QED
    BY <1>1, <1>2, PTL DEF Spec

\* Every block an observer has connected, by its votes or from another observer, has
\* the signatures of a majority, whatever rounds are given up and whoever restarts.
THEOREM ConnectedAreCertified == Spec => []Certified
  <1>1. ObserverInv => Certified
    <2> SUFFICES ASSUME ObserverInv, NEW o \in Observer, NEW h \in DOMAIN chain[o]
                 PROVE  Cardinality(Signed(chain[o][h])) >= Majority
      BY Zenon DEF Certified
    <2>1. chain[o] \in Seq(Block)
      BY Zenon DEF ObserverInv, ChainsOK
    <2>2. h \in 1 .. Len(chain[o])
      BY <2>1
    <2>3. Cardinality(SignedIn(net, chain[o][h])) >= Majority
      BY <2>2, Zenon DEF ObserverInv, ChainsOK
    <2> QED
      BY <2>3, Zenon DEF Signed, SignedIn
  <1> QED
    BY <1>1, ObserverInvariant, PTL

\* The handlers find what they dereference: the winner and the block round of the
\* present height from BlockWait on, and the block in BlockVote.
THEOREM RoundsHaveData == Spec => []RoundHasData
  <1>1. ObserverInv => RoundHasData
    <2> SUFFICES ASSUME ObserverInv, NEW o \in Observer
                 PROVE  LET r == Synced(o) IN
                        /\ r.target = Len(chain[o]) + 1
                        /\ r.state \in {"BlockWait", "BlockVote"} => r.winner # None /\ r.target \in DOMAIN r.blocks
                        /\ r.state = "BlockVote" => r.blocks[r.target].gen # None
      BY Zenon DEF RoundHasData
    <2>1. RoundOK(Synced(o), net) /\ Synced(o).target = Len(chain[o]) + 1
      BY SyncedOK, Zenon
    <2> QED
      BY <2>1, Zenon DEF RoundOK
  <1> QED
    BY <1>1, ObserverInvariant, PTL

\* Two blocks of a height that are both signed by a majority are the same.
LEMMA OneCertified ==
    ASSUME net \subseteq Message, \A p \in Observer : SignsOnce(p, net), NEW b1, NEW b2, b1.height = b2.height,
           Cardinality(SignedIn(net, b1)) >= Majority, Cardinality(SignedIn(net, b2)) >= Majority
    PROVE  b1 = b2
  <1>1. SignedIn(net, b1) \subseteq Observer /\ SignedIn(net, b2) \subseteq Observer
    BY SignedInSignatures, Zenon
  <1>2. /\ IsFiniteSet(SignedIn(net, b1)) /\ IsFiniteSet(SignedIn(net, b2)) /\ IsFiniteSet(Observer)
    BY <1>1, ObserverAssumption, FS_Subset, Zenon
  <1>3. /\ Cardinality(SignedIn(net, b1)) \in Nat /\ Cardinality(SignedIn(net, b2)) \in Nat
        /\ Cardinality(Observer) \in Nat
    BY <1>2, FS_CardinalityType, Zenon
  <1>4. Cardinality(SignedIn(net, b1)) + Cardinality(SignedIn(net, b2)) > Cardinality(Observer)
    BY <1>3 DEF Majority
  <1>5. SignedIn(net, b1) \cap SignedIn(net, b2) # {}
    BY <1>1, <1>2, <1>4, FS_MajoritiesIntersect, Zenon
  <1>6. PICK p \in Observer : p \in SignedIn(net, b1) /\ p \in SignedIn(net, b2)
    BY <1>1, <1>5, Zenon
  <1>7. PICK m1 \in SignedBy(p, net) : m1.block = b1
    BY <1>6, Zenon DEF SignedIn, SignedBy
  <1>8. PICK m2 \in SignedBy(p, net) : m2.block = b2
    BY <1>6, Zenon DEF SignedIn, SignedBy
  <1> QED
    BY <1>7, <1>8, Zenon DEF SignsOnce

\* While no observer has given up a round or restarted, two observers never have
\* different blocks at the same height: each signs one block of a height, and two
\* majorities have an observer in common.
THEOREM NoForkWithoutFailures == Spec => [](fails = 0 /\ restarts = 0 => NoFork)
  <1>1. ObserverInv => (fails = 0 /\ restarts = 0 => NoFork)
    <2>0. SUFFICES ASSUME ObserverInv, fails = 0, restarts = 0, NEW o \in Observer, NEW p \in Observer,
                          NEW h \in 1 .. Min({Len(chain[o]), Len(chain[p])})
                   PROVE  chain[o][h] = chain[p][h]
      BY Zenon DEF NoFork
    <2>1. Len(chain[o]) \in Nat /\ Len(chain[p]) \in Nat
      BY <2>0, ChainLength, Zenon
    <2>2. h \in 1 .. Len(chain[o]) /\ h \in 1 .. Len(chain[p])
      <3>1. PICK k \in Nat, l \in Nat : k = Len(chain[o]) /\ l = Len(chain[p])
        BY <2>1, Zenon
      <3>2. Min({k, l}) \in {k, l} /\ \A y \in {k, l} : Min({k, l}) <= y
        <4>1. \E x \in {k, l} : \A y \in {k, l} : x <= y
          OBVIOUS
        <4> QED
          BY <4>1, Zenon DEF Min
      <3>3. h \in 1 .. Min({k, l})
        BY <3>1, Zenon
      <3> QED
        BY <3>1, <3>2, <3>3
    <2>3. /\ chain[o][h].height = h /\ Cardinality(SignedIn(net, chain[o][h])) >= Majority
          /\ chain[p][h].height = h /\ Cardinality(SignedIn(net, chain[p][h])) >= Majority
      BY <2>0, <2>2, Zenon DEF ObserverInv, ChainsOK
    <2>4. net \subseteq Message /\ \A q \in Observer : SignsOnce(q, net)
      BY <2>0, Zenon DEF ObserverInv, VotesOK
    <2> QED
      BY <2>3, <2>4, OneCertified, Zenon
  <1> QED
    BY <1>1, ObserverInvariant, PTL
=============================================================================
