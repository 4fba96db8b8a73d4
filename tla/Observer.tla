------------------------------ MODULE Observer ------------------------------
(***************************************************************************)
(* pof.ObserverNode: how the observers agree on the next block.  A round   *)
(* goes through the states of vote_round.go: the observers vote for the    *)
(* first formulator that is connected to them (RoundVote), acknowledge the *)
(* lowest vote (RoundVoteAck), the observer of that vote asks the          *)
(* formulator for its blocks (BlockWait), and the observers sign them      *)
(* (BlockVote).                                                            *)
(*                                                                         *)
(* net is the set of all messages ever sent: an observer may see a message *)
(* late, twice, out of order, or never.  So the wait maps of the round,    *)
(* which push a message that came too early back into the queue, need no   *)
(* state of their own, except BlockGenMessageWait, which is also compared, *)
(* and a reply, which is a message that the periodic broadcast repeats, is *)
(* in net like the broadcast: IsReply only keeps two observers from        *)
(* answering each other for ever.  A timestamp is the number of times the  *)
(* sender's choice of a formulator has changed: the messages sent between  *)
(* two changes are the same.                                               *)
(***************************************************************************)
EXTENDS RankTable, FiniteSets, FiniteSetsExt

CONSTANTS Observer,                \* observer keys; numbers, for PublicHash.Less
          GenesisRanks,            \* the rank table after the genesis block
          MaxBlocksPerFormulator,
          InitConnected,           \* formulators each observer starts with: Observer -> SUBSET Address
          None,                    \* nil
          All,                     \* the receivers of a broadcast
          MaxHeight,               \* bound: height of the last round
          MaxMade,                 \* bound: blocks generated
          MaxSynced,               \* bound: blocks a formulator gets from the observers
          Unstable,                \* bound: observers that give up rounds, restart, lose formulators
          MaxFails,                \* bound: rounds given up
          MaxExpired,              \* bound: formulators that are ignored no longer
          MaxChanges,              \* bound: formulators that come to or leave an observer
          MaxRestarts              \* bound: restarts of observers

\* Blocks are told apart by their ids, which stand for the hashes of their headers.
Block  == [id : 1 .. MaxMade, height : Nat, prev : Nat, gen : Address, timeout : Nat]
Winner == [formulator : Address, public : Observer]

ASSUME ObserverAssumption ==
    /\ IsFiniteSet(Observer) /\ Observer \subseteq Nat /\ All \notin Observer
    /\ GenesisRanks \in Seq(Rank) /\ Ascending(GenesisRanks) /\ DistinctAddresses(GenesisRanks)
    /\ GenesisRanks # <<>>
    /\ 1 .. MaxMade \subseteq HashSpace
    /\ None \notin Block /\ None \notin Winner
    /\ MaxBlocksPerFormulator \in Nat \ {0}
    /\ InitConnected \in [Observer -> SUBSET Address]
    /\ Unstable \subseteq Observer
    /\ {MaxHeight, MaxMade, MaxSynced, MaxFails, MaxExpired, MaxChanges, MaxRestarts} \subseteq Nat

VARIABLES chain,      \* blocks each observer has connected
          table,      \* its rank table, and the blocks of the first formulator's turn
          round,      \* ob.round
          connected,  \* ob.fs.FormulatorMap
          ignore,     \* ob.ignoreMap: "no" entry, "yes", or "expired"
          ts,         \* timestamps
          net,        \* messages sent
          fchain,     \* blocks each formulator has connected
          ftable,     \* its rank table
          lastReq,    \* height of fr.lastReqMessage, 0 when it is nil
          gen,        \* what genBlock has left to generate
          made,       \* blocks generated so far
          fails, expired, changes, restarts

observer   == <<chain, table, round, connected, ignore, ts>>
formulator == <<fchain, ftable, lastReq, gen, made>>
bounds     == <<fails, expired, changes, restarts>>
vars       == <<observer, net, formulator, bounds>>

\* Mutant: half of the observers is a majority.
HalfMajority == Cardinality(Observer) \div 2

Majority == Cardinality(Observer) \div 2 + 1

\* Mutant: more votes than there are observers, when they are three.
TooManyVotes == Cardinality(Observer) \div 2 + 3

VoteMajority == Cardinality(Observer) \div 2 + 2

-----------------------------------------------------------------------------
(* The chain and the rank table it gives *)

LastHash(c) == IF c = <<>> THEN 0 ELSE c[Len(c)].id

\* OnSaveData on a table without account changes.
Count(t, b) ==
    LET skipped[n \in 0..b.timeout] == IF n = 0 THEN t.ranks ELSE SkipHead(skipped[n - 1])
        count == (IF b.timeout > 0 THEN 0 ELSE t.count) + 1
    IN IF count >= MaxBlocksPerFormulator
       THEN [ranks |-> PassHead(skipped[b.timeout], b.id), count |-> 0]
       ELSE [ranks |-> skipped[b.timeout], count |-> count]

GenesisTable == [ranks |-> GenesisRanks, count |-> 0]

\* TopRank(timeout) is f.
IsTop(t, timeout, f) == timeout < Len(t.ranks) /\ t.ranks[timeout + 1].addr = f

RemainBlocks(t, timeout) ==
    IF timeout = 0 THEN MaxBlocksPerFormulator - t.count ELSE MaxBlocksPerFormulator

\* The timeout counts of TopRankInMap: the place of the first rank of the map.
TopInMap(t, map) ==
    LET in == {i \in DOMAIN t.ranks : t.ranks[i].addr \in map}
    IN IF in = {} THEN {} ELSE {Min(in) - 1}

-----------------------------------------------------------------------------
(* Rounds *)

NoBlockRound == [votes |-> {}, gen |-> None, genWait |-> None]

NewVoteRound(target) ==
    [state |-> "RoundVote", target |-> target,
     votes |-> [p \in Observer |-> None], acks |-> [p \in Observer |-> None], winner |-> None,
     blocks |-> [h \in target..(target + MaxBlocksPerFormulator - 1) |-> NoBlockRound]]

\* ob.round after syncVoteRound, which comes before every handler and timer.
Synced(o) ==
    LET r      == round[o]
        target == Len(chain[o]) + 1
    IN IF r.target >= target THEN r
       ELSE IF /\ r.winner # None /\ IsTop(table[o], 0, r.winner.formulator)
               /\ target \in DOMAIN r.blocks
            THEN [r EXCEPT !.target = target, !.state = "BlockWait",
                           !.blocks[target].genWait = IF r.blocks[target].gen = None THEN None ELSE @]
            ELSE NewVoteRound(target)

Adjusted(o) == {f \in connected[o] : ignore[o][f] # "yes"}

-----------------------------------------------------------------------------
(* Messages *)

Received(type) == {m \in net : m.type = type}

\* sendRoundVote: the vote for the first connected formulator, if there is one.
RoundVotes(o) ==
    {[type |-> "vote", from |-> o, height |-> Len(chain[o]) + 1, last |-> LastHash(chain[o]),
      timeout |-> t, formulator |-> table[o].ranks[t + 1].addr, ts |-> ts[o]]
        : t \in IF Len(chain[o]) < MaxHeight THEN TopInMap(table[o], Adjusted(o)) ELSE {}}

\* A stored vote or ack of my own sent again.  That of an earlier block of the turn
\* is sent for the present height, as one without timeouts.
Renewed(o, mine) ==
    IF mine.height = Len(chain[o]) + 1 THEN mine
    ELSE [mine EXCEPT !.timeout = 0, !.height = Len(chain[o]) + 1, !.last = LastHash(chain[o]), !.ts = ts[o]]

RoundVoteTo(o, r) ==
    IF r.state # "BlockVote" THEN RoundVotes(o)
    ELSE IF r.votes[o] = None THEN {} ELSE {Renewed(o, r.votes[o])}

RoundVoteAckTo(o, r) ==
    IF r.acks[o] = None THEN {}
    ELSE IF r.state = "BlockVote" THEN {Renewed(o, r.acks[o])} ELSE {r.acks[o]}

BlockVotes(o, block) == {[type |-> "blockvote", from |-> o, block |-> block]}

BlockVoteTo(o, r) == IF r.state = "BlockVote" THEN BlockVotes(o, r.blocks[r.target].gen) ELSE {}

\* The reply to a message of another observer.
Reply(o, m, msgs) == IF m.from # o THEN msgs ELSE {}

Send(msgs) == net' = net \cup msgs

SetRound(o, r) == round' = [round EXCEPT ![o] = r]

\* A message that is only answered.  The answer that is in net already is left out.
Answer(o, r, msgs) ==
    /\ ~(r = round[o] /\ msgs \subseteq net)
    /\ SetRound(o, r)
    /\ Send(msgs)

-----------------------------------------------------------------------------
(* RoundVote and RoundVoteAck *)

\* A vote or an ack for the height, the last block and the rank table of o.
FitsRound(o, r, v) ==
    /\ v.height = r.target
    /\ v.last = LastHash(chain[o])
    /\ IsTop(table[o], v.timeout, v.formulator)

\* The voter whose vote is acknowledged: the fewest timeouts, then the least key.
MinVoter(votes) ==
    LET voters == {p \in Observer : votes[p] # None}
    IN CHOOSE p \in voters : \A q \in voters :
           \/ votes[p].timeout < votes[q].timeout
           \/ votes[p].timeout = votes[q].timeout /\ p <= q

RoundVoteAck(o, votes) ==
    LET min == MinVoter(votes) IN
    [type |-> "ack", from |-> o, height |-> votes[min].height,
     last |-> votes[min].last, timeout |-> votes[min].timeout, formulator |-> votes[min].formulator,
     public |-> min, ts |-> ts[o]]

Newer(m, old) == old # None => m.ts > old.ts

\* Of the votes, and later of the acks, only my own is read when the majority has
\* been found.
Own(o, votes) == [p \in Observer |-> IF p = o THEN votes[p] ELSE None]

HandleRoundVote(o, r, m) ==
    LET votes == [r.votes EXCEPT ![m.from] = m]
        full  == Cardinality({p \in Observer : votes[p] # None}) >= VoteMajority
    IN /\ FitsRound(o, r, m)
       /\ \/ /\ r.state # "RoundVote"
             /\ Answer(o, r, Reply(o, m, BlockVoteTo(o, r) \cup RoundVoteTo(o, r)))
          \/ /\ r.state = "RoundVote" /\ ~Newer(m, r.votes[m.from])
             /\ Answer(o, r, Reply(o, m, RoundVoteTo(o, r)))
          \/ /\ r.state = "RoundVote" /\ Newer(m, r.votes[m.from])
             /\ SetRound(o, [r EXCEPT !.votes = IF full THEN Own(o, votes) ELSE votes,
                                    !.state = IF full THEN "RoundVoteAck" ELSE @])
             /\ Send(Reply(o, m, RoundVoteTo(o, r))
                     \cup IF full THEN {RoundVoteAck(o, votes)} ELSE {})
       /\ UNCHANGED <<chain, table, connected, ignore, ts, formulator, bounds>>

\* The acks a majority agrees with in the number of timeouts and a majority in
\* the observer.  The counts run along the map in no fixed order and are looked
\* at only where they change, so that such an ack may be missed when it has no
\* majority of its own.
Winners(acks) ==
    LET given == {p \in Observer : acks[p] # None}
    IN {acks[p] : p \in {q \in given :
            /\ Cardinality({x \in given : acks[x].timeout = acks[q].timeout}) >= Majority
            /\ Cardinality({x \in given : acks[x].public = acks[q].public}) >= Majority}}

MayMiss(acks) ==
    LET given == {p \in Observer : acks[p] # None}
    IN \A w \in Winners(acks) :
           Cardinality({p \in given : acks[p].timeout = w.timeout /\ acks[p].public = w.public}) < Majority

\* The winner is known: keep the block rounds of its turn and drop the blocks
\* others have generated.
BlockWait(o, r, w) ==
    LET last  == r.target + RemainBlocks(table[o], w.timeout) - 1
        keep(h) == LET b == r.blocks[h].genWait
                   IN IF h = r.target \/ b = None THEN None ELSE IF b.gen # w.formulator THEN None ELSE b
    IN [r EXCEPT !.state = "BlockWait", !.acks = Own(o, r.acks),
                 !.winner = [formulator |-> w.formulator, public |-> w.public],
                 !.blocks = [h \in {x \in DOMAIN r.blocks : x <= last} |->
                                 [r.blocks[h] EXCEPT !.genWait = keep(h)]]]

\* sendRoundSetup, and BlockReqMessage from the observer of the winning vote.
Setup(o, w) ==
    {[type |-> "setup", from |-> o, height |-> w.height, last |-> w.last,
      timeout |-> w.timeout, formulator |-> w.formulator]}
    \cup IF w.public # o THEN {}
         ELSE {[type |-> "blockreq", from |-> o, to |-> w.formulator, height |-> w.height,
                last |-> w.last, timeout |-> w.timeout]}

HandleRoundVoteAck(o, r, m) ==
    LET acks   == [r.acks EXCEPT ![m.from] = m]
        voted  == [r EXCEPT !.acks = acks]
        full   == Cardinality({p \in Observer : acks[p] # None}) >= Majority
        answer == Reply(o, m, RoundVoteAckTo(o, voted))
    IN /\ FitsRound(o, r, m)
       /\ \/ /\ r.state \in {"BlockWait", "BlockVote"}
             /\ Answer(o, r, Reply(o, m, BlockVoteTo(o, r) \cup RoundVoteAckTo(o, r)))
          \/ /\ r.state = "RoundVoteAck" /\ ~Newer(m, r.acks[m.from])
             /\ Answer(o, r, Reply(o, m, RoundVoteAckTo(o, r)))
          \/ /\ r.state = "RoundVoteAck" /\ Newer(m, r.acks[m.from])
             /\ \/ /\ ~full \/ MayMiss(acks)
                   /\ SetRound(o, voted)
                   /\ Send(answer)
                \/ \E w \in Winners(acks) :
                   /\ SetRound(o, BlockWait(o, voted, w))
                   /\ Send(answer \cup Setup(o, w))
       /\ UNCHANGED <<chain, table, connected, ignore, ts, formulator, bounds>>

\* A generated block, broadcast or sent to an observer by another one.
BlockGen(block) == {[type |-> "blockgen", to |-> All, block |-> block]}

\* Only an observer that has signed a block answers a setup.
HandleRoundSetup(o, r, m) ==
    /\ m.from # o
    /\ FitsRound(o, r, m)
    /\ r.state = "BlockVote"
    /\ SetRound(o, r)
    /\ Send(BlockVoteTo(o, r)
            \cup IF m.from \in r.blocks[r.target].votes THEN {} ELSE BlockGen(r.blocks[r.target].gen))
    /\ UNCHANGED <<chain, table, connected, ignore, ts, formulator, bounds>>

-----------------------------------------------------------------------------
(* BlockGen and BlockVote *)

ValidBlock(o, r, b) ==
    /\ IsTop(table[o], b.timeout, b.gen)
    /\ b.gen = r.winner.formulator
    /\ b.prev = LastHash(chain[o])

HandleBlockGen(o, r, m) ==
    LET b       == m.block
        asked   == r.winner # None /\ r.winner.public = o
        forward == IF asked /\ m.to = o THEN BlockGen(b) ELSE {}
        hold    == [r EXCEPT !.blocks[b.height].genWait = b]
    IN /\ m.to \in {All, o}
       /\ b.height \in DOMAIN r.blocks
       /\ r.blocks[b.height].gen = None
       /\ \/ /\ b.height > r.target \/ (b.height = r.target /\ r.state \in {"RoundVote", "RoundVoteAck"})
             /\ Answer(o, hold, forward)
          \/ /\ b.height = r.target /\ r.state = "BlockWait"
             /\ ValidBlock(o, r, b)
             /\ r.blocks[b.height].genWait \in {None, b}
             /\ SetRound(o, [r EXCEPT !.state = "BlockVote", !.blocks[b.height].gen = b])
             /\ Send(forward \cup BlockVotes(o, b))
          \/ \* refused after it was forwarded
             /\ \/ b.height < r.target
                \/ /\ b.height = r.target /\ r.state = "BlockWait"
                   /\ ~(ValidBlock(o, r, b) /\ r.blocks[b.height].genWait \in {None, b})
             /\ Answer(o, r, forward)
       /\ UNCHANGED <<chain, table, connected, ignore, ts, formulator, bounds>>

\* A vote that comes before the block clears the generator.
ClearIgnored(o, r, b) ==
    /\ ignore[o][b.gen] # "no"
    /\ ignore' = [ignore EXCEPT ![o][b.gen] = "no"]
    /\ ts' = IF ignore[o][b.gen] = "yes" THEN [ts EXCEPT ![o] = @ + 1] ELSE ts
    /\ SetRound(o, r)
    /\ UNCHANGED <<chain, table, connected, net>>

\* Mutant: the round goes on after the last block of the turn.
ConnectAndGoOn(o, r) ==
    LET b == r.blocks[r.target].gen
    IN /\ chain' = [chain EXCEPT ![o] = Append(@, b)] /\ table' = [table EXCEPT ![o] = Count(@, b)]
       /\ ignore' = [ignore EXCEPT ![o][r.winner.formulator] = "no"]
       /\ SetRound(o, [r EXCEPT !.state = "BlockWait", !.target = @ + 1])
       /\ UNCHANGED <<connected, ts>>

\* ConnectBlockWithContext, and the next round: the next block of the turn when
\* the formulator keeps the first rank, a new vote otherwise.
Connect(o, r) ==
    LET b == r.blocks[r.target].gen
        t == Count(table[o], b)
    IN /\ chain' = [chain EXCEPT ![o] = Append(@, b)] /\ table' = [table EXCEPT ![o] = t]
       /\ ignore' = [ignore EXCEPT ![o][r.winner.formulator] = "no"]
       /\ SetRound(o, IF r.target + 1 \in DOMAIN r.blocks /\ IsTop(t, 0, r.winner.formulator)
                      THEN [r EXCEPT !.state = "BlockWait", !.target = @ + 1]
                      ELSE NewVoteRound(r.target + 1))
       /\ UNCHANGED <<connected, ts>>

\* Mutant: one signature too few.
EnoughButOne(votes) == Cardinality(votes) + 1 >= Majority

EnoughVotes(votes) == Cardinality(votes) >= Majority

HandleBlockVote(o, r, m) ==
    LET b     == m.block
        voted == [r EXCEPT !.blocks[r.target].votes = @ \cup {m.from}]
    IN /\ b.height \in DOMAIN r.blocks /\ b.height = r.target
       /\ \/ /\ r.state # "BlockVote"
             /\ ClearIgnored(o, r, b)
          \/ /\ r.state = "BlockVote"
             /\ ValidBlock(o, r, b) /\ b = r.blocks[r.target].gen
             /\ \/ /\ m.from \in r.blocks[r.target].votes
                   /\ Answer(o, r, Reply(o, m, BlockVoteTo(o, r)))
                   /\ UNCHANGED <<chain, table, connected, ignore, ts>>
                \/ /\ m.from \notin r.blocks[r.target].votes
                   /\ Send(Reply(o, m, BlockVoteTo(o, r)))
                   /\ IF EnoughVotes(voted.blocks[r.target].votes)
                      THEN Connect(o, voted)
                      ELSE SetRound(o, voted) /\ UNCHANGED <<chain, table, connected, ignore, ts>>
       /\ UNCHANGED <<formulator, bounds>>

-----------------------------------------------------------------------------
(* Timers, synchronisation and restarts *)

\* The vote timer in a round that has not failed.
VoteTimer(o) ==
    LET r == Synced(o) IN
    /\ Answer(o, r, IF Adjusted(o) = {} THEN {}
                    ELSE IF r.state = "RoundVote" THEN RoundVotes(o) ELSE BlockVoteTo(o, r))
    /\ UNCHANGED <<chain, table, connected, ignore, ts, formulator, bounds>>

\* More than 20 ticks without progress: the winner is ignored, or disconnected
\* when it was ignored before, and a new round begins.  A tick in RoundVote starts
\* the count again, so a round fails in the later states only.
VoteFails(o) ==
    LET r == Synced(o)
        w == r.winner
    IN /\ r.state # "RoundVote" /\ Adjusted(o) # {}
       /\ o \in Unstable /\ fails < MaxFails /\ fails' = fails + 1
       /\ ignore' = IF w = None THEN ignore ELSE [ignore EXCEPT ![o][w.formulator] = "yes"]
       /\ connected' = IF w # None /\ ignore[o][w.formulator] # "no"
                       THEN [connected EXCEPT ![o] = @ \ {w.formulator}] ELSE connected
       /\ ts' = [ts EXCEPT ![o] = @ + 1]
       /\ SetRound(o, NewVoteRound(Len(chain[o]) + 1))
       /\ UNCHANGED <<chain, table, formulator, expired, changes, restarts>>
       /\ Send(RoundVotes(o)')

IgnoreExpires(o, f) ==
    /\ ignore[o][f] = "yes"
    /\ expired < MaxExpired /\ expired' = expired + 1
    /\ ignore' = [ignore EXCEPT ![o][f] = "expired"]
    /\ ts' = [ts EXCEPT ![o] = @ + 1]
    /\ UNCHANGED <<chain, table, round, connected, net, formulator, fails, changes, restarts>>

\* A formulator connects to the formulator service of o or leaves it.
PeerChanges(o, f) ==
    /\ o \in Unstable /\ changes < MaxChanges /\ changes' = changes + 1
    /\ connected' = [connected EXCEPT ![o] = IF f \in @ THEN @ \ {f} ELSE @ \cup {f}]
    /\ ts' = [ts EXCEPT ![o] = @ + 1]
    /\ UNCHANGED <<chain, table, round, ignore, net, formulator, fails, expired, restarts>>

\* Status, Request and Block messages and the block queue: o gets the next block
\* of another observer.  The chain of p only grows, so that it does not matter
\* when p sent the block.  ConnectBlock refuses one that does not follow.
Sync(o, p) ==
    /\ Len(chain[p]) > Len(chain[o])
    /\ LET b == chain[p][Len(chain[o]) + 1]
       IN /\ b.prev = LastHash(chain[o])
          /\ chain' = [chain EXCEPT ![o] = Append(@, b)]
          /\ table' = [table EXCEPT ![o] = Count(@, b)]
    /\ UNCHANGED <<round, connected, ignore, ts, net, formulator, bounds>>

\* Only the chain survives a restart.
Restart(o) ==
    /\ o \in Unstable /\ restarts < MaxRestarts /\ restarts' = restarts + 1
    /\ SetRound(o, NewVoteRound(Len(chain[o]) + 1))
    /\ ignore' = [ignore EXCEPT ![o] = [f \in Address |-> "no"]]
    /\ connected' = [connected EXCEPT ![o] = InitConnected[o]]
    /\ ts' = [ts EXCEPT ![o] = @ + 1]
    /\ UNCHANGED <<chain, table, net, formulator, fails, expired, changes>>

-----------------------------------------------------------------------------
(* Formulators *)

\* handleObserverMessage with a BlockReqMessage: one for a height that was asked
\* for before is ignored, one from the future is tried again when the formulator
\* has caught up.
HandleBlockReq(f, m) ==
    /\ m.to = f /\ gen[f] = None
    /\ m.height > lastReq[f]
    /\ m.height = Len(fchain[f]) + 1
    /\ IsTop(ftable[f], m.timeout, f)
    /\ m.last = LastHash(fchain[f])
    /\ lastReq' = [lastReq EXCEPT ![f] = m.height]
    /\ gen' = [gen EXCEPT ![f] = [to |-> m.from, height |-> m.height, prev |-> m.last, timeout |-> m.timeout,
                                  left |-> RemainBlocks(ftable[f], m.timeout)]]
    /\ UNCHANGED <<observer, net, fchain, ftable, made, bounds>>

\* One iteration of genBlock: the block follows the one before it, connected or
\* not, and goes to the observer that asked.  The first has the timeouts of the
\* request.  The turn ends early when a block of another formulator was received.
GenBlock(f) ==
    LET g == gen[f]
        b == [id |-> made + 1, height |-> g.height, prev |-> g.prev, gen |-> f, timeout |-> g.timeout]
    IN /\ g # None
       /\ made < MaxMade /\ g.height <= MaxHeight
       /\ made' = made + 1
       /\ Send({[type |-> "blockgen", to |-> g.to, block |-> b]})
       /\ gen' = [gen EXCEPT ![f] = IF g.left = 1 \/ lastReq[f] = 0 THEN None
                                    ELSE [g EXCEPT !.height = @ + 1, !.prev = b.id, !.timeout = 0, !.left = @ - 1]]
       /\ UNCHANGED <<observer, fchain, ftable, lastReq, bounds>>

\* A formulator gets the next block of an observer.
FormulatorSync(f, o) ==
    /\ Len(fchain[f]) < MaxSynced
    /\ Len(chain[o]) > Len(fchain[f])
    /\ LET b == chain[o][Len(fchain[f]) + 1]
       IN /\ b.prev = LastHash(fchain[f])
          /\ fchain' = [fchain EXCEPT ![f] = Append(@, b)]
          /\ ftable' = [ftable EXCEPT ![f] = Count(@, b)]
          /\ lastReq' = [lastReq EXCEPT ![f] =
                             IF b.gen # f /\ b.height <= @ + MaxBlocksPerFormulator THEN 0 ELSE @]
    /\ UNCHANGED <<observer, net, gen, made, bounds>>

-----------------------------------------------------------------------------
Init ==
    /\ chain = [o \in Observer |-> <<>>] /\ table = [o \in Observer |-> GenesisTable]
    /\ round = [o \in Observer |-> NewVoteRound(1)]
    /\ connected = InitConnected
    /\ ignore = [o \in Observer |-> [f \in Address |-> "no"]]
    /\ ts = [o \in Observer |-> 0]
    /\ net = {}
    /\ fchain = [f \in Address |-> <<>>] /\ ftable = [f \in Address |-> GenesisTable]
    /\ lastReq = [f \in Address |-> 0]
    /\ gen = [f \in Address |-> None]
    /\ made = 0
    /\ fails = 0 /\ expired = 0 /\ changes = 0 /\ restarts = 0

\* The message queue: handleObserverMessage synchronises the round first.
Deliver(o) ==
    LET r == Synced(o) IN
    \/ \E m \in Received("vote") : HandleRoundVote(o, r, m)
    \/ \E m \in Received("ack") : HandleRoundVoteAck(o, r, m)
    \/ \E m \in Received("setup") : HandleRoundSetup(o, r, m)
    \/ \E m \in Received("blockgen") : HandleBlockGen(o, r, m)
    \/ \E m \in Received("blockvote") : HandleBlockVote(o, r, m)

Next ==
    \/ \E o \in Observer :
         \/ Deliver(o)
         \/ VoteTimer(o)
         \/ VoteFails(o)
         \/ Restart(o)
         \/ \E f \in Address : IgnoreExpires(o, f) \/ PeerChanges(o, f) \/ FormulatorSync(f, o)
         \/ \E p \in Observer : Sync(o, p)
    \/ \E f \in Address : GenBlock(f) \/ \E m \in Received("blockreq") : HandleBlockReq(f, m)

Spec == Init /\ [][Next]_vars

\* The queue and vote timers of every observer fire again and again, the messages
\* that are sent arrive, and a formulator that is asked generates its blocks.
LiveSpec ==
    /\ Spec
    /\ \A o \in Observer : WF_vars(Deliver(o)) /\ WF_vars(VoteTimer(o))
    /\ \A f \in Address : WF_vars(GenBlock(f)) /\ WF_vars(\E m \in Received("blockreq") : HandleBlockReq(f, m))

-----------------------------------------------------------------------------
(* Properties *)

Signed(b) == {m.from : m \in {x \in net : x.type = "blockvote" /\ x.block = b}}

\* Two observers never have different blocks at the same height.
NoFork ==
    \A o, p \in Observer : \A h \in 1..Min({Len(chain[o]), Len(chain[p])}) : chain[o][h] = chain[p][h]

\* Every block that an observer has connected carries the signatures of a majority
\* of the observers, its own or those it took over with the block.
Certified ==
    \A o \in Observer : \A h \in DOMAIN chain[o] : Cardinality(Signed(chain[o][h])) >= Majority

\* The fields the handlers dereference without a test are there: the winner and
\* the block round from BlockWait on, the block in BlockVote.
RoundHasData ==
    \A o \in Observer :
        LET r == Synced(o) IN
        /\ r.target = Len(chain[o]) + 1
        /\ r.state \in {"BlockWait", "BlockVote"} => r.winner # None /\ r.target \in DOMAIN r.blocks
        /\ r.state = "BlockVote" => r.blocks[r.target].gen # None

\* Every observer comes to connect the blocks of the turn.
EveryoneConnects == <>(\A o \in Observer : Len(chain[o]) = MaxHeight)
=============================================================================
