---------------------------- MODULE MCObserver ----------------------------
(* Small instances of Observer for TLC. *)
EXTENDS Observer, SequencesExt

MCRanks == <<NewRank(1, "k", 0, 1), NewRank(2, "k", 0, 2)>>

\* The last observer is connected to both formulators, the others to the second.
OnlyLast == [o \in Observer |-> IF o = Max(Observer) THEN Address ELSE {2}]

\* The last observer is connected to the second formulator only.
OneMissing == [o \in Observer |-> IF o = Max(Observer) THEN {2} ELSE Address]

(***************************************************************************)
(* A state of a round, after the blocks in base, that is reached when      *)
(* every vote and enough acks are delivered: all the observers know the    *)
(* winner, and its observer has asked the formulator for its blocks.       *)
(***************************************************************************)
After(base) == FoldLeft(Count, GenesisTable, base)

GenesisVotes(base) ==
    [o \in Observer |->
        LET t == CHOOSE t \in TopInMap(After(base), InitConnected[o]) : TRUE
        IN [type |-> "vote", from |-> o, height |-> Len(base) + 1, last |-> LastHash(base), timeout |-> t,
            formulator |-> After(base).ranks[t + 1].addr, ts |-> 0]]
GenesisAcks(base) == [o \in Observer |-> [RoundVoteAck(o, GenesisVotes(base)) EXCEPT !.ts = 0]]
GenesisAck(base)  == GenesisAcks(base)[MinVoter(GenesisVotes(base))]

InBlockWait(o, base) ==
    BlockWait(o, [NewVoteRound(Len(base) + 1) EXCEPT !.votes = Own(o, GenesisVotes(base)), !.acks = Own(o, GenesisAcks(base))],
              GenesisAck(base))

RoundMessages(base) ==
    {GenesisVotes(base)[o] : o \in Observer} \cup {GenesisAcks(base)[o] : o \in Observer}
    \cup UNION {Setup(o, GenesisAck(base)) : o \in Observer}
    \cup UNION {BlockVotes(o, base[i]) : o \in Observer, i \in DOMAIN base}

InitFormulators(base) ==
    /\ fchain = [f \in Address |-> base] /\ ftable = [f \in Address |-> After(base)]
    /\ gen = [f \in Address |-> None]

RoundKnown(base) ==
    /\ chain = [o \in Observer |-> base] /\ table = [o \in Observer |-> After(base)]
    /\ connected = InitConnected
    /\ ignore = [o \in Observer |-> [f \in Address |-> "no"]]
    /\ ts = [o \in Observer |-> 0]
    /\ round = [o \in Observer |-> InBlockWait(o, base)]
    /\ net = RoundMessages(base)
    /\ InitFormulators(base)
    /\ lastReq = [f \in Address |-> 0] /\ made = 1
    /\ changes = 0

(***************************************************************************)
(* A turn of two blocks without faults; or its second block, in a round    *)
(* that began after the observers restarted, with faults: either rounds    *)
(* are given up and ignored formulators come back, or observers restart.   *)
(* made numbers the blocks: one was generated before.                      *)
(***************************************************************************)
FirstBlock == [id |-> 1, height |-> 1, prev |-> 0, gen |-> GenesisRanks[1].addr, timeout |-> 0]

InitFaults ==
    \/ RoundKnown(<<>>) /\ fails = MaxFails /\ expired = MaxExpired /\ restarts = MaxRestarts
    \/ /\ RoundKnown(<<FirstBlock>>)
       /\ \/ fails = 0 /\ expired = 0 /\ restarts = MaxRestarts
          \/ fails = MaxFails /\ expired = MaxExpired /\ restarts = 0

FaultsSpec == InitFaults /\ [][Next]_vars

(***************************************************************************)
(* Later in that round: the first observer, which asked, and the last one  *)
(* have signed the block of the formulator f, the last one has connected   *)
(* it, and the others have given up the round without the last signature   *)
(* and voted again, for another formulator.                                *)
(***************************************************************************)
InitVotedAgain ==
    LET first == Min(Observer)
        last  == Max(Observer)
        f     == GenesisAck(<<>>).formulator
        b     == [id |-> 1, height |-> 1, prev |-> 0, gen |-> f, timeout |-> GenesisAck(<<>>).timeout]
        again == [o \in Observer |-> IF o = last THEN GenesisVotes(<<>>)[o] ELSE CHOOSE v \in RoundVotes(o) : TRUE]
        ack   == [o \in Observer |-> RoundVoteAck(o, again)]
        voted(o) == [NewVoteRound(1) EXCEPT !.votes = Own(o, again), !.acks = Own(o, ack)]
    IN /\ connected = InitConnected
       /\ ts = [o \in Observer |-> IF o = last THEN 0 ELSE 1]
       /\ ignore = [o \in Observer |-> [x \in Address |-> IF x = f /\ o # last THEN "yes" ELSE "no"]]
       /\ chain = [o \in Observer |-> IF o = last THEN <<b>> ELSE <<>>]
       /\ table = [o \in Observer |-> IF o = last THEN Count(GenesisTable, b) ELSE GenesisTable]
       /\ round = [o \in Observer |-> IF o = last THEN NewVoteRound(2) ELSE BlockWait(o, voted(o), ack[o])]
       /\ net = RoundMessages(<<>>) \cup BlockGen(b) \cup {[type |-> "blockgen", to |-> first, block |-> b]}
                \cup BlockVotes(first, b) \cup BlockVotes(last, b)
                \cup UNION {{again[o], ack[o]} \cup Setup(o, ack[o]) : o \in Observer \ {last}}
       /\ InitFormulators(<<>>)
       /\ lastReq = [x \in Address |-> IF x = f THEN 1 ELSE 0] /\ made = 1
       /\ fails = 2 /\ expired = 0 /\ changes = 0 /\ restarts = 0

VotedAgainSpec == InitVotedAgain /\ [][Next]_vars
============================================================================
