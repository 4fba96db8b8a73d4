----------------------------- MODULE Consensus -----------------------------
(***************************************************************************)
(* pof.Consensus: the in-memory rank table of one node, what a connected   *)
(* block does to it (OnSaveData and updateFormulatorList), how it is saved *)
(* with the block and loaded again after a restart (OnLoadChain).          *)
(*                                                                         *)
(* OnSaveData holds the consensus mutex but not the mutex of the table,    *)
(* which is the one readers such as RankTable.IsFormulator take.  A reader *)
(* sees the table between two iterations of its loops, so each iteration   *)
(* is a step here and pc says where OnSaveData stands.                     *)
(***************************************************************************)
EXTENDS RankTable, FiniteSets

CONSTANTS Genesis,                 \* accounts of the genesis block: a function Address -> PublicHash
          AddressHash,             \* hash.DoubleHash(addr), a function Address -> HashSpace
          MaxBlocksPerFormulator,  \* blocks of one turn
          MaxPhaseDiff,            \* maxPhaseDiff(height), or Unlimited when it is nil
          MaxHeight,               \* bound: height of the last block
          MaxApplied,              \* bound: blocks applied when a caller outlives a failure
          MaxChanges,              \* bound: formulator accounts one block touches
          MaxChangeHeight          \* bound: height of the last block that touches any

Unlimited == -1

ASSUME ConsensusAssumption ==
    /\ IsFiniteSet(Address) /\ PublicHash # {}
    /\ DOMAIN Genesis \subseteq Address
    /\ \A a \in DOMAIN Genesis : Genesis[a] \in PublicHash
    /\ AddressHash \in [Address -> HashSpace]
    /\ MaxBlocksPerFormulator \in Nat \ {0}
    /\ MaxPhaseDiff \in Nat \cup {Unlimited}
    /\ MaxHeight \in Nat /\ MaxApplied \in Nat
    /\ MaxChanges \in Nat /\ MaxChangeHeight \in Nat

VARIABLES candidates,   \* rt.candidates
          rankMap,      \* the keys of rt.rankMap; its values are the ranks of the list
          blocksBySame, \* blocksBySameFormulator
          applied,      \* history: blocks counted in the table (genesis included)
          turns,        \* history: turns[a][b], turns b finished while a waited
          accounts,     \* formulator accounts of the stored state
          stored,       \* the consensus part of the stored process data
          pc,           \* where OnSaveData stands
          block,        \* the block being saved
          left,         \* iterations forwardCandidates has left
          phase,        \* updateFormulatorList: phase of an added rank
          maxPhase,     \* updateFormulatorList: cap on phases
          todo,         \* accounts of the block updateFormulatorList has left
          err,          \* the error it returned
          retried       \* history: a caller has outlived a failure

mem    == <<candidates, rankMap, blocksBySame, applied>>
disk   == <<accounts, stored>>
locals == <<block, left, phase, maxPhase, todo>>
vars   == <<mem, turns, disk, pc, locals, err, retried>>

Status  == {"unborn", "active", "revoked", "gone"}
Account == [status : Status, key : PublicHash]
Errors  == {"none", "ErrInvalidPhase", "ErrExistAddress",
            "ErrInsufficientCandidateCount", "store"}

NoBlock == [timeout |-> 0, hash |-> 0, generator |-> 0, gap |-> 0, changes |-> <<>>]

NoTurns == [a \in Address |-> [b \in Address |-> 0]]

-----------------------------------------------------------------------------
(* Blocks.  A block carries its timeout count, its header hash, and what   *)
(* its transactions leave of the formulator accounts they touch.           *)

\* What one block may make of an account: create it, revoke it, revert the
\* revocation, change its key, merge it into another, or only touch it.
After(acc) ==
    CASE acc.status = "unborn" -> [status : {"active", "revoked"}, key : PublicHash]
      [] acc.status = "gone"   -> {}
      [] OTHER                 -> [status : {"active", "revoked"}, key : PublicHash]
                                      \cup {[acc EXCEPT !.status = "gone"]}

ChangesOf(accs) ==
    {c \in UNION {[A -> Account] : A \in {B \in SUBSET Address : Cardinality(B) <= MaxChanges}} :
        \A a \in DOMAIN c : c[a] \in After(accs[a])}

GenesisBlock ==
    [timeout |-> 0, hash |-> 0, generator |-> 0, gap |-> 0,
     changes |-> [a \in DOMAIN Genesis |-> [status |-> "active", key |-> Genesis[a]]]]

-----------------------------------------------------------------------------
(* updateFormulatorList *)

\* The phase of a rank added by this block and the cap on all phases,
\* from the list as the turn left it.
ListPhase(ranks) ==
    IF MaxPhaseDiff = Unlimited THEN SmallestPhase(ranks) + 2
    ELSE LET top == SmallestPhase(ranks) + MaxPhaseDiff
             new == LargestPhase(ranks) + 1
         IN IF MaxPhaseDiff # 0 /\ new > top THEN top ELSE new

ListMaxPhase(ranks) ==
    IF MaxPhaseDiff \in {Unlimited, 0} THEN LargestPhase(ranks)
    ELSE SmallestPhase(ranks) + MaxPhaseDiff

AddError(ranks, map, rank) ==
    IF ranks # <<>> /\ rank.phase < ranks[1].phase THEN "ErrInvalidPhase"
    ELSE IF rank.addr \in map THEN "ErrExistAddress"
    ELSE "none"

BeginUpdate(ranks, b) ==
    /\ phase' = ListPhase(ranks)
    /\ maxPhase' = ListMaxPhase(ranks)
    /\ todo' = DOMAIN b.changes
    /\ pc' = "clamp"

\* OnSaveData has returned: its locals are gone.
EndLocals ==
    /\ block' = NoBlock /\ left' = 0 /\ phase' = 0 /\ maxPhase' = 0 /\ todo' = {}

\* The turns seen by others: a has had its turn, top has finished one while the
\* others of the table waited, and a starts anew at another place of the table.
Served(t, a) == [x \in Address |-> [y \in Address |-> IF x = a THEN 0 ELSE t[x][y]]]

Finished(t, top, waiting) ==
    [x \in Address |-> [y \in Address |->
        IF x = top THEN 0 ELSE IF y = top /\ x \in waiting THEN t[x][y] + 1 ELSE t[x][y]]]

Restarted(t, a) == [x \in Address |-> [y \in Address |-> IF x = a \/ y = a THEN 0 ELSE t[x][y]]]

-----------------------------------------------------------------------------
(* NewConsensus and InitGenesis up to the walk over the genesis accounts *)

NotStored == [height |-> -1, candidates |-> <<>>, blocksBySame |-> 0, applied |-> 0]

Init ==
    /\ candidates = <<>> /\ rankMap = {} /\ blocksBySame = 0 /\ applied = 1
    /\ turns = NoTurns
    /\ accounts = [a \in Address |-> [status |-> "unborn", key |-> CHOOSE k \in PublicHash : TRUE]]
    /\ stored = NotStored
    /\ pc = "clamp" /\ block = GenesisBlock /\ left = 0
    /\ phase = ListPhase(<<>>) /\ maxPhase = ListMaxPhase(<<>>)
    /\ todo = DOMAIN Genesis
    /\ err = "none" /\ retried = FALSE

\* A block of the next height whose generator ValidateSignature accepts: it is
\* the rank that TopRank(timeout) returns.
Begin(timeout, hash, changes) ==
    /\ pc = "idle"
    /\ stored.height < MaxHeight /\ (retried => applied < MaxApplied)
    /\ DOMAIN changes # {} => stored.height < MaxChangeHeight
    /\ timeout < Len(candidates)
    /\ block' = [timeout |-> timeout, hash |-> hash, changes |-> changes,
                 generator |-> candidates[timeout + 1].addr,
                 gap |-> candidates[timeout + 1].phase - candidates[1].phase]
    /\ left' = timeout
    /\ applied' = applied + 1
    /\ pc' = "forward"
    /\ UNCHANGED <<candidates, rankMap, blocksBySame, turns, disk, retried, phase, maxPhase, todo, err>>

\* One iteration of forwardCandidates.
ForwardCandidate ==
    /\ pc = "forward" /\ left > 0
    /\ candidates' = SkipHead(candidates)
    /\ turns' = Served(turns, candidates[1].addr)
    /\ left' = left - 1
    /\ UNCHANGED <<rankMap, blocksBySame, applied, disk, retried, pc, block, phase, maxPhase, todo, err>>

\* The turn: blocksBySameFormulator is counted, and the last block of a turn
\* moves the head.
CountBlock ==
    /\ pc = "forward" /\ left = 0
    /\ LET n    == (IF block.timeout > 0 THEN 0 ELSE blocksBySame) + 1
           done == n >= MaxBlocksPerFormulator
           top  == candidates[1].addr
       IN /\ blocksBySame' = IF done THEN 0 ELSE n
          /\ candidates' = IF done THEN PassHead(candidates, block.hash) ELSE candidates
          /\ turns' = IF done THEN Finished(turns, top, rankMap) ELSE turns
    /\ BeginUpdate(candidates', block)
    /\ UNCHANGED <<rankMap, applied, disk, retried, block, left, err>>

\* updateFormulatorList: one rank above the cap is removed and added at it.
Clamp ==
    /\ pc = "clamp"
    /\ LET above == {i \in DOMAIN candidates : candidates[i].phase > maxPhase}
       IN IF above = {}
          THEN pc' = "accounts" /\ UNCHANGED <<mem, turns, err>>
          ELSE LET r    == candidates[CHOOSE i \in above : \A j \in above : i <= j]
                   rest == RemoveRank(candidates, r.addr)
                   new  == NewRank(r.addr, r.key, maxPhase, r.hash)
                   e    == AddError(rest, rankMap \ {r.addr}, new)
               IN /\ err' = e
                  /\ pc' = IF e = "none" THEN "clamp" ELSE "failed"
                  /\ candidates' = IF e = "none" THEN InsertRankToList(rest, new) ELSE rest
                  /\ rankMap' = IF e = "none" THEN rankMap ELSE rankMap \ {r.addr}
                  /\ turns' = Restarted(turns, r.addr)
                  /\ UNCHANGED <<blocksBySame, applied>>
    /\ UNCHANGED <<disk, retried, locals>>

Present(b)  == {a \in DOMAIN b.changes : b.changes[a].status # "gone"}

\* Mutant: a change of the generator key goes unnoticed.
RemovesRevoked(a) ==
    accounts[a].status # "unborn" /\ a \in rankMap /\ block.changes[a].status = "revoked"

\* The rank of a goes when its account is revoked or has another key, and comes
\* when the account is active and has none.
Removes(a) ==
    /\ accounts[a].status # "unborn" /\ a \in rankMap
    /\ \/ block.changes[a].status = "revoked"
       \/ candidates[IndexOf(candidates, a)].key # block.changes[a].key

Adds(a) ==
    /\ block.changes[a].status = "active"
    /\ accounts[a].status = "unborn" \/ a \notin rankMap \/ Removes(a)

\* One account of ctx.AccountMap, which is walked in the order of addresses.
UpdateAccount(a) ==
    /\ pc = "accounts"
    /\ a \in todo \cap Present(block)
    /\ \A b \in todo \cap Present(block) : a <= b
    /\ LET rest    == IF Removes(a) THEN RemoveRank(candidates, a) ELSE candidates
           restMap == IF Removes(a) THEN rankMap \ {a} ELSE rankMap
           rank    == NewRank(a, block.changes[a].key, phase, AddressHash[a])
           e       == IF Adds(a) THEN AddError(rest, restMap, rank) ELSE "none"
           added   == Adds(a) /\ e = "none"
       IN /\ candidates' = IF added THEN InsertRankToList(rest, rank) ELSE rest
          /\ rankMap' = IF added THEN restMap \cup {a} ELSE restMap
          /\ turns' = IF Removes(a) \/ Adds(a) THEN Restarted(turns, a) ELSE turns
          /\ err' = e
          /\ pc' = IF e = "none" THEN "accounts" ELSE "failed"
    /\ todo' = todo \ {a}
    /\ UNCHANGED <<blocksBySame, applied, disk, retried, block, left, phase, maxPhase>>

\* One account of ctx.DeletedAccountMap, after those of AccountMap.
DeleteAccount(a) ==
    /\ pc = "accounts"
    /\ a \in todo /\ \A b \in todo : a <= b
    /\ todo \cap Present(block) = {}
    /\ candidates' = RemoveRank(candidates, a)
    /\ rankMap' = rankMap \ {a}
    /\ turns' = Restarted(turns, a)
    /\ todo' = todo \ {a}
    /\ UNCHANGED <<blocksBySame, applied, disk, retried, pc, block, left, phase, maxPhase, err>>

\* The count at the end of updateFormulatorList.
EndUpdate ==
    /\ pc = "accounts" /\ todo = {}
    /\ IF candidates = <<>>
       THEN pc' = "failed" /\ err' = "ErrInsufficientCandidateCount"
       ELSE pc' = "store" /\ UNCHANGED err
    /\ UNCHANGED <<mem, turns, disk, retried, locals>>

-----------------------------------------------------------------------------
(* connectBlockWithContext around OnSaveData, and OnLoadChain *)

\* StoreBlock (StoreGenesis for the genesis block) writes the accounts and
\* what buildSaveData encoded in one transaction of the key-value store.
StoreBlock ==
    /\ pc = "store"
    /\ accounts' = [a \in Address |-> IF a \in DOMAIN block.changes THEN block.changes[a] ELSE accounts[a]]
    /\ stored' = [height |-> stored.height + 1, candidates |-> candidates,
                  blocksBySame |-> blocksBySame, applied |-> applied]
    /\ pc' = "idle"
    /\ EndLocals
    /\ UNCHANGED <<mem, turns, err, retried>>

\* The store refuses the block: connectBlockWithContext returns its error.
StoreFails ==
    /\ pc = "store"
    /\ pc' = "failed" /\ err' = "store"
    /\ UNCHANGED <<mem, turns, disk, retried, locals>>

\* Mutant: the caller's panic is taken for a return.
ReturnAlways ==
    /\ pc = "failed" /\ stored.height >= 0 /\ applied < MaxApplied
    /\ pc' = "idle" /\ err' = "none"
    /\ EndLocals
    /\ UNCHANGED <<mem, turns, disk, retried>>

\* The error of OnSaveData or of the store reaches the caller.  A synchronising
\* node panics and is restarted; an observer that handles a block vote goes on.
Return ==
    /\ pc = "failed"
    /\ stored.height >= 0 /\ applied < MaxApplied
    /\ pc' = "idle" /\ err' = "none"
    /\ EndLocals
    /\ retried' = TRUE
    /\ UNCHANGED <<mem, turns, disk>>

\* Mutant: OnLoadChain does not read the count of blocks.
RestartTurn ==
    /\ stored.height >= 0
    /\ candidates' = stored.candidates
    /\ rankMap' = Addresses(stored.candidates)
    /\ blocksBySame' = 0
    /\ turns' = NoTurns
    /\ err' = "none" /\ pc' = "idle" /\ applied' = stored.applied
    /\ EndLocals
    /\ UNCHANGED <<disk, retried>>

\* The process ends anywhere and starts again: OnLoadChain decodes the stored
\* table and rebuilds rankMap from it; without a stored chain the genesis block
\* is initialised again.
Restart ==
    /\ candidates' = stored.candidates
    /\ rankMap' = Addresses(stored.candidates)
    /\ blocksBySame' = stored.blocksBySame
    /\ turns' = NoTurns
    /\ err' = "none"
    /\ IF stored.height >= 0
       THEN /\ pc' = "idle" /\ applied' = stored.applied
            /\ EndLocals
       ELSE /\ applied' = 1 /\ block' = GenesisBlock /\ left' = 0
            /\ BeginUpdate(<<>>, GenesisBlock)
    /\ UNCHANGED <<disk, retried>>

Next ==
    \/ \E t \in 0..(Cardinality(Address) - 1), h \in HashSpace, c \in ChangesOf(accounts) : Begin(t, h, c)
    \/ ForwardCandidate
    \/ CountBlock
    \/ Clamp
    \/ \E a \in Address : UpdateAccount(a)
    \/ \E a \in Address : DeleteAccount(a)
    \/ EndUpdate
    \/ StoreBlock
    \/ StoreFails
    \/ Return
    \/ Restart

Spec == Init /\ [][Next]_vars

-----------------------------------------------------------------------------
(* Properties *)

Blocks == [timeout : Nat, hash : HashSpace \cup {0}, generator : Address \cup {0}, gap : Int,
           changes : UNION {[A -> Account] : A \in SUBSET Address}]

\* Types of the consensus state, of its saved form and of OnSaveData's locals.
TypeOK ==
    /\ candidates \in Seq(Rank)
    /\ rankMap \subseteq Address
    /\ blocksBySame \in Nat
    /\ applied \in Nat
    /\ turns \in [Address -> [Address -> Nat]]
    /\ accounts \in [Address -> Account]
    /\ stored \in [height : Int, candidates : Seq(Rank), blocksBySame : Nat, applied : Nat]
    /\ pc \in {"idle", "forward", "clamp", "accounts", "store", "failed"}
    /\ block \in Blocks
    /\ left \in Nat
    /\ phase \in Nat /\ maxPhase \in Nat
    /\ todo \subseteq Address
    /\ err \in Errors

\* Between any two iterations of OnSaveData's loops, when other goroutines may
\* read it, the table is strictly ascending, has no address twice, and rankMap
\* has exactly the addresses of the list.
TableWellFormed ==
    /\ Ascending(candidates)
    /\ DistinctAddresses(candidates)
    /\ rankMap = Addresses(candidates)

\* No candidate is more than two phases ahead of the one whose turn it is (or
\* MaxPhaseDiff, where that is larger), whatever timeouts, turns and account
\* changes the chain has seen.
PhaseSpread ==
    MaxPhaseDiff # 0 =>
        \A i \in DOMAIN candidates :
            candidates[i].phase <= candidates[1].phase + (IF MaxPhaseDiff > 2 THEN MaxPhaseDiff ELSE 2)

\* Between blocks the table holds the activated formulator accounts, each with
\* its present generator key, and no other, unless a caller has outlived a
\* failure.
TableIsActiveSet ==
    ~retried /\ pc = "idle" =>
        {<<candidates[i].addr, candidates[i].key>> : i \in DOMAIN candidates}
            = {<<a, accounts[a].key>> : a \in {b \in Address : accounts[b].status = "active"}}

\* When the timed-out candidates have been moved, the generator of the block is
\* the head, so that the turn it has begun is its own, as long as it was at most
\* one phase behind the first candidate.
GeneratorHoldsTurn ==
    pc = "forward" /\ left = 0 /\ block.gap <= 1 => candidates[1].addr = block.generator

\* While a candidate waits for its turn no other one finishes more than three.
BoundedBypass ==
    MaxPhaseDiff = Unlimited => \A a \in rankMap, b \in Address : turns[a][b] <= 3

\* Between blocks the in-memory table is the stored one: a node that restarts
\* agrees with one that kept running, unless that one has outlived a failure.
IdleTableIsStored ==
    ~retried /\ pc = "idle" => candidates = stored.candidates /\ blocksBySame = stored.blocksBySame

\* The stored table counts every stored block exactly once, unless a caller of
\* OnSaveData has outlived a failure.
BlocksCountedOnce == ~retried /\ stored.height >= 0 => stored.applied = stored.height + 1
=============================================================================
