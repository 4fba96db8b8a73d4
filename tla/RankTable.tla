----------------------------- MODULE RankTable -----------------------------
(***************************************************************************)
(* The rank table of the proof-of-formulator consensus (pof/rank.go,       *)
(* pof/rank_table.go): a list of ranks kept in ascending order, whose      *)
(* first entry is the formulator that generates the next block and whose   *)
(* entry number T is the one that generates it after T timeouts.           *)
(*                                                                         *)
(* A rank keeps the first four bytes of its hash space only: the score is  *)
(* phase * 2^32 + those bytes, so comparing scores is comparing (phase,    *)
(* bytes) lexicographically.  Addresses are numbers because Less breaks    *)
(* ties with bytes.Compare.                                                *)
(***************************************************************************)
EXTENDS Integers, Sequences

CONSTANTS Address,       \* formulator account addresses
          PublicHash,    \* generator keys
          HashSpace      \* values of the first four bytes of a hash

ASSUME RankTableAssumption == Address \subseteq Nat /\ HashSpace \subseteq Nat

Rank == [addr : Address, key : PublicHash, phase : Nat, hash : HashSpace]

-----------------------------------------------------------------------------
(* Rank *)

NewRank(addr, key, phase, hash) ==
    [addr |-> addr, key |-> key, phase |-> phase, hash |-> hash]

Less(a, b) ==
    \/ a.phase < b.phase
    \/ a.phase = b.phase /\ a.hash < b.hash
    \/ a.phase = b.phase /\ a.hash = b.hash /\ a.addr < b.addr

-----------------------------------------------------------------------------
(* The list.  sort.Search returns the first index whose rank is above s;   *)
(* it may be one past the end.                                             *)

SearchAbove(ranks, s) ==
    CHOOSE i \in 1..(Len(ranks) + 1) :
        /\ i <= Len(ranks) => Less(s, ranks[i])
        /\ \A j \in 1..(i - 1) : ~Less(s, ranks[j])

\* Mutant: the list is not searched.
AppendRankToList(ranks, s) == Append(ranks, s)

\* The append, copy and assignment that put s at place i, and the copy that leaves place i out.
PutAt(ranks, i, s) == SubSeq(ranks, 1, i - 1) \o <<s>> \o SubSeq(ranks, i, Len(ranks))

CutAt(ranks, i) == SubSeq(ranks, 1, i - 1) \o SubSeq(ranks, i + 1, Len(ranks))

InsertRankToList(ranks, s) == PutAt(ranks, SearchAbove(ranks, s), s)

\* What forwardCandidates and forwardTop do with the changed head.
ReinsertHead(ranks, head) == InsertRankToList(Tail(ranks), head)

Addresses(ranks) == {ranks[i].addr : i \in DOMAIN ranks}

IndexOf(ranks, addr) == CHOOSE i \in DOMAIN ranks : ranks[i].addr = addr

\* An address is in the list at most once (RankTableProofs).
RemoveRank(ranks, addr) ==
    IF addr \in Addresses(ranks)
    THEN CutAt(ranks, IndexOf(ranks, addr))
    ELSE ranks

SmallestPhase(ranks) == IF ranks = <<>> THEN 0 ELSE ranks[1].phase

LargestPhase(ranks) == IF ranks = <<>> THEN 0 ELSE ranks[Len(ranks)].phase

\* Mutants: a missed turn costs one phase, or three.
SkipHeadByOne(ranks) ==
    LET m == ranks[1] IN ReinsertHead(ranks, NewRank(m.addr, m.key, m.phase + 1, m.hash))

SkipHeadByThree(ranks) ==
    LET m == ranks[1] IN ReinsertHead(ranks, NewRank(m.addr, m.key, m.phase + 3, m.hash))

\* One iteration of forwardCandidates: the head missed its turn.
SkipHead(ranks) ==
    LET m == ranks[1] IN ReinsertHead(ranks, NewRank(m.addr, m.key, m.phase + 2, m.hash))

\* Mutant: a turn does not count.
PassHeadInPhase(ranks, hash) ==
    LET top == ranks[1] IN ReinsertHead(ranks, NewRank(top.addr, top.key, top.phase, hash))

\* forwardTop: the head has generated its blocks.
PassHead(ranks, hash) ==
    LET top == ranks[1] IN ReinsertHead(ranks, NewRank(top.addr, top.key, top.phase + 1, hash))

-----------------------------------------------------------------------------
(* The order the list must have *)

Ascending(ranks) ==
    \A i, j \in DOMAIN ranks : i < j => Less(ranks[i], ranks[j])

DistinctAddresses(ranks) ==
    \A i, j \in DOMAIN ranks : ranks[i].addr = ranks[j].addr => i = j
=============================================================================
