---------------------------- MODULE TurnProofs ----------------------------
(* Who is in the table of Consensus, who holds the turn, and how often a   *)
(* candidate that waits is passed; for every instance of the constants.    *)
EXTENDS ConsensusProofs

-----------------------------------------------------------------------------
(* The invariants *)

Actives(ranks, accs) ==
    \A a \in Address, k \in PublicHash : Entry(ranks, a, k) <=> accs[a].status = "active" /\ accs[a].key = k

\* The accounts as far as updateFormulatorList has come with the block.
Reached(accs, b, rest) ==
    [a \in Address |-> IF a \in DOMAIN b.changes \ rest THEN b.changes[a] ELSE accs[a]]

WalkInv ==
    /\ pc \in {"forward", "clamp", "accounts", "store"} =>
          \A a \in DOMAIN block.changes : block.changes[a] \in After(accounts[a])
    /\ stored.height < 0 => \A a \in Address : accounts[a].status = "unborn"
    /\ pc = "clamp" => todo = DOMAIN block.changes
    /\ pc = "accounts" => todo \subseteq DOMAIN block.changes
    /\ pc = "store" => todo = {}

ActiveInv ==
    ~retried =>
        /\ stored.height >= 0 => Actives(stored.candidates, accounts)
        /\ pc \in {"idle", "forward"} => Actives(candidates, accounts)
        /\ pc \in {"clamp", "accounts", "store"} => Actives(candidates, Reached(accounts, block, todo))

\* While the timed-out candidates are moved the generator comes up, place by place.
HeadInv ==
    pc = "forward" /\ block.gap <= 1 =>
        /\ left + 1 <= Len(candidates)
        /\ candidates[left + 1].addr = block.generator
        /\ candidates[left + 1].phase <= candidates[1].phase + 1

\* Each turn that q finishes while r waits takes q a phase nearer to overtaking it.
Waits(ranks, t) == \A q, r \in Ranks(ranks) : r.phase + t[r.addr][q.addr] <= q.phase + 2

Bypassed(ranks, t) ==
    /\ Waits(ranks, t)
    /\ \A a, b \in Address : t[a][b] <= 3
    /\ \A a \in Address, b \in Address \ Addresses(ranks) : t[a][b] = 0

BypassInv == MaxPhaseDiff = Unlimited => Bypassed(candidates, turns)

-----------------------------------------------------------------------------
(* The walk of updateFormulatorList *)

\* An account that no block has touched may become anything but gone.
LEMMA UnbornAfter ==
    ASSUME NEW acc, acc.status = "unborn", NEW k \in PublicHash
    PROVE  [status |-> "active", key |-> k] \in After(acc)
    BY DEF After

\* The genesis block creates its accounts.
LEMMA GenesisAfter ==
    ASSUME \A a \in Address : accounts[a].status = "unborn"
    PROVE  \A a \in DOMAIN GenesisBlock.changes : GenesisBlock.changes[a] \in After(accounts[a])
    <1>1. GenesisBlock.changes = [a \in DOMAIN Genesis |-> [status |-> "active", key |-> Genesis[a]]]
        BY DEF GenesisBlock
    <1>. SUFFICES ASSUME NEW a \in DOMAIN Genesis
                  PROVE  [status |-> "active", key |-> Genesis[a]] \in After(accounts[a])
        BY <1>1
    <1>2. a \in Address /\ Genesis[a] \in PublicHash
        BY ConsensusAssumption
    <1>. QED
        BY <1>2, UnbornAfter

\* InitGenesis starts with every account of the genesis block.
LEMMA WalkInit == Init => WalkInv
    <1>. SUFFICES ASSUME Init PROVE WalkInv
        OBVIOUS
    <1>1. \A a \in Address : accounts[a].status = "unborn"
        BY DEF Init
    <1>2. DOMAIN GenesisBlock.changes = DOMAIN Genesis
        BY DEF GenesisBlock
    <1>. QED
        BY <1>1, <1>2, GenesisAfter DEF Init, WalkInv

\* The walk goes through the accounts of the block and no others.
LEMMA WalkNext ==
    ASSUME IInv, WalkInv, [Next]_vars
    PROVE  WalkInv'
    <1>0. stored.height \in Int /\ stored.height >= -1
        BY DEF IInv, TypeOK, StoredInv
    <1>1. ASSUME NEW t, NEW h, NEW c \in ChangesOf(accounts), Begin(t, h, c)
          PROVE  WalkInv'
        <2>1. pc' = "forward" /\ block'.changes = c /\ UNCHANGED <<accounts, stored>>
            BY <1>1 DEF Begin, disk
        <2>2. \A a \in DOMAIN c : c[a] \in After(accounts[a])
            BY DEF ChangesOf
        <2>. QED
            BY <2>1, <2>2 DEF WalkInv
    <1>2. CASE ForwardCandidate
        BY <1>2 DEF ForwardCandidate, WalkInv, disk
    <1>3. CASE CountBlock
        BY <1>3 DEF CountBlock, BeginUpdate, WalkInv, disk
    <1>4. CASE Clamp
        <2>1. pc = "clamp" /\ pc' \in {"clamp", "accounts", "failed"} /\ UNCHANGED <<accounts, stored, block, todo>>
            BY <1>4 DEF Clamp, disk, locals
        <2>. QED
            BY <2>1 DEF WalkInv
    <1>5. ASSUME NEW a \in Address, UpdateAccount(a)
          PROVE  WalkInv'
        <2>1. /\ pc = "accounts" /\ pc' \in {"accounts", "failed"} /\ todo' = todo \ {a}
              /\ UNCHANGED <<accounts, stored, block>>
            BY <1>5 DEF UpdateAccount, disk
        <2>. QED
            BY <2>1 DEF WalkInv
    <1>6. ASSUME NEW a, DeleteAccount(a)
          PROVE  WalkInv'
        BY <1>6 DEF DeleteAccount, WalkInv, disk
    <1>7. CASE EndUpdate
        BY <1>7 DEF EndUpdate, WalkInv, disk, locals
    <1>8. CASE StoreBlock
        <2>1. pc' = "idle" /\ stored'.height = stored.height + 1
            BY <1>8 DEF StoreBlock
        <2>. QED
            BY <1>0, <2>1 DEF WalkInv
    <1>9. CASE StoreFails \/ Return
        <2>1. pc' \in {"failed", "idle"} /\ UNCHANGED <<accounts, stored>>
            BY <1>9 DEF StoreFails, Return, disk
        <2>. QED
            BY <2>1 DEF WalkInv
    <1>10. CASE Restart
        <2>1. CASE stored.height >= 0
            BY <1>0, <1>10, <2>1 DEF Restart, WalkInv, disk
        <2>2. CASE ~(stored.height >= 0)
            <3>1. \A a \in Address : accounts[a].status = "unborn"
                BY <1>0, <2>2 DEF WalkInv
            <3>2. /\ block' = GenesisBlock /\ todo' = DOMAIN GenesisBlock.changes /\ pc' = "clamp"
                  /\ UNCHANGED <<accounts, stored>>
                BY <1>10, <2>2 DEF Restart, BeginUpdate, disk
            <3>. QED
                BY <3>1, <3>2, GenesisAfter DEF WalkInv
        <2>. QED
            BY <2>1, <2>2
    <1>11. CASE UNCHANGED vars
        BY <1>11 DEF WalkInv, vars, disk, locals
    <1>. QED
        BY <1>1, <1>2, <1>3, <1>4, <1>5, <1>6, <1>7, <1>8, <1>9, <1>10, <1>11 DEF Next

-----------------------------------------------------------------------------
(* The table holds the active accounts *)

\* Two lists with the same entries.
LEMMA SameEntries ==
    ASSUME NEW s, NEW t, NEW accs, Actives(s, accs), \A a, k : Entry(t, a, k) <=> Entry(s, a, k)
    PROVE  Actives(t, accs)
    BY Zenon DEF Actives

\* Before the walk the accounts are those of the store, after it those the store will have.
LEMMA ReachedEnds ==
    ASSUME accounts \in [Address -> Account], NEW b
    PROVE  /\ Reached(accounts, b, DOMAIN b.changes) = accounts
           /\ Reached(accounts, b, {}) = [a \in Address |-> IF a \in DOMAIN b.changes THEN b.changes[a] ELSE accounts[a]]
    BY DEF Reached

\* One account of the walk.
LEMMA ReachedNext ==
    ASSUME NEW accs, NEW b, NEW rest \in SUBSET DOMAIN b.changes, NEW a \in rest, rest \subseteq Address
    PROVE  /\ Reached(accs, b, rest)[a] = accs[a]
           /\ Reached(accs, b, rest \ {a})[a] = b.changes[a]
           /\ \A x \in Address : x # a => Reached(accs, b, rest \ {a})[x] = Reached(accs, b, rest)[x]
    BY DEF Reached

\* No table and no accounts.
LEMMA EmptyActives ==
    ASSUME NEW accs, \A a \in Address : accs[a].status = "unborn"
    PROVE  Actives(<<>>, accs)
    BY EmptyTable DEF Actives, Entry

\* A clamped rank keeps its entry.
LEMMA ClampEntries ==
    ASSUME IInv, Clamp, pc' # "failed"
    PROVE  \A a, k : Entry(candidates', a, k) <=> Entry(candidates, a, k)
    <1>. DEFINE above == {i \in DOMAIN candidates : candidates[i].phase > maxPhase}
    <1>1. IsTable(candidates) /\ rankMap = Addresses(candidates) /\ maxPhase \in Nat /\ candidates \in Seq(Rank)
        BY DEF IInv, TableInv, TypeOK
    <1>2. CASE above = {}
        BY <1>2 DEF Clamp, mem
    <1>3. CASE above # {}
        <2>1. PICK i \in above : i = CHOOSE x \in above : \A y \in above : x <= y
            <3>1. above \subseteq Nat
                BY <1>1
            <3>2. \E x \in above : \A y \in above : x <= y
                <4>. HIDE DEF above
                <4>. QED
                    BY <1>3, <3>1, LeastNatural
            <3>. QED
                BY <3>2, Zenon
        <2>2. PICK r \in Rank : r = candidates[i] /\ r \in Ranks(candidates)
            <3>1. i \in DOMAIN candidates
                BY <2>1
            <3>2. candidates[i] \in Rank
                BY <1>1, <3>1
            <3>. QED
                BY <3>1, <3>2, Zenon DEF Ranks
        <2>3. PICK new \in Rank : /\ new = NewRank(r.addr, r.key, maxPhase, r.hash)
                                  /\ new.addr = r.addr /\ new.key = r.key
            BY <1>1, RankFields, NewRankFields
        <2>4. PICK rest : rest = RemoveRank(candidates, r.addr)
            OBVIOUS
        <2>5. IsTable(rest) /\ new.addr \notin Addresses(rest)
            BY <1>1, <2>3, <2>4, RemoveProperties, AddressesAfter
        <2>6. candidates' = InsertRankToList(rest, new)
            <3>1. PICK e : e = AddError(rest, rankMap \ {r.addr}, new)
                OBVIOUS
            <3>2. /\ pc' = IF e = "none" THEN "clamp" ELSE "failed"
                  /\ candidates' = IF e = "none" THEN InsertRankToList(rest, new) ELSE rest
                BY <1>3, <2>1, <2>2, <2>3, <2>4, <3>1, Zenon DEF Clamp
            <3>. QED
                BY <3>2
        <2>7. \A a, k : Entry(candidates', a, k) <=> Entry(rest, a, k) \/ (a = new.addr /\ k = new.key)
            BY <2>5, <2>6, InsertedEntry
        <2>8. \A a, k : Entry(rest, a, k) <=> Entry(candidates, a, k) /\ a # r.addr
            BY <1>1, <2>4, RemovedEntry
        <2>9. \A k : Entry(candidates, r.addr, k) <=> k = r.key
            BY <1>1, <2>2, OneRankPerAddress, Zenon DEF Entry
        <2>. QED
            BY <2>3, <2>7, <2>8, <2>9, Zenon
    <1>. QED
        BY <1>2, <1>3
\* One account of the walk: whatever the table had for it, it has the account's
\* entry afterwards if the account is active, and the other entries stay.
LEMMA UpdateEntries ==
    ASSUME IInv, WalkInv, NEW a \in Address, UpdateAccount(a), pc' # "failed",
           \A k \in PublicHash : Entry(candidates, a, k) <=> accounts[a].status = "active" /\ accounts[a].key = k
    PROVE  /\ \A k \in PublicHash :
                Entry(candidates', a, k) <=> block.changes[a].status = "active" /\ block.changes[a].key = k
           /\ \A x \in Address, k \in PublicHash : x # a => (Entry(candidates', x, k) <=> Entry(candidates, x, k))
    <1>. DEFINE acc == block.changes[a]
    <1>1. IsTable(candidates) /\ rankMap = Addresses(candidates) /\ phase \in Nat
        BY DEF IInv, TableInv, TypeOK
    <1>2. acc \in Account /\ AddressHash[a] \in HashSpace /\ accounts[a] \in Account
        <2>1. block \in Blocks /\ accounts \in [Address -> Account]
            BY DEF IInv, TypeOK
        <2>2. a \in DOMAIN block.changes
            BY DEF UpdateAccount, Present
        <2>. QED
            BY <2>1, <2>2, ChangesTypes, ConsensusAssumption
    <1>3. /\ acc.status \in {"active", "revoked"} /\ acc.key \in PublicHash
          /\ accounts[a].status \in {"unborn", "active", "revoked"} /\ accounts[a].key \in PublicHash
        <2>1. acc \in After(accounts[a])
            BY DEF UpdateAccount, Present, WalkInv
        <2>2. acc.status # "gone"
            BY DEF UpdateAccount, Present
        <2>. QED
            BY <1>2, <2>1, <2>2 DEF After, Account, Status
    <1>4. PICK rank \in Rank : rank = NewRank(a, acc.key, phase, AddressHash[a]) /\ rank.addr = a /\ rank.key = acc.key
        BY <1>1, <1>2, <1>3, NewRankFields
    <1>5. PICK rest : rest = IF Removes(a) THEN RemoveRank(candidates, a) ELSE candidates
        OBVIOUS
    <1>6. PICK restMap : restMap = IF Removes(a) THEN rankMap \ {a} ELSE rankMap
        OBVIOUS
    <1>7. IsTable(rest) /\ Addresses(rest) = restMap
        BY <1>1, <1>5, <1>6, RemoveProperties, AddressesAfter
    <1>8. /\ candidates' = IF Adds(a) THEN InsertRankToList(rest, rank) ELSE rest
          /\ Adds(a) => rank.addr \notin Addresses(rest)
        <2>1. PICK e : e = IF Adds(a) THEN AddError(rest, restMap, rank) ELSE "none"
            OBVIOUS
        <2>2. /\ candidates' = IF Adds(a) /\ e = "none" THEN InsertRankToList(rest, rank) ELSE rest
              /\ pc' = IF e = "none" THEN "accounts" ELSE "failed"
            BY <1>4, <1>5, <1>6, <2>1, Zenon DEF UpdateAccount
        <2>3. e = "none"
            BY <2>2
        <2>4. Adds(a) => rank.addr \notin restMap
            BY <2>1, <2>3 DEF AddError
        <2>. QED
            BY <1>7, <2>2, <2>3, <2>4
    <1>9. \A x, k : Entry(rest, x, k) <=> Entry(candidates, x, k) /\ ~(Removes(a) /\ x = a)
        <2>1. \A x, k : Entry(RemoveRank(candidates, a), x, k) <=> Entry(candidates, x, k) /\ x # a
            BY <1>1, RemovedEntry
        <2>. QED
            BY <1>5, <2>1, Zenon
    <1>10. \A x, k : Entry(candidates', x, k) <=> Entry(rest, x, k) \/ (Adds(a) /\ x = a /\ k = acc.key)
        <2>1. CASE Adds(a)
            BY <1>4, <1>7, <1>8, <2>1, InsertedEntry
        <2>2. CASE ~Adds(a)
            BY <1>8, <2>2
        <2>. QED
            BY <2>1, <2>2
    <1>11. a \in rankMap <=> accounts[a].status = "active"
        BY <1>1, <1>3, EntryOfAddress
    <1>12. accounts[a].status = "active" => candidates[IndexOf(candidates, a)].key = accounts[a].key
        <2>1. accounts[a].status = "active" => Entry(candidates, a, accounts[a].key) /\ a \in Addresses(candidates)
            BY <1>1, <1>3, <1>11
        <2>. QED
            BY <1>1, <2>1, EntryOfAddress
    <1>13. Removes(a) <=> accounts[a].status = "active" /\ (acc.status = "revoked" \/ accounts[a].key # acc.key)
        BY <1>3, <1>11, <1>12 DEF Removes
    <1>14. Adds(a) <=> acc.status = "active" /\ (accounts[a].status # "active" \/ Removes(a))
        BY <1>3, <1>11 DEF Adds
    <1>. HIDE DEF acc
    <1>15. ASSUME NEW k \in PublicHash
           PROVE  Entry(candidates', a, k) <=> acc.status = "active" /\ acc.key = k
        <2>1. Entry(candidates', a, k) <=>
                 \/ (accounts[a].status = "active" /\ accounts[a].key = k) /\ ~Removes(a)
                 \/ Adds(a) /\ k = acc.key
            BY <1>9, <1>10
        <2>. QED
            BY <1>3, <1>13, <1>14, <2>1
    <1>16. \A x \in Address, k \in PublicHash : x # a => (Entry(candidates', x, k) <=> Entry(candidates, x, k))
        BY <1>9, <1>10, Zenon
    <1>. QED
        BY <1>15, <1>16 DEF acc

\* A step of the walk keeps the table and the accounts reached in agreement.
LEMMA WalkedActives ==
    ASSUME NEW s, NEW t, NEW accs, NEW b, NEW rest \in SUBSET DOMAIN b.changes, NEW a \in rest, rest \subseteq Address,
           Actives(s, Reached(accs, b, rest)),
           \A k \in PublicHash : Entry(t, a, k) <=> b.changes[a].status = "active" /\ b.changes[a].key = k,
           \A x \in Address, k \in PublicHash : x # a => (Entry(t, x, k) <=> Entry(s, x, k))
    PROVE  Actives(t, Reached(accs, b, rest \ {a}))
    <1>1. /\ Reached(accs, b, rest \ {a})[a] = b.changes[a]
          /\ \A x \in Address : x # a => Reached(accs, b, rest \ {a})[x] = Reached(accs, b, rest)[x]
        BY ReachedNext
    <1>. SUFFICES ASSUME NEW x \in Address, NEW k \in PublicHash
                  PROVE  Entry(t, x, k) <=> /\ Reached(accs, b, rest \ {a})[x].status = "active"
                                           /\ Reached(accs, b, rest \ {a})[x].key = k
        BY Zenon DEF Actives
    <1>2. CASE x = a
        BY <1>1, <1>2
    <1>3. CASE x # a
        <2>1. Entry(s, x, k) <=> /\ Reached(accs, b, rest)[x].status = "active"
                                /\ Reached(accs, b, rest)[x].key = k
            BY Zenon DEF Actives
        <2>. QED
            BY <1>1, <1>3, <2>1
    <1>. QED
        BY <1>2, <1>3

\* The accounts of the block, one after the other.
LEMMA ActiveUpdate ==
    ASSUME IInv, WalkInv, ActiveInv, NEW a \in Address, UpdateAccount(a) \/ DeleteAccount(a)
    PROVE  ActiveInv'
    <1>1. /\ pc = "accounts" /\ todo' = todo \ {a} /\ pc' \in {"accounts", "failed"} /\ a \in todo
          /\ UNCHANGED <<accounts, stored, retried, block>>
        BY DEF UpdateAccount, DeleteAccount, disk
    <1>2. todo \in SUBSET DOMAIN block.changes /\ todo \subseteq Address
        BY <1>1 DEF WalkInv, IInv, TypeOK
    <1>3. CASE retried \/ pc' = "failed"
        BY <1>1, <1>3 DEF ActiveInv
    <1>4. CASE ~retried /\ pc' # "failed"
        <2>1. Actives(candidates, Reached(accounts, block, todo))
            BY <1>1, <1>4 DEF ActiveInv
        <2>2. \A k \in PublicHash : Entry(candidates, a, k) <=> accounts[a].status = "active" /\ accounts[a].key = k
            <3>1. Reached(accounts, block, todo)[a] = accounts[a]
                BY <1>1, <1>2, ReachedNext
            <3>. QED
                BY <2>1, <3>1 DEF Actives
        <2>3. /\ \A k \in PublicHash :
                    Entry(candidates', a, k) <=> block.changes[a].status = "active" /\ block.changes[a].key = k
              /\ \A x \in Address, k \in PublicHash : x # a => (Entry(candidates', x, k) <=> Entry(candidates, x, k))
            <3>1. CASE UpdateAccount(a)
                BY <1>4, <2>2, <3>1, UpdateEntries
            <3>2. CASE DeleteAccount(a)
                <4>1. IsTable(candidates) /\ candidates' = RemoveRank(candidates, a)
                    BY <3>2 DEF DeleteAccount, IInv, TableInv
                <4>2. \A x, k : Entry(candidates', x, k) <=> Entry(candidates, x, k) /\ x # a
                    BY <4>1, RemovedEntry
                <4>3. block.changes[a].status = "gone"
                    BY <1>1, <1>2, <3>2 DEF DeleteAccount, Present
                <4>. QED
                    BY <4>2, <4>3
            <3>. QED
                BY <3>1, <3>2
        <2>4. Actives(candidates', Reached(accounts, block, todo \ {a}))
            BY <1>1, <1>2, <2>1, <2>3, WalkedActives
        <2>. QED
            BY <1>1, <1>4, <2>4 DEF ActiveInv
    <1>. QED
        BY <1>3, <1>4
\* InitGenesis starts from an empty table.
LEMMA ActiveInit == Init => ActiveInv
    <1>. SUFFICES ASSUME Init PROVE ActiveInv
        OBVIOUS
    <1>1. accounts \in [Address -> Account] /\ \A a \in Address : accounts[a].status = "unborn"
        BY InitInv DEF Init, IInv, TypeOK
    <1>2. /\ pc = "clamp" /\ candidates = <<>> /\ stored.height = -1
          /\ todo = DOMAIN block.changes
        BY DEF Init, NotStored, GenesisBlock
    <1>3. Reached(accounts, block, todo) = accounts
        BY <1>1, <1>2, ReachedEnds
    <1>4. Actives(candidates, accounts)
        BY <1>1, <1>2, EmptyActives
    <1>. QED
        BY <1>2, <1>3, <1>4 DEF ActiveInv

\* The moves of the head and the clamp change no entry.
LEMMA ActiveMoves ==
    ASSUME IInv, WalkInv, ActiveInv, ForwardCandidate \/ CountBlock \/ Clamp
    PROVE  ActiveInv'
    <1>1. IsTable(candidates) /\ accounts \in [Address -> Account]
        BY DEF IInv, TableInv, TypeOK
    <1>2. UNCHANGED <<accounts, stored, retried, block>>
        BY DEF ForwardCandidate, CountBlock, Clamp, disk, locals
    <1>3. CASE ForwardCandidate
        <2>1. /\ pc = "forward" /\ pc' = "forward" /\ candidates' = SkipHead(candidates)
              /\ candidates # <<>>
            BY <1>3 DEF ForwardCandidate, IInv, PcInv
        <2>2. \A a, k : Entry(candidates', a, k) <=> Entry(candidates, a, k)
            BY <1>1, <2>1, SkippedEntry
        <2>3. ~retried => Actives(candidates', accounts)
            BY <2>1, <2>2, SameEntries DEF ActiveInv
        <2>. QED
            BY <1>2, <2>1, <2>3 DEF ActiveInv
    <1>4. CASE CountBlock
        <2>1. /\ pc = "forward" /\ pc' = "clamp" /\ todo' = DOMAIN block.changes
              /\ candidates' = PassHead(candidates, block.hash) \/ candidates' = candidates
              /\ candidates # <<>> /\ block.hash \in HashSpace
            BY <1>4 DEF CountBlock, BeginUpdate, IInv, PcInv
        <2>2. \A a, k : Entry(candidates', a, k) <=> Entry(candidates, a, k)
            BY <1>1, <2>1, SkippedEntry
        <2>3. ~retried => Actives(candidates', accounts)
            BY <2>1, <2>2, SameEntries DEF ActiveInv
        <2>4. Reached(accounts, block, todo') = accounts
            BY <1>1, <2>1, ReachedEnds
        <2>. QED
            BY <1>2, <2>1, <2>3, <2>4 DEF ActiveInv
    <1>5. CASE Clamp
        <2>1. pc = "clamp" /\ pc' \in {"clamp", "accounts", "failed"} /\ UNCHANGED todo
            BY <1>5 DEF Clamp, locals
        <2>2. CASE pc' = "failed" \/ retried
            BY <1>2, <2>2 DEF ActiveInv
        <2>3. CASE pc' # "failed" /\ ~retried
            <3>1. \A a, k : Entry(candidates', a, k) <=> Entry(candidates, a, k)
                BY <1>5, <2>3, ClampEntries
            <3>2. Actives(candidates', Reached(accounts, block, todo))
                BY <2>1, <2>3, <3>1, SameEntries DEF ActiveInv
            <3>. QED
                BY <1>2, <2>1, <3>2 DEF ActiveInv
        <2>. QED
            BY <2>2, <2>3
    <1>. QED
        BY <1>3, <1>4, <1>5

\* The store takes the accounts of the block together with the table.
LEMMA ActiveStore ==
    ASSUME IInv, WalkInv, ActiveInv, StoreBlock
    PROVE  ActiveInv'
    <1>1. accounts \in [Address -> Account]
        BY DEF IInv, TypeOK
    <1>2. /\ pc = "store" /\ pc' = "idle" /\ todo = {}
          /\ stored'.candidates = candidates /\ candidates' = candidates /\ retried' = retried
        BY DEF StoreBlock, WalkInv, mem
    <1>3. accounts' = Reached(accounts, block, todo)
        BY <1>1, <1>2, ReachedEnds DEF StoreBlock
    <1>. QED
        BY <1>2, <1>3 DEF ActiveInv

\* OnLoadChain finds the table that was stored with the accounts.
LEMMA ActiveRestart ==
    ASSUME IInv, WalkInv, ActiveInv, Restart
    PROVE  ActiveInv'
    <1>1. /\ stored.height \in Int /\ accounts \in [Address -> Account]
          /\ candidates' = stored.candidates /\ UNCHANGED <<accounts, stored, retried>>
        BY DEF Restart, IInv, TypeOK, disk
    <1>2. CASE stored.height >= 0
        <2>1. pc' = "idle"
            BY <1>2 DEF Restart
        <2>. QED
            BY <1>1, <1>2, <2>1 DEF ActiveInv
    <1>3. CASE ~(stored.height >= 0)
        <2>1. pc' = "clamp" /\ todo' = DOMAIN block'.changes
            BY <1>3 DEF Restart, BeginUpdate
        <2>2. stored.candidates = <<>> /\ \A a \in Address : accounts[a].status = "unborn"
            BY <1>1, <1>3 DEF IInv, StoredInv, WalkInv
        <2>3. Reached(accounts, block', todo') = accounts
            BY <1>1, <2>1, ReachedEnds
        <2>4. Actives(candidates', accounts)
            BY <1>1, <2>2, EmptyActives
        <2>. QED
            BY <1>1, <1>3, <2>1, <2>3, <2>4 DEF ActiveInv
    <1>. QED
        BY <1>2, <1>3

\* Every step keeps the table and the accounts in agreement.
LEMMA ActiveNext ==
    ASSUME IInv, WalkInv, ActiveInv, [Next]_vars
    PROVE  ActiveInv'
    <1>1. ASSUME NEW t, NEW h, NEW c, Begin(t, h, c)
          PROVE  ActiveInv'
        <2>1. pc = "idle" /\ pc' = "forward" /\ UNCHANGED <<candidates, accounts, stored, retried>>
            BY <1>1, Zenon DEF Begin, disk
        <2>. QED
            BY <2>1 DEF ActiveInv
    <1>2. CASE EndUpdate
        <2>1. /\ pc = "accounts" /\ pc' \in {"failed", "store"}
              /\ UNCHANGED <<candidates, accounts, stored, retried, block, todo>>
            BY <1>2 DEF EndUpdate, mem, disk, locals
        <2>. QED
            BY <2>1 DEF ActiveInv
    <1>3. CASE StoreFails
        <2>1. pc' = "failed" /\ UNCHANGED <<accounts, stored, retried>>
            BY <1>3 DEF StoreFails, disk
        <2>. QED
            BY <2>1 DEF ActiveInv
    <1>4. CASE Return
        BY <1>4 DEF Return, ActiveInv
    <1>5. CASE UNCHANGED vars
        BY <1>5 DEF ActiveInv, vars, mem, disk, locals
    <1>. QED
        BY <1>1, <1>2, <1>3, <1>4, <1>5, ActiveUpdate, ActiveMoves, ActiveStore, ActiveRestart DEF Next

\* Between blocks the table holds exactly the active formulator accounts with their
\* generator keys, after every block that creates, revokes, merges or re-keys
\* accounts, and after every restart, until a caller outlives a failure.
THEOREM TableAlwaysActiveSet == Spec => []TableIsActiveSet
    <1>1. IInv /\ WalkInv /\ [Next]_vars => WalkInv'
        BY WalkNext
    <1>2. IInv /\ WalkInv /\ ActiveInv /\ [Next]_vars => ActiveInv'
        BY ActiveNext
    <1>3. IInv /\ ActiveInv => TableIsActiveSet
        <2>. SUFFICES ASSUME IInv, ActiveInv, ~retried, pc = "idle"
                      PROVE  {<<candidates[i].addr, candidates[i].key>> : i \in DOMAIN candidates}
                                = {<<a, accounts[a].key>> : a \in {b \in Address : accounts[b].status = "active"}}
            BY DEF TableIsActiveSet
        <2>1. Actives(candidates, accounts) /\ candidates \in Seq(Rank) /\ accounts \in [Address -> Account]
            BY DEF ActiveInv, IInv, TypeOK
        <2>2. ASSUME NEW i \in DOMAIN candidates
              PROVE  \E a \in Address : /\ accounts[a].status = "active"
                                        /\ <<candidates[i].addr, candidates[i].key>> = <<a, accounts[a].key>>
            <3>1. candidates[i] \in Rank /\ candidates[i] \in Ranks(candidates)
                BY <2>1 DEF Ranks
            <3>2. candidates[i].addr \in Address /\ candidates[i].key \in PublicHash
                BY <3>1, RankFields
            <3>3. Entry(candidates, candidates[i].addr, candidates[i].key)
                BY <3>1, Zenon DEF Entry
            <3>. QED
                BY <2>1, <3>2, <3>3 DEF Actives
        <2>3. ASSUME NEW a \in Address, accounts[a].status = "active"
              PROVE  \E i \in DOMAIN candidates : <<candidates[i].addr, candidates[i].key>> = <<a, accounts[a].key>>
            <3>1. accounts[a].key \in PublicHash
                BY <2>1 DEF Account
            <3>2. Entry(candidates, a, accounts[a].key)
                BY <2>1, <2>3, <3>1 DEF Actives
            <3>. QED
                BY <3>2, Zenon DEF Entry, Ranks
        <2>. QED
            BY <2>2, <2>3
    <1>. QED
        BY <1>1, <1>2, <1>3, WalkInit, ActiveInit, Invariance, PTL DEF Spec
-----------------------------------------------------------------------------
(* The generator of a block holds the turn *)

\* The generator is at the place of its timeout, and comes up by one place for each
\* candidate that is moved.
LEMMA HeadNext ==
    ASSUME IInv, HeadInv, [Next]_vars
    PROVE  HeadInv'
    <1>0. candidates \in Seq(Rank) /\ IsTable(candidates) /\ left \in Nat
        BY DEF IInv, TypeOK, TableInv
    <1>1. ASSUME NEW t \in 0..(Cardinality(Address) - 1), NEW h, NEW c, Begin(t, h, c)
          PROVE  HeadInv'
        <2>1. t \in Nat
            BY ConsensusAssumption, FS_CardinalityType
        <2>2. /\ t < Len(candidates) /\ candidates' = candidates /\ left' = t
              /\ block'.generator = candidates[t + 1].addr
              /\ block'.gap = candidates[t + 1].phase - candidates[1].phase
            BY <1>1 DEF Begin
        <2>3. candidates[t + 1] \in Rank /\ candidates[1] \in Rank
            BY <1>0, <2>1, <2>2
        <2>4. candidates[t + 1].phase \in Nat /\ candidates[1].phase \in Nat
            BY <2>3, RankFields
        <2>5. block'.gap <= 1 => candidates[t + 1].phase <= candidates[1].phase + 1
            BY <2>2, <2>4
        <2>. QED
            BY <1>0, <2>1, <2>2, <2>5 DEF HeadInv
    <1>2. CASE ForwardCandidate
        <2>1. /\ pc = "forward" /\ left > 0 /\ left' = left - 1 /\ candidates' = SkipHead(candidates)
              /\ UNCHANGED block
            BY <1>2 DEF ForwardCandidate
        <2>. SUFFICES ASSUME block.gap <= 1
                      PROVE  /\ left <= Len(candidates')
                             /\ candidates'[left].addr = block.generator
                             /\ candidates'[left].phase <= candidates'[1].phase + 1
            BY <1>0, <2>1 DEF HeadInv
        <2>2. /\ left + 1 <= Len(candidates) /\ candidates[left + 1].addr = block.generator
              /\ candidates[left + 1].phase <= candidates[1].phase + 1
            BY <2>1 DEF HeadInv
        <2>3. candidates'[1] = candidates[2] /\ candidates'[left] = candidates[left + 1]
            BY <1>0, <2>1, <2>2, SkippedPlaces
        <2>4. Len(candidates') = Len(candidates)
            BY <1>0, <2>1, <2>2, SkipProperties
        <2>5. candidates[1].phase <= candidates[2].phase
            <3>1. candidates # <<>> /\ candidates[2] \in Ranks(candidates)
                BY <1>0, <2>1, <2>2 DEF Ranks
            <3>. QED
                BY <1>0, <3>1, HeadIsLeast
        <2>6. candidates[1] \in Rank /\ candidates[2] \in Rank /\ candidates[left + 1] \in Rank
            BY <1>0, <2>1, <2>2
        <2>7. candidates[1].phase \in Nat /\ candidates[2].phase \in Nat /\ candidates[left + 1].phase \in Nat
            BY <2>6, RankFields
        <2>8. candidates[left + 1].phase <= candidates[2].phase + 1
            BY <2>2, <2>5, <2>7
        <2>. QED
            BY <1>0, <2>2, <2>3, <2>4, <2>8
    <1>3. CASE CountBlock
        BY <1>3 DEF CountBlock, BeginUpdate, HeadInv
    <1>4. CASE Clamp \/ EndUpdate \/ StoreBlock \/ StoreFails \/ Return \/ Restart
        <2>1. pc' # "forward"
            BY <1>4 DEF Clamp, EndUpdate, StoreBlock, StoreFails, Return, Restart, BeginUpdate
        <2>. QED
            BY <2>1 DEF HeadInv
    <1>5. ASSUME NEW a, UpdateAccount(a) \/ DeleteAccount(a)
          PROVE  HeadInv'
        <2>1. pc' # "forward"
            BY <1>5 DEF UpdateAccount, DeleteAccount
        <2>. QED
            BY <2>1 DEF HeadInv
    <1>6. CASE UNCHANGED vars
        BY <1>6 DEF HeadInv, vars, mem, locals
    <1>. QED
        BY <1>1, <1>2, <1>3, <1>4, <1>5, <1>6 DEF Next

\* Whatever candidates timed out, the turn that a block opens is that of its own
\* generator, unless the generator was more than a phase behind the first candidate.
THEOREM GeneratorAlwaysHoldsTurn == Spec => []GeneratorHoldsTurn
    <1>1. Init => HeadInv
        BY DEF Init, HeadInv
    <1>2. IInv /\ HeadInv /\ [Next]_vars => HeadInv'
        BY HeadNext
    <1>3. HeadInv => GeneratorHoldsTurn
        BY DEF HeadInv, GeneratorHoldsTurn
    <1>. QED
        BY <1>1, <1>2, <1>3, Invariance, PTL DEF Spec
-----------------------------------------------------------------------------
(* How often a candidate is passed *)

Turns == [Address -> [Address -> Nat]]

\* The fields of two ranks of a table.
LEMMA PairFields ==
    ASSUME NEW s, IsTable(s), NEW q \in Ranks(s), NEW r \in Ranks(s), NEW t \in Turns
    PROVE  /\ q.addr \in Address /\ r.addr \in Address /\ q.phase \in Nat /\ r.phase \in Nat
           /\ t[r.addr][q.addr] \in Nat
    <1>1. q \in Rank /\ r \in Rank
        BY OneRankPerAddress
    <1>2. q.addr \in Address /\ r.addr \in Address /\ q.phase \in Nat /\ r.phase \in Nat
        BY <1>1, RankFields
    <1>. QED
        BY <1>2 DEF Turns

\* Two candidates are at most two phases apart when phases are not capped.
LEMMA TwoPhases ==
    ASSUME MaxPhaseDiff = Unlimited, NEW s, Close(s), NEW q \in Ranks(s), NEW r \in Ranks(s)
    PROVE  r.phase <= q.phase + 2
    BY DEF Close, Bound, Unlimited

\* A candidate that is removed, clamped or added starts to wait, and to be waited for, anew.
LEMMA RestartedBypass ==
    ASSUME MaxPhaseDiff = Unlimited, NEW s, IsTable(s), NEW u, IsTable(u), Close(u), NEW t \in Turns, Bypassed(s, t),
           NEW a, \A r \in Ranks(u) : r \in Ranks(s) \/ r.addr = a,
           Addresses(s) \ {a} \subseteq Addresses(u)
    PROVE  Bypassed(u, Restarted(t, a))
    <1>1. \A x, y \in Address : Restarted(t, a)[x][y] = IF x = a \/ y = a THEN 0 ELSE t[x][y]
        BY DEF Restarted
    <1>2. ASSUME NEW q \in Ranks(u), NEW r \in Ranks(u)
          PROVE  r.phase + Restarted(t, a)[r.addr][q.addr] <= q.phase + 2
        <2>1. q.addr \in Address /\ r.addr \in Address /\ q.phase \in Nat /\ r.phase \in Nat
            BY <1>2, PairFields
        <2>2. CASE r.addr = a \/ q.addr = a
            <3>1. Restarted(t, a)[r.addr][q.addr] = 0
                BY <1>1, <2>1, <2>2
            <3>2. r.phase <= q.phase + 2
                BY <1>2, TwoPhases
            <3>. QED
                BY <2>1, <3>1, <3>2
        <2>3. CASE ~(r.addr = a \/ q.addr = a)
            <3>1. Restarted(t, a)[r.addr][q.addr] = t[r.addr][q.addr]
                BY <1>1, <2>1, <2>3
            <3>2. q \in Ranks(s) /\ r \in Ranks(s)
                BY <2>3
            <3>. QED
                BY <3>1, <3>2 DEF Bypassed, Waits
        <2>. QED
            BY <2>2, <2>3
    <1>3. \A x, y \in Address : Restarted(t, a)[x][y] <= 3
        BY <1>1 DEF Bypassed
    <1>4. \A x \in Address, y \in Address \ Addresses(u) : Restarted(t, a)[x][y] = 0
        BY <1>1 DEF Bypassed
    <1>. QED
        BY <1>2, <1>3, <1>4 DEF Bypassed, Waits

\* A candidate that missed its turn has had it.
LEMMA ServedBypass ==
    ASSUME MaxPhaseDiff = Unlimited, NEW s, IsTable(s), Close(s), s # <<>>, NEW t \in Turns, Bypassed(s, t)
    PROVE  Bypassed(SkipHead(s), Served(t, s[1].addr))
    <1>1. PICK u : u = SkipHead(s)
        OBVIOUS
    <1>2. PICK h \in Rank : /\ h.addr = s[1].addr /\ h.phase = s[1].phase + 2
                            /\ Ranks(u) = {r \in Ranks(s) : r.addr # h.addr} \cup {h}
        BY <1>1, SkipProperties
    <1>3. IsTable(u) /\ Close(u) /\ Addresses(u) = Addresses(s)
        BY <1>1, SkipProperties, SkipClose
    <1>4. PICK v : v = Served(t, h.addr)
        OBVIOUS
    <1>5. \A x, y \in Address : v[x][y] = IF x = h.addr THEN 0 ELSE t[x][y]
        BY <1>4 DEF Served
    <1>6. s[1] \in Ranks(s)
        BY HeadIsLeast
    <1>7. ASSUME NEW q \in Ranks(u), NEW r \in Ranks(u)
          PROVE  r.phase + v[r.addr][q.addr] <= q.phase + 2
        <2>1. q.addr \in Address /\ r.addr \in Address /\ q.phase \in Nat /\ r.phase \in Nat
            BY <1>3, <1>7, PairFields
        <2>2. CASE r = h
            <3>1. v[r.addr][q.addr] = 0 /\ r.phase <= q.phase + 2
                BY <1>3, <1>5, <1>7, <2>1, <2>2, TwoPhases
            <3>. QED
                BY <2>1, <3>1
        <2>3. CASE r # h
            <3>1. r \in Ranks(s) /\ r.addr # h.addr /\ v[r.addr][q.addr] = t[r.addr][q.addr]
                BY <1>2, <1>5, <2>1, <2>3
            <3>2. CASE q \in Ranks(s)
                BY <3>1, <3>2 DEF Bypassed, Waits
            <3>3. CASE q = h
                <4>1. r.phase + t[r.addr][s[1].addr] <= s[1].phase + 2
                    BY <1>6, <3>1 DEF Bypassed, Waits
                <4>2. s[1].phase \in Nat /\ t[r.addr][s[1].addr] \in Nat
                    BY <1>6, <3>1, PairFields
                <4>3. PICK n \in Nat, m \in Nat : n = t[r.addr][s[1].addr] /\ m = s[1].phase
                    BY <4>2
                <4>4. v[r.addr][q.addr] = n /\ q.phase = m + 2
                    BY <1>2, <3>1, <3>3, <4>3
                <4>5. r.phase + n <= m + 2
                    BY <4>1, <4>3
                <4>. QED
                    BY <2>1, <4>4, <4>5
            <3>. QED
                BY <1>2, <3>2, <3>3
        <2>. QED
            BY <2>2, <2>3
    <1>8. \A x, y \in Address : v[x][y] <= 3
        BY <1>5 DEF Bypassed
    <1>9. \A x \in Address, y \in Address \ Addresses(u) : v[x][y] = 0
        BY <1>3, <1>5 DEF Bypassed
    <1>. QED
        BY <1>1, <1>2, <1>4, <1>7, <1>8, <1>9 DEF Bypassed, Waits

\* A candidate that finishes a turn before others was no phase above them.
LEMMA FinishedBypass ==
    ASSUME MaxPhaseDiff = Unlimited, NEW s, IsTable(s), Close(s), s # <<>>, NEW t \in Turns, Bypassed(s, t),
           NEW hash \in HashSpace
    PROVE  Bypassed(PassHead(s, hash), Finished(t, s[1].addr, Addresses(s)))
    <1>1. PICK u : u = PassHead(s, hash)
        OBVIOUS
    <1>2. PICK h \in Rank : /\ h.addr = s[1].addr /\ h.phase = s[1].phase + 1
                            /\ Ranks(u) = {r \in Ranks(s) : r.addr # h.addr} \cup {h}
        BY <1>1, PassProperties
    <1>3. IsTable(u) /\ Close(u) /\ Addresses(u) = Addresses(s)
        BY <1>1, PassProperties, PassClose
    <1>4. PICK v : v = Finished(t, h.addr, Addresses(s))
        OBVIOUS
    <1>5. \A x, y \in Address : v[x][y] = IF x = h.addr THEN 0
                                         ELSE IF y = h.addr /\ x \in Addresses(s) THEN t[x][y] + 1 ELSE t[x][y]
        BY <1>4 DEF Finished
    <1>6. s[1] \in Ranks(s) /\ h.addr \in Addresses(s) /\ \A r \in Ranks(s) : s[1].phase <= r.phase
        BY <1>2, HeadIsLeast, OneRankPerAddress
    <1>7. ASSUME NEW r \in Ranks(s)
          PROVE  /\ r.phase + t[r.addr][h.addr] <= s[1].phase + 2 /\ s[1].phase <= r.phase
                 /\ s[1].phase \in Nat /\ t[r.addr][h.addr] \in Nat /\ r.phase \in Nat
                 /\ r.addr \in Address /\ r.addr \in Addresses(s)
        <2>1. r.phase + t[r.addr][s[1].addr] <= s[1].phase + 2
            BY <1>6, <1>7 DEF Bypassed, Waits
        <2>. QED
            BY <1>2, <1>6, <1>7, <2>1, PairFields, OneRankPerAddress
    <1>8. ASSUME NEW q \in Ranks(u), NEW r \in Ranks(u)
          PROVE  r.phase + v[r.addr][q.addr] <= q.phase + 2
        <2>1. q.addr \in Address /\ r.addr \in Address /\ q.phase \in Nat /\ r.phase \in Nat
            BY <1>3, <1>8, PairFields
        <2>2. CASE r = h
            <3>1. v[r.addr][q.addr] = 0 /\ r.phase <= q.phase + 2
                BY <1>3, <1>5, <1>8, <2>1, <2>2, TwoPhases
            <3>. QED
                BY <2>1, <3>1
        <2>3. CASE r # h /\ q # h
            <3>1. r \in Ranks(s) /\ q \in Ranks(s) /\ v[r.addr][q.addr] = t[r.addr][q.addr]
                BY <1>2, <1>5, <2>1, <2>3
            <3>. QED
                BY <3>1 DEF Bypassed, Waits
        <2>4. CASE r # h /\ q = h
            <3>1. r \in Ranks(s) /\ r.addr # h.addr
                BY <1>2, <2>4
            <3>2. v[r.addr][h.addr] = t[r.addr][h.addr] + 1
                BY <1>5, <1>7, <2>1, <2>4, <3>1
            <3>3. PICK n \in Nat, m \in Nat : /\ n = t[r.addr][h.addr] /\ m = s[1].phase
                                             /\ r.phase + n <= m + 2
                BY <1>7, <3>1
            <3>4. v[r.addr][q.addr] = n + 1 /\ q.phase = m + 1
                BY <1>2, <2>4, <3>2, <3>3
            <3>5. PICK l \in Nat : l = r.phase /\ l + n <= m + 2
                BY <2>1, <3>3
            <3>6. l + (n + 1) <= (m + 1) + 2
                BY <3>5
            <3>. QED
                BY <3>4, <3>5, <3>6
        <2>. QED
            BY <2>2, <2>3, <2>4
    <1>9. ASSUME NEW x \in Address, NEW y \in Address
          PROVE  v[x][y] <= 3
        <2>1. t[x][y] \in Nat /\ t[x][y] <= 3
            BY DEF Bypassed, Turns
        <2>2. CASE y = h.addr /\ x \in Addresses(s)
            <3>1. PICK r \in Ranks(s) : r.addr = x
                BY <2>2, OneRankPerAddress
            <3>2. t[x][y] <= 2
                <4>1. PICK n \in Nat, m \in Nat, l \in Nat :
                          /\ n = t[r.addr][h.addr] /\ m = s[1].phase /\ l = r.phase
                          /\ l + n <= m + 2 /\ m <= l
                    BY <1>7
                <4>2. n <= 2
                    BY <4>1
                <4>. QED
                    BY <2>2, <3>1, <4>1, <4>2
            <3>. QED
                BY <1>5, <2>1, <3>2
        <2>3. CASE ~(y = h.addr /\ x \in Addresses(s))
            BY <1>5, <2>1, <2>3
        <2>. QED
            BY <2>2, <2>3
    <1>10. \A x \in Address, y \in Address \ Addresses(u) : v[x][y] = 0
        BY <1>3, <1>5, <1>6 DEF Bypassed
    <1>. QED
        BY <1>1, <1>2, <1>4, <1>8, <1>9, <1>10 DEF Bypassed, Waits

\* Nobody has waited yet.
LEMMA FreshBypass ==
    ASSUME MaxPhaseDiff = Unlimited, NEW s, IsTable(s), Close(s)
    PROVE  Bypassed(s, NoTurns)
    <1>1. \A x, y \in Address : NoTurns[x][y] = 0
        BY DEF NoTurns
    <1>2. ASSUME NEW q \in Ranks(s), NEW r \in Ranks(s)
          PROVE  r.phase + NoTurns[r.addr][q.addr] <= q.phase + 2
        <2>1. q \in Rank /\ r \in Rank
            BY OneRankPerAddress
        <2>2. NoTurns[r.addr][q.addr] = 0 /\ r.phase \in Nat /\ r.phase <= q.phase + 2
            BY <1>1, <1>2, <2>1, RankFields, TwoPhases
        <2>. QED
            BY <2>2
    <1>. QED
        BY <1>1, <1>2 DEF Bypassed, Waits
\* A step of updateFormulatorList that touches one candidate.
LEMMA TouchedBypass ==
    ASSUME IInv, IInv', BypassInv, NEW a, turns' = Restarted(turns, a),
           \A r \in Ranks(candidates') : r \in Ranks(candidates) \/ r.addr = a,
           rankMap \ {a} \subseteq rankMap'
    PROVE  BypassInv'
    <1>. SUFFICES ASSUME MaxPhaseDiff = Unlimited
                  PROVE  Bypassed(candidates', turns')
        BY DEF BypassInv
    <1>1. IsTable(candidates) /\ rankMap = Addresses(candidates) /\ turns \in Turns
        BY DEF IInv, TableInv, TypeOK, Turns
    <1>2. IsTable(candidates') /\ Close(candidates') /\ rankMap' = Addresses(candidates')
        BY DEF IInv, TableInv
    <1>3. Bypassed(candidates, turns)
        BY DEF BypassInv
    <1>. QED
        BY <1>1, <1>2, <1>3, RestartedBypass

\* A rank is clamped.
LEMMA ClampBypass ==
    ASSUME IInv, IInv', BypassInv, Clamp
    PROVE  BypassInv'
    <1>. DEFINE above == {i \in DOMAIN candidates : candidates[i].phase > maxPhase}
    <1>1. IsTable(candidates) /\ rankMap = Addresses(candidates) /\ maxPhase \in Nat /\ candidates \in Seq(Rank)
        BY DEF IInv, TableInv, TypeOK
    <1>2. CASE above = {}
        <2>1. UNCHANGED <<candidates, turns>>
            BY <1>2 DEF Clamp, mem
        <2>. QED
            BY <2>1 DEF BypassInv
    <1>3. CASE above # {}
        <2>1. PICK i \in above : i = CHOOSE x \in above : \A y \in above : x <= y
            <3>1. above \subseteq Nat
                BY <1>1
            <3>2. \E x \in above : \A y \in above : x <= y
                <4>. HIDE DEF above
                <4>. QED
                    BY <1>3, <3>1, LeastNatural
            <3>. QED
                BY <3>2, Zenon
        <2>2. candidates[i] \in Rank
            BY <1>1, <2>1
        <2>3. PICK r \in Rank : r = candidates[i]
            BY <2>2, Zenon
        <2>4. PICK new \in Rank : new = NewRank(r.addr, r.key, maxPhase, r.hash) /\ new.addr = r.addr
            BY <1>1, RankFields, NewRankFields
        <2>5. PICK rest : rest = RemoveRank(candidates, r.addr)
            OBVIOUS
        <2>6. /\ IsTable(rest) /\ new.addr \notin Addresses(rest)
              /\ Ranks(rest) = {q \in Ranks(candidates) : q.addr # r.addr}
            BY <1>1, <2>4, <2>5, RemoveProperties, AddressesAfter
        <2>7. /\ candidates' = InsertRankToList(rest, new) \/ candidates' = rest
              /\ rankMap' = rankMap \/ rankMap' = rankMap \ {r.addr}
              /\ turns' = Restarted(turns, r.addr)
            <3>1. PICK e : e = AddError(rest, rankMap \ {r.addr}, new)
                OBVIOUS
            <3>2. /\ candidates' = IF e = "none" THEN InsertRankToList(rest, new) ELSE rest
                  /\ rankMap' = IF e = "none" THEN rankMap ELSE rankMap \ {r.addr}
                  /\ turns' = Restarted(turns, r.addr)
                BY <1>3, <2>1, <2>3, <2>4, <2>5, <3>1, Zenon DEF Clamp
            <3>. QED
                BY <3>2, Zenon
        <2>8. \A q \in Ranks(candidates') : q \in Ranks(candidates) \/ q.addr = r.addr
            <3>1. Ranks(InsertRankToList(rest, new)) = Ranks(rest) \cup {new}
                BY <2>6, InsertProperties
            <3>. QED
                BY <2>4, <2>6, <2>7, <3>1
        <2>9. rankMap \ {r.addr} \subseteq rankMap'
            BY <2>7
        <2>. QED
            BY <2>7, <2>8, <2>9, TouchedBypass
    <1>. QED
        BY <1>2, <1>3

\* An account of the block.
LEMMA UpdateBypass ==
    ASSUME IInv, IInv', BypassInv, NEW a \in Address, UpdateAccount(a) \/ DeleteAccount(a)
    PROVE  BypassInv'
    <1>1. IsTable(candidates) /\ rankMap = Addresses(candidates)
        BY DEF IInv, TableInv
    <1>2. CASE DeleteAccount(a)
        <2>1. /\ candidates' = RemoveRank(candidates, a) /\ rankMap' = rankMap \ {a}
              /\ turns' = Restarted(turns, a)
            BY <1>2 DEF DeleteAccount
        <2>2. \A r \in Ranks(candidates') : r \in Ranks(candidates) \/ r.addr = a
            BY <1>1, <2>1, RemoveProperties
        <2>. QED
            BY <2>1, <2>2, TouchedBypass
    <1>3. CASE UpdateAccount(a) /\ (Removes(a) \/ Adds(a))
        <2>1. PICK rest \in Seq(Rank), restMap \in SUBSET Address, rank \in Rank, e \in Errors :
                 /\ IsTable(rest) /\ Close(rest) /\ restMap = Addresses(rest)
                 /\ Ranks(rest) \subseteq Ranks(candidates)
                 /\ rank.addr = a /\ rank.phase = phase
                 /\ \/ candidates' = rest /\ rankMap' = restMap
                    \/ /\ candidates' = InsertRankToList(rest, rank) /\ rankMap' = restMap \cup {a}
                       /\ a \notin restMap
                 /\ err' = e /\ pc' \in {"accounts", "failed"}
            BY <1>3, UpdateTable
        <2>2. \A r \in Ranks(candidates') : r \in Ranks(candidates) \/ r.addr = a
            <3>1. a \notin restMap => Ranks(InsertRankToList(rest, rank)) = Ranks(rest) \cup {rank}
                BY <2>1, InsertProperties
            <3>. QED
                BY <2>1, <3>1
        <2>3. turns' = Restarted(turns, a) /\ rankMap \ {a} \subseteq rankMap'
            BY <1>3 DEF UpdateAccount
        <2>. QED
            BY <2>2, <2>3, TouchedBypass
    <1>4. CASE UpdateAccount(a) /\ ~(Removes(a) \/ Adds(a))
        <2>1. UNCHANGED <<candidates, turns>>
            BY <1>4 DEF UpdateAccount
        <2>. QED
            BY <2>1 DEF BypassInv
    <1>. QED
        BY <1>2, <1>3, <1>4

\* Every step keeps the count of the turns within the distance of the phases.
LEMMA BypassNext ==
    ASSUME IInv, IInv', BypassInv, [Next]_vars
    PROVE  BypassInv'
    <1>0. /\ IsTable(candidates) /\ Close(candidates) /\ rankMap = Addresses(candidates)
          /\ turns \in Turns
        BY DEF IInv, TableInv, TypeOK, Turns
    <1>1. ASSUME NEW t, NEW h, NEW c, Begin(t, h, c)
          PROVE  BypassInv'
        <2>1. UNCHANGED <<candidates, turns>>
            BY <1>1 DEF Begin
        <2>. QED
            BY <2>1 DEF BypassInv
    <1>2. CASE ForwardCandidate
        <2>1. /\ candidates' = SkipHead(candidates) /\ turns' = Served(turns, candidates[1].addr)
              /\ candidates # <<>>
            BY <1>2 DEF ForwardCandidate, IInv, PcInv
        <2>. QED
            BY <1>0, <2>1, ServedBypass DEF BypassInv
    <1>3. CASE CountBlock
        <2>1. /\ \/ /\ candidates' = PassHead(candidates, block.hash)
                    /\ turns' = Finished(turns, candidates[1].addr, rankMap)
                 \/ UNCHANGED <<candidates, turns>>
              /\ candidates # <<>> /\ block.hash \in HashSpace
            BY <1>3 DEF CountBlock, IInv, PcInv
        <2>. QED
            BY <1>0, <2>1, FinishedBypass DEF BypassInv
    <1>4. CASE EndUpdate \/ StoreBlock \/ StoreFails \/ Return
        <2>1. UNCHANGED <<candidates, turns>>
            BY <1>4 DEF EndUpdate, StoreBlock, StoreFails, Return, mem
        <2>. QED
            BY <2>1 DEF BypassInv
    <1>5. CASE Restart
        <2>1. /\ candidates' = stored.candidates /\ turns' = NoTurns
              /\ IsTable(stored.candidates) /\ Close(stored.candidates)
            BY <1>5 DEF Restart, IInv, StoredInv
        <2>. QED
            BY <2>1, FreshBypass DEF BypassInv
    <1>6. CASE UNCHANGED vars
        BY <1>6 DEF BypassInv, vars, mem
    <1>. QED
        BY <1>1, <1>2, <1>3, <1>4, <1>5, <1>6, ClampBypass, UpdateBypass DEF Next

\* Where phases are not capped, no candidate finishes more than three turns while
\* another one of the table waits for its own, whatever timeouts there are and
\* whoever joins or leaves: forwardTop and forwardCandidates let everyone in.
THEOREM BypassAlwaysBounded == Spec => []BoundedBypass
    <1>1. Init => BypassInv
        <2>1. Init => candidates = <<>> /\ turns = NoTurns
            BY DEF Init
        <2>2. IsTable(<<>>) /\ Close(<<>>)
            BY EmptyTable DEF Close
        <2>. QED
            BY <2>1, <2>2, FreshBypass DEF BypassInv
    <1>2. IInv /\ IInv' /\ BypassInv /\ [Next]_vars => BypassInv'
        BY BypassNext
    <1>3. IInv /\ BypassInv => BoundedBypass
        <2>1. IInv => rankMap \subseteq Address
            BY DEF IInv, TypeOK
        <2>. QED
            BY <2>1 DEF BypassInv, Bypassed, BoundedBypass
    <1>. QED
        BY <1>1, <1>2, <1>3, Invariance, PTL DEF Spec
=============================================================================
