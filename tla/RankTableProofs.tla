-------------------------- MODULE RankTableProofs --------------------------
(* What the list operations of the rank table preserve. *)
EXTENDS RankTable, SequenceTheorems, WellFoundedInduction, TLAPS

Ranks(ranks) == {ranks[i] : i \in DOMAIN ranks}

IsTable(ranks) ==
    ranks \in Seq(Rank) /\ Ascending(ranks) /\ DistinctAddresses(ranks)

\* A nonempty set of naturals has a least element.
LEMMA LeastNatural ==
    ASSUME NEW T \in SUBSET Nat, T # {}
    PROVE  \E n \in T : \A m \in T : n <= m
    <1>1. PICK R : R = OpToRel(<, Nat)
        OBVIOUS
    <1>2. IsWellFoundedOn(R, Nat)
        BY <1>1, NatLessThanWellFounded
    <1>3. \A m, n \in Nat : m < n => <<m, n>> \in R
        BY <1>1 DEF OpToRel
    <1>4. PICK n \in T : \A m \in T : ~(<<m, n>> \in R)
        BY <1>2, WFMin
    <1>5. \A m \in T : ~(m < n)
        BY <1>3, <1>4
    <1>. QED
        BY <1>5

\* Concatenation, with the lengths given.
LEMMA ConcatParts ==
    ASSUME NEW S, NEW a \in Seq(S), NEW b \in Seq(S),
           NEW m \in Nat, NEW n \in Nat, Len(a) = m, Len(b) = n
    PROVE  /\ a \o b \in Seq(S)
           /\ Len(a \o b) = m + n
           /\ \A j \in 1..m : (a \o b)[j] = a[j]
           /\ \A j \in 1..n : (a \o b)[m + j] = b[j]
    OBVIOUS

\* A subsequence of a sequence.
LEMMA SubSeqParts ==
    ASSUME NEW S, NEW s \in Seq(S), NEW l \in 1..(Len(s) + 1), NEW m \in 0..Len(s), l <= m + 1
    PROVE  /\ SubSeq(s, l, m) \in Seq(S)
           /\ Len(SubSeq(s, l, m)) = m + 1 - l
           /\ \A j \in 1..(m + 1 - l) : SubSeq(s, l, m)[j] = s[l + j - 1]
    OBVIOUS

\* An inserted element is at its position and shifts the ones from there on.
LEMMA PutAtProperties ==
    ASSUME NEW S, NEW s \in Seq(S), NEW i \in 1..(Len(s) + 1), NEW e \in S
    PROVE  /\ PutAt(s, i, e) \in Seq(S)
           /\ Len(PutAt(s, i, e)) = Len(s) + 1
           /\ \A j \in 1..(i - 1) : PutAt(s, i, e)[j] = s[j]
           /\ PutAt(s, i, e)[i] = e
           /\ \A j \in i..Len(s) : PutAt(s, i, e)[j + 1] = s[j]
    <1>1a. i - 1 \in Nat /\ Len(s) + 1 - i \in Nat
        OBVIOUS
    <1>1. PICK m \in Nat, n \in Nat : m = i - 1 /\ n = Len(s) + 1 - i
        BY <1>1a, Zenon
    <1>2. /\ SubSeq(s, 1, i - 1) \in Seq(S) /\ Len(SubSeq(s, 1, i - 1)) = m
          /\ \A j \in 1..m : SubSeq(s, 1, i - 1)[j] = s[j]
        BY <1>1, SubSeqParts
    <1>3. /\ SubSeq(s, i, Len(s)) \in Seq(S) /\ Len(SubSeq(s, i, Len(s))) = n
          /\ \A j \in 1..n : SubSeq(s, i, Len(s))[j] = s[i + j - 1]
        BY <1>1, SubSeqParts
    <1>a. PICK a \in Seq(S), b \in Seq(S) : a = SubSeq(s, 1, i - 1) /\ b = SubSeq(s, i, Len(s))
        BY <1>2, <1>3, Zenon
    <1>b. PutAt(s, i, e) = a \o <<e>> \o b /\ Len(a) = m /\ Len(b) = n
        BY <1>2, <1>3, <1>a, Zenon DEF PutAt
    <1>c. /\ a \o <<e>> \o b \in Seq(S)
          /\ Len(a \o <<e>> \o b) = m + 1 + n
          /\ \A j \in 1..m : (a \o <<e>> \o b)[j] = a[j]
          /\ (a \o <<e>> \o b)[m + 1] = e
          /\ \A j \in 1..n : (a \o <<e>> \o b)[m + 1 + j] = b[j]
        <2>1. Len(a) = m /\ Len(b) = n
            BY <1>b, Zenon
        <2>2. /\ a \o <<e>> \in Seq(S) /\ Len(a \o <<e>>) = m + 1
              /\ \A j \in 1..m : (a \o <<e>>)[j] = a[j]
              /\ (a \o <<e>>)[m + 1] = e
            BY <2>1
        <2>3. PICK c \in Seq(S) : c = a \o <<e>>
            BY <2>2, Zenon
        <2>4. PICK p \in Nat : p = m + 1
            OBVIOUS
        <2>5. Len(c) = p /\ Len(b) = n
            BY <2>1, <2>2, <2>3, <2>4, Zenon
        <2>6. /\ c \o b \in Seq(S) /\ Len(c \o b) = p + n
              /\ \A j \in 1..p : (c \o b)[j] = c[j]
              /\ \A j \in 1..n : (c \o b)[p + j] = b[j]
            <3>1. /\ c \o b \in Seq(S) /\ Len(c \o b) = p + n
                  /\ \A j \in 1 .. p + n : (c \o b)[j] = IF j <= p THEN c[j] ELSE b[j - p]
                BY <2>5, ConcatProperties, Zenon
            <3>2. \A j \in 1..p : j \in 1 .. p + n /\ j <= p
                OBVIOUS
            <3>3. \A j \in 1..n : p + j \in 1 .. p + n /\ ~(p + j <= p) /\ p + j - p = j
                OBVIOUS
            <3>4. ASSUME NEW j \in 1..n PROVE (c \o b)[p + j] = b[j]
                <4>1. PICK k \in 1 .. p + n : k = p + j /\ ~(k <= p) /\ k - p = j
                    OBVIOUS
                <4>2. (c \o b)[k] = b[k - p]
                    BY <3>1, <4>1, Zenon
                <4>. QED
                    BY <4>1, <4>2, Zenon
            <3>5. \A j \in 1..p : (c \o b)[j] = c[j]
                BY <3>1, <3>2, Zenon
            <3>. QED
                BY <3>1, <3>4, <3>5, Zenon
        <2>7. \A j \in 1..m : j \in 1..p
            BY <2>4
        <2>8. p \in 1..p
            BY <2>4
        <2>. QED
            BY <2>2, <2>3, <2>4, <2>6, <2>7, <2>8, Zenon
    <1>4. /\ PutAt(s, i, e) \in Seq(S)
          /\ Len(PutAt(s, i, e)) = m + 1 + n
          /\ \A j \in 1..m : PutAt(s, i, e)[j] = SubSeq(s, 1, i - 1)[j]
          /\ PutAt(s, i, e)[m + 1] = e
          /\ \A j \in 1..n : PutAt(s, i, e)[m + 1 + j] = SubSeq(s, i, Len(s))[j]
        BY <1>a, <1>b, <1>c, Zenon
    <1>5. ASSUME NEW j \in i..Len(s) PROVE PutAt(s, i, e)[j + 1] = s[j]
        <2>1. PICK k \in 1..n : m + 1 + k = j + 1 /\ i + k - 1 = j
            <3>1. j + 1 - i \in 1..n /\ m + 1 + (j + 1 - i) = j + 1 /\ i + (j + 1 - i) - 1 = j
                BY <1>1
            <3>. QED
                BY <3>1, Zenon
        <2>2. PutAt(s, i, e)[m + 1 + k] = SubSeq(s, i, Len(s))[k]
            BY <1>4, Zenon
        <2>3. SubSeq(s, i, Len(s))[k] = s[i + k - 1]
            BY <1>3, Zenon
        <2>. QED
            BY <2>1, <2>2, <2>3, Zenon
    <1>. QED
        BY <1>1, <1>2, <1>4, <1>5

\* A removal closes the gap.
LEMMA CutAtProperties ==
    ASSUME NEW S, NEW s \in Seq(S), NEW i \in 1..Len(s)
    PROVE  /\ CutAt(s, i) \in Seq(S)
           /\ Len(CutAt(s, i)) = Len(s) - 1
           /\ \A j \in 1..(i - 1) : CutAt(s, i)[j] = s[j]
           /\ \A j \in i..(Len(s) - 1) : CutAt(s, i)[j] = s[j + 1]
    <1>1. PICK m \in Nat, n \in Nat : m = i - 1 /\ n = Len(s) - i
        OBVIOUS
    <1>2. /\ SubSeq(s, 1, i - 1) \in Seq(S) /\ Len(SubSeq(s, 1, i - 1)) = m
          /\ \A j \in 1..m : SubSeq(s, 1, i - 1)[j] = s[j]
        BY <1>1, SubSeqParts
    <1>3. /\ SubSeq(s, i + 1, Len(s)) \in Seq(S) /\ Len(SubSeq(s, i + 1, Len(s))) = n
          /\ \A j \in 1..n : SubSeq(s, i + 1, Len(s))[j] = s[i + j]
        BY <1>1, SubSeqParts
    <1>4. /\ CutAt(s, i) \in Seq(S)
          /\ Len(CutAt(s, i)) = m + n
          /\ \A j \in 1..m : CutAt(s, i)[j] = SubSeq(s, 1, i - 1)[j]
          /\ \A j \in 1..n : CutAt(s, i)[m + j] = SubSeq(s, i + 1, Len(s))[j]
        <2>1. PICK a \in Seq(S), b \in Seq(S) : a = SubSeq(s, 1, i - 1) /\ b = SubSeq(s, i + 1, Len(s))
            BY <1>2, <1>3, Zenon
        <2>2. CutAt(s, i) = a \o b /\ Len(a) = m /\ Len(b) = n
            BY <1>2, <1>3, <2>1, Zenon DEF CutAt
        <2>3. /\ a \o b \in Seq(S) /\ Len(a \o b) = m + n
              /\ \A j \in 1..m : (a \o b)[j] = a[j]
              /\ \A j \in 1..n : (a \o b)[m + j] = b[j]
            <3>1. Len(a) = m /\ Len(b) = n
                BY <2>2, Zenon
            <3>. QED
                BY <3>1, SMTT(60)
        <2>. QED
            BY <2>1, <2>2, <2>3, Zenon
    <1>5. ASSUME NEW j \in i..(Len(s) - 1) PROVE CutAt(s, i)[j] = s[j + 1]
        <2>1. PICK k \in 1..n : m + k = j /\ i + k = j + 1
            <3>1. j + 1 - i \in 1..n /\ m + (j + 1 - i) = j /\ i + (j + 1 - i) = j + 1
                BY <1>1
            <3>. QED BY <3>1, Zenon
        <2>2. CutAt(s, i)[m + k] = s[i + k]
            BY <1>3, <1>4, Zenon
        <2>. QED
            BY <2>1, <2>2, Zenon
    <1>. QED
        BY <1>1, <1>2, <1>4, <1>5

\* The numbers a rank is compared by.
LEMMA RankFields ==
    \A r \in Rank : /\ r.addr \in Address /\ r.key \in PublicHash /\ r.hash \in HashSpace
                    /\ r.phase \in Nat /\ r.phase \in Int /\ r.hash \in Int /\ r.addr \in Int
    <1>. SUFFICES ASSUME NEW r \in Rank
                  PROVE  /\ r.addr \in Address /\ r.key \in PublicHash /\ r.hash \in HashSpace
                         /\ r.phase \in Nat /\ r.phase \in Int /\ r.hash \in Int /\ r.addr \in Int
        OBVIOUS
    <1>1. r.addr \in Address /\ r.key \in PublicHash /\ r.hash \in HashSpace /\ r.phase \in Nat
        BY DEF Rank
    <1>2. r.addr \in Nat /\ r.hash \in Nat
        BY <1>1, RankTableAssumption, Zenon
    <1>. QED
        BY <1>1, <1>2

\* Less orders ranks of different addresses strictly and totally.
LEMMA LessIsOrder ==
    ASSUME NEW a \in Rank, NEW b \in Rank, NEW c \in Rank
    PROVE  /\ ~Less(a, a)
           /\ Less(a, b) /\ Less(b, c) => Less(a, c)
           /\ a.addr # b.addr => Less(a, b) \/ Less(b, a)
           /\ Less(a, b) => a.phase <= b.phase
           /\ ~(Less(a, b) /\ Less(b, a))
    <1>1. \A r \in Rank : r.phase \in Int /\ r.hash \in Int /\ r.addr \in Int
        BY RankFields
    <1>2. /\ a.phase \in Int /\ a.hash \in Int /\ a.addr \in Int
          /\ b.phase \in Int /\ b.hash \in Int /\ b.addr \in Int
          /\ c.phase \in Int /\ c.hash \in Int /\ c.addr \in Int
        BY <1>1
    <1>. QED
        BY <1>2 DEF Less

\* sort.Search finds a place: everything before it is not above the new rank,
\* and in an ascending list everything from it on is.
LEMMA SearchAboveProperties ==
    ASSUME NEW s \in Seq(Rank), NEW e \in Rank, Ascending(s)
    PROVE  /\ SearchAbove(s, e) \in 1..(Len(s) + 1)
           /\ \A j \in 1..(SearchAbove(s, e) - 1) : ~Less(e, s[j])
           /\ \A j \in SearchAbove(s, e)..Len(s) : Less(e, s[j])
    <1>0. PICK T : T = {i \in 1..(Len(s) + 1) : i <= Len(s) => Less(e, s[i])}
        OBVIOUS
    <1>. DEFINE P(i) == /\ i <= Len(s) => Less(e, s[i])
                      /\ \A j \in 1..(i - 1) : ~Less(e, s[j])
    <1>1. Len(s) + 1 \in T /\ T \in SUBSET Nat
        BY <1>0
    <1>2. PICK n \in T : \A m \in T : n <= m
        BY <1>1, LeastNatural
    <1>3. n \in 1..(Len(s) + 1) /\ P(n)
        BY <1>0, <1>2
    <1>4. SearchAbove(s, e) \in 1..(Len(s) + 1) /\ P(SearchAbove(s, e))
        BY <1>3 DEF SearchAbove
    <1>. DEFINE k == SearchAbove(s, e)
    <1>5. \A j \in k..Len(s) : Less(e, s[j])
        <2>. SUFFICES ASSUME NEW j \in k..Len(s) PROVE Less(e, s[j])
            OBVIOUS
        <2>1. k \in Nat /\ k >= 1 /\ k <= Len(s) /\ Less(e, s[k])
            BY <1>4
        <2>2. j = k \/ Less(s[k], s[j])
            BY <2>1 DEF Ascending
        <2>3. s[k] \in Rank /\ s[j] \in Rank
            BY <2>1
        <2>. QED
            BY <2>1, <2>2, <2>3, LessIsOrder
    <1>. QED
        BY <1>4, <1>5

\* Inserting a rank of a new address keeps the list a table and adds that rank.
LEMMA InsertProperties ==
    ASSUME NEW s, IsTable(s), NEW e \in Rank, e.addr \notin Addresses(s)
    PROVE  /\ IsTable(InsertRankToList(s, e))
           /\ Len(InsertRankToList(s, e)) = Len(s) + 1
           /\ Ranks(InsertRankToList(s, e)) = Ranks(s) \cup {e}
    <1>0. s \in Seq(Rank) /\ Ascending(s) /\ DistinctAddresses(s)
        BY DEF IsTable
    <1>1. PICK k \in 1..(Len(s) + 1) :
              /\ k = SearchAbove(s, e)
              /\ \A j \in 1..(k - 1) : ~Less(e, s[j])
              /\ \A j \in k..Len(s) : Less(e, s[j])
        BY <1>0, SearchAboveProperties
    <1>2. PICK t \in Seq(Rank) :
              /\ t = InsertRankToList(s, e)
              /\ Len(t) = Len(s) + 1
              /\ \A j \in 1..(k - 1) : t[j] = s[j]
              /\ t[k] = e
              /\ \A j \in k..Len(s) : t[j + 1] = s[j]
        BY <1>0, <1>1, PutAtProperties DEF InsertRankToList
    <1>3. \A j \in 1..Len(s) : s[j] \in Rank /\ s[j].addr # e.addr
        BY <1>0 DEF Addresses
    <1>4. \A j \in 1..(k - 1) : Less(s[j], e)
        BY <1>0, <1>1, <1>3, LessIsOrder
    <1>5. Ascending(t)
        <2>. SUFFICES ASSUME NEW i \in 1..(Len(s) + 1), NEW j \in 1..(Len(s) + 1), i < j
                      PROVE  Less(t[i], t[j])
            BY <1>2 DEF Ascending
        <2>1. CASE j < k
            BY <1>0, <1>2, <2>1 DEF Ascending
        <2>2. CASE j = k
            BY <1>2, <1>4, <2>2
        <2>3. CASE j > k
            <3>1. j - 1 \in k..Len(s) /\ t[j] = s[j - 1]
                BY <1>0, <1>2, <2>3
            <3>2. CASE i < k
                BY <1>0, <1>2, <3>1, <3>2 DEF Ascending
            <3>3. CASE i = k
                BY <1>1, <1>2, <3>1, <3>3
            <3>4. CASE i > k
                <4>1. i - 1 \in k..Len(s) /\ t[i] = s[i - 1]
                    BY <1>0, <1>2, <3>4
                <4>. QED
                    BY <1>0, <3>1, <4>1 DEF Ascending
            <3>. QED
                BY <3>2, <3>3, <3>4
        <2>. QED
            BY <2>1, <2>2, <2>3
    <1>6. Ranks(t) = Ranks(s) \cup {e}
        <2>1. ASSUME NEW i \in 1..Len(t) PROVE t[i] \in Ranks(s) \cup {e}
            <3>1. CASE i < k
                BY <1>0, <1>2, <3>1 DEF Ranks
            <3>2. CASE i = k
                BY <1>2, <3>2
            <3>3. CASE i > k
                <4>1. i - 1 \in k..Len(s) /\ t[i] = s[i - 1]
                    BY <1>0, <1>2, <3>3
                <4>. QED
                    BY <1>0, <4>1 DEF Ranks
            <3>. QED
                BY <3>1, <3>2, <3>3
        <2>2. ASSUME NEW i \in 1..Len(s) PROVE s[i] \in Ranks(t)
            <3>1. CASE i < k
                BY <1>0, <1>2, <3>1 DEF Ranks
            <3>2. CASE i >= k
                <4>1. i + 1 \in 1..Len(t) /\ t[i + 1] = s[i]
                    BY <1>0, <1>2, <3>2
                <4>. QED
                    BY <4>1 DEF Ranks
            <3>. QED
                BY <3>1, <3>2
        <2>3. e \in Ranks(t)
            BY <1>2 DEF Ranks
        <2>. QED
            BY <1>0, <2>1, <2>2, <2>3, SMTT(60) DEF Ranks
    <1>7. DistinctAddresses(t)
        <2>1. ASSUME NEW i \in 1..Len(t), i # k
              PROVE  \E p \in 1..Len(s) : t[i] = s[p] /\ i = IF p < k THEN p ELSE p + 1
            <3>1. CASE i < k
                <4>1. i \in 1..Len(s) /\ t[i] = s[i]
                    BY <1>0, <1>2, <3>1
                <4>. QED
                    BY <3>1, <4>1
            <3>2. CASE i > k
                <4>1. i - 1 \in 1..Len(s) /\ i - 1 \in k..Len(s) /\ t[i] = s[i - 1]
                    BY <1>0, <1>2, <3>2
                <4>. QED
                    BY <4>1
            <3>. QED
                BY <2>1, <3>1, <3>2
        <2>2. \A p, q \in 1..Len(s) : s[p].addr = s[q].addr => p = q
            BY <1>0 DEF DistinctAddresses
        <2>. SUFFICES ASSUME NEW i \in 1..Len(t), NEW j \in 1..Len(t), t[i].addr = t[j].addr
                      PROVE  i = j
            BY DEF DistinctAddresses
        <2>3. CASE i = k /\ j = k
            BY <2>3
        <2>4. CASE i # k /\ j # k
            BY <2>1, <2>2, <2>4
        <2>5. CASE i = k /\ j # k
            BY <1>2, <1>3, <2>1, <2>5
        <2>6. CASE i # k /\ j = k
            BY <1>2, <1>3, <2>1, <2>6
        <2>. QED
            BY <2>3, <2>4, <2>5, <2>6
    <1>. QED
        BY <1>2, <1>5, <1>6, <1>7 DEF IsTable

\* The first rank of a table has the smallest phase.
LEMMA HeadIsLeast ==
    ASSUME NEW s, IsTable(s), s # <<>>
    PROVE  /\ s[1] \in Rank /\ s[1] \in Ranks(s)
           /\ \A r \in Ranks(s) : r \in Rank /\ s[1].phase <= r.phase
    <1>1. s \in Seq(Rank) /\ Ascending(s) /\ Len(s) > 0
        BY DEF IsTable
    <1>2. s[1] \in Rank /\ s[1] \in Ranks(s)
        BY <1>1 DEF Ranks
    <1>3. ASSUME NEW i \in 1..Len(s) PROVE s[i] \in Rank /\ s[1].phase <= s[i].phase
        <2>1. s[i] \in Rank
            BY <1>1
        <2>2. CASE i = 1
            BY <2>1, <2>2, RankFields
        <2>3. CASE i > 1
            <3>1. Less(s[1], s[i])
                BY <1>1, <2>3 DEF Ascending
            <3>. QED
                BY <1>2, <2>1, <3>1, LessIsOrder
        <2>. QED
            BY <2>2, <2>3
    <1>. QED
        BY <1>1, <1>2, <1>3 DEF Ranks

\* The last rank of a table has the largest phase.
LEMMA LastIsGreatest ==
    ASSUME NEW s, IsTable(s), s # <<>>
    PROVE  /\ s[Len(s)] \in Rank /\ s[Len(s)] \in Ranks(s)
           /\ \A r \in Ranks(s) : r.phase <= s[Len(s)].phase
    <1>1. s \in Seq(Rank) /\ Ascending(s) /\ Len(s) > 0
        BY DEF IsTable
    <1>2. s[Len(s)] \in Rank /\ s[Len(s)] \in Ranks(s)
        BY <1>1 DEF Ranks
    <1>3. ASSUME NEW i \in 1..Len(s) PROVE s[i].phase <= s[Len(s)].phase
        <2>1. s[i] \in Rank
            BY <1>1
        <2>2. CASE i = Len(s)
            BY <2>1, <2>2, RankFields
        <2>3. CASE i < Len(s)
            <3>1. Less(s[i], s[Len(s)])
                BY <1>1, <2>3 DEF Ascending
            <3>. QED
                BY <1>2, <2>1, <3>1, LessIsOrder
        <2>. QED
            BY <1>1, <2>2, <2>3
    <1>. QED
        BY <1>1, <1>2, <1>3 DEF Ranks

\* An address has one rank in a table.
LEMMA OneRankPerAddress ==
    ASSUME NEW s, IsTable(s)
    PROVE  /\ \A q, r \in Ranks(s) : q.addr = r.addr => q = r
           /\ Addresses(s) = {r.addr : r \in Ranks(s)}
           /\ Ranks(s) \subseteq Rank
    BY DEF IsTable, Ranks, DistinctAddresses, Addresses

\* removeRank takes out the rank of the address and nothing else.
LEMMA RemoveProperties ==
    ASSUME NEW s, IsTable(s), NEW a
    PROVE  /\ IsTable(RemoveRank(s, a))
           /\ Ranks(RemoveRank(s, a)) = {r \in Ranks(s) : r.addr # a}
    <1>0. s \in Seq(Rank) /\ Ascending(s) /\ DistinctAddresses(s)
        BY DEF IsTable
    <1>1. CASE a \notin Addresses(s)
        BY <1>1 DEF RemoveRank, Ranks, Addresses
    <1>2. CASE a \in Addresses(s)
        <2>1. PICK k \in 1..Len(s) : k = IndexOf(s, a) /\ s[k].addr = a
            BY <1>0, <1>2 DEF Addresses, IndexOf
        <2>2. PICK t \in Seq(Rank) :
                  /\ t = RemoveRank(s, a)
                  /\ Len(t) = Len(s) - 1
                  /\ \A j \in 1..(k - 1) : t[j] = s[j]
                  /\ \A j \in k..(Len(s) - 1) : t[j] = s[j + 1]
            BY <1>0, <1>2, <2>1, CutAtProperties, SMTT(60) DEF RemoveRank
        <2>3. ASSUME NEW i \in 1..Len(t)
              PROVE  \E p \in 1..Len(s) : t[i] = s[p] /\ p # k /\ p = IF i < k THEN i ELSE i + 1
            <3>1. CASE i < k
                <4>1. i \in 1..Len(s) /\ t[i] = s[i]
                    BY <1>0, <2>2, <3>1
                <4>. QED
                    BY <3>1, <4>1
            <3>2. CASE i >= k
                <4>1. i + 1 \in 1..Len(s) /\ t[i] = s[i + 1] /\ i + 1 # k
                    BY <1>0, <2>2, <3>2
                <4>. QED
                    BY <3>2, <4>1
            <3>. QED
                BY <3>1, <3>2
        <2>4. Ascending(t)
            <3>. SUFFICES ASSUME NEW i \in 1..Len(t), NEW j \in 1..Len(t), i < j
                          PROVE  Less(t[i], t[j])
                BY DEF Ascending
            <3>1. PICK p \in 1..Len(s) : t[i] = s[p] /\ p = IF i < k THEN i ELSE i + 1
                BY <2>3
            <3>2. PICK q \in 1..Len(s) : t[j] = s[q] /\ q = IF j < k THEN j ELSE j + 1
                BY <2>3
            <3>3. p < q
                BY <3>1, <3>2
            <3>. QED
                BY <1>0, <3>1, <3>2, <3>3 DEF Ascending
        <2>5. DistinctAddresses(t)
            <3>. SUFFICES ASSUME NEW i \in 1..Len(t), NEW j \in 1..Len(t), t[i].addr = t[j].addr
                          PROVE  i = j
                BY DEF DistinctAddresses
            <3>1. PICK p \in 1..Len(s) : t[i] = s[p] /\ p = IF i < k THEN i ELSE i + 1
                BY <2>3
            <3>2. PICK q \in 1..Len(s) : t[j] = s[q] /\ q = IF j < k THEN j ELSE j + 1
                BY <2>3
            <3>3. p = q
                BY <1>0, <3>1, <3>2 DEF DistinctAddresses
            <3>. QED
                BY <3>1, <3>2, <3>3
        <2>6. Ranks(t) = {r \in Ranks(s) : r.addr # a}
            <3>1. ASSUME NEW i \in 1..Len(t) PROVE t[i] \in Ranks(s) /\ t[i].addr # a
                BY <1>0, <2>1, <2>3 DEF DistinctAddresses, Ranks
            <3>2. ASSUME NEW p \in 1..Len(s), s[p].addr # a PROVE s[p] \in Ranks(t)
                <4>1. CASE p < k
                    BY <1>0, <2>2, <4>1 DEF Ranks
                <4>2. CASE p > k
                    <5>1. p - 1 \in 1..Len(t) /\ t[p - 1] = s[p]
                        BY <1>0, <2>2, <4>2
                    <5>. QED
                        BY <5>1 DEF Ranks
                <4>. QED
                    BY <2>1, <3>2, <4>1, <4>2
            <3>. QED
                BY <1>0, <3>1, <3>2 DEF Ranks
        <2>. QED
            BY <2>2, <2>4, <2>5, <2>6 DEF IsTable
    <1>. QED
        BY <1>1, <1>2

\* Without its head a table is still one.
LEMMA TailProperties ==
    ASSUME NEW s, IsTable(s), s # <<>>
    PROVE  /\ IsTable(Tail(s))
           /\ Len(Tail(s)) = Len(s) - 1
           /\ Ranks(Tail(s)) = {r \in Ranks(s) : r.addr # s[1].addr}
    <1>0. s \in Seq(Rank) /\ Ascending(s) /\ DistinctAddresses(s) /\ Len(s) > 0
        BY DEF IsTable
    <1>1. PICK t \in Seq(Rank) :
              /\ t = Tail(s)
              /\ Len(t) = Len(s) - 1
              /\ \A i \in 1..(Len(s) - 1) : t[i] = s[i + 1]
        <2>1. Tail(s) \in Seq(Rank) /\ Len(Tail(s)) = Len(s) - 1
            BY <1>0
        <2>2. \A i \in 1..(Len(s) - 1) : Tail(s)[i] = s[i + 1]
            BY <1>0
        <2>. QED
            BY <2>1, <2>2, Zenon
    <1>2. Ascending(t)
        BY <1>0, <1>1 DEF Ascending
    <1>3. DistinctAddresses(t)
        BY <1>0, <1>1 DEF DistinctAddresses
    <1>4. Ranks(t) = {r \in Ranks(s) : r.addr # s[1].addr}
        <2>1. ASSUME NEW i \in 1..Len(t) PROVE t[i] \in Ranks(s) /\ t[i].addr # s[1].addr
            <3>1. i + 1 \in 1..Len(s) /\ t[i] = s[i + 1] /\ i + 1 # 1
                BY <1>1
            <3>. QED
                BY <1>0, <3>1 DEF DistinctAddresses, Ranks
        <2>2. ASSUME NEW p \in 1..Len(s), s[p].addr # s[1].addr PROVE s[p] \in Ranks(t)
            <3>1. p - 1 \in 1..Len(t) /\ t[p - 1] = s[p]
                BY <1>1, <2>2
            <3>. QED
                BY <3>1 DEF Ranks
        <2>. QED
            BY <1>0, <2>1, <2>2 DEF Ranks
    <1>. QED
        BY <1>1, <1>2, <1>3, <1>4 DEF IsTable

\* Moving the head, with a new phase and hash, back into the list.
LEMMA ReinsertProperties ==
    ASSUME NEW s, IsTable(s), s # <<>>, NEW h \in Rank, h.addr = s[1].addr
    PROVE  /\ IsTable(ReinsertHead(s, h))
           /\ Len(ReinsertHead(s, h)) = Len(s)
           /\ Ranks(ReinsertHead(s, h)) = {r \in Ranks(s) : r.addr # h.addr} \cup {h}
           /\ Addresses(ReinsertHead(s, h)) = Addresses(s)
    <1>1. /\ IsTable(Tail(s)) /\ Len(Tail(s)) = Len(s) - 1
          /\ Ranks(Tail(s)) = {r \in Ranks(s) : r.addr # h.addr}
        BY TailProperties
    <1>2. h.addr \notin Addresses(Tail(s))
        <2>1. Addresses(Tail(s)) = {r.addr : r \in Ranks(Tail(s))}
            BY <1>1, OneRankPerAddress
        <2>. QED
            BY <1>1, <2>1
    <1>3. /\ IsTable(ReinsertHead(s, h))
          /\ Len(ReinsertHead(s, h)) = Len(Tail(s)) + 1
          /\ Ranks(ReinsertHead(s, h)) = Ranks(Tail(s)) \cup {h}
        BY <1>1, <1>2, InsertProperties, Zenon DEF ReinsertHead
    <1>4. Len(s) \in Nat
        BY DEF IsTable
    <1>5. h.addr \in Addresses(s)
        BY DEF IsTable, Addresses
    <1>6. Addresses(ReinsertHead(s, h)) = Addresses(s)
        <2>1. Addresses(s) = {r.addr : r \in Ranks(s)}
            BY OneRankPerAddress
        <2>2. Addresses(ReinsertHead(s, h)) = {r.addr : r \in Ranks(ReinsertHead(s, h))}
            BY <1>3, OneRankPerAddress
        <2>. QED
            BY <1>1, <1>3, <1>5, <2>1, <2>2
    <1>. QED
        BY <1>1, <1>3, <1>4, <1>6

\* The rank NewRank makes.
LEMMA NewRankFields ==
    ASSUME NEW a \in Address, NEW k \in PublicHash, NEW p \in Nat, NEW x \in HashSpace
    PROVE  /\ NewRank(a, k, p, x) \in Rank
           /\ NewRank(a, k, p, x).addr = a
           /\ NewRank(a, k, p, x).key = k
           /\ NewRank(a, k, p, x).phase = p
           /\ NewRank(a, k, p, x).hash = x
    BY DEF Rank, NewRank

\* One iteration of forwardCandidates.
LEMMA SkipProperties ==
    ASSUME NEW s, IsTable(s), s # <<>>
    PROVE  /\ IsTable(SkipHead(s))
           /\ Len(SkipHead(s)) = Len(s)
           /\ Addresses(SkipHead(s)) = Addresses(s)
           /\ \E h \in Rank :
                /\ h.addr = s[1].addr /\ h.key = s[1].key /\ h.phase = s[1].phase + 2
                /\ Ranks(SkipHead(s)) = {r \in Ranks(s) : r.addr # h.addr} \cup {h}
    <1>1. s[1] \in Rank
        BY HeadIsLeast
    <1>2. s[1].addr \in Address /\ s[1].key \in PublicHash /\ s[1].phase \in Nat /\ s[1].hash \in HashSpace
        BY <1>1, RankFields
    <1>3. s[1].phase + 2 \in Nat
        BY <1>2
    <1>4. PICK h \in Rank : /\ h = NewRank(s[1].addr, s[1].key, s[1].phase + 2, s[1].hash)
                            /\ h.addr = s[1].addr /\ h.key = s[1].key /\ h.phase = s[1].phase + 2
        BY <1>2, <1>3, NewRankFields
    <1>5. SkipHead(s) = ReinsertHead(s, h)
        BY <1>4 DEF SkipHead
    <1>6. /\ IsTable(ReinsertHead(s, h)) /\ Len(ReinsertHead(s, h)) = Len(s)
          /\ Ranks(ReinsertHead(s, h)) = {r \in Ranks(s) : r.addr # h.addr} \cup {h}
          /\ Addresses(ReinsertHead(s, h)) = Addresses(s)
        BY <1>4, ReinsertProperties
    <1>. QED
        BY <1>4, <1>5, <1>6

\* forwardTop.
LEMMA PassProperties ==
    ASSUME NEW s, IsTable(s), s # <<>>, NEW x \in HashSpace
    PROVE  /\ IsTable(PassHead(s, x))
           /\ Len(PassHead(s, x)) = Len(s)
           /\ Addresses(PassHead(s, x)) = Addresses(s)
           /\ \E h \in Rank :
                /\ h.addr = s[1].addr /\ h.key = s[1].key /\ h.phase = s[1].phase + 1
                /\ Ranks(PassHead(s, x)) = {r \in Ranks(s) : r.addr # h.addr} \cup {h}
    <1>1. s[1] \in Rank
        BY HeadIsLeast
    <1>2. s[1].addr \in Address /\ s[1].key \in PublicHash /\ s[1].phase \in Nat
        BY <1>1, RankFields
    <1>3. s[1].phase + 1 \in Nat
        BY <1>2
    <1>4. PICK h \in Rank : /\ h = NewRank(s[1].addr, s[1].key, s[1].phase + 1, x)
                            /\ h.addr = s[1].addr /\ h.key = s[1].key /\ h.phase = s[1].phase + 1
        BY <1>2, <1>3, NewRankFields
    <1>5. PassHead(s, x) = ReinsertHead(s, h)
        BY <1>4 DEF PassHead
    <1>6. /\ IsTable(ReinsertHead(s, h)) /\ Len(ReinsertHead(s, h)) = Len(s)
          /\ Ranks(ReinsertHead(s, h)) = {r \in Ranks(s) : r.addr # h.addr} \cup {h}
          /\ Addresses(ReinsertHead(s, h)) = Addresses(s)
        BY <1>4, ReinsertProperties
    <1>. QED
        BY <1>4, <1>5, <1>6

\* The addresses after addRank and removeRank.
LEMMA AddressesAfter ==
    ASSUME NEW s, IsTable(s), NEW a
    PROVE  /\ Addresses(RemoveRank(s, a)) = Addresses(s) \ {a}
           /\ \A e \in Rank : e.addr \notin Addresses(s) =>
                Addresses(InsertRankToList(s, e)) = Addresses(s) \cup {e.addr}
    <1>1. Addresses(s) = {r.addr : r \in Ranks(s)}
        BY OneRankPerAddress
    <1>2. Addresses(RemoveRank(s, a)) = Addresses(s) \ {a}
        <2>1. IsTable(RemoveRank(s, a)) /\ Ranks(RemoveRank(s, a)) = {r \in Ranks(s) : r.addr # a}
            BY RemoveProperties
        <2>2. Addresses(RemoveRank(s, a)) = {r.addr : r \in Ranks(RemoveRank(s, a))}
            BY <2>1, OneRankPerAddress
        <2>. QED
            BY <1>1, <2>1, <2>2
    <1>3. ASSUME NEW e \in Rank, e.addr \notin Addresses(s)
          PROVE  Addresses(InsertRankToList(s, e)) = Addresses(s) \cup {e.addr}
        <2>1. IsTable(InsertRankToList(s, e)) /\ Ranks(InsertRankToList(s, e)) = Ranks(s) \cup {e}
            BY <1>3, InsertProperties
        <2>2. Addresses(InsertRankToList(s, e)) = {r.addr : r \in Ranks(InsertRankToList(s, e))}
            BY <2>1, OneRankPerAddress
        <2>. QED
            BY <1>1, <2>1, <2>2
    <1>. QED
        BY <1>2, <1>3

\* The empty list is a table.
LEMMA EmptyTable == IsTable(<<>>) /\ Ranks(<<>>) = {} /\ Addresses(<<>>) = {}
    BY DEF IsTable, Ranks, Ascending, DistinctAddresses, Addresses
-----------------------------------------------------------------------------
(* The entries of a table: who is in it, with which key *)

Entry(ranks, a, k) == \E r \in Ranks(ranks) : r.addr = a /\ r.key = k

\* removeRank takes out the entries of the address.
LEMMA RemovedEntry ==
    ASSUME NEW s, IsTable(s), NEW b
    PROVE  \A a, k : Entry(RemoveRank(s, b), a, k) <=> Entry(s, a, k) /\ a # b
    <1>1. Ranks(RemoveRank(s, b)) = {r \in Ranks(s) : r.addr # b}
        BY RemoveProperties
    <1>. QED
        BY <1>1, Zenon DEF Entry

\* addRank adds one entry.
LEMMA InsertedEntry ==
    ASSUME NEW s, IsTable(s), NEW e \in Rank, e.addr \notin Addresses(s)
    PROVE  \A a, k : Entry(InsertRankToList(s, e), a, k) <=> Entry(s, a, k) \/ (a = e.addr /\ k = e.key)
    <1>1. Ranks(InsertRankToList(s, e)) = Ranks(s) \cup {e}
        BY InsertProperties
    <1>. QED
        BY <1>1, Zenon DEF Entry

\* A rank that replaces the head keeps its entry.
LEMMA MovedEntry ==
    ASSUME NEW s, IsTable(s), s # <<>>, NEW t, NEW h \in Rank, h.addr = s[1].addr, h.key = s[1].key,
           Ranks(t) = {r \in Ranks(s) : r.addr # h.addr} \cup {h}
    PROVE  \A a, k : Entry(t, a, k) <=> Entry(s, a, k)
    <1>1. s[1] \in Ranks(s)
        BY HeadIsLeast
    <1>2. \A r \in Ranks(s) : r.addr = h.addr => r = s[1]
        BY <1>1, OneRankPerAddress
    <1>3. ASSUME NEW a, NEW k, Entry(t, a, k)
          PROVE  Entry(s, a, k)
        BY <1>1, <1>3 DEF Entry
    <1>4. ASSUME NEW a, NEW k, Entry(s, a, k)
          PROVE  Entry(t, a, k)
        BY <1>2, <1>4 DEF Entry
    <1>. QED
        BY <1>3, <1>4

\* An iteration of forwardCandidates and forwardTop change no entry.
LEMMA SkippedEntry ==
    ASSUME NEW s, IsTable(s), s # <<>>
    PROVE  /\ \A a, k : Entry(SkipHead(s), a, k) <=> Entry(s, a, k)
           /\ \A x \in HashSpace : \A a, k : Entry(PassHead(s, x), a, k) <=> Entry(s, a, k)
    <1>1. PICK h \in Rank :
            /\ h.addr = s[1].addr /\ h.key = s[1].key
            /\ Ranks(SkipHead(s)) = {r \in Ranks(s) : r.addr # h.addr} \cup {h}
        BY SkipProperties
    <1>2. \A a, k : Entry(SkipHead(s), a, k) <=> Entry(s, a, k)
        BY <1>1, MovedEntry
    <1>3. ASSUME NEW x \in HashSpace
          PROVE  \A a, k : Entry(PassHead(s, x), a, k) <=> Entry(s, a, k)
        <2>1. PICK h2 \in Rank :
                /\ h2.addr = s[1].addr /\ h2.key = s[1].key
                /\ Ranks(PassHead(s, x)) = {r \in Ranks(s) : r.addr # h2.addr} \cup {h2}
            BY PassProperties
        <2>. QED
            BY <2>1, MovedEntry
    <1>. QED
        BY <1>2, <1>3

\* An address of the table has one entry, the rank that rankMap gives for it.
LEMMA EntryOfAddress ==
    ASSUME NEW s, IsTable(s), NEW a
    PROVE  /\ a \in Addresses(s) <=> \E k \in PublicHash : Entry(s, a, k)
           /\ a \in Addresses(s) => \A k : Entry(s, a, k) <=> k = s[IndexOf(s, a)].key
           /\ \A k : Entry(s, a, k) => a \in Addresses(s) /\ k \in PublicHash
    <1>1. /\ \A q, r \in Ranks(s) : q.addr = r.addr => q = r
          /\ Addresses(s) = {r.addr : r \in Ranks(s)}
          /\ \A r \in Ranks(s) : r.key \in PublicHash
        BY OneRankPerAddress, RankFields
    <1>2. ASSUME a \in Addresses(s)
          PROVE  \A k : Entry(s, a, k) <=> k = s[IndexOf(s, a)].key
        <2>1. \E i \in DOMAIN s : s[i].addr = a
            BY <1>2 DEF Addresses
        <2>2. IndexOf(s, a) \in DOMAIN s /\ s[IndexOf(s, a)].addr = a
            BY <2>1, Zenon DEF IndexOf
        <2>3. s[IndexOf(s, a)] \in Ranks(s)
            BY <2>2, Zenon DEF Ranks
        <2>. QED
            BY <1>1, <2>2, <2>3, Zenon DEF Entry
    <1>3. \A k : Entry(s, a, k) => a \in Addresses(s) /\ k \in PublicHash
        BY <1>1, Zenon DEF Entry
    <1>4. a \in Addresses(s) => \E k \in PublicHash : Entry(s, a, k)
        BY <1>1, Zenon DEF Entry
    <1>. QED
        BY <1>2, <1>3, <1>4, Zenon

\* A head that moves two phases up goes behind all that are at most one above it.
LEMMA SkippedPlaces ==
    ASSUME NEW s, IsTable(s), NEW n \in Nat, n >= 1, n + 1 <= Len(s), s[n + 1].phase <= s[1].phase + 1
    PROVE  SkipHead(s)[1] = s[2] /\ SkipHead(s)[n] = s[n + 1]
    <1>1. s \in Seq(Rank) /\ Len(s) \in Nat /\ s # <<>>
        BY DEF IsTable
    <1>2. s[1] \in Rank /\ s[n + 1] \in Rank
        BY <1>1
    <1>3. /\ s[1].addr \in Address /\ s[1].key \in PublicHash /\ s[1].hash \in HashSpace
          /\ s[1].phase \in Nat /\ s[n + 1].phase \in Nat
        BY <1>2, RankFields
    <1>4. PICK h \in Rank : /\ h = NewRank(s[1].addr, s[1].key, s[1].phase + 2, s[1].hash)
                            /\ h.phase = s[1].phase + 2
        BY <1>3, NewRankFields
    <1>5. PICK t \in Seq(Rank) : /\ t = Tail(s) /\ Ascending(t) /\ Len(t) = Len(s) - 1
                                 /\ \A j \in 1..(Len(s) - 1) : t[j] = s[j + 1]
        <2>1. IsTable(Tail(s)) /\ Len(Tail(s)) = Len(s) - 1
            BY <1>1, TailProperties
        <2>2. \A j \in 1..(Len(s) - 1) : Tail(s)[j] = s[j + 1]
            BY <1>1
        <2>. QED
            BY <2>1, <2>2 DEF IsTable
    <1>6. SkipHead(s) = PutAt(t, SearchAbove(t, h), h)
        BY <1>4, <1>5 DEF SkipHead, ReinsertHead, InsertRankToList
    <1>7. PICK k \in 1..(Len(t) + 1) : /\ k = SearchAbove(t, h)
                                       /\ \A j \in k..Len(t) : Less(h, t[j])
        BY <1>5, SearchAboveProperties
    <1>8. t[n] = s[n + 1] /\ t[1] = s[2] /\ n \in 1..Len(t)
        BY <1>1, <1>5
    <1>9. ~Less(h, t[n])
        <2>1. Less(h, s[n + 1]) => h.phase <= s[n + 1].phase
            BY <1>2, LessIsOrder
        <2>. QED
            BY <1>3, <1>4, <1>8, <2>1
    <1>10. n < k
        BY <1>7, <1>8, <1>9
    <1>11. \A j \in 1..(k - 1) : PutAt(t, k, h)[j] = t[j]
        BY PutAtProperties
    <1>. QED
        BY <1>6, <1>7, <1>8, <1>10, <1>11
=============================================================================
