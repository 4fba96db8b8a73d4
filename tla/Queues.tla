------------------------------- MODULE Queues -------------------------------
(***************************************************************************)
(* The queues of common/queue, each against what it stands for:            *)
(*                                                                         *)
(*   Queue, a sequence of pages that are rings of a fixed size and are     *)
(*   recycled through a sync.Pool, is a first-in first-out queue;          *)
(*   LinkedQueue, a doubly linked list with a map from the keys to the     *)
(*   nodes, is one from which an item can be removed by its key;           *)
(*   SortedQueue, a slice with a window that moves through it, is a set    *)
(*   of priorities that is taken from its lower end.                       *)
(*                                                                         *)
(* Every method holds the lock of the queue, so a call is one step.  want  *)
(* is what the queue stands for, got the answer of the last call and due   *)
(* the one that what it stands for gives.  The indexes are those of the    *)
(* code, from 0; index i of a slice is place i + 1 of a sequence.          *)
(***************************************************************************)
EXTENDS Naturals, Sequences, FiniteSets, FiniteSetsExt, SequencesExt

CONSTANTS
    Item,        \* items of a Queue, keys of a LinkedQueue
    Priority,    \* priorities of a SortedQueue
    NoItem,      \* nil
    PageCap,     \* the items of a page (1024 in the code)
    Large,       \* a slice longer than this is compacted (4096)
    Few,         \* fewer items than this move to a new slice (1024)
    Fresh,       \* the length of that slice (2048)
    MaxContent   \* bound on the items in a Queue or a LinkedQueue

VARIABLES q, want, got, due, kind

qVars == <<q, want, got, due, kind>>

Answers(g, d) == got' = g /\ due' = d

Foremost(s) == IF s = <<>> THEN NoItem ELSE Head(s)
Rest(s)   == IF s = <<>> THEN s ELSE Tail(s)

-----------------------------------------------------------------------------
(* Queue. *)

FreshPage == [queue |-> [i \in 0 .. PageCap - 1 |-> NoItem], head |-> 0, tail |-> 0, size |-> 0]
NewQueue  == [pages |-> <<>>, size |-> 0, free |-> {}]

PagePush(page, x) ==
    IF page.size >= PageCap THEN page
    ELSE [queue |-> [page.queue EXCEPT ![page.tail] = x], head |-> page.head,
          tail |-> (page.tail + 1) % PageCap, size |-> page.size + 1]

PagePeek(page) == IF page.size = 0 THEN NoItem ELSE page.queue[page.head]

PagePop(page) ==
    IF page.size = 0 THEN page
    ELSE [page EXCEPT !.head = (@ + 1) % PageCap, !.size = @ - 1]

PageIter(page) == [i \in 1 .. page.size |-> page.queue[(page.head + i - 1) % PageCap]]

QueueIter(p) == FlattenSeq([i \in DOMAIN p.pages |-> PageIter(p.pages[i])])

\* A page of queuePagePool is a new one or the one that was given back last.
QueuePush(p, x, page) ==
    IF p.pages = <<>> \/ Last(p.pages).size = PageCap
    THEN [pages |-> Append(p.pages, PagePush(page, x)), size |-> p.size + 1, free |-> p.free \ {page}]
    ELSE [p EXCEPT !.pages[Len(p.pages)] = PagePush(@, x), !.size = @ + 1]

QueuePeek(p) == IF p.pages = <<>> THEN NoItem ELSE PagePeek(Head(p.pages))

QueuePop(p) ==
    IF QueuePeek(p) = NoItem THEN p
    ELSE LET page == PagePop(Head(p.pages))
         IN IF page.size = 0 /\ Len(p.pages) > 1
            THEN [pages |-> Tail(p.pages), size |-> p.size - 1, free |-> {page}]
            ELSE [p EXCEPT !.pages[1] = page, !.size = @ - 1]

QueueHolds == QueueIter(q) = want /\ q.size = Len(want) /\ QueuePeek(q) = Foremost(want)

PagedNext ==
    /\ kind = "paged"
    /\ UNCHANGED kind
    /\ \/ \E x \in Item, page \in {FreshPage} \cup q.free :
             /\ Len(want) < MaxContent
             /\ q' = QueuePush(q, x, page)
             /\ want' = Append(want, x)
             /\ Answers(NoItem, NoItem)
       \/ /\ q' = QueuePop(q)
          /\ want' = Rest(want)
          /\ Answers(QueuePeek(q), Foremost(want))

-----------------------------------------------------------------------------
(* LinkedQueue: node maps the nodes that are in use to their fields. *)

Nodes == 1 .. 2 * MaxContent + Cardinality(Item)

NewLinkedQueue == [head |-> NoItem, tail |-> NoItem, keyMap |-> [k \in Item |-> NoItem],
                   node |-> [n \in Nodes |-> [prev |-> NoItem, key |-> NoItem, next |-> NoItem]]]

Chain(p) ==
    LET at[i \in 0 .. Cardinality(Nodes)] ==
            IF i = 0 THEN p.head ELSE IF at[i - 1] = NoItem THEN NoItem ELSE p.node[at[i - 1]].next
    IN SelectSeq([i \in 1 .. Cardinality(Nodes) |-> at[i - 1]], LAMBDA n : n # NoItem)

ChainBack(p) ==
    LET at[i \in 0 .. Cardinality(Nodes)] ==
            IF i = 0 THEN p.tail ELSE IF at[i - 1] = NoItem THEN NoItem ELSE p.node[at[i - 1]].prev
    IN SelectSeq([i \in 1 .. Cardinality(Nodes) |-> at[i - 1]], LAMBDA n : n # NoItem)

KeysOf(p, chain) == [i \in DOMAIN chain |-> p.node[chain[i]].key]

\* A node that nothing leads to.
Unused(p) == Min(Nodes \ (ToSet(Chain(p)) \cup {p.keyMap[k] : k \in Item}))

LinkedPush(p, k) ==
    LET n    == Unused(p)
        node == [p.node EXCEPT ![n] = [prev |-> p.tail, key |-> k, next |-> NoItem]]
    IN [head |-> IF p.head = NoItem THEN n ELSE p.head,
        tail |-> n,
        keyMap |-> [p.keyMap EXCEPT ![k] = n],
        node |-> IF p.head = NoItem THEN node ELSE [node EXCEPT ![p.tail].next = n]]

Alone(p, n) == [p EXCEPT !.node[n].prev = NoItem, !.node[n].next = NoItem]

LinkedPop(p) ==
    IF p.head = NoItem THEN p
    ELSE LET n    == p.head
             next == p.node[n].next
             r    == Alone([p EXCEPT !.keyMap[p.node[n].key] = NoItem], n)
         IN IF n = p.tail THEN [r EXCEPT !.head = NoItem, !.tail = NoItem]
            ELSE [r EXCEPT !.head = next, !.node[next].prev = NoItem]

LinkedPeek(p) == IF p.head = NoItem THEN NoItem ELSE p.node[p.head].key

KeyFound(p, k) == p.head # NoItem /\ p.keyMap[k] # NoItem

\* The entry of keyMap stays; a node that was removed before has no neighbours.
LinkedRemove(p, k) ==
    IF ~KeyFound(p, k) THEN p
    ELSE LET n    == p.keyMap[k]
             prev == p.node[n].prev
             next == p.node[n].next
             r    == Alone([p EXCEPT !.head = IF n = @ THEN next ELSE @,
                                     !.tail = IF n = @ THEN prev ELSE @], n)
         IN [r EXCEPT !.node = [m \in Nodes |->
                [@[m] EXCEPT !.prev = IF m = next THEN prev ELSE @,
                             !.next = IF m = prev THEN next ELSE @]]]

LinkedHolds == KeysOf(q, Chain(q)) = want /\ KeysOf(q, ChainBack(q)) = Reverse(want)

\* utxoQ has every key once at most; txWaitQ may have it twice, and is never
\* asked to remove it.
LinkedNext ==
    /\ kind \in {"linked", "waiting"}
    /\ UNCHANGED kind
    /\ \/ \E k \in Item :
             /\ Len(want) < MaxContent
             /\ kind = "linked" => k \notin ToSet(want)
             /\ q' = LinkedPush(q, k)
             /\ want' = Append(want, k)
             /\ Answers(NoItem, NoItem)
       \/ /\ q' = LinkedPop(q)
          /\ want' = Rest(want)
          /\ Answers(LinkedPeek(q), Foremost(want))
       \/ \E k \in Item :
             /\ kind = "linked"
             /\ q' = LinkedRemove(q, k)
             /\ want' = Remove(want, k)
             /\ k \in ToSet(want) => Answers(IF KeyFound(q, k) THEN k ELSE NoItem, k)
             /\ k \notin ToSet(want) => Answers(NoItem, NoItem)

-----------------------------------------------------------------------------
(* SortedQueue. *)

NewSortedQueue == [items |-> <<>>, head |-> 0, size |-> 0]

ItemAt(p, i)     == p.items[p.head + i + 1]
SortedIter(p) == SubSeq(p.items, p.head + 1, p.head + p.size)

\* copy(s[d:], s[a:b])
Copy(s, d, a, b) ==
    [i \in DOMAIN s |-> IF d < i /\ i <= d + (b - a) THEN s[i - d + a] ELSE s[i]]

\* sort.Search: the first place with a larger priority.
SortedSearch(p, x) == Min({i \in 0 .. p.size : i = p.size \/ x < ItemAt(p, i)})

\* Mutant: at the end of the slice, the items above the place go down as well.
RoomBelow(p, idx) ==
    IF p.size = Len(p.items)
    THEN [items |-> Copy(Append(p.items, NoItem), idx + 1, idx, Len(p.items)), head |-> p.head, idx |-> idx]
    ELSE IF p.head + p.size = Len(p.items)
         THEN [items |-> Copy(p.items, p.head - 1, p.head, Len(p.items)), head |-> p.head - 1, idx |-> idx - 1]
         ELSE [items |-> Copy(p.items, idx + 1, idx, p.head + p.size), head |-> p.head, idx |-> idx]

\* The slice and the head after room was made for the place idx.
Room(p, idx) ==
    LET len  == Len(p.items)
        last == p.head + p.size
    IN CASE p.size = len ->
                [items |-> Copy(Append(p.items, NoItem), idx + 1, idx, len), head |-> p.head, idx |-> idx]
         [] p.size # len /\ last = len ->
                LET left == Copy(p.items, p.head - 1, p.head, len)
                IN [items |-> IF idx = last THEN left ELSE Copy(left, idx, idx - 1, last),
                    head |-> p.head - 1, idx |-> idx - 1]
         [] OTHER ->
                [items |-> Copy(p.items, idx + 1, idx, last), head |-> p.head, idx |-> idx]

\* The priority is not in the queue: the only caller is FindOrInsert.
SortedInsert(p, x) ==
    LET r == Room(p, p.head + SortedSearch(p, x))
    IN [items |-> [r.items EXCEPT ![r.idx + 1] = x], head |-> r.head, size |-> p.size + 1]

SortedFind(p, x) ==
    \E i \in 0 .. p.size - 1 : ItemAt(p, i) = x /\ \A j \in 0 .. i : ItemAt(p, j) <= x

SortedPeek(p) == IF p.size = 0 THEN NoItem ELSE ItemAt(p, 0)

Compact(p) ==
    IF Len(p.items) <= Large THEN p
    ELSE IF p.size < Few
         THEN [p EXCEPT !.items = [i \in 1 .. Fresh |-> IF i <= p.size THEN ItemAt(p, i - 1) ELSE NoItem], !.head = 0]
         ELSE IF p.head > Len(p.items) \div 2 + 1
              THEN [p EXCEPT !.items = Copy(@, 0, p.head, p.head + p.size), !.head = 0]
              ELSE p

SortedPop(p) ==
    IF p.size = 0 THEN p
    ELSE Compact([items |-> [p.items EXCEPT ![p.head + 1] = NoItem], head |-> p.head + 1, size |-> p.size - 1])

\* PopUntil drops the priorities below x, and takes x if it is there.
Below(p, x) == Min({i \in 0 .. p.size : i = p.size \/ ItemAt(p, i) >= x})

DropBelow(p, x) ==
    LET after[i \in 0 .. Below(p, x)] == IF i = 0 THEN p ELSE SortedPop(after[i - 1])
    IN after[Below(p, x)]

PopUntil(p, x) ==
    LET r == DropBelow(p, x)
    IN IF SortedPeek(r) = x THEN [q |-> SortedPop(r), item |-> x] ELSE [q |-> r, item |-> NoItem]

SortedHolds == SortedIter(q) = want /\ SortedPeek(q) = Foremost(want)

Sorted(s) == SortSeq(s, <)

SortedNext ==
    /\ kind = "sorted"
    /\ UNCHANGED kind
    /\ \/ \E x \in Priority :
             /\ q' = IF SortedFind(q, x) THEN q ELSE SortedInsert(q, x)
             /\ want' = IF x \in ToSet(want) THEN want ELSE Sorted(Append(want, x))
             /\ Answers(IF SortedFind(q, x) THEN x ELSE NoItem, IF x \in ToSet(want) THEN x ELSE NoItem)
       \/ /\ q' = SortedPop(q)
          /\ want' = Rest(want)
          /\ Answers(SortedPeek(q), Foremost(want))
       \/ \E x \in Priority :
             /\ q' = PopUntil(q, x).q
             /\ want' = SelectSeq(want, LAMBDA y : y > x)
             /\ Answers(PopUntil(q, x).item, IF x \in ToSet(want) THEN x ELSE NoItem)

-----------------------------------------------------------------------------
QueuesInit(k) ==
    /\ kind = k
    /\ q = CASE k = "paged" -> NewQueue [] k = "sorted" -> NewSortedQueue [] OTHER -> NewLinkedQueue
    /\ want = <<>>
    /\ got = NoItem /\ due = NoItem

QueuesNext == PagedNext \/ LinkedNext \/ SortedNext

\* Every queue holds, in the order in which it gives them out, the items that
\* were put in and not taken out, and its answers are theirs: over pages that
\* fill up, wrap around and are used again, over keys that are removed twice,
\* and while the window of a sorted queue moves through its slice.
QueuesHold ==
    /\ got = due
    /\ kind = "paged" => QueueHolds
    /\ kind \in {"linked", "waiting"} => LinkedHolds
    /\ kind = "sorted" => SortedHolds
=============================================================================
