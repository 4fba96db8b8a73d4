------------------------------- MODULE Loader -------------------------------
(***************************************************************************)
(* What the transactions of the processes read and write: the ledger that  *)
(* a ContextWrapper shows them.  A ledger is a value; Execute of a         *)
(* transaction is an operator from a ledger to a ledger.                   *)
(*                                                                         *)
(* ok is the error of a Go function: Fail is "return err", and after it no *)
(* operator of this module changes the ledger, so what was written before  *)
(* the error stays written, as it does in the code.                        *)
(*                                                                         *)
(* data is what AccountData and ProcessData return: a key is a tuple of    *)
(* the owner (an account, or Process), the tag and the rest of the name.   *)
(* del are the keys the current snapshot has deleted.  Commit copies the   *)
(* writes of a snapshot to the one below and keeps the deletions of both,  *)
(* so that a key deleted below and written above is lost (module Context   *)
(* has the code's maps); lost records that this happened.                  *)
(***************************************************************************)
EXTENDS Naturals, Sequences, FiniteSets, TLC, SequencesExt, FiniteSetsExt, Functions

CONSTANTS Nil,       \* no bytes
          Process    \* the owner of the data of a process

Empty == [x \in {} |-> Nil]

\* big.Int.Bytes of zero is empty, and setting a key to no bytes deletes it.
Bytes(am) == IF am = 0 THEN Nil ELSE am

Put(f, x, v)  == (x :> v) @@ f
Without(f, S) == Restrict(f, DOMAIN f \ S)
At(f, x)      == IF x \in DOMAIN f THEN f[x] ELSE 0

Fail(l) == [l EXCEPT !.ok = FALSE]

Get(l, key, default) == IF key \in DOMAIN l.data THEN l.data[key] ELSE default

Set(l, key, value) ==
    CASE ~l.ok       -> l
      [] value = Nil -> [l EXCEPT !.data = Without(@, {key}), !.del = @ \cup {key}]
      [] OTHER       -> [l EXCEPT !.data = Put(@, key, value), !.del = @ \ {key}]

-----------------------------------------------------------------------------
(* Snapshots.                                                              *)

Snapshot(l) == [l EXCEPT !.del = {}]

\* Commit of the snapshot above, taken when the ledger was below.
Commit(below, above) ==
    [above EXCEPT !.data = Without(@, below.del),
                  !.del  = @ \cup below.del,
                  !.lost = @ \/ DOMAIN above.data \cap below.del # {}]

-----------------------------------------------------------------------------
(* Accounts.  NewAddress(height, index): the address an account gets from  *)
(* the block and the position of the transaction that makes it.            *)

HasAccount(l, addr) == addr \in DOMAIN l.acc

NewAddress(l, index) == <<l.height, index>>
ZeroAddress          == <<0, 0>>

\* AddressAddressMap and the other sorted maps: the order of the bytes.
Before(a, b) == a[1] < b[1] \/ (a[1] = b[1] /\ a[2] < b[2])
Sorted(S)    == SetToSortSeq(S, Before)

Seq_(l, addr)    == At(l.seq, addr)
AddSeq(l, addr)  == [l EXCEPT !.seq = Put(@, addr, Seq_(l, addr) + 1)]

CreateAccount(l, addr, acc) ==
    CASE ~l.ok -> l
      [] HasAccount(l, addr) \/ acc.name \in l.names -> Fail(l)
      [] OTHER -> [l EXCEPT !.acc = Put(@, addr, acc), !.names = @ \cup {acc.name}]

\* The name of a stored account stays taken.
DeleteAccount(l, addr) ==
    IF l.ok THEN [l EXCEPT !.acc = Without(@, {addr}), !.gone = @ \cup {addr}] ELSE l

-----------------------------------------------------------------------------
(* The tables by which the processes enumerate keys: number(x) is the      *)
(* position of x, reverse(i) the element at it, count their number.  The   *)
(* last element takes the place of a removed one.                          *)

NumberKey(table, x)  == Append(table, "number") \o <<x>>
ReverseKey(table, i) == Append(table, "reverse") \o <<i>>
CountKey(table)      == Append(table, "count")

CountOf(l, table)  == Get(l, CountKey(table), 0)
Indexed(l, table, x) == NumberKey(table, x) \in DOMAIN l.data

\* A missing reverse entry is read as the zero address.
ItemAt(l, table, i) == Get(l, ReverseKey(table, i), ZeroAddress)
Items(l, table)     == {ItemAt(l, table, i) : i \in 0 .. CountOf(l, table) - 1}

InsertItem(l, table, x) ==
    IF Indexed(l, table, x) THEN l
    ELSE LET n  == CountOf(l, table)
             l1 == Set(l, NumberKey(table, x), n)
             l2 == Set(l1, ReverseKey(table, n), x)
         IN  Set(l2, CountKey(table), n + 1)

RemoveItem(l, table, x) ==
    IF ~Indexed(l, table, x) THEN l
    ELSE LET number == Get(l, NumberKey(table, x), 0)
             last   == CountOf(l, table) - 1
             moved  == ItemAt(l, table, last)
             l1 == IF number = last THEN l
                   ELSE Set(Set(l, ReverseKey(table, number), moved), NumberKey(table, moved), number)
             l2 == Set(Set(l1, NumberKey(table, x), Nil), ReverseKey(table, last), Nil)
         IN  Set(l2, CountKey(table), Bytes(last))

\* The flush functions delete every key of the table.
FlushItems(l, table) ==
    LET n    == CountOf(l, table)
        keys == {ReverseKey(table, i) : i \in 0 .. n - 1} \cup {NumberKey(table, x) : x \in Items(l, table)}
                \cup {CountKey(table)}
    IN  IF ~l.ok \/ n = 0 THEN l ELSE [l EXCEPT !.data = Without(@, keys), !.del = @ \cup keys]

=============================================================================
