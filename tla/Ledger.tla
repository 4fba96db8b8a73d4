------------------------------- MODULE Ledger -------------------------------
(***************************************************************************)
(* What a transaction may expect of the state it runs on: a stack of       *)
(* complete copies of the ledger.  A snapshot copies the ledger, a revert  *)
(* throws copies away, a commit keeps the newest copy, and storing a block *)
(* makes the only copy left the stored one.  The module Context, which     *)
(* keeps differences and deletion marks instead of copies, is checked      *)
(* against it.                                                             *)
(***************************************************************************)
EXTENDS Naturals, Sequences, SequencesExt

CONSTANTS
    Address,    \* addresses of accounts
    Key,        \* keys of account data and process data
    Owner,      \* [Key -> Address \cup {None}], the account a key belongs to
    Value,      \* the values data may have
    Utxo,       \* identifiers of unspent outputs
    None        \* no value, no account

VARIABLES
    levels,     \* the stack of ledgers, the newest last
    disk        \* the stored ledger

vars == <<levels, disk>>

Top == Last(levels)

SetTop(ledger) ==
    /\ levels' = [levels EXCEPT ![Len(levels)] = ledger]
    /\ UNCHANGED disk

CreateAccount(a) ==
    /\ a \notin Top.acc \cup Top.gone
    /\ SetTop([Top EXCEPT !.acc = @ \cup {a}])

\* The account's sequence and data go with it.
DeleteAccount(a) ==
    /\ a \in Top.acc
    /\ SetTop([Top EXCEPT
            !.acc = @ \ {a},
            !.gone = @ \cup {a},
            !.seq[a] = 0,
            !.data = [k \in Key |-> IF Owner[k] = a THEN None ELSE @[k]]])

AddSeq(a) ==
    /\ a \in Top.acc
    /\ SetTop([Top EXCEPT !.seq[a] = @ + 1])

Write(k, v) ==
    /\ Owner[k] \notin Top.gone
    /\ SetTop([Top EXCEPT !.data[k] = v])

\* An output created in a block can be spent from the next block on.
CreateUTXO(u) ==
    /\ u \notin Top.utxo \cup Top.spent
    /\ SetTop([Top EXCEPT !.pending = @ \cup {u}])

DeleteUTXO(u) ==
    /\ u \in Top.utxo
    /\ SetTop([Top EXCEPT !.utxo = @ \ {u}, !.spent = @ \cup {u}])

\* The events of a block are numbered from 0.
EmitEvent == SetTop([Top EXCEPT !.events = Append(@, Len(@))])

Snapshot ==
    /\ levels' = Append(levels, Top)
    /\ UNCHANGED disk

Revert(sn) ==
    /\ levels' = SubSeq(levels, 1, sn - 1)
    /\ UNCHANGED disk

Commit(sn) ==
    /\ levels' = Append(SubSeq(levels, 1, sn - 2), Top)
    /\ UNCHANGED disk

Persist ==
    /\ Len(levels) = 1
    /\ disk' = [Top EXCEPT !.utxo = @ \cup Top.pending, !.pending = {}, !.spent = {}, !.events = <<>>]
    /\ levels' = <<disk'>>

Init == levels = <<disk>>

Next ==
    \/ \E a \in Address : CreateAccount(a) \/ DeleteAccount(a) \/ AddSeq(a)
    \/ \E k \in Key, v \in Value \cup {None} : Write(k, v)
    \/ \E u \in Utxo : CreateUTXO(u) \/ DeleteUTXO(u)
    \/ EmitEvent
    \/ Snapshot
    \/ \E sn \in 2 .. Len(levels) : Revert(sn) \/ Commit(sn)
    \/ Persist

Spec == Init /\ [][Next]_vars
=============================================================================
