------------------------------ MODULE Context -------------------------------
(***************************************************************************)
(* The state a block is executed on (core/types/context.go and             *)
(* context_data.go) and the write of its result to the store               *)
(* (core/chain/store.go, applyContextData).                                *)
(*                                                                         *)
(* A Context is a stack of ContextData.  Each holds what was read or       *)
(* written since its snapshot was taken, and separate maps of what was     *)
(* deleted; a lookup goes down the stack and then to the store.  A map     *)
(* from keys is a total function here, with None (or 0, for sequences) for *)
(* a key the map does not have.  AccountDataMap and ProcessDataMap are one *)
(* map: a key with an Owner is account data, any other process data.       *)
(* isTop is true of the newest ContextData only, and is not a field.       *)
(***************************************************************************)
EXTENDS Naturals, Sequences, FiniteSets, SequencesExt, FiniteSetsExt

CONSTANTS
    Address, Name, Key, Value, Utxo, None,
    NameOf,         \* [Address -> Name]
    HeightOf,       \* [Address -> Nat], the height an address is made of
    Owner,          \* [Key -> Address \cup {None}]
    InitAccounts,   \* the accounts the store begins with
    InitUtxo,       \* the outputs the store begins with
    RewriteDeleted, \* whether a key deleted in an earlier snapshot of the
                    \* block may be written again
    MaxStack,       \* bound on the number of snapshots
    MaxHeight,      \* bound on the number of blocks
    MaxSeq,         \* bound on an account's sequence
    MaxEvents       \* bound on the events of a block

VARIABLES
    store,          \* what is stored
    stack,          \* the stack of ContextData
    height          \* the target height of the context

vars == <<store, stack, height>>

ASSUME ContextAssumption ==
    /\ NameOf \in [Address -> Name]
    /\ HeightOf \in [Address -> Nat]
    /\ Owner \in [Key -> Address \cup {None}]
    /\ InitAccounts \subseteq Address
    /\ InitUtxo \subseteq Utxo
    /\ RewriteDeleted \in BOOLEAN
    /\ {MaxStack, MaxHeight, MaxSeq, MaxEvents} \subseteq Nat

-----------------------------------------------------------------------------
(* ContextData. *)

NewContextData(n) ==
    [seq |-> [a \in Address |-> 0],
     acc |-> {}, delAcc |-> {},
     names |-> [n0 \in Name |-> None],
     data |-> [k \in Key |-> None], delData |-> {},
     utxo |-> {}, created |-> {}, delUtxo |-> {},
     events |-> <<>>, eventN |-> n]

Top == Last(stack)

(* Lookups of the store.  Where a deleted account was there is a mark; the *)
(* name of a deleted account still leads to its address.                   *)

StoreAccount(a) ==
    CASE a \in store.acc  -> "live"
      [] a \in store.gone -> "deleted"
      [] OTHER            -> "none"

\* SeqMap keeps what was read or stored, which is what the key has.
StoreSeq(a)  == store.seq[a]
StoreName(n) == store.names[n]
StoreData(k) == store.data[k]
StoreUTXO(u) == IF u \in store.utxo THEN "unspent" ELSE "none"

NameOfDeleted(n) == StoreName(n) # None /\ StoreAccount(StoreName(n)) = "deleted"

(* Lookups seen from level i of the stack: the newest of the levels up to  *)
(* i that has the key in one of its maps decides, else the store does.     *)

AccountAt(i, a) ==
    LET D == {j \in 1 .. i : a \in stack[j].acc \cup stack[j].delAcc}
    IN IF D = {} THEN StoreAccount(a)
       ELSE IF a \in stack[Max(D)].delAcc THEN "deleted" ELSE "live"

SeqAt(i, a) ==
    LET D == {j \in 1 .. i : a \in stack[j].delAcc \/ stack[j].seq[a] > 0}
    IN IF D = {} THEN StoreSeq(a)
       ELSE IF a \in stack[Max(D)].delAcc THEN 0 ELSE stack[Max(D)].seq[a]

NameAt(i, n) ==
    LET D == {j \in 1 .. i : stack[j].names[n] # None}
    IN IF D = {} THEN StoreName(n) ELSE stack[Max(D)].names[n]

DataAt(i, k) ==
    LET D == {j \in 1 .. i : k \in stack[j].delData \/ stack[j].data[k] # None}
    IN IF D = {} THEN StoreData(k)
       ELSE IF k \in stack[Max(D)].delData THEN None ELSE stack[Max(D)].data[k]

UTXOAt(i, u) ==
    LET D == {j \in 1 .. i : u \in stack[j].utxo \cup stack[j].delUtxo}
    IN IF D = {} THEN StoreUTXO(u)
       ELSE IF u \in stack[Max(D)].delUtxo THEN "used" ELSE "unspent"

StackSize == Len(stack)

SetTop(ctd) ==
    /\ stack' = [stack EXCEPT ![StackSize] = ctd]
    /\ UNCHANGED <<store, height>>

-----------------------------------------------------------------------------
(* Reads: the top keeps what it found further down. *)

ReadSeq(a) ==
    SetTop([Top EXCEPT !.seq[a] = IF a \in Top.delAcc THEN @ ELSE SeqAt(StackSize, a)])

Account(a) ==
    /\ AccountAt(StackSize, a) = "live"
    /\ SetTop([Top EXCEPT !.acc = @ \cup {a}])

\* The store refuses the name of a deleted account.
AddressByName(n) ==
    /\ NameAt(StackSize, n) # None
    /\ (\A j \in 1 .. StackSize : stack[j].names[n] = None) => ~NameOfDeleted(n)
    /\ SetTop([Top EXCEPT !.names[n] = NameAt(StackSize, n)])

AccountData(k) ==
    SetTop([Top EXCEPT !.data[k] = DataAt(StackSize, k)])

UTXO(u) ==
    /\ UTXOAt(StackSize, u) = "unspent"
    /\ SetTop([Top EXCEPT !.utxo = @ \cup {u}])
-----------------------------------------------------------------------------
(* Writes. *)

\* The accounts that send transactions exist.
AddSeq(a) ==
    /\ AccountAt(StackSize, a) = "live"
    /\ SeqAt(StackSize, a) < MaxSeq
    /\ SetTop([Top EXCEPT !.seq[a] = SeqAt(StackSize, a) + 1])

\* Mutant: the name is looked for in the top only.
CreateAccountTopName(a) ==
    /\ \A j \in 1 .. StackSize : a \notin stack[j].delAcc
    /\ HeightOf[a] = height
    /\ AccountAt(StackSize, a) = "none"
    /\ Top.names[NameOf[a]] = None
    /\ SetTop([Top EXCEPT !.acc = @ \cup {a}, !.names[NameOf[a]] = a])

\* An address is made of the height and the index of the transaction that
\* creates the account, so it is not used again after that transaction.
CreateAccount(a) ==
    /\ \A j \in 1 .. StackSize : a \notin stack[j].delAcc
    /\ HeightOf[a] = height
    /\ AccountAt(StackSize, a) = "none"
    /\ NameAt(StackSize, NameOf[a]) = None
    /\ SetTop([Top EXCEPT !.acc = @ \cup {a}, !.names[NameOf[a]] = a])

DeleteAccount(a) ==
    /\ AccountAt(StackSize, a) = "live"
    /\ SetTop([Top EXCEPT !.delAcc = @ \cup {a},
                          !.acc = @ \ {a},
                          !.names[NameOf[a]] = None])

\* SetAccountData and SetProcessData; an empty value deletes.
SetData(k, v) ==
    /\ ~(v # None /\ ~RewriteDeleted /\ \E j \in 1 .. StackSize - 1 : k \in stack[j].delData)
    /\ SetTop([Top EXCEPT !.data[k] = v,
                          !.delData = IF v = None THEN @ \cup {k} ELSE @ \ {k}])

CreateUTXO(u) ==
    /\ UTXOAt(StackSize, u) = "none"
    /\ SetTop([Top EXCEPT !.created = @ \cup {u}])

\* UTXO has put the output in the top's UTXOMap, where it stays.
DeleteUTXO(u) ==
    /\ UTXOAt(StackSize, u) = "unspent"
    /\ SetTop([Top EXCEPT !.utxo = @ \cup {u}, !.delUtxo = @ \cup {u}])

EmitEvent ==
    /\ Top.eventN < MaxEvents
    /\ SetTop([Top EXCEPT !.events = Append(@, Top.eventN), !.eventN = @ + 1])

-----------------------------------------------------------------------------
(* Snapshots. *)

SetStack(s) ==
    /\ stack' = s
    /\ UNCHANGED <<store, height>>

Snapshot ==
    /\ StackSize < MaxStack
    /\ SetStack(Append(stack, NewContextData(Top.eventN)))

Revert(sn) == SetStack(SubSeq(stack, 1, sn - 1))

\* f where it has a value, else g.
Over(f, g, no) == [x \in DOMAIN f |-> IF f[x] # no THEN f[x] ELSE g[x]]

\* Mutant: the snapshot's deletions are forgotten.
MergeForgets(ctd, top) ==
    [seq |-> Over(ctd.seq, top.seq, 0),
     acc |-> top.acc \cup ctd.acc,
     delAcc |-> top.delAcc,
     names |-> Over(ctd.names, top.names, None),
     data |-> Over(ctd.data, top.data, None),
     delData |-> top.delData,
     utxo |-> top.utxo \cup ctd.utxo,
     created |-> top.created \cup ctd.created,
     delUtxo |-> top.delUtxo,
     events |-> top.events \o ctd.events,
     eventN |-> ctd.eventN]

\* One round of Commit's loop: ctd is folded into the snapshot below it.
Merge(ctd, top) ==
    [seq |-> Over(ctd.seq, top.seq, 0),
     acc |-> (top.acc \cup ctd.acc) \ ctd.delAcc,
     delAcc |-> top.delAcc \cup ctd.delAcc,
     names |-> Over(ctd.names, top.names, None),
     data |-> [k \in Key |-> IF k \in ctd.delData THEN None
                             ELSE Over(ctd.data, top.data, None)[k]],
     delData |-> top.delData \cup ctd.delData,
     utxo |-> (top.utxo \cup ctd.utxo) \ ctd.delUtxo,
     created |-> (top.created \cup ctd.created) \ ctd.delUtxo,
     delUtxo |-> top.delUtxo \cup ctd.delUtxo,
     events |-> top.events \o ctd.events,
     eventN |-> ctd.eventN]

Commit(sn) ==
    SetStack(Append(SubSeq(stack, 1, sn - 2),
                    FoldRight(LAMBDA top, ctd : Merge(ctd, top),
                              SubSeq(stack, sn - 1, StackSize - 1), Top)))

-----------------------------------------------------------------------------
(* Storing the block. *)

\* Deletions are written after the values; the name of a deleted account
\* and its sequence stay.
ApplyContextData(ctd) ==
    [seq |-> Over(ctd.seq, store.seq, 0),
     acc |-> (store.acc \cup ctd.acc) \ ctd.delAcc,
     gone |-> (store.gone \ ctd.acc) \cup ctd.delAcc,
     names |-> [n \in Name |-> LET S == {a \in ctd.acc : NameOf[a] = n}
                               IN IF S = {} THEN store.names[n] ELSE CHOOSE a \in S : TRUE],
     data |-> [k \in Key |-> IF k \in ctd.delData \/ Owner[k] \in ctd.delAcc THEN None
                             ELSE Over(ctd.data, store.data, None)[k]],
     utxo |-> (store.utxo \cup ctd.utxo \cup ctd.created) \ ctd.delUtxo]

\* A context with open snapshots is refused (ErrDirtyContext).
Store ==
    /\ StackSize = 1
    /\ height < MaxHeight
    /\ store' = ApplyContextData(Top)
    /\ height' = height + 1
    /\ stack' = <<NewContextData(0)>>

Init ==
    /\ store = [seq |-> [a \in Address |-> 0],
                acc |-> InitAccounts, gone |-> {},
                names |-> [n \in Name |->
                    IF \E a \in InitAccounts : NameOf[a] = n
                    THEN CHOOSE a \in InitAccounts : NameOf[a] = n ELSE None],
                data |-> [k \in Key |-> None],
                utxo |-> InitUtxo]
    /\ height = 1
    /\ stack = <<NewContextData(0)>>

Next ==
    \/ \E a \in Address :
        ReadSeq(a) \/ Account(a) \/ AddSeq(a) \/ CreateAccount(a) \/ DeleteAccount(a)
    \/ \E n \in Name : AddressByName(n)
    \/ \E k \in Key : AccountData(k) \/ \E v \in Value \cup {None} : SetData(k, v)
    \/ \E u \in Utxo : UTXO(u) \/ CreateUTXO(u) \/ DeleteUTXO(u)
    \/ EmitEvent
    \/ Snapshot
    \/ \E sn \in 2 .. StackSize : Revert(sn) \/ Commit(sn)
    \/ Store

Spec == Init /\ [][Next]_vars

-----------------------------------------------------------------------------
(* Properties. *)

Levels == 1 .. StackSize

\* The ledger as seen from level i; level 0 is the store.  A deleted account
\* has neither a sequence nor data.
View(i) ==
    [acc |-> {a \in Address : AccountAt(i, a) = "live"},
     gone |-> {a \in Address : AccountAt(i, a) = "deleted"},
     seq |-> [a \in Address |-> IF AccountAt(i, a) = "deleted" THEN 0 ELSE SeqAt(i, a)],
     data |-> [k \in Key |-> IF Owner[k] # None /\ AccountAt(i, Owner[k]) = "deleted"
                             THEN None ELSE DataAt(i, k)],
     utxo |-> {u \in Utxo : UTXOAt(i, u) = "unspent"},
     spent |-> UNION {stack[j].delUtxo : j \in 1 .. i},
     pending |-> UNION {stack[j].created : j \in 1 .. i},
     events |-> FlattenSeq([j \in 1 .. i |-> stack[j].events])]

Views == [i \in Levels |-> View(i)]

\* At every snapshot and in the store, no two accounts that exist have the
\* same name, and the name of an existing account leads to it: CreateAccount
\* looks up the name through all snapshots and the store, while DeleteAccount
\* takes a name out of the top only.
NamesLeadToAccounts ==
    \A i \in 0 .. StackSize, a \in Address :
        AccountAt(i, a) = "live" => NameAt(i, NameOf[a]) = a
=============================================================================
