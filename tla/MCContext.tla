------------------------------ MODULE MCContext -----------------------------
(***************************************************************************)
(* An instance of Context for TLC.  A block does many kinds of things, and *)
(* TLC explores a few of them at a time: the scope, chosen at the start,   *)
(* says which part of the state a behaviour touches.                       *)
(***************************************************************************)
EXTENDS Context

CONSTANTS a0, a1, a2, a3, n0, n1

\* The first account has a name of its own, the others want the same one.
MCNameOf == [a \in Address |-> IF a = a0 THEN n0 ELSE n1]

\* a1 can be created in the second block, the others in the first.
MCHeightOf == [a \in Address |-> IF a = a1 THEN 2 ELSE 1]

\* The data belong to the first account.
MCOwner == [k \in Key |-> a0]

VARIABLES
    scope,          \* what the behaviour touches
    levels, disk    \* what the stack and the store mean

Scopes == {"data", "accounts", "utxo", "seq", "events"}

AccountsOf(s) == CASE s \in {"data", "seq"} -> {a0} [] s = "accounts" -> Address \ {a0} [] s \in {"utxo", "events"} -> {}

Within(s, ctd) ==
    /\ s # "events" => ctd.eventN = 0
    /\ s # "seq" => \A a \in Address : ctd.seq[a] = 0
    /\ s # "utxo" => ctd.utxo \cup ctd.created \cup ctd.delUtxo = {}
    /\ s # "data" => ctd.delData = {} /\ \A k \in Key : ctd.data[k] = None
    /\ ctd.acc \cup ctd.delAcc \subseteq AccountsOf(s)
    /\ \A a \in Address \ AccountsOf(s) : ctd.names[NameOf[a]] # a

-----------------------------------------------------------------------------
(* levels and disk follow the stack and the store: TLC compares them with  *)
(* the abstract ledger at every step.  A step that keeps the size of the   *)
(* stack changes its top only.                                             *)

LedgerInit == Init /\ scope \in Scopes /\ levels = Views /\ disk = View(0)

LedgerNext ==
    /\ Next
    /\ Within(scope, Top') /\ scope' = scope
    /\ levels' = IF StackSize' = StackSize THEN [levels EXCEPT ![StackSize] = View(StackSize)'] ELSE Views'
    /\ disk' = IF store' = store THEN disk ELSE View(0)'

LedgerSpec == LedgerInit /\ [][LedgerNext]_<<vars, scope, levels, disk>>

L == INSTANCE Ledger WITH levels <- levels, disk <- disk

\* The stack of differences, its deletion marks, what reads leave in the top
\* and the order in which a block is written behave as a stack of complete
\* copies of the ledger: a revert restores what the snapshot saw, a commit
\* keeps all that was done since, and what is stored is what was read last
\* (Context.Snapshot, Revert, Commit; applyContextData).
ImplementsLedger == L!Spec
=============================================================================
