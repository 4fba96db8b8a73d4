------------------------------- MODULE BuntDB -------------------------------
(***************************************************************************)
(* buntdb, the key-value store of the chain state: a tree of keys in       *)
(* memory and an append-only file of the transactions that made it.  A     *)
(* commit writes its commands and a txend in one Write and does not sync;  *)
(* a background goroutine syncs every second, and Shrink writes the tree   *)
(* to a new file, key by key while commits go on, and swaps the files.     *)
(*                                                                         *)
(* A crash loses a suffix of what was written after the last sync.  The    *)
(* cut can be between two commands, inside the data of one, or inside a    *)
(* header line of one, and readLoad treats the three differently.  Rename  *)
(* is assumed to make the renamed file durable.                            *)
(***************************************************************************)
EXTENDS Naturals, Sequences, SequencesExt

CONSTANTS KeyOrder,    \* the keys, in the order of the tree
          Absent,      \* the key has no value
          Same         \* a transaction has no command for the key

Keys == {KeyOrder[i] : i \in DOMAIN KeyOrder}

\* The commands of a transaction: a value, Absent (DEL) or Same (no command).
NoOps == [k \in Keys |-> Same]

Overlay(m, ops) == [k \in Keys |-> IF ops[k] = Same THEN m[k] ELSE ops[k]]

VARIABLES
    keys,      \* db.keys
    aof,       \* the file: the commands of each Write
    durable,   \* how much of the file a crash cannot lose
    shrink,    \* the state of Shrink
    kvOpen     \* the database is open

kvVars == <<keys, aof, durable, shrink, kvOpen>>

Empty    == [k \in Keys |-> Absent]
NoShrink == [on |-> FALSE, endpos |-> 0, done |-> 0, tmp |-> <<>>]

\* A Write of the file.  end: its txend is there.  cut: where a crash has cut it.
Written(ops)         == [ops |-> ops, end |-> TRUE, cut |-> "none"]
Part(w, subset, cut) == [ops |-> [k \in Keys |-> IF k \in subset THEN w.ops[k] ELSE Same], end |-> FALSE, cut |-> cut]

KvInit ==
    /\ keys = Empty
    /\ aof = <<>>
    /\ durable = 0
    /\ shrink = NoShrink
    /\ kvOpen = FALSE

-----------------------------------------------------------------------------
(* readLoad.                                                               *)

\* commiteds: the commands that wait for a txend.
\* Mutant: a command is applied when it is read.
ReadWriteAtOnce(acc, w) ==
    [acc EXCEPT !.db = Overlay(acc.db, w.ops)]

ReadWrite(acc, w) ==
    LET commiteds == Overlay(acc.commiteds, w.ops)
    IN  IF w.end THEN [db |-> Overlay(acc.db, commiteds), commiteds |-> NoOps]
        ELSE [acc EXCEPT !.commiteds = commiteds]

Load(file) == FoldLeft(ReadWrite, [db |-> Empty, commiteds |-> NoOps], file).db

\* A command cut in a header line: ReadBytes returns io.EOF and so does Open.
KvOpenFails == \E i \in DOMAIN aof : aof[i].cut = "header"

\* A command cut in its data: the file is truncated after the last txend.
LastTxPos == LET ends == {i \in DOMAIN aof : aof[i].end} IN IF ends = {} THEN 0 ELSE Max(ends)

Truncated ==
    IF \E i \in DOMAIN aof : aof[i].cut = "data" THEN SubSeq(aof, 1, LastTxPos) ELSE aof

KvOpen ==
    /\ ~kvOpen /\ ~KvOpenFails
    /\ keys' = Load(aof)
    /\ aof' = Truncated
    /\ durable' = Len(aof')
    /\ kvOpen' = TRUE
    /\ shrink' = NoShrink

-----------------------------------------------------------------------------
(* Update: the function of the caller, then Commit.                        *)

Commit(ops) ==
    /\ keys' = Overlay(keys, ops)
    /\ aof' = Append(aof, Written(ops))
    /\ UNCHANGED <<durable, shrink, kvOpen>>

\* The Write fails after some of the commands; rollbackInner restores the keys.
CommitFails(ops) ==
    /\ \E subset \in SUBSET {k \in Keys : ops[k] # Same} :
          aof' = IF subset = {} THEN aof ELSE Append(aof, Part(Written(ops), subset, "none"))
    /\ UNCHANGED <<keys, durable, shrink, kvOpen>>

\* backgroundManager.
Sync ==
    /\ kvOpen /\ durable < Len(aof)
    /\ durable' = Len(aof)
    /\ UNCHANGED <<keys, aof, shrink, kvOpen>>

-----------------------------------------------------------------------------
(* Shrink.                                                                 *)

ShrinkBegin ==
    /\ kvOpen /\ ~shrink.on
    /\ shrink' = [on |-> TRUE, endpos |-> Len(aof), done |-> 0, tmp |-> <<>>]
    /\ UNCHANGED <<keys, aof, durable, kvOpen>>

SetOf(k) == IF keys[k] = Absent THEN <<>> ELSE <<Written([NoOps EXCEPT ![k] = keys[k]])>>

\* The keys that one lock of the database covers.
ShrinkChunk ==
    /\ shrink.on /\ shrink.done < Len(KeyOrder)
    /\ shrink' = [shrink EXCEPT !.done = @ + 1, !.tmp = @ \o SetOf(KeyOrder[shrink.done + 1])]
    /\ UNCHANGED <<keys, aof, durable, kvOpen>>

ShrinkSwap ==
    /\ shrink.on /\ shrink.done = Len(KeyOrder)
    /\ aof' = shrink.tmp \o SubSeq(aof, shrink.endpos + 1, Len(aof))
    /\ durable' = Len(aof')
    /\ shrink' = NoShrink
    /\ UNCHANGED <<keys, kvOpen>>

\* Close: a Shrink that nothing interrupts, a sync, and the file is closed.
KvClose ==
    /\ aof' = FlattenSeq([i \in DOMAIN KeyOrder |-> SetOf(KeyOrder[i])])
    /\ durable' = Len(aof')
    /\ keys' = Empty
    /\ shrink' = NoShrink
    /\ kvOpen' = FALSE

KvCrash ==
    /\ \/ \E n \in durable .. Len(aof) : aof' = SubSeq(aof, 1, n)
       \/ \E n \in durable + 1 .. Len(aof) : \E cut \in {"none", "data", "header"} :
             \E subset \in SUBSET {k \in Keys : aof[n].ops[k] # Same} :
                aof' = Append(SubSeq(aof, 1, n - 1), Part(aof[n], subset, cut))
    /\ durable' = Len(aof')
    /\ keys' = Empty
    /\ shrink' = NoShrink
    /\ kvOpen' = FALSE

=============================================================================
