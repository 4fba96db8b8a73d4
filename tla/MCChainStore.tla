---------------------------- MODULE MCChainStore ----------------------------
(***************************************************************************)
(* An instance of ChainStore: two keys beside the height.  Blocks write    *)
(* the first key, the second, or delete the first and write the second.    *)
(***************************************************************************)
EXTENDS ChainStore

MCKeyOrder == <<"a", "height", "z">>

MCChanges(h) ==
    [k \in {"a", "height", "z"} |->
        CASE k = "height" -> h
          [] k = "a" -> (IF h % 3 = 2 THEN Absent ELSE IF h % 3 = 0 THEN h ELSE Same)
          [] k = "z" -> (IF h % 3 = 0 THEN Same ELSE h)]

Budget(c, r, f, s) == [crash |-> c, close |-> r, fail |-> f, shrink |-> s]

\* Two crashes, or one crash with another fault before or after it.
MCBudgets == {Budget(2, 0, 0, 0), Budget(1, 1, 0, 0), Budget(1, 0, 1, 0), Budget(1, 0, 0, 1)}

=============================================================================
