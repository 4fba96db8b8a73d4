---------------------------- MODULE RequestTimer ----------------------------
(***************************************************************************)
(* The timers of the requests for blocks that a node has sent: timerMap    *)
(* gives the peer that was asked for a height, and valueMap the heights    *)
(* that a peer was asked for.  Add replaces the timer of a height and      *)
(* leaves the height under the peer that was asked before, so valueMap may *)
(* name more than timerMap does.                                           *)
(***************************************************************************)
EXTENDS Naturals

CONSTANTS Heights,    \* the heights that can be asked for
          Values,     \* the peers that can be asked
          NoValue     \* there is no timer

NewRequestTimer == [timerMap |-> [h \in Heights |-> NoValue], valueMap |-> [v \in Values |-> {}]]

Exist(rm, height) == rm.timerMap[height] # NoValue

AddUnlisted(rm, height, value) ==
    IF Exist(rm, height) THEN [rm EXCEPT !.timerMap[height] = value]
    ELSE [timerMap |-> [rm.timerMap EXCEPT ![height] = value],
          valueMap |-> [rm.valueMap EXCEPT ![value] = @ \cup {height}]]

Add(rm, height, value) ==
    [timerMap |-> [rm.timerMap EXCEPT ![height] = value],
     valueMap |-> [rm.valueMap EXCEPT ![value] = @ \cup {height}]]

RemovesByValue(rm, value) ==
    [timerMap |-> [h \in Heights |-> IF h \in rm.valueMap[value] THEN NoValue ELSE rm.timerMap[h]],
     valueMap |-> [rm.valueMap EXCEPT ![value] = {}]]

\* One timer that Run finds expired.
Expired(rm, height) ==
    [timerMap |-> [rm.timerMap EXCEPT ![height] = NoValue],
     valueMap |-> [rm.valueMap EXCEPT ![rm.timerMap[height]] = @ \ {height}]]

=============================================================================
