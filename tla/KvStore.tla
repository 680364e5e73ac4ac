-------------------------------- MODULE KvStore --------------------------------
(***************************************************************************)
(* What the scheduler may rely on when a conversation returns: the KV it    *)
(* left behind can be reloaded, instead of prefilled again, unless nobody   *)
(* touched it for more than MinLife rounds; nothing is kept longer than     *)
(* MaxLife.  Where the KV is meanwhile, and how often it was moved to make  *)
(* room, does not matter.                                                   *)
(***************************************************************************)
EXTENDS Naturals

CONSTANTS Ids, MinLife, MaxLife

VARIABLES
    kept,       \* the conversations whose KV still exists
    unused      \* rounds since each was last completed or looked up

Save(id) ==
    /\ kept' = kept \cup {id}
    /\ unused' = [unused EXCEPT ![id] = 0]

Use(id) ==
    /\ id \in kept
    /\ unused' = [unused EXCEPT ![id] = 0]
    /\ UNCHANGED kept

Round ==
    \E lost \in SUBSET {id \in kept : unused[id] >= MinLife} :
        /\ kept' = kept \ lost
        /\ unused' = [id \in Ids |-> IF id \in kept' THEN unused[id] + 1 ELSE 0]
        /\ \A id \in kept' : unused'[id] <= MaxLife

Init == kept = {} /\ unused = [id \in Ids |-> 0]

Next == (\E id \in Ids : Save(id) \/ Use(id)) \/ Round

Spec == Init /\ [][Next]_<<kept, unused>>
================================================================================
