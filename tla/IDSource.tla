------------------------------- MODULE IDSource -------------------------------
(***************************************************************************)
(* What deps/fastid promises its callers, with nothing said of clocks,     *)
(* fields or compare-and-swap: each call is handed one id, no id is handed *)
(* out twice, and the ids of one node are handed out in increasing order.  *)
(***************************************************************************)
EXTENDS Integers

CONSTANTS Call,
          NodeOf,  \* the node each call runs on
          ID,      \* the ids there are
          NoID     \* a call that has none yet

VARIABLE handed  \* the id each call was handed

Served == {c \in Call : handed[c] # NoID}

Init == handed = [c \in Call |-> NoID]

Hand(c, id) ==
    /\ c \notin Served
    /\ \A d \in Served : /\ handed[d] # id
                         /\ NodeOf[d] = NodeOf[c] => handed[d] < id
    /\ handed' = [handed EXCEPT ![c] = id]

Next == \E c \in Call, id \in ID : Hand(c, id)

Spec == Init /\ [][Next]_handed

===============================================================================
