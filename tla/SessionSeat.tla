------------------------------ MODULE SessionSeat ------------------------------
(***************************************************************************)
(* What the gate promises about sessions, with no index, goroutine or lock *)
(* in sight: a session is a seat that at most one connection holds; taking *)
(* a seat sends its holder, and nobody else, away; who left never returns. *)
(***************************************************************************)
CONSTANTS Conn, Session, NoConn

VARIABLES present,  \* connections that are in
          gone,     \* connections that were in, or were turned away
          seat      \* session -> the connection that holds it

seatVars == <<present, gone, seat>>

Init == present = {} /\ gone = {} /\ seat = [s \in Session |-> NoConn]

Vacate(C) == [s \in Session |-> IF seat[s] \in C THEN NoConn ELSE seat[s]]

Arrive(c) ==
    /\ c \notin present \cup gone
    /\ present' = present \cup {c}
    /\ UNCHANGED <<gone, seat>>

TurnAway(c) ==
    /\ c \notin present \cup gone
    /\ gone' = gone \cup {c}
    /\ UNCHANGED <<present, seat>>

Take(c, s) ==
    LET evicted == {seat[s]} \ {c, NoConn}
    IN  /\ c \in present
        /\ present' = present \ evicted
        /\ gone' = gone \cup evicted
        /\ seat' = [Vacate(evicted) EXCEPT ![s] = c]

LeaveTogether(C) ==
    /\ C \subseteq present
    /\ present' = present \ C
    /\ gone' = gone \cup C
    /\ seat' = Vacate(C)

Next ==
    \/ \E c \in Conn : Arrive(c) \/ TurnAway(c) \/ LeaveTogether({c})
    \/ \E c \in Conn, s \in Session : Take(c, s)
    \/ LeaveTogether(present)

Spec == Init /\ [][Next]_seatVars

===============================================================================
