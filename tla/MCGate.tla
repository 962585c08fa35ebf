-------------------------------- MODULE MCGate --------------------------------
(* Instances of Gate for TLC. *)
EXTENDS Gate, TLC

CONSTANTS c1, c2, c3, s1, s2

(* Clients that log in for one session each: a TCP, a WebSocket and an HTTP
   connection; the first two compete for s1.                            *)
OneSessionEach == c1 :> {s1} @@ c2 :> {s1} @@ c3 :> {s2}

(* c1 may log in again for another session, c2 competes for one of them. *)
Rebinding == c1 :> {s1, s2} @@ c2 :> {s1}

===============================================================================
