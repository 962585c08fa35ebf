------------------------------- MODULE MCNetMgr -------------------------------
(* Instances of NetMgr for TLC. *)
EXTENDS NetMgr, TLC

CONSTANTS a1, a2, d1, d2, k1, k2

(* Two accepted sessions, a server of key k1 and a user; a dialled session to
   k1's twin, so that two sessions want the key k1, and its reconnection.    *)
OneRole == [s \in Sess |-> IF s = a2 THEN {User} ELSE {k1}]

OneType == [k \in Svr |-> 1]
OneTarget == [d \in Dial |-> 1]

===============================================================================
