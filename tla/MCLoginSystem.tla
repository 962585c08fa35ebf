----------------------------- MODULE MCLoginSystem -----------------------------
(* Instances of LoginSystem for TLC. *)
EXTENDS LoginSystem, TLC

CONSTANTS k1, k2, c1, c2, r1, r2, alice

(* A case, and a client that logs in as the same player. *)
SamePlayer == [k \in Login |-> alice]
Conns == k1 :> c1
Calls == k1 :> r1

===============================================================================
