-------------------------------- MODULE MCAuth --------------------------------
(* Instances of Auth for TLC. *)
EXTENDS Auth, TLC

CONSTANTS l1, l2, l3, alice

(* Every attempt logs in the same identity. *)
SameIdentity == [l \in Login |-> alice]

Symmetry == Permutations(Login) \cup Permutations(Request)

===============================================================================
