------------------------------- MODULE MCFastID -------------------------------
(* Instances of FastID for TLC: three calls on the first node, one on the
   second; two ids to a tick.                                             *)
EXTENDS FastID, TLC

CONSTANTS n1, n2, k1, k2, k3, k4

CallsOnTwoNodes == k1 :> n1 @@ k2 :> n1 @@ k3 :> n1 @@ k4 :> n2
TwoAddresses == n1 :> 30 @@ n2 :> 5

CallsOnOneNode == k1 :> n1 @@ k2 :> n1 @@ k3 :> n1
OneAddress == n1 :> 5

Interchangeable == Permutations({k1, k2, k3})

===============================================================================
