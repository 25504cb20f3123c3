----------------------------- MODULE MCChildren -----------------------------
(* Children with names whose hashes collide in some tables only.           *)
EXTENDS Children, TLC

CONSTANTS n1, n2, n3, n4, n5, n6
MCName == {n1, n2, n3, n4, n5, n6}
MCHash == n1 :> 0 @@ n2 :> 2 @@ n3 :> 5 @@ n4 :> 10 @@ n5 :> 4 @@ n6 :> 15
=============================================================================
