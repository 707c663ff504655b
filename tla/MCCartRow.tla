----------------------------- MODULE MCCartRow ------------------------------
(* A small instance of CartRow: two additions, a set to 2 and a set to 0,  *)
(* a removal, a checkout, a clear and a cleanup on one row.                *)
EXTENDS CartRow, TLC

CONSTANTS a1, a2, s, z, m, k, d, w

EveryCall == {a1, a2, s, z, m, k, d, w}
Kinds == a1 :> "add" @@ a2 :> "add" @@ s :> "set" @@ z :> "set"
         @@ m :> "remove" @@ k :> "checkout" @@ d :> "clear" @@ w :> "cleanup"
Quantities == a1 :> 1 @@ a2 :> 2 @@ s :> 2 @@ z :> 0 @@ m :> 0 @@ k :> 0 @@ d :> 0 @@ w :> 0

Stored(q) == [id |-> 1, qty |-> q, version |-> 0, old |-> TRUE, new |-> FALSE]
EmptyOrStored == {NoRow, Stored(1)}
============================================================================
