---------------------------- MODULE MCBackOffice ----------------------------
(* Small instances of BackOffice: mails and cancellations; two batches and *)
(* two cancellations; the wallet task among the accesses to its user's     *)
(* row, and among logins and logouts.                                      *)
EXTENDS BackOffice, TLC

CONSTANTS g, k, s, x, z, b, n, w, p, a, d, y, i, o

AllTasks == {g, k, s, x, z, b, n, w}
Endpoints == g :> "register" @@ k :> "checkout" @@ s :> "sync" @@ x :> "cancel" @@ z :> "cancel"
             @@ b :> "batch" @@ n :> "naive" @@ w :> "wallet"
Routes == g :> "celery" @@ k :> "emails" @@ s :> "emails" @@ x :> "emails" @@ z :> "emails"
          @@ b :> "batch" @@ n :> "celery" @@ w :> "celery"
Pools == [q \in {"celery", "emails", "batch"} |-> 1]
Victims == [t \in AllTasks |-> IF t = x THEN 1 ELSE 2]
Sizes == b :> 2 @@ n :> 0
Prices == <<1, 2, 4>>

AllAccesses == {w, p, a, d, y, i, o}
Works == w :> "task" @@ p :> "password" @@ a :> "admin" @@ d :> "deactivate" @@ y :> "pay"
         @@ i :> "login" @@ o :> "logout"
Costs == w :> 2 @@ p :> 0 @@ a :> 0 @@ d :> 0 @@ y :> 1 @@ i :> 0 @@ o :> 0

Scenarios == {{g, k, x}, {b, n, x, z}, {w, p, d, y}, {w, a, y}, {g, w, b, x},
              {s, k, x}, {w, p, d, i, o}}
============================================================================
