------------------------------ MODULE UserRow -------------------------------
(***************************************************************************)
(* One User row under concurrent accesses: PATCH /users/me/ ("profile",    *)
(* and "password", which saves twice), "login" and "logout", an admin's    *)
(* PATCH ("admin") and DELETE ("deactivate"), a wallet payment in a        *)
(* request ("pay") and in a Celery task ("task").  Of the row, the balance *)
(* and is_active.                                                          *)
(***************************************************************************)
EXTENDS Integers

CONSTANTS
    Accesses, Work,
    Cost,           \* the total a payment takes
    InitBalance

VARIABLES
    user,           \* the row
    token,          \* the user's auth token exists
    doing,          \* where each access is
    seen            \* the User object of each access

userVars == <<user, token, doing, seen>>

Own == {"profile", "password", "pay", "logout"}
Saving == {"profile", "password", "admin"}
Paying == {"pay", "task"}
User == [wallet : Int, active : BOOLEAN]
NoUser == [wallet |-> 0, active |-> FALSE]

UserFree == \A c \in Accesses : doing[c] # "held"

UserInit ==
    /\ user = [wallet |-> InitBalance, active |-> TRUE]
    /\ token = TRUE
    /\ doing = [c \in Accesses |-> "start"]
    /\ seen = [c \in Accesses |-> NoUser]

\* TokenAuthentication and authenticate() both want the user to be active.
Admitted(c) ==
    /\ Work[c] \in Own => token /\ user.active
    /\ Work[c] = "login" => user.active

Go(c, place, object) ==
    /\ doing' = [doing EXCEPT ![c] = place]
    /\ seen' = [seen EXCEPT ![c] = object]
Move(c, place, object) == Go(c, place, object) /\ UNCHANGED token

\* The access is over, or its task starts anew.
Drop(c, place) == Move(c, place, NoUser) /\ UNCHANGED user

\* TokenAuthentication or authenticate() loads the user, get_object the user
\* of the URL.
Load(c) ==
    /\ doing[c] = "start" /\ Admitted(c)
    /\ Move(c, "loaded", user)
    /\ UNCHANGED user

\* 401, or 400 from the login: no token, or not active.
Reject(c) ==
    /\ doing[c] = "start" /\ ~Admitted(c)
    /\ Drop(c, "refused")

\* Token.objects.get_or_create(user=user).
LogIn(c) ==
    /\ doing[c] = "loaded" /\ Work[c] = "login"
    /\ token' = TRUE
    /\ Go(c, "done", NoUser)
    /\ UNCHANGED user

\* Token.objects.filter(user=request.user).delete().
LogOut(c) ==
    /\ doing[c] = "loaded" /\ Work[c] = "logout"
    /\ token' = FALSE
    /\ Go(c, "done", NoUser)
    /\ UNCHANGED user

\* serializer.update: save() writes every column of the object; an admin may
\* set is_active.
SaveAll(c) ==
    /\ doing[c] = "loaded" /\ Work[c] \in Saving /\ UserFree
    /\ \E active \in IF Work[c] = "admin" THEN BOOLEAN ELSE {seen[c].active} :
        LET object == [seen[c] EXCEPT !.active = active] IN
        /\ user' = object
        /\ IF Work[c] = "password" THEN Move(c, "again", object) ELSE Move(c, "done", NoUser)

\* set_password, and save() again.
SavePassword(c) ==
    /\ doing[c] = "again" /\ UserFree
    /\ user' = seen[c]
    /\ Move(c, "done", NoUser)

\* save(update_fields=["is_active"]).
Deactivate(c) ==
    /\ doing[c] = "loaded" /\ Work[c] = "deactivate" /\ UserFree
    /\ user' = [user EXCEPT !.active = FALSE]
    /\ Move(c, "done", NoUser)

\* Mutant of LockUser: the balance of request.user is used.
KeepUser(c) ==
    /\ doing[c] = "loaded" /\ Work[c] \in Paying
    /\ Move(c, "held", seen[c])
    /\ UNCHANGED user

\* checkout_with_wallet: User.objects.select_for_update().get(pk=user.pk).
LockUser(c) ==
    /\ doing[c] = "loaded" /\ Work[c] \in Paying /\ UserFree
    /\ Move(c, "held", user)
    /\ UNCHANGED user

\* wallet_balance -= total; save(update_fields=[...]); COMMIT.
Debit(c) ==
    /\ doing[c] = "held" /\ seen[c].wallet >= Cost[c]
    /\ user' = [user EXCEPT !.wallet = seen[c].wallet - Cost[c]]
    /\ Move(c, "done", NoUser)

\* ValueError: insufficient balance.
TooPoor(c) ==
    /\ doing[c] = "held" /\ seen[c].wallet < Cost[c]
    /\ Drop(c, "refused")
----------------------------------------------------------------------------
\* The balance changes by a payment, which takes its total from the balance
\* as it is by then, or else by a save of the whole object that someone loaded
\* before a payment: nothing but such a save undoes a payment, and only such
\* a save, or an admin, makes a deactivated user active again.
MovesAreExplained(saving) ==
    /\ user'.wallet # user.wallet =>
        \/ \E c \in Accesses : /\ Work[c] \in Paying /\ doing'[c] = "done" /\ doing[c] # "done"
                               /\ user'.wallet = user.wallet - Cost[c]
        \/ \E c \in saving : user'.wallet = seen[c].wallet
    /\ user'.active /\ ~user.active =>
        \E c \in saving : Work[c] = "admin" \/ seen[c].active
============================================================================
