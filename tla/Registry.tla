------------------------------ MODULE Registry ------------------------------
(***************************************************************************)
(* What account management promises: the first account is an administrator *)
(* nobody had to vouch for, and every later one is opened by an            *)
(* administrator who has an account already.  Accounts are never closed    *)
(* and never change role: the program has no operation that would.         *)
(***************************************************************************)
EXTENDS Naturals

CONSTANTS Names,    \* user names, as NormalizeUsername leaves them
          Nobody    \* who vouches for the first account

Roles == {"admin", "user"}

VARIABLES accounts,     \* name to role
          sponsor       \* name to the administrator who opened the account

Init == /\ accounts = [n \in {} |-> "user"]
        /\ sponsor = [n \in {} |-> Nobody]

Open(n, r, by) ==
    /\ accounts' = [m \in DOMAIN accounts \cup {n} |->
                       IF m = n THEN r ELSE accounts[m]]
    /\ sponsor' = [m \in DOMAIN sponsor \cup {n} |->
                       IF m = n THEN by ELSE sponsor[m]]

Found(n) == /\ DOMAIN accounts = {}
            /\ Open(n, "admin", Nobody)

Enrol(n, r, by) == /\ by \in DOMAIN accounts
                   /\ accounts[by] = "admin"
                   /\ n \notin DOMAIN accounts
                   /\ Open(n, r, by)

Next == \E n \in Names :
           \/ Found(n)
           \/ \E r \in Roles, by \in Names : Enrol(n, r, by)

Spec == Init /\ [][Next]_<<accounts, sponsor>>
=============================================================================
