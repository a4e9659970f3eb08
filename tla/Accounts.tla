------------------------------ MODULE Accounts ------------------------------
(***************************************************************************)
(* Dashboard accounts and sessions: internal/server/auth.go over           *)
(* internal/store/user.go and CreateInitialAdmin of internal/store.        *)
(*                                                                         *)
(* POST /api/auth/register counts the users once, hashes the password, and *)
(* on a count of zero opens a transaction that counts again, claims a      *)
(* sentinel row and inserts the administrator.  Each query is a step.  A   *)
(* pool of one connection (SQLite by default) makes a transaction exclude  *)
(* every other query; with more connections (MySQL, PostgreSQL) a          *)
(* transaction reads what is committed, and the unique key of the sentinel *)
(* makes the second claimant wait for the end of the first.                *)
(***************************************************************************)
EXTENDS Naturals, FiniteSets

CONSTANTS
    Handlers,       \* goroutines that serve /api/auth/register
    Names,          \* user names createUser accepts
    Nobody,         \* no account
    Keys,           \* session secrets an administrator may configure
    NoKey,          \* none is configured: the process makes up its own
    NoCookie,       \* a request without a session cookie
    MaxRequests,    \* bound: registrations and logins begun
    MaxCrashes      \* bound: times the process is killed

Roles == {"admin", "user"}

ASSUME AccountsMarkers == Nobody \notin Names /\ NoKey \notin Keys
ASSUME AccountsBounds == MaxRequests \in Nat /\ MaxCrashes \in Nat

VARIABLES
    single,     \* the pool has one connection
    users,      \* committed rows of the users table: name to role
    sentinel,   \* the committed row of bootstrap_state is there
    pc,         \* where each handler is
    form,       \* the account each handler was asked to open
    who,        \* the account attachOptionalUser put in the context
    key,        \* the configured session secret
    cookies,    \* session cookies signed and not yet expired
    requests,   \* registrations and logins begun
    crashes,    \* times the process was killed
    sponsor     \* history: who vouched for each account

request == <<pc, form, who>>
vars == <<single, users, sentinel, request, key, cookies, requests, crashes, sponsor>>

Places == {"idle", "count", "begin", "recount", "sentinel", "insert", "commit",
           "create", "cookie"}
InTransaction == {"recount", "sentinel", "insert", "commit"}
Claiming == {"insert", "commit"}    \* the sentinel row is inserted, not committed

(***************************************************************************)
(* A request may ask for any role; an empty one means "user".              *)
(***************************************************************************)
Form == [name : Names, role : Roles \cup {"other"}]

(***************************************************************************)
(* sessionSecret: the configured one, else one that lives as long as the   *)
(* process.                                                                *)
(***************************************************************************)
Secret == IF key # NoKey THEN [configured |-> key] ELSE [process |-> crashes]
Secrets == [configured : Keys] \cup [process : Nat]

Cookie == [name : Names, role : Roles, secret : Secrets]

ASSUME CookieAssumption == NoCookie \notin Cookie

(***************************************************************************)
(* A query needs a connection.                                             *)
(***************************************************************************)
Connected(h) == single => \A g \in Handlers \ {h} : pc[g] \notin InTransaction

Goto(h, place) == pc' = [pc EXCEPT ![h] = place]

Return(h) == /\ Goto(h, "idle")
             /\ who' = [who EXCEPT ![h] = Nobody]

Init == /\ single \in BOOLEAN
        /\ users = [n \in {} |-> "user"]
        /\ sentinel = FALSE
        /\ pc = [h \in Handlers |-> "idle"]
        /\ form \in [Handlers -> {f \in Form : f.role = "user"}]  \* of no account
        /\ who = [h \in Handlers |-> Nobody]
        /\ key = NoKey
        /\ cookies = {}
        /\ requests = 0
        /\ crashes = 0
        /\ sponsor = [n \in {} |-> Nobody]

(***************************************************************************)
(* userFromRequest: the signature verifies under the secret of the moment  *)
(* and the account is still there with the same role.  An expired cookie   *)
(* is no longer in "cookies".                                              *)
(***************************************************************************)
Accepted(c) == /\ c.secret = Secret
               /\ c.name \in DOMAIN users
               /\ users[c.name] = c.role

Begin(h, f, c) ==
    /\ pc[h] = "idle"
    /\ requests < MaxRequests
    /\ requests' = requests + 1
    /\ c = NoCookie \/ Connected(h)
    /\ form' = [form EXCEPT ![h] = f]
    /\ who' = [who EXCEPT ![h] =
                 IF c # NoCookie /\ Accepted(c) THEN c.name ELSE Nobody]
    /\ Goto(h, "count")
    /\ UNCHANGED <<single, users, sentinel, key, cookies, crashes, sponsor>>

(***************************************************************************)
(* No action uses a definition whose name begins with Mutant: each is a    *)
(* plausible slip in the one that follows it, kept to show which property  *)
(* would notice.  Here: no session is asked for.                           *)
(***************************************************************************)
MutantMayCreate(h) == TRUE

IsAdmin(n) == n \in DOMAIN users /\ users[n] = "admin"

MayCreate(h) == IsAdmin(who[h])

(***************************************************************************)
(* The first count decides between the two ways to open an account.        *)
(***************************************************************************)
Count(h) ==
    /\ pc[h] = "count"
    /\ Connected(h)
    /\ \/ DOMAIN users = {} /\ Goto(h, "begin")
       \/ DOMAIN users # {} /\ MayCreate(h) /\ Goto(h, "create")
    /\ UNCHANGED <<single, users, sentinel, form, who, key, cookies, requests,
                   crashes, sponsor>>

MutantValid(f) == TRUE

Valid(f) == f.role \in Roles

(***************************************************************************)
(* createUser refuses an unknown role, and an insert of a name that is     *)
(* taken fails.                                                            *)
(***************************************************************************)
Inserted(n, r) == [m \in DOMAIN users \cup {n} |-> IF m = n THEN r ELSE users[m]]
Vouched(n, by) == [m \in DOMAIN sponsor \cup {n} |-> IF m = n THEN by ELSE sponsor[m]]

CreateUser(h) ==
    LET f == form[h] IN
    /\ pc[h] = "create"
    /\ Connected(h)
    /\ Valid(f)
    /\ f.name \notin DOMAIN users
    /\ users' = Inserted(f.name, f.role)
    /\ sponsor' = Vouched(f.name, who[h])
    /\ Return(h)
    /\ UNCHANGED <<single, sentinel, form, key, cookies, requests, crashes>>

-----------------------------------------------------------------------------
(***************************************************************************)
(* CreateInitialAdmin.                                                     *)
(***************************************************************************)
BeginTx(h) ==
    /\ pc[h] = "begin"
    /\ Connected(h)
    /\ Goto(h, "recount")
    /\ UNCHANGED <<single, users, sentinel, form, who, key, cookies, requests,
                   crashes, sponsor>>

Recount(h) ==
    /\ pc[h] = "recount"
    /\ DOMAIN users = {}
    /\ Goto(h, "sentinel")
    /\ UNCHANGED <<single, users, sentinel, form, who, key, cookies, requests,
                   crashes, sponsor>>

MutantMayClaim(h) == TRUE

MayClaim(h) == ~sentinel /\ \A g \in Handlers : pc[g] \notin Claiming

(***************************************************************************)
(* The sentinel row inserted outside the transaction; the cookie handed    *)
(* out before the commit.                                                  *)
(***************************************************************************)
MutantInsertSentinel(h) ==
    /\ pc[h] = "sentinel"
    /\ MayClaim(h)
    /\ sentinel' = TRUE
    /\ Goto(h, "insert")
    /\ UNCHANGED <<single, users, form, who, key, cookies, requests, crashes,
                   sponsor>>

InsertSentinel(h) ==
    /\ pc[h] = "sentinel"
    /\ MayClaim(h)
    /\ Goto(h, "insert")
    /\ UNCHANGED <<single, users, sentinel, form, who, key, cookies, requests,
                   crashes, sponsor>>

MutantInsertAdmin(h) ==
    /\ pc[h] = "insert"
    /\ Goto(h, "commit")
    /\ cookies' = cookies \cup {[name |-> form[h].name, role |-> "admin",
                                 secret |-> Secret]}
    /\ UNCHANGED <<single, users, sentinel, form, who, key, requests, crashes,
                   sponsor>>

InsertAdmin(h) ==
    /\ pc[h] = "insert"
    /\ form[h].name \notin DOMAIN users
    /\ Goto(h, "commit")
    /\ UNCHANGED <<single, users, sentinel, form, who, key, cookies, requests,
                   crashes, sponsor>>

(***************************************************************************)
(* The role of the form is overridden.                                     *)
(***************************************************************************)
Commit(h) ==
    /\ pc[h] = "commit"
    /\ users' = Inserted(form[h].name, "admin")
    /\ sentinel' = TRUE
    /\ sponsor' = Vouched(form[h].name, Nobody)
    /\ Goto(h, "cookie")
    /\ UNCHANGED <<single, form, who, key, cookies, requests, crashes>>

(***************************************************************************)
(* The first administrator is logged in at once.                           *)
(***************************************************************************)
SetCookie(h) ==
    /\ pc[h] = "cookie"
    /\ cookies' = cookies \cup {[name |-> form[h].name, role |-> "admin",
                                 secret |-> Secret]}
    /\ Return(h)
    /\ UNCHANGED <<single, users, sentinel, form, key, requests, crashes, sponsor>>

(***************************************************************************)
(* Anywhere before the commit the handler may answer with an error, which  *)
(* rolls a transaction back: not an administrator, a count above zero, the *)
(* sentinel or the name taken, a form createUser refuses, a failed query,  *)
(* a caller that is gone.                                                  *)
(***************************************************************************)
Refuse(h) ==
    /\ pc[h] \notin {"idle", "cookie"}
    /\ Return(h)
    /\ UNCHANGED <<single, users, sentinel, form, key, cookies, requests,
                   crashes, sponsor>>

-----------------------------------------------------------------------------
(***************************************************************************)
(* POST /api/auth/login with the right password.                           *)
(***************************************************************************)
Login(n) ==
    /\ requests < MaxRequests
    /\ requests' = requests + 1
    /\ n \in DOMAIN users
    /\ single => \A g \in Handlers : pc[g] \notin InTransaction
    /\ cookies' = cookies \cup {[name |-> n, role |-> users[n], secret |-> Secret]}
    /\ UNCHANGED <<single, users, sentinel, request, key, crashes, sponsor>>

Expire(c) ==
    /\ cookies' = cookies \ {c}
    /\ UNCHANGED <<single, users, sentinel, request, key, requests, crashes, sponsor>>

(***************************************************************************)
(* A reload of the configuration changes the secret.                       *)
(***************************************************************************)
Rekey(k) ==
    /\ key' = k
    /\ UNCHANGED <<single, users, sentinel, request, cookies, requests, crashes,
                   sponsor>>

(***************************************************************************)
(* The process is killed: open transactions roll back, and the secret it   *)
(* made up is gone.                                                        *)
(***************************************************************************)
Crash ==
    /\ crashes < MaxCrashes
    /\ crashes' = crashes + 1
    /\ pc' = [h \in Handlers |-> "idle"]
    /\ who' = [h \in Handlers |-> Nobody]
    /\ UNCHANGED <<single, users, sentinel, form, key, cookies, requests, sponsor>>

Register(h) == \/ Count(h) \/ CreateUser(h)
               \/ BeginTx(h) \/ Recount(h) \/ InsertSentinel(h) \/ InsertAdmin(h)
               \/ Commit(h) \/ SetCookie(h)
               \/ Refuse(h)

Next == \/ \E h \in Handlers :
              \/ \E f \in Form, c \in cookies \cup {NoCookie} : Begin(h, f, c)
              \/ Register(h)
        \/ \E n \in Names : Login(n)
        \/ \E c \in cookies : Expire(c)
        \/ \E k \in Keys \cup {NoKey} : Rekey(k)
        \/ Crash

Spec == Init /\ [][Next]_vars

-----------------------------------------------------------------------------
TypeOK ==
    /\ single \in BOOLEAN
    /\ DOMAIN users \subseteq Names
    /\ users \in [DOMAIN users -> Roles]
    /\ sentinel \in BOOLEAN
    /\ pc \in [Handlers -> Places]
    /\ form \in [Handlers -> Form]
    /\ who \in [Handlers -> Names \cup {Nobody}]
    /\ key \in Keys \cup {NoKey}
    /\ cookies \subseteq Cookie
    /\ requests \in Nat
    /\ crashes \in Nat
    /\ sponsor \in [DOMAIN users -> Names \cup {Nobody}]

(***************************************************************************)
(* At most one account was opened without an administrator's session, and  *)
(* it is an administrator's; whatever requests race, roll back or die, all *)
(* others were opened by an administrator.                                 *)
(***************************************************************************)
Founders == {n \in DOMAIN users : sponsor[n] = Nobody}

OneFounder ==
    /\ \A m, n \in Founders : m = n
    /\ \A n \in Founders : users[n] = "admin"
    /\ \A n \in DOMAIN users \ Founders : IsAdmin(sponsor[n]) /\ sponsor[n] # n

(***************************************************************************)
(* The sentinel is committed with the first account or not at all: it      *)
(* never shuts the door on a database that has no administrator.           *)
(***************************************************************************)
SentinelMeansAdmin == sentinel <=> Founders # {}

(***************************************************************************)
(* Every session cookie names an account with the role it has.             *)
(***************************************************************************)
SessionsMatchAccounts ==
    \A c \in cookies : c.name \in DOMAIN users /\ users[c.name] = c.role

(***************************************************************************)
(* Registration implements the registry.                                   *)
(***************************************************************************)
Book == INSTANCE Registry WITH accounts <- users

ImplementsRegistry == Book!Spec
=============================================================================
