--------------------------- MODULE Accounts_proofs ---------------------------
(***************************************************************************)
(* Theorems about Accounts, for every set of handlers, names and secrets   *)
(* and for both kinds of connection pool.                                  *)
(***************************************************************************)
EXTENDS Accounts, TLAPS

(***************************************************************************)
(* What the places of the handlers say of the tables: the sentinel and the *)
(* accounts come together; whoever has claimed the sentinel is alone and   *)
(* finds no account; an administrator stands behind an ordinary insert.    *)
(***************************************************************************)
ClaimsExclude ==
    /\ sentinel <=> DOMAIN users # {}
    /\ \A h \in Handlers : pc[h] \in Claiming => DOMAIN users = {}
    /\ \A g, h \in Handlers : pc[g] \in Claiming /\ pc[h] \in Claiming => g = h

Backed ==
    /\ \A h \in Handlers : pc[h] = "create" => IsAdmin(who[h])
    /\ \A h \in Handlers : pc[h] = "cookie" => IsAdmin(form[h].name)

Inv == /\ TypeOK
       /\ ClaimsExclude
       /\ Backed
       /\ OneFounder
       /\ SentinelMeansAdmin
       /\ SessionsMatchAccounts

(***************************************************************************)
(* The secret of the moment is one a cookie may be signed with.            *)
(***************************************************************************)
LEMMA SecretType == TypeOK => Secret \in Secrets
BY DEF TypeOK, Secret, Secrets

(***************************************************************************)
(* A fresh database and no request.                                        *)
(***************************************************************************)
LEMMA InitInv == Init => Inv
<1> SUFFICES ASSUME Init PROVE Inv
  OBVIOUS
<1>1. TypeOK
  BY DEF Init, TypeOK, Places, Form, Roles
<1>2. DOMAIN users = {} /\ sentinel = FALSE /\ cookies = {}
  BY DEF Init
<1>3. \A h \in Handlers : pc[h] = "idle"
  BY DEF Init
<1>4. ClaimsExclude /\ Backed
  BY <1>2, <1>3 DEF ClaimsExclude, Backed, Claiming
<1>5. OneFounder /\ SentinelMeansAdmin /\ SessionsMatchAccounts
  BY <1>2 DEF OneFounder, SentinelMeansAdmin, SessionsMatchAccounts, Founders
<1> QED
  BY <1>1, <1>4, <1>5 DEF Inv

(***************************************************************************)
(* A step that touches neither table keeps what is said of the tables      *)
(* alone, and keeps the rest if it brings no handler to a place it has no  *)
(* right to and signs no cookie for nobody.                                *)
(***************************************************************************)
LEMMA SameTables ==
    ASSUME Inv, TypeOK', UNCHANGED <<users, sentinel, sponsor>>,
           ClaimsExclude', Backed', SessionsMatchAccounts'
    PROVE  Inv'
<1>1. OneFounder'
  BY DEF Inv, OneFounder, Founders, IsAdmin
<1>2. SentinelMeansAdmin'
  BY DEF Inv, SentinelMeansAdmin, Founders
<1> QED
  BY <1>1, <1>2 DEF Inv

(***************************************************************************)
(* The steps of a registration that write to neither table.                *)
(***************************************************************************)
LEMMA QuietStep ==
    ASSUME Inv, NEW h \in Handlers,
           \/ \E f \in Form, c \in cookies \cup {NoCookie} : Begin(h, f, c)
           \/ Count(h) \/ BeginTx(h) \/ Recount(h) \/ InsertAdmin(h) \/ Refuse(h)
    PROVE  Inv'
<1>1. UNCHANGED <<users, sentinel, sponsor, cookies>>
  BY DEF Begin, Count, BeginTx, Recount, InsertAdmin, Refuse
<1>2. \A g \in Handlers \ {h} : pc'[g] = pc[g] /\ who'[g] = who[g] /\ form'[g] = form[g]
  BY DEF Inv, TypeOK, Begin, Count, BeginTx, Recount, InsertAdmin, Refuse, Goto, Return
<1>3. pc'[h] \in Claiming => pc[h] \in Claiming
  BY DEF Inv, TypeOK, Begin, Count, BeginTx, Recount, InsertAdmin, Refuse, Goto,
         Return, Claiming
<1>4. pc'[h] = "create" => IsAdmin(who'[h])
  BY DEF Inv, TypeOK, Begin, Count, BeginTx, Recount, InsertAdmin, Refuse, Goto,
         Return, MayCreate
<1>5. pc'[h] # "cookie"
  BY DEF Inv, TypeOK, Begin, Count, BeginTx, Recount, InsertAdmin, Refuse, Goto, Return
<1>6. TypeOK'
  <2>1. CASE \E f \in Form, c \in cookies \cup {NoCookie} : Begin(h, f, c)
    <3>1. PICK f \in Form, c \in cookies \cup {NoCookie} : Begin(h, f, c)
      BY <2>1
    <3>2. c # NoCookie => c.name \in Names
      BY DEF Inv, TypeOK, Cookie
    <3> QED
      BY <3>1, <3>2 DEF Inv, TypeOK, Begin, Goto, Places
  <2>2. CASE Count(h) \/ BeginTx(h) \/ Recount(h) \/ InsertAdmin(h)
    BY <2>2 DEF Inv, TypeOK, Count, BeginTx, Recount, InsertAdmin, Goto, Places
  <2>3. CASE Refuse(h)
    BY <2>3 DEF Inv, TypeOK, Refuse, Return, Goto, Places
  <2> QED
    BY <2>1, <2>2, <2>3
<1>7. ClaimsExclude'
  BY <1>1, <1>2, <1>3 DEF Inv, ClaimsExclude
<1>8. Backed'
  BY <1>1, <1>2, <1>4, <1>5 DEF Inv, Backed, IsAdmin
<1>9. SessionsMatchAccounts'
  BY <1>1 DEF Inv, SessionsMatchAccounts
<1> QED
  BY <1>1, <1>6, <1>7, <1>8, <1>9, SameTables

(***************************************************************************)
(* The unique key of the sentinel: a claimant finds no sentinel, hence no  *)
(* account, and no other claimant.                                         *)
(***************************************************************************)
LEMMA ClaimStep ==
    ASSUME Inv, NEW h \in Handlers, InsertSentinel(h)
    PROVE  Inv'
<1>1. TypeOK'
  BY DEF Inv, TypeOK, InsertSentinel, Goto, Places
<1>2. DOMAIN users = {} /\ \A g \in Handlers : pc[g] \notin Claiming
  BY DEF Inv, ClaimsExclude, InsertSentinel, MayClaim
<1>3. \A g \in Handlers : g # h => pc'[g] = pc[g]
  BY DEF Inv, TypeOK, InsertSentinel, Goto
<1>4. pc'[h] = "insert"
  BY DEF Inv, TypeOK, InsertSentinel, Goto
<1>5. ClaimsExclude'
  BY <1>2, <1>3 DEF Inv, ClaimsExclude, InsertSentinel
<1>6. Backed'
  BY <1>3, <1>4 DEF Inv, Backed, InsertSentinel, IsAdmin
<1> QED
  BY <1>1, <1>5, <1>6, SameTables
     DEF InsertSentinel, Inv, SessionsMatchAccounts

(***************************************************************************)
(* A cookie is signed for an account that exists, with its role.           *)
(***************************************************************************)
LEMMA CookieStep ==
    ASSUME Inv,
           \/ \E h \in Handlers : SetCookie(h)
           \/ \E n \in Names : Login(n)
           \/ \E c \in cookies : Expire(c)
    PROVE  Inv'
<1>1. UNCHANGED <<single, users, sentinel, sponsor, form, key, crashes>>
  BY DEF SetCookie, Login, Expire, request
<1>2. \A h \in Handlers : pc'[h] = pc[h] \/ pc'[h] = "idle"
  BY DEF Inv, TypeOK, SetCookie, Login, Expire, request, Return, Goto
<1>3. \A h \in Handlers : pc'[h] = "create" => who'[h] = who[h]
  BY DEF Inv, TypeOK, SetCookie, Login, Expire, request, Return, Goto
<1>4. \A c \in cookies' \ cookies :
         /\ c \in Cookie /\ c.name \in DOMAIN users /\ users[c.name] = c.role
  <2>1. CASE \E h \in Handlers : SetCookie(h)
    <3>1. PICK h \in Handlers : SetCookie(h)
      BY <2>1
    <3>2. form[h].name \in DOMAIN users /\ users[form[h].name] = "admin"
      BY <3>1 DEF Inv, Backed, SetCookie, IsAdmin
    <3> QED
      BY <3>1, <3>2, SecretType DEF Inv, TypeOK, SetCookie, Cookie, Roles
  <2>2. CASE \E n \in Names : Login(n)
    BY <2>2, SecretType DEF Inv, TypeOK, Login, Cookie
  <2>3. CASE \E c \in cookies : Expire(c)
    BY <2>3 DEF Expire
  <2> QED
    BY <2>1, <2>2, <2>3
<1>5. /\ pc' \in [Handlers -> Places]
      /\ who' \in [Handlers -> Names \cup {Nobody}]
      /\ requests' \in Nat
  BY DEF Inv, TypeOK, SetCookie, Login, Expire, request, Return, Goto, Places
<1>6. cookies' \subseteq Cookie
  BY <1>4 DEF Inv, TypeOK
<1>7. TypeOK'
  BY <1>1, <1>5, <1>6 DEF Inv, TypeOK
<1>8. ClaimsExclude' /\ Backed'
  BY <1>1, <1>2, <1>3 DEF Inv, ClaimsExclude, Backed, Claiming, IsAdmin
<1>9. SessionsMatchAccounts'
  BY <1>1, <1>4 DEF Inv, SessionsMatchAccounts
<1> QED
  BY <1>1, <1>7, <1>8, <1>9, SameTables

(***************************************************************************)
(* A change of the secret, and a crash, which leaves every handler idle.   *)
(***************************************************************************)
LEMMA OutsideStep ==
    ASSUME Inv, Crash \/ \E k \in Keys \cup {NoKey} : Rekey(k)
    PROVE  Inv'
<1>1. UNCHANGED <<users, sentinel, sponsor, cookies, form>>
  BY DEF Crash, Rekey, request
<1>2. \A h \in Handlers : pc'[h] = "idle" \/ (pc'[h] = pc[h] /\ who' = who)
  BY DEF Inv, TypeOK, Crash, Rekey, request
<1>3. TypeOK'
  BY DEF Inv, TypeOK, Crash, Rekey, request, Places
<1>4. ClaimsExclude' /\ Backed'
  BY <1>1, <1>2 DEF Inv, ClaimsExclude, Backed, Claiming, IsAdmin
<1> QED
  BY <1>1, <1>3, <1>4, SameTables DEF Inv, SessionsMatchAccounts

(***************************************************************************)
(* An ordinary insert: the account has a sponsor, an administrator who had *)
(* an account before.                                                      *)
(***************************************************************************)
LEMMA CreateStep ==
    ASSUME Inv, NEW h \in Handlers, CreateUser(h)
    PROVE  Inv' /\ Book!Next
<1> DEFINE n == form[h].name
           by == who[h]
<1>1. /\ n \in Names /\ form[h].role \in Roles /\ n \notin DOMAIN users
      /\ users' = Inserted(n, form[h].role) /\ sponsor' = Vouched(n, by)
      /\ UNCHANGED <<sentinel, cookies>>
  BY DEF Inv, TypeOK, CreateUser, Valid, Form
<1>2. IsAdmin(by) /\ by \in Names /\ by # Nobody
  BY AccountsMarkers DEF Inv, TypeOK, Backed, CreateUser, IsAdmin
<1>3. TypeOK'
  BY <1>1, <1>2 DEF Inv, TypeOK, CreateUser, Inserted, Vouched, Return, Goto, Places
<1>4. \A m \in DOMAIN users : m \in DOMAIN users' /\ users'[m] = users[m] /\ sponsor'[m] = sponsor[m]
  BY <1>1 DEF Inv, TypeOK, Inserted, Vouched
<1>5. \A m : IsAdmin(m) => IsAdmin(m)'
  BY <1>4 DEF IsAdmin
<1>6. \A g \in Handlers : pc'[g] = "idle" \/ (pc'[g] = pc[g] /\ who'[g] = who[g])
  BY DEF Inv, TypeOK, CreateUser, Return, Goto
<1>7. DOMAIN users # {} /\ DOMAIN users' # {}
  BY <1>2, <1>4 DEF IsAdmin
<1>8. ClaimsExclude' /\ Backed'
  <2>1. ClaimsExclude'
    BY <1>1, <1>6, <1>7 DEF Inv, ClaimsExclude, Claiming
  <2>2. \A g \in Handlers : pc'[g] = "create" => IsAdmin(who[g])
    BY <1>6 DEF Inv, Backed
  <2>3. \A g \in Handlers : pc'[g] = "cookie" => IsAdmin(form[g].name)
    BY <1>6 DEF Inv, Backed
  <2>4. form' = form
    BY DEF CreateUser
  <2> QED
    BY <1>5, <1>6, <2>1, <2>2, <2>3, <2>4 DEF Backed, IsAdmin
<1>9. Founders' = Founders
  BY <1>1, <1>2, <1>4 DEF Founders, Inv, TypeOK, Inserted, Vouched
<1>10. OneFounder'
  <2>1. sponsor'[n] = by /\ by # n
    BY <1>1, <1>2 DEF Vouched, IsAdmin, Inv, TypeOK
  <2>2. \A m \in DOMAIN users' : m = n \/ m \in DOMAIN users
    BY <1>1 DEF Inserted
  <2> QED
    BY <1>2, <1>4, <1>5, <1>9, <2>1, <2>2 DEF Inv, OneFounder, Founders, IsAdmin
<1>11. SentinelMeansAdmin'
  BY <1>1, <1>9 DEF Inv, SentinelMeansAdmin
<1>12. SessionsMatchAccounts'
  BY <1>1, <1>4 DEF Inv, SessionsMatchAccounts
<1>13. Book!Enrol(n, form[h].role, by)
  BY <1>1, <1>2 DEF Book!Enrol, Book!Open, IsAdmin, Inserted, Vouched
<1> QED
  BY <1>1, <1>2, <1>3, <1>8, <1>10, <1>11, <1>12, <1>13
     DEF Inv, Book!Next, Book!Roles, Roles

(***************************************************************************)
(* The commit: the first account, because the claimant was alone and there *)
(* was none.                                                               *)
(***************************************************************************)
LEMMA CommitStep ==
    ASSUME Inv, NEW h \in Handlers, Commit(h)
    PROVE  Inv' /\ Book!Next
<1> DEFINE n == form[h].name
<1>1. /\ n \in Names /\ DOMAIN users = {} /\ sentinel' = TRUE
      /\ users' = Inserted(n, "admin") /\ sponsor' = Vouched(n, Nobody)
      /\ UNCHANGED <<form, who, cookies>>
  BY DEF Inv, TypeOK, ClaimsExclude, Claiming, Commit, Form
<1>2. TypeOK'
  BY <1>1 DEF Inv, TypeOK, Commit, Inserted, Vouched, Goto, Places, Roles
<1>3. DOMAIN users' = {n} /\ users'[n] = "admin" /\ sponsor'[n] = Nobody
  BY <1>1 DEF Inv, TypeOK, Inserted, Vouched
<1>4. pc'[h] = "cookie" /\ \A g \in Handlers : g # h => pc'[g] = pc[g]
  BY DEF Inv, TypeOK, Commit, Goto
<1>5. \A g \in Handlers : pc'[g] \notin Claiming
  BY <1>4 DEF Inv, ClaimsExclude, Commit, Claiming
<1>6. \A g \in Handlers : g # h => pc'[g] # "create" /\ pc'[g] # "cookie"
  BY <1>1, <1>4 DEF Inv, Backed, IsAdmin
<1>7. ClaimsExclude' /\ Backed'
  BY <1>1, <1>3, <1>4, <1>5, <1>6 DEF ClaimsExclude, Backed, IsAdmin
<1>8. Founders' = {n}
  BY <1>3 DEF Founders
<1>9. OneFounder' /\ SentinelMeansAdmin'
  BY <1>1, <1>3, <1>8 DEF OneFounder, SentinelMeansAdmin
<1>10. SessionsMatchAccounts'
  BY <1>1 DEF Inv, SessionsMatchAccounts
<1>11. Book!Found(n)
  BY <1>1 DEF Book!Found, Book!Open, Inserted, Vouched, Inv, TypeOK
<1> QED
  BY <1>1, <1>2, <1>7, <1>9, <1>10, <1>11 DEF Inv, Book!Next

LEMMA NextInv ==
    ASSUME Inv, [Next]_vars
    PROVE  Inv' /\ [Book!Next]_<<users, sponsor>>
<1>1. CASE \E h \in Handlers : CreateUser(h) \/ Commit(h)
  BY <1>1, CreateStep, CommitStep
<1>2. CASE \E h \in Handlers :
             \/ \E f \in Form, c \in cookies \cup {NoCookie} : Begin(h, f, c)
             \/ Count(h) \/ BeginTx(h) \/ Recount(h) \/ InsertAdmin(h) \/ Refuse(h)
  <2>1. Inv'
    BY <1>2, QuietStep
  <2>2. UNCHANGED <<users, sponsor>>
    BY <1>2 DEF Begin, Count, BeginTx, Recount, InsertAdmin, Refuse
  <2> QED
    BY <2>1, <2>2
<1>3. CASE \E h \in Handlers : InsertSentinel(h)
  BY <1>3, ClaimStep DEF InsertSentinel
<1>4. CASE \/ \E h \in Handlers : SetCookie(h)
           \/ \E n \in Names : Login(n)
           \/ \E c \in cookies : Expire(c)
  BY <1>4, CookieStep DEF SetCookie, Login, Expire
<1>5. CASE Crash \/ \E k \in Keys \cup {NoKey} : Rekey(k)
  BY <1>5, OutsideStep DEF Crash, Rekey
<1>6. CASE UNCHANGED vars
  <2>1. UNCHANGED <<users, sentinel, sponsor, pc, form, who, cookies, single, key,
                    requests, crashes>>
    BY <1>6 DEF vars, request
  <2> QED
    BY <2>1 DEF Inv, TypeOK, ClaimsExclude, Backed, OneFounder, SentinelMeansAdmin,
            SessionsMatchAccounts, Founders, IsAdmin
<1> QED
  BY <1>1, <1>2, <1>3, <1>4, <1>5, <1>6 DEF Next, Register

LEMMA Invariance == Spec => []Inv
<1>1. Inv /\ [Next]_vars => Inv'
  BY NextInv
<1> QED
  BY InitInv, <1>1, PTL DEF Spec

(***************************************************************************)
(* The variables keep their types.                                         *)
(***************************************************************************)
THEOREM AccountsTypeCorrect == Spec => []TypeOK
<1>1. Inv => TypeOK
  BY DEF Inv
<1> QED
  BY <1>1, Invariance, PTL

(***************************************************************************)
(* Every account but the first was opened by an administrator, whatever    *)
(* registrations race for the first.                                       *)
(***************************************************************************)
THEOREM FounderIsUnique == Spec => []OneFounder
<1>1. Inv => OneFounder
  BY DEF Inv
<1> QED
  BY <1>1, Invariance, PTL

(***************************************************************************)
(* The sentinel row and the first account are committed together.          *)
(***************************************************************************)
THEOREM NoLockout == Spec => []SentinelMeansAdmin
<1>1. Inv => SentinelMeansAdmin
  BY DEF Inv
<1> QED
  BY <1>1, Invariance, PTL

(***************************************************************************)
(* No cookie is signed for an account that is not there.                   *)
(***************************************************************************)
THEOREM SessionsSound == Spec => []SessionsMatchAccounts
<1>1. Inv => SessionsMatchAccounts
  BY DEF Inv
<1> QED
  BY <1>1, Invariance, PTL

(***************************************************************************)
(* Registration implements the registry, step by step.                     *)
(***************************************************************************)
THEOREM AccountsImplementRegistry == Spec => ImplementsRegistry
<1>1. Init => Book!Init
  BY DEF Init, Book!Init
<1>2. Inv /\ [Next]_vars => [Book!Next]_<<users, sponsor>>
  BY NextInv
<1> QED
  BY <1>1, <1>2, Invariance, PTL DEF Spec, ImplementsRegistry, Book!Spec
=============================================================================
