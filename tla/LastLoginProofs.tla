---------------------------- MODULE LastLoginProofs ----------------------------
(***************************************************************************)
(* The proof that userinfo answers what the last login of a user said,       *)
(* whatever earlier logins left in the store.                               *)
(***************************************************************************)
EXTENDS UserClaimsProofs

(* The documents C hold the claims K, one document each.                    *)
Holds(C, K) ==
    /\ \A c \in C : [type |-> c.type, value |-> c.value] \in K
    /\ \A k \in K : \E c \in C : c.type = k.type /\ c.value = k.value
    /\ \A c, d \in C : c.type = d.type => c = d

(* The claims stored for a login's user that the login will not delete.     *)
Kept(l) == {c \in Stored(login[l].owner) : c.oid \notin login[l].doomed}

(* A user whose last login has settled: nobody is at work on the user's      *)
(* documents, and these say what the login said.                            *)
SettledInv(u) ==
    settled[u] # None =>
        /\ InFlight(u) = {}
        /\ Accounts(u) # {}
        /\ Account(u).profile = ProfileOf(settled[u])
        /\ Holds(Stored(Account(u).oid), NonIdClaims(settled[u]))

(* A login that runs alone: what it read is still so, and what it will have  *)
(* written in the end is what its principal says.                           *)
AloneInv(l) ==
    LET s == login[l]
        u == s.principal.user IN
    s.alone =>
        /\ s.result # "conflict"
        /\ s.pc # "off" => InFlight(u) = {l} /\ ~ s.missed
        /\ s.pc = "save" =>
             \/ s.owner = 0 /\ Accounts(u) = {}
             \/ Accounts(u) # {} /\ s.owner = Account(u).oid /\ s.loaded = Account(u).profile
        /\ s.pc \in {"list", "write"} =>
             /\ Accounts(u) # {}
             /\ s.owner = Account(u).oid
             /\ Account(u).profile = ProfileOf(s.principal)
        /\ s.pc = "write" =>
             /\ s.adding \subseteq NonIdClaims(s.principal)
             /\ s.doomed \subseteq {c.oid : c \in Stored(s.owner)}
             /\ Holds(Kept(l), NonIdClaims(s.principal) \ s.adding)

HealInv ==
    /\ StoreInv
    /\ \A u \in User : SettledInv(u)
    /\ \A l \in Login : AloneInv(l)

-----------------------------------------------------------------------------
(* Userinfo, once the store mirrors a principal.                            *)

LEMMA NonIdClaimsFacts ==
    ASSUME NEW p \in Principal
    PROVE  /\ \A k \in NonIdClaims(p) : k.type \notin IdType
           /\ \A k, n \in NonIdClaims(p) : k.type = n.type => k = n
<1>1. \A i \in DOMAIN p.claims : i \in Nat /\ i >= 1
  BY PrincipalAssumption, ClaimsTyped
<1>2. ASSUME NEW i \in DOMAIN p.claims, NEW j \in DOMAIN p.claims,
             \A k \in 1 .. (i - 1) : p.claims[k].type # p.claims[i].type,
             \A k \in 1 .. (j - 1) : p.claims[k].type # p.claims[j].type,
             p.claims[i].type = p.claims[j].type
      PROVE  i = j
  BY <1>1, <1>2
<1> QED
  BY <1>2 DEF NonIdClaims

(* A type outside IdType that a principal says is among the claims to store, *)
(* with its first value.                                                    *)
LEMMA FirstIsStored ==
    ASSUME NEW p \in Principal, NEW t \in ClaimType, t \notin IdType
    PROVE  \/ /\ FirstOf(p, t) = None
              /\ \A k \in NonIdClaims(p) : k.type # t
           \/ \E k \in NonIdClaims(p) : k.type = t /\ k.value = FirstOf(p, t)
<1> DEFINE said == {i \in DOMAIN p.claims : p.claims[i].type = t}
<1>1. CASE said = {}
  BY <1>1, FirstOfIndex DEF NonIdClaims
<1>2. CASE said # {}
  <2>1. PICK i \in said : /\ FirstOf(p, t) = p.claims[i].value
                          /\ \A j \in said : i <= j
    BY <1>2, FirstOfIndex
  <2>2. i \in Nat /\ \A k \in 1 .. (i - 1) : k \in DOMAIN p.claims
    <3> DEFINE s == p.claims
    <3>1. s \in Seq(Claim) /\ i \in DOMAIN s
      BY PrincipalAssumption
    <3> HIDE DEF s
    <3>2. DOMAIN s = 1 .. Len(s) /\ Len(s) \in Nat
      BY <3>1
    <3> QED
      BY <3>1, <3>2 DEF s
  <2>3. \A k \in 1 .. (i - 1) : p.claims[k].type # p.claims[i].type
    BY <2>1, <2>2
  <2>4. p.claims[i] \in NonIdClaims(p)
    BY <2>3 DEF NonIdClaims
  <2> QED
    BY <2>1, <2>4
<1> QED
  BY <1>1, <1>2

LEMMA AnswerMirrors ==
    ASSUME StoreInv, NEW u, NEW p \in Principal, Accounts(u) # {},
           Account(u).profile = ProfileOf(p),
           Holds(Stored(Account(u).oid), NonIdClaims(p))
    PROVE  Userinfo(u) = [status |-> "ok",
                          says |-> [t \in ClaimType |-> FirstOf(p, t)]]
<1> DEFINE mine == Stored(Account(u).oid)
<1>1. ~ \E c, d \in mine : c # d /\ c.type = d.type
  BY DEF Holds
<1> DEFINE answer(t) == IF \E c \in mine : c.type = t
                        THEN (CHOOSE c \in mine : c.type = t).value
                        ELSE IF t \in IdType THEN Account(u).profile[t] ELSE None
<1>2. ASSUME NEW t \in ClaimType
      PROVE  answer(t) = FirstOf(p, t)
  <2>1. CASE t \in IdType
    <3>1. ASSUME NEW c \in mine
          PROVE  c.type # t
      <4>1. PICK k \in NonIdClaims(p) : k = [type |-> c.type, value |-> c.value]
        BY DEF Holds
      <4>2. k.type \notin IdType
        BY NonIdClaimsFacts
      <4> QED
        BY <2>1, <4>1, <4>2
    <3> QED
      BY <2>1, <3>1 DEF ProfileOf
  <2>2. CASE t \notin IdType /\ \A c \in mine : c.type # t
    <3>1. \A k \in NonIdClaims(p) : k.type # t
      BY <2>2 DEF Holds
    <3>2. FirstOf(p, t) = None
      BY <2>2, <3>1, FirstIsStored
    <3> QED
      BY <2>2, <3>2
  <2>3. CASE t \notin IdType /\ \E c \in mine : c.type = t
    <3>1. PICK c \in mine : c = CHOOSE d \in mine : d.type = t
      BY <2>3
    <3>2. c.type = t
      BY <2>3, <3>1
    <3>3. [type |-> c.type, value |-> c.value] \in NonIdClaims(p)
      BY DEF Holds
    <3>4. \E k \in NonIdClaims(p) : k.type = t /\ k.value = FirstOf(p, t)
      BY <2>3, <3>2, <3>3, FirstIsStored
    <3>5. c.value = FirstOf(p, t)
      BY <3>2, <3>3, <3>4, NonIdClaimsFacts
    <3> QED
      BY <2>3, <3>1, <3>5
  <2> QED
    BY <2>1, <2>2, <2>3
<1> HIDE DEF answer
<1>3. [t \in ClaimType |-> answer(t)] = [t \in ClaimType |-> FirstOf(p, t)]
  BY <1>2
<1> QED
  BY <1>1, <1>3 DEF Userinfo, answer

-----------------------------------------------------------------------------
(* What the steps of one user's logins leave alone.                         *)

LEMMA InitHeal == Init => HealInv
BY InitStore DEF Init, HealInv, SettledInv, AloneInv, IdleLogin

(* Nothing an invariant of user u or login m speaks of has changed.         *)
SameDocuments(u) ==
    /\ Accounts(u)' = Accounts(u)
    /\ \A a \in Accounts(u) :
         {c \in claims' : c.owner = a.oid} = {c \in claims : c.owner = a.oid}

LEMMA SameAccount ==
    ASSUME StoreInv, NEW u, SameDocuments(u)
    PROVE  /\ Account(u)' = Account(u)
           /\ Accounts(u) # {} =>
                {c \in claims' : c.owner = Account(u).oid} = Stored(Account(u).oid)
BY AccountIsFirst DEF SameDocuments, Account, Stored, StoreInv, Typed, TypeOK

LEMMA SettledFrame ==
    ASSUME HealInv, NEW u \in User, SameDocuments(u),
           settled'[u] = settled[u], InFlight(u)' = InFlight(u)
    PROVE  SettledInv(u)'
<1>1. Accounts(u)' = Accounts(u) /\ Account(u)' = Account(u)
  BY SameAccount DEF HealInv, SameDocuments
<1>2. Accounts(u) # {} => Stored(Account(u).oid)' = Stored(Account(u).oid)
  BY <1>1, SameAccount DEF HealInv, Stored
<1> QED
  BY <1>1, <1>2 DEF HealInv, SettledInv

LEMMA AloneFrame ==
    ASSUME HealInv, NEW m \in Login, login'[m] = login[m],
           NEW u, u = login[m].principal.user,
           login[m].pc # "off" => SameDocuments(u) /\ InFlight(u)' = InFlight(u)
    PROVE  AloneInv(m)'
<1>1. CASE login[m].pc = "off"
  BY <1>1 DEF HealInv, AloneInv
<1>2. CASE login[m].pc # "off"
  <2>1. Accounts(u)' = Accounts(u) /\ Account(u)' = Account(u)
    BY <1>2, SameAccount DEF HealInv, SameDocuments
  <2>2. ASSUME login[m].alone, login[m].pc = "write"
        PROVE  /\ {c \in claims' : c.owner = login[m].owner} = Stored(login[m].owner)
               /\ Kept(m)' = Kept(m)
    <3>1. Accounts(u) # {} /\ login[m].owner = Account(u).oid
      BY <2>2 DEF HealInv, AloneInv
    <3>2. {c \in claims' : c.owner = login[m].owner} = Stored(login[m].owner)
      BY <1>2, <3>1, SameAccount DEF HealInv
    <3> QED
      BY <3>2 DEF Kept, Stored
  <2>3. Stored(login[m].owner)' = {c \in claims' : c.owner = login[m].owner}
    BY DEF Stored
  <2> QED
    BY <1>2, <2>1, <2>2, <2>3 DEF HealInv, AloneInv
<1> QED
  BY <1>1, <1>2

(* A step of login l keeps the invariants of the other logins and users.     *)
LEMMA StepFacts ==
    ASSUME HealInv, NEW l \in Login, LoginStep(l) \/ LoginFails(l)
    PROVE  /\ login[l].pc # "off"
           /\ login[l] \in LoginState /\ login \in [Login -> LoginState]
           /\ login[l].principal \in Principal
           /\ login[l].principal.user \in User
           /\ settled[login[l].principal.user] = None
           /\ login'[l].principal = login[l].principal
           /\ login'[l].alone = login[l].alone
           /\ \A m \in Login : m # l => login'[m] = login[m]
<1>1. login[l].pc # "off"
  BY DEF LoginStep, Find, SaveNew, SaveFound, List, DeleteOne, InsertOne, Complete, LoginFails
<1>2. login[l] \in LoginState /\ login \in [Login -> LoginState]
  BY DEF HealInv, StoreInv, Typed, TypeOK
<1>3. login[l].principal \in Principal /\ login[l].principal.user \in User
  BY <1>1, PrincipalAssumption DEF HealInv, StoreInv, Typed, LoginShape
<1>4. l \in InFlight(login[l].principal.user)
  BY <1>1 DEF InFlight
<1>5. settled[login[l].principal.user] = None
  BY <1>3, <1>4 DEF HealInv, SettledInv
<1>6. login'[l].principal = login[l].principal /\ login'[l].alone = login[l].alone
  <2>1. CASE Find(l)
    BY <1>2, <2>1 DEF Find, LoginState
  <2>2. CASE SaveNew(l)
    BY <1>2, <2>2 DEF SaveNew, LoginState
  <2>3. CASE SaveFound(l)
    BY <1>2, <2>3 DEF SaveFound, LoginState
  <2>4. CASE List(l)
    BY <1>2, <2>4 DEF List, LoginState
  <2>5. CASE DeleteOne(l)
    BY <1>2, <2>5 DEF DeleteOne, LoginState
  <2>6. CASE InsertOne(l)
    BY <1>2, <2>6 DEF InsertOne, LoginState
  <2>7. CASE Complete(l)
    BY <1>2, <2>7 DEF Complete, Finish, LoginState
  <2>8. CASE LoginFails(l)
    BY <1>2, <2>8 DEF LoginFails, Finish, LoginState
  <2> QED
    BY <2>1, <2>2, <2>3, <2>4, <2>5, <2>6, <2>7, <2>8 DEF LoginStep
<1>7. \A m \in Login : m # l => login'[m] = login[m]
  BY OthersUntouched DEF HealInv
<1> QED
  BY <1>1, <1>2, <1>3, <1>5, <1>6, <1>7

LEMMA OthersHeal ==
    ASSUME HealInv, NEW l \in Login, LoginStep(l) \/ LoginFails(l)
    PROVE  /\ \A m \in Login : m # l => AloneInv(m)'
           /\ \A u \in User : u # login[l].principal.user /\ settled'[u] = settled[u]
                              => SettledInv(u)'
<1>1. ASSUME NEW u, u # login[l].principal.user
      PROVE  SameDocuments(u) /\ InFlight(u)' = InFlight(u)
  <2>1. SameDocuments(u)
    <3>1. CASE LoginStep(l)
      BY <1>1, <3>1, LoginTouchesItsUser DEF HealInv, SameDocuments
    <3>2. CASE LoginFails(l)
      BY <3>2 DEF LoginFails, database, SameDocuments, Accounts
    <3> QED
      BY <3>1, <3>2
  <2>2. InFlight(u)' = InFlight(u)
    BY <1>1, StepFacts DEF InFlight
  <2> QED
    BY <2>1, <2>2
<1>2. ASSUME NEW m \in Login, m # l
      PROVE  AloneInv(m)'
  <2>1. PICK u : u = login[m].principal.user
    OBVIOUS
  <2>2. login'[m] = login[m]
    BY <1>2, StepFacts
  <2>3. CASE ~ login[m].alone
    BY <2>2, <2>3 DEF AloneInv
  <2>4. CASE login[m].alone
    <3>1. login[m].pc # "off" => u # login[l].principal.user
      BY <1>2, <2>1, <2>4, StepFacts DEF HealInv, AloneInv, InFlight
    <3> QED
      BY <1>1, <2>1, <2>2, <3>1, AloneFrame
  <2> QED
    BY <2>3, <2>4
<1>3. ASSUME NEW u \in User, u # login[l].principal.user, settled'[u] = settled[u]
      PROVE  SettledInv(u)'
  BY <1>1, <1>3, SettledFrame
<1> QED
  BY <1>2, <1>3

(* What remains to be shown of a step that settles nothing.                 *)
LEMMA StepHeals ==
    ASSUME HealInv, NEW l \in Login, LoginStep(l) \/ LoginFails(l),
           settled' = settled, AloneInv(l)'
    PROVE  HealInv'
<1>1. StoreInv'
  BY FindStore, SaveNewStore, SaveFoundStore, ListStore, DeleteOneStore,
     InsertOneStore, EndStore DEF HealInv, LoginStep
<1>2. \A m \in Login : AloneInv(m)'
  BY OthersHeal
<1>3. ASSUME NEW u \in User
      PROVE  SettledInv(u)'
  <2>1. CASE u # login[l].principal.user
    BY <2>1, OthersHeal
  <2>2. CASE u = login[l].principal.user
    BY <2>2, StepFacts DEF SettledInv
  <2> QED
    BY <2>1, <2>2
<1> QED
  BY <1>1, <1>2, <1>3 DEF HealInv

(* A step that leaves the login in flight leaves it alone, if it was.        *)
LEMMA StillInFlight ==
    ASSUME HealInv, NEW l \in Login, LoginStep(l), login'[l].pc # "off"
    PROVE  InFlight(login[l].principal.user)' = InFlight(login[l].principal.user)
BY StepFacts DEF InFlight

LEMMA BeginHeal ==
    ASSUME HealInv, NEW l \in Login, Begin(l)
    PROVE  HealInv'
<1>1. StoreInv'
  BY BeginStore DEF HealInv
<1>2. PICK p \in Principal :
        /\ login' = [m \in Login |->
                       IF m = l
                       THEN [IdleLogin EXCEPT !.pc = "find", !.principal = p,
                                              !.alone = InFlight(p.user) = {}]
                       ELSE IF m \in InFlight(p.user)
                            THEN [login[m] EXCEPT !.alone = FALSE]
                            ELSE login[m]]
        /\ settled' = [settled EXCEPT ![p.user] = None]
  BY DEF Begin
<1>3. UNCHANGED <<users, claims>> /\ login[l].pc = "off"
  BY DEF Begin, database
<1>4. login \in [Login -> LoginState] /\ settled \in [User -> Principal \cup {None}]
  BY DEF HealInv, StoreInv, Typed, TypeOK
<1>5. \A u : SameDocuments(u)
  BY <1>3 DEF SameDocuments, Accounts
<1>6. /\ login'[l].pc = "find" /\ login'[l].principal = p
      /\ login'[l].missed = FALSE /\ login'[l].result = "none"
      /\ login'[l].alone = (InFlight(p.user) = {})
  BY <1>2 DEF IdleLogin
<1>7. ASSUME NEW m \in Login, m # l
      PROVE  /\ login'[m].pc = login[m].pc /\ login'[m].principal = login[m].principal
             /\ m \in InFlight(p.user) => login'[m].alone = FALSE
             /\ m \notin InFlight(p.user) => login'[m] = login[m]
  BY <1>2, <1>4, <1>7 DEF LoginState
<1>8. ASSUME NEW u, u # p.user
      PROVE  InFlight(u)' = InFlight(u)
  BY <1>3, <1>6, <1>7, <1>8 DEF InFlight
<1>9. InFlight(p.user)' = InFlight(p.user) \cup {l}
  BY <1>6, <1>7 DEF InFlight
<1>10. ASSUME NEW m \in Login
       PROVE  AloneInv(m)'
  <2>1. CASE m = l
    BY <1>6, <1>9, <2>1 DEF AloneInv
  <2>2. CASE m # l /\ m \in InFlight(p.user)
    BY <1>7, <2>2 DEF AloneInv
  <2>3. CASE m # l /\ m \notin InFlight(p.user)
    <3>1. PICK u : u = login[m].principal.user
      OBVIOUS
    <3>2. login[m].pc # "off" => InFlight(u)' = InFlight(u)
      BY <1>8, <2>3, <3>1 DEF InFlight
    <3> QED
      BY <1>5, <1>7, <2>3, <3>1, <3>2, AloneFrame
  <2> QED
    BY <2>1, <2>2, <2>3
<1>11. ASSUME NEW u \in User
       PROVE  SettledInv(u)'
  <2>1. CASE u = p.user
    BY <1>2, <1>4, <2>1 DEF SettledInv
  <2>2. CASE u # p.user
    BY <1>2, <1>4, <1>5, <1>8, <2>2, SettledFrame
  <2> QED
    BY <2>1, <2>2
<1> QED
  BY <1>1, <1>10, <1>11 DEF HealInv

LEMMA FindHeal ==
    ASSUME HealInv, NEW l \in Login, Find(l)
    PROVE  HealInv'
<1> DEFINE u == login[l].principal.user
<1>1. LoginStep(l) /\ login[l].pc = "find" /\ settled' = settled
      /\ UNCHANGED <<users, claims>>
  BY DEF Find, LoginStep, database
<1>2. login[l].owner = 0
  BY <1>1 DEF HealInv, StoreInv, Typed, LoginShape
<1>3. /\ login'[l].pc = "save" /\ login'[l].result = login[l].result
      /\ login'[l].missed = login[l].missed
      /\ Accounts(u) = {} => login'[l].owner = 0
      /\ Accounts(u) # {} => /\ login'[l].owner = Account(u).oid
                             /\ login'[l].loaded = Account(u).profile
  BY <1>1, <1>2, StepFacts DEF Find, LoginState
<1>4. Accounts(u)' = Accounts(u) /\ Account(u)' = Account(u)
  BY <1>1, StepFacts DEF Accounts, Account
<1>5. InFlight(u)' = InFlight(u)
  BY <1>1, <1>3, StillInFlight, StepFacts DEF InFlight
<1>6. AloneInv(l)'
  BY <1>1, <1>3, <1>4, <1>5, StepFacts DEF HealInv, AloneInv
<1> QED
  BY <1>1, <1>6, StepHeals

(* A document with the least object id is the one FirstOrDefault returns.    *)
LEMMA FirstIsUnique ==
    ASSUME NEW S, NEW a \in S, \A b \in S : b.oid \in Nat /\ a.oid <= b.oid,
           \A b, c \in S : b.oid = c.oid => b = c
    PROVE  (CHOOSE b \in S : \A c \in S : b.oid <= c.oid) = a
<1>1. PICK b \in S : /\ \A c \in S : b.oid <= c.oid
                     /\ b = CHOOSE d \in S : \A c \in S : d.oid <= c.oid
  OBVIOUS
<1>2. b.oid = a.oid
  BY <1>1
<1> QED
  BY <1>1, <1>2

LEMMA SaveNewHeal ==
    ASSUME HealInv, NEW l \in Login, SaveNew(l)
    PROVE  HealInv'
<1> DEFINE u == login[l].principal.user
           new == [oid |-> nextOid, user |-> u, profile |-> ProfileOf(login[l].principal)]
<1>1. LoginStep(l) /\ settled' = settled /\ users' = users \cup {new}
      /\ login[l].pc = "save" /\ login[l].owner = 0
  BY DEF SaveNew, LoginStep
<1>2. /\ login'[l].pc = "list" /\ login'[l].result = login[l].result
      /\ login'[l].missed = login[l].missed /\ login'[l].owner = nextOid
  BY <1>1, StepFacts DEF SaveNew, LoginState
<1>3. InFlight(u)' = InFlight(u)
  BY <1>1, <1>2, StillInFlight, StepFacts DEF InFlight
<1>4. ASSUME login[l].alone
      PROVE  Accounts(u)' # {} /\ Account(u)' = new
  <2>1. Accounts(u) # {} => Account(u) \in users
    BY AccountIsFirst DEF HealInv, StoreInv, Typed, TypeOK, Accounts
  <2>2. Accounts(u) = {}
    <3>1. Accounts(u) # {} => 0 < Account(u).oid
      BY <2>1 DEF HealInv, StoreInv, OidsUnique
    <3>2. Accounts(u) = {} \/ Account(u).oid = 0
      BY <1>1, <1>4 DEF HealInv, AloneInv
    <3> QED
      BY <3>1, <3>2
  <2>3. Accounts(u)' = {new}
    BY <1>1, <2>2, StepFacts DEF Accounts
  <2> HIDE DEF new
  <2> QED
    BY <2>3 DEF Account
<1>5. new.oid = nextOid /\ new.profile = ProfileOf(login[l].principal)
  OBVIOUS
<1> HIDE DEF new
<1>6. AloneInv(l)'
  BY <1>1, <1>2, <1>3, <1>4, <1>5, StepFacts DEF HealInv, AloneInv
<1> QED
  BY <1>1, <1>6, StepHeals

LEMMA SaveFoundHeal ==
    ASSUME HealInv, NEW l \in Login, SaveFound(l)
    PROVE  HealInv'
<1> DEFINE u == login[l].principal.user
           a == Account(u)
           b == Changed(l, a)
<1>1. /\ LoginStep(l) /\ settled' = settled
      /\ users' = {IF x.oid = login[l].owner THEN Changed(l, x) ELSE x : x \in users}
      /\ login[l].pc = "save" /\ login[l].owner # 0
  BY DEF SaveFound, LoginStep
<1>2. /\ login'[l].pc = "list" /\ login'[l].result = login[l].result
      /\ login'[l].missed = login[l].missed /\ login'[l].owner = login[l].owner
  BY <1>1, StepFacts DEF SaveFound, LoginState
<1>3. InFlight(u)' = InFlight(u)
  BY <1>1, <1>2, StillInFlight, StepFacts DEF InFlight
<1>4. ASSUME login[l].alone
      PROVE  /\ Accounts(u)' # {} /\ (Account(u)').oid = login[l].owner
             /\ (Account(u)').profile = ProfileOf(login[l].principal)
  <2>1. Accounts(u) # {} /\ login[l].owner = a.oid /\ login[l].loaded = a.profile
    BY <1>1, <1>4 DEF HealInv, AloneInv
  <2>2. a \in users /\ a.user = u /\ \A x \in Accounts(u) : a.oid <= x.oid
    BY <2>1, AccountIsFirst DEF HealInv, StoreInv, Typed, TypeOK, Accounts
  <2> HIDE DEF a
  <2>3. \A x \in users : Changed(l, x).oid = x.oid /\ Changed(l, x).user = x.user
    BY DEF Changed, HealInv, StoreInv, Typed, TypeOK, AppUser
  <2>4. b \in users' /\ b.oid = a.oid /\ b.user = u
    BY <1>1, <2>1, <2>2, <2>3
  <2>5. b.profile = ProfileOf(login[l].principal)
    <3>1. a \in AppUser
      BY <2>2 DEF HealInv, StoreInv, Typed, TypeOK
    <3>2. b.profile = [t \in IdType |->
                         IF ProfileOf(login[l].principal)[t] = login[l].loaded[t]
                         THEN a.profile[t] ELSE ProfileOf(login[l].principal)[t]]
      BY <3>1 DEF Changed, AppUser
    <3>3. \A t \in IdType : b.profile[t] = ProfileOf(login[l].principal)[t]
      BY <2>1, <3>2
    <3> QED
      BY <3>2, <3>3 DEF ProfileOf
  <2> HIDE DEF b
  <2>6. \A y \in Accounts(u)' : \E x \in Accounts(u) : y.oid = x.oid
    BY <1>1, <2>3, StepFacts DEF Accounts
  <2>7. StoreInv'
    BY SaveFoundStore DEF HealInv
  <2>8. b \in Accounts(u)'
    <3>1. login'[l].principal = login[l].principal
      BY <1>1, StepFacts
    <3> QED
      BY <2>4, <3>1 DEF Accounts
  <2>9. /\ \A y \in Accounts(u)' : y.oid \in Nat /\ b.oid <= y.oid
        /\ \A y, z \in Accounts(u)' : y.oid = z.oid => y = z
    BY <2>2, <2>4, <2>6, <2>7 DEF Accounts, StoreInv, Typed, TypeOK, AppUser, OidsUnique
  <2>10. Account(u)' = b
    BY <2>8, <2>9, FirstIsUnique DEF Account
  <2> QED
    BY <2>1, <2>4, <2>5, <2>8, <2>10
<1>5. AloneInv(l)'
  BY <1>1, <1>2, <1>3, <1>4, StepFacts DEF HealInv, AloneInv
<1> QED
  BY <1>1, <1>5, StepHeals

LEMMA ListHeal ==
    ASSUME HealInv, NEW l \in Login, List(l)
    PROVE  HealInv'
<1> DEFINE u == login[l].principal.user
<1>1. LoginStep(l) /\ settled' = settled /\ UNCHANGED <<users, claims>>
      /\ login[l].pc = "list"
  BY DEF List, LoginStep, database
<1>2. /\ login'[l].pc = "write" /\ login'[l].result = login[l].result
      /\ login'[l].missed = login[l].missed /\ login'[l].owner = login[l].owner
      /\ login'[l].doomed = {c.oid : c \in Stored(login[l].owner)}
      /\ login'[l].adding = NonIdClaims(login[l].principal)
  BY <1>1, StepFacts DEF List, LoginState
<1>3. Accounts(u)' = Accounts(u) /\ Account(u)' = Account(u)
  BY <1>1, StepFacts DEF Accounts, Account
<1>4. InFlight(u)' = InFlight(u)
  BY <1>1, <1>2, StillInFlight, StepFacts DEF InFlight
<1>5. Stored(login[l].owner)' = Stored(login[l].owner) /\ Kept(l)' = {}
  BY <1>1, <1>2 DEF Stored, Kept
<1>6. Holds({}, NonIdClaims(login[l].principal) \ NonIdClaims(login[l].principal))
  BY DEF Holds
<1>7. AloneInv(l)'
  BY <1>1, <1>2, <1>3, <1>4, <1>5, <1>6, StepFacts DEF HealInv, AloneInv
<1> QED
  BY <1>1, <1>7, StepHeals

LEMMA DeleteOneHeal ==
    ASSUME HealInv, NEW l \in Login, DeleteOne(l)
    PROVE  HealInv'
<1> DEFINE u == login[l].principal.user
<1>1. LoginStep(l) /\ settled' = settled /\ users' = users /\ login[l].pc = "write"
  BY DEF DeleteOne, LoginStep
<1>2. PICK oid \in login[l].doomed :
        /\ claims' = {c \in claims : c.oid # oid}
        /\ login' = [login EXCEPT ![l] =
                       [login[l] EXCEPT
                          !.doomed = login[l].doomed \ {oid},
                          !.missed = login[l].missed \/ (\A c \in claims : c.oid # oid)]]
  BY DEF DeleteOne
<1> DEFINE b == login[l].missed \/ (\A c \in claims : c.oid # oid)
           s == [login[l] EXCEPT !.doomed = login[l].doomed \ {oid}, !.missed = b]
<1>3. /\ login'[l].pc = "write" /\ login'[l].result = login[l].result
      /\ login'[l].owner = login[l].owner /\ login'[l].adding = login[l].adding
      /\ login'[l].doomed = login[l].doomed \ {oid}
      /\ login'[l].missed = b
  <2>1. login' = [login EXCEPT ![l] = s]
    BY <1>2, Zenon
  <2> HIDE DEF b
  <2>2. login[l] \in LoginState /\ login \in [Login -> LoginState]
    BY <1>1, StepFacts
  <2>3. login'[l] = s
    BY <2>1, <2>2
  <2>4. /\ s.pc = login[l].pc /\ s.result = login[l].result
        /\ s.owner = login[l].owner /\ s.adding = login[l].adding
        /\ s.doomed = login[l].doomed \ {oid} /\ s.missed = b
    BY <2>2 DEF LoginState
  <2> QED
    BY <1>1, <2>3, <2>4
<1>4. Accounts(u)' = Accounts(u) /\ Account(u)' = Account(u)
  BY <1>1, StepFacts DEF Accounts, Account
<1>5. InFlight(u)' = InFlight(u)
  BY <1>1, <1>3, StillInFlight, StepFacts DEF InFlight
<1>6. Kept(l)' = Kept(l)
  BY <1>2, <1>3 DEF Kept, Stored
<1>7. ASSUME login[l].alone
      PROVE  /\ ~ login'[l].missed
             /\ login'[l].doomed \subseteq {c.oid : c \in Stored(login[l].owner)'}
  <2>1. login[l].doomed \subseteq {c.oid : c \in Stored(login[l].owner)}
    BY <1>1, <1>7 DEF HealInv, AloneInv
  <2>2. \E c \in claims : c.oid = oid
    BY <2>1 DEF Stored
  <2>3. ASSUME NEW d \in login'[l].doomed
        PROVE  d \in {c.oid : c \in Stored(login[l].owner)'}
    <3>1. PICK c \in Stored(login[l].owner) : c.oid = d
      BY <1>3, <2>1, <2>3
    <3>2. c \in claims' /\ c.owner = login'[l].owner
      BY <1>2, <1>3, <2>3, <3>1 DEF Stored
    <3> QED
      BY <1>3, <3>1, <3>2 DEF Stored
  <2>4. ~ login[l].missed
    BY <1>1, <1>7 DEF HealInv, AloneInv, InFlight
  <2>5. ~ login'[l].missed
    BY <1>3, <2>2, <2>4, Zenon
  <2> QED
    BY <2>3, <2>5
<1>8. AloneInv(l)'
  BY <1>1, <1>3, <1>4, <1>5, <1>6, <1>7, StepFacts DEF HealInv, AloneInv
<1> QED
  BY <1>1, <1>8, StepHeals

LEMMA InsertOneHeal ==
    ASSUME HealInv, NEW l \in Login, InsertOne(l)
    PROVE  HealInv'
<1> DEFINE u == login[l].principal.user
           p == login[l].principal
<1>1. LoginStep(l) /\ settled' = settled /\ users' = users /\ login[l].pc = "write"
  BY DEF InsertOne, LoginStep
<1>2. PICK k \in login[l].adding :
        /\ claims' = claims \cup {[oid |-> nextOid, owner |-> login[l].owner,
                                   type |-> k.type, value |-> k.value]}
        /\ login' = [login EXCEPT ![l] =
                       [login[l] EXCEPT !.adding = login[l].adding \ {k}]]
  BY DEF InsertOne
<1>3. /\ login'[l].pc = "write" /\ login'[l].result = login[l].result
      /\ login'[l].owner = login[l].owner /\ login'[l].doomed = login[l].doomed
      /\ login'[l].missed = login[l].missed
      /\ login'[l].adding = login[l].adding \ {k}
  BY <1>1, <1>2, StepFacts DEF LoginState
<1>4. Accounts(u)' = Accounts(u) /\ Account(u)' = Account(u)
  BY <1>1, StepFacts DEF Accounts, Account
<1>5. InFlight(u)' = InFlight(u)
  BY <1>1, <1>3, StillInFlight, StepFacts DEF InFlight
<1> DEFINE new == [oid |-> nextOid, owner |-> login[l].owner,
                   type |-> k.type, value |-> k.value]
<1>6. /\ new.oid = nextOid /\ new.owner = login[l].owner
      /\ new.type = k.type /\ new.value = k.value
  OBVIOUS
<1>7. claims' = claims \cup {new}
  BY <1>2
<1> HIDE DEF new
<1>8. Stored(login[l].owner) \subseteq Stored(login[l].owner)'
  BY <1>3, <1>7 DEF Stored
<1>9. nextOid \notin login[l].doomed
  <2>1. nextOid \in Nat /\ \A oid \in login[l].doomed : oid < nextOid
    BY <1>1 DEF HealInv, StoreInv, Owns, Typed, TypeOK
  <2> QED
    BY <2>1
<1>10. Kept(l)' = Kept(l) \cup {new}
  BY <1>3, <1>6, <1>7, <1>9 DEF Kept, Stored
<1>11. ASSUME login[l].alone
       PROVE  Holds(Kept(l)', NonIdClaims(p) \ (login[l].adding \ {k}))
  <2> DEFINE K == NonIdClaims(p) \ login[l].adding
             L == NonIdClaims(p) \ (login[l].adding \ {k})
  <2>1. Holds(Kept(l), K) /\ login[l].adding \subseteq NonIdClaims(p)
    BY <1>1, <1>11 DEF HealInv, AloneInv
  <2>2. L = K \cup {k} /\ k \notin K
    BY <2>1
  <2>3. [type |-> k.type, value |-> k.value] = k
    <3>1. k \in Claim
      BY <2>1, NonIdClaimsTyped, StepFacts, <1>1
    <3> QED
      BY <3>1 DEF Claim
  <2>4. ASSUME NEW c \in Kept(l)
        PROVE  c.type # k.type
    <3>1. PICK n \in K : n = [type |-> c.type, value |-> c.value]
      BY <2>1 DEF Holds
    <3>2. n.type = c.type /\ n # k
      BY <2>2, <3>1
    <3> QED
      BY <2>1, <3>2, NonIdClaimsFacts, StepFacts, <1>1
  <2> HIDE DEF K, L
  <2>5. \A c \in Kept(l) \cup {new} : [type |-> c.type, value |-> c.value] \in L
    BY <1>6, <2>1, <2>2, <2>3 DEF Holds
  <2>6. \A n \in L : \E c \in Kept(l) \cup {new} : c.type = n.type /\ c.value = n.value
    BY <1>6, <2>1, <2>2 DEF Holds
  <2>7. \A c, d \in Kept(l) \cup {new} : c.type = d.type => c = d
    BY <1>6, <2>1, <2>4 DEF Holds
  <2> QED
    BY <1>10, <2>5, <2>6, <2>7 DEF Holds, L
<1>12. AloneInv(l)'
  <2>1. SUFFICES ASSUME login[l].alone
                 PROVE  AloneInv(l)'
    BY StepFacts, <1>1 DEF AloneInv
  <2>2. login'[l].adding \subseteq NonIdClaims(p)
    BY <1>1, <1>3, <2>1 DEF HealInv, AloneInv
  <2>3. login[l].doomed \subseteq {c.oid : c \in Stored(login[l].owner)'}
    <3>1. login[l].doomed \subseteq {c.oid : c \in Stored(login[l].owner)}
      BY <1>1, <2>1 DEF HealInv, AloneInv
    <3> SUFFICES ASSUME NEW d \in login[l].doomed
                 PROVE  \E c \in Stored(login[l].owner)' : c.oid = d
      BY <1>3 DEF Stored
    <3>2. PICK c \in Stored(login[l].owner) : c.oid = d
      BY <3>1
    <3> QED
      BY <1>8, <3>2
  <2>4. Holds(Kept(l)', NonIdClaims(p) \ login'[l].adding)
    BY <1>3, <1>11, <2>1
  <2> QED
    BY <1>1, <1>3, <1>4, <1>5, <2>1, <2>2, <2>3, <2>4, StepFacts DEF HealInv, AloneInv
<1> QED
  BY <1>1, <1>12, StepHeals

(* The batch of a login that ran alone is written: its user has settled.     *)
LEMMA CompleteHeal ==
    ASSUME HealInv, NEW l \in Login, Complete(l)
    PROVE  HealInv'
<1> DEFINE u == login[l].principal.user
           p == login[l].principal
<1>1. /\ LoginStep(l) /\ UNCHANGED <<users, claims>> /\ login[l].pc = "write"
      /\ login[l].doomed = {} /\ login[l].adding = {}
      /\ settled' = IF login[l].alone THEN [settled EXCEPT ![u] = p] ELSE settled
  BY DEF Complete, LoginStep, database
<1>2. /\ login'[l].pc = "off"
      /\ login'[l].result = IF login[l].missed THEN "conflict" ELSE "ok"
  BY <1>1, StepFacts DEF Complete, Finish, LoginState
<1>3. StoreInv'
  BY EndStore DEF HealInv
<1>4. Accounts(u)' = Accounts(u) /\ Account(u)' = Account(u)
  BY <1>1, StepFacts DEF Accounts, Account
<1>5. settled \in [User -> Principal \cup {None}] /\ p \in Principal /\ u \in User
      /\ settled[u] = None
  BY <1>1, StepFacts DEF HealInv, StoreInv, Typed, TypeOK
<1>6. ASSUME login[l].alone, NEW w \in User, w = u
      PROVE  SettledInv(w)' /\ login'[l].result # "conflict"
  <2>1. /\ InFlight(u) = {l} /\ ~ login[l].missed
        /\ Accounts(u) # {} /\ login[l].owner = Account(u).oid
        /\ Account(u).profile = ProfileOf(p)
        /\ Holds(Kept(l), NonIdClaims(p) \ login[l].adding)
    BY <1>1, <1>6 DEF HealInv, AloneInv
  <2>2. InFlight(u)' = {}
    BY <1>1, <1>2, <2>1, StepFacts DEF InFlight
  <2>3. Kept(l) = Stored(Account(u).oid) /\ NonIdClaims(p) \ login[l].adding = NonIdClaims(p)
    BY <1>1, <2>1 DEF Kept
  <2>4. Stored(Account(u).oid)' = Stored(Account(u).oid)
    BY <1>1, <1>4 DEF Stored
  <2>5. settled'[u] = p
    BY <1>1, <1>5, <1>6
  <2> QED
    BY <1>2, <1>4, <1>6, <2>1, <2>2, <2>3, <2>4, <2>5, StepFacts, <1>1 DEF SettledInv
<1>7. AloneInv(l)'
  BY <1>1, <1>2, <1>5, <1>6, StepFacts DEF AloneInv
<1>8. ASSUME NEW w \in User
      PROVE  SettledInv(w)'
  <2>1. CASE w # u
    <3>1. settled'[w] = settled[w]
      BY <1>1, <1>5, <2>1
    <3>2. LoginStep(l)
      BY <1>1
    <3> QED
      BY <2>1, <3>1, <3>2, OthersHeal
  <2>2. CASE w = u /\ login[l].alone
    BY <1>6, <2>2
  <2>3. CASE w = u /\ ~ login[l].alone
    BY <1>1, <1>5, <2>3 DEF SettledInv
  <2> QED
    BY <2>1, <2>2, <2>3
<1>9. \A m \in Login : AloneInv(m)'
  BY <1>1, <1>7, OthersHeal
<1> QED
  BY <1>3, <1>8, <1>9 DEF HealInv

LEMMA LoginFailsHeal ==
    ASSUME HealInv, NEW l \in Login, LoginFails(l)
    PROVE  HealInv'
<1>1. login'[l].pc = "off" /\ login'[l].result = "failed"
  BY StepFacts DEF LoginFails, Finish, LoginState
<1>2. AloneInv(l)'
  BY <1>1 DEF AloneInv
<1>3. settled' = settled
  BY DEF LoginFails
<1> QED
  BY <1>2, <1>3, StepHeals

LEMMA RestartHeal ==
    ASSUME HealInv, Restart
    PROVE  HealInv'
<1>1. StoreInv'
  BY RestartStore DEF HealInv
<1>2. UNCHANGED <<users, claims, settled>> /\ login' = [l \in Login |-> IdleLogin]
  BY DEF Restart, database
<1>3. \A l \in Login : login'[l].pc = "off" /\ ~ login'[l].alone
  BY <1>2 DEF IdleLogin
<1>4. \A l \in Login : AloneInv(l)'
  BY <1>3 DEF AloneInv
<1>5. ASSUME NEW u \in User
      PROVE  SettledInv(u)'
  <2>1. InFlight(u)' = {}
    BY <1>3 DEF InFlight
  <2>2. Accounts(u)' = Accounts(u) /\ Account(u)' = Account(u)
    BY <1>2 DEF Accounts, Account
  <2>3. Stored(Account(u).oid)' = Stored(Account(u).oid)
    BY <1>2, <2>2 DEF Stored
  <2> QED
    BY <1>2, <2>1, <2>2, <2>3 DEF HealInv, SettledInv
<1> QED
  BY <1>1, <1>4, <1>5 DEF HealInv

LEMMA StutterHeal ==
    ASSUME HealInv, UNCHANGED vars
    PROVE  HealInv'
<1>1. StoreInv'
  BY NextStore DEF HealInv
<1>2. UNCHANGED <<users, claims, settled, login>>
  BY DEF vars
<1>3. \A u : InFlight(u)' = InFlight(u)
  BY <1>2 DEF InFlight
<1>4. \A u : SameDocuments(u)
  BY <1>2 DEF SameDocuments, Accounts
<1>5. \A u \in User : SettledInv(u)'
  BY <1>2, <1>3, <1>4, SettledFrame
<1>6. \A l \in Login : AloneInv(l)'
  BY <1>2, <1>3, <1>4, AloneFrame
<1> QED
  BY <1>1, <1>5, <1>6 DEF HealInv

LEMMA NextHeal == HealInv /\ [Next]_vars => HealInv'
<1> SUFFICES ASSUME HealInv, [Next]_vars PROVE HealInv'
  OBVIOUS
<1>1. CASE Restart
  BY <1>1, RestartHeal
<1>2. CASE UNCHANGED vars
  BY <1>2, StutterHeal
<1>3. ASSUME NEW l \in Login, Begin(l) \/ LoginStep(l) \/ LoginFails(l)
      PROVE  HealInv'
  BY <1>3, BeginHeal, FindHeal, SaveNewHeal, SaveFoundHeal, ListHeal,
     DeleteOneHeal, InsertOneHeal, CompleteHeal, LoginFailsHeal DEF LoginStep
<1> QED
  BY <1>1, <1>2, <1>3 DEF Next

(* After a login that no other login of its user overlapped, userinfo        *)
(* answers what that login said, whatever earlier logins left in the store   *)
(* and at whichever step a failure or a restart stopped them, and such a     *)
(* login does not end in a concurrency exception (PersistClaims, Userinfo).  *)
THEOREM LastLoginIsAnswered == Spec => []AnswersLastLogin
<1>1. HealInv => AnswersLastLogin
  <2> SUFFICES ASSUME HealInv PROVE AnswersLastLogin
    OBVIOUS
  <2>1. ASSUME NEW u \in User, settled[u] # None
        PROVE  Userinfo(u) = [status |-> "ok",
                              says |-> [t \in ClaimType |-> FirstOf(settled[u], t)]]
    <3>1. settled[u] \in Principal
      BY <2>1 DEF HealInv, StoreInv, Typed, TypeOK
    <3>2. /\ StoreInv /\ Accounts(u) # {}
          /\ Account(u).profile = ProfileOf(settled[u])
          /\ Holds(Stored(Account(u).oid), NonIdClaims(settled[u]))
      BY <2>1 DEF HealInv, SettledInv
    <3> QED
      BY <3>1, <3>2, AnswerMirrors
  <2>2. \A l \in Login : login[l].alone => login[l].result # "conflict"
    BY DEF HealInv, AloneInv
  <2> QED
    BY <2>1, <2>2 DEF AnswersLastLogin
<1>2. Spec => []HealInv
  BY InitHeal, NextHeal, PTL DEF Spec
<1> QED
  BY <1>1, <1>2, PTL

-----------------------------------------------------------------------------
(* The store and userinfo are a directory.                                   *)

Unknown == [status |-> "unknown"]

AnswersInv ==
    \A u \in User : /\ Userinfo(u) \in Answer
                    /\ Accounts(u) # {} => Userinfo(u) # Unknown

LEMMA AnswersTyped == StoreInv => AnswersInv
<1> SUFFICES ASSUME StoreInv, NEW u \in User
             PROVE  /\ Userinfo(u) \in Answer
                    /\ Accounts(u) # {} => Userinfo(u) # Unknown
  BY DEF AnswersInv
<1> DEFINE a == Account(u)
           mine == Stored(a.oid)
           stored(t) == IF \E c \in mine : c.type = t
                        THEN (CHOOSE c \in mine : c.type = t).value
                        ELSE IF t \in IdType THEN a.profile[t] ELSE None
<1>1. CASE Accounts(u) = {}
  BY <1>1 DEF Userinfo, Answer
<1>2. CASE Accounts(u) # {} /\ \E c, d \in mine : c # d /\ c.type = d.type
  BY <1>2 DEF Userinfo, Answer, Unknown
<1>3. CASE Accounts(u) # {} /\ ~ \E c, d \in mine : c # d /\ c.type = d.type
  <2>1. a \in AppUser
    BY <1>3, AccountIsFirst DEF StoreInv, Typed, TypeOK, Accounts
  <2>2. \A c \in mine : c.value \in Value
    BY DEF Stored, StoreInv, Typed, TypeOK, AppUserClaim
  <2>3. \A t \in IdType : a.profile[t] \in Value \cup {None}
    BY <2>1 DEF AppUser, Profile
  <2>4. Userinfo(u) = [status |-> "ok", says |-> [t \in ClaimType |-> stored(t)]]
    BY <1>3 DEF Userinfo
  <2> HIDE DEF a, mine
  <2>5. \A t \in ClaimType : stored(t) \in Value \cup {None}
    BY <2>2, <2>3
  <2> HIDE DEF stored
  <2>6. [t \in ClaimType |-> stored(t)] \in [ClaimType -> Value \cup {None}]
    BY <2>5
  <2> QED
    BY <2>4, <2>6 DEF Answer, Unknown
<1> QED
  BY <1>1, <1>2, <1>3

LEMMA InitDirectory == Init => Directory!Init
BY DEF Init, Directory!Init, Userinfo, Accounts, InFlight, IdleLogin

(* Steps that write nothing and end no login.                                *)
LEMMA ReadIsQuiet ==
    ASSUME HealInv, NEW l \in Login, Find(l) \/ List(l)
    PROVE  UNCHANGED Directory!vars
<1>1. UNCHANGED <<users, claims, settled>> /\ LoginStep(l)
  BY DEF Find, List, database, LoginStep
<1>2. login'[l].pc # "off"
  BY StepFacts, <1>1 DEF Find, List, LoginState
<1>3. \A u : InFlight(u)' = InFlight(u)
  BY <1>1, <1>2, StepFacts DEF InFlight
<1>4. \A u : Userinfo(u)' = Userinfo(u)
  BY <1>1, SameStoreSameAnswers
<1> QED
  BY <1>1, <1>3, <1>4 DEF Directory!vars

LEMMA WriteWrites ==
    ASSUME HealInv, HealInv', NEW l \in Login,
           SaveNew(l) \/ SaveFound(l) \/ DeleteOne(l) \/ InsertOne(l)
    PROVE  Directory!Write
<1>1. LoginStep(l) /\ settled' = settled
  BY DEF SaveNew, SaveFound, DeleteOne, InsertOne, LoginStep
<1>u. PICK u \in User : u = login[l].principal.user
  BY <1>1, StepFacts
<1>2. login'[l].pc # "off"
  <2>1. CASE SaveNew(l)
    BY <1>1, <2>1, StepFacts DEF SaveNew, LoginState
  <2>2. CASE SaveFound(l)
    BY <1>1, <2>2, StepFacts DEF SaveFound, LoginState
  <2>3. CASE DeleteOne(l)
    BY <1>1, <2>3, StepFacts DEF DeleteOne, LoginState
  <2>4. CASE InsertOne(l)
    BY <1>1, <2>4, StepFacts DEF InsertOne, LoginState
  <2> QED
    BY <2>1, <2>2, <2>3, <2>4
<1>3. InFlight(u) # {} /\ settled[u] = None
  BY <1>1, <1>u, StepFacts DEF InFlight
<1>4. \A w : InFlight(w)' = InFlight(w)
  BY <1>1, <1>2, StepFacts DEF InFlight
<1>5. \A w : w # u => Userinfo(w)' = Userinfo(w)
  BY <1>1, <1>u, LoginTouchesItsUser, UserinfoDepends DEF HealInv
<1>6. \E a \in users' : a.user = u
  <2>1. CASE SaveNew(l)
    <3>1. [oid |-> nextOid, user |-> u, profile |-> ProfileOf(login[l].principal)]
            \in users'
      BY <1>u, <2>1 DEF SaveNew
    <3> QED
      BY <3>1
  <2>2. CASE ~ SaveNew(l)
    <3>1. login[l].owner # 0
      BY <2>2, <1>1 DEF SaveFound, DeleteOne, InsertOne, HealInv, StoreInv, Typed, LoginShape
    <3>2. PICK a \in users : a.oid = login[l].owner /\ a.user = u
      BY <1>1, <1>u, <3>1, StepFacts DEF HealInv, StoreInv, Owns
    <3>3. CASE SaveFound(l)
      <4>1. Changed(l, a) \in users' /\ Changed(l, a).user = a.user
        BY <3>2, <3>3 DEF SaveFound, Changed, HealInv, StoreInv, Typed, TypeOK, AppUser
      <4> QED
        BY <3>2, <4>1
    <3>4. CASE DeleteOne(l) \/ InsertOne(l)
      BY <3>2, <3>4 DEF DeleteOne, InsertOne
    <3> QED
      BY <2>2, <3>3, <3>4
  <2> QED
    BY <2>1, <2>2
<1>7. Accounts(u)' # {}
  BY <1>6 DEF Accounts
<1>8. (StoreInv => AnswersInv)'
  BY AnswersTyped, PTL
<1>9. /\ \A w \in User : Userinfo(w)' \in Answer
      /\ Userinfo(u)' # Unknown
  BY <1>7, <1>8 DEF HealInv, AnswersInv, Unknown
<1> QED
  BY <1>1, <1>3, <1>4, <1>5, <1>9 DEF Directory!Write, Unknown

(* The users with logins under way, before and after a step.                *)
Active == {u \in User : InFlight(u) # {}}

LEMMA BeginBegins ==
    ASSUME HealInv, NEW l \in Login, Begin(l)
    PROVE  Directory!Begin /\ \A u : Userinfo(u)' = Userinfo(u)
<1>1. PICK p \in Principal :
        /\ login' = [m \in Login |->
                       IF m = l
                       THEN [IdleLogin EXCEPT !.pc = "find", !.principal = p,
                                              !.alone = InFlight(p.user) = {}]
                       ELSE IF m \in InFlight(p.user)
                            THEN [login[m] EXCEPT !.alone = FALSE]
                            ELSE login[m]]
        /\ settled' = [settled EXCEPT ![p.user] = None]
  BY DEF Begin
<1>2. UNCHANGED <<users, claims>> /\ login[l].pc = "off"
  BY DEF Begin, database
<1>3. login \in [Login -> LoginState]
  BY DEF HealInv, StoreInv, Typed, TypeOK
<1>4. login'[l].pc = "find" /\ login'[l].principal = p
  BY <1>1 DEF IdleLogin
<1>5. ASSUME NEW m \in Login, m # l
      PROVE  login'[m].pc = login[m].pc /\ login'[m].principal = login[m].principal
  BY <1>1, <1>3, <1>5 DEF LoginState
<1>6. \A u : u # p.user => InFlight(u)' = InFlight(u)
  BY <1>2, <1>4, <1>5 DEF InFlight
<1>7. InFlight(p.user)' # {}
  BY <1>4 DEF InFlight
<1>8. p.user \in User
  BY PrincipalAssumption
<1>9. Active' = Active \cup {p.user}
  BY <1>6, <1>7, <1>8 DEF Active
<1>10. Directory!Begin
  BY <1>1, <1>8, <1>9 DEF Directory!Begin, Active
<1> QED
  BY <1>2, <1>10, SameStoreSameAnswers

(* A login that ends was under way, and no other user's login ends with it.  *)
LEMMA LoginEnds ==
    ASSUME HealInv, NEW l \in Login, Complete(l) \/ LoginFails(l)
    PROVE  /\ UNCHANGED <<users, claims>>
           /\ \A u : u # login[l].principal.user => InFlight(u)' = InFlight(u)
           /\ InFlight(login[l].principal.user) = {l} =>
                \A u : u = login[l].principal.user => InFlight(u)' = {}
           /\ Active' \subseteq Active
<1>1. LoginStep(l) \/ LoginFails(l)
  BY DEF LoginStep
<1>2. login'[l].pc = "off"
  <2>1. CASE Complete(l)
    BY <1>1, <2>1, StepFacts DEF Complete, Finish, LoginState
  <2>2. CASE LoginFails(l)
    BY <1>1, <2>2, StepFacts DEF LoginFails, Finish, LoginState
  <2> QED
    BY <2>1, <2>2
<1>3. UNCHANGED <<users, claims>>
  BY DEF Complete, LoginFails, database
<1>4. \A u : InFlight(u)' = InFlight(u) \ {l}
  BY <1>1, <1>2, StepFacts DEF InFlight
<1>5. \A u : u # login[l].principal.user => l \notin InFlight(u)
  BY DEF InFlight
<1>6. Active' \subseteq Active
  BY <1>4 DEF Active
<1> QED
  BY <1>3, <1>4, <1>5, <1>6

LEMMA CompleteSettles ==
    ASSUME HealInv, NEW l \in Login, Complete(l), login[l].alone
    PROVE  Directory!Settle
<1>1. PICK p \in Principal : p = login[l].principal
  BY StepFacts DEF LoginStep
<1>2. /\ login[l].pc = "write" /\ login[l].doomed = {} /\ login[l].adding = {}
      /\ settled' = [settled EXCEPT ![p.user] = p]
  BY <1>1 DEF Complete
<1>3. /\ InFlight(p.user) = {l} /\ Accounts(p.user) # {}
      /\ login[l].owner = Account(p.user).oid
      /\ Account(p.user).profile = ProfileOf(p)
      /\ Holds(Kept(l), NonIdClaims(p) \ login[l].adding)
  BY <1>1, <1>2 DEF HealInv, AloneInv
<1>4. Kept(l) = Stored(Account(p.user).oid) /\ NonIdClaims(p) \ login[l].adding = NonIdClaims(p)
  BY <1>2, <1>3 DEF Kept
<1>5. Userinfo(p.user) = Says[p]
  BY <1>3, <1>4, AnswerMirrors DEF HealInv, Says
<1>6. p.user \in User
  BY PrincipalAssumption
<1>7. Active' = Active \ {p.user}
  BY <1>1, <1>3, LoginEnds DEF Active
<1>8. p.user \in Active
  BY <1>3, <1>6 DEF Active
<1> QED
  BY <1>2, <1>5, <1>6, <1>7, <1>8 DEF Directory!Settle, Active

LEMMA NextDirectory ==
    ASSUME HealInv, HealInv', [Next]_vars
    PROVE  Directory!Next \/ UNCHANGED Directory!vars
<1> SUFFICES ASSUME ~ UNCHANGED Directory!vars PROVE Directory!Next
  OBVIOUS
<1>1. ASSUME NEW l \in Login, Begin(l)
      PROVE  Directory!Next
  BY <1>1, BeginBegins DEF Directory!Next
<1>2. ASSUME NEW l \in Login, Find(l) \/ List(l)
      PROVE  Directory!Next
  BY <1>2, ReadIsQuiet
<1>3. ASSUME NEW l \in Login,
             SaveNew(l) \/ SaveFound(l) \/ DeleteOne(l) \/ InsertOne(l)
      PROVE  Directory!Next
  BY <1>3, WriteWrites DEF Directory!Next
<1>4. ASSUME NEW l \in Login, Complete(l) \/ LoginFails(l)
      PROVE  Directory!Next
  <2>1. \A u : Userinfo(u)' = Userinfo(u)
    BY <1>4, LoginEnds, SameStoreSameAnswers
  <2>2. CASE Complete(l) /\ login[l].alone
    BY <2>1, <2>2, CompleteSettles DEF Directory!Next
  <2>3. CASE LoginFails(l) \/ ~ login[l].alone
    <3>1. settled' = settled
      BY <1>4, <2>3 DEF Complete, LoginFails
    <3>2. Active' \subseteq Active
      BY <1>4, LoginEnds
    <3>3. Directory!End
      BY <3>1, <3>2 DEF Directory!End, Active
    <3> QED
      BY <2>1, <3>3 DEF Directory!Next
  <2> QED
    BY <1>4, <2>2, <2>3
<1>5. CASE Restart
  <2>1. UNCHANGED <<users, claims, settled>> /\ login' = [l \in Login |-> IdleLogin]
    BY <1>5 DEF Restart, database
  <2>2. \A u : InFlight(u)' = {}
    BY <2>1 DEF InFlight, IdleLogin
  <2>3. Directory!End
    BY <2>1, <2>2 DEF Directory!End
  <2>4. \A u : Userinfo(u)' = Userinfo(u)
    BY <2>1, SameStoreSameAnswers
  <2> QED
    BY <2>3, <2>4 DEF Directory!Next
<1>6. CASE UNCHANGED vars
  <2>1. UNCHANGED <<users, claims, settled, login>>
    BY <1>6 DEF vars
  <2>2. \A u : InFlight(u)' = InFlight(u)
    BY <2>1 DEF InFlight
  <2>3. \A u : Userinfo(u)' = Userinfo(u)
    BY <2>1, SameStoreSameAnswers
  <2> QED
    BY <2>1, <2>2, <2>3 DEF Directory!vars
<1> QED
  BY <1>1, <1>2, <1>3, <1>4, <1>5, <1>6 DEF Next, LoginStep

(* The user store and userinfo keep the promise of a directory: what a user   *)
(* is answered changes only while this user logs in, never back to unknown,   *)
(* and repeats the last login that ran alone (PersistClaims, Userinfo).       *)
THEOREM StoreIsADirectory == Spec => ImplementsDirectory
<1>1. HealInv /\ HealInv' /\ [Next]_vars => [Directory!Next]_(Directory!vars)
  BY NextDirectory
<1> QED
  BY <1>1, InitDirectory, InitHeal, NextHeal, PTL
  DEF Spec, ImplementsDirectory, Directory!Spec
=============================================================================
